--------------------------- MODULE MCCacheOverIp ---------------------------
(* Clusters: who is in which process, where first-level caches are, which      *)
(* server a key has.                                                           *)
EXTENDS CacheOverIp, TLC

CONSTANTS t1, t2, p1, p2, k1

TwoProcesses == t1 :> p1 @@ t2 :> p2
OneProcess   == t1 :> p1 @@ t2 :> p1

\* Two processes, each with a first-level cache of its own.
EachL1    == [procs |-> TwoProcesses, l1 |-> {p1, p2}, conns |-> 1, hash |-> k1 :> 1, restarts |-> 0]
\* Two threads that share a first-level cache, and two servers.
SharedL1  == [procs |-> OneProcess, l1 |-> {p1}, conns |-> 2, hash |-> k1 :> 2, restarts |-> 0]
\* Two processes without first-level caches, and a server that restarts.
NoL1      == [procs |-> TwoProcesses, l1 |-> {}, conns |-> 1, hash |-> k1 :> 1, restarts |-> 1]
\* One of two processes has a first-level cache, and the server restarts.
RestartL1 == [procs |-> TwoProcesses, l1 |-> {p1}, conns |-> 1, hash |-> k1 :> 1, restarts |-> 1]
Safe       == {EachL1, SharedL1, NoL1}
Restarting == {RestartL1}
=============================================================================
