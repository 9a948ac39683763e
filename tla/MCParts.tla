------------------------------ MODULE MCParts ------------------------------
(***************************************************************************)
(* Parts that can be checked by themselves.  A behaviour is one of one of  *)
(* them, under the fairness of those that make calls:                      *)
(*   - the pool of applications (ApplicationsPool, with both policies);    *)
(*   - the data structures under the cache and the sessions, each changed  *)
(*     one operation at a time: the hash map, the allocator of shared      *)
(*     memory, and the sessions in memory;                                 *)
(*   - calls that a request makes to what lies outside of its process: to  *)
(*     the cache servers (CacheOverIp) and to the session files            *)
(*     (SessionFileStorage).                                               *)
(***************************************************************************)
EXTENDS ApplicationsPool, TLC

CONSTANTS s1, s2, s3, s4, v, t1, t2, p1, p2, k1, i1, i2, i3, Nil

VARIABLES which,
          list_, hash_, size_, content,
          free_list_, head, owned,
          map_, timeout_, clock,
          cluster, l1, server, generation, call, got, stores, restarts, kept, dead,
          setup, dir, inode, thread, loaded, now, called, crashes

mapVars     == <<list_, hash_, size_, content>>
memoryVars  == <<free_list_, head, owned>>
sessionVars == <<map_, timeout_, clock>>
cacheVars   == <<cluster, l1, server, generation, call, got, stores, restarts, kept, dead>>
fileVars    == <<setup, dir, inode, thread, loaded, now, called, crashes>>

\* Hash values that collide in small tables.
HashValues == 1 :> 0 @@ 2 :> 2 @@ 3 :> 4 @@ 4 :> 3 @@ 5 :> 6

Map == INSTANCE HashMap WITH Keys <- 1..5, Hash <- HashValues, MaxTable <- 3

\* A memory whose size is no power of two.
Memory == INSTANCE BuddyAllocator WITH memory_size_ <- 7, alignment <- 1

Sessions == INSTANCE SessionMemory WITH
    Sids <- {s1, s2, s3, s4}, Values <- {v}, Batch <- 2, MaxTime <- 3, now <- clock

\* One of two processes has a first-level cache; there are two servers, and one of
\* them restarts.
Cluster == [procs |-> t1 :> p1 @@ t2 :> p2, l1 |-> {p1}, conns |-> 2, hash |-> k1 :> 2,
            restarts |-> 1]

Cache == INSTANCE CacheOverIp WITH
    Threads <- {t1, t2}, Procs <- {p1, p2}, Keys <- {k1}, Tags <- {}, Clusters <- {Cluster},
    MaxStores <- 1

\* Two processes, one of which may die; they lock the files, or share the mutexes.
Locked == [file_lock_ |-> TRUE, process |-> t1 :> p1 @@ t2 :> p2, calls |-> 3, crashes |-> 1]
Shared == [Locked EXCEPT !.file_lock_ = FALSE]

Files == INSTANCE SessionFileStorage WITH
    Threads <- {t1, t2}, Sids <- {s1}, PosOf <- s1 :> 0, Setups <- {Locked, Shared},
    Inodes <- {i1, i2, i3}, Contents <- {<<"a">>}, MaxTime <- 0, got <- loaded

PartsInit ==
    /\ which \in {"pool", "map", "memory", "sessions", "cache", "files"}
    /\ Init /\ Map!Init /\ Memory!Init /\ Sessions!Init /\ Cache!Init /\ Files!Init
    /\ which # "pool" => ~legacy /\ apps_ = <<>>       \* the pool is not used
    /\ which # "files" => setup = Locked               \* nor are the files

PartsNext ==
    /\ \/ /\ which = "pool" /\ Next
          /\ UNCHANGED <<mapVars, memoryVars, sessionVars, cacheVars, fileVars>>
       \/ /\ which = "map" /\ Map!Next
          /\ UNCHANGED <<vars, memoryVars, sessionVars, cacheVars, fileVars>>
       \/ /\ which = "memory" /\ Memory!Next
          /\ UNCHANGED <<vars, mapVars, sessionVars, cacheVars, fileVars>>
       \/ /\ which = "sessions" /\ Sessions!Next
          /\ UNCHANGED <<vars, mapVars, memoryVars, cacheVars, fileVars>>
       \/ /\ which = "cache" /\ Cache!Next
          /\ UNCHANGED <<vars, mapVars, memoryVars, sessionVars, fileVars>>
       \/ /\ which = "files" /\ Files!Next
          /\ UNCHANGED <<vars, mapVars, memoryVars, sessionVars, cacheVars>>
    /\ UNCHANGED which

PartsSpec ==
    /\ PartsInit
    /\ [][PartsNext]_<<which, vars, mapVars, memoryVars, sessionVars, cacheVars, fileVars>>
    /\ Cache!Fairness /\ Files!Fairness
-----------------------------------------------------------------------------
(* Properties; those of the pool are stated in ApplicationsPool. *)

\* basic_map: what was inserted and not erased is found, and nothing else.
FindsContent == Map!FindsContent

\* buddy_allocator: nobody's memory is given away twice and none is lost, two free
\* halves of a page are never left apart, and the word that free_page() reads at
\* the buddy is the header of a page.
PagesInOrder == Memory!Tiling /\ Memory!Coalesced

\* session_memory_storage: the map and the index hold the same sessions with the
\* same times, each once, and the index is ordered.
IndexAgrees == Sessions!IndexAgrees

\* session_memory_storage: an operation on one session changes what load() returns
\* for this one only, although it collects others.
OnlyOneChanges == Sessions!OnlyOneChanges

\* Every call of the cache ends, with an answer or an exception, however often
\* connections break: messenger::transmit() tries again only once.
CacheCallsEnd == \A t \in {t1, t2} : (call[t] # Cache!Idle) ~> (call[t] = Cache!Idle)

\* Every call of the session files ends, although a process may die with a lock of
\* a file, and a file may be replaced whenever its lock is awaited.  The one
\* exception is a call that needs a mutex of all processes whose owner died: it
\* waits forever.  With file_lock_ there is no such mutex, and every call ends.
FileCallsEnd ==
    \A t \in {t1, t2} : Files!InCall(t) ~> (~Files!InCall(t) \/ Files!Stuck(t))
=============================================================================
