------------------------------ MODULE JobPool ------------------------------
(***************************************************************************)
(* What the thread pool promises to those who post jobs to it: every job   *)
(* is started at most once, in the order of posting, by one of a bounded   *)
(* number of executors; a job that was withdrawn before it started never   *)
(* runs; no job starts once the pool is closed.                            *)
(***************************************************************************)
EXTENDS Integers, FiniteSets

CONSTANT Executors          \* the threads that may each run one job at a time

VARIABLES next,             \* number of jobs posted so far; job n is the n-th
          pending,          \* posted, neither started nor withdrawn
          active,           \* what each executor runs: a job, or NoJob
          closed

jobVars == <<next, pending, active, closed>>

NoJob == -1

JInit == /\ next = 0
         /\ pending = {}
         /\ active = [w \in Executors |-> NoJob]
         /\ closed = FALSE

Submit == /\ next' = next + 1
          /\ pending' = pending \cup {next}
          /\ UNCHANGED <<active, closed>>

Withdraw(n) == /\ n \in pending
               /\ pending' = pending \ {n}
               /\ UNCHANGED <<next, active, closed>>

\* The oldest pending job goes to an executor that has none.
Start(w, n) == /\ ~closed
               /\ active[w] = NoJob
               /\ n \in pending
               /\ \A m \in pending : n <= m
               /\ active' = [active EXCEPT ![w] = n]
               /\ pending' = pending \ {n}
               /\ UNCHANGED <<next, closed>>

Finish(w) == /\ active[w] # NoJob
             /\ active' = [active EXCEPT ![w] = NoJob]
             /\ UNCHANGED <<next, pending, closed>>

Close == /\ closed' = TRUE
         /\ UNCHANGED <<next, pending, active>>

JNext == \/ Submit
         \/ \E n \in pending : Withdraw(n)
         \/ \E w \in Executors, n \in pending : Start(w, n)
         \/ \E w \in Executors : Finish(w)
         \/ Close

JSpec == JInit /\ [][JNext]_jobVars
=============================================================================
