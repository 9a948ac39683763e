----------------------------- MODULE ThreadPool -----------------------------
(***************************************************************************)
(* cppcms::impl::thread_pool (src/thread_pool.cpp): a list of jobs, one    *)
(* mutex, one condition variable and N worker threads.  Every critical     *)
(* section of mutex_ is one action; a job runs outside of it, between      *)
(* WorkerTake and JobReturns.  Threads of the application (the event loop, *)
(* a job that is itself running) call Post, Cancel and Stop at any time.   *)
(*                                                                         *)
(* A job is named by its ticket: the number of posts that preceded it.     *)
(* The id that post() returns is the rolling integer job_id_, so the id    *)
(* of ticket n is n modulo the width of the integer.                       *)
(***************************************************************************)
EXTENDS Integers, FiniteSets, SequencesExt

CONSTANTS N,            \* number of worker threads
          IdMod,        \* number of distinct values of job_id_
          MaxPosts      \* bound on the number of calls of post()

ASSUME PoolAssumption == /\ N \in Nat \ {0}
                         /\ IdMod \in Nat \ {0}
                         /\ MaxPosts \in Nat

Workers == 1..N

VARIABLES
    queue_,         \* tickets of the queued jobs, front first
    job_id_,        \* tickets handed out so far
    shut_down_,
    pc,             \* worker -> "check" | "waiting" | "running" | "exited"
    job,            \* worker -> ticket it runs, or NoJob
    joining,        \* 0: stop() not called; i: joining worker i; N+1: returned
    finished,       \* history: tickets whose job returned
    cancelled       \* history: tickets for which cancel() returned true

vars == <<queue_, job_id_, shut_down_, pc, job, joining, finished, cancelled>>

NoJob == -1

Id(n) == n % IdMod

Queued    == ToSet(queue_)
Waiting   == {w \in Workers : pc[w] = "waiting"}
Awake     == {w \in Workers : pc[w] = "check"}
Running   == {w \in Workers : pc[w] = "running"}
Active    == {job[w] : w \in Running}

Init == /\ queue_ = <<>>
        /\ job_id_ = 0
        /\ shut_down_ = FALSE
        /\ pc = [w \in Workers |-> "check"]
        /\ job = [w \in Workers |-> NoJob]
        /\ joining = 0
        /\ finished = {}
        /\ cancelled = {}

\* cond_.notify_one(): one of the waiting threads goes back to the loop.
notify_one == IF Waiting = {}
              THEN pc' = pc
              ELSE \E w \in Waiting : pc' = [pc EXCEPT ![w] = "check"]

notify_all == pc' = [w \in Workers |-> IF w \in Waiting THEN "check" ELSE pc[w]]

Post_NotifyFirstOnly ==
        /\ job_id_ < MaxPosts
        /\ queue_' = Append(queue_, job_id_)
        /\ job_id_' = job_id_ + 1
        /\ IF queue_ = <<>> THEN notify_one ELSE pc' = pc
        /\ UNCHANGED <<shut_down_, job, joining, finished, cancelled>>

Post == /\ job_id_ < MaxPosts
        /\ queue_' = Append(queue_, job_id_)
        /\ job_id_' = job_id_ + 1
        /\ notify_one
        /\ UNCHANGED <<shut_down_, job, joining, finished, cancelled>>

Cancel_WhileRunning(id) ==
        \E w \in Running :
            /\ Id(job[w]) = id
            /\ cancelled' = cancelled \cup {job[w]}
            /\ UNCHANGED <<queue_, job_id_, shut_down_, pc, job, joining, finished>>

\* cancel(id) erases the first queued job with that id and returns true.  With
\* no such job it returns false and changes nothing, which is a stuttering step.
Cancel(id) ==
        \E i \in 1..Len(queue_) :
            /\ Id(queue_[i]) = id
            /\ \A k \in 1..(i - 1) : Id(queue_[k]) # id
            /\ queue_' = RemoveAt(queue_, i)
            /\ cancelled' = cancelled \cup {queue_[i]}
            /\ UNCHANGED <<job_id_, shut_down_, pc, job, joining, finished>>

\* worker(): the critical section at the top of the loop.
WorkerExit(w) ==
        /\ pc[w] = "check"
        /\ shut_down_
        /\ pc' = [pc EXCEPT ![w] = "exited"]
        /\ UNCHANGED <<queue_, job_id_, shut_down_, job, joining, finished, cancelled>>

WorkerTake_NoPop(w) ==
        /\ pc[w] = "check"
        /\ ~shut_down_
        /\ queue_ # <<>>
        /\ job' = [job EXCEPT ![w] = Head(queue_)]
        /\ pc' = [pc EXCEPT ![w] = "running"]
        /\ UNCHANGED <<queue_, job_id_, shut_down_, joining, finished, cancelled>>

WorkerTake(w) ==
        /\ pc[w] = "check"
        /\ ~shut_down_
        /\ queue_ # <<>>
        /\ job' = [job EXCEPT ![w] = Head(queue_)]
        /\ queue_' = Tail(queue_)
        /\ pc' = [pc EXCEPT ![w] = "running"]
        /\ UNCHANGED <<job_id_, shut_down_, joining, finished, cancelled>>

WorkerWait(w) ==
        /\ pc[w] = "check"
        /\ ~shut_down_
        /\ queue_ = <<>>
        /\ pc' = [pc EXCEPT ![w] = "waiting"]
        /\ UNCHANGED <<queue_, job_id_, shut_down_, job, joining, finished, cancelled>>

\* cond_.wait() may return without a notification.
SpuriousWakeup(w) ==
        /\ pc[w] = "waiting"
        /\ pc' = [pc EXCEPT ![w] = "check"]
        /\ UNCHANGED <<queue_, job_id_, shut_down_, job, joining, finished, cancelled>>

JobReturns_ThreadDies(w) ==
        /\ pc[w] = "running"
        /\ finished' = finished \cup {job[w]}
        /\ job' = [job EXCEPT ![w] = NoJob]
        /\ pc' = [pc EXCEPT ![w] = "exited"]
        /\ UNCHANGED <<queue_, job_id_, shut_down_, joining, cancelled>>

JobReturns_KeepsJob(w) ==
        /\ pc[w] = "running"
        /\ finished' = finished \cup {job[w]}
        /\ job' = job
        /\ pc' = [pc EXCEPT ![w] = "check"]
        /\ UNCHANGED <<queue_, job_id_, shut_down_, joining, cancelled>>

\* job() returned, or threw and the exception was caught and logged.
JobReturns(w) ==
        /\ pc[w] = "running"
        /\ finished' = finished \cup {job[w]}
        /\ job' = [job EXCEPT ![w] = NoJob]
        /\ pc' = [pc EXCEPT ![w] = "check"]
        /\ UNCHANGED <<queue_, job_id_, shut_down_, joining, cancelled>>

Stop_NotifyOne ==
        /\ joining = 0
        /\ shut_down_' = TRUE
        /\ notify_one
        /\ joining' = 1
        /\ UNCHANGED <<queue_, job_id_, job, finished, cancelled>>

\* stop(): the critical section, then one join per worker.
Stop == /\ joining = 0
        /\ shut_down_' = TRUE
        /\ notify_all
        /\ joining' = 1
        /\ UNCHANGED <<queue_, job_id_, job, finished, cancelled>>

Join_NoWait ==
        /\ joining \in Workers
        /\ joining' = joining + 1
        /\ UNCHANGED <<queue_, job_id_, shut_down_, pc, job, finished, cancelled>>

Join == /\ joining \in Workers
        /\ pc[joining] = "exited"
        /\ joining' = joining + 1
        /\ UNCHANGED <<queue_, job_id_, shut_down_, pc, job, finished, cancelled>>

\* The pool has been stopped and nothing is posted any more.
Stopped == /\ joining = N + 1
           /\ UNCHANGED vars

WorkerStep(w) == \/ WorkerExit(w)
                 \/ WorkerTake(w)
                 \/ WorkerWait(w)
                 \/ JobReturns(w)

Next == \/ Post
        \/ \E id \in 0..(IdMod - 1) : Cancel(id)
        \/ \E w \in Workers : WorkerStep(w) \/ SpuriousWakeup(w)
        \/ Stop
        \/ Join
        \/ Stopped

Spec == Init /\ [][Next]_vars

\* A thread that can take mutex_ eventually does, and a job that runs
\* eventually returns; stop() goes on joining once it was called.
FairSpec == /\ Spec
            /\ \A w \in Workers : WF_vars(WorkerStep(w))
            /\ WF_vars(Join)
-----------------------------------------------------------------------------
(* Properties *)

TypeOK == /\ queue_ \in Seq(Nat)
          /\ job_id_ \in Nat
          /\ shut_down_ \in BOOLEAN
          /\ pc \in [Workers -> {"check", "waiting", "running", "exited"}]
          /\ job \in [Workers -> Nat \cup {NoJob}]
          /\ \A w \in Workers : (pc[w] = "running") <=> (job[w] # NoJob)
          /\ joining \in 0..(N + 1)
          /\ finished \subseteq Nat
          /\ cancelled \subseteq Nat

\* Every posted job is in exactly one place: queued, running in one worker,
\* finished or cancelled.  So no job is lost or run twice by racing workers,
\* and a job whose cancel() returned true never runs (thread_pool.h).
JobsConserved ==
    /\ Queued \cup Active \cup finished \cup cancelled = 0..(job_id_ - 1)
    /\ \A i, k \in 1..Len(queue_) : queue_[i] = queue_[k] => i = k
    /\ \A v, w \in Running : job[v] = job[w] => v = w
    /\ Queued \cap Active = {}
    /\ Queued \cap (finished \cup cancelled) = {}
    /\ Active \cap (finished \cup cancelled) = {}
    /\ finished \cap cancelled = {}

Increasing(s) == \A i, k \in 1..Len(s) : i < k => s[i] < s[k]

\* Jobs start in the order they were posted: whatever is running or has
\* finished was posted before everything that is still queued.
StartedInOrder ==
    /\ Increasing(queue_)
    /\ \A n \in Active \cup finished : \A m \in Queued : n < m

\* Jobs are neither lost, nor run twice, nor overtaken, whichever way post(),
\* cancel() and the workers interleave.
JobsInv == JobsConserved /\ StartedInOrder

\* notify_one() per post is enough: while a worker sleeps in cond_.wait(),
\* every queued job has a worker of its own on its way to take it.
NoIdleWorkerWhileJobsWait ==
    Waiting # {} => Len(queue_) <= Cardinality(Awake)

\* The notification of stop() reaches every sleeping worker: none sleeps once
\* shut_down_ is set, so that no join waits for a worker nobody will wake.
ShutDownWakesAll ==
    /\ shut_down_ <=> joining > 0
    /\ shut_down_ => Waiting = {}

\* A worker that stop() has joined is gone, and once stop() has returned no
\* worker is left that could touch the pool being destroyed.
JoinedWorkersAreGone ==
    \A w \in Workers : w < joining => pc[w] = "exited"

\* After stop() set shut_down_ no further job is started, whatever is queued.
NoStartAfterShutDown ==
    [][shut_down_ => \A w \in Workers : pc'[w] = "running" => pc[w] = "running"]_vars

\* A queued job is eventually taken or cancelled unless the pool is stopped.
QueuedJobsAreServed ==
    \A n \in 0..(MaxPosts - 1) : n \in Queued ~> (n \notin Queued \/ shut_down_)

\* stop() returns: every worker leaves its loop and is joined.
StopReturns == (joining = 1) ~> (joining = N + 1)

\* The pool implements JobPool: pending is the queue, active what workers run.
JP == INSTANCE JobPool WITH Executors <- Workers, next <- job_id_,
                            pending <- Queued, active <- job,
                            closed <- shut_down_
ImplementsJobPool == JP!JSpec
=============================================================================
