-------------------------- MODULE ThreadPoolProofs --------------------------
(***************************************************************************)
(* Proofs about ThreadPool, for every number of workers, every width of    *)
(* the job id and every number of posts.                                   *)
(***************************************************************************)
EXTENDS ThreadPool, FiniteSetTheorems, SequenceLemmas

\* What notify_one() and notify_all() may do to the workers: some sleepers go
\* back to the loop, everything else stays.
LEMMA NotifyEffect ==
    ASSUME TypeOK, notify_one \/ notify_all
    PROVE  /\ pc' \in [Workers -> {"check", "waiting", "running", "exited"}]
           /\ \A w \in Workers : \/ pc'[w] = pc[w]
                                 \/ pc[w] = "waiting" /\ pc'[w] = "check"
<1>1. CASE notify_one
    BY <1>1 DEF notify_one, TypeOK, Waiting
<1>2. CASE notify_all
    BY <1>2 DEF notify_all, TypeOK, Waiting
<1> QED
    BY <1>1, <1>2

\* The variables of thread_pool always have the types of their declarations.
THEOREM TypeCorrect == Spec => []TypeOK
<1>1. Init => TypeOK
  <2> SUFFICES ASSUME Init PROVE TypeOK
      OBVIOUS
  <2>1. joining \in 0..(N + 1) /\ queue_ \in Seq(Nat) /\ job_id_ \in Nat
      BY PoolAssumption DEF Init
  <2>2. \A w \in Workers : pc[w] # "running" /\ job[w] = NoJob
      BY DEF Init
  <2>3. /\ pc \in [Workers -> {"check", "waiting", "running", "exited"}]
        /\ job \in [Workers -> Nat \cup {NoJob}]
        /\ shut_down_ \in BOOLEAN
      BY DEF Init
  <2> QED
      BY <2>1, <2>2, <2>3 DEF Init, TypeOK
<1>2. TypeOK /\ [Next]_vars => TypeOK'
  <2> SUFFICES ASSUME TypeOK, [Next]_vars
               PROVE  TypeOK'
      OBVIOUS
  <2>1. CASE Post
      BY <2>1, NotifyEffect DEF Post, TypeOK
  <2>2. ASSUME NEW id \in 0..(IdMod - 1), Cancel(id)
        PROVE  TypeOK'
    <3>1. PICK i \in 1..Len(queue_) :
              /\ queue_' = RemoveAt(queue_, i)
              /\ cancelled' = cancelled \cup {queue_[i]}
              /\ UNCHANGED <<job_id_, shut_down_, pc, job, joining, finished>>
        BY <2>2 DEF Cancel
    <3>2. queue_ \in Seq(Nat)
        BY DEF TypeOK
    <3>3. RemoveAt(queue_, i) \in Seq(Nat)
        BY <3>2, RemoveAtElements
    <3>4. queue_[i] \in Nat
        BY <3>2
    <3> QED
        BY <3>1, <3>3, <3>4 DEF TypeOK
  <2>3. ASSUME NEW w \in Workers, WorkerStep(w) \/ SpuriousWakeup(w)
        PROVE  TypeOK'
    <3>1. CASE WorkerExit(w)
        BY <3>1 DEF WorkerExit, TypeOK
    <3>2. CASE WorkerTake(w)
      <4>1. Head(queue_) \in Nat /\ Tail(queue_) \in Seq(Nat)
          BY <3>2, TailElements DEF WorkerTake, TypeOK
      <4> QED
          BY <3>2, <4>1 DEF WorkerTake, TypeOK, NoJob
    <3>3. CASE WorkerWait(w)
        BY <3>3 DEF WorkerWait, TypeOK
    <3>4. CASE JobReturns(w)
      <4>1. job[w] \in Nat
          BY <3>4 DEF JobReturns, TypeOK
      <4> QED
          BY <3>4, <4>1 DEF JobReturns, TypeOK
    <3>5. CASE SpuriousWakeup(w)
        BY <3>5 DEF SpuriousWakeup, TypeOK
    <3> QED
        BY <2>3, <3>1, <3>2, <3>3, <3>4, <3>5 DEF WorkerStep
  <2>4. CASE Stop
      BY <2>4, NotifyEffect, PoolAssumption DEF Stop, TypeOK
  <2>5. CASE Join
      BY <2>5, PoolAssumption DEF Join, TypeOK, Workers
  <2>6. CASE Stopped \/ UNCHANGED vars
      BY <2>6 DEF Stopped, TypeOK, vars
  <2> QED
      BY <2>1, <2>2, <2>3, <2>4, <2>5, <2>6 DEF Next
<1> QED
    BY <1>1, <1>2, PTL DEF Spec

\* A step that neither starts nor ends a job leaves the running jobs alone.
LEMMA SameActive ==
    ASSUME job' = job,
           \A w \in Workers : (pc'[w] = "running") <=> (pc[w] = "running")
    PROVE  Running' = Running /\ Active' = Active
BY DEF Running, Active

\* Wherever the jobs are, changing nothing about them preserves the invariant.
LEMMA JobsFrame ==
    ASSUME JobsInv, Running' = Running, Active' = Active,
           UNCHANGED <<queue_, job_id_, job, finished, cancelled>>
    PROVE  JobsInv'
<1>1. Queued' = Queued
    BY DEF Queued
<1> QED
    BY <1>1 DEF JobsInv, JobsConserved, StartedInOrder, Increasing

\* post() adds the next ticket behind all others.
LEMMA PostKeepsJobs ==
    ASSUME TypeOK, JobsInv, Post
    PROVE  JobsInv'
<1>1. /\ queue_ \in Seq(Nat) /\ job_id_ \in Nat /\ Len(queue_) \in Nat
      /\ queue_' = Append(queue_, job_id_)
      /\ job_id_' = job_id_ + 1
      /\ UNCHANGED <<job, finished, cancelled>>
    BY DEF Post, TypeOK
<1>2. Running' = Running /\ Active' = Active
  <2>1. \A w \in Workers : \/ pc'[w] = pc[w]
                           \/ pc[w] = "waiting" /\ pc'[w] = "check"
      BY NotifyEffect DEF Post
  <2> QED
      BY <2>1, <1>1, SameActive
<1>3. Queued' = Queued \cup {job_id_}
    BY <1>1, AppendElements DEF Queued
<1>4. /\ Len(queue_') = Len(queue_) + 1
      /\ \A i \in 1..Len(queue_) : queue_'[i] = queue_[i]
      /\ queue_'[Len(queue_) + 1] = job_id_
    BY <1>1
<1>5. \A n \in Queued \cup Active \cup finished \cup cancelled : n \in Nat /\ n < job_id_
    BY <1>1 DEF JobsInv, JobsConserved
<1>6. \A i \in 1..Len(queue_) : queue_[i] \in Queued
    BY <1>1 DEF Queued, ToSet
<1>7. Increasing(queue_')
  <2>1. \A i, k \in 1..Len(queue_) : i < k => queue_[i] < queue_[k]
      BY DEF JobsInv, StartedInOrder, Increasing
  <2>2. \A i \in 1..Len(queue_) : queue_[i] < job_id_
      BY <1>5, <1>6
  <2>3. Len(queue_) \in Nat
      BY <1>1
  <2> SUFFICES ASSUME NEW i \in 1..Len(queue_'), NEW k \in 1..Len(queue_'), i < k
               PROVE  queue_'[i] < queue_'[k]
      BY DEF Increasing
  <2>4. i \in 1..Len(queue_) /\ (k \in 1..Len(queue_) \/ k = Len(queue_) + 1)
      BY ONLY <2>3, <1>4, i \in 1..Len(queue_'), k \in 1..Len(queue_'), i < k
  <2> QED
      BY ONLY <1>4, <2>1, <2>2, <2>4, i < k
<1>8. job_id_ \notin Queued \cup Active \cup finished \cup cancelled
    BY <1>1, <1>5
<1>9. Queued' \cup Active' \cup finished' \cup cancelled' = 0..(job_id_' - 1)
  <2>1. 0..(job_id_' - 1) = 0..(job_id_ - 1) \cup {job_id_}
      BY <1>1
  <2> QED
      BY <1>1, <1>2, <1>3, <2>1 DEF JobsInv, JobsConserved
<1>10. \A i, k \in 1..Len(queue_') : queue_'[i] = queue_'[k] => i = k
  <2>1. \A i \in 1..Len(queue_') : queue_'[i] \in Nat
      BY <1>1, <1>4
  <2> QED
      BY <1>1, <1>4, <1>7, <2>1 DEF Increasing
<1>11. \A n \in Active' \cup finished' : \A m \in Queued' : n < m
    BY <1>1, <1>2, <1>3, <1>5 DEF JobsInv, StartedInOrder
<1>12. JobsConserved'
    BY <1>1, <1>2, <1>3, <1>8, <1>9, <1>10 DEF JobsInv, JobsConserved
<1> QED
    BY <1>7, <1>11, <1>12 DEF JobsInv, StartedInOrder, Increasing

\* A cancel() that returns true moves one ticket from the queue to the
\* cancelled ones.
LEMMA CancelKeepsJobs ==
    ASSUME TypeOK, JobsInv, NEW id \in 0..(IdMod - 1), Cancel(id)
    PROVE  JobsInv'
<1>1. PICK i \in 1..Len(queue_) :
          /\ queue_' = RemoveAt(queue_, i)
          /\ cancelled' = cancelled \cup {queue_[i]}
          /\ UNCHANGED <<job_id_, shut_down_, pc, job, joining, finished>>
    BY DEF Cancel
<1>2. queue_ \in Seq(Nat) /\ Increasing(queue_)
    BY DEF TypeOK, JobsInv, StartedInOrder
<1>3. Increasing(queue_') /\ Queued' = Queued \ {queue_[i]}
    BY <1>1, <1>2, RemoveAtIncreasing DEF Increasing, Queued
<1>4. Running' = Running /\ Active' = Active
    BY <1>1, SameActive
<1>5. queue_[i] \in Queued
    BY <1>2 DEF Queued, ToSet
<1>6. \A j, k \in 1..Len(queue_') : queue_'[j] = queue_'[k] => j = k
  <2>1. queue_' \in Seq(Nat)
      BY <1>1, <1>2, RemoveAtElements
  <2>2. \A j \in 1..Len(queue_') : queue_'[j] \in Nat
      BY <2>1
  <2> QED
      BY <1>3, <2>1, <2>2 DEF Increasing
<1>7. JobsConserved'
    BY <1>1, <1>3, <1>4, <1>5, <1>6 DEF JobsInv, JobsConserved
<1>8. StartedInOrder'
    BY <1>1, <1>3, <1>4 DEF JobsInv, StartedInOrder, Increasing
<1> QED
    BY <1>7, <1>8 DEF JobsInv

\* A worker takes the oldest ticket out of the queue.
LEMMA TakeEffect ==
    ASSUME queue_ \in Seq(Nat), queue_ # <<>>, Increasing(queue_),
           queue_' = Tail(queue_)
    PROVE  /\ Head(queue_) \in Nat
           /\ Head(queue_) \in Queued
           /\ Queued' = Queued \ {Head(queue_)}
           /\ \A m \in Queued' : Head(queue_) < m
           /\ Len(queue_') = Len(queue_) - 1
           /\ queue_' \in Seq(Nat)
           /\ Increasing(queue_')
<1> DEFINE h == Head(queue_)
<1>1. /\ h \in Nat
      /\ queue_' \in Seq(Nat)
      /\ Len(queue_') = Len(queue_) - 1
      /\ Len(queue_) \in Nat \ {0}
      /\ h = queue_[1]
      /\ \A i \in 1..Len(queue_') : queue_'[i] = queue_[i + 1]
      /\ Queued = Queued' \cup {h}
    BY TailElements DEF Queued
<1>2. Increasing(queue_')
  <2> SUFFICES ASSUME NEW i \in 1..Len(queue_'), NEW k \in 1..Len(queue_'), i < k
               PROVE  queue_'[i] < queue_'[k]
      BY DEF Increasing
  <2>1. /\ i + 1 \in 1..Len(queue_) /\ k + 1 \in 1..Len(queue_) /\ i + 1 < k + 1
        /\ queue_'[i] = queue_[i + 1] /\ queue_'[k] = queue_[k + 1]
      BY <1>1
  <2> QED
      BY <2>1 DEF Increasing
<1>3. \A m \in Queued' : m \in Nat /\ h < m
  <2>1. DOMAIN queue_' = 1..Len(queue_')
      BY <1>1
  <2> SUFFICES ASSUME NEW i \in 1..Len(queue_')
               PROVE  queue_'[i] \in Nat /\ h < queue_'[i]
      BY <2>1 DEF Queued, ToSet
  <2>2. 1 \in 1..Len(queue_) /\ i + 1 \in 1..Len(queue_) /\ 1 < i + 1
      BY <1>1
  <2>3. queue_'[i] \in Nat
      BY <1>1
  <2> QED
      BY <1>1, <2>2, <2>3 DEF Increasing
<1>4. h \notin Queued'
    BY <1>1, <1>3
<1> QED
    BY <1>1, <1>2, <1>3, <1>4

LEMMA TakeKeepsJobs ==
    ASSUME TypeOK, JobsInv, NEW w \in Workers, WorkerTake(w)
    PROVE  JobsInv'
<1> DEFINE h == Head(queue_)
<1>1. /\ h \in Nat
      /\ h \in Queued
      /\ Queued' = Queued \ {h}
      /\ \A m \in Queued' : h < m
      /\ queue_' \in Seq(Nat)
      /\ Increasing(queue_')
  <2>1. queue_ \in Seq(Nat) /\ queue_ # <<>> /\ Increasing(queue_) /\ queue_' = Tail(queue_)
      BY DEF TypeOK, WorkerTake, JobsInv, StartedInOrder
  <2> QED
      BY <2>1, TakeEffect
<1>2. /\ UNCHANGED <<job_id_, finished, cancelled>>
      /\ pc[w] = "check" /\ w \notin Running
      /\ Running' = Running \cup {w}
      /\ \A v \in Running : job'[v] = job[v]
      /\ job'[w] = h
    BY DEF WorkerTake, TypeOK, Running
<1>3. Active' = Active \cup {h}
    BY <1>2 DEF Active
<1>4. \A i, k \in 1..Len(queue_') : queue_'[i] = queue_'[k] => i = k
  <2>1. \A i \in 1..Len(queue_') : queue_'[i] \in Nat
      BY <1>1
  <2> QED
      BY <1>1, <2>1 DEF Increasing
<1>5. \A u, v \in Running' : job'[u] = job'[v] => u = v
  <2>1. \A u \in Running : job'[u] # h
      BY <1>1, <1>2 DEF JobsInv, JobsConserved, Active
  <2> QED
      BY <1>2, <2>1 DEF JobsInv, JobsConserved
<1> HIDE DEF h
<1>6. JobsConserved'
    BY <1>1, <1>2, <1>3, <1>4, <1>5 DEF JobsInv, JobsConserved
<1>7. StartedInOrder'
    BY <1>1, <1>2, <1>3 DEF JobsInv, StartedInOrder, Increasing
<1> QED
    BY <1>6, <1>7 DEF JobsInv

\* A job that returns moves from the running to the finished ones.
LEMMA ReturnKeepsJobs ==
    ASSUME TypeOK, JobsInv, NEW w \in Workers, JobReturns(w)
    PROVE  JobsInv'
<1>1. /\ UNCHANGED <<queue_, job_id_, cancelled>>
      /\ w \in Running
      /\ Running' = Running \ {w}
      /\ \A v \in Running \ {w} : job'[v] = job[v]
      /\ finished' = finished \cup {job[w]}
    BY DEF JobReturns, TypeOK, Running
<1>2. Queued' = Queued
    BY <1>1 DEF Queued
<1>3. job[w] \in Active /\ Active' = Active \ {job[w]}
    BY <1>1 DEF JobsInv, JobsConserved, Active
<1>4. JobsConserved'
    BY <1>1, <1>2, <1>3 DEF JobsInv, JobsConserved
<1>5. StartedInOrder'
    BY <1>1, <1>2, <1>3 DEF JobsInv, StartedInOrder, Increasing
<1> QED
    BY <1>4, <1>5 DEF JobsInv

\* No posted job is lost, duplicated or run after its cancellation, and jobs
\* start in the order of their posts.
THEOREM JobsAreSafe == Spec => []JobsInv
<1>1. Init => JobsInv
  <2> SUFFICES ASSUME Init PROVE JobsInv
      OBVIOUS
  <2>1. Queued = {} /\ Running = {} /\ Active = {} /\ Len(queue_) = 0
      BY DEF Init, Queued, ToSet, Running, Active
  <2>2. 0..(job_id_ - 1) = {}
      BY DEF Init
  <2> QED
      BY <2>1, <2>2 DEF Init, JobsInv, JobsConserved, StartedInOrder, Increasing
<1>2. TypeOK /\ JobsInv /\ [Next]_vars => JobsInv'
  <2> SUFFICES ASSUME TypeOK, JobsInv, [Next]_vars
               PROVE  JobsInv'
      OBVIOUS
  <2>1. CASE Post
      BY <2>1, PostKeepsJobs
  <2>2. ASSUME NEW id \in 0..(IdMod - 1), Cancel(id)
        PROVE  JobsInv'
      BY <2>2, CancelKeepsJobs
  <2>3. ASSUME NEW w \in Workers, WorkerStep(w) \/ SpuriousWakeup(w)
        PROVE  JobsInv'
    <3>1. CASE WorkerExit(w) \/ WorkerWait(w) \/ SpuriousWakeup(w)
      <4>1. /\ UNCHANGED <<queue_, job_id_, job, finished, cancelled>>
            /\ \A v \in Workers : (pc'[v] = "running") <=> (pc[v] = "running")
          BY <3>1 DEF WorkerExit, WorkerWait, SpuriousWakeup, TypeOK
      <4> QED
          BY <4>1, SameActive, JobsFrame
    <3>2. CASE WorkerTake(w)
        BY <3>2, TakeKeepsJobs
    <3>3. CASE JobReturns(w)
        BY <3>3, ReturnKeepsJobs
    <3> QED
        BY <2>3, <3>1, <3>2, <3>3 DEF WorkerStep
  <2>4. CASE Stop
    <3>1. \A w \in Workers : \/ pc'[w] = pc[w]
                             \/ pc[w] = "waiting" /\ pc'[w] = "check"
        BY <2>4, NotifyEffect DEF Stop
    <3> QED
        BY <2>4, <3>1, SameActive, JobsFrame DEF Stop
  <2>5. CASE Join \/ Stopped \/ UNCHANGED vars
      BY <2>5, SameActive, JobsFrame DEF Join, Stopped, vars
  <2> QED
      BY <2>1, <2>2, <2>3, <2>4, <2>5 DEF Next
<1> QED
    BY <1>1, <1>2, TypeCorrect, PTL DEF Spec, JobsInv
-----------------------------------------------------------------------------
(* Sleeping workers: what notify_one and notify_all achieve.               *)

PcValues == {"check", "waiting", "running", "exited"}

WakeInv == NoIdleWorkerWhileJobsWait /\ ShutDownWakesAll /\ JoinedWorkersAreGone

\* The workers that are awake are finitely many, however a step changes them.
LEMMA AwakeIsFinite == IsFiniteSet(Awake) /\ Cardinality(Awake) \in Nat
<1>1. IsFiniteSet(Workers)
    BY PoolAssumption, FS_Interval DEF Workers
<1>2. IsFiniteSet(Awake)
    BY <1>1, FS_Subset DEF Awake
<1> QED
    BY <1>2, FS_CardinalityType

\* A worker that wakes up is one more awake, one that leaves is one fewer.
LEMMA AwakeCounts ==
    ASSUME NEW w \in Workers, NEW s, pc \in [Workers -> PcValues],
           pc' = [pc EXCEPT ![w] = s]
    PROVE  /\ pc[w] # "check" /\ s = "check" =>
                 Cardinality(Awake') = Cardinality(Awake) + 1
           /\ pc[w] = "check" /\ s # "check" =>
                 Cardinality(Awake') = Cardinality(Awake) - 1
<1>1. ASSUME pc[w] # "check", s = "check"
      PROVE  Cardinality(Awake') = Cardinality(Awake) + 1
  <2>1. Awake' = Awake \cup {w} /\ w \notin Awake
      BY <1>1 DEF Awake
  <2> QED
      BY <2>1, AwakeIsFinite, FS_AddElement
<1>2. ASSUME pc[w] = "check", s # "check"
      PROVE  Cardinality(Awake') = Cardinality(Awake) - 1
  <2>1. Awake' = Awake \ {w} /\ w \in Awake
      BY <1>2 DEF Awake
  <2> QED
      BY <2>1, AwakeIsFinite, FS_RemoveElement
<1> QED
    BY <1>1, <1>2

\* No job waits for a worker that sleeps, stop() wakes every worker, and a
\* worker that was joined is gone.
THEOREM WorkersAreWoken ==
    Spec => [](NoIdleWorkerWhileJobsWait /\ ShutDownWakesAll /\ JoinedWorkersAreGone)
<1>1. Init => WakeInv
    BY PoolAssumption DEF Init, WakeInv, NoIdleWorkerWhileJobsWait, ShutDownWakesAll,
                          JoinedWorkersAreGone, Waiting, Workers
<1>2. TypeOK /\ TypeOK' /\ WakeInv /\ [Next]_vars => WakeInv'
  <2> SUFFICES ASSUME TypeOK, TypeOK', WakeInv, [Next]_vars
               PROVE  WakeInv'
      OBVIOUS
  <2> USE DEF WakeInv
  <2>0. /\ N \in Nat /\ joining \in Nat /\ joining' \in Nat /\ shut_down_ \in BOOLEAN
        /\ Len(queue_) \in Nat
        /\ pc \in [Workers -> PcValues] /\ pc' \in [Workers -> PcValues]
    <3>1. N \in Nat /\ joining \in 0..(N + 1) /\ joining' \in 0..(N + 1)
        BY PoolAssumption DEF TypeOK
    <3>2. pc \in [Workers -> PcValues] /\ pc' \in [Workers -> PcValues]
        BY DEF TypeOK, PcValues
    <3>3. shut_down_ \in BOOLEAN /\ queue_ \in Seq(Nat)
        BY DEF TypeOK
    <3> QED
        BY <3>1, <3>2, <3>3
  <2>1. CASE Post
    <3>1. /\ UNCHANGED <<shut_down_, joining>>
          /\ Len(queue_') = Len(queue_) + 1
        BY <2>0, <2>1 DEF Post, TypeOK
    <3>2. CASE Waiting = {}
      <4>1. pc' = pc
          BY <2>1, <3>2 DEF Post, notify_one
      <4> QED
          BY <2>0, <3>1, <3>2, <4>1 DEF NoIdleWorkerWhileJobsWait, ShutDownWakesAll,
                              JoinedWorkersAreGone, Waiting
    <3>3. CASE Waiting # {}
      <4>1. PICK w \in Waiting : pc' = [pc EXCEPT ![w] = "check"]
          BY <2>1, <3>3 DEF Post, notify_one
      <4>2. w \in Workers /\ pc[w] = "waiting" /\ pc[w] # "check"
          BY <4>1 DEF Waiting
      <4>3. Cardinality(Awake') = Cardinality(Awake) + 1
          BY <2>0, <4>1, <4>2, AwakeCounts
      <4>4. NoIdleWorkerWhileJobsWait'
          BY <2>0, <3>1, <3>3, <4>3, AwakeIsFinite DEF NoIdleWorkerWhileJobsWait
      <4>5. ShutDownWakesAll'
          BY <2>0, <3>1, <3>3 DEF ShutDownWakesAll
      <4>6. JoinedWorkersAreGone'
          BY <2>0, <3>1, <4>1, <4>2 DEF JoinedWorkersAreGone
      <4> QED
          BY <4>4, <4>5, <4>6
    <3> QED
        BY <3>2, <3>3
  <2>2. ASSUME NEW id \in 0..(IdMod - 1), Cancel(id)
        PROVE  WakeInv'
    <3>1. PICK i \in 1..Len(queue_) :
              /\ queue_' = RemoveAt(queue_, i)
              /\ UNCHANGED <<shut_down_, pc, joining>>
        BY <2>2 DEF Cancel
    <3>2. Len(queue_') = Len(queue_) - 1
        BY <3>1, RemoveAtElements DEF TypeOK
    <3>3. Waiting' = Waiting /\ Awake' = Awake
        BY <3>1 DEF Waiting, Awake
    <3>4. NoIdleWorkerWhileJobsWait'
        BY <2>0, <3>2, <3>3, AwakeIsFinite DEF NoIdleWorkerWhileJobsWait
    <3> QED
        BY <3>1, <3>3, <3>4 DEF ShutDownWakesAll, JoinedWorkersAreGone
  <2>3. ASSUME NEW w \in Workers, WorkerStep(w) \/ SpuriousWakeup(w)
        PROVE  WakeInv'
    <3>0. UNCHANGED <<shut_down_, joining>>
        BY <2>3 DEF WorkerStep, WorkerExit, WorkerTake, WorkerWait, JobReturns, SpuriousWakeup
    <3>1. JoinedWorkersAreGone'
        BY <2>0, <2>3, <3>0 DEF WorkerStep, WorkerExit, WorkerTake, WorkerWait,
                                JobReturns, SpuriousWakeup, JoinedWorkersAreGone
    <3>2. CASE WorkerExit(w)
      <4>1. Waiting' = {}
          BY <2>0, <3>2 DEF WorkerExit, ShutDownWakesAll, Waiting
      <4> QED
          BY <3>0, <3>1, <4>1 DEF NoIdleWorkerWhileJobsWait, ShutDownWakesAll
    <3>3. CASE WorkerTake(w)
      <4>0. /\ pc[w] = "check" /\ "running" # "check"
            /\ pc' = [pc EXCEPT ![w] = "running"]
          BY <3>3 DEF WorkerTake
      <4>1. Cardinality(Awake') = Cardinality(Awake) - 1
          BY <2>0, <4>0, AwakeCounts
      <4>2. Len(queue_') = Len(queue_) - 1
          BY <3>3 DEF WorkerTake, TypeOK
      <4>3. Waiting' = Waiting
          BY <2>0, <3>3 DEF WorkerTake, Waiting
      <4>4. NoIdleWorkerWhileJobsWait'
          BY <2>0, <4>1, <4>2, <4>3, AwakeIsFinite DEF NoIdleWorkerWhileJobsWait
      <4> QED
          BY <3>0, <3>1, <4>3, <4>4 DEF ShutDownWakesAll
    <3>4. CASE WorkerWait(w)
      <4>0. /\ pc[w] = "check" /\ "waiting" # "check"
            /\ pc' = [pc EXCEPT ![w] = "waiting"]
          BY <3>4 DEF WorkerWait
      <4>1. Cardinality(Awake') = Cardinality(Awake) - 1
          BY <2>0, <4>0, AwakeCounts
      <4>2. w \in Awake /\ Len(queue_') = 0 /\ ~shut_down_
          BY <3>4 DEF WorkerWait, Awake
      <4>3. Cardinality(Awake) # 0
          BY <4>2, AwakeIsFinite, FS_EmptySet
      <4>4. NoIdleWorkerWhileJobsWait'
          BY <4>1, <4>2, <4>3, AwakeIsFinite DEF NoIdleWorkerWhileJobsWait
      <4> QED
          BY <3>0, <3>1, <4>2, <4>4 DEF ShutDownWakesAll
    <3>5. CASE JobReturns(w) \/ SpuriousWakeup(w)
      <4>1. /\ queue_' = queue_
            /\ pc[w] # "check"
            /\ pc' = [pc EXCEPT ![w] = "check"]
          BY <3>5 DEF JobReturns, SpuriousWakeup
      <4>2. Cardinality(Awake') = Cardinality(Awake) + 1
          BY <2>0, <4>1, AwakeCounts
      <4>3. Waiting' \subseteq Waiting
          BY <2>0, <4>1 DEF Waiting
      <4>4. NoIdleWorkerWhileJobsWait'
          BY <2>0, <4>1, <4>2, <4>3, AwakeIsFinite DEF NoIdleWorkerWhileJobsWait
      <4> QED
          BY <3>0, <3>1, <4>3, <4>4 DEF ShutDownWakesAll
    <3> QED
        BY <2>3, <3>2, <3>3, <3>4, <3>5 DEF WorkerStep
  <2>4. CASE Stop
    <3>1. joining = 0 /\ joining' = 1 /\ shut_down_' = TRUE
        BY <2>4 DEF Stop
    <3>2. Waiting' = {}
        BY <2>0, <2>4 DEF Stop, notify_all, Waiting
    <3>3. \A w \in Workers : ~(w < 1)
        BY <2>0 DEF Workers
    <3> QED
        BY <3>1, <3>2, <3>3 DEF NoIdleWorkerWhileJobsWait, ShutDownWakesAll, JoinedWorkersAreGone
  <2>5. CASE Join
    <3>1. /\ UNCHANGED <<queue_, pc, shut_down_>>
          /\ joining \in Workers /\ joining' = joining + 1 /\ pc[joining] = "exited"
        BY <2>5 DEF Join
    <3>2. JoinedWorkersAreGone'
        BY <2>0, <3>1 DEF JoinedWorkersAreGone, Workers
    <3>3. ShutDownWakesAll'
        BY <2>0, <3>1 DEF ShutDownWakesAll, Waiting, Workers
    <3> QED
        BY <3>1, <3>2, <3>3 DEF NoIdleWorkerWhileJobsWait, Waiting, Awake
  <2>6. CASE Stopped \/ UNCHANGED vars
    <3>1. UNCHANGED <<queue_, shut_down_, pc, joining>>
        BY <2>6 DEF Stopped, vars
    <3>2. Waiting' = Waiting /\ Awake' = Awake
        BY <3>1 DEF Waiting, Awake
    <3> QED
        BY <3>1, <3>2 DEF NoIdleWorkerWhileJobsWait, ShutDownWakesAll, JoinedWorkersAreGone
  <2> QED
      BY <2>1, <2>2, <2>3, <2>4, <2>5, <2>6 DEF Next
<1> QED
    BY <1>1, <1>2, TypeCorrect, PTL DEF Spec, WakeInv

\* No job is started once shut_down_ is set.
THEOREM NothingStartsAfterShutDown == Spec => NoStartAfterShutDown
<1>1. TypeOK /\ [Next]_vars =>
        [shut_down_ => \A w \in Workers : pc'[w] = "running" => pc[w] = "running"]_vars
  <2> SUFFICES ASSUME TypeOK, Next, shut_down_, NEW w \in Workers, pc'[w] = "running"
               PROVE  pc[w] = "running"
      OBVIOUS
  <2>1. CASE Post \/ Stop
      BY <2>1, NotifyEffect DEF Post, Stop
  <2>2. CASE \E id \in 0..(IdMod - 1) : Cancel(id)
      BY <2>2 DEF Cancel
  <2>3. CASE \E v \in Workers : WorkerStep(v) \/ SpuriousWakeup(v)
      BY <2>3 DEF WorkerStep, WorkerExit, WorkerTake, WorkerWait, JobReturns,
                  SpuriousWakeup, TypeOK
  <2>4. CASE Join \/ Stopped
      BY <2>4 DEF Join, Stopped, vars
  <2> QED
      BY <2>1, <2>2, <2>3, <2>4 DEF Next
<1> QED
    BY <1>1, TypeCorrect, PTL DEF Spec, NoStartAfterShutDown

-----------------------------------------------------------------------------
(* Refinement: each step of the pool is a step of JobPool or changes none  *)
(* of its variables.                                                       *)

\* The queue, the running jobs and shut_down_ behave as JobPool promises.
THEOREM PoolImplementsJobPool == Spec => ImplementsJobPool
<1>1. Init => JP!JInit
  <2> SUFFICES ASSUME Init PROVE JP!JInit
      OBVIOUS
  <2>1. Queued = {}
      BY DEF Init, Queued, ToSet
  <2> QED
      BY <2>1 DEF Init, JP!JInit, JP!NoJob, NoJob
<1>2. TypeOK /\ JobsInv /\ [Next]_vars => [JP!JNext]_(JP!jobVars)
  <2> SUFFICES ASSUME TypeOK, JobsInv, [Next]_vars
               PROVE  JP!JNext \/ UNCHANGED <<job_id_, Queued, job, shut_down_>>
      BY DEF JP!jobVars
  <2>1. CASE Post
    <3>1. Queued' = Queued \cup {job_id_}
        BY <2>1, AppendElements DEF Post, TypeOK, Queued
    <3>2. JP!Submit
        BY <2>1, <3>1 DEF Post, JP!Submit
    <3> QED
        BY <3>2 DEF JP!JNext
  <2>2. ASSUME NEW id \in 0..(IdMod - 1), Cancel(id)
        PROVE  JP!JNext
    <3>1. PICK i \in 1..Len(queue_) :
              /\ queue_' = RemoveAt(queue_, i)
              /\ UNCHANGED <<job_id_, shut_down_, job>>
        BY <2>2 DEF Cancel
    <3>2. queue_ \in Seq(Nat) /\ Increasing(queue_)
        BY DEF TypeOK, JobsInv, StartedInOrder
    <3>3. Queued' = Queued \ {queue_[i]}
        BY <3>1, <3>2, RemoveAtIncreasing DEF Increasing, Queued
    <3>4. queue_[i] \in Queued
        BY <3>2 DEF Queued, ToSet
    <3>5. JP!Withdraw(queue_[i])
        BY <3>1, <3>3, <3>4 DEF JP!Withdraw
    <3> QED
        BY <3>4, <3>5 DEF JP!JNext
  <2>3. ASSUME NEW w \in Workers, WorkerTake(w)
        PROVE  JP!JNext
    <3>1. /\ queue_ \in Seq(Nat) /\ queue_ # <<>> /\ Increasing(queue_)
          /\ queue_' = Tail(queue_)
        BY <2>3 DEF TypeOK, WorkerTake, JobsInv, StartedInOrder
    <3>2. /\ Head(queue_) \in Nat
          /\ Head(queue_) \in Queued
          /\ Queued' = Queued \ {Head(queue_)}
          /\ \A m \in Queued' : Head(queue_) < m
        BY <3>1, TakeEffect
    <3>3. \A m \in Queued : Head(queue_) <= m
      <4>1. \A m \in Queued : m = Head(queue_) \/ m \in Queued'
          BY <3>2
      <4>2. \A m \in Queued : m \in Nat
          BY <3>1 DEF Queued, ToSet
      <4> QED
          BY <3>2, <4>1, <4>2
    <3>4. job[w] = NoJob
        BY <2>3 DEF WorkerTake, TypeOK
    <3>5. JP!Start(w, Head(queue_))
        BY <2>3, <3>2, <3>3, <3>4 DEF WorkerTake, JP!Start, JP!NoJob, NoJob
    <3> QED
        BY <3>2, <3>5 DEF JP!JNext
  <2>4. ASSUME NEW w \in Workers, JobReturns(w)
        PROVE  JP!JNext
    <3>1. Queued' = Queued
        BY <2>4 DEF JobReturns, Queued
    <3>2. JP!Finish(w)
        BY <2>4, <3>1 DEF JobReturns, JP!Finish, JP!NoJob, NoJob, TypeOK
    <3> QED
        BY <3>2 DEF JP!JNext
  <2>5. ASSUME NEW w \in Workers, WorkerExit(w) \/ WorkerWait(w) \/ SpuriousWakeup(w)
        PROVE  UNCHANGED <<job_id_, Queued, job, shut_down_>>
      BY <2>5 DEF WorkerExit, WorkerWait, SpuriousWakeup, Queued
  <2>6. CASE Stop
    <3>1. JP!Close
        BY <2>6 DEF Stop, JP!Close, Queued
    <3> QED
        BY <3>1 DEF JP!JNext
  <2>7. CASE Join \/ Stopped \/ UNCHANGED vars
      BY <2>7 DEF Join, Stopped, vars, Queued
  <2> QED
      BY <2>1, <2>2, <2>3, <2>4, <2>5, <2>6, <2>7 DEF Next, WorkerStep
<1> QED
    BY <1>1, <1>2, TypeCorrect, JobsAreSafe, PTL DEF Spec, JobsInv, ImplementsJobPool, JP!JSpec
=============================================================================
