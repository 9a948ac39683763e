---------------------- MODULE ApplicationsPoolProofs -----------------------
(***************************************************************************)
(* The pool of applications is type correct, never overflows, hands an     *)
(* application to one thread at a time, and its legacy policy never runs   *)
(* empty, for any number of workers and requests.                          *)
(***************************************************************************)
EXTENDS ApplicationsPool, FiniteSetTheorems, SequenceTheorems, TLAPS

\* Popping the last element of the vector apps_ keeps the others.
LEMMA PopBack ==
    ASSUME NEW S, NEW s \in Seq(S), s # <<>>
    PROVE  /\ Len(s) \in Nat \ {0} /\ s[Len(s)] \in S
           /\ SubSeq(s, 1, Len(s) - 1) \in Seq(S)
           /\ Len(SubSeq(s, 1, Len(s) - 1)) = Len(s) - 1
           /\ \A i \in 1..(Len(s) - 1) : SubSeq(s, 1, Len(s) - 1)[i] = s[i]
<1>1. Len(s) \in Nat \ {0}
    OBVIOUS
<1>2. ASSUME NEW k \in 1..Len(s)
      PROVE  /\ s[k] \in S
             /\ SubSeq(s, 1, k - 1) \in Seq(S)
             /\ Len(SubSeq(s, 1, k - 1)) = k - 1
             /\ \A i \in 1..(k - 1) : SubSeq(s, 1, k - 1)[i] = s[i]
    BY <1>1
<1>3. Len(s) \in 1..Len(s)
    BY <1>1
<1> QED
    BY <1>1, <1>2, <1>3

\* Storing an application at the end of apps_.
LEMMA PushBack ==
    ASSUME NEW S, NEW s \in Seq(S), NEW x \in S
    PROVE  /\ \A y : x # y /\ (\A i \in 1..Len(s) : s[i] # y) =>
                        \A i \in 1..Len(Append(s, x)) : Append(s, x)[i] # y
           /\ /\ \A i, j \in 1..Len(s) : i # j => s[i] # s[j]
              /\ \A i \in 1..Len(s) : s[i] # x
              => \A i, j \in 1..Len(Append(s, x)) :
                    i # j => Append(s, x)[i] # Append(s, x)[j]
<1>1. /\ Len(s) \in Nat /\ Len(Append(s, x)) = Len(s) + 1
      /\ Append(s, x)[Len(s) + 1] = x
      /\ \A i \in 1..Len(s) : Append(s, x)[i] = s[i]
    OBVIOUS
<1>2. 1..Len(Append(s, x)) = 1..Len(s) \cup {Len(s) + 1}
    BY <1>1
<1> QED
    BY <1>1, <1>2, Zenon

\* What a worker that starts or ends with an application does to Busy.
LEMMA BusyCounts ==
    ASSUME NEW t \in Threads, NEW a \in Nat, NEW n \in Nat,
           app \in [Threads -> 0..n], app' = [app EXCEPT ![t] = a]
    PROVE  /\ app[t] = None /\ a # None =>
                 /\ Busy' = Busy \cup {t}
                 /\ Cardinality(Busy') = Cardinality(Busy) + 1
           /\ app[t] # None /\ a = None =>
                 /\ Busy' = Busy \ {t}
                 /\ Cardinality(Busy') = Cardinality(Busy) - 1
           /\ IsFiniteSet(Busy) /\ Cardinality(Busy) \in Nat
<1>1. IsFiniteSet(Busy) /\ Cardinality(Busy) \in Nat
    BY AppsAssumption, FS_Subset, FS_CardinalityType DEF Busy
<1>2. ASSUME app[t] = None, a # None
      PROVE  Busy' = Busy \cup {t} /\ Cardinality(Busy') = Cardinality(Busy) + 1
  <2>1. Busy' = Busy \cup {t} /\ t \notin Busy
      BY <1>2 DEF Busy
  <2> QED
      BY <2>1, <1>1, FS_AddElement
<1>3. ASSUME app[t] # None, a = None
      PROVE  Busy' = Busy \ {t} /\ Cardinality(Busy') = Cardinality(Busy) - 1
  <2>1. Busy' = Busy \ {t} /\ t \in Busy
      BY <1>3 DEF Busy
  <2> QED
      BY <2>1, <1>1, FS_RemoveElement
<1> QED
    BY <1>1, <1>2, <1>3

\* There are no more busy workers than workers, and fewer while one is idle.
LEMMA BusyBound ==
    /\ limit_ \in Nat
    /\ IsFiniteSet(Busy) /\ Cardinality(Busy) \in 0..limit_
    /\ Busy # Threads => Cardinality(Busy) < limit_
<1>1. IsFiniteSet(Busy) /\ Cardinality(Busy) \in Nat /\ limit_ \in Nat
      /\ Cardinality(Busy) <= limit_
    BY AppsAssumption, FS_Subset, FS_CardinalityType DEF Busy, limit_
<1>2. Busy # Threads => Cardinality(Busy) < limit_
  <2>1. Busy \subseteq Threads
      BY DEF Busy
  <2>2. Cardinality(Busy) = Cardinality(Threads) => Busy = Threads
      BY <2>1, AppsAssumption, FS_Subset
  <2> QED
      BY <1>1, <2>2 DEF limit_
<1> QED
    BY <1>1, <1>2

-----------------------------------------------------------------------------
\* An application is created, or handed over, in one of five ways; every other
\* step leaves the applications and who runs them alone.
LEMMA StepShapes ==
    ASSUME TypeOK, [Next]_vars
    PROVE  \/ UNCHANGED <<apps_, app, created, total_>>
           \/ /\ legacy /\ total_ < limit_
              /\ apps_' = Append(apps_, get_new) /\ created' = get_new
              /\ total_' = total_ + 1 /\ UNCHANGED app
           \/ \E t \in Threads :
                /\ app[t] = None /\ apps_ # <<>>
                /\ app' = [app EXCEPT ![t] = apps_[Len(apps_)]]
                /\ apps_' = SubSeq(apps_, 1, Len(apps_) - 1)
                /\ UNCHANGED <<created, total_>>
           \/ \E t \in Threads :
                /\ app[t] = None /\ apps_ = <<>> /\ ~legacy
                /\ app' = [app EXCEPT ![t] = get_new] /\ created' = get_new
                /\ UNCHANGED <<apps_, total_>>
           \/ \E t \in Threads :
                /\ app[t] # None
                /\ apps_' = Append(apps_, app[t])
                /\ app' = [app EXCEPT ![t] = None]
                /\ UNCHANGED <<created, total_>>
<1>1. CASE Arrive
  <2>1. CASE ~legacy \/ total_ >= limit_
      BY <1>1, <2>1 DEF Arrive, application_requested
  <2>2. CASE ~(~legacy \/ total_ >= limit_)
    <3>1. legacy /\ total_ < limit_
        BY <2>2, BusyBound DEF TypeOK
    <3> QED
        BY <1>1, <2>2, <3>1 DEF Arrive, application_requested
  <2> QED
      BY <2>1, <2>2
<1>2. CASE ArriveFails
    BY <1>2 DEF ArriveFails
<1>3. CASE Drop
    BY <1>3 DEF Drop
<1>4. CASE Submit
    BY <1>4 DEF Submit
<1>5. ASSUME NEW t \in Threads, get(t)
      PROVE  \/ /\ app[t] = None /\ apps_ # <<>>
                /\ app' = [app EXCEPT ![t] = apps_[Len(apps_)]]
                /\ apps_' = SubSeq(apps_, 1, Len(apps_) - 1)
                /\ UNCHANGED <<created, total_>>
             \/ /\ app[t] = None /\ apps_ = <<>> /\ ~legacy
                /\ app' = [app EXCEPT ![t] = get_new] /\ created' = get_new
                /\ UNCHANGED <<apps_, total_>>
    BY <1>5 DEF get
<1>6. ASSUME NEW t \in Threads, GetNothing(t)
      PROVE  UNCHANGED <<apps_, app, created, total_>>
    BY <1>6 DEF GetNothing
<1>7. ASSUME NEW t \in Threads, put(t)
      PROVE  /\ app[t] # None
             /\ apps_' = Append(apps_, app[t])
             /\ app' = [app EXCEPT ![t] = None]
             /\ UNCHANGED <<created, total_>>
    BY <1>7 DEF put
<1>8. CASE UNCHANGED vars
    BY <1>8 DEF vars
<1> QED
    BY <1>1, <1>2, <1>3, <1>4, <1>5, <1>6, <1>7, <1>8, Zenon DEF Next

\* The vector, the counters and the workers hold what their types say.
THEOREM PoolIsTypeCorrect == Spec => []TypeOK
<1>1. Init => TypeOK
  <2> SUFFICES ASSUME Init PROVE TypeOK
      OBVIOUS
  <2>1. limit_ \in Nat
      BY BusyBound
  <2>2. apps_ = <<>> \/ apps_ = [i \in 1..limit_ |-> i]
      BY DEF Init
  <2>3. apps_ \in Seq(1..Len(apps_)) /\ Len(apps_) \in Nat
    <3>1. CASE apps_ = <<>>
        BY <3>1
    <3>2. CASE apps_ = [i \in 1..limit_ |-> i]
        BY <2>1, <3>2
    <3> QED
        BY <2>2, <3>1, <3>2
  <2> QED
      BY <2>3 DEF Init, TypeOK, None
<1>2. TypeOK /\ [Next]_vars => TypeOK'
  <2> SUFFICES ASSUME TypeOK, [Next]_vars PROVE TypeOK'
      OBVIOUS
  <2>1. /\ legacy' \in BOOLEAN
        /\ total_' \in Nat /\ pending_' \in Nat
        /\ reading' \in Nat /\ queued' \in Nat
    <3> DEFINE Counts == /\ total_ \in Nat /\ pending_ \in Nat
                         /\ reading \in Nat /\ queued \in Nat
    <3>1. Counts /\ legacy \in BOOLEAN
        BY DEF TypeOK
    <3>2. legacy' = legacy
        BY DEF Next, vars
    <3>3. ASSUME Arrive PROVE Counts'
        BY ONLY <3>1, <3>3 DEF Arrive, application_requested
    <3>4. ASSUME ArriveFails PROVE Counts'
        BY ONLY <3>1, <3>4 DEF ArriveFails
    <3>5. ASSUME Drop PROVE Counts'
        BY ONLY <3>1, <3>5 DEF Drop
    <3>6. ASSUME Submit PROVE Counts'
        BY ONLY <3>1, <3>6 DEF Submit
    <3>7. ASSUME NEW t \in Threads, get(t) PROVE Counts'
      <4>1. Word - 1 \in Nat
          BY AppsAssumption
      <4> QED
          BY ONLY <3>1, <3>7, <4>1 DEF get, Decremented
    <3>8. ASSUME NEW t \in Threads, GetNothing(t) PROVE Counts'
        BY ONLY <3>1, <3>8 DEF GetNothing
    <3>9. ASSUME NEW t \in Threads, put(t) PROVE Counts'
        BY ONLY <3>1, <3>9 DEF put
    <3>10. ASSUME UNCHANGED vars PROVE Counts'
        BY ONLY <3>1, <3>10 DEF vars
    <3> HIDE DEF Counts
    <3>11. Counts'
        BY <3>3, <3>4, <3>5, <3>6, <3>7, <3>8, <3>9, <3>10, Zenon DEF Next
    <3> QED
        BY <3>1, <3>2, <3>11, Zenon DEF Counts
  <2>2. /\ created \in Nat /\ apps_ \in Seq(1..created) /\ Len(apps_) \in Nat
        /\ app \in [Threads -> 0..created]
      BY DEF TypeOK
  <2>3. /\ created' \in Nat /\ apps_' \in Seq(1..created')
        /\ app' \in [Threads -> 0..created']
    <3>1. CASE UNCHANGED <<apps_, app, created, total_>>
        BY <2>2, <3>1
    <3>2. CASE /\ apps_' = Append(apps_, get_new) /\ created' = get_new
               /\ UNCHANGED app
      <4>1. apps_ \in Seq(1..(created + 1)) /\ created + 1 \in 1..(created + 1)
        <5>1. 1..created \subseteq 1..(created + 1)
            BY <2>2
        <5> QED
            BY <2>2, <5>1
      <4> QED
          BY <2>2, <3>2, <4>1 DEF get_new
    <3>3. ASSUME NEW t \in Threads, apps_ # <<>>,
                 app' = [app EXCEPT ![t] = apps_[Len(apps_)]],
                 apps_' = SubSeq(apps_, 1, Len(apps_) - 1), created' = created
          PROVE  created' \in Nat /\ apps_' \in Seq(1..created')
                 /\ app' \in [Threads -> 0..created']
      <4>1. apps_' \in Seq(1..created) /\ apps_[Len(apps_)] \in 1..created
          BY <2>2, <3>3, PopBack
      <4> QED
          BY <2>2, <3>3, <4>1
    <3>4. ASSUME NEW t \in Threads, apps_ = <<>>,
                 app' = [app EXCEPT ![t] = get_new], created' = get_new,
                 apps_' = apps_
          PROVE  created' \in Nat /\ apps_' \in Seq(1..created')
                 /\ app' \in [Threads -> 0..created']
        BY <2>2, <3>4 DEF get_new
    <3>5. ASSUME NEW t \in Threads, app[t] # None,
                 apps_' = Append(apps_, app[t]),
                 app' = [app EXCEPT ![t] = None], created' = created
          PROVE  created' \in Nat /\ apps_' \in Seq(1..created')
                 /\ app' \in [Threads -> 0..created']
        BY <2>2, <3>5 DEF None
    <3> QED
        BY StepShapes, <3>1, <3>2, <3>3, <3>4, <3>5, Zenon
  <2> QED
      BY <2>1, <2>3 DEF TypeOK
<1> QED
    BY <1>1, <1>2, PTL DEF Spec

\* An application is idle or runs, and runs in one thread.
THEOREM ApplicationsAreInOnePlace == Spec => []OnePlace
<1>1. Init => OnePlace
  <2> SUFFICES ASSUME Init PROVE OnePlace
      OBVIOUS
  <2>1. Busy = {} /\ (apps_ = <<>> \/ apps_ = [i \in 1..limit_ |-> i])
      BY DEF Init, Busy
  <2>2. \A i, j \in 1..Len(apps_) : i # j => apps_[i] # apps_[j]
      BY <2>1, BusyBound
  <2> QED
      BY <2>1, <2>2 DEF OnePlace
<1>2. TypeOK /\ OnePlace /\ [Next]_vars => OnePlace'
  <2> SUFFICES ASSUME TypeOK, OnePlace, [Next]_vars PROVE OnePlace'
      OBVIOUS
  <2>1. /\ created \in Nat /\ apps_ \in Seq(1..created) /\ Len(apps_) \in Nat
        /\ app \in [Threads -> 0..created]
        /\ \A i \in 1..Len(apps_) : apps_[i] \in 1..created
        /\ Busy \subseteq Threads
      BY DEF TypeOK, Busy
  <2>2. CASE UNCHANGED <<apps_, app, created, total_>>
      BY <2>2 DEF OnePlace, Busy
  <2>3. CASE apps_' = Append(apps_, get_new) /\ UNCHANGED app
    <3>1. apps_ \in Seq(1..(created + 1)) /\ get_new \in 1..(created + 1)
      <4>1. 1..created \subseteq 1..(created + 1)
          BY <2>1
      <4> QED
          BY <2>1, <4>1 DEF get_new
    <3>2. Busy' = Busy /\ \A t \in Busy : app'[t] = app[t] /\ app[t] # get_new
        BY <2>1, <2>3 DEF Busy, get_new
    <3>3. \A i \in 1..Len(apps_) : apps_[i] # get_new
        BY <2>1 DEF get_new
    <3> HIDE DEF get_new
    <3>4. \A i, j \in 1..Len(apps_') : i # j => apps_'[i] # apps_'[j]
        BY <2>3, <3>1, <3>3, PushBack DEF OnePlace
    <3>5. \A t \in Busy' : \A i \in 1..Len(apps_') : apps_'[i] # app'[t]
        BY <2>3, <3>1, <3>2, PushBack DEF OnePlace
    <3> QED
        BY <3>2, <3>4, <3>5 DEF OnePlace
  <2>4. ASSUME NEW t \in Threads, app[t] = None, apps_ # <<>>,
               app' = [app EXCEPT ![t] = apps_[Len(apps_)]],
               apps_' = SubSeq(apps_, 1, Len(apps_) - 1)
        PROVE  OnePlace'
    <3>1. /\ Len(apps_) \in 1..Len(apps_) /\ apps_[Len(apps_)] \in 1..created
          /\ Len(apps_') = Len(apps_) - 1
          /\ \A i \in 1..Len(apps_') : apps_'[i] = apps_[i] /\ i \in 1..Len(apps_)
                                                            /\ i # Len(apps_)
        BY <2>1, <2>4, PopBack
    <3>2. Busy' = Busy \cup {t} /\ t \notin Busy
      <4>1. apps_[Len(apps_)] # None
          BY <2>1, <3>1 DEF None
      <4>2. app'[t] # None /\ \A u \in Threads \ {t} : app'[u] = app[u]
          BY <2>1, <2>4, <4>1
      <4> QED
          BY <2>4, <4>2 DEF Busy
    <3>3. app'[t] = apps_[Len(apps_)] /\ \A u \in Busy : app'[u] = app[u]
        BY <2>1, <2>4, <3>2
    <3> QED
        BY <3>1, <3>2, <3>3 DEF OnePlace
  <2>5. ASSUME NEW t \in Threads, app[t] = None, apps_ = <<>>,
               app' = [app EXCEPT ![t] = get_new], apps_' = apps_
        PROVE  OnePlace'
    <3>1. Busy' = Busy \cup {t} /\ t \notin Busy
        BY <2>1, <2>5 DEF Busy, None, get_new
    <3>2. /\ app'[t] = created + 1
          /\ \A u \in Busy : app'[u] = app[u] /\ app[u] <= created
        BY <2>1, <2>5, <3>1 DEF get_new
    <3>3. 1..Len(apps_') = {}
        BY <2>5
    <3>4. \A u, v \in Busy' : u # v => app'[u] # app'[v]
      <4>1. \A u \in Busy : app[u] # created + 1
          BY <2>1, <3>2
      <4> QED
          BY <3>1, <3>2, <4>1 DEF OnePlace
    <3> QED
        BY <3>3, <3>4 DEF OnePlace
  <2>6. ASSUME NEW t \in Threads, app[t] # None,
               apps_' = Append(apps_, app[t]), app' = [app EXCEPT ![t] = None]
        PROVE  OnePlace'
    <3>1. app[t] \in 1..created
        BY <2>1, <2>6 DEF None
    <3>2. Busy' = Busy \ {t} /\ t \in Busy
        BY <2>1, <2>6 DEF Busy, None
    <3>3. \A u \in Busy \ {t} : app'[u] = app[u]
        BY <2>1, <2>6
    <3>4. \A i, j \in 1..Len(apps_') : i # j => apps_'[i] # apps_'[j]
        BY <2>1, <2>6, <3>1, <3>2, PushBack DEF OnePlace
    <3>5. \A u \in Busy' : \A i \in 1..Len(apps_') : apps_'[i] # app'[u]
        BY <2>1, <2>6, <3>1, <3>2, <3>3, PushBack DEF OnePlace
    <3>6. \A u, v \in Busy' : u # v => app'[u] # app'[v]
        BY <3>2, <3>3 DEF OnePlace
    <3> QED
        BY <3>4, <3>5, <3>6 DEF OnePlace
  <2> QED
      BY StepShapes, <2>2, <2>3, <2>4, <2>5, <2>6, Zenon
<1> QED
    BY <1>1, <1>2, PoolIsTypeCorrect, PTL DEF Spec

CountInv == RoomForAll /\ EnoughApplications

\* put() always finds room in the vector, and the legacy policy has an
\* application whenever a worker asks for one.
THEOREM PoolNeverOverflowsNorRunsEmpty == Spec => []PoolSuffices
<1>1. Init => CountInv
  <2> SUFFICES ASSUME Init PROVE CountInv
      OBVIOUS
  <2>1. Busy = {} /\ Cardinality(Busy) = 0
      BY FS_EmptySet DEF Init, Busy
  <2>2. Len(apps_) = 0 \/ (~legacy /\ Len(apps_) = limit_)
    <3>1. CASE apps_ = <<>>
        BY <3>1
    <3>2. CASE ~legacy /\ apps_ = [i \in 1..limit_ |-> i]
      <4>1. limit_ \in Nat
          BY BusyBound
      <4>2. Len([i \in 1..limit_ |-> i]) = limit_
          BY <4>1
      <4> QED
          BY <3>2, <4>2
    <3> QED
        BY <3>1, <3>2 DEF Init
  <2> QED
      BY <2>1, <2>2, BusyBound DEF Init, CountInv, RoomForAll, EnoughApplications
<1>2. TypeOK /\ TypeOK' /\ CountInv /\ [Next]_vars => CountInv'
  <2> SUFFICES ASSUME TypeOK, TypeOK', CountInv, [Next]_vars PROVE CountInv'
      OBVIOUS
  <2> DEFINE b == Cardinality(Busy)
             n == Len(apps_)
  <2>1. /\ n \in Nat /\ b \in 0..limit_ /\ limit_ \in Nat /\ created \in Nat
        /\ n' \in Nat /\ total_ \in Nat /\ pending_ \in Nat
        /\ reading \in Nat /\ queued \in Nat
        /\ apps_ \in Seq(1..created) /\ app \in [Threads -> 0..created]
        /\ legacy \in BOOLEAN /\ legacy' = legacy /\ limit_' = limit_
      BY BusyBound, AppsAssumption DEF TypeOK, limit_, Next, vars
  \* How the idle and the running applications change together.
  <2>2. \/ /\ n' = n /\ b' = b /\ total_' = total_ 
        \/ /\ n' = n + 1 /\ b' = b /\ total_' = total_ + 1
           /\ legacy /\ total_ < limit_
        \/ /\ n' = n - 1 /\ b' = b + 1 /\ total_' = total_
        \/ /\ n = 0 /\ n' = 0 /\ b' = b + 1 /\ b < limit_ /\ ~legacy
        \/ /\ n' = n + 1 /\ b' = b - 1 /\ total_' = total_
    <3>1. CASE UNCHANGED <<apps_, app, created, total_>>
      <4>1. Busy' = Busy
          BY <3>1 DEF Busy
      <4> QED
          BY <3>1, <4>1
    <3>2. CASE /\ legacy /\ total_ < limit_
               /\ apps_' = Append(apps_, get_new) /\ total_' = total_ + 1
               /\ UNCHANGED app
      <4>1. Busy' = Busy
          BY <3>2 DEF Busy
      <4>2. n' = n + 1
          BY <2>1, <3>2
      <4> QED
          BY <3>2, <4>1, <4>2
    <3>3. ASSUME NEW t \in Threads, app[t] = None, apps_ # <<>>,
                 app' = [app EXCEPT ![t] = apps_[Len(apps_)]],
                 apps_' = SubSeq(apps_, 1, Len(apps_) - 1), total_' = total_
          PROVE  n' = n - 1 /\ b' = b + 1
      <4>1. n' = n - 1 /\ apps_[Len(apps_)] \in 1..created
          BY <2>1, <3>3, PopBack
      <4>2. apps_[Len(apps_)] \in Nat /\ apps_[Len(apps_)] # None
          BY <2>1, <4>1 DEF None
      <4> QED
          BY <2>1, <3>3, <4>1, <4>2, BusyCounts
    <3>4. ASSUME NEW t \in Threads, app[t] = None, apps_ = <<>>, ~legacy,
                 app' = [app EXCEPT ![t] = get_new], apps_' = apps_
          PROVE  n = 0 /\ n' = 0 /\ b' = b + 1 /\ b < limit_
      <4>1. get_new \in Nat /\ get_new # None
          BY <2>1 DEF get_new, None
      <4>2. t \notin Busy
          BY <3>4 DEF Busy
      <4>3. b < limit_
          BY <4>2, BusyBound
      <4> QED
          BY <2>1, <3>4, <4>1, <4>3, BusyCounts
    <3>5. ASSUME NEW t \in Threads, app[t] # None,
                 apps_' = Append(apps_, app[t]),
                 app' = [app EXCEPT ![t] = None], total_' = total_
          PROVE  n' = n + 1 /\ b' = b - 1
      <4>1. n' = n + 1
          BY <2>1, <3>5
      <4>2. None \in Nat
          BY DEF None
      <4> QED
          BY <2>1, <3>5, <4>1, <4>2, BusyCounts
    <3> HIDE DEF b, n
    <3> QED
        BY StepShapes, <3>1, <3>2, <3>3, <3>4, <3>5, Zenon
  <2> HIDE DEF b, n
  <2>3. RoomForAll'
    <3>1. n + b <= limit_ /\ (legacy => total_ = n + b)
        BY DEF CountInv, RoomForAll, EnoughApplications, b, n
    <3>2. n' + b' <= limit_
        BY <2>1, <2>2, <3>1
    <3> QED
        BY <2>1, <3>2 DEF RoomForAll, b, n
  <2>4. legacy => total_' = n' + b'
    <3>1. legacy => total_ = n + b
        BY DEF CountInv, EnoughApplications, b, n
    <3> QED
        BY <2>1, <2>2, <3>1
  <2>5. ASSUME legacy, total_' < limit_
        PROVE  reading' + queued' <= pending_' /\ reading' + queued' <= n'
    <3>1. total_ < limit_
        BY <2>1, <2>2, <2>5
    <3>2. reading + queued <= pending_ /\ reading + queued <= n
        BY <2>5, <3>1 DEF CountInv, EnoughApplications, n
    <3>3. CASE Arrive
      <4>1. /\ pending_' = pending_ + 1 /\ reading' = reading + 1 /\ queued' = queued
            /\ \/ pending_' > n /\ apps_' = Append(apps_, get_new)
               \/ ~(pending_' > n) /\ apps_' = apps_
          BY <2>1, <2>5, <3>1, <3>3 DEF Arrive, application_requested, n
      <4>2. n' = IF pending_' > n THEN n + 1 ELSE n
          BY <2>1, <4>1 DEF n
      <4> QED
          BY <2>1, <3>2, <4>1, <4>2
    <3>4. CASE ArriveFails \/ Drop \/ Submit \/ UNCHANGED vars
      <4>1. n' = n /\ pending_' >= pending_ /\ reading' + queued' <= reading + queued
          BY <2>1, <3>4 DEF ArriveFails, Drop, Submit, vars, n
      <4>2. reading' + queued' \in Int /\ reading + queued \in Int /\ pending_' \in Int
          BY DEF TypeOK
      <4>3. n \in Int /\ pending_ \in Int
          BY <2>1
      <4> QED
          BY <3>2, <4>1, <4>2, <4>3
    <3>5. ASSUME NEW t \in Threads, get(t)
          PROVE  reading' + queued' <= pending_' /\ reading' + queued' <= n'
      <4>1. /\ queued > 0 /\ queued' = queued - 1 /\ reading' = reading
            /\ apps_ # <<>> /\ apps_' = SubSeq(apps_, 1, Len(apps_) - 1)
            /\ pending_' = Decremented(pending_)
          BY <2>5, <3>5 DEF get
      <4>2. n' = n - 1
          BY <2>1, <4>1, PopBack DEF n
      <4>3. pending_' = pending_ - 1
          BY <2>1, <3>2, <4>1 DEF Decremented
      <4> QED
          BY <2>1, <3>2, <4>1, <4>2, <4>3
    <3>6. ASSUME NEW t \in Threads, GetNothing(t)
          PROVE  reading' + queued' <= pending_' /\ reading' + queued' <= n'
        BY <2>1, <3>2, <3>6 DEF GetNothing, n
    <3>7. ASSUME NEW t \in Threads, put(t)
          PROVE  reading' + queued' <= pending_' /\ reading' + queued' <= n'
      <4>1. /\ apps_' = Append(apps_, app[t]) /\ app[t] \in 0..created
            /\ UNCHANGED <<pending_, reading, queued>>
          BY <2>1, <3>7 DEF put
      <4>2. n' = n + 1
          BY <2>1, <4>1, <3>7 DEF n, put, None
      <4> QED
          BY <2>1, <3>2, <4>1, <4>2
    <3> QED
        BY <3>3, <3>4, <3>5, <3>6, <3>7, Zenon DEF Next
  <2> QED
      BY <2>1, <2>3, <2>4, <2>5 DEF CountInv, EnoughApplications, b, n
<1>3. TypeOK /\ CountInv => NeverEmpty
  <2> SUFFICES ASSUME TypeOK, CountInv, legacy, queued > 0, Busy # Threads
               PROVE  apps_ # <<>>
      BY DEF NeverEmpty
  <2>1. Cardinality(Busy) \in Nat /\ Cardinality(Busy) < limit_ /\ limit_ \in Nat
      BY BusyBound
  <2>2. Len(apps_) > 0
      BY <2>1 DEF CountInv, EnoughApplications, RoomForAll, TypeOK
  <2> QED
      BY <2>2
<1> QED
    BY <1>1, <1>2, <1>3, PoolIsTypeCorrect, PTL DEF Spec, CountInv, PoolSuffices
=============================================================================
