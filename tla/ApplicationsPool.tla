-------------------------- MODULE ApplicationsPool -------------------------
(***************************************************************************)
(* application_specific_pool (src/applications_pool.cpp) with the policies *)
(* that serve synchronous requests, _pool_policy and _legacy_pool_policy,  *)
(* and the way of a request through it (src/http_context.cpp): its headers *)
(* are read and the pool is told of it, its content is read, it waits in   *)
(* the thread pool, and a worker gets an application, runs it and puts it  *)
(* back.  Every operation of the pool runs under its lock.                 *)
(*                                                                         *)
(* The vector apps_ up to size_ is a sequence; applications are numbered   *)
(* as they are created.                                                    *)
(***************************************************************************)
EXTENDS Integers, Sequences, FiniteSets

CONSTANTS Threads,      \* workers of the thread pool
          Word,         \* pending_ is unsigned: 2^64 in the code
          MaxRequests,  \* bound on the requests on their way
          MaxPending    \* bound on pending_ in requests that fail

ASSUME AppsAssumption == /\ IsFiniteSet(Threads)
                         /\ Word \in Nat \ {0}
                         /\ MaxRequests \in Nat /\ MaxPending \in Nat

\* applications_pool gives every pool the number of threads as its size.
limit_ == Cardinality(Threads)

None == 0               \* no application

VARIABLES
    legacy,         \* the policy is _legacy_pool_policy; it never changes
    apps_,          \* sequence of idle applications
    total_,         \* applications of the legacy policy
    pending_,       \* requests it believes to be on their way
    reading,        \* number of requests whose content is read
    queued,         \* number of requests in the thread pool
    app,            \* worker -> application that it runs, or None
    created         \* number of applications created so far

vars == <<legacy, apps_, total_, pending_, reading, queued, app, created>>

\* A pool that is mounted with app::prepopulated is filled by prepopulate()
\* before the first request can reach it; the legacy policy ignores the flag.
Init == /\ legacy \in BOOLEAN
        /\ \/ apps_ = <<>>
           \/ ~legacy /\ apps_ = [i \in 1..limit_ |-> i]
        /\ created = Len(apps_)
        /\ total_ = 0 /\ pending_ = 0
        /\ reading = 0 /\ queued = 0
        /\ app = [t \in Threads |-> None]

get_new == created + 1

\* -- on a size_t
Decremented(n) == IF n = 0 THEN Word - 1 ELSE n - 1

application_requested_NoLimit ==
    /\ pending_' = pending_ + 1
    /\ IF pending_' > Len(apps_)
       THEN /\ apps_' = Append(apps_, get_new)
            /\ total_' = total_ + 1
            /\ created' = get_new
       ELSE UNCHANGED <<apps_, total_, created>>

\* application_requested() of the legacy policy makes sure that there is an
\* application for every request on its way, up to the limit.
application_requested ==
    IF ~legacy \/ total_ >= limit_
    THEN UNCHANGED <<apps_, total_, pending_, created>>
    ELSE /\ pending_' = pending_ + 1
         /\ IF pending_' > Len(apps_)
            THEN /\ apps_' = Append(apps_, get_new)
                 /\ total_' = total_ + 1
                 /\ created' = get_new
            ELSE UNCHANGED <<apps_, total_, created>>

\* The headers of a request are read.
Arrive ==
    /\ reading + queued < MaxRequests
    /\ application_requested
    /\ reading' = reading + 1
    /\ UNCHANGED <<queued, app>>

\* The constructor of the application throws; the request ends with an error.
ArriveFails ==
    /\ legacy /\ total_ < limit_ /\ pending_ < MaxPending
    /\ pending_' = pending_ + 1
    /\ pending_' > Len(apps_)
    /\ UNCHANGED <<apps_, total_, reading, queued, app, created>>

Drop_Twice ==
    /\ reading' = reading - 1
    /\ UNCHANGED <<apps_, total_, pending_, queued, app, created>>

\* Reading the content fails; the pool is not told.
Drop ==
    /\ reading > 0
    /\ reading' = reading - 1
    /\ UNCHANGED <<apps_, total_, pending_, queued, app, created>>

Submit ==
    /\ reading > 0
    /\ reading' = reading - 1
    /\ queued' = queued + 1
    /\ UNCHANGED <<apps_, total_, pending_, app, created>>

get_NoPop(t) ==
    /\ queued > 0 /\ app[t] = None
    /\ queued' = queued - 1
    /\ apps_ # <<>>
    /\ app' = [app EXCEPT ![t] = apps_[Len(apps_)]]
    /\ UNCHANGED <<apps_, total_, pending_, reading, created>>

\* A worker takes a request, and an application from the pool.
get(t) ==
    /\ queued > 0 /\ app[t] = None
    /\ queued' = queued - 1
    /\ \/ /\ apps_ # <<>>
          /\ app' = [app EXCEPT ![t] = apps_[Len(apps_)]]
          /\ apps_' = SubSeq(apps_, 1, Len(apps_) - 1)
          /\ pending_' = IF legacy THEN Decremented(pending_) ELSE pending_
          /\ UNCHANGED created
       \/ /\ apps_ = <<>> /\ ~legacy
          /\ app' = [app EXCEPT ![t] = get_new]
          /\ created' = get_new
          /\ UNCHANGED <<apps_, pending_>>
    /\ UNCHANGED <<total_, reading>>

\* There is none, or it cannot be created: the request is answered with an error.
GetNothing(t) ==
    /\ queued > 0 /\ app[t] = None /\ apps_ = <<>>
    /\ queued' = queued - 1
    /\ UNCHANGED <<apps_, total_, pending_, reading, app, created>>

\* The request is done, and the last reference to the application gone.
put(t) ==
    /\ app[t] # None
    /\ apps_' = Append(apps_, app[t])
    /\ app' = [app EXCEPT ![t] = None]
    /\ UNCHANGED <<total_, pending_, reading, queued, created>>

Next == /\ \/ Arrive \/ ArriveFails \/ Drop \/ Submit
           \/ \E t \in Threads : get(t) \/ GetNothing(t) \/ put(t)
        /\ UNCHANGED legacy

Spec == Init /\ [][Next]_vars
-----------------------------------------------------------------------------
(* Properties *)

Busy == {t \in Threads : app[t] # None}

TypeOK == /\ legacy \in BOOLEAN
          /\ apps_ \in Seq(1..created)
          /\ total_ \in Nat /\ pending_ \in Nat
          /\ reading \in Nat /\ queued \in Nat
          /\ app \in [Threads -> 0..created]
          /\ created \in Nat

\* put() never finds the vector full: the branch that deletes the application
\* and then stores it (applications_pool.cpp:112, :170) is never taken, and the
\* next store is inside the vector.
RoomForAll == Len(apps_) + Cardinality(Busy) <= limit_

\* An application runs in one thread at a time, and is idle or runs.
OnePlace ==
    /\ \A i, j \in 1..Len(apps_) : i # j => apps_[i] # apps_[j]
    /\ \A t \in Busy : \A i \in 1..Len(apps_) : apps_[i] # app[t]
    /\ \A t, u \in Busy : t # u => app[t] # app[u]

\* The legacy policy has an application for every request that a worker takes:
\* "must never happen" (applications_pool.cpp:156) never does, although dropped
\* requests and failed constructors leave pending_ too large, and it wraps.
NeverEmpty ==
    legacy /\ queued > 0 /\ Busy # Threads => apps_ # <<>>

\* The pool has room for every application that comes back, and one for every
\* request that asks.
PoolSuffices == RoomForAll /\ NeverEmpty

\* What makes NeverEmpty inductive: until the legacy policy has all of its
\* applications there is an idle one for every request on its way, and
\* afterwards there are as many as workers.
EnoughApplications ==
    legacy =>
        /\ total_ = Len(apps_) + Cardinality(Busy)
        /\ total_ < limit_ => /\ reading + queued <= pending_
                             /\ reading + queued <= Len(apps_)
=============================================================================
