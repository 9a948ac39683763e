----------------------------- MODULE IoService -----------------------------
(***************************************************************************)
(* booster::aio::io_service (booster/lib/aio/src/io_service.cpp): the      *)
(* event loop.  Handlers wait in the dispatch queue, in the table of       *)
(* timers, or armed on a file descriptor; threads inside run() move them   *)
(* to the queue and call them.  A critical section of data_mutex_ is one   *)
(* action.  The mutex is released while a queued item executes and while   *)
(* the reactor polls, and calls of the API may come in at these moments.   *)
(*                                                                         *)
(* Handlers name single-use callbacks.  The reactor is external: it        *)
(* watches what select() was last told, which current_event repeats.       *)
(***************************************************************************)
EXTENDS Integers, SequencesExt

CONSTANTS Threads,      \* threads that call run()
          Fds,          \* valid file descriptors
          Handlers,     \* callbacks, each handed to the service at most once
          NoHandler,    \* the empty event_handler
          Slots,        \* indices of timer_events_index_
          MaxTime,      \* bound on the clock
          MaxCancelers, \* bound on the cancelers queued at a time
          AnyThread     \* TRUE: any thread calls the API;
                        \* FALSE: only handlers do, or everyone before run()

ASSUME LoopAssumption == /\ NoHandler \notin Handlers
                         /\ MaxTime \in Nat
                         /\ MaxCancelers \in Nat
                         /\ AnyThread \in BOOLEAN

VARIABLES
    dispatch_queue_,    \* items: a call of a handler, a setter or a canceler
    map_,               \* fd -> io_data
    timers_,            \* slot in use -> its timer event
    reactor_,           \* the reactor and the interrupter exist
    stop_,
    polling_,
    wakeup,             \* a byte waits in the interrupter's pipe
    now,
    pc,                 \* thread -> where it is in run()
    counter,            \* thread -> items left to dispatch in this round
    exec,               \* thread -> item it executes
    evs,                \* thread -> what poll() returned
    until,              \* thread -> when its poll() times out
    used,               \* history: handlers handed over
    calls,              \* history: handler -> number of calls
    dropped             \* history: handlers overwritten or cleared by reset()

loopVars == <<pc, counter, exec, evs, until>>
histVars == <<used, calls, dropped>>
vars == <<dispatch_queue_, map_, timers_, reactor_, stop_, polling_, wakeup, now,
          loopVars, histVars>>

Events == {"in", "out"}
Forever == MaxTime + 1      \* ptime::hours(1), far beyond the clock's bound

Call(h, e)       == [k |-> "call", h |-> h, e |-> e]
Setter(fd, v, h) == [k |-> "set", fd |-> fd, event |-> v, h |-> h]
Canceler(fd)     == [k |-> "cancel", fd |-> fd]
IsCanceler(item) == item.k = "cancel"
Nothing          == [k |-> "none"]

IoData  == [current_event : SUBSET Events, h : [Events -> Handlers \cup {NoHandler}]]
NoData  == [current_event |-> {}, h |-> [v \in Events |-> NoHandler]]
NoEvs   == [ready |-> [fd \in Fds |-> {}], interrupted |-> FALSE]

Init == /\ dispatch_queue_ = <<>>
        /\ map_ = [fd \in Fds |-> NoData]
        /\ timers_ = [s \in {} |-> 0]
        /\ reactor_ = FALSE /\ stop_ = FALSE /\ polling_ = FALSE /\ wakeup = FALSE
        /\ now = 0
        /\ pc = [t \in Threads |-> "out"]
        /\ counter = [t \in Threads |-> 0]
        /\ exec = [t \in Threads |-> Nothing]
        /\ evs = [t \in Threads |-> NoEvs]
        /\ until = [t \in Threads |-> 0]
        /\ used = {} /\ dropped = {}
        /\ calls = [h \in Handlers |-> 0]

\* Calls of a data: the non-empty handlers of the given events, moved out of
\* io_data (the constructor taking event_handler & releases its argument).
CallsOf(data, vs, e) ==
    LET fired(v) == IF v \in vs /\ data.h[v] # NoHandler
                    THEN <<Call(data.h[v], e)>> ELSE <<>>
    IN  fired("in") \o fired("out")

Without_Copy(data, vs) == data

Without(data, vs) == [data EXCEPT !.h = [v \in Events |->
                                         IF v \in vs THEN NoHandler ELSE data.h[v]]]
-----------------------------------------------------------------------------
(* The functors: run by the loop, or by the caller when nobody polls.      *)

\* io_event_setter::operator(): select() may refuse, and reports to h then.
\* q is the dispatch queue it finds.
io_event_setter(fd, v, h, q) ==
    \/ /\ dropped' = dropped \cup ({map_[fd].h[v]} \ {NoHandler})
       /\ map_' = [map_ EXCEPT ![fd].current_event = @ \cup {v}, ![fd].h[v] = h]
       /\ dispatch_queue_' = q
    \/ /\ dispatch_queue_' = Append(q, Call(h, "error"))
       /\ UNCHANGED <<map_, dropped>>

io_event_canceler_KeepsInterest(fd, q) ==
    /\ dispatch_queue_' = q \o CallsOf(map_[fd], Events, "canceled")
    /\ map_' = [map_ EXCEPT ![fd] = Without(map_[fd], Events)]
    /\ UNCHANGED dropped

io_event_canceler(fd, q) ==
    /\ dispatch_queue_' = q \o CallsOf(map_[fd], Events, "canceled")
    /\ map_' = [map_ EXCEPT ![fd] = NoData]
    /\ UNCHANGED dropped
-----------------------------------------------------------------------------
(* The API.                                                                *)

ClientMayCall == \/ AnyThread
                 \/ \E t \in Threads : pc[t] = "exec" /\ exec[t].k = "call"
                 \/ \A t \in Threads : pc[t] = "out"

Fresh(h) == /\ h \notin used
            /\ used' = used \cup {h}

post_NoWake(h) ==
    /\ ClientMayCall
    /\ Fresh(h)
    /\ dispatch_queue_' = Append(dispatch_queue_, Call(h, "ok"))
    /\ wakeup' = wakeup
    /\ UNCHANGED <<map_, timers_, reactor_, stop_, polling_, now, loopVars,
                   calls, dropped>>

post(h) ==
    /\ ClientMayCall
    /\ Fresh(h)
    /\ dispatch_queue_' = Append(dispatch_queue_, Call(h, "ok"))
    /\ wakeup' = (wakeup \/ polling_)
    /\ UNCHANGED <<map_, timers_, reactor_, stop_, polling_, now, loopVars,
                   calls, dropped>>

set_io_event(fd, v, h) ==
    /\ ClientMayCall
    /\ Fresh(h)
    /\ \/ /\ polling_ \/ ~reactor_
          /\ dispatch_queue_' = Append(dispatch_queue_, Setter(fd, v, h))
          /\ wakeup' = (wakeup \/ reactor_)
          /\ UNCHANGED <<map_, dropped>>
       \/ /\ ~polling_ /\ reactor_
          /\ io_event_setter(fd, v, h, dispatch_queue_)
          /\ UNCHANGED wakeup
    /\ UNCHANGED <<timers_, reactor_, stop_, polling_, now, loopVars, calls>>

cancelation_is_needed(fd) == dispatch_queue_ # <<>> \/ map_[fd] # NoData

cancel_io_events(fd) ==
    /\ ClientMayCall
    /\ \/ /\ ~cancelation_is_needed(fd)
          /\ UNCHANGED <<dispatch_queue_, map_, dropped, wakeup>>
       \/ /\ cancelation_is_needed(fd)
          /\ polling_ \/ ~reactor_
          /\ Len(SelectSeq(dispatch_queue_, IsCanceler)) < MaxCancelers
          /\ dispatch_queue_' = Append(dispatch_queue_, Canceler(fd))
          /\ wakeup' = (wakeup \/ reactor_)
          /\ UNCHANGED <<map_, dropped>>
       \/ /\ cancelation_is_needed(fd)
          /\ ~polling_ /\ reactor_
          /\ io_event_canceler(fd, dispatch_queue_)
          /\ UNCHANGED wakeup
    /\ UNCHANGED <<timers_, reactor_, stop_, polling_, now, loopVars, used, calls>>

set_timer_event_WakeIfOnly(point, h, slot) ==
    /\ ClientMayCall
    /\ Fresh(h)
    /\ slot \notin DOMAIN timers_
    /\ timers_' = [s \in DOMAIN timers_ \cup {slot} |->
                      IF s = slot THEN [point |-> point, h |-> h] ELSE timers_[s]]
    /\ wakeup' = (wakeup \/ (polling_ /\ DOMAIN timers_ = {}))
    /\ UNCHANGED <<dispatch_queue_, map_, reactor_, stop_, polling_, now, loopVars,
                   calls, dropped>>

\* The index grows when it is crowded, so a free slot is always found.
set_timer_event(point, h, slot) ==
    /\ ClientMayCall
    /\ Fresh(h)
    /\ slot \notin DOMAIN timers_
    /\ timers_' = [s \in DOMAIN timers_ \cup {slot} |->
                      IF s = slot THEN [point |-> point, h |-> h] ELSE timers_[s]]
    /\ wakeup' = (wakeup \/ (polling_ /\ \A s \in DOMAIN timers_ : timers_[s].point >= point))
    /\ UNCHANGED <<dispatch_queue_, map_, reactor_, stop_, polling_, now, loopVars,
                   calls, dropped>>

cancel_timer_event_NoDispatch(id) ==
    /\ ClientMayCall
    /\ id \in DOMAIN timers_
    /\ UNCHANGED dispatch_queue_
    /\ timers_' = [s \in DOMAIN timers_ \ {id} |-> timers_[s]]
    /\ wakeup' = (wakeup \/ polling_)
    /\ UNCHANGED <<map_, reactor_, stop_, polling_, now, loopVars, histVars>>

\* An id that is not in use is ignored, which is a stuttering step.
cancel_timer_event(id) ==
    /\ ClientMayCall
    /\ id \in DOMAIN timers_
    /\ dispatch_queue_' = Append(dispatch_queue_, Call(timers_[id].h, "canceled"))
    /\ timers_' = [s \in DOMAIN timers_ \ {id} |-> timers_[s]]
    /\ wakeup' = (wakeup \/ polling_)
    /\ UNCHANGED <<map_, reactor_, stop_, polling_, now, loopVars, histVars>>

stop_NoWake ==
    /\ ClientMayCall
    /\ stop_' = TRUE
    /\ wakeup' = wakeup
    /\ UNCHANGED <<dispatch_queue_, map_, timers_, reactor_, polling_, now,
                   loopVars, histVars>>

stop == /\ ClientMayCall
        /\ stop_' = TRUE
        /\ wakeup' = (wakeup \/ polling_)
        /\ UNCHANGED <<dispatch_queue_, map_, timers_, reactor_, polling_, now,
                       loopVars, histVars>>

HandlersIn(q) == {q[i].h : i \in {k \in 1..Len(q) : q[k].k \in {"call", "set"}}}
Armed == {map_[fd].h[v] : fd \in Fds, v \in Events} \ {NoHandler}

\* reset() is for the time when no thread is in run().  Timers stay.
reset ==
    /\ \A t \in Threads : pc[t] = "out"
    /\ dropped' = dropped \cup HandlersIn(dispatch_queue_) \cup Armed
    /\ dispatch_queue_' = <<>>
    /\ map_' = [fd \in Fds |-> NoData]
    /\ stop_' = FALSE /\ reactor_' = FALSE /\ wakeup' = FALSE
    /\ UNCHANGED <<timers_, polling_, now, loopVars, used, calls>>
-----------------------------------------------------------------------------
(* run() and run_one().                                                    *)

run(t) == /\ pc[t] = "out"
          /\ pc' = [pc EXCEPT ![t] = "begin"]
          /\ UNCHANGED <<dispatch_queue_, map_, timers_, reactor_, stop_, polling_,
                         wakeup, now, counter, exec, evs, until, histVars>>

\* The dispatch loop takes an item and releases the mutex to execute it.
Dispatch(t, n) ==
    LET item == Head(dispatch_queue_) IN
    /\ ~stop_ /\ dispatch_queue_ # <<>> /\ n > 0
    /\ dispatch_queue_' = Tail(dispatch_queue_)
    /\ pc' = [pc EXCEPT ![t] = "exec"]
    /\ exec' = [exec EXCEPT ![t] = item]
    /\ counter' = [counter EXCEPT ![t] = n]
    /\ calls' = IF item.k = "call" THEN [calls EXCEPT ![item.h] = @ + 1] ELSE calls
    /\ UNCHANGED <<timers_, polling_, until>>

Expired == {s \in DOMAIN timers_ : timers_[s].point <= now}

\* The ways to take the expired timers off the front of the multimap.
ExpiryOrders == {o \in SetToSeqs(Expired) :
                    \A i, k \in 1..Len(o) : i < k => timers_[o[i]].point <= timers_[o[k]].point}

\* Expired timers join the queue, then the thread polls: not at all when items
\* are queued, otherwise until the next timer.
StartPoll(t, n) ==
    /\ ~stop_ /\ (dispatch_queue_ = <<>> \/ n = 0)
    /\ \E order \in ExpiryOrders :
           dispatch_queue_' = dispatch_queue_ \o
               [i \in 1..Len(order) |-> Call(timers_[order[i]].h, "ok")]
    /\ timers_' = [s \in DOMAIN timers_ \ Expired |-> timers_[s]]
    /\ polling_' = TRUE
    /\ until' = [until EXCEPT ![t] =
                    IF dispatch_queue_' # <<>> THEN now
                    ELSE Min({timers_[s].point : s \in DOMAIN timers_} \cup {Forever})]
    /\ pc' = [pc EXCEPT ![t] = "poll"]
    /\ exec' = [exec EXCEPT ![t] = Nothing]
    /\ counter' = [counter EXCEPT ![t] = 0]
    /\ UNCHANGED calls

LeaveRun(t) ==
    /\ stop_
    /\ pc' = [pc EXCEPT ![t] = "out"]
    /\ exec' = [exec EXCEPT ![t] = Nothing]
    /\ counter' = [counter EXCEPT ![t] = 0]
    /\ UNCHANGED <<dispatch_queue_, timers_, polling_, until, calls>>

\* From the head of the dispatch loop to the next release of the mutex.
Round(t, n) == Dispatch(t, n) \/ StartPoll(t, n) \/ LeaveRun(t)

RunOne(t) ==
    /\ pc[t] = "begin"
    /\ reactor_' = TRUE
    /\ Round(t, Len(dispatch_queue_))
    /\ UNCHANGED <<map_, stop_, wakeup, now, evs, used, dropped>>

\* A setter or canceler of the queue takes the mutex by itself.
RunFunctor(t) ==
    /\ pc[t] = "exec"
    /\ \/ /\ exec[t].k = "set"
          /\ io_event_setter(exec[t].fd, exec[t].event, exec[t].h, dispatch_queue_)
       \/ /\ exec[t].k = "cancel"
          /\ io_event_canceler(exec[t].fd, dispatch_queue_)
    /\ exec' = [exec EXCEPT ![t] = Nothing]
    /\ UNCHANGED <<timers_, reactor_, stop_, polling_, wakeup, now, pc, counter, evs,
                   until, used, calls>>

ItemReturns(t) ==
    /\ pc[t] = "exec"
    /\ exec[t].k \in {"call", "none"}
    /\ Round(t, counter[t] - 1)
    /\ UNCHANGED <<map_, reactor_, stop_, wakeup, now, evs, used, dropped>>

\* An exception of a handler leaves run(), which may be called again.
HandlerThrows(t) ==
    /\ pc[t] = "exec"
    /\ exec[t].k = "call"
    /\ pc' = [pc EXCEPT ![t] = "out"]
    /\ exec' = [exec EXCEPT ![t] = Nothing]
    /\ counter' = [counter EXCEPT ![t] = 0]
    /\ UNCHANGED <<dispatch_queue_, map_, timers_, reactor_, stop_, polling_, wakeup,
                   now, evs, until, histVars>>

\* What the reactor may report: events asked for, or an error of a watched fd.
ReadySets ==
    {r \in [Fds -> SUBSET (Events \cup {"err"})] :
        \A fd \in Fds : /\ r[fd] \subseteq map_[fd].current_event \cup {"err"}
                        /\ map_[fd].current_event = {} => r[fd] = {}}

PollReturns(t, r) ==
    /\ evs' = [evs EXCEPT ![t] = [ready |-> r, interrupted |-> wakeup]]
    /\ pc' = [pc EXCEPT ![t] = "polled"]
    /\ until' = [until EXCEPT ![t] = 0]
    /\ UNCHANGED <<dispatch_queue_, map_, timers_, reactor_, stop_, polling_, wakeup,
                   now, counter, exec, histVars>>

\* poll() returns because it was interrupted or timed out,
PollWakes(t) ==
    /\ pc[t] = "poll"
    /\ wakeup \/ until[t] <= now
    /\ \E r \in ReadySets : PollReturns(t, r)

\* because a descriptor is ready,
PollReady(t) ==
    /\ pc[t] = "poll"
    /\ \E r \in ReadySets : /\ \E fd \in Fds : r[fd] # {}
                            /\ PollReturns(t, r)

\* or with an error: a signal, or one that is fatal unless items are queued.
PollFails(t) ==
    /\ pc[t] = "poll"
    /\ polling_' = FALSE
    /\ \/ /\ pc' = [pc EXCEPT ![t] = "begin"]
          /\ wakeup' = (wakeup \/ stop_)
       \/ /\ dispatch_queue_ = <<>>
          /\ pc' = [pc EXCEPT ![t] = "out"]
          /\ UNCHANGED wakeup
    /\ until' = [until EXCEPT ![t] = 0]
    /\ UNCHANGED <<dispatch_queue_, map_, timers_, reactor_, stop_, now, counter, exec,
                   evs, histVars>>

\* The events in a random order: interest that fired, failed or cannot be
\* renewed by select() ends, and its handlers are queued.
HandleEvents(t) ==
    /\ pc[t] = "polled"
    /\ polling_' = FALSE
    /\ LET ready == evs[t].ready
           hit   == {fd \in Fds : ready[fd] # {}} IN
       \E order \in SetToSeqs(hit), failed \in SUBSET hit :
          LET bad(fd)        == "err" \in ready[fd] \/ fd \in failed
              new_events(fd) == IF bad(fd) THEN {} ELSE map_[fd].current_event \ ready[fd]
              queued(fd)     == CallsOf(map_[fd], Events \ new_events(fd),
                                        IF bad(fd) THEN "error" ELSE "ok")
          IN  /\ dispatch_queue_' = dispatch_queue_ \o
                     FlattenSeq([i \in 1..Len(order) |-> queued(order[i])])
              /\ map_' = [fd \in Fds |->
                     IF fd \notin hit THEN map_[fd]
                     ELSE [Without(map_[fd], Events \ new_events(fd))
                              EXCEPT !.current_event = new_events(fd)]]
    /\ wakeup' = ((wakeup /\ ~evs[t].interrupted) \/ stop_)
    /\ pc' = [pc EXCEPT ![t] = "begin"]
    /\ evs' = [evs EXCEPT ![t] = NoEvs]
    /\ UNCHANGED <<timers_, reactor_, stop_, now, counter, exec, until, histVars>>

Tick == /\ now < MaxTime
        /\ now' = now + 1
        /\ UNCHANGED <<dispatch_queue_, map_, timers_, reactor_, stop_, polling_, wakeup,
                       loopVars, histVars>>
-----------------------------------------------------------------------------
IoNext == \/ \E h \in Handlers, fd \in Fds, v \in Events : set_io_event(fd, v, h)
          \/ \E fd \in Fds : cancel_io_events(fd)

LoopStep(t) == \/ RunOne(t) \/ RunFunctor(t) \/ ItemReturns(t)
               \/ PollWakes(t) \/ HandleEvents(t)

LoopNext == \E t \in Threads : \/ run(t) \/ LoopStep(t)
                               \/ HandlerThrows(t) \/ PollReady(t) \/ PollFails(t)

Next == \/ \E h \in Handlers : post(h)
        \/ IoNext
        \/ \E h \in Handlers, p \in 0..MaxTime, s \in Slots : set_timer_event(p, h, s)
        \/ \E s \in Slots : cancel_timer_event(s)
        \/ stop \/ reset
        \/ LoopNext
        \/ Tick

Spec == Init /\ [][Next]_vars

\* A thread in run() keeps going: handlers return, poll() returns when it is
\* interrupted or times out.  Nothing is assumed of descriptors.
FairSpec == /\ Spec
            /\ \A t \in Threads : WF_vars(LoopStep(t))
            /\ WF_vars(Tick)
-----------------------------------------------------------------------------
(* Properties *)

Items == [k : {"call"}, h : Handlers, e : {"ok", "canceled", "error"}]
         \cup [k : {"set"}, fd : Fds, event : Events, h : Handlers]
         \cup [k : {"cancel"}, fd : Fds]

TypeOK == /\ dispatch_queue_ \in Seq(Items)
          /\ map_ \in [Fds -> IoData]
          /\ DOMAIN timers_ \subseteq Slots
          /\ \A s \in DOMAIN timers_ : timers_[s] \in [point : 0..MaxTime, h : Handlers]
          /\ {reactor_, stop_, polling_, wakeup} \subseteq BOOLEAN
          /\ now \in 0..MaxTime
          /\ pc \in [Threads -> {"out", "begin", "exec", "poll", "polled"}]
          /\ counter \in [Threads -> Nat]
          /\ exec \in [Threads -> Items \cup {Nothing}]
          /\ evs \in [Threads -> [ready : [Fds -> SUBSET (Events \cup {"err"})],
                                  interrupted : BOOLEAN]]
          /\ until \in [Threads -> 0..Forever]
          /\ used \subseteq Handlers /\ dropped \subseteq used
          /\ calls \in [Handlers -> Nat]

Count(S) == Cardinality(S)
InQueue(h)  == {i \in 1..Len(dispatch_queue_) :
                   dispatch_queue_[i].k \in {"call", "set"} /\ dispatch_queue_[i].h = h}
InSetter(h) == {t \in Threads : exec[t].k = "set" /\ exec[t].h = h}
ArmedAt(h)  == {x \in Fds \X Events : map_[x[1]].h[x[2]] = h}
InTimers(h) == {s \in DOMAIN timers_ : timers_[s].h = h}
Times(b)    == IF b THEN 1 ELSE 0

\* Every handler that was handed over is in exactly one place until it has
\* been called exactly once: moving it out of io_data and of the timer table
\* at the right moment is all that prevents a lost or a repeated call.  (The
\* state is well typed throughout.)
HandledOnce ==
    /\ TypeOK
    /\ \A h \in Handlers :
          Count(InQueue(h)) + Count(InSetter(h)) + Count(ArmedAt(h)) + Count(InTimers(h))
              + calls[h] + Times(h \in dropped) = Times(h \in used)

\* The loop watches an event of a descriptor exactly while a handler is armed
\* for it: otherwise the handler would never be called, or the loop would spin.
InterestMatchesHandlers ==
    \A fd \in Fds, v \in Events :
        v \in map_[fd].current_event <=> map_[fd].h[v] # NoHandler

\* The single thread of a service never sleeps while there is something to do:
\* unless its poll() is about to return, nothing is queued, the service is not
\* stopped and no timer is due before poll() times out.
NoLostWakeup ==
    \A t \in Threads :
        pc[t] = "poll" /\ ~wakeup /\ until[t] > now =>
            /\ dispatch_queue_ = <<>>
            /\ ~stop_
            /\ \A s \in DOMAIN timers_ : until[t] <= timers_[s].point

\* What waits for the loop does not wait for ever, unless run() is left or the
\* queue is reset: a queued handler is called, and a timer goes off.
HandlersAreCalled ==
    \A h \in Handlers :
        (h \in HandlersIn(dispatch_queue_) \/ InTimers(h) # {}) ~>
            \/ h \notin HandlersIn(dispatch_queue_) /\ InTimers(h) = {}
            \/ \A t \in Threads : pc[t] = "out"

\* stop() ends run().
StopEndsRun == stop_ ~> (\A t \in Threads : pc[t] = "out")
=============================================================================
