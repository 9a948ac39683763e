--------------------------- MODULE DeadlineTimer ---------------------------
(***************************************************************************)
(* booster::aio::deadline_timer (booster/lib/aio/src/deadline_timer.cpp)   *)
(* on top of the event loop of IoService.  A timer remembers the slot of   *)
(* its wait in event_id_; the waiter clears it when it is called, just     *)
(* before the user's handler.  A new wait may begin at any time, also      *)
(* while an earlier one of the same timer is on its way.  Timers are used  *)
(* from handlers of the loop (AnyThread = FALSE).                          *)
(***************************************************************************)
EXTENDS IoService

CONSTANTS Timers, NoTimer

ASSUME TimerAssumption == NoTimer \notin Timers

VARIABLES
    event_id_,      \* timer -> slot of its wait, or NoEvent
    srv_,           \* timer -> it has an io_service
    owner,          \* history: handler -> timer that waits with it
    asked,          \* history: handlers whose wait was pending at a cancel()
                    \* that did not throw, until they are called
    overlapped      \* history: timers that began a wait before the waiter of
                    \* the one before was called

timerVars == <<event_id_, srv_, owner, asked, overlapped>>

NoEvent == -1

TimerInit == /\ Init
             /\ event_id_ = [tm \in Timers |-> NoEvent]
             /\ srv_ = [tm \in Timers |-> TRUE]
             /\ owner = [h \in Handlers |-> NoTimer]
             /\ asked = {}
             /\ overlapped = {}

Pending(tm) == {h \in Handlers : owner[h] = tm /\ calls[h] = 0 /\ h \notin dropped}

async_wait(tm, h, p, slot) ==
    /\ srv_[tm]
    /\ set_timer_event(p, h, slot)
    /\ event_id_' = [event_id_ EXCEPT ![tm] = slot]
    /\ owner' = [owner EXCEPT ![h] = tm]
    /\ overlapped' = IF Pending(tm) = {} THEN overlapped ELSE overlapped \cup {tm}
    /\ UNCHANGED <<srv_, asked>>

\* cancel() forgets the wait and cancels the slot, which may be free by now;
\* without a service get_io_service() throws in between.
cancel(tm) ==
    /\ ClientMayCall
    /\ event_id_[tm] # NoEvent
    /\ event_id_' = [event_id_ EXCEPT ![tm] = NoEvent]
    /\ asked' = IF srv_[tm] THEN asked \cup Pending(tm) ELSE asked
    /\ \/ srv_[tm] /\ cancel_timer_event(event_id_[tm])
       \/ /\ ~srv_[tm] \/ event_id_[tm] \notin DOMAIN timers_
          /\ UNCHANGED vars
    /\ UNCHANGED <<srv_, owner, overlapped>>

\* The pending wait stays in the loop.
reset_io_service(tm) ==
    /\ ClientMayCall
    /\ srv_[tm]
    /\ srv_' = [srv_ EXCEPT ![tm] = FALSE]
    /\ UNCHANGED <<vars, event_id_, owner, asked, overlapped>>

WaitersCalled_AfterHandler ==
    /\ event_id_' = [tm \in Timers |->
                        IF \E t \in Threads : /\ exec[t].k = "call" /\ owner[exec[t].h] = tm
                                              /\ exec'[t] # exec[t]
                        THEN NoEvent ELSE event_id_[tm]]
    /\ asked' = {h \in asked : calls'[h] = 0}
    /\ UNCHANGED <<srv_, owner, overlapped>>

\* waiter::operator(), called by the loop.
WaitersCalled ==
    /\ event_id_' = [tm \in Timers |->
                        IF \E h \in Handlers : owner[h] = tm /\ calls'[h] > calls[h]
                        THEN NoEvent ELSE event_id_[tm]]
    /\ asked' = {h \in asked : calls'[h] = 0}
    /\ UNCHANGED <<srv_, owner, overlapped>>

\* Handlers are mere names, each of which is handed over once: which one comes
\* next does not matter.
NextHandler == IF used = Handlers THEN {} ELSE {CHOOSE h \in Handlers : h \notin used}

TimerNext ==
    \/ \E tm \in Timers, h \in NextHandler, p \in 0..MaxTime, s \in Slots :
          async_wait(tm, h, p, s)
    \/ \E tm \in Timers : cancel(tm) \/ reset_io_service(tm)
    \/ \E h \in NextHandler : post(h) /\ UNCHANGED timerVars
    \/ LoopNext /\ WaitersCalled
    \/ (stop \/ reset \/ Tick) /\ UNCHANGED timerVars

allVars == <<vars, timerVars>>

TimerSpec == TimerInit /\ [][TimerNext]_allVars

FairTimerSpec ==
    /\ TimerSpec
    /\ \A t \in Threads : WF_allVars(LoopStep(t) /\ WaitersCalled)
    /\ WF_allVars(Tick /\ UNCHANGED timerVars)
-----------------------------------------------------------------------------
(* Properties *)

TimerTypeOK == /\ TypeOK
               /\ event_id_ \in [Timers -> Slots \cup {NoEvent}]
               /\ srv_ \in [Timers -> BOOLEAN]
               /\ owner \in [Handlers -> Timers \cup {NoTimer}]
               /\ asked \subseteq Handlers
               /\ overlapped \subseteq Timers

\* A timer whose waits follow each other, each begun in or after the handler of
\* the one before, as the framework does: as long as a wait has not expired its
\* timer knows its slot, so that cancel() can reach it, also when it was begun by
\* the handler that the waiter calls.  Nothing is said of a timer that began a
\* wait earlier than that, be it after a cancel(): the waiter of the cancelled
\* wait is called later and erases the slot of the new one.  (A timer without a
\* service forgets the slot when its cancel() throws.)  The state is well typed.
PendingWaitIsCancellable ==
    /\ TimerTypeOK
    /\ \A s \in DOMAIN timers_ :
          LET tm == owner[timers_[s].h]
          IN  tm # NoTimer /\ srv_[tm] /\ tm \notin overlapped => event_id_[tm] = s

\* A wait that was pending at a cancel() is over soon: its handler is called,
\* with the code of the cancellation or of the expiry that came first.
CancelledWaitCompletes ==
    \A h \in Handlers :
        (h \in asked) ~> (calls[h] > 0 \/ h \in dropped \/ \A t \in Threads : pc[t] = "out")

\* io_service.h on set_timer_event(): "the handler will be called only in two
\* cases", its time has come or it "was canceled".  A handler is called with
\* the canceled code only after a cancel() of its own timer.
OnlyOwnerCancels ==
    \A i \in 1..Len(dispatch_queue_) :
        LET item == dispatch_queue_[i] IN
        item.k = "call" /\ item.e = "canceled" /\ owner[item.h] # NoTimer => item.h \in asked
=============================================================================
