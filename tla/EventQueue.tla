------------------------------ MODULE EventQueue ------------------------------
(***************************************************************************)
(* Kernel event queues with their user events and timers (src/src/sync.rs).*)
(*                                                                         *)
(* Every call on a queue runs in two atomic steps: it looks its handle up  *)
(* in KQUEUES and clones the Arc under the map's lock (Lookup), then works *)
(* on that queue under the queue's own lock.  Deletion, other calls and    *)
(* timer threads may run in between, so a call can end up working on a     *)
(* queue that is no longer in KQUEUES; the Arc keeps it alive.             *)
(* A blocked waiter is a thread parked in the queue's condition variable.  *)
(***************************************************************************)
EXTENDS Integers, Sequences, FiniteSets

CONSTANTS
  Threads,     \* guest threads that call into the HLE layer
  Ids,         \* event ids the guest uses
  MaxHandles,  \* bound: event queues created in one behaviour
  MaxTimers,   \* bound: timer threads spawned in one behaviour
  MaxEvents    \* bound: events pushed on one queue in one behaviour

ASSUME BoundsAssumption == MaxHandles \in Nat /\ MaxTimers \in Nat /\ MaxEvents \in Nat

VARIABLES
  next,        \* NEXT_HANDLE: how many handles have been handed out
  kqueues,     \* KQUEUES: the handles that can be looked up
  registered,  \* EqueueState.registered: flags of each registered user event
  triggered,   \* EqueueState.triggered
  active,      \* EqueueState.active_timers: id -> timer, 0 when absent
  timers,      \* one record for each spawned timer thread
  pc,          \* where each guest thread is
  target,      \* the queue whose Arc the thread's call holds
  ret,         \* outcome of its last call: every error code is "failed"
  wake,        \* what a thread blocked in the condition variable was sent
  pushed,      \* history: all events ever pushed on each queue
  taken,       \* history: all events ever copied out of each queue
  drained      \* history: queues whose timers sceKernelDeleteEqueue cancelled

mapVars    == <<next, kqueues>>
queueVars  == <<registered, triggered, active>>
threadVars == <<pc, target, ret, wake>>
history    == <<pushed, taken, drained>>
vars       == <<mapVars, queueVars, timers, threadVars, history>>

Handles  == 1 .. MaxHandles
TimerIds == 1 .. MaxTimers
EV_CLEAR == 32
Filters  == {"user", "timer"}

\* src is the timer thread an event comes from, 0 for the guest's own trigger.
Events == [filter : Filters, id : Ids, flags : {0, EV_CLEAR}, src : 0 .. MaxTimers]

Timers == [queue : Handles, id : Ids, cancel : BOOLEAN, late : BOOLEAN,
           state : {"sleep", "fire", "dead"}]

\* The calls that look a handle up and then lock the queue.
Calls == {"wait", "addUser", "deleteUser", "trigger", "addTimer", "deleteTimer"}

BlockedAt == {"blocked", "blockedTimed"}
PcValues  == {"idle", "drain"} \cup Calls \cup BlockedAt
Results   == {"ok", "failed"}

Blocked(t, h) == pc[t] \in BlockedAt /\ target[t] = h

SmallerOf(a, b) == IF a < b THEN a ELSE b

MapOK ==
  /\ next \in 0 .. MaxHandles
  /\ kqueues \subseteq 1 .. next

QueueOK ==
  /\ registered \in [Handles -> [Ids -> {"none", "level", "edge"}]]
  /\ triggered \in [Handles -> Seq(Events)]
  /\ active \in [Handles -> [Ids -> 0 .. MaxTimers]]
  /\ pushed \in [Handles -> Seq(Events)]
  /\ taken \in [Handles -> Seq(Events)]
  /\ drained \subseteq Handles

TimerOK ==
  /\ timers \in Seq(Timers)
  /\ Len(timers) <= MaxTimers

\* A thread inside a call holds the Arc of a queue that was created.
ThreadOK ==
  /\ pc \in [Threads -> PcValues]
  /\ target \in [Threads -> 0 .. MaxHandles]
  /\ ret \in [Threads -> Results]
  /\ wake \in [Threads -> {"none", "notified", "timeout"}]
  /\ \A t \in Threads : pc[t] # "idle" => target[t] \in 1 .. next

TypeOK == MapOK /\ QueueOK /\ TimerOK /\ ThreadOK

Init ==
  /\ next = 0
  /\ kqueues = {}
  /\ registered = [h \in Handles |-> [i \in Ids |-> "none"]]
  /\ triggered = [h \in Handles |-> << >>]
  /\ active = [h \in Handles |-> [i \in Ids |-> 0]]
  /\ timers = << >>
  /\ pc = [t \in Threads |-> "idle"]
  /\ target = [t \in Threads |-> 0]
  /\ ret = [t \in Threads |-> "ok"]
  /\ wake = [t \in Threads |-> "none"]
  /\ pushed = [h \in Handles |-> << >>]
  /\ taken = [h \in Handles |-> << >>]
  /\ drained = {}

\* The thread's call returns r.
Return(t, r) ==
  /\ pc' = [pc EXCEPT ![t] = "idle"]
  /\ target' = [target EXCEPT ![t] = 0]
  /\ ret' = [ret EXCEPT ![t] = r]

\* Defect: the push does not notify at all.
NotifyNobody(h) == wake' = wake

\* notify_all on the queue's condition variable.
NotifyAll(h) ==
  wake' = [t \in Threads |->
             IF Blocked(t, h) /\ wake[t] = "none" THEN "notified" ELSE wake[t]]

\* triggered.push(ev) followed by notify_all, under the queue's lock.
Push(h, ev) ==
  /\ Len(pushed[h]) < MaxEvents
  /\ triggered' = [triggered EXCEPT ![h] = Append(@, ev)]
  /\ pushed' = [pushed EXCEPT ![h] = Append(@, ev)]
  /\ NotifyAll(h)

-------------------------------------------------------------------------------
\* Creation, deletion and the lookup every other call starts with.

CreateEqueue(t) ==
  /\ pc[t] = "idle"
  /\ next < MaxHandles
  /\ next' = next + 1
  /\ kqueues' = kqueues \cup {next + 1}
  /\ Return(t, "ok")
  /\ UNCHANGED <<queueVars, timers, wake, history>>

\* The map entry goes first; the queue's timers are cancelled in a later step.
DeleteEqueue(t, h) ==
  /\ pc[t] = "idle"
  /\ IF h \in kqueues
       THEN /\ kqueues' = kqueues \ {h}
            /\ pc' = [pc EXCEPT ![t] = "drain"]
            /\ target' = [target EXCEPT ![t] = h]
            /\ ret' = ret
       ELSE /\ kqueues' = kqueues
            /\ Return(t, "failed")
  /\ UNCHANGED <<next, queueVars, timers, wake, history>>

\* The timers with the flags of those in ns set.
Cancelled(ns) ==
  [n \in DOMAIN timers |-> [timers[n] EXCEPT !.cancel = @ \/ n \in ns]]

DrainTimers(t) ==
  LET h == target[t] IN
  /\ pc[t] = "drain"
  /\ timers' = Cancelled({active[h][i] : i \in Ids})
  /\ active' = [active EXCEPT ![h] = [i \in Ids |-> 0]]
  /\ drained' = drained \cup {h}
  /\ Return(t, "ok")
  /\ UNCHANGED <<mapVars, registered, triggered, wake, pushed, taken>>

Lookup(t, c, h) ==
  /\ pc[t] = "idle"
  /\ IF h \in kqueues
       THEN /\ pc' = [pc EXCEPT ![t] = c]
            /\ target' = [target EXCEPT ![t] = h]
            /\ ret' = ret
       ELSE Return(t, "failed")
  /\ UNCHANGED <<mapVars, queueVars, timers, wake, history>>

-------------------------------------------------------------------------------
\* sceKernelWaitEqueue

\* Defect: the newest events are taken first.
DrainNewest(h, n) ==
  LET len == Len(triggered[h]) IN
  /\ taken' = [taken EXCEPT ![h] = @ \o SubSeq(triggered[h], len - n + 1, len)]
  /\ triggered' = [triggered EXCEPT ![h] = SubSeq(@, 1, len - n)]

\* Defect: an off-by-one leaves the last event handed out in the queue.
DrainShort(h, n) ==
  /\ taken' = [taken EXCEPT ![h] = @ \o SubSeq(triggered[h], 1, n)]
  /\ triggered' = [triggered EXCEPT ![h] = SubSeq(@, n, Len(@))]

\* drain(0..n) and the copy to the guest's array.
Drain(h, n) ==
  /\ taken' = [taken EXCEPT ![h] = @ \o SubSeq(triggered[h], 1, n)]
  /\ triggered' = [triggered EXCEPT ![h] = SubSeq(@, n + 1, Len(@))]

WaitInvalid(t) ==
  /\ pc[t] = "wait"
  /\ Return(t, "failed")
  /\ UNCHANGED <<mapVars, queueVars, timers, wake, history>>

WaitTake(t, num) ==
  LET h == target[t] IN
  /\ pc[t] = "wait"
  /\ triggered[h] # << >>
  /\ Drain(h, SmallerOf(Len(triggered[h]), num))
  /\ Return(t, "ok")
  /\ UNCHANGED <<mapVars, registered, active, timers, wake, pushed, drained>>

\* A timeout of zero microseconds polls.
WaitPoll(t) ==
  /\ pc[t] = "wait"
  /\ triggered[target[t]] = << >>
  /\ Return(t, "failed")
  /\ UNCHANGED <<mapVars, queueVars, timers, wake, history>>

WaitBlock(t, at) ==
  /\ pc[t] = "wait"
  /\ triggered[target[t]] = << >>
  /\ pc' = [pc EXCEPT ![t] = at]
  /\ wake' = [wake EXCEPT ![t] = "none"]
  /\ UNCHANGED <<mapVars, queueVars, timers, target, ret, history>>

\* The timeout of a timed wait elapses, or the condition variable wakes the
\* thread without a notification, as Condvar::wait is allowed to.
Elapse(t) ==
  /\ pc[t] = "blockedTimed"
  /\ wake[t] = "none"
  /\ wake' = [wake EXCEPT ![t] = "timeout"]
  /\ UNCHANGED <<mapVars, queueVars, timers, pc, target, ret, history>>

WakeSpuriously(t) ==
  /\ pc[t] \in BlockedAt
  /\ wake[t] = "none"
  /\ wake' = [wake EXCEPT ![t] = "notified"]
  /\ UNCHANGED <<mapVars, queueVars, timers, pc, target, ret, history>>

\* The untimed wait re-checks in a loop.
ResumeUntimed(t, num) ==
  LET h == target[t] IN
  /\ pc[t] = "blocked"
  /\ wake[t] # "none"
  /\ wake' = [wake EXCEPT ![t] = "none"]
  /\ IF triggered[h] = << >>
       THEN UNCHANGED <<pc, target, ret, triggered, taken>>
       ELSE /\ Drain(h, SmallerOf(Len(triggered[h]), num))
            /\ Return(t, "ok")
  /\ UNCHANGED <<mapVars, registered, active, timers, pushed, drained>>

\* The timed wait does not loop: a timeout answers ETIMEDOUT whatever is in
\* the queue by now, and a wakeup that finds the queue empty does so too.
ResumeTimed(t, num) ==
  LET h == target[t] IN
  /\ pc[t] = "blockedTimed"
  /\ wake[t] # "none"
  /\ wake' = [wake EXCEPT ![t] = "none"]
  /\ IF wake[t] = "timeout" \/ triggered[h] = << >>
       THEN /\ Return(t, "failed")
            /\ UNCHANGED <<triggered, taken>>
       ELSE /\ Drain(h, SmallerOf(Len(triggered[h]), num))
            /\ Return(t, "ok")
  /\ UNCHANGED <<mapVars, registered, active, timers, pushed, drained>>

-------------------------------------------------------------------------------
\* User events

\* sceKernelAddUserEvent and, with edge, sceKernelAddUserEventEdge.
AddUserEvent(t, id, kind) ==
  /\ pc[t] = "addUser"
  /\ registered' = [registered EXCEPT ![target[t]][id] = kind]
  /\ Return(t, "ok")
  /\ UNCHANGED <<mapVars, triggered, active, timers, wake, history>>

\* Events already triggered stay in the queue.
DeleteUserEvent(t, id) ==
  /\ pc[t] = "deleteUser"
  /\ registered' = [registered EXCEPT ![target[t]][id] = "none"]
  /\ Return(t, "ok")
  /\ UNCHANGED <<mapVars, triggered, active, timers, wake, history>>

\* An id nobody registered is pushed all the same, with flags 0.
TriggerUserEvent(t, id) ==
  LET h  == target[t]
      ev == [filter |-> "user", id |-> id, src |-> 0,
             flags |-> IF registered[h][id] = "edge" THEN EV_CLEAR ELSE 0]
  IN
  /\ pc[t] = "trigger"
  /\ Push(h, ev)
  /\ Return(t, "ok")
  /\ UNCHANGED <<mapVars, registered, active, timers, taken, drained>>

-------------------------------------------------------------------------------
\* Timers

NewTimer(h, id) ==
  [queue |-> h, id |-> id, cancel |-> FALSE, late |-> h \in drained, state |-> "sleep"]

\* Defect: the timer that is replaced goes on running.
AddTimerKeepingOld(t, id) ==
  LET h == target[t] IN
  /\ pc[t] = "addTimer"
  /\ Len(timers) < MaxTimers
  /\ timers' = Append(timers, NewTimer(h, id))
  /\ active' = [active EXCEPT ![h][id] = Len(timers) + 1]
  /\ Return(t, "ok")
  /\ UNCHANGED <<mapVars, registered, triggered, wake, history>>

\* A timer with the same id is cancelled and replaced, and a thread spawned.
AddTimerEvent(t, id) ==
  LET h == target[t] IN
  /\ pc[t] = "addTimer"
  /\ Len(timers) < MaxTimers
  /\ timers' = Append(Cancelled({active[h][id]}), NewTimer(h, id))
  /\ active' = [active EXCEPT ![h][id] = Len(timers) + 1]
  /\ Return(t, "ok")
  /\ UNCHANGED <<mapVars, registered, triggered, wake, history>>

DeleteTimerEvent(t, id) ==
  LET h == target[t] IN
  /\ pc[t] = "deleteTimer"
  /\ timers' = Cancelled({active[h][id]})
  /\ active' = [active EXCEPT ![h][id] = 0]
  /\ Return(t, IF active[h][id] # 0 THEN "ok" ELSE "failed")
  /\ UNCHANGED <<mapVars, registered, triggered, wake, history>>

\* The timer thread's sleep ends; it reads its flag without the queue's lock.
TimerExpire(n) ==
  /\ timers[n].state = "sleep"
  /\ timers' = [timers EXCEPT ![n].state = IF timers[n].cancel THEN "dead" ELSE "fire"]
  /\ UNCHANGED <<mapVars, queueVars, threadVars, history>>

\* Under the lock it reads the flag again, then pushes and sleeps once more.
TimerFire(n) ==
  LET h  == timers[n].queue
      ev == [filter |-> "timer", id |-> timers[n].id, src |-> n, flags |-> 0]
  IN
  /\ timers[n].state = "fire"
  /\ IF timers[n].cancel
       THEN /\ timers' = [timers EXCEPT ![n].state = "dead"]
            /\ UNCHANGED <<triggered, pushed, wake>>
       ELSE /\ timers' = [timers EXCEPT ![n].state = "sleep"]
            /\ Push(h, ev)
  /\ UNCHANGED <<mapVars, registered, active, pc, target, ret, taken, drained>>

-------------------------------------------------------------------------------
Call(t) ==
  \/ CreateEqueue(t)
  \/ \E h \in 1 .. next : DeleteEqueue(t, h)
  \/ \E h \in 1 .. next, c \in Calls : Lookup(t, c, h)

Wait(t) ==
  \/ WaitInvalid(t)
  \/ \E num \in 1 .. MaxEvents : WaitTake(t, num)
  \/ WaitPoll(t)
  \/ \E at \in BlockedAt : WaitBlock(t, at)
  \/ Elapse(t)
  \/ WakeSpuriously(t)

Resume(t) == \E num \in 1 .. MaxEvents : ResumeUntimed(t, num) \/ ResumeTimed(t, num)

Locked(t) ==
  \/ DrainTimers(t)
  \/ \E id \in Ids :
       \/ \E kind \in {"level", "edge"} : AddUserEvent(t, id, kind)
       \/ DeleteUserEvent(t, id)
       \/ TriggerUserEvent(t, id)
       \/ AddTimerEvent(t, id)
       \/ DeleteTimerEvent(t, id)

Timer(n) == TimerExpire(n) \/ TimerFire(n)

Next ==
  \/ \E t \in Threads : Call(t) \/ Wait(t) \/ Resume(t) \/ Locked(t)
  \/ \E n \in DOMAIN timers : Timer(n)

Spec == Init /\ [][Next]_vars

\* A thread that was sent a wakeup is scheduled again: the host's threads run,
\* and every critical section of sync.rs ends without blocking.
FairSpec == Spec /\ \A t \in Threads : WF_vars(Resume(t))

-------------------------------------------------------------------------------
\* Every event pushed on a queue is either still in it or was copied out to a
\* waiter, exactly once and in the order of the pushes, whatever waiters,
\* timers and deletions interleave (push and drain(0..n) of sync.rs).
EveryEventOnceInOrder ==
  \A h \in Handles : pushed[h] = taken[h] \o triggered[h]

\* sceKernelWaitEqueue succeeds only with at least one event: the untimed
\* wait must loop, since it can be woken with nothing in the queue.
OkWaitHasEvents ==
  [][\A t \in Threads :
       pc[t] \in BlockedAt \cup {"wait"} /\ pc'[t] = "idle" /\ ret'[t] = "ok"
         => Len(taken'[target[t]]) > Len(taken[target[t]])]_vars

\* A timer that was not cancelled is the one its queue lists under its id, so
\* deleting or replacing the id reaches it: a queue never has two timers
\* running for one id, even when calls race its deletion.
UncancelledIsListed ==
  \A n \in DOMAIN timers :
    ~timers[n].cancel => active[timers[n].queue][timers[n].id] = n

\* Once sceKernelDeleteEqueue has cancelled a queue's timers, none installed
\* before is left running.  A timer installed later, by a call that looked the
\* queue up before it was deleted, is marked late: nothing can ever stop it.
DeletionStopsTimers ==
  \A n \in DOMAIN timers :
    timers[n].queue \in drained /\ ~timers[n].late => timers[n].cancel

\* A timer is silent from the moment it is cancelled, although it may already
\* have passed its first look at the flag: it pushes no further event.
CancelledTimerIsSilent ==
  [][\A n \in DOMAIN timers : timers[n].cancel =>
       \A h \in Handles :
         \A k \in DOMAIN pushed'[h] \ DOMAIN pushed[h] : pushed'[h][k].src # n]_vars

\* Timers stop when they are told to: a running one is listed under its id, deleting
\* its queue cancels it, and nothing comes of it from then on.
TimersStop == [](UncancelledIsListed /\ DeletionStopsTimers) /\ CancelledTimerIsSilent

\* The queues implement reliable FIFO channels (EventChannel).
Channel == INSTANCE EventChannel WITH Queues <- Handles, posted <- pushed

ImplementsChannel == Channel!Spec

\* Events in a queue with blocked waiters get out of it: a push reaches the
\* waiters and one of them takes the events, or none is blocked any more.
EventsReachWaiters ==
  \A h \in Handles :
    (triggered[h] # << >> /\ \E t \in Threads : Blocked(t, h))
      ~> (triggered[h] = << >> \/ \A t \in Threads : ~Blocked(t, h))

\* Waiting for events: what there is gets to a waiter, and a waiter that is told it
\* got something did.
WaitersAreServed == EventsReachWaiters /\ OkWaitHasEvents

===============================================================================
