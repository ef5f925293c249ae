-------------------------- MODULE EventQueue_proofs ---------------------------
(***************************************************************************)
(* Proofs about EventQueue, for any number of threads, ids, queues, timers *)
(* and events.                                                             *)
(***************************************************************************)
EXTENDS EventQueue, TLAPS, SequenceTheorems

\* Setting flags of the timers keeps them typed and changes nothing else.
LEMMA CancelledTyped ==
  ASSUME TimerOK, NEW ns
  PROVE  Cancelled(ns) \in Seq(Timers) /\ Len(Cancelled(ns)) = Len(timers)
<1>1. Len(timers) \in Nat /\ DOMAIN timers = 1 .. Len(timers)
  BY LenProperties DEF TimerOK
<1>2. \A n \in 1 .. Len(timers) : Cancelled(ns)[n] \in Timers
  <2> SUFFICES ASSUME NEW n \in 1 .. Len(timers) PROVE Cancelled(ns)[n] \in Timers
    OBVIOUS
  <2>1. timers[n] \in Timers
    BY ElementOfSeq DEF TimerOK
  <2>2. Cancelled(ns)[n] = [timers[n] EXCEPT !.cancel = @ \/ n \in ns]
    BY <1>1 DEF Cancelled
  <2> QED
    BY <2>1, <2>2 DEF Timers
<1>3. Cancelled(ns) \in [1 .. Len(timers) -> Timers]
  BY <1>1, <1>2 DEF Cancelled
<1> QED
  BY <1>1, <1>3, IsASeq, LenProperties

\* A cancellation changes the flags of its timers only.
LEMMA CancelledEffect ==
  ASSUME TimerOK, NEW ns, NEW n \in DOMAIN timers
  PROVE  /\ n \in DOMAIN Cancelled(ns)
         /\ Cancelled(ns)[n].queue = timers[n].queue
         /\ Cancelled(ns)[n].id = timers[n].id
         /\ Cancelled(ns)[n].late = timers[n].late
         /\ Cancelled(ns)[n].cancel <=> timers[n].cancel \/ n \in ns
<1>1. timers[n] \in Timers
  BY ElementOfSeq, LenProperties DEF TimerOK
<1>2. Cancelled(ns)[n] = [timers[n] EXCEPT !.cancel = @ \/ n \in ns]
  BY DEF Cancelled
<1> QED
  BY <1>1, <1>2 DEF Cancelled, Timers

\* The next element of a sequence, appended.
LEMMA AppendTyped ==
  ASSUME NEW S, NEW f \in [Handles -> Seq(S)], NEW h \in Handles, NEW e \in S
  PROVE  [f EXCEPT ![h] = Append(@, e)] \in [Handles -> Seq(S)]
  BY AppendProperties

\* A drain keeps the queue's sequences typed.
LEMMA DrainTyped ==
  ASSUME QueueOK, NEW h \in Handles, NEW n \in 0 .. Len(triggered[h]),
         Drain(h, n), UNCHANGED <<registered, active, pushed, drained>>
  PROVE  QueueOK'
<1>1. triggered[h] \in Seq(Events) /\ taken[h] \in Seq(Events)
  BY DEF QueueOK
<1>2. Len(triggered[h]) \in Nat
  BY <1>1, LenProperties
<1>3. SubSeq(triggered[h], 1, n) \in Seq(Events)
  <2>1. \A i \in 1 .. n : i \in 1 .. Len(triggered[h])
    BY <1>2
  <2> QED
    BY <1>1, <1>2, <2>1, SubSeqProperties
<1>4. SubSeq(triggered[h], n + 1, Len(triggered[h])) \in Seq(Events)
  BY <1>1, <1>2, SubSeqProperties
<1>5. taken[h] \o SubSeq(triggered[h], 1, n) \in Seq(Events)
  BY <1>1, <1>3, ConcatProperties
<1>6. taken' \in [Handles -> Seq(Events)]
  BY <1>5 DEF QueueOK, Drain
<1>7. triggered' \in [Handles -> Seq(Events)]
  BY <1>4 DEF QueueOK, Drain
<1> QED
  BY <1>6, <1>7 DEF QueueOK

\* The queue a thread inside a call works on is one of the handles.
LEMMA TargetTyped ==
  ASSUME MapOK, QueueOK, ThreadOK, NEW t \in Threads, pc[t] # "idle"
  PROVE  /\ target[t] \in Handles
         /\ triggered[target[t]] \in Seq(Events)
         /\ Len(triggered[target[t]]) \in Nat
<1>1. target[t] \in Handles
  BY BoundsAssumption DEF MapOK, ThreadOK, Handles
<1>2. triggered[target[t]] \in Seq(Events)
  BY <1>1 DEF QueueOK
<1> QED
  BY <1>1, <1>2, LenProperties

\* Moving a timer thread on keeps the timers typed.
LEMMA MovedTimerTyped ==
  ASSUME TimerOK, NEW n \in DOMAIN timers, NEW st \in {"sleep", "fire", "dead"},
         timers' = [timers EXCEPT ![n].state = st]
  PROVE  TimerOK' /\ DOMAIN timers' = DOMAIN timers
<1>1. n \in 1 .. Len(timers) /\ timers[n] \in Timers
  BY ElementOfSeq, LenProperties DEF TimerOK
<1>2. [timers[n] EXCEPT !.state = st] \in Timers
  BY <1>1 DEF Timers
<1>3. timers' = [timers EXCEPT ![n] = [timers[n] EXCEPT !.state = st]]
  OBVIOUS
<1>4. timers' \in Seq(Timers) /\ Len(timers') = Len(timers)
  BY <1>1, <1>2, <1>3, ExceptSeq DEF TimerOK
<1> QED
  BY <1>4, LenProperties DEF TimerOK

\* Type correctness of the event queues.
THEOREM TypeCorrect == Spec => []TypeOK
<1>1. Init => TypeOK
  BY BoundsAssumption DEF Init, TypeOK, MapOK, QueueOK, TimerOK, ThreadOK, PcValues, Results
<1>2. TypeOK /\ [Next]_vars => TypeOK'
  <2> SUFFICES ASSUME TypeOK, [Next]_vars PROVE TypeOK'
    OBVIOUS
  <2>0. MapOK /\ QueueOK /\ TimerOK /\ ThreadOK
    BY DEF TypeOK
  <2> USE BoundsAssumption DEF Handles
  <2>1. ASSUME NEW t \in Threads, CreateEqueue(t)
       PROVE  TypeOK'
    <3>1. MapOK'
      BY <2>0, <2>1 DEF CreateEqueue, mapVars, queueVars, threadVars, history, MapOK
    <3>2. QueueOK'
      BY <2>0, <2>1 DEF CreateEqueue, mapVars, queueVars, threadVars, history, QueueOK, ThreadOK, MapOK
    <3>3. TimerOK'
      BY <2>0, <2>1 DEF CreateEqueue, mapVars, queueVars, threadVars, history, TimerOK
    <3>4. ThreadOK'
      BY <2>0, <2>1 DEF CreateEqueue, mapVars, queueVars, threadVars, history, ThreadOK, MapOK, Return, PcValues, Results, Calls, BlockedAt
    <3> QED
      BY <3>1, <3>2, <3>3, <3>4 DEF TypeOK
  <2>2. ASSUME NEW t \in Threads, NEW h \in 1 .. next, DeleteEqueue(t, h)
       PROVE  TypeOK'
    <3>1. MapOK'
      BY <2>0, <2>2 DEF DeleteEqueue, mapVars, queueVars, threadVars, history, MapOK
    <3>2. QueueOK'
      BY <2>0, <2>2 DEF DeleteEqueue, mapVars, queueVars, threadVars, history, QueueOK, ThreadOK, MapOK
    <3>3. TimerOK'
      BY <2>0, <2>2 DEF DeleteEqueue, mapVars, queueVars, threadVars, history, TimerOK
    <3>4. ThreadOK'
      BY <2>0, <2>2 DEF DeleteEqueue, mapVars, queueVars, threadVars, history, ThreadOK, MapOK, Return, PcValues, Results, Calls, BlockedAt
    <3> QED
      BY <3>1, <3>2, <3>3, <3>4 DEF TypeOK
  <2>3. ASSUME NEW t \in Threads, NEW h \in 1 .. next, NEW c \in Calls, Lookup(t, c, h)
       PROVE  TypeOK'
    <3>1. MapOK'
      BY <2>0, <2>3 DEF Lookup, mapVars, queueVars, threadVars, history, MapOK
    <3>2. QueueOK'
      BY <2>0, <2>3 DEF Lookup, mapVars, queueVars, threadVars, history, QueueOK, ThreadOK, MapOK
    <3>3. TimerOK'
      BY <2>0, <2>3 DEF Lookup, mapVars, queueVars, threadVars, history, TimerOK
    <3>4. ThreadOK'
      BY <2>0, <2>3 DEF Lookup, mapVars, queueVars, threadVars, history, ThreadOK, MapOK, Return, PcValues, Results, Calls, BlockedAt
    <3> QED
      BY <3>1, <3>2, <3>3, <3>4 DEF TypeOK
  <2>4. ASSUME NEW t \in Threads, WaitInvalid(t)
       PROVE  TypeOK'
    <3>1. MapOK'
      BY <2>0, <2>4 DEF WaitInvalid, mapVars, queueVars, threadVars, history, MapOK
    <3>2. QueueOK'
      BY <2>0, <2>4 DEF WaitInvalid, mapVars, queueVars, threadVars, history, QueueOK, ThreadOK, MapOK
    <3>3. TimerOK'
      BY <2>0, <2>4 DEF WaitInvalid, mapVars, queueVars, threadVars, history, TimerOK
    <3>4. ThreadOK'
      BY <2>0, <2>4 DEF WaitInvalid, mapVars, queueVars, threadVars, history, ThreadOK, MapOK, Return, PcValues, Results, Calls, BlockedAt
    <3> QED
      BY <3>1, <3>2, <3>3, <3>4 DEF TypeOK
  <2>5. ASSUME NEW t \in Threads, NEW num \in 1 .. MaxEvents, WaitTake(t, num)
       PROVE  TypeOK'
    <3>1. MapOK'
      BY <2>0, <2>5 DEF WaitTake, mapVars, queueVars, threadVars, history, MapOK
    <3>2. QueueOK'
      <4>1. target[t] \in Handles /\ Len(triggered[target[t]]) \in Nat
        BY <2>0, <2>5, TargetTyped DEF WaitTake
      <4>2. SmallerOf(Len(triggered[target[t]]), num) \in 0 .. Len(triggered[target[t]])
        BY <4>1, <2>5 DEF SmallerOf
      <4> QED
        BY <2>0, <2>5, <4>1, <4>2, DrainTyped DEF WaitTake
    <3>3. TimerOK'
      BY <2>0, <2>5 DEF WaitTake, mapVars, queueVars, threadVars, history, TimerOK
    <3>4. ThreadOK'
      BY <2>0, <2>5 DEF WaitTake, mapVars, queueVars, threadVars, history, ThreadOK, MapOK, Return, PcValues, Results, Calls, BlockedAt
    <3> QED
      BY <3>1, <3>2, <3>3, <3>4 DEF TypeOK
  <2>6. ASSUME NEW t \in Threads, WaitPoll(t)
       PROVE  TypeOK'
    <3>1. MapOK'
      BY <2>0, <2>6 DEF WaitPoll, mapVars, queueVars, threadVars, history, MapOK
    <3>2. QueueOK'
      BY <2>0, <2>6 DEF WaitPoll, mapVars, queueVars, threadVars, history, QueueOK, ThreadOK, MapOK
    <3>3. TimerOK'
      BY <2>0, <2>6 DEF WaitPoll, mapVars, queueVars, threadVars, history, TimerOK
    <3>4. ThreadOK'
      BY <2>0, <2>6 DEF WaitPoll, mapVars, queueVars, threadVars, history, ThreadOK, MapOK, Return, PcValues, Results, Calls, BlockedAt
    <3> QED
      BY <3>1, <3>2, <3>3, <3>4 DEF TypeOK
  <2>7. ASSUME NEW t \in Threads, NEW at \in BlockedAt, WaitBlock(t, at)
       PROVE  TypeOK'
    <3>1. MapOK'
      BY <2>0, <2>7 DEF WaitBlock, mapVars, queueVars, threadVars, history, MapOK
    <3>2. QueueOK'
      BY <2>0, <2>7 DEF WaitBlock, mapVars, queueVars, threadVars, history, QueueOK, ThreadOK, MapOK
    <3>3. TimerOK'
      BY <2>0, <2>7 DEF WaitBlock, mapVars, queueVars, threadVars, history, TimerOK
    <3>4. ThreadOK'
      BY <2>0, <2>7 DEF WaitBlock, mapVars, queueVars, threadVars, history, ThreadOK, MapOK, Return, PcValues, Results, Calls, BlockedAt
    <3> QED
      BY <3>1, <3>2, <3>3, <3>4 DEF TypeOK
  <2>8. ASSUME NEW t \in Threads, Elapse(t)
       PROVE  TypeOK'
    <3>1. MapOK'
      BY <2>0, <2>8 DEF Elapse, mapVars, queueVars, threadVars, history, MapOK
    <3>2. QueueOK'
      BY <2>0, <2>8 DEF Elapse, mapVars, queueVars, threadVars, history, QueueOK, ThreadOK, MapOK
    <3>3. TimerOK'
      BY <2>0, <2>8 DEF Elapse, mapVars, queueVars, threadVars, history, TimerOK
    <3>4. ThreadOK'
      BY <2>0, <2>8 DEF Elapse, mapVars, queueVars, threadVars, history, ThreadOK, MapOK, Return, PcValues, Results, Calls, BlockedAt
    <3> QED
      BY <3>1, <3>2, <3>3, <3>4 DEF TypeOK
  <2>9. ASSUME NEW t \in Threads, WakeSpuriously(t)
       PROVE  TypeOK'
    <3>1. MapOK'
      BY <2>0, <2>9 DEF WakeSpuriously, mapVars, queueVars, threadVars, history, MapOK
    <3>2. QueueOK'
      BY <2>0, <2>9 DEF WakeSpuriously, mapVars, queueVars, threadVars, history, QueueOK, ThreadOK, MapOK
    <3>3. TimerOK'
      BY <2>0, <2>9 DEF WakeSpuriously, mapVars, queueVars, threadVars, history, TimerOK
    <3>4. ThreadOK'
      BY <2>0, <2>9 DEF WakeSpuriously, mapVars, queueVars, threadVars, history, ThreadOK, MapOK, Return, PcValues, Results, Calls, BlockedAt
    <3> QED
      BY <3>1, <3>2, <3>3, <3>4 DEF TypeOK
  <2>10. ASSUME NEW t \in Threads, NEW num \in 1 .. MaxEvents, ResumeUntimed(t, num)
       PROVE  TypeOK'
    <3>1. MapOK'
      BY <2>0, <2>10 DEF ResumeUntimed, mapVars, queueVars, threadVars, history, MapOK
    <3>2. QueueOK'
      <4>1. target[t] \in Handles /\ Len(triggered[target[t]]) \in Nat
        BY <2>0, <2>10, TargetTyped DEF ResumeUntimed
      <4>2. SmallerOf(Len(triggered[target[t]]), num) \in 0 .. Len(triggered[target[t]])
        BY <4>1, <2>10 DEF SmallerOf
      <4>3. CASE UNCHANGED <<triggered, taken>>
        BY <2>0, <2>10, <4>3 DEF ResumeUntimed, QueueOK
      <4>4. CASE Drain(target[t], SmallerOf(Len(triggered[target[t]]), num))
        BY <2>0, <2>10, <4>1, <4>2, <4>4, DrainTyped DEF ResumeUntimed
      <4> QED
        BY <2>10, <4>3, <4>4 DEF ResumeUntimed
    <3>3. TimerOK'
      BY <2>0, <2>10 DEF ResumeUntimed, mapVars, queueVars, threadVars, history, TimerOK
    <3>4. ThreadOK'
      <4>1. next' = next
        BY <2>10 DEF ResumeUntimed, mapVars
      <4>2. wake' \in [Threads -> {"none", "notified", "timeout"}]
        BY <2>0, <2>10 DEF ResumeUntimed, ThreadOK
      <4>3. UNCHANGED <<pc, target, ret>> \/ Return(t, "ok")
        BY <2>10 DEF ResumeUntimed
      <4> QED
        BY <2>0, <4>1, <4>2, <4>3 DEF ThreadOK, MapOK, Return, PcValues, Results
    <3> QED
      BY <3>1, <3>2, <3>3, <3>4 DEF TypeOK
  <2>11. ASSUME NEW t \in Threads, NEW num \in 1 .. MaxEvents, ResumeTimed(t, num)
       PROVE  TypeOK'
    <3>1. MapOK'
      BY <2>0, <2>11 DEF ResumeTimed, mapVars, queueVars, threadVars, history, MapOK
    <3>2. QueueOK'
      <4>1. target[t] \in Handles /\ Len(triggered[target[t]]) \in Nat
        BY <2>0, <2>11, TargetTyped DEF ResumeTimed
      <4>2. SmallerOf(Len(triggered[target[t]]), num) \in 0 .. Len(triggered[target[t]])
        BY <4>1, <2>11 DEF SmallerOf
      <4>3. CASE UNCHANGED <<triggered, taken>>
        BY <2>0, <2>11, <4>3 DEF ResumeTimed, QueueOK
      <4>4. CASE Drain(target[t], SmallerOf(Len(triggered[target[t]]), num))
        BY <2>0, <2>11, <4>1, <4>2, <4>4, DrainTyped DEF ResumeTimed
      <4> QED
        BY <2>11, <4>3, <4>4 DEF ResumeTimed
    <3>3. TimerOK'
      BY <2>0, <2>11 DEF ResumeTimed, mapVars, queueVars, threadVars, history, TimerOK
    <3>4. ThreadOK'
      <4>1. next' = next
        BY <2>11 DEF ResumeTimed, mapVars
      <4>2. wake' \in [Threads -> {"none", "notified", "timeout"}]
        BY <2>0, <2>11 DEF ResumeTimed, ThreadOK
      <4>3. Return(t, "ok") \/ Return(t, "failed")
        BY <2>11 DEF ResumeTimed
      <4> QED
        BY <2>0, <4>1, <4>2, <4>3 DEF ThreadOK, MapOK, Return, PcValues, Results
    <3> QED
      BY <3>1, <3>2, <3>3, <3>4 DEF TypeOK
  <2>12. ASSUME NEW t \in Threads, DrainTimers(t)
       PROVE  TypeOK'
    <3>1. MapOK'
      BY <2>0, <2>12 DEF DrainTimers, mapVars, queueVars, threadVars, history, MapOK
    <3>2. QueueOK'
      <4>1. target[t] \in Handles
        BY <2>0, <2>12, TargetTyped DEF DrainTimers
      <4>2. active' \in [Handles -> [Ids -> 0 .. MaxTimers]]
        <5>1. [i \in Ids |-> 0] \in [Ids -> 0 .. MaxTimers]
          OBVIOUS
        <5> QED
          BY <2>0, <2>12, <5>1 DEF DrainTimers, QueueOK
      <4> QED
        BY <2>0, <2>12, <4>1, <4>2 DEF DrainTimers, QueueOK
    <3>3. TimerOK'
      BY <2>0, <2>12, CancelledTyped DEF DrainTimers, TimerOK
    <3>4. ThreadOK'
      BY <2>0, <2>12 DEF DrainTimers, mapVars, queueVars, threadVars, history, ThreadOK, MapOK, Return, PcValues, Results, Calls, BlockedAt
    <3> QED
      BY <3>1, <3>2, <3>3, <3>4 DEF TypeOK
  <2>13. ASSUME NEW t \in Threads, NEW id \in Ids, NEW kind \in {"level", "edge"}, AddUserEvent(t, id, kind)
       PROVE  TypeOK'
    <3>1. MapOK'
      BY <2>0, <2>13 DEF AddUserEvent, mapVars, queueVars, threadVars, history, MapOK
    <3>2. QueueOK'
      BY <2>0, <2>13 DEF AddUserEvent, mapVars, queueVars, threadVars, history, QueueOK, ThreadOK, MapOK
    <3>3. TimerOK'
      BY <2>0, <2>13 DEF AddUserEvent, mapVars, queueVars, threadVars, history, TimerOK
    <3>4. ThreadOK'
      BY <2>0, <2>13 DEF AddUserEvent, mapVars, queueVars, threadVars, history, ThreadOK, MapOK, Return, PcValues, Results, Calls, BlockedAt
    <3> QED
      BY <3>1, <3>2, <3>3, <3>4 DEF TypeOK
  <2>14. ASSUME NEW t \in Threads, NEW id \in Ids, DeleteUserEvent(t, id)
       PROVE  TypeOK'
    <3>1. MapOK'
      BY <2>0, <2>14 DEF DeleteUserEvent, mapVars, queueVars, threadVars, history, MapOK
    <3>2. QueueOK'
      BY <2>0, <2>14 DEF DeleteUserEvent, mapVars, queueVars, threadVars, history, QueueOK, ThreadOK, MapOK
    <3>3. TimerOK'
      BY <2>0, <2>14 DEF DeleteUserEvent, mapVars, queueVars, threadVars, history, TimerOK
    <3>4. ThreadOK'
      BY <2>0, <2>14 DEF DeleteUserEvent, mapVars, queueVars, threadVars, history, ThreadOK, MapOK, Return, PcValues, Results, Calls, BlockedAt
    <3> QED
      BY <3>1, <3>2, <3>3, <3>4 DEF TypeOK
  <2>15. ASSUME NEW t \in Threads, NEW id \in Ids, TriggerUserEvent(t, id)
       PROVE  TypeOK'
    <3>1. MapOK'
      BY <2>0, <2>15 DEF TriggerUserEvent, mapVars, queueVars, threadVars, history, MapOK
    <3>2. QueueOK'
      <4>1. target[t] \in Handles
        BY <2>0, <2>15, TargetTyped DEF TriggerUserEvent
      <4> DEFINE ev == [filter |-> "user", id |-> id, src |-> 0,
                        flags |-> IF registered[target[t]][id] = "edge" THEN EV_CLEAR ELSE 0]
      <4>2. ev \in Events
        BY DEF Events, Filters
      <4>3. Push(target[t], ev)
        BY <2>15 DEF TriggerUserEvent
      <4>4. triggered' \in [Handles -> Seq(Events)] /\ pushed' \in [Handles -> Seq(Events)]
        BY <2>0, <4>1, <4>2, <4>3, AppendTyped DEF Push, QueueOK
      <4> QED
        BY <2>0, <2>15, <4>4 DEF TriggerUserEvent, QueueOK
    <3>3. TimerOK'
      BY <2>0, <2>15 DEF TriggerUserEvent, mapVars, queueVars, threadVars, history, TimerOK
    <3>4. ThreadOK'
      <4>1. wake' \in [Threads -> {"none", "notified", "timeout"}]
        BY <2>0, <2>15 DEF TriggerUserEvent, Push, NotifyAll, ThreadOK
      <4>2. next' = next
        BY <2>15 DEF TriggerUserEvent, mapVars
      <4>3. Return(t, "ok")
        BY <2>15 DEF TriggerUserEvent
      <4> QED
        BY <2>0, <2>15, <4>1, <4>2, <4>3 DEF ThreadOK, MapOK, Return, PcValues, Results
    <3> QED
      BY <3>1, <3>2, <3>3, <3>4 DEF TypeOK
  <2>16. ASSUME NEW t \in Threads, NEW id \in Ids, AddTimerEvent(t, id)
       PROVE  TypeOK'
    <3>1. MapOK'
      BY <2>0, <2>16 DEF AddTimerEvent, mapVars, queueVars, threadVars, history, MapOK
    <3>2. QueueOK'
      <4>1. target[t] \in Handles
        BY <2>0, <2>16, TargetTyped DEF AddTimerEvent
      <4>2. Len(timers) + 1 \in 0 .. MaxTimers
        BY <2>0, <2>16, LenProperties DEF AddTimerEvent, TimerOK
      <4>3. active' = [active EXCEPT ![target[t]][id] = Len(timers) + 1]
        BY <2>16 DEF AddTimerEvent
      <4>4. active' \in [Handles -> [Ids -> 0 .. MaxTimers]]
        BY <2>0, <4>1, <4>2, <4>3 DEF QueueOK
      <4> QED
        BY <2>0, <2>16, <4>4 DEF AddTimerEvent, QueueOK, history
    <3>3. TimerOK'
      <4>1. target[t] \in Handles
        BY <2>0, <2>16, TargetTyped DEF AddTimerEvent
      <4> DEFINE us == Cancelled({active[target[t]][id]})
      <4>2. us \in Seq(Timers) /\ Len(us) = Len(timers)
        BY <2>0, CancelledTyped
      <4>3. NewTimer(target[t], id) \in Timers
        BY <4>1 DEF Timers, NewTimer
      <4>4. timers' = Append(us, NewTimer(target[t], id))
        BY <2>16 DEF AddTimerEvent
      <4>5. timers' \in Seq(Timers) /\ Len(timers') = Len(timers) + 1
        BY <4>2, <4>3, <4>4, AppendProperties
      <4>6. Len(timers) \in Nat
        BY <2>0, LenProperties DEF TimerOK
      <4> QED
        BY <2>16, <4>5, <4>6 DEF AddTimerEvent, TimerOK
    <3>4. ThreadOK'
      BY <2>0, <2>16 DEF AddTimerEvent, mapVars, queueVars, threadVars, history, ThreadOK, MapOK, Return, PcValues, Results, Calls, BlockedAt
    <3> QED
      BY <3>1, <3>2, <3>3, <3>4 DEF TypeOK
  <2>17. ASSUME NEW t \in Threads, NEW id \in Ids, DeleteTimerEvent(t, id)
       PROVE  TypeOK'
    <3>1. MapOK'
      BY <2>0, <2>17 DEF DeleteTimerEvent, mapVars, queueVars, threadVars, history, MapOK
    <3>2. QueueOK'
      <4>1. target[t] \in Handles
        BY <2>0, <2>17, TargetTyped DEF DeleteTimerEvent
      <4>2. active' \in [Handles -> [Ids -> 0 .. MaxTimers]]
        <5>1. active' = active \/ active' = [active EXCEPT ![target[t]][id] = 0]
          BY <2>17 DEF DeleteTimerEvent, queueVars
        <5>2. active \in [Handles -> [Ids -> 0 .. MaxTimers]] /\ 0 \in 0 .. MaxTimers
          BY <2>0, BoundsAssumption DEF QueueOK
        <5> DEFINE numbers == 0 .. MaxTimers
        <5> HIDE DEF numbers
        <5>3. [active[target[t]] EXCEPT ![id] = 0] \in [Ids -> numbers]
          BY <4>1, <5>2 DEF numbers
        <5> QED
          BY <4>1, <5>1, <5>2, <5>3 DEF numbers
      <4> QED
        BY <2>0, <2>17, <4>1, <4>2 DEF DeleteTimerEvent, QueueOK, history
    <3>3. TimerOK'
      BY <2>0, <2>17, CancelledTyped DEF DeleteTimerEvent, TimerOK
    <3>4. ThreadOK'
      BY <2>0, <2>17 DEF DeleteTimerEvent, mapVars, queueVars, threadVars, history, ThreadOK, MapOK, Return, PcValues, Results, Calls, BlockedAt
    <3> QED
      BY <3>1, <3>2, <3>3, <3>4 DEF TypeOK
  <2>18. ASSUME NEW n \in DOMAIN timers, TimerExpire(n)
       PROVE  TypeOK'
    <3>1. MapOK'
      BY <2>0, <2>18 DEF TimerExpire, mapVars, queueVars, threadVars, history, MapOK
    <3>2. QueueOK'
      BY <2>0, <2>18 DEF TimerExpire, mapVars, queueVars, threadVars, history, QueueOK, ThreadOK, MapOK
    <3>3. TimerOK'
      <4>1. \E st \in {"dead", "fire"} : timers' = [timers EXCEPT ![n].state = st]
        BY <2>18 DEF TimerExpire
      <4> QED
        BY <2>0, <4>1, MovedTimerTyped
    <3>4. ThreadOK'
      BY <2>0, <2>18 DEF TimerExpire, mapVars, queueVars, threadVars, history, ThreadOK, MapOK, Return, PcValues, Results, Calls, BlockedAt
    <3> QED
      BY <3>1, <3>2, <3>3, <3>4 DEF TypeOK
  <2>19. ASSUME NEW n \in DOMAIN timers, TimerFire(n)
       PROVE  TypeOK'
    <3>1. MapOK'
      BY <2>0, <2>19 DEF TimerFire, mapVars, queueVars, threadVars, history, MapOK
    <3>2. QueueOK'
      <4> DEFINE h  == timers[n].queue
                 ev == [filter |-> "timer", id |-> timers[n].id, src |-> n, flags |-> 0]
      <4>1. timers[n] \in Timers
        BY <2>0, ElementOfSeq DEF TimerOK
      <4>2. n \in 0 .. MaxTimers
        BY <2>0, LenProperties DEF TimerOK
      <4>3. h \in Handles /\ ev \in Events
        BY <4>1, <4>2 DEF Timers, Events, Filters
      <4>4. CASE UNCHANGED <<triggered, pushed, wake>>
        BY <2>0, <2>19, <4>4 DEF TimerFire, QueueOK
      <4>5. CASE Push(h, ev)
        <5>1. triggered' \in [Handles -> Seq(Events)] /\ pushed' \in [Handles -> Seq(Events)]
          BY <2>0, <4>3, <4>5, AppendTyped DEF Push, QueueOK
        <5> QED
          BY <2>0, <2>19, <5>1 DEF TimerFire, QueueOK
      <4> QED
        BY <2>19, <4>4, <4>5 DEF TimerFire
    <3>3. TimerOK'
      <4>1. \E st \in {"dead", "sleep"} : timers' = [timers EXCEPT ![n].state = st]
        BY <2>19 DEF TimerFire
      <4> QED
        BY <2>0, <4>1, MovedTimerTyped
    <3>4. ThreadOK'
      <4>1. wake' \in [Threads -> {"none", "notified", "timeout"}]
        BY <2>0, <2>19 DEF TimerFire, Push, NotifyAll, ThreadOK
      <4> QED
        BY <2>0, <2>19, <4>1 DEF TimerFire, ThreadOK, mapVars
    <3> QED
      BY <3>1, <3>2, <3>3, <3>4 DEF TypeOK
  <2>20. CASE UNCHANGED vars
    BY <2>0, <2>20 DEF vars, mapVars, queueVars, threadVars, history, TypeOK, MapOK, QueueOK, TimerOK, ThreadOK
  <2> QED
    BY <2>1, <2>2, <2>3, <2>4, <2>5, <2>6, <2>7, <2>8, <2>9, <2>10, <2>11, <2>12, <2>13, <2>14, <2>15, <2>16, <2>17, <2>18, <2>19, <2>20 DEF Next, Call, Wait, Resume, Locked, Timer
<1> QED
  BY <1>1, <1>2, PTL DEF Spec
-------------------------------------------------------------------------------

\* Which steps touch the timers, and which the events.

\* Concatenation of event sequences is associative.
LEMMA EventsConcat ==
  \A a, b, c \in Seq(Events) : (a \o b) \o c = a \o (b \o c)
  BY ConcatAssociative

\* The steps that change timers.
LEMMA TimerSteps ==
  ASSUME [Next]_vars
  PROVE  \/ UNCHANGED <<timers, active, drained>>
         \/ \E t \in Threads : DrainTimers(t)
         \/ \E t \in Threads, id \in Ids : AddTimerEvent(t, id) \/ DeleteTimerEvent(t, id)
         \/ \E n \in DOMAIN timers : Timer(n)
<1>1. ASSUME NEW t \in Threads, Call(t) PROVE UNCHANGED <<timers, active, drained>>
  BY <1>1 DEF Call, CreateEqueue, DeleteEqueue, Lookup, queueVars, history
<1>2. ASSUME NEW t \in Threads, Wait(t) PROVE UNCHANGED <<timers, active, drained>>
  BY <1>2 DEF Wait, WaitInvalid, WaitTake, WaitPoll, WaitBlock, Elapse, WakeSpuriously,
     queueVars, history
<1>3. ASSUME NEW t \in Threads, Resume(t) PROVE UNCHANGED <<timers, active, drained>>
  BY <1>3 DEF Resume, ResumeUntimed, ResumeTimed
<1>4. ASSUME NEW t \in Threads, NEW id \in Ids, NEW kind \in {"level", "edge"},
             AddUserEvent(t, id, kind) \/ DeleteUserEvent(t, id) \/ TriggerUserEvent(t, id)
      PROVE  UNCHANGED <<timers, active, drained>>
  BY <1>4 DEF AddUserEvent, DeleteUserEvent, TriggerUserEvent, history
<1>5. CASE UNCHANGED vars
  BY <1>5 DEF vars, queueVars, history
<1> QED
  BY <1>1, <1>2, <1>3, <1>4, <1>5 DEF Next, Locked

\* The steps that push or take events.
LEMMA EventSteps ==
  ASSUME TypeOK, [Next]_vars
  PROVE  \/ UNCHANGED <<triggered, pushed, taken>>
         \/ \E t \in Threads, num \in 1 .. MaxEvents :
              /\ WaitTake(t, num) \/ ResumeUntimed(t, num) \/ ResumeTimed(t, num)
              /\ triggered[target[t]] # << >>
              /\ Drain(target[t], SmallerOf(Len(triggered[target[t]]), num))
              /\ pushed' = pushed
         \/ \E t \in Threads, id \in Ids : TriggerUserEvent(t, id)
         \/ \E n \in DOMAIN timers : TimerFire(n) /\ ~timers[n].cancel
<1>1. ASSUME NEW t \in Threads, Call(t) PROVE UNCHANGED <<triggered, pushed, taken>>
  BY <1>1 DEF Call, CreateEqueue, DeleteEqueue, Lookup, queueVars, history
<1>2. ASSUME NEW t \in Threads, NEW at \in BlockedAt,
             WaitInvalid(t) \/ WaitPoll(t) \/ WaitBlock(t, at) \/ Elapse(t) \/ WakeSpuriously(t)
      PROVE  UNCHANGED <<triggered, pushed, taken>>
  BY <1>2 DEF WaitInvalid, WaitPoll, WaitBlock, Elapse, WakeSpuriously, queueVars, history
<1>3. ASSUME NEW t \in Threads, NEW num \in 1 .. MaxEvents, WaitTake(t, num)
      PROVE  /\ triggered[target[t]] # << >>
             /\ Drain(target[t], SmallerOf(Len(triggered[target[t]]), num))
             /\ pushed' = pushed
  BY <1>3 DEF WaitTake
<1>4. ASSUME NEW t \in Threads, NEW num \in 1 .. MaxEvents,
             ResumeUntimed(t, num) \/ ResumeTimed(t, num)
      PROVE  \/ UNCHANGED <<triggered, pushed, taken>>
             \/ /\ triggered[target[t]] # << >>
                /\ Drain(target[t], SmallerOf(Len(triggered[target[t]]), num))
                /\ pushed' = pushed
  BY <1>4 DEF ResumeUntimed, ResumeTimed
<1>5. ASSUME NEW t \in Threads, NEW id \in Ids, NEW kind \in {"level", "edge"},
             \/ DrainTimers(t)
             \/ AddUserEvent(t, id, kind) \/ DeleteUserEvent(t, id)
             \/ AddTimerEvent(t, id) \/ DeleteTimerEvent(t, id)
      PROVE  UNCHANGED <<triggered, pushed, taken>>
  BY <1>5 DEF DrainTimers, AddUserEvent, DeleteUserEvent, AddTimerEvent, DeleteTimerEvent, history
<1>6. ASSUME NEW t \in Threads, DrainTimers(t) PROVE UNCHANGED <<triggered, pushed, taken>>
  BY <1>6 DEF DrainTimers
<1>7. ASSUME NEW n \in DOMAIN timers, TimerExpire(n)
      PROVE  UNCHANGED <<triggered, pushed, taken>>
  BY <1>7 DEF TimerExpire, queueVars, history
<1>8. ASSUME NEW n \in DOMAIN timers, TimerFire(n), timers[n].cancel
      PROVE  UNCHANGED <<triggered, pushed, taken>>
  BY <1>8 DEF TimerFire
<1>9. CASE UNCHANGED vars
  BY <1>9 DEF vars, queueVars, history
<1>10. ASSUME NEW t \in Threads, Wait(t)
       PROVE  \/ UNCHANGED <<triggered, pushed, taken>>
              \/ \E num \in 1 .. MaxEvents : WaitTake(t, num)
  BY <1>10, <1>2 DEF Wait, BlockedAt
<1>11. ASSUME NEW t \in Threads, Locked(t)
       PROVE  \/ UNCHANGED <<triggered, pushed, taken>>
              \/ \E id \in Ids : TriggerUserEvent(t, id)
  BY <1>11, <1>5, <1>6 DEF Locked
<1> QED
  BY <1>1, <1>3, <1>4, <1>7, <1>8, <1>9, <1>10, <1>11 DEF Next, Resume, Timer

-------------------------------------------------------------------------------

\* Every event that was pushed is either still queued or was handed out, once
\* and in order, in every reachable state of every instance.
THEOREM EventsOnceInOrder == Spec => []EveryEventOnceInOrder
<1>1. Init => EveryEventOnceInOrder
  <2>1. << >> \o << >> = << >>
    OBVIOUS
  <2> QED
    BY <2>1 DEF Init, EveryEventOnceInOrder
<1>2. TypeOK /\ EveryEventOnceInOrder /\ [Next]_vars => EveryEventOnceInOrder'
  <2> SUFFICES ASSUME TypeOK, EveryEventOnceInOrder, [Next]_vars, NEW h \in Handles
               PROVE  pushed'[h] = taken'[h] \o triggered'[h]
    BY DEF EveryEventOnceInOrder
  <2>1. pushed[h] = taken[h] \o triggered[h]
    BY DEF EveryEventOnceInOrder
  <2>2. /\ pushed \in [Handles -> Seq(Events)]
        /\ taken \in [Handles -> Seq(Events)]
        /\ triggered \in [Handles -> Seq(Events)]
    BY DEF TypeOK, QueueOK
  <2>3. CASE UNCHANGED <<triggered, pushed, taken>>
    BY <2>1, <2>3
  <2>4. ASSUME NEW g \in Handles, NEW k \in 1 .. Len(triggered[g]),
               Drain(g, k), pushed' = pushed
        PROVE  pushed'[h] = taken'[h] \o triggered'[h]
    <3>1. CASE g # h
      BY <2>1, <2>2, <2>4, <3>1 DEF Drain
    <3>2. CASE g = h
      <4> DEFINE q == triggered[h]
      <4>1. q \in Seq(Events) /\ taken[h] \in Seq(Events) /\ Len(q) \in Nat
        BY <2>2, LenProperties
      <4>2. SubSeq(q, 1, k) \o SubSeq(q, k + 1, Len(q)) = SubSeq(q, 1, Len(q))
        BY <2>4, <3>2, <4>1, ConcatAdjacentSubSeq
      <4>3. SubSeq(q, 1, Len(q)) = q
        BY <4>1, SubSeqFull
      <4>4. SubSeq(q, 1, k) \in Seq(Events) /\ SubSeq(q, k + 1, Len(q)) \in Seq(Events)
        BY <2>4, <3>2, <4>1, SubSeqProperties
      <4>5. taken'[h] = taken[h] \o SubSeq(q, 1, k) /\ triggered'[h] = SubSeq(q, k + 1, Len(q))
        BY <2>2, <2>4, <3>2 DEF Drain
      <4>6. (taken[h] \o SubSeq(q, 1, k)) \o SubSeq(q, k + 1, Len(q))
              = taken[h] \o (SubSeq(q, 1, k) \o SubSeq(q, k + 1, Len(q)))
        BY <4>1, <4>4, EventsConcat
      <4> QED
        BY <2>1, <2>4, <4>2, <4>3, <4>5, <4>6
    <3> QED
      BY <3>1, <3>2
  <2>5. ASSUME NEW g, NEW e \in Events, Push(g, e), taken' = taken
        PROVE  pushed'[h] = taken'[h] \o triggered'[h]
    <3>1. CASE g # h
      BY <2>1, <2>2, <2>5, <3>1 DEF Push
    <3>2. CASE g = h
      <4>1. triggered[h] \in Seq(Events) /\ taken[h] \in Seq(Events) /\ pushed[h] \in Seq(Events)
        BY <2>2
      <4>2. pushed'[h] = Append(pushed[h], e) /\ triggered'[h] = Append(triggered[h], e)
        BY <2>2, <2>5, <3>2 DEF Push
      <4>3. Append(pushed[h], e) = (taken[h] \o triggered[h]) \o <<e>>
        BY <2>1, <4>1, AppendIsConcat
      <4>4. Append(triggered[h], e) = triggered[h] \o <<e>>
        BY <4>1, AppendIsConcat
      <4>5. <<e>> \in Seq(Events)
        OBVIOUS
      <4>6. (taken[h] \o triggered[h]) \o <<e>> = taken[h] \o (triggered[h] \o <<e>>)
        BY <4>1, <4>5, EventsConcat
      <4> QED
        BY <2>5, <4>2, <4>3, <4>4, <4>6
    <3> QED
      BY <3>1, <3>2
  <2>6. ASSUME NEW t \in Threads, NEW num \in 1 .. MaxEvents,
               WaitTake(t, num) \/ ResumeUntimed(t, num) \/ ResumeTimed(t, num),
               triggered[target[t]] # << >>
        PROVE  /\ target[t] \in Handles
               /\ SmallerOf(Len(triggered[target[t]]), num) \in 1 .. Len(triggered[target[t]])
    <3>1. pc[t] # "idle"
      BY <2>6 DEF WaitTake, ResumeUntimed, ResumeTimed
    <3>2. target[t] \in Handles /\ triggered[target[t]] \in Seq(Events)
      BY <3>1, TargetTyped DEF TypeOK
    <3>3. Len(triggered[target[t]]) \in Nat \ {0}
      BY <2>6, <3>2, EmptySeq
    <3> QED
      BY <2>6, <3>2, <3>3 DEF SmallerOf
  <2>7. ASSUME NEW t \in Threads, NEW id \in Ids, TriggerUserEvent(t, id)
        PROVE  pushed'[h] = taken'[h] \o triggered'[h]
    <3>1. taken' = taken
      BY <2>7 DEF TriggerUserEvent
    <3> DEFINE ev == [filter |-> "user", id |-> id, src |-> 0,
                      flags |-> IF registered[target[t]][id] = "edge" THEN EV_CLEAR ELSE 0]
    <3>2. ev \in Events
      BY BoundsAssumption DEF Events, Filters
    <3>3. Push(target[t], ev)
      BY <2>7 DEF TriggerUserEvent
    <3> QED
      BY <2>5, <3>1, <3>2, <3>3
  <2>8. ASSUME NEW n \in DOMAIN timers, TimerFire(n), ~timers[n].cancel
        PROVE  pushed'[h] = taken'[h] \o triggered'[h]
    <3> DEFINE ev == [filter |-> "timer", id |-> timers[n].id, src |-> n, flags |-> 0]
    <3>1. Push(timers[n].queue, ev) /\ taken' = taken
      BY <2>8 DEF TimerFire
    <3>2. timers[n] \in Timers /\ n \in 0 .. MaxTimers
      BY BoundsAssumption, ElementOfSeq, LenProperties DEF TypeOK, TimerOK
    <3>3. ev \in Events
      BY <3>2 DEF Events, Filters, Timers
    <3> QED
      BY <2>5, <3>1, <3>3
  <2> QED
    BY <2>3, <2>4, <2>6, <2>7, <2>8, EventSteps
<1> QED
  BY <1>1, <1>2, TypeCorrect, PTL DEF Spec

-------------------------------------------------------------------------------

\* Adding a timer cancels the one listed under its id and appends a new one.
LEMMA AddTimerEffect ==
  ASSUME TypeOK, NEW t \in Threads, NEW id \in Ids, AddTimerEvent(t, id)
  PROVE  /\ target[t] \in Handles
         /\ Len(timers) \in Nat /\ DOMAIN timers = 1 .. Len(timers)
         /\ DOMAIN timers' = 1 .. Len(timers) + 1
         /\ timers'[Len(timers) + 1] = NewTimer(target[t], id)
         /\ \A n \in DOMAIN timers : timers'[n] = Cancelled({active[target[t]][id]})[n]
<1> DEFINE us == Cancelled({active[target[t]][id]})
<1>1. target[t] \in Handles
  BY TargetTyped DEF TypeOK, AddTimerEvent
<1>2. Len(timers) \in Nat /\ DOMAIN timers = 1 .. Len(timers)
  BY LenProperties DEF TypeOK, TimerOK
<1>3. us \in Seq(Timers) /\ Len(us) = Len(timers)
  BY CancelledTyped DEF TypeOK
<1>4. NewTimer(target[t], id) \in Timers
  BY <1>1 DEF NewTimer, Timers
<1>5. timers' = Append(us, NewTimer(target[t], id))
  BY DEF AddTimerEvent
<1> HIDE DEF us
<1>6. /\ timers' \in Seq(Timers) /\ Len(timers') = Len(timers) + 1
      /\ timers'[Len(timers) + 1] = NewTimer(target[t], id)
      /\ \A n \in 1 .. Len(timers) : timers'[n] = us[n]
  <2> DEFINE new == NewTimer(target[t], id)
  <2>1. us \in Seq(Timers) /\ new \in Timers /\ timers' = Append(us, new)
    BY <1>3, <1>4, <1>5
  <2> HIDE DEF new
  <2>2. /\ timers' \in Seq(Timers) /\ Len(timers') = Len(us) + 1
        /\ timers'[Len(us) + 1] = new
        /\ \A n \in 1 .. Len(us) : timers'[n] = us[n]
    BY <2>1, AppendProperties
  <2> QED
    BY <1>3, <2>2 DEF new
<1>7. DOMAIN timers' = 1 .. Len(timers) + 1
  BY <1>6, LenProperties
<1> QED
  BY <1>1, <1>2, <1>6, <1>7 DEF us

\* The timer threads themselves change no flag and no identity.
LEMMA TimerThreadEffect ==
  ASSUME TypeOK, NEW m \in DOMAIN timers, Timer(m)
  PROVE  /\ DOMAIN timers' = DOMAIN timers
         /\ active' = active /\ drained' = drained
         /\ \A n \in DOMAIN timers :
              /\ timers'[n].queue = timers[n].queue /\ timers'[n].id = timers[n].id
              /\ timers'[n].late = timers[n].late /\ timers'[n].cancel = timers[n].cancel
<1>1. \A n \in DOMAIN timers : timers[n] \in Timers
  BY ElementOfSeq, LenProperties DEF TypeOK, TimerOK
<1>2. \E st \in {"sleep", "fire", "dead"} : timers' = [timers EXCEPT ![m].state = st]
  BY DEF Timer, TimerExpire, TimerFire
<1>3. active' = active /\ drained' = drained
  BY DEF Timer, TimerExpire, TimerFire, queueVars, history
<1> QED
  BY <1>1, <1>2, <1>3 DEF Timers

\* A timer that is not cancelled is the one its queue lists under its id, and
\* deleting a queue cancels every timer installed on it before: the first fact
\* is what lets sceKernelDeleteEqueue reach all of them through the map.
THEOREM TimersAreReachable == Spec => [](UncancelledIsListed /\ DeletionStopsTimers)
<1> DEFINE TInv == UncancelledIsListed /\ DeletionStopsTimers
<1>1. Init => TInv
  BY DEF Init, UncancelledIsListed, DeletionStopsTimers
<1>2. TypeOK /\ TInv /\ [Next]_vars => TInv'
  <2> SUFFICES ASSUME TypeOK, UncancelledIsListed, DeletionStopsTimers, [Next]_vars
               PROVE  TInv'
    OBVIOUS
  <2>0. /\ \A n \in DOMAIN timers : timers[n].queue \in Handles /\ timers[n].id \in Ids
        /\ active \in [Handles -> [Ids -> 0 .. MaxTimers]]
        /\ DOMAIN timers \subseteq Nat \ {0}
    <3>1. \A n \in DOMAIN timers : timers[n] \in Timers
      BY ElementOfSeq, LenProperties DEF TypeOK, TimerOK
    <3> QED
      <4>1. DOMAIN timers \subseteq Nat \ {0}
        BY LenProperties DEF TypeOK, TimerOK
      <4>2. active \in [Handles -> [Ids -> 0 .. MaxTimers]]
        BY DEF TypeOK, QueueOK
      <4> QED
        BY <3>1, <4>1, <4>2 DEF Timers
  <2>1. CASE UNCHANGED <<timers, active, drained>>
    BY <2>1 DEF UncancelledIsListed, DeletionStopsTimers
  <2>2. ASSUME NEW t \in Threads, DrainTimers(t) PROVE TInv'
    <3> DEFINE h == target[t]
    <3>1. h \in Handles
      BY <2>2, TargetTyped DEF TypeOK, DrainTimers
    <3> DEFINE ns == {active[h][i] : i \in Ids}
    <3>2. /\ timers' = Cancelled(ns)
          /\ active' = [active EXCEPT ![h] = [i \in Ids |-> 0]] /\ drained' = drained \cup {h}
      BY <2>2 DEF DrainTimers
    <3>3. DOMAIN timers' = DOMAIN timers
      BY <3>2 DEF Cancelled
    <3>4. ASSUME NEW n \in DOMAIN timers, timers[n].queue = h PROVE timers'[n].cancel
      <4>1. timers[n].cancel \/ n \in ns
        BY <2>0, <3>4 DEF UncancelledIsListed
      <4> HIDE DEF ns
      <4> QED
        BY <3>2, <4>1, CancelledEffect DEF TypeOK
    <3>5. ASSUME NEW n \in DOMAIN timers
          PROVE  /\ timers'[n].queue = timers[n].queue /\ timers'[n].id = timers[n].id
                 /\ timers'[n].late = timers[n].late
                 /\ timers[n].cancel => timers'[n].cancel
      BY <3>2, <3>5, CancelledEffect DEF TypeOK
    <3>6. ASSUME NEW n \in DOMAIN timers, timers[n].queue # h
          PROVE  active'[timers[n].queue][timers[n].id] = active[timers[n].queue][timers[n].id]
      BY <2>0, <3>1, <3>2, <3>6
    <3>7. UncancelledIsListed'
      BY <3>3, <3>4, <3>5, <3>6 DEF UncancelledIsListed
    <3>8. DeletionStopsTimers'
      BY <3>2, <3>3, <3>4, <3>5 DEF DeletionStopsTimers
    <3> QED
      BY <3>7, <3>8
  <2>3. ASSUME NEW t \in Threads, NEW id \in Ids, AddTimerEvent(t, id) PROVE TInv'
    <3> DEFINE h == target[t]
               k == Len(timers) + 1
    <3>1. /\ h \in Handles /\ k \in Nat
          /\ DOMAIN timers' = DOMAIN timers \cup {k}
          /\ timers'[k] = NewTimer(h, id)
      <4>1. /\ target[t] \in Handles
            /\ Len(timers) \in Nat /\ DOMAIN timers = 1 .. Len(timers)
            /\ DOMAIN timers' = 1 .. Len(timers) + 1
            /\ timers'[Len(timers) + 1] = NewTimer(target[t], id)
        BY <2>3, AddTimerEffect, Zenon
      <4>2. timers'[k] = NewTimer(h, id)
        BY <4>1
      <4>3. k \in Nat /\ DOMAIN timers' = DOMAIN timers \cup {k}
        BY <4>1
      <4> QED
        BY <4>1, <4>2, <4>3
    <3>2. active' = [active EXCEPT ![h][id] = k] /\ drained' = drained
      BY <2>3 DEF AddTimerEvent, history
    <3>3. ASSUME NEW n \in DOMAIN timers
          PROVE  /\ timers'[n].queue = timers[n].queue /\ timers'[n].id = timers[n].id
                 /\ timers'[n].late = timers[n].late
                 /\ timers'[n].cancel <=> timers[n].cancel \/ n = active[h][id]
      <4>1. timers'[n] = Cancelled({active[h][id]})[n]
        BY <2>3, <3>3, AddTimerEffect
      <4> QED
        BY <3>3, <4>1, CancelledEffect DEF TypeOK
    <3> HIDE DEF h, k
    <3>4. active'[timers'[k].queue][timers'[k].id] = k
      BY <2>0, <3>1, <3>2 DEF NewTimer
    <3>5. ASSUME NEW n \in DOMAIN timers, ~timers'[n].cancel
          PROVE  active'[timers'[n].queue][timers'[n].id] = n
      <4>1. ~timers[n].cancel /\ n # active[h][id]
        BY <3>3, <3>5
      <4>2. active[timers[n].queue][timers[n].id] = n
        BY <4>1 DEF UncancelledIsListed
      <4>3. ~(timers[n].queue = h /\ timers[n].id = id)
        BY <4>1, <4>2
      <4> QED
        BY <2>0, <3>1, <3>2, <3>3, <4>2, <4>3
    <3>6. UncancelledIsListed'
      BY <3>1, <3>4, <3>5 DEF UncancelledIsListed
    <3>7. DeletionStopsTimers'
      <4>1. timers'[k].queue = h /\ timers'[k].late = (h \in drained)
        BY <3>1 DEF NewTimer
      <4>2. timers'[k].queue \in drained' /\ ~timers'[k].late => timers'[k].cancel
        BY <3>2, <4>1
      <4>3. ASSUME NEW n \in DOMAIN timers
            PROVE  timers'[n].queue \in drained' /\ ~timers'[n].late => timers'[n].cancel
        BY <3>2, <3>3, <4>3 DEF DeletionStopsTimers
      <4> QED
        BY <3>1, <4>2, <4>3 DEF DeletionStopsTimers
    <3> QED
      BY <3>6, <3>7
  <2>4. ASSUME NEW t \in Threads, NEW id \in Ids, DeleteTimerEvent(t, id) PROVE TInv'
    <3> DEFINE h == target[t]
    <3>1. h \in Handles
      BY <2>4, TargetTyped DEF TypeOK, DeleteTimerEvent
    <3>2. /\ timers' = Cancelled({active[h][id]})
          /\ active' = [active EXCEPT ![h][id] = 0] /\ drained' = drained
      BY <2>4 DEF DeleteTimerEvent, history
    <3>3. DOMAIN timers' = DOMAIN timers
      BY <3>2 DEF Cancelled
    <3>4. ASSUME NEW n \in DOMAIN timers
          PROVE  /\ timers'[n].queue = timers[n].queue /\ timers'[n].id = timers[n].id
                 /\ timers'[n].late = timers[n].late
                 /\ timers'[n].cancel <=> timers[n].cancel \/ n = active[h][id]
      BY <3>2, <3>4, CancelledEffect DEF TypeOK
    <3>5. ASSUME NEW n \in DOMAIN timers, ~timers'[n].cancel
          PROVE  active'[timers[n].queue][timers[n].id] = n
      <4>1. ~timers[n].cancel /\ n # active[h][id]
        BY <3>4, <3>5
      <4>2. active[timers[n].queue][timers[n].id] = n
        BY <4>1 DEF UncancelledIsListed
      <4>3. ~(timers[n].queue = h /\ timers[n].id = id)
        BY <4>1, <4>2
      <4> QED
        BY <2>0, <3>1, <3>2, <4>2, <4>3
    <3>6. UncancelledIsListed'
      BY <3>3, <3>4, <3>5 DEF UncancelledIsListed
    <3>7. DeletionStopsTimers'
      BY <3>2, <3>3, <3>4 DEF DeletionStopsTimers
    <3> QED
      BY <3>6, <3>7
  <2>5. ASSUME NEW m \in DOMAIN timers, Timer(m) PROVE TInv'
    BY <2>5, TimerThreadEffect DEF UncancelledIsListed, DeletionStopsTimers
  <2> QED
    BY <2>1, <2>2, <2>3, <2>4, <2>5, TimerSteps
<1> QED
  BY <1>1, <1>2, TypeCorrect, PTL DEF Spec

\* Only the events of timers that were not cancelled, and of users, are pushed.
LEMMA PushesOfTheRunning ==
  ASSUME TypeOK, [Next]_vars, NEW h \in Handles, NEW k \in DOMAIN pushed'[h] \ DOMAIN pushed[h]
  PROVE  pushed'[h][k].src \notin {n \in DOMAIN timers : timers[n].cancel}
<1>1. pushed \in [Handles -> Seq(Events)]
  BY DEF TypeOK, QueueOK
<1>2. DOMAIN timers = 1 .. Len(timers) /\ Len(timers) \in Nat
  BY LenProperties DEF TypeOK, TimerOK
<1>3. ASSUME NEW g, NEW e \in Events, Push(g, e) PROVE pushed'[h][k] = e
  <2>1. g = h /\ pushed'[h] = Append(pushed[h], e)
    BY <1>1, <1>3 DEF Push
  <2>2. DOMAIN pushed[h] = 1 .. Len(pushed[h]) /\ Len(pushed[h]) \in Nat
    BY <1>1, LenProperties
  <2>3. /\ DOMAIN Append(pushed[h], e) = 1 .. Len(pushed[h]) + 1
        /\ Append(pushed[h], e)[Len(pushed[h]) + 1] = e
    BY <1>1, AppendProperties, LenProperties
  <2>4. k = Len(pushed[h]) + 1
    BY <2>1, <2>2, <2>3
  <2> QED
    BY <2>1, <2>3, <2>4
<1>4. CASE pushed' = pushed
  BY <1>4
<1>5. ASSUME NEW t \in Threads, NEW id \in Ids, TriggerUserEvent(t, id)
      PROVE  pushed'[h][k].src \notin {n \in DOMAIN timers : timers[n].cancel}
  <2> DEFINE ev == [filter |-> "user", id |-> id, src |-> 0,
                    flags |-> IF registered[target[t]][id] = "edge" THEN EV_CLEAR ELSE 0]
  <2>1. ev \in Events
    BY BoundsAssumption DEF Events, Filters
  <2>2. Push(target[t], ev)
    BY <1>5 DEF TriggerUserEvent
  <2>3. pushed'[h][k] = ev
    BY <1>3, <2>1, <2>2
  <2> QED
    BY <1>2, <2>3
<1>6. ASSUME NEW m \in DOMAIN timers, TimerFire(m), ~timers[m].cancel
      PROVE  pushed'[h][k].src \notin {n \in DOMAIN timers : timers[n].cancel}
  <2> DEFINE ev == [filter |-> "timer", id |-> timers[m].id, src |-> m, flags |-> 0]
  <2>1. timers[m] \in Timers /\ m \in 0 .. MaxTimers
    BY BoundsAssumption, ElementOfSeq, LenProperties DEF TypeOK, TimerOK
  <2>2. ev \in Events
    BY <2>1 DEF Events, Filters, Timers
  <2>3. Push(timers[m].queue, ev)
    BY <1>6 DEF TimerFire
  <2>4. pushed'[h][k] = ev
    BY <1>3, <2>2, <2>3
  <2> QED
    BY <1>6, <2>4
<1> QED
  BY <1>4, <1>5, <1>6, EventSteps

\* A running timer can be stopped, and one that was stays silent, for any number of
\* queues, ids and timers (sceKernelAddTimerEvent, sceKernelDeleteTimerEvent,
\* sceKernelDeleteEqueue).
THEOREM TimersAlwaysStop == Spec => TimersStop
<1>1. TypeOK /\ [Next]_vars =>
        [\A n \in DOMAIN timers : timers[n].cancel =>
           \A h \in Handles :
             \A k \in DOMAIN pushed'[h] \ DOMAIN pushed[h] : pushed'[h][k].src # n]_vars
  <2> SUFFICES ASSUME TypeOK, [Next]_vars, NEW n \in DOMAIN timers, timers[n].cancel,
                      NEW h \in Handles, NEW k \in DOMAIN pushed'[h] \ DOMAIN pushed[h]
               PROVE  pushed'[h][k].src # n
    OBVIOUS
  <2> QED
    BY PushesOfTheRunning
<1> QED
  BY <1>1, TypeCorrect, TimersAreReachable, PTL DEF Spec, TimersStop, CancelledTimerIsSilent

-------------------------------------------------------------------------------

\* The elements taken so far and some of the rest are a prefix of both together.
LEMMA PrefixOfConcat ==
  ASSUME NEW S, NEW u \in Seq(S), NEW v \in Seq(S), NEW k \in 0 .. Len(v)
  PROVE  u \o SubSeq(v, 1, k) = SubSeq(u \o v, 1, Len(u) + k)
<1> DEFINE w == SubSeq(v, 1, k)
           x == SubSeq(u \o v, 1, Len(u) + k)
<1>1. Len(u) \in Nat /\ Len(v) \in Nat /\ k \in Nat
  BY LenProperties
<1>2. /\ u \o v \in Seq(S) /\ Len(u \o v) = Len(u) + Len(v)
      /\ \A i \in 1 .. Len(u) + Len(v) :
           (u \o v)[i] = IF i <= Len(u) THEN u[i] ELSE v[i - Len(u)]
  BY ConcatProperties
<1>3. w \in Seq(S) /\ Len(w) = k /\ \A i \in 1 .. k : w[i] = v[i]
  <2>1. \A i \in 1 .. k : v[i] \in S
    BY <1>1, ElementOfSeq
  <2> QED
    BY <1>1, <2>1, SubSeqProperties
<1>4. x \in Seq(S) /\ Len(x) = Len(u) + k /\ \A i \in 1 .. Len(u) + k : x[i] = (u \o v)[i]
  <2>1. \A i \in 1 .. Len(u) + k : (u \o v)[i] \in S
    BY <1>1, <1>2, ElementOfSeq
  <2> QED
    BY <1>1, <2>1, SubSeqProperties
<1>5. /\ u \o w \in Seq(S) /\ Len(u \o w) = Len(u) + k
      /\ \A i \in 1 .. Len(u) + k : (u \o w)[i] = IF i <= Len(u) THEN u[i] ELSE w[i - Len(u)]
  BY <1>3, ConcatProperties
<1> HIDE DEF w, x
<1>6. ASSUME NEW i \in 1 .. Len(u) + k PROVE (u \o w)[i] = x[i]
  <2>1. i \in 1 .. Len(u) + Len(v) /\ x[i] = (u \o v)[i]
    BY <1>1, <1>4
  <2>2. CASE i <= Len(u)
    BY <1>2, <1>5, <2>1, <2>2
  <2>3. CASE ~(i <= Len(u))
    <3>1. i - Len(u) \in 1 .. k
      BY <1>1, <2>3
    <3>2. (u \o w)[i] = w[i - Len(u)] /\ (u \o v)[i] = v[i - Len(u)]
      BY <1>2, <1>5, <2>1, <2>3
    <3> QED
      BY <1>3, <2>1, <3>1, <3>2
  <2> QED
    BY <2>2, <2>3
<1>7. u \o w = x
  BY <1>4, <1>5, <1>6, SeqEqual
<1> QED
  BY <1>7 DEF w, x

\* A push is one event posted on the channel.
LEMMA PushIsPost ==
  ASSUME TypeOK, NEW h, NEW e \in Events, Push(h, e), taken' = taken
  PROVE  [Channel!Next]_(Channel!chanVars)
<1>1. CASE h \in Handles
  BY <1>1 DEF Push, Channel!Next, Channel!Post
<1>2. CASE h \notin Handles
  BY <1>2 DEF Push, TypeOK, QueueOK, Channel!chanVars
<1> QED
  BY <1>1, <1>2

\* A drain of a queue takes the oldest events nobody took.
LEMMA DrainIsTake ==
  ASSUME TypeOK, EveryEventOnceInOrder, NEW h \in Handles,
         NEW k \in 1 .. Len(triggered[h]), Drain(h, k), pushed' = pushed
  PROVE  Channel!Next
<1>1. /\ pushed[h] = taken[h] \o triggered[h]
      /\ taken[h] \in Seq(Events) /\ triggered[h] \in Seq(Events)
  BY DEF EveryEventOnceInOrder, TypeOK, QueueOK
<1>2. Len(taken[h]) \in Nat /\ Len(triggered[h]) \in Nat
      /\ Len(pushed[h]) = Len(taken[h]) + Len(triggered[h])
  BY <1>1, LenProperties, ConcatProperties
<1> DEFINE u == taken[h]
           v == triggered[h]
           n == Len(u) + k
           all == Len(pushed[h])
<1>3. n \in 1 .. all /\ n > Len(u)
  <2>1. k \in 1 .. Len(v) /\ Len(u) \in Nat /\ Len(v) \in Nat /\ all = Len(u) + Len(v)
    BY <1>2
  <2> HIDE DEF u, v, all
  <2> QED
    BY <2>1
<1>4. taken[h] \o SubSeq(triggered[h], 1, k) = SubSeq(pushed[h], 1, n)
  <2>1. u \in Seq(Events) /\ v \in Seq(Events) /\ k \in 0 .. Len(v)
    BY <1>1, <1>2
  <2> HIDE DEF u, v
  <2>2. u \o SubSeq(v, 1, k) = SubSeq(u \o v, 1, Len(u) + k)
    BY <2>1, PrefixOfConcat
  <2> QED
    BY <1>1, <2>2 DEF u, v
<1>5. Channel!Take(h, n)
  BY <1>3, <1>4 DEF Drain, Channel!Take
<1> QED
  BY <1>3, <1>5 DEF Channel!Next

\* The queues are reliable FIFO channels, for any number of queues, threads and timers:
\* a step posts one event, takes the oldest ones nobody took, or shows nothing.
THEOREM QueuesAreChannels == Spec => ImplementsChannel
<1>1. Init => Channel!Init
  BY DEF Init, Channel!Init
<1>2. TypeOK /\ EveryEventOnceInOrder /\ [Next]_vars => [Channel!Next]_(Channel!chanVars)
  <2> SUFFICES ASSUME TypeOK, EveryEventOnceInOrder, [Next]_vars
               PROVE  [Channel!Next]_(Channel!chanVars)
    OBVIOUS
  <2>1. CASE UNCHANGED <<triggered, pushed, taken>>
    BY <2>1 DEF Channel!chanVars
  <2>2. ASSUME NEW t \in Threads, NEW num \in 1 .. MaxEvents,
               WaitTake(t, num) \/ ResumeUntimed(t, num) \/ ResumeTimed(t, num),
               triggered[target[t]] # << >>,
               Drain(target[t], SmallerOf(Len(triggered[target[t]]), num)),
               pushed' = pushed
        PROVE  [Channel!Next]_(Channel!chanVars)
    <3>1. pc[t] # "idle"
      BY <2>2 DEF WaitTake, ResumeUntimed, ResumeTimed
    <3>2. target[t] \in Handles /\ triggered[target[t]] \in Seq(Events)
      BY <3>1, TargetTyped DEF TypeOK
    <3>3. Len(triggered[target[t]]) \in Nat \ {0}
      BY <2>2, <3>2, EmptySeq
    <3>4. SmallerOf(Len(triggered[target[t]]), num) \in 1 .. Len(triggered[target[t]])
      BY <2>2, <3>3 DEF SmallerOf
    <3> QED
      BY <2>2, <3>2, <3>4, DrainIsTake
  <2>3. ASSUME NEW t \in Threads, NEW id \in Ids, TriggerUserEvent(t, id)
        PROVE  [Channel!Next]_(Channel!chanVars)
    <3> DEFINE ev == [filter |-> "user", id |-> id, src |-> 0,
                      flags |-> IF registered[target[t]][id] = "edge" THEN EV_CLEAR ELSE 0]
    <3>1. ev \in Events
      BY BoundsAssumption DEF Events, Filters
    <3>2. Push(target[t], ev) /\ taken' = taken
      BY <2>3 DEF TriggerUserEvent
    <3> QED
      BY <3>1, <3>2, PushIsPost
  <2>4. ASSUME NEW n \in DOMAIN timers, TimerFire(n), ~timers[n].cancel
        PROVE  [Channel!Next]_(Channel!chanVars)
    <3> DEFINE ev == [filter |-> "timer", id |-> timers[n].id, src |-> n, flags |-> 0]
    <3>1. timers[n] \in Timers /\ n \in 0 .. MaxTimers
      BY BoundsAssumption, ElementOfSeq, LenProperties DEF TypeOK, TimerOK
    <3>2. ev \in Events
      BY <3>1 DEF Events, Filters, Timers
    <3>3. Push(timers[n].queue, ev) /\ taken' = taken
      BY <2>4 DEF TimerFire
    <3> QED
      BY <3>2, <3>3, PushIsPost
  <2> QED
    BY <2>1, <2>2, <2>3, <2>4, EventSteps
<1> QED
  BY <1>1, <1>2, TypeCorrect, EventsOnceInOrder, PTL DEF Spec, ImplementsChannel, Channel!Spec
===============================================================================
