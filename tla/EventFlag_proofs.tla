--------------------------- MODULE EventFlag_proofs ---------------------------
(***************************************************************************)
(* Theorems of EventFlag, for any threads, bits, requests and bounds: its  *)
(* types, that a bit is granted at most once for each time it was raised,  *)
(* that a timed wait is never answered ETIMEDOUT over a pattern that meets *)
(* it, and that no wakeup is lost although setters notify after they have  *)
(* released the flag.                                                      *)
(***************************************************************************)
EXTENDS EventFlag, TLAPS

(***************************************************************************)
(* Requests and what they leave and take.                                  *)
(***************************************************************************)
USE DEF Handles, Calls, BlockedAt, Results

\* A request that matches a pattern matches every larger one, so only a raise
\* can make a waiter's request match.
LEMMA MatchIsMonotone ==
  ASSUME NEW p, NEW q, p \subseteq q, NEW r, check_event_flag_match(p, r)
  PROVE  check_event_flag_match(q, r)
BY DEF check_event_flag_match

\* A grant takes bits that are there, and those it takes are gone afterwards.
LEMMA TakenBitsAreCleared ==
  ASSUME NEW p, NEW r
  PROVE  /\ ClearedPattern(p, r) \subseteq p
         /\ TakenBits(p, r) = p \ ClearedPattern(p, r)
BY DEF ClearedPattern, TakenBits

\* A thread in a call is at a flag that was made.
LEMMA Targets ==
  ASSUME TypeOK, NEW t \in Threads, pc[t] # "idle"
  PROVE  target[t] \in Handles /\ target[t] \in 1 .. next
BY FlagBounds DEF TypeOK

\* A raise counts each of its bits that was down.
LEMMA RaiseTyped ==
  ASSUME TypeOK, NEW f \in Handles, NEW bs \in SUBSET Bits, Raise(f, bs)
  PROVE  /\ pattern' \in [Handles -> SUBSET Bits]
         /\ raises' \in [Handles -> [Bits -> Nat]]
         /\ pattern'[f] = pattern[f] \cup bs
         /\ \A b \in Bits : raises'[f][b] = IF b \in bs \ pattern[f]
                                             THEN raises[f][b] + 1 ELSE raises[f][b]
         /\ \A g \in Handles \ {f} : pattern'[g] = pattern[g] /\ raises'[g] = raises[g]
<1>1. pattern' \in [Handles -> SUBSET Bits] /\ pattern'[f] = pattern[f] \cup bs
  BY DEF Raise, TypeOK
<1>2. raises' \in [Handles -> [Bits -> Nat]]
  <2>1. \A b \in Bits : raises[f][b] \in Nat
    BY DEF TypeOK
  <2>2. [b \in Bits |-> IF b \in bs \ pattern[f] THEN raises[f][b] + 1 ELSE raises[f][b]]
          \in [Bits -> Nat]
    BY <2>1
  <2> QED
    BY <2>2 DEF Raise, TypeOK
<1>3. \A b \in Bits : raises'[f][b] = IF b \in bs \ pattern[f]
                                       THEN raises[f][b] + 1 ELSE raises[f][b]
  BY DEF Raise, TypeOK
<1>4. \A g \in Handles \ {f} : pattern'[g] = pattern[g] /\ raises'[g] = raises[g]
  BY DEF Raise, TypeOK
<1> QED
  BY <1>1, <1>2, <1>3, <1>4

\* A grant counts each bit it takes down.
LEMMA GrantTyped ==
  ASSUME TypeOK, NEW t \in Threads, pc[t] # "idle", NEW r, Grant(t, r)
  PROVE  /\ pattern' \in [Handles -> SUBSET Bits]
         /\ grants' \in [Handles -> [Bits -> Nat]]
         /\ pattern'[target[t]] = ClearedPattern(pattern[target[t]], r)
         /\ \A b \in Bits : grants'[target[t]][b] =
              IF b \in pattern[target[t]] \ pattern'[target[t]]
                THEN grants[target[t]][b] + 1 ELSE grants[target[t]][b]
         /\ \A g \in Handles \ {target[t]} :
              pattern'[g] = pattern[g] /\ grants'[g] = grants[g]
<1> DEFINE f == target[t]
           p == pattern[f]
           c == ClearedPattern(p, r)
<1>1. f \in Handles
  BY Targets
<1>2. c \subseteq p /\ TakenBits(p, r) = p \ c
  BY TakenBitsAreCleared
<1>3. /\ pattern' = [pattern EXCEPT ![f] = c]
      /\ grants' = [grants EXCEPT ![f] =
           [b \in Bits |-> IF b \in p \ c THEN grants[f][b] + 1 ELSE grants[f][b]]]
  BY <1>1, <1>2 DEF Grant, TypeOK
<1>4. \A b \in Bits : grants[f][b] \in Nat
  BY <1>1 DEF TypeOK
<1>5. [b \in Bits |-> IF b \in p \ c THEN grants[f][b] + 1 ELSE grants[f][b]] \in [Bits -> Nat]
  BY <1>4
<1>6. p \in SUBSET Bits
  BY <1>1 DEF TypeOK
<1> HIDE DEF f, p, c
<1>7. pattern' \in [Handles -> SUBSET Bits] /\ pattern'[f] = c
  BY <1>1, <1>2, <1>3, <1>6 DEF TypeOK
<1>8. grants' \in [Handles -> [Bits -> Nat]]
  BY <1>1, <1>3, <1>5 DEF TypeOK
<1>9. \A b \in Bits : grants'[f][b] = IF b \in p \ c THEN grants[f][b] + 1 ELSE grants[f][b]
  BY <1>1, <1>3 DEF TypeOK
<1>10. \A g \in Handles \ {f} : pattern'[g] = pattern[g] /\ grants'[g] = grants[g]
  BY <1>1, <1>3 DEF TypeOK
<1> QED
  BY <1>7, <1>8, <1>9, <1>10 DEF f, p, c

\* What Return leaves behind.
LEMMA ReturnTyped ==
  ASSUME TypeOK, NEW t \in Threads, NEW e \in Results, Return(t, e), next' >= next,
         next' \in 0 .. MaxFlags
  PROVE  /\ pc' \in [Threads -> {"idle", "notify"} \cup Calls \cup BlockedAt]
         /\ target' \in [Threads -> 0 .. MaxFlags]
         /\ \A u \in Threads : pc'[u] # "idle" => target'[u] \in 1 .. next'
         /\ want' \in [Threads -> Requests \cup {NoRequest}]
         /\ ret' \in [Threads -> Results]
<1>1. pc' \in [Threads -> {"idle", "notify"} \cup Calls \cup BlockedAt]
  BY DEF Return, TypeOK
<1>2. target' \in [Threads -> 0 .. MaxFlags]
  BY FlagBounds DEF Return, TypeOK
<1>3. \A u \in Threads : pc'[u] # "idle" => target'[u] \in 1 .. next'
  <2> SUFFICES ASSUME NEW u \in Threads, pc'[u] # "idle" PROVE target'[u] \in 1 .. next'
    OBVIOUS
  <2>1. u # t /\ pc[u] # "idle" /\ target'[u] = target[u]
    BY DEF Return, TypeOK
  <2> QED
    BY <2>1, FlagBounds DEF TypeOK
<1>4. want' \in [Threads -> Requests \cup {NoRequest}] /\ ret' \in [Threads -> Results]
  BY DEF Return, TypeOK
<1> QED
  BY <1>1, <1>2, <1>3, <1>4

(***************************************************************************)
(* Types.                                                                  *)
(***************************************************************************)

\* Every step keeps the types; TypeOK's record of who may hold which flag is
\* inductive on its own.
LEMMA TypeStep ==
  ASSUME TypeOK, [Next]_vars
  PROVE  TypeOK'
<1>1. CASE UNCHANGED vars
  BY <1>1 DEF vars, mapVars, threadVars, TypeOK
<1>2. ASSUME NEW t \in Threads, Call(t) PROVE TypeOK'
  <2>1. ASSUME NEW bs \in SUBSET Bits, CreateEventFlag(t, bs) PROVE TypeOK'
    <3>1. next + 1 \in Handles /\ next' \in 0 .. MaxFlags /\ next' >= next
      BY <2>1, FlagBounds DEF CreateEventFlag, TypeOK
    <3>2. /\ pattern' \in [Handles -> SUBSET Bits]
          /\ raises' \in [Handles -> [Bits -> Nat]]
      BY <2>1, <3>1, RaiseTyped DEF CreateEventFlag
    <3>3. flags' \subseteq 1 .. next'
      BY <2>1, FlagBounds DEF CreateEventFlag, TypeOK
    <3>4. wake' = wake /\ grants' = grants /\ Return(t, "ok")
      BY <2>1 DEF CreateEventFlag
    <3> QED
      BY <3>1, <3>2, <3>3, <3>4, ReturnTyped DEF TypeOK
  <2>2. ASSUME NEW f \in 1 .. next, DeleteEventFlag(t, f) PROVE TypeOK'
    <3>1. next' = next /\ next \in 0 .. MaxFlags /\ next >= next
      BY <2>2, FlagBounds DEF DeleteEventFlag, TypeOK
    <3>2. PICK e \in Results : Return(t, e)
      BY <2>2 DEF DeleteEventFlag
    <3>3. UNCHANGED <<pattern, wake, raises, grants>> /\ flags' \subseteq flags
      BY <2>2 DEF DeleteEventFlag
    <3> QED
      BY <3>1, <3>2, <3>3, ReturnTyped DEF TypeOK
  <2>3. ASSUME NEW f \in 1 .. next, NEW c \in Calls, Lookup(t, c, f) PROVE TypeOK'
    <3>1. CASE f \in flags
      <4>1. /\ pc' = [pc EXCEPT ![t] = c] /\ target' = [target EXCEPT ![t] = f]
            /\ UNCHANGED <<next, flags, pattern, want, wake, ret, raises, grants>>
        BY <2>3, <3>1 DEF Lookup, mapVars
      <4>2. f \in 0 .. MaxFlags
        BY FlagBounds DEF TypeOK
      <4>3. \A u \in Threads : pc'[u] # "idle" => target'[u] \in 1 .. next'
        BY <4>1 DEF TypeOK
      <4> QED
        BY <4>1, <4>2, <4>3 DEF TypeOK
    <3>2. CASE f \notin flags
      <4>1. Return(t, "failed") /\ UNCHANGED <<next, flags, pattern, wake, raises, grants>>
        BY <2>3, <3>2 DEF Lookup, mapVars
      <4>2. next' = next /\ next \in 0 .. MaxFlags /\ next >= next
        BY <4>1, FlagBounds DEF TypeOK
      <4> QED
        BY <4>1, <4>2, ReturnTyped DEF TypeOK
    <3> QED
      BY <3>1, <3>2
  <2> QED
    BY <1>2, <2>1, <2>2, <2>3 DEF Call
<1>3. ASSUME NEW t \in Threads, NEW r, pc[t] # "idle", Grant(t, r),
             UNCHANGED <<next, flags, raises>>,
             wake' \in [Threads -> {"none", "notified", "timeout"}]
      PROVE  TypeOK'
  <2>1. /\ pattern' \in [Handles -> SUBSET Bits]
        /\ grants' \in [Handles -> [Bits -> Nat]]
    BY <1>3, GrantTyped
  <2>2. Return(t, "ok") /\ next' = next /\ next \in 0 .. MaxFlags /\ next >= next
    BY <1>3, FlagBounds DEF Grant, TypeOK
  <2> QED
    BY <1>3, <2>1, <2>2, ReturnTyped DEF TypeOK
<1>4. ASSUME NEW t \in Threads, NEW e \in Results, Return(t, e),
             UNCHANGED <<next, flags, raises, grants>>,
             pattern' \in [Handles -> SUBSET Bits],
             wake' \in [Threads -> {"none", "notified", "timeout"}]
      PROVE  TypeOK'
  <2>1. next' = next /\ next \in 0 .. MaxFlags /\ next >= next
    BY <1>4, FlagBounds DEF TypeOK
  <2> QED
    BY <1>4, <2>1, ReturnTyped DEF TypeOK
<1>5. ASSUME NEW t \in Threads, Wait(t) PROVE TypeOK'
  <2>1. ASSUME NEW r \in Requests, TryEventFlag(t, r) PROVE TypeOK'
    <3>1. UNCHANGED <<next, flags, wake, raises>> /\ pc[t] # "idle"
      BY <2>1 DEF TryEventFlag, mapVars
    <3>2. CASE Grant(t, r)
      BY <1>3, <3>1, <3>2 DEF TypeOK
    <3>3. CASE Return(t, "failed") /\ UNCHANGED <<pattern, grants>>
      BY <1>4, <3>1, <3>3 DEF TypeOK
    <3> QED
      BY <2>1, <3>2, <3>3 DEF TryEventFlag
  <2>2. ASSUME NEW r \in Requests, NEW at \in BlockedAt, WaitBlock(t, r, at) PROVE TypeOK'
    BY <2>2 DEF WaitBlock, mapVars, TypeOK
  <2>3. CASE Elapse(t) \/ WakeSpuriously(t)
    BY <2>3 DEF Elapse, WakeSpuriously, mapVars, TypeOK
  <2> QED
    BY <1>5, <2>1, <2>2, <2>3 DEF Wait
<1>6. ASSUME NEW t \in Threads, Resume(t) PROVE TypeOK'
  <2>1. /\ UNCHANGED <<next, flags, raises>> /\ pc[t] # "idle"
        /\ wake' \in [Threads -> {"none", "notified", "timeout"}]
    BY <1>6 DEF Resume, ResumeTimed, ResumeUntimed, mapVars, TypeOK
  <2>2. \/ Grant(t, want[t])
        \/ Return(t, "failed") /\ UNCHANGED <<pattern, grants>>
        \/ UNCHANGED <<pattern, grants, pc, target, want, ret>>
    BY <1>6 DEF Resume, ResumeTimed, ResumeUntimed
  <2>3. CASE Grant(t, want[t])
    BY <1>3, <2>1, <2>3
  <2>4. CASE Return(t, "failed") /\ UNCHANGED <<pattern, grants>>
    BY <1>4, <2>1, <2>4 DEF TypeOK
  <2>5. CASE UNCHANGED <<pattern, grants, pc, target, want, ret>>
    BY <2>1, <2>5 DEF TypeOK
  <2> QED
    BY <2>2, <2>3, <2>4, <2>5
<1>7. ASSUME NEW t \in Threads, Locked(t) PROVE TypeOK'
  <2>1. ASSUME NEW bs \in SUBSET Bits, SetEventFlag(t, bs) PROVE TypeOK'
    <3>1. pc[t] = "set" /\ Raise(target[t], bs) /\ target[t] \in Handles
      BY <2>1, Targets DEF SetEventFlag
    <3>2. pattern' \in [Handles -> SUBSET Bits] /\ raises' \in [Handles -> [Bits -> Nat]]
      BY <3>1, RaiseTyped
    <3> QED
      BY <2>1, <3>1, <3>2 DEF SetEventFlag, mapVars, TypeOK
  <2>2. ASSUME NEW bs \in SUBSET Bits, ClearEventFlag(t, bs) PROVE TypeOK'
    <3>1. pc[t] # "idle" /\ Return(t, "ok") /\ UNCHANGED <<next, flags, wake, raises, grants>>
      BY <2>2 DEF ClearEventFlag, mapVars
    <3>2. pattern' \in [Handles -> SUBSET Bits]
      BY <2>2, <3>1, Targets DEF ClearEventFlag, TypeOK
    <3> QED
      BY <1>4, <3>1, <3>2 DEF TypeOK
  <2> QED
    BY <1>7, <2>1, <2>2 DEF Locked
<1>8. ASSUME NEW t \in Threads, SetNotify(t) PROVE TypeOK'
  <2>1. Return(t, "ok") /\ UNCHANGED <<next, flags, pattern, raises, grants>>
    BY <1>8 DEF SetNotify, mapVars
  <2>2. wake' \in [Threads -> {"none", "notified", "timeout"}]
    BY <1>8 DEF SetNotify, TypeOK
  <2> QED
    BY <1>4, <2>1, <2>2 DEF TypeOK
<1> QED
  BY <1>1, <1>2, <1>5, <1>6, <1>7, <1>8 DEF Next

\* A flag holds a pattern of its bits, and a call is about a flag that was made
\* (EventFlagState in sync.rs).
THEOREM TypeCorrect == Spec => []TypeOK
<1>1. Init => TypeOK
  BY FlagBounds DEF Init, TypeOK
<1> QED
  BY <1>1, TypeStep, PTL DEF Spec

(***************************************************************************)
(* Raises and grants.                                                      *)
(***************************************************************************)

\* One bit of one flag: it has been granted at most as often as it was raised,
\* one time less if it stands.
Balanced(f, b) ==
  grants[f][b] + (IF b \in pattern[f] THEN 1 ELSE 0) <= raises[f][b]

\* What a step may do to the pattern: nothing, raise bits, or take bits away
\* with or without a grant.
LEMMA PatternSteps ==
  ASSUME TypeOK, [Next]_vars
  PROVE  \/ UNCHANGED <<pattern, raises, grants>>
         \/ \E f \in Handles, bs \in SUBSET Bits : Raise(f, bs) /\ grants' = grants
         \/ \E t \in Threads : \E r \in Requests \cup {NoRequest} :
              pc[t] # "idle" /\ Grant(t, r) /\ raises' = raises
         \/ \E f \in Handles, bs \in SUBSET Bits :
              /\ pattern' = [pattern EXCEPT ![f] = @ \ bs]
              /\ UNCHANGED <<raises, grants>>
<1>1. CASE UNCHANGED vars
  BY <1>1 DEF vars
<1>2. ASSUME NEW t \in Threads, NEW bs \in SUBSET Bits, CreateEventFlag(t, bs)
      PROVE  next + 1 \in Handles /\ Raise(next + 1, bs) /\ grants' = grants
  BY <1>2, FlagBounds DEF CreateEventFlag, TypeOK
<1>3. ASSUME NEW t \in Threads, NEW f \in 1 .. next,
             DeleteEventFlag(t, f) \/ \E c \in Calls : Lookup(t, c, f)
      PROVE  UNCHANGED <<pattern, raises, grants>>
  BY <1>3 DEF DeleteEventFlag, Lookup
<1>4. ASSUME NEW t \in Threads, NEW r \in Requests, TryEventFlag(t, r)
      PROVE  \/ UNCHANGED <<pattern, raises, grants>>
             \/ pc[t] # "idle" /\ Grant(t, r) /\ raises' = raises
  BY <1>4 DEF TryEventFlag
<1>5. ASSUME NEW t \in Threads,
             \/ \E r \in Requests, at \in BlockedAt : WaitBlock(t, r, at)
             \/ Elapse(t) \/ WakeSpuriously(t) \/ SetNotify(t)
      PROVE  UNCHANGED <<pattern, raises, grants>>
  BY <1>5 DEF WaitBlock, Elapse, WakeSpuriously, SetNotify
<1>6. ASSUME NEW t \in Threads, Resume(t)
      PROVE  \/ UNCHANGED <<pattern, raises, grants>>
             \/ pc[t] # "idle" /\ Grant(t, want[t]) /\ raises' = raises
  BY <1>6 DEF Resume, ResumeTimed, ResumeUntimed
<1>7. ASSUME NEW t \in Threads PROVE want[t] \in Requests \cup {NoRequest}
  BY DEF TypeOK
<1>8. ASSUME NEW t \in Threads, NEW bs \in SUBSET Bits, SetEventFlag(t, bs)
      PROVE  target[t] \in Handles /\ Raise(target[t], bs) /\ grants' = grants
  BY <1>8, Targets DEF SetEventFlag
<1>9. ASSUME NEW t \in Threads, NEW bs \in SUBSET Bits, ClearEventFlag(t, bs)
      PROVE  /\ target[t] \in Handles
             /\ pattern' = [pattern EXCEPT ![target[t]] = @ \ bs]
             /\ UNCHANGED <<raises, grants>>
  BY <1>9, Targets DEF ClearEventFlag
<1>10. ASSUME NEW t \in Threads, Call(t)
       PROVE  \/ UNCHANGED <<pattern, raises, grants>>
              \/ \E f \in Handles, bs \in SUBSET Bits : Raise(f, bs) /\ grants' = grants
  BY <1>2, <1>3, <1>10 DEF Call
<1>11. ASSUME NEW t \in Threads, Wait(t) \/ Resume(t) \/ SetNotify(t)
       PROVE  \/ UNCHANGED <<pattern, raises, grants>>
              \/ \E r \in Requests \cup {NoRequest} :
                   pc[t] # "idle" /\ Grant(t, r) /\ raises' = raises
  BY <1>4, <1>5, <1>6, <1>7, <1>11 DEF Wait
<1>12. ASSUME NEW t \in Threads, Locked(t)
       PROVE  \/ \E f \in Handles, bs \in SUBSET Bits : Raise(f, bs) /\ grants' = grants
              \/ \E f \in Handles, bs \in SUBSET Bits :
                   /\ pattern' = [pattern EXCEPT ![f] = @ \ bs]
                   /\ UNCHANGED <<raises, grants>>
  BY <1>8, <1>9, <1>12 DEF Locked
<1> QED
  BY <1>1, <1>10, <1>11, <1>12 DEF Next

\* No step grants a bit more often than it was raised.
LEMMA BalanceStep ==
  ASSUME TypeOK, BitGrantedOncePerRaise, [Next]_vars
  PROVE  BitGrantedOncePerRaise'
<1> SUFFICES ASSUME NEW f \in Handles, NEW b \in Bits PROVE Balanced(f, b)'
  BY DEF BitGrantedOncePerRaise, Balanced
<1>1. Balanced(f, b)
  BY DEF BitGrantedOncePerRaise, Balanced
<1>2. raises[f][b] \in Nat /\ grants[f][b] \in Nat
  BY DEF TypeOK
<1>3. CASE UNCHANGED <<pattern, raises, grants>>
  BY <1>1, <1>3 DEF Balanced
<1>4. ASSUME NEW g \in Handles, NEW bs \in SUBSET Bits, Raise(g, bs), grants' = grants
      PROVE  Balanced(f, b)'
  <2>1. CASE f = g
    <3>1. /\ pattern'[f] = pattern[f] \cup bs
          /\ raises'[f][b] = IF b \in bs \ pattern[f] THEN raises[f][b] + 1 ELSE raises[f][b]
      BY <1>4, <2>1, RaiseTyped
    <3> QED
      BY <1>1, <1>2, <1>4, <3>1 DEF Balanced
  <2>2. CASE f # g
    <3>1. pattern'[f] = pattern[f] /\ raises'[f] = raises[f]
      BY <1>4, <2>2, RaiseTyped
    <3> QED
      BY <1>1, <1>4, <3>1 DEF Balanced
  <2> QED
    BY <2>1, <2>2
<1>5. ASSUME NEW t \in Threads, NEW r, pc[t] # "idle", Grant(t, r), raises' = raises
      PROVE  Balanced(f, b)'
  <2>1. CASE f = target[t]
    <3>1. grants'[f][b] = IF b \in pattern[f] \ pattern'[f]
                            THEN grants[f][b] + 1 ELSE grants[f][b]
      BY <1>5, <2>1, GrantTyped
    <3>2. pattern'[f] \subseteq pattern[f]
      BY <1>5, <2>1, GrantTyped, TakenBitsAreCleared
    <3> QED
      BY <1>1, <1>2, <1>5, <3>1, <3>2 DEF Balanced
  <2>2. CASE f # target[t]
    <3>1. pattern'[f] = pattern[f] /\ grants'[f] = grants[f]
      BY <1>5, <2>2, GrantTyped
    <3> QED
      BY <1>1, <1>5, <3>1 DEF Balanced
  <2> QED
    BY <2>1, <2>2
<1>6. ASSUME NEW g \in Handles, NEW bs \in SUBSET Bits,
             pattern' = [pattern EXCEPT ![g] = @ \ bs], UNCHANGED <<raises, grants>>
      PROVE  Balanced(f, b)'
  <2>1. pattern'[f] \subseteq pattern[f]
    BY <1>6 DEF TypeOK
  <2> QED
    BY <1>1, <1>2, <1>6, <2>1 DEF Balanced
<1> QED
  BY <1>3, <1>4, <1>5, <1>6, PatternSteps

\* A bit is granted to a clearing wait at most once for each time it was
\* raised, for any number of threads, flags, bits and requests
\* (sceKernelWaitEventFlag, sceKernelPollEventFlag).
THEOREM GrantsFollowRaises == Spec => []BitGrantedOncePerRaise
<1>1. Init => BitGrantedOncePerRaise
  BY DEF Init, BitGrantedOncePerRaise
<1>2. TypeOK /\ BitGrantedOncePerRaise /\ [Next]_vars => BitGrantedOncePerRaise'
  BY BalanceStep
<1> QED
  BY <1>1, <1>2, TypeCorrect, PTL DEF Spec

(***************************************************************************)
(* Waiters.                                                                *)
(***************************************************************************)

\* What the steps of one thread do to another thread's place in its call, and
\* which of them a thread can take while it is blocked.
LEMMA OthersStay ==
  ASSUME TypeOK, NEW t \in Threads, NEW u \in Threads, t # u,
         Call(u) \/ Wait(u) \/ Resume(u) \/ Locked(u) \/ SetNotify(u)
  PROVE  /\ pc'[t] = pc[t] /\ target'[t] = target[t] /\ want'[t] = want[t]
         /\ ret'[t] = ret[t]
<1>1. CASE Call(u)
  BY <1>1 DEF Call, CreateEventFlag, DeleteEventFlag, Lookup, Return, TypeOK
<1>2. CASE Wait(u)
  BY <1>2 DEF Wait, TryEventFlag, WaitBlock, Elapse, WakeSpuriously, Grant, Return, TypeOK
<1>3. CASE Resume(u)
  BY <1>3 DEF Resume, ResumeTimed, ResumeUntimed, Grant, Return, TypeOK
<1>4. CASE Locked(u) \/ SetNotify(u)
  BY <1>4 DEF Locked, SetEventFlag, ClearEventFlag, SetNotify, Return, TypeOK
<1> QED
  BY <1>1, <1>2, <1>3, <1>4

\* What a blocked waiter can do.
LEMMA BlockedSteps ==
  ASSUME NEW t \in Threads, pc[t] \in BlockedAt,
         Call(t) \/ Wait(t) \/ Resume(t) \/ Locked(t) \/ SetNotify(t)
  PROVE  Elapse(t) \/ WakeSpuriously(t) \/ Resume(t)
BY DEF Call, CreateEventFlag, DeleteEventFlag, Lookup, Wait, TryEventFlag, WaitBlock, Locked,
       SetEventFlag, ClearEventFlag, SetNotify

\* A wait that blocked is never answered ETIMEDOUT while its bits are there:
\* the pattern has the last word over the clock (wait_timeout_while).
THEOREM TimeoutsAreSound == Spec => TimeoutOnlyUnmatched
<1>1. ASSUME TypeOK, [Next]_vars, NEW t \in Threads, pc[t] \in BlockedAt, pc'[t] = "idle",
             ret'[t] = "failed"
      PROVE  ~Matches(t)
  <2>1. PICK u \in Threads : Call(u) \/ Wait(u) \/ Resume(u) \/ Locked(u) \/ SetNotify(u)
    BY <1>1 DEF Next, vars, threadVars
  <2>2. u = t
    BY <1>1, <2>1, OthersStay
  <2>3. Elapse(t) \/ WakeSpuriously(t) \/ Resume(t)
    BY <1>1, <2>1, <2>2, BlockedSteps
  <2>4. Resume(t)
    BY <1>1, <2>3 DEF Elapse, WakeSpuriously
  <2>5. ASSUME Grant(t, want[t]) PROVE FALSE
    BY <1>1, <2>5 DEF Grant, Return, TypeOK
  <2> QED
    BY <1>1, <2>4, <2>5 DEF Resume, ResumeTimed, ResumeUntimed
<1>2. TypeOK /\ [Next]_vars =>
        [\A t \in Threads :
           pc[t] \in BlockedAt /\ pc'[t] = "idle" /\ ret'[t] = "failed" => ~Matches(t)]_vars
  BY <1>1
<1> QED
  BY <1>2, TypeCorrect, PTL DEF Spec, TimeoutOnlyUnmatched

\* A thread that sleeps, and to which nothing has been sent, on a pattern that
\* meets its request, is owed a wakeup: the thread that raised the bits has
\* still to notify.
WakeupOwed(t) ==
  pc[t] \in BlockedAt /\ wake[t] = "none" /\ Matches(t) =>
    \E u \in Threads : pc[u] = "notify" /\ target[u] = target[t]

WakeupsAreOwed == \A t \in Threads : WakeupOwed(t)

\* Between a raise and its notification the flag is unlocked, so waiters may
\* look, sleep and resume there, and other threads set, clear and delete.
LEMMA WakeupStep ==
  ASSUME TypeOK, WakeupsAreOwed, [Next]_vars
  PROVE  WakeupsAreOwed'
<1> SUFFICES ASSUME NEW t \in Threads,
                    pc'[t] \in BlockedAt, wake'[t] = "none", Matches(t)'
             PROVE  \E u \in Threads : pc'[u] = "notify" /\ target'[u] = target'[t]
  BY DEF WakeupsAreOwed, WakeupOwed
<1>1. CASE UNCHANGED vars
  <2>1. Matches(t) /\ pc[t] \in BlockedAt /\ wake[t] = "none"
    BY <1>1 DEF vars, threadVars, Matches
  <2> QED
    BY <1>1, <2>1 DEF WakeupsAreOwed, WakeupOwed, vars, threadVars
<1>2. ASSUME NEW u \in Threads, Call(u) \/ Wait(u) \/ Resume(u) \/ Locked(u) \/ SetNotify(u)
      PROVE  \E w \in Threads : pc'[w] = "notify" /\ target'[w] = target'[t]
  \* The notification that was owed before the step is owed after it, unless
  \* this step gives it, and then t is sent it.
  <2>1. ASSUME pc[t] \in BlockedAt, wake[t] = "none", Matches(t), target'[t] = target[t]
        PROVE  \E w \in Threads : pc'[w] = "notify" /\ target'[w] = target'[t]
    <3>1. PICK w \in Threads : pc[w] = "notify" /\ target[w] = target[t]
      BY <2>1 DEF WakeupsAreOwed, WakeupOwed
    <3>2. CASE w # u
      BY <1>2, <2>1, <3>1, <3>2, OthersStay
    <3>3. CASE w = u
      <4>1. SetNotify(u)
        BY <1>2, <3>1, <3>3 DEF Call, CreateEventFlag, DeleteEventFlag, Lookup, Wait,
          TryEventFlag, WaitBlock, Elapse, WakeSpuriously, Resume, ResumeTimed, ResumeUntimed,
          Locked, SetEventFlag, ClearEventFlag
      <4>2. wake'[t] = "notified"
        BY <2>1, <3>1, <3>3, <4>1 DEF SetNotify, Blocked
      <4> QED
        BY <4>2
    <3> QED
      BY <3>2, <3>3
  <2>2. CASE u = t
    <3>1. ASSUME NEW r \in Requests, NEW at \in BlockedAt, WaitBlock(t, r, at) PROVE FALSE
      <4>1. want'[t] = r /\ target'[t] = target[t] /\ pattern' = pattern
        BY <3>1 DEF WaitBlock, TypeOK
      <4>2. ~check_event_flag_match(pattern[target[t]], r)
        BY <3>1 DEF WaitBlock
      <4> QED
        BY <4>1, <4>2 DEF Matches
    <3>2. ASSUME Resume(t) PROVE FALSE
      <4>1. ~Grant(t, want[t]) /\ ~Return(t, "failed")
        BY DEF Grant, Return, TypeOK
      <4>2. ~Matches(t) /\ UNCHANGED <<pattern, pc, target, want>>
        BY <3>2, <4>1 DEF Resume, ResumeTimed, ResumeUntimed
      <4> QED
        BY <4>2 DEF Matches
    <3>3. ~Elapse(t) /\ ~WakeSpuriously(t)
      BY DEF Elapse, WakeSpuriously, TypeOK
    <3>4. pc[t] \in BlockedAt \/ \E r \in Requests, at \in BlockedAt : WaitBlock(t, r, at)
      BY <1>2, <2>2 DEF Call, CreateEventFlag, DeleteEventFlag, Lookup, Wait, TryEventFlag,
        Elapse, WakeSpuriously, Resume, ResumeTimed, ResumeUntimed, Locked, SetEventFlag,
        ClearEventFlag, SetNotify, Grant, Return, TypeOK
    <3> QED
      BY <1>2, <2>2, <3>1, <3>2, <3>3, <3>4, BlockedSteps
  <2>3. CASE u # t
    <3>1. pc[t] \in BlockedAt /\ target'[t] = target[t] /\ want'[t] = want[t]
      BY <1>2, <2>3, OthersStay
    <3>2. wake[t] = "none"
      BY <1>2, <2>3 DEF Call, CreateEventFlag, DeleteEventFlag, Lookup, Wait, TryEventFlag,
        WaitBlock, Elapse, WakeSpuriously, Resume, ResumeTimed, ResumeUntimed, Locked,
        SetEventFlag, ClearEventFlag, SetNotify, TypeOK
    <3>3. target[t] \in Handles /\ target[t] \in 1 .. next
      BY <3>1, Targets
    <3>4. CASE pattern'[target[t]] \subseteq pattern[target[t]]
      <4>1. Matches(t)
        BY <3>1, <3>4, MatchIsMonotone DEF Matches
      <4> QED
        BY <2>1, <3>1, <3>2, <4>1
    <3>5. CASE ~(pattern'[target[t]] \subseteq pattern[target[t]])
      <4>1. \A g \in 1 .. next : \A ps \in SUBSET Bits :
              Raise(next + 1, ps) => pattern'[g] = pattern[g]
        BY DEF Raise, TypeOK
      <4>2. PICK ps \in SUBSET Bits : SetEventFlag(u, ps)
        <5>1. ASSUME NEW ps \in SUBSET Bits, CreateEventFlag(u, ps) PROVE FALSE
          BY <3>3, <3>5, <4>1, <5>1 DEF CreateEventFlag
        <5>2. pattern' # pattern
          BY <3>5
        <5>3. ASSUME NEW r, pc[u] # "idle", Grant(u, r) PROVE FALSE
          <6>1. CASE target[u] = target[t]
            BY <3>5, <5>3, <6>1, GrantTyped, TakenBitsAreCleared
          <6>2. CASE target[u] # target[t]
            BY <3>3, <3>5, <5>3, <6>2, GrantTyped
          <6> QED
            BY <6>1, <6>2
        <5>4. ~Call(u) /\ ~SetNotify(u)
          BY <5>1, <5>2 DEF Call, DeleteEventFlag, Lookup, SetNotify
        <5>5. ~Wait(u) /\ ~Resume(u)
          BY <5>2, <5>3 DEF Wait, TryEventFlag, WaitBlock, Elapse, WakeSpuriously, Resume,
            ResumeTimed, ResumeUntimed
        <5>6. ASSUME NEW ps \in SUBSET Bits, ClearEventFlag(u, ps) PROVE FALSE
          BY <3>3, <3>5, <5>6 DEF ClearEventFlag, TypeOK
        <5> QED
          BY <1>2, <5>4, <5>5, <5>6 DEF Locked
      <4>3. pc'[u] = "notify" /\ target'[u] = target[u]
        BY <4>2 DEF SetEventFlag, TypeOK
      <4>4. target[u] = target[t]
        BY <3>3, <3>5, <4>2 DEF SetEventFlag, Raise, TypeOK
      <4> QED
        BY <3>1, <4>3, <4>4
    <3> QED
      BY <3>4, <3>5
  <2> QED
    BY <2>2, <2>3
<1> QED
  BY <1>1, <1>2 DEF Next

\* No wakeup is lost in the gap between the raise and the notification: a
\* sleeper whose request is met always has its wakeup ahead of it, which is
\* what WaiterOfStandingPatternReturns needs besides fairness (sceKernelSetEventFlag,
\* sceKernelWaitEventFlag).
THEOREM NoLostWakeup == Spec => []WakeupsAreOwed
<1>1. Init => WakeupsAreOwed
  BY DEF Init, WakeupsAreOwed, WakeupOwed
<1>2. TypeOK /\ WakeupsAreOwed /\ [Next]_vars => WakeupsAreOwed'
  BY WakeupStep
<1> QED
  BY <1>1, <1>2, TypeCorrect, PTL DEF Spec
===============================================================================
