------------------------------- MODULE EventFlag ------------------------------
(***************************************************************************)
(* Kernel event flags (src/src/sync.rs): a word of bits threads set, clear *)
(* and wait for.  As in EventQueue a call first clones the flag's Arc under*)
(* the lock of EVENT_FLAGS, then works under the flag's own lock.  A       *)
(* setter notifies after it has released that lock.                        *)
(***************************************************************************)
EXTENDS Integers, FiniteSets

CONSTANTS
  Threads,   \* guest threads
  Bits,      \* bits of a flag's 64-bit pattern
  Requests,  \* what guests wait for: bit_pattern and wait_mode
  MaxFlags,  \* bound: flags created in one behaviour
  MaxRaises  \* bound: times one bit of one flag goes from 0 to 1

\* wait_mode: bit 0x01 asks for all bits, otherwise for any; 0x10 clears the
\* whole pattern on a match, else 0x20 clears the bits that were waited for.
WaitModes == [bits : SUBSET Bits, all : BOOLEAN, clear : {"no", "pattern", "bits"}]

ASSUME RequestsAssumption == Requests \subseteq WaitModes
ASSUME FlagBounds == MaxFlags \in Nat /\ MaxRaises \in Nat

VARIABLES
  next,      \* NEXT_HANDLE: how many flags have been created
  flags,     \* EVENT_FLAGS: the handles that can be looked up
  pattern,   \* EventFlagState.pattern, as the set of its 1 bits
  pc,        \* where each guest thread is
  target,    \* the flag whose Arc the thread's call holds
  want,      \* bit_pattern and wait_mode of the thread's wait
  wake,      \* what a thread blocked in the condition variable was sent
  ret,       \* outcome of its last call: every error code is "failed"
  raises,    \* history: how often a bit went from 0 to 1
  grants     \* history: how often a wait that clears a bit was granted it

mapVars    == <<next, flags>>
threadVars == <<pc, target, want, wake, ret>>
vars       == <<mapVars, pattern, threadVars, raises, grants>>

Handles   == 1 .. MaxFlags
Calls     == {"wait", "poll", "set", "clear"}
BlockedAt == {"blocked", "blockedTimed"}
Results   == {"ok", "failed"}

NoRequest == [bits |-> {}, all |-> FALSE, clear |-> "no"]

Blocked(t, f) == pc[t] \in BlockedAt /\ target[t] = f

check_event_flag_match(p, r) ==
  IF r.all THEN r.bits \subseteq p ELSE r.bits \cap p # {}

Matches(t) == check_event_flag_match(pattern[target[t]], want[t])

\* What a granted wait leaves of the pattern.
ClearedPattern(p, r) ==
  CASE r.clear = "pattern" -> {}
    [] r.clear = "bits"    -> p \ r.bits
    [] OTHER               -> p

\* The bits a granted wait takes for itself.
TakenBits(p, r) ==
  CASE r.clear = "pattern" -> p
    [] r.clear = "bits"    -> p \cap r.bits
    [] OTHER               -> {}

TypeOK ==
  /\ next \in 0 .. MaxFlags
  /\ flags \subseteq 1 .. next
  /\ pattern \in [Handles -> SUBSET Bits]
  /\ pc \in [Threads -> {"idle", "notify"} \cup Calls \cup BlockedAt]
  /\ target \in [Threads -> 0 .. MaxFlags]
  /\ \A t \in Threads : pc[t] # "idle" => target[t] \in 1 .. next
  /\ want \in [Threads -> Requests \cup {NoRequest}]
  /\ wake \in [Threads -> {"none", "notified", "timeout"}]
  /\ ret \in [Threads -> Results]
  /\ raises \in [Handles -> [Bits -> Nat]]
  /\ grants \in [Handles -> [Bits -> Nat]]

Init ==
  /\ next = 0
  /\ flags = {}
  /\ pattern = [f \in Handles |-> {}]
  /\ pc = [t \in Threads |-> "idle"]
  /\ target = [t \in Threads |-> 0]
  /\ want = [t \in Threads |-> NoRequest]
  /\ wake = [t \in Threads |-> "none"]
  /\ ret = [t \in Threads |-> "ok"]
  /\ raises = [f \in Handles |-> [b \in Bits |-> 0]]
  /\ grants = [f \in Handles |-> [b \in Bits |-> 0]]

Return(t, r) ==
  /\ pc' = [pc EXCEPT ![t] = "idle"]
  /\ target' = [target EXCEPT ![t] = 0]
  /\ want' = [want EXCEPT ![t] = NoRequest]
  /\ ret' = [ret EXCEPT ![t] = r]

\* Bits bs of flag f become 1.
Raise(f, bs) ==
  /\ \A b \in bs \ pattern[f] : raises[f][b] < MaxRaises
  /\ pattern' = [pattern EXCEPT ![f] = @ \cup bs]
  /\ raises' = [raises EXCEPT ![f] =
                  [b \in Bits |-> IF b \in bs \ pattern[f] THEN @[b] + 1 ELSE @[b]]]

-------------------------------------------------------------------------------
CreateEventFlag(t, init_pattern) ==
  LET f == next + 1 IN
  /\ pc[t] = "idle"
  /\ next < MaxFlags
  /\ next' = f
  /\ flags' = flags \cup {f}
  /\ Raise(f, init_pattern)
  /\ Return(t, "ok")
  /\ UNCHANGED <<wake, grants>>

\* Only the map entry goes: threads that wait on the flag are not woken.
DeleteEventFlag(t, f) ==
  /\ pc[t] = "idle"
  /\ flags' = flags \ {f}
  /\ Return(t, IF f \in flags THEN "ok" ELSE "failed")
  /\ UNCHANGED <<next, pattern, wake, raises, grants>>

Lookup(t, c, f) ==
  /\ pc[t] = "idle"
  /\ IF f \in flags
       THEN /\ pc' = [pc EXCEPT ![t] = c]
            /\ target' = [target EXCEPT ![t] = f]
            /\ UNCHANGED <<want, ret>>
       ELSE Return(t, "failed")
  /\ UNCHANGED <<mapVars, pattern, wake, raises, grants>>

-------------------------------------------------------------------------------
\* Defect: the pattern is left as it was after a wait that asked to clear it.
GrantWithoutClear(t, r) ==
  LET f == target[t] IN
  /\ pattern' = pattern
  /\ grants' = [grants EXCEPT ![f] =
       [b \in Bits |-> IF b \in TakenBits(pattern[f], r) THEN @[b] + 1 ELSE @[b]]]
  /\ Return(t, "ok")

\* The tail of every successful wait or poll, under the flag's lock.
Grant(t, r) ==
  LET f == target[t] IN
  /\ pattern' = [pattern EXCEPT ![f] = ClearedPattern(@, r)]
  /\ grants' = [grants EXCEPT ![f] =
       [b \in Bits |-> IF b \in TakenBits(pattern[f], r) THEN @[b] + 1 ELSE @[b]]]
  /\ Return(t, "ok")

\* sceKernelPollEventFlag, and a wait that need not block: it matches at once,
\* or its timeout is zero.
TryEventFlag(t, r) ==
  /\ pc[t] \in {"wait", "poll"}
  /\ IF check_event_flag_match(pattern[target[t]], r)
       THEN Grant(t, r)
       ELSE /\ Return(t, "failed")
            /\ UNCHANGED <<pattern, grants>>
  /\ UNCHANGED <<mapVars, wake, raises>>

WaitBlock(t, r, at) ==
  /\ pc[t] = "wait"
  /\ ~check_event_flag_match(pattern[target[t]], r)
  /\ pc' = [pc EXCEPT ![t] = at]
  /\ want' = [want EXCEPT ![t] = r]
  /\ wake' = [wake EXCEPT ![t] = "none"]
  /\ UNCHANGED <<mapVars, pattern, target, ret, raises, grants>>

Elapse(t) ==
  /\ pc[t] = "blockedTimed"
  /\ wake[t] = "none"
  /\ wake' = [wake EXCEPT ![t] = "timeout"]
  /\ UNCHANGED <<mapVars, pattern, pc, target, want, ret, raises, grants>>

WakeSpuriously(t) ==
  /\ pc[t] \in BlockedAt
  /\ wake[t] = "none"
  /\ wake' = [wake EXCEPT ![t] = "notified"]
  /\ UNCHANGED <<mapVars, pattern, pc, target, want, ret, raises, grants>>

\* Defect: a timeout is answered without a last look at the pattern.
ResumeTimedUnchecked(t) ==
  /\ pc[t] = "blockedTimed"
  /\ wake[t] # "none"
  /\ wake' = [wake EXCEPT ![t] = "none"]
  /\ IF wake[t] = "timeout"
       THEN /\ Return(t, "failed")
            /\ UNCHANGED <<pattern, grants>>
       ELSE IF Matches(t)
         THEN Grant(t, want[t])
         ELSE UNCHANGED <<pattern, grants, pc, target, want, ret>>
  /\ UNCHANGED <<mapVars, raises>>

\* wait_timeout_while looks at the pattern before it looks at the clock; the
\* clock may have run out although the thread was woken by a notification.
ResumeTimed(t) ==
  /\ pc[t] = "blockedTimed"
  /\ wake[t] # "none"
  /\ wake' = [wake EXCEPT ![t] = "none"]
  /\ \/ /\ Matches(t)
        /\ Grant(t, want[t])
     \/ /\ ~Matches(t)
        /\ Return(t, "failed")
        /\ UNCHANGED <<pattern, grants>>
     \/ /\ ~Matches(t)
        /\ wake[t] = "notified"
        /\ UNCHANGED <<pattern, grants, pc, target, want, ret>>
  /\ UNCHANGED <<mapVars, raises>>

ResumeUntimed(t) ==
  /\ pc[t] = "blocked"
  /\ wake[t] # "none"
  /\ wake' = [wake EXCEPT ![t] = "none"]
  /\ IF Matches(t)
       THEN Grant(t, want[t])
       ELSE UNCHANGED <<pattern, grants, pc, target, want, ret>>
  /\ UNCHANGED <<mapVars, raises>>

-------------------------------------------------------------------------------
SetEventFlag(t, bs) ==
  /\ pc[t] = "set"
  /\ Raise(target[t], bs)
  /\ pc' = [pc EXCEPT ![t] = "notify"]
  /\ UNCHANGED <<mapVars, target, want, wake, ret, grants>>

\* notify_all, after the lock is released.
SetNotify(t) ==
  /\ pc[t] = "notify"
  /\ wake' = [u \in Threads |->
                IF Blocked(u, target[t]) /\ wake[u] = "none" THEN "notified" ELSE wake[u]]
  /\ Return(t, "ok")
  /\ UNCHANGED <<mapVars, pattern, raises, grants>>

ClearEventFlag(t, bs) ==
  /\ pc[t] = "clear"
  /\ pattern' = [pattern EXCEPT ![target[t]] = @ \ bs]
  /\ Return(t, "ok")
  /\ UNCHANGED <<mapVars, wake, raises, grants>>

-------------------------------------------------------------------------------
Call(t) ==
  \/ \E p \in SUBSET Bits : CreateEventFlag(t, p)
  \/ \E f \in 1 .. next : DeleteEventFlag(t, f)
  \/ \E f \in 1 .. next, c \in Calls : Lookup(t, c, f)

Wait(t) ==
  \/ \E r \in Requests : TryEventFlag(t, r)
  \/ \E r \in Requests, at \in BlockedAt : WaitBlock(t, r, at)
  \/ Elapse(t)
  \/ WakeSpuriously(t)

Resume(t) == ResumeTimed(t) \/ ResumeUntimed(t)

Locked(t) == \E bs \in SUBSET Bits : SetEventFlag(t, bs) \/ ClearEventFlag(t, bs)

Next == \E t \in Threads : Call(t) \/ Wait(t) \/ Resume(t) \/ Locked(t) \/ SetNotify(t)

Spec == Init /\ [][Next]_vars

\* The host schedules a thread that was woken, and one about to notify.
FairSpec == Spec /\ \A t \in Threads : WF_vars(Resume(t)) /\ WF_vars(SetNotify(t))

-------------------------------------------------------------------------------
\* A bit is granted to a clearing wait at most once for each time it was
\* raised, however many threads wait for it: two waiters woken by one
\* notify_all cannot both consume the bit (the two copies of the clear code in
\* sceKernelWaitEventFlag and the one in sceKernelPollEventFlag).
BitGrantedOncePerRaise ==
  \A f \in Handles, b \in Bits :
    grants[f][b] + (IF b \in pattern[f] THEN 1 ELSE 0) <= raises[f][b]

\* A wait that blocked is never answered ETIMEDOUT while its bits are there: the
\* pattern has the last word over the clock (wait_timeout_while).
TimeoutOnlyUnmatched ==
  [][\A t \in Threads :
       pc[t] \in BlockedAt /\ pc'[t] = "idle" /\ ret'[t] = "failed" => ~Matches(t)]_vars

\* A thread does not sleep for ever on a pattern that meets its request: it
\* returns, or the bits are taken away again.
WaiterOfStandingPatternReturns ==
  \A t \in Threads : []<>~(pc[t] \in BlockedAt /\ Matches(t))

\* Waiting for bits: a pattern that stands is answered, and never by a timeout.
WaitersAreAnswered == WaiterOfStandingPatternReturns /\ TimeoutOnlyUnmatched
===============================================================================
