------------------------------- MODULE GuestSync -------------------------------
(***************************************************************************)
(* Guest mutexes, condition variables, semaphores and futex words          *)
(* (src/src/kernel.rs), all built on Thread::park and Thread::unpark.      *)
(*                                                                         *)
(* A thread has one park token: unpark sets it, park waits for it and      *)
(* takes it.  WAIT_QUEUE maps the address of a mutex, condition variable   *)
(* or word to the threads queued on it, under one global lock; semaphores  *)
(* keep their waiters in SEMAPHORES under another.  The word of a mutex    *)
(* holds the owner's thread id and is changed by compare-and-swap, outside *)
(* the lock of WAIT_QUEUE; recursion counts are in MUTEX_RECURSIONS.       *)
(***************************************************************************)
EXTENDS Integers, SequencesExt

CONSTANTS
  Threads,   \* guest threads
  Mutexes,   \* addresses used as locks
  Futexes,   \* those locked by the umtx system call, which counts no recursion;
             \* the others are pthread, Sce, Dinkumware and read-write locks
  Conds,     \* addresses used as condition variables
  Sems,      \* addresses used as semaphores
  Words,     \* addresses used with UMTX_OP_WAIT and UMTX_OP_WAKE
  NoOne,     \* the value 0 of a mutex word
  Uses,      \* what the guest program does (see Kinds)
  MaxDepth,  \* bound: levels of a recursive lock
  MaxPosts,  \* bound: value of a semaphore
  MaxQueue,  \* bound: entries of one queue
  WakeCounts \* how many threads the guest asks UMTX_OP_WAKE to wake

\* recursive:     threads lock a mutex they already hold
\* foreign:       threads unlock a mutex they do not hold
\* wait, timed, expired: waits on a condition variable with no timeout, with
\*                one that may elapse, with one that is over before it starts
Kinds == {"mutex", "recursive", "foreign", "wait", "timed", "expired", "sem", "umtx"}

ASSUME UsesAssumption == Uses \subseteq Kinds
ASSUME FutexAssumption == Futexes \subseteq Mutexes
ASSUME NoOneAssumption == NoOne \notin Threads
ASSUME SyncBounds == MaxDepth \in Nat \ {0} /\ MaxPosts \in Nat \ {0} /\ MaxQueue \in Nat
                     /\ WakeCounts \subseteq Nat
ASSUME ThreadsAssumption == IsFiniteSet(Threads)
\* An address is used as one kind of object.
ASSUME ObjectsAssumption ==
  /\ Mutexes \cap (Conds \cup Sems \cup Words) = {}
  /\ Conds \cap (Sems \cup Words) = {} /\ Sems \cap Words = {}

VARIABLES
  owner,     \* the word of each mutex
  count,     \* MUTEX_RECURSIONS: an absent entry counts 0
  queue,     \* WAIT_QUEUE, and the waiters of each semaphore
  value,     \* HleSemaphore.value
  word,      \* the guest's own 32-bit words
  token,     \* threads whose park token is set
  pc,        \* where each guest thread is
  op,        \* the call a thread is in
  mutex,     \* the mutex that call locks or unlocks
  obj,       \* the condition variable, semaphore or word it works on
  timed_out, \* local of hle_Cnd_timedwait: threads whose wait will answer timeout
  held,      \* history: levels of each mutex a thread was told it holds
  signalled, \* history: threads a signal or broadcast took out of the queue
  elapsed    \* history: threads whose timeout has elapsed

mutexVars  == <<owner, count>>
callVars   == <<op, mutex, obj>>
objectVars == <<value, word>>
history    == <<signalled, elapsed>>
vars == <<mutexVars, queue, objectVars, token, pc, callVars, timed_out, held, history>>

Objects == Mutexes \cup Conds \cup Sems \cup Words
None    == "none"
CondOps == {"wait", "timed", "expired"}
Ops     == {"none", "lock", "unlock", "sem", "umtx"} \cup CondOps
Parked  == {"lockParked", "condParked", "condTimed", "semParked", "wordParked"}
PcValues ==
  {"idle", "stored", "cas", "enqueue", "release", "clean", "pop", "condEnqueue",
   "condCheck", "condExpired", "semTry", "wordEnqueue"} \cup Parked

\* What a thread works on, wherever it is in its call.
CallOK(t) ==
  /\ pc[t] \in {"cas", "enqueue", "lockParked", "release", "clean", "pop"}
       => mutex[t] \in Mutexes
  /\ pc[t] \in {"condEnqueue", "condParked", "condTimed", "condCheck", "condExpired"}
       => op[t] \in CondOps /\ obj[t] \in Conds /\ mutex[t] \in Mutexes
  /\ pc[t] \in {"release", "clean", "pop"}
       => op[t] = "unlock" \/ (op[t] \in CondOps /\ obj[t] \in Conds)
  /\ pc[t] \in {"semTry", "semParked"} => obj[t] \in Sems
  /\ pc[t] \in {"wordEnqueue", "wordParked", "stored"} => obj[t] \in Words

TypeOK ==
  /\ owner \in [Mutexes -> Threads \cup {NoOne}]
  /\ count \in [Mutexes -> Nat]
  /\ queue \in [Objects -> Seq(Threads)]
  /\ value \in [Sems -> Nat]
  /\ word \in [Words -> {0, 1}]
  /\ token \subseteq Threads
  /\ pc \in [Threads -> PcValues]
  /\ op \in [Threads -> Ops]
  /\ mutex \in [Threads -> Mutexes \cup {None}]
  /\ obj \in [Threads -> Conds \cup Sems \cup Words \cup {None}]
  /\ timed_out \subseteq Threads
  /\ held \in [Threads -> [Mutexes -> Nat]]
  /\ signalled \subseteq Threads
  /\ elapsed \subseteq Threads
  /\ \A t \in Threads : CallOK(t)

Init ==
  /\ owner = [m \in Mutexes |-> NoOne]
  /\ count = [m \in Mutexes |-> 0]
  /\ queue = [o \in Objects |-> << >>]
  /\ value = [s \in Sems |-> 0]
  /\ word = [w \in Words |-> 0]
  /\ token = {}
  /\ pc = [t \in Threads |-> "idle"]
  /\ op = [t \in Threads |-> "none"]
  /\ mutex = [t \in Threads |-> None]
  /\ obj = [t \in Threads |-> None]
  /\ timed_out = {}
  /\ held = [t \in Threads |-> [m \in Mutexes |-> 0]]
  /\ signalled = {}
  /\ elapsed = {}

\* UMTX_OP_MUTEX_LOCK and UNLOCK run the same protocol without a count.
CountsRecursion(m) == m \notin Futexes

Goto(t, where) == pc' = [pc EXCEPT ![t] = where]

\* The call returns and its locals go.
Return(t) ==
  /\ Goto(t, "idle")
  /\ op' = [op EXCEPT ![t] = "none"]
  /\ mutex' = [mutex EXCEPT ![t] = None]
  /\ obj' = [obj EXCEPT ![t] = None]
  /\ timed_out' = timed_out \ {t}

\* The thread enters a call.
Begin(t, what, m, o, where) ==
  /\ pc[t] = "idle"
  /\ Goto(t, where)
  /\ op' = [op EXCEPT ![t] = what]
  /\ mutex' = [mutex EXCEPT ![t] = m]
  /\ obj' = [obj EXCEPT ![t] = o]

\* A queue's first thread, if it has one, is taken out and unparked.
WakeFirst(o) ==
  IF queue[o] = << >>
    THEN UNCHANGED <<queue, token>>
    ELSE /\ queue' = [queue EXCEPT ![o] = Tail(@)]
         /\ token' = token \cup {Head(queue[o])}

\* The first n threads of a queue are taken out and unparked.
WakeMany(o, n) ==
  /\ token' = token \cup ToSet(SubSeq(queue[o], 1, n))
  /\ queue' = [queue EXCEPT ![o] = SubSeq(@, n + 1, Len(@))]

Enqueue(t, o) ==
  /\ Len(queue[o]) < MaxQueue
  /\ queue' = [queue EXCEPT ![o] = Append(@, t)]

Hold(t, m)    == held' = [held EXCEPT ![t][m] = @ + 1]
LetGo(t, m)   == held' = [held EXCEPT ![t][m] = @ - 1]

-------------------------------------------------------------------------------
\* Locking a mutex: the lock calls, and the end of a wait on a condition
\* variable.  Read-write locks are these mutexes too, for readers and writers.

LockBegin(t, m) ==
  /\ "mutex" \in Uses
  /\ held[t][m] < (IF "recursive" \in Uses THEN MaxDepth ELSE 1)
  /\ Begin(t, "lock", m, None, "cas")
  /\ UNCHANGED <<mutexVars, queue, objectVars, token, timed_out, held, history>>

\* Defect: the owner word is tested and then set, not swapped.
AcquireUnchecked(t) ==
  LET m == mutex[t] IN
  /\ pc[t] = "cas"
  /\ owner' = [owner EXCEPT ![m] = t]
  /\ count' = count
  /\ Return(t)
  /\ Hold(t, m)
  /\ signalled' = signalled \ {t}
  /\ elapsed' = elapsed \ {t}
  /\ UNCHANGED <<queue, objectVars, token>>

Acquire(t) ==
  LET m == mutex[t] IN
  /\ pc[t] = "cas"
  /\ \/ /\ owner[m] = NoOne
        /\ owner' = [owner EXCEPT ![m] = t]
        /\ count' = count
     \/ /\ owner[m] = t
        /\ owner' = owner
        /\ count' = [count EXCEPT ![m] = IF CountsRecursion(m) THEN @ + 1 ELSE @]
  /\ Return(t)
  /\ Hold(t, m)
  /\ signalled' = signalled \ {t}
  /\ elapsed' = elapsed \ {t}
  /\ UNCHANGED <<queue, objectVars, token>>

Contend(t) ==
  /\ pc[t] = "cas"
  /\ owner[mutex[t]] \notin {NoOne, t}
  /\ Goto(t, "enqueue")
  /\ UNCHANGED <<mutexVars, queue, objectVars, token, callVars, timed_out, held, history>>

LockEnqueue(t) ==
  /\ pc[t] = "enqueue"
  /\ Enqueue(t, mutex[t])
  /\ Goto(t, "lockParked")
  /\ UNCHANGED <<mutexVars, objectVars, token, callVars, timed_out, held, history>>

\* hle_Mtx_trylock, also the try calls of read-write locks.
TryLock(t, m) ==
  /\ "mutex" \in Uses
  /\ held[t][m] < (IF "recursive" \in Uses THEN MaxDepth ELSE 1)
  /\ pc[t] = "idle"
  /\ CountsRecursion(m)
  /\ IF owner[m] \in {NoOne, t}
       THEN /\ owner' = [owner EXCEPT ![m] = t]
            /\ count' = [count EXCEPT ![m] = IF owner[m] = t THEN @ + 1 ELSE @]
            /\ Hold(t, m)
            /\ Return(t)
       ELSE /\ Return(t)
            /\ UNCHANGED <<mutexVars, held>>
  /\ UNCHANGED <<queue, objectVars, token, history>>

-------------------------------------------------------------------------------
\* Unlocking a mutex: hle_pthread_mutex_unlock, from the guest or as the first
\* part of a wait.

\* The mutex part of the call is over: an unlock returns, a wait goes on,
\* whatever the unlock would have answered.
Unlocked(t, what, m, c) ==
  IF what = "unlock"
    THEN Return(t)
    ELSE /\ Goto(t, "condEnqueue")
         /\ timed_out' = timed_out
         /\ op' = [op EXCEPT ![t] = what]
         /\ mutex' = [mutex EXCEPT ![t] = m]
         /\ obj' = [obj EXCEPT ![t] = c]

\* The first step looks at the recursion count only, not at the owner.
UnlockBegin(t, what, m, c) ==
  /\ "mutex" \in Uses
  /\ what \in CondOps => what \in Uses /\ CountsRecursion(m)
  /\ held[t][m] > 0 \/ ("foreign" \in Uses /\ what = "unlock")
  /\ pc[t] = "idle"
  /\ IF count[m] > 0
       THEN /\ count' = [count EXCEPT ![m] = @ - 1]
            /\ Unlocked(t, what, m, c)
            /\ IF held[t][m] > 0 THEN LetGo(t, m) ELSE held' = held
       ELSE /\ Begin(t, what, m, c, "release")
            /\ UNCHANGED <<count, timed_out, held>>
  /\ UNCHANGED <<owner, queue, objectVars, token, history>>

Release(t) ==
  LET m == mutex[t] IN
  /\ pc[t] = "release"
  /\ IF owner[m] = t
       THEN /\ owner' = [owner EXCEPT ![m] = NoOne]
            /\ Goto(t, IF CountsRecursion(m) THEN "clean" ELSE "pop")
            /\ LetGo(t, m)
            /\ UNCHANGED <<callVars, timed_out>>
       ELSE /\ Unlocked(t, op[t], m, obj[t])
            /\ UNCHANGED <<owner, held>>
  /\ UNCHANGED <<count, queue, objectVars, token, history>>

\* The recursion entry is removed after the mutex was given up.
Clean(t) ==
  /\ pc[t] = "clean"
  /\ count' = [count EXCEPT ![mutex[t]] = 0]
  /\ Goto(t, "pop")
  /\ UNCHANGED <<owner, queue, objectVars, token, callVars, timed_out, held, history>>

\* Defect: the waiter is unparked but stays in the queue.
PopKeeping(t) ==
  /\ pc[t] = "pop"
  /\ token' = token \cup (IF queue[mutex[t]] = << >> THEN {} ELSE {Head(queue[mutex[t]])})
  /\ Unlocked(t, op[t], mutex[t], obj[t])
  /\ UNCHANGED <<mutexVars, queue, objectVars, held, history>>

Pop(t) ==
  /\ pc[t] = "pop"
  /\ WakeFirst(mutex[t])
  /\ Unlocked(t, op[t], mutex[t], obj[t])
  /\ UNCHANGED <<mutexVars, objectVars, held, history>>

-------------------------------------------------------------------------------
\* Condition variables: scePthreadCond* and hle_Cnd_*.

CondEnqueue(t) ==
  /\ pc[t] = "condEnqueue"
  /\ Enqueue(t, obj[t])
  /\ Goto(t, CASE op[t] = "wait"    -> "condParked"
               [] op[t] = "timed"   -> "condTimed"
               [] op[t] = "expired" -> "condExpired")
  /\ signalled' = signalled \ {t}
  /\ elapsed' = elapsed
  /\ UNCHANGED <<mutexVars, objectVars, token, callVars, timed_out, held>>

\* park_timeout returns without a token.
Elapse(t) ==
  /\ pc[t] = "condTimed"
  /\ t \notin token
  /\ elapsed' = elapsed \cup {t}
  /\ Goto(t, "condCheck")
  /\ UNCHANGED <<mutexVars, queue, objectVars, token, callVars, timed_out, held, signalled>>

\* Defect: the answer depends on the clock, not on the queue.
CondCheckClock(t) ==
  /\ pc[t] = "condCheck"
  /\ queue' = [queue EXCEPT ![obj[t]] = RemoveFirst(@, t)]
  /\ timed_out' = IF t \in elapsed THEN timed_out \cup {t} ELSE timed_out
  /\ Goto(t, "cas")
  /\ UNCHANGED <<mutexVars, objectVars, token, callVars, held, history>>

\* A thread that is still in the queue takes itself out and answers timeout.
CondCheck(t) ==
  /\ pc[t] = "condCheck"
  /\ queue' = [queue EXCEPT ![obj[t]] = RemoveFirst(@, t)]
  /\ timed_out' = timed_out \cup ({t} \cap ToSet(queue[obj[t]]))
  /\ Goto(t, "cas")
  /\ UNCHANGED <<mutexVars, objectVars, token, callVars, held, history>>

\* A timeout in the past is answered whether or not a signal came.
CondExpired(t) ==
  /\ pc[t] = "condExpired"
  /\ queue' = [queue EXCEPT ![obj[t]] = RemoveFirst(@, t)]
  /\ timed_out' = timed_out \cup {t}
  /\ elapsed' = elapsed \cup {t}
  /\ Goto(t, "cas")
  /\ UNCHANGED <<mutexVars, objectVars, token, callVars, held, signalled>>

\* The threads in a wait on c that still look at its queue.
Waiting(c) ==
  {u \in Threads : /\ obj[u] = c
                   /\ pc[u] \in {"condParked", "condTimed", "condCheck", "condExpired"}}

CondSignal(t, c) ==
  /\ pc[t] = "idle"
  /\ WakeFirst(c)
  /\ signalled' = signalled \cup {u \in Waiting(c) : queue[c] # << >> /\ u = Head(queue[c])}
  /\ UNCHANGED <<mutexVars, objectVars, pc, callVars, timed_out, held, elapsed>>

CondBroadcast(t, c) ==
  /\ pc[t] = "idle"
  /\ WakeMany(c, Len(queue[c]))
  /\ signalled' = signalled \cup (ToSet(queue[c]) \cap Waiting(c))
  /\ UNCHANGED <<mutexVars, objectVars, pc, callVars, timed_out, held, elapsed>>

\* hle_Cnd_destroy, which the guest calls when no thread waits any more.
CondDestroy(t, c) ==
  /\ pc[t] = "idle"
  /\ \A u \in Threads : pc[u] # "idle" => obj[u] # c
  /\ queue' = [queue EXCEPT ![c] = << >>]
  /\ UNCHANGED <<mutexVars, objectVars, token, pc, callVars, timed_out, held, history>>

-------------------------------------------------------------------------------
\* Semaphores: each call is one critical section of SEMAPHORES.

\* Initialising and destroying (which leaves 0) a semaphore nobody waits on.
SemInit(t, s, v) ==
  /\ "sem" \in Uses
  /\ pc[t] = "idle"
  /\ \A u \in Threads : pc[u] # "idle" => obj[u] # s
  /\ value' = [value EXCEPT ![s] = v]
  /\ queue' = [queue EXCEPT ![s] = << >>]
  /\ Return(t)
  /\ UNCHANGED <<mutexVars, word, token, held, history>>

SemBegin(t, s) ==
  /\ "sem" \in Uses
  /\ Begin(t, "sem", None, s, "semTry")
  /\ UNCHANGED <<mutexVars, queue, objectVars, token, timed_out, held, history>>

SemTry(t) ==
  LET s == obj[t] IN
  /\ pc[t] = "semTry"
  /\ IF value[s] > 0
       THEN /\ value' = [value EXCEPT ![s] = @ - 1]
            /\ Return(t)
            /\ queue' = queue
       ELSE /\ Enqueue(t, s)
            /\ Goto(t, "semParked")
            /\ UNCHANGED <<value, callVars, timed_out>>
  /\ UNCHANGED <<mutexVars, word, token, held, history>>

\* Defect: a thread is woken only when the semaphore was empty.
SemPostOnZero(t, s) ==
  /\ "sem" \in Uses
  /\ pc[t] = "idle"
  /\ value[s] < MaxPosts
  /\ value' = [value EXCEPT ![s] = @ + 1]
  /\ IF value[s] = 0 THEN WakeFirst(s) ELSE UNCHANGED <<queue, token>>
  /\ Return(t)
  /\ UNCHANGED <<mutexVars, word, held, history>>

SemPost(t, s) ==
  /\ "sem" \in Uses
  /\ pc[t] = "idle"
  /\ value[s] < MaxPosts
  /\ value' = [value EXCEPT ![s] = @ + 1]
  /\ WakeFirst(s)
  /\ Return(t)
  /\ UNCHANGED <<mutexVars, word, held, history>>

-------------------------------------------------------------------------------
\* Futex words: UMTX_OP_WAIT and UMTX_OP_WAKE.  The guest waits for a word to
\* leave 0; it stores 1 and then wakes the waiters, or stores 0.

WordWait(t, w) ==
  /\ "umtx" \in Uses
  /\ pc[t] = "idle"
  /\ IF word[w] = 0
       THEN Begin(t, "umtx", None, w, "wordEnqueue") /\ timed_out' = timed_out
       ELSE Return(t)
  /\ UNCHANGED <<mutexVars, queue, objectVars, token, held, history>>

WordEnqueue(t) ==
  /\ pc[t] = "wordEnqueue"
  /\ Enqueue(t, obj[t])
  /\ Goto(t, "wordParked")
  /\ UNCHANGED <<mutexVars, objectVars, token, callVars, timed_out, held, history>>

WordStore(t, w, v) ==
  /\ "umtx" \in Uses
  /\ IF v = 1
       THEN Begin(t, "umtx", None, w, "stored")
       ELSE pc[t] = "idle" /\ UNCHANGED <<pc, callVars>>
  /\ word' = [word EXCEPT ![w] = v]
  /\ UNCHANGED <<mutexVars, queue, value, token, timed_out, held, history>>

WordWake(t, n) ==
  LET w == obj[t] IN
  /\ pc[t] = "stored"
  /\ WakeMany(w, Min({n, Len(queue[w])}))
  /\ Return(t)
  /\ UNCHANGED <<mutexVars, objectVars, held, history>>

-------------------------------------------------------------------------------
\* Where a thread goes on when park returns.  Only the timed wait looks
\* whether it was meant; the lock and the semaphore loop, the others return.
AfterPark ==
  [lockParked |-> "cas", condParked |-> "cas", condTimed |-> "condCheck",
   semParked |-> "semTry", wordParked |-> "idle"]

\* park returns and takes the token.
Resume(t) ==
  /\ pc[t] \in Parked
  /\ t \in token
  /\ token' = token \ {t}
  /\ IF AfterPark[pc[t]] = "idle"
       THEN Return(t)
       ELSE Goto(t, AfterPark[pc[t]]) /\ UNCHANGED <<callVars, timed_out>>
  /\ UNCHANGED <<mutexVars, queue, objectVars, held, history>>

\* The calls on mutexes, and on read-write locks, which are the same words: a reader
\* locks, and a timed call waits for as long as it takes.
MutexStep(t) ==
  \/ \E m \in Mutexes :
       \/ LockBegin(t, m)
       \/ TryLock(t, m)
       \/ UnlockBegin(t, "unlock", m, None)
       \/ \E what \in CondOps, c \in Conds : UnlockBegin(t, what, m, c)
  \/ Acquire(t) \/ Contend(t) \/ LockEnqueue(t)
  \/ Release(t) \/ Clean(t) \/ Pop(t)

\* Those of the two libraries do the same, but that only one of them has timeouts.
CondStep(t) ==
  \/ CondEnqueue(t) \/ Elapse(t) \/ CondCheck(t) \/ CondExpired(t)
  \/ \E c \in Conds : CondSignal(t, c) \/ CondBroadcast(t, c) \/ CondDestroy(t, c)

SemStep(t) ==
  \/ \E s \in Sems :
       \/ \E v \in 0 .. MaxPosts : SemInit(t, s, v)
       \/ SemBegin(t, s)
       \/ SemPost(t, s)
  \/ SemTry(t)

WordStep(t) ==
  \/ \E w \in Words : WordWait(t, w) \/ \E v \in {0, 1} : WordStore(t, w, v)
  \/ WordEnqueue(t)
  \/ \E n \in WakeCounts : WordWake(t, n)

Next == \E t \in Threads : MutexStep(t) \/ CondStep(t) \/ SemStep(t) \/ WordStep(t) \/ Resume(t)

Spec == Init /\ [][Next]_vars

\* The host runs a thread whose token is set, and one inside a critical section.
FairSpec == Spec /\ \A t \in Threads : WF_vars(Resume(t)) /\ WF_vars(SemTry(t))

-------------------------------------------------------------------------------
\* Two threads are never told they hold one mutex at the same time, across the
\* compare-and-swap, the waits that give the mutex up and take it again, and
\* the unlock's four steps (hle_pthread_mutex_lock and unlock).
MutualExclusion ==
  \A m \in Mutexes, t, u \in Threads :
    held[t][m] > 0 /\ held[u][m] > 0 => t = u

ParkedOn(t, o) ==
  \/ /\ pc[t] = "lockParked"
     /\ mutex[t] = o
  \/ /\ pc[t] \in Parked \ {"lockParked"}
     /\ obj[t] = o

\* A thread that parks can always be found by whoever should wake it: it is
\* still in its object's queue, or its token is set.  No order of wakeups,
\* timeouts, left-over tokens and duplicate entries makes it unreachable.
SleeperIsReachable ==
  \A t \in Threads, o \in Objects :
    ParkedOn(t, o) => t \in ToSet(queue[o]) \/ t \in token

\* Without timed waits every wakeup goes to a thread that waits for exactly
\* that: tokens are set only for parked threads, a queue lists only the threads
\* parked on it or about to be, none of them woken already and none twice.
NoStrayWakeup ==
  /\ \A t \in token : pc[t] \in Parked
  /\ \A o \in Objects :
       /\ IsInjective(queue[o])
       /\ \A t \in ToSet(queue[o]) : ParkedOn(t, o) /\ t \notin token

\* Semaphores: while threads sleep in the queue, as many woken ones as there
\* are units left are on their way; so no unit lies idle in front of a sleeper.
SemUnitsHaveTakers ==
  \A s \in Sems :
    queue[s] # << >> =>
      value[s] <= Cardinality({t \in Threads :
        obj[t] = s /\ (pc[t] = "semTry" \/ (pc[t] = "semParked" /\ t \in token))})

\* Wakeups go where they are owed: none to a thread that does not wait for it, and for
\* every unit in front of a sleeper one is under way.
WakeupsAreOwed == NoStrayWakeup /\ SemUnitsHaveTakers

\* A timed wait whose thread a signal took out of the queue answers success,
\* even when its timeout elapsed before it could run (hle_Cnd_timedwait looks
\* at the queue, not at the clock): no signal is spent on a wait that failed.
SignalledWaitSucceeds ==
  [][\A t \in Threads :
       pc[t] = "condCheck" /\ pc'[t] = "cas" /\ t \in signalled
         => t \notin timed_out']_vars

\* Timed waits: whoever sleeps can be found, and a signal is not spent on a wait that
\* answers timeout.
TimedWaitsAreSound == []SleeperIsReachable /\ SignalledWaitSucceeds

\* "Global thread-safe wait queue for futex synchronization" (WAIT_QUEUE): no
\* thread sleeps on a mutex that is free unless an unlock is still to pop the
\* queue, or a woken thread to try the mutex.
NoSleeperOnFreeMutex ==
  \A m \in Mutexes :
    owner[m] = NoOne /\ (\E t \in Threads : ParkedOn(t, m) /\ t \notin token)
      => \E u \in Threads :
           /\ mutex[u] = m
           /\ \/ pc[u] \in {"cas", "clean", "pop"}
              \/ (pc[u] = "lockParked" /\ u \in token)

\* Units and sleepers do not stay together for ever: the threads woken by the
\* posts take the units, or the sleepers have all been woken.
UnitsReachSleepers ==
  \A s \in Sems :
    (value[s] > 0 /\ queue[s] # << >>) ~> (value[s] = 0 \/ queue[s] = << >>)

-------------------------------------------------------------------------------
\* What comments of kernel.rs say and the code does not keep, once the guest
\* uses locks in the ways each of these is about.

\* "Check if we are still in the wait queue. If we are, it means we timed out"
\* (hle_Cnd_timedwait): a wait answers timeout only once its time is over.
TimedOutMeansElapsed ==
  [][\A t \in Threads :
       pc[t] = "condCheck" /\ pc'[t] = "cas" /\ t \in timed_out' => t \in elapsed]_vars

\* "Release the mutex before waiting" (scePthreadCondWait): a thread asleep on
\* a condition variable does not own the mutex it came with.
MutexReleasedWhileWaiting ==
  \A t \in Threads : pc[t] \in {"condParked", "condTimed"} => owner[mutex[t]] # t

\* "Check if it's a recursive lock held by current thread"
\* (hle_pthread_mutex_unlock): the recursion count of a mutex goes down only
\* when its owner gives up a level.
OnlyOwnerLowersCount ==
  [][\A m \in Mutexes, t \in Threads :
       owner[m] = t /\ count'[m] < count[m] => held'[t][m] < held[t][m]]_vars

\* "Global thread-safe wait queue for futex synchronization" (WAIT_QUEUE): no
\* thread sleeps in UMTX_OP_WAIT on a word that has changed unless the thread
\* that changed it has not called UMTX_OP_WAKE yet.
NoSleeperOnChangedWord ==
  \A w \in Words, t \in Threads :
    ParkedOn(t, w) /\ t \notin token /\ word[w] # 0
      => \E u \in Threads : pc[u] = "stored" /\ obj[u] = w
===============================================================================
