----------------------------- MODULE GuestThreads -----------------------------
(***************************************************************************)
(* Guest threads: creation, end and join (src/src/kernel.rs).              *)
(*                                                                         *)
(* pthread_create hands out the new id, spawns a host thread and then puts *)
(* its handle in THREAD_REGISTRY; pthread_join takes the handle out and    *)
(* waits for the host thread.  A join that finds no handle answers success *)
(* at once.  A running thread knows its id and may tell anyone to join it. *)
(* Threads made by the thr_new system call get no handle, and sys_exit     *)
(* parks its thread for good.                                              *)
(***************************************************************************)
EXTENDS Integers

CONSTANTS
  MaxThreads   \* bound: guest threads, the first of them started by the loader

ASSUME ThreadsAssumption == MaxThreads \in Nat \ {0}

VARIABLES
  next,      \* NEXT_TID: the last id handed out
  life,      \* "none", "running", "parked" or "ended"
  registry,  \* THREAD_REGISTRY: threads whose handle is there
  pc,        \* where each thread is in a call
  other,     \* the thread its call is about, 0 outside a call
  created,   \* history: threads whose creation has returned
  taken,     \* history: threads whose handle a join has taken
  early      \* history: joins that answered before the thread had ended

vars == <<next, life, registry, pc, other, created, taken, early>>

Tids == 1 .. MaxThreads

TypeOK ==
  /\ next \in Tids
  /\ life \in [Tids -> {"none", "running", "parked", "ended"}]
  /\ registry \subseteq Tids
  /\ pc \in [Tids -> {"idle", "spawn", "register", "joining"}]
  /\ other \in [Tids -> Tids \cup {0}]
  /\ created \subseteq Tids /\ taken \subseteq Tids
  /\ early \subseteq [thread : Tids, created : BOOLEAN, taken : BOOLEAN]

Init ==
  /\ next = 1
  /\ life = [t \in Tids |-> IF t = 1 THEN "running" ELSE "none"]
  /\ registry = {}
  /\ pc = [t \in Tids |-> "idle"]
  /\ other = [t \in Tids |-> 0]
  /\ created = {} /\ taken = {} /\ early = {}

Joinable(u)      == u # 1 /\ life[u] # "none"
Ready(t)         == life[t] = "running" /\ pc[t] = "idle"
Enter(t, where, u) == pc' = [pc EXCEPT ![t] = where] /\ other' = [other EXCEPT ![t] = u]
Leave(t)         == Enter(t, "idle", 0)

-------------------------------------------------------------------------------
\* The id is written to the caller's variable before anything exists.
BeginCreate(t) ==
  /\ Ready(t)
  /\ next < MaxThreads
  /\ next' = next + 1
  /\ Enter(t, "spawn", next + 1)
  /\ UNCHANGED <<life, registry, created, taken, early>>

Spawn(t) ==
  /\ pc[t] = "spawn"
  /\ life' = [life EXCEPT ![other[t]] = "running"]
  /\ Enter(t, "register", other[t])
  /\ UNCHANGED <<next, registry, created, taken, early>>

\* Defect: the handle is filed under the id of the caller.
RegisterCaller(t) ==
  /\ pc[t] = "register"
  /\ registry' = registry \cup {t}
  /\ created' = created \cup {other[t]}
  /\ Leave(t)
  /\ UNCHANGED <<next, life, taken, early>>

Register(t) ==
  /\ pc[t] = "register"
  /\ registry' = registry \cup {other[t]}
  /\ created' = created \cup {other[t]}
  /\ Leave(t)
  /\ UNCHANGED <<next, life, taken, early>>

\* The first thread has no handle; a thread that joins itself panics.
BeginJoin(t, u) ==
  /\ Ready(t)
  /\ u # t
  /\ Joinable(u)
  /\ u \in registry
  /\ registry' = registry \ {u}
  /\ taken' = taken \cup {u}
  /\ Enter(t, "joining", u)
  /\ UNCHANGED <<next, life, created, early>>

JoinMissing(t, u) ==
  /\ Ready(t)
  /\ u # t
  /\ Joinable(u)
  /\ u \notin registry
  /\ early' = IF life[u] = "ended" THEN early
              ELSE early \cup {[thread |-> u, created |-> u \in created, taken |-> u \in taken]}
  /\ UNCHANGED <<next, life, registry, pc, other, created, taken>>

EndJoin(t) ==
  /\ pc[t] = "joining"
  /\ life[other[t]] = "ended"
  /\ Leave(t)
  /\ UNCHANGED <<next, life, registry, created, taken, early>>

\* thr_new: no handle is kept.
ThrNew(t) ==
  /\ Ready(t)
  /\ next < MaxThreads
  /\ next' = next + 1
  /\ life' = [life EXCEPT ![next + 1] = "running"]
  /\ UNCHANGED <<registry, pc, other, created, taken, early>>

\* sys_exit parks the thread in a loop.
ExitProcess(t) ==
  /\ Ready(t)
  /\ life' = [life EXCEPT ![t] = "parked"]
  /\ UNCHANGED <<next, registry, pc, other, created, taken, early>>

\* The entry function returns.  The first thread ends with the process.
End(t) ==
  /\ Ready(t)
  /\ t # 1
  /\ life' = [life EXCEPT ![t] = "ended"]
  /\ UNCHANGED <<next, registry, pc, other, created, taken, early>>

-------------------------------------------------------------------------------
Thread(t) ==
  \/ BeginCreate(t) \/ Spawn(t) \/ Register(t)
  \/ \E u \in Tids : BeginJoin(t, u) \/ JoinMissing(t, u)
  \/ EndJoin(t) \/ ThrNew(t) \/ ExitProcess(t) \/ End(t)

Next == \E t \in Tids : Thread(t)

Spec == Init /\ [][Next]_vars

-------------------------------------------------------------------------------
\* A join answers before its thread has ended only if it came before the
\* creation had returned, or after another join had taken the handle: one join
\* of a thread whose creation has returned always waits (hle_pthread_join).
FirstJoinWaits == \A j \in early : j.created => j.taken

\* Two threads never wait for the same thread, and a thread that is waited for
\* has been spawned: the registry gives each handle away once.
OneWaiter ==
  \A t, u \in Tids :
    pc[t] = "joining" =>
      /\ life[other[t]] # "none"
      /\ pc[u] = "joining" /\ other[u] = other[t] => t = u

\* A thread is waited for by the first join of it and by no other
\* (hle_pthread_create, hle_pthread_join).
JoinsWaitOnce == FirstJoinWaits /\ OneWaiter

\* A join that answers success means that the thread has ended ("track spawned
\* host threads so we can join them in pthread_join").
JoinMeansEnded == early = {}
===============================================================================
