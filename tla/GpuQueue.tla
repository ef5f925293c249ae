------------------------------- MODULE GpuQueue -------------------------------
(***************************************************************************)
(* GPU command rings and their command processors (src/src/gpu_queue.rs).  *)
(*                                                                         *)
(* The guest writes packets into a ring in its own memory and publishes the*)
(* write pointer.  Each queue has a host thread that waits for a doorbell  *)
(* or 10 ms, copies the words between the pointers, publishes the read     *)
(* pointer and then decodes what it copied, all of it under the lock of the*)
(* queue's condition variable.  Creation, doorbells and shutdown share     *)
(* three maps with a lock each.  A packet is one ring slot here.  The flag *)
(* the condition variable guards is written but never read; it is left out.*)
(***************************************************************************)
EXTENDS Integers, Sequences

CONSTANTS
  Guests,      \* guest threads that create queues, ring doorbells, shut down
  MaxQueues,   \* bound: queues created in one behaviour
  Cap,         \* dword_capacity: slots of a ring
  MaxPackets,  \* bound: packets submitted to one queue
  Free         \* nobody holds a lock

ASSUME RingAssumption == Cap \in Nat /\ Cap > 1
ASSUME GpuBounds == MaxQueues \in Nat /\ MaxPackets \in Nat
ASSUME FreeAssumption == Free \notin Guests

VARIABLES
  ring,        \* each queue's ring, in guest memory
  wptr,        \* its write pointer, in guest memory
  rptr,        \* its read pointer, in guest memory
  active,      \* CommandProcessor.active
  cp,          \* where each command processor's thread is
  bell,        \* queues whose condition variable was notified
  lrptr,       \* the thread's local rptr
  lwptr,       \* the thread's local wptr
  buffer,      \* packet_buffer: the words copied
  processors,  \* COMMAND_PROCESSORS
  doorbells,   \* DOORBELL_MAP: the queues with a doorbell
  condvars,    \* COND_VARS: the queues with a condition variable
  dmLock,      \* who holds the lock of DOORBELL_MAP across steps
  cvLock,      \* who holds the lock of COND_VARS across steps
  next,        \* NEXT_QUEUE_ID
  gpc,         \* where each guest thread is
  gq,          \* the queue its call is about
  submitted,   \* history: packets submitted to each queue
  executed     \* history: packets decoded from each queue

ringVars  == <<ring, wptr, rptr>>
cpVars    == <<cp, bell, lrptr, lwptr, buffer>>
mapVars   == <<processors, doorbells, condvars>>
lockVars  == <<dmLock, cvLock>>
guestVars == <<next, gpc, gq>>
vars == <<ringVars, active, cpVars, mapVars, lockVars, guestVars, submitted, executed>>

Queues == 1 .. MaxQueues
Slots  == 0 .. Cap - 1
Words  == 0 .. MaxPackets

RingOK ==
  /\ ring \in [Queues -> [Slots -> Words]]
  /\ wptr \in [Queues -> Slots] /\ rptr \in [Queues -> Slots]
  /\ submitted \in [Queues -> Seq(Words)]

ProcessorOK ==
  /\ active \in [Queues -> BOOLEAN]
  /\ cp \in [Queues -> {"none", "looping", "waiting", "copying", "dispatching", "exited"}]
  /\ bell \in [Queues -> BOOLEAN]
  /\ lrptr \in [Queues -> Slots] /\ lwptr \in [Queues -> Slots]
  /\ buffer \in [Queues -> Seq(Words)] /\ executed \in [Queues -> Seq(Words)]

RegistryOK ==
  /\ processors \subseteq Queues /\ doorbells \subseteq Queues /\ condvars \subseteq Queues
  /\ dmLock \in Guests \cup {Free} /\ cvLock \in Guests \cup {Free}

GuestOK ==
  /\ next \in 0 .. MaxQueues
  /\ gpc \in [Guests -> {"idle", "addDoorbell", "addCondvar", "spawn", "bellMap",
                         "bellPair", "clearDoorbells", "clearCondvars"}]
  /\ gq \in [Guests -> 0 .. MaxQueues]

TypeOK == RingOK /\ ProcessorOK /\ RegistryOK /\ GuestOK

Init ==
  /\ ring = [q \in Queues |-> [s \in Slots |-> 0]]
  /\ wptr = [q \in Queues |-> 0] /\ rptr = [q \in Queues |-> 0]
  /\ active = [q \in Queues |-> FALSE]
  /\ cp = [q \in Queues |-> "none"]
  /\ bell = [q \in Queues |-> FALSE]
  /\ lrptr = [q \in Queues |-> 0] /\ lwptr = [q \in Queues |-> 0]
  /\ buffer = [q \in Queues |-> << >>]
  /\ processors = {} /\ doorbells = {} /\ condvars = {}
  /\ dmLock = Free /\ cvLock = Free
  /\ next = 0
  /\ gpc = [g \in Guests |-> "idle"]
  /\ gq = [g \in Guests |-> 0]
  /\ submitted = [q \in Queues |-> << >>] /\ executed = [q \in Queues |-> << >>]

GoTo(g, where) == gpc' = [gpc EXCEPT ![g] = where]
Return(g)      == GoTo(g, "idle") /\ gq' = [gq EXCEPT ![g] = 0]
Run(q, where)  == cp' = [cp EXCEPT ![q] = where]

-------------------------------------------------------------------------------
\* CommandProcessor::new registers the queue in one map after the other.

AddProcessor(g) ==
  /\ gpc[g] = "idle"
  /\ next < MaxQueues
  /\ next' = next + 1
  /\ active' = [active EXCEPT ![next + 1] = TRUE]
  /\ processors' = processors \cup {next + 1}
  /\ GoTo(g, "addDoorbell")
  /\ gq' = [gq EXCEPT ![g] = next + 1]
  /\ UNCHANGED <<ringVars, cpVars, doorbells, condvars, lockVars, submitted, executed>>

AddDoorbell(g) ==
  /\ gpc[g] = "addDoorbell"
  /\ dmLock = Free
  /\ doorbells' = doorbells \cup {gq[g]}
  /\ GoTo(g, "addCondvar")
  /\ UNCHANGED <<ringVars, active, cpVars, processors, condvars, lockVars, next, gq, submitted, executed>>

\* Defect: the condition variable map is locked first, and the doorbell added
\* while it is held.
AddCondvarHolding(g) ==
  /\ gpc[g] = "addCondvar"
  /\ \/ /\ cvLock = Free
        /\ cvLock' = g
        /\ UNCHANGED <<condvars, gpc>>
     \/ /\ cvLock = g
        /\ dmLock = Free
        /\ cvLock' = Free
        /\ condvars' = condvars \cup {gq[g]}
        /\ GoTo(g, "spawn")
  /\ UNCHANGED <<ringVars, active, cpVars, processors, doorbells, dmLock, next, gq, submitted, executed>>

AddCondvar(g) ==
  /\ gpc[g] = "addCondvar"
  /\ cvLock = Free
  /\ condvars' = condvars \cup {gq[g]}
  /\ GoTo(g, "spawn")
  /\ UNCHANGED <<ringVars, active, cpVars, processors, doorbells, lockVars, next, gq, submitted, executed>>

SpawnThread(g) ==
  /\ gpc[g] = "spawn"
  /\ Run(gq[g], "looping")
  /\ Return(g)
  /\ UNCHANGED <<ringVars, active, bell, lrptr, lwptr, buffer, mapVars, lockVars, next, submitted, executed>>

\* The guest writes a packet into a free slot and then the write pointer.
Submit(q) ==
  LET n == Len(submitted[q]) + 1 IN
  /\ cp[q] # "none"
  /\ n <= MaxPackets
  /\ (wptr[q] + 1) % Cap # rptr[q]
  /\ ring' = [ring EXCEPT ![q][wptr[q]] = n]
  /\ wptr' = [wptr EXCEPT ![q] = (@ + 1) % Cap]
  /\ submitted' = [submitted EXCEPT ![q] = Append(@, n)]
  /\ UNCHANGED <<rptr, active, cpVars, mapVars, lockVars, guestVars, executed>>

-------------------------------------------------------------------------------
\* trigger_doorbell holds both maps while it waits for the queue's lock, which
\* the command processor holds from its wakeup to the end of the decoding.

Busy(q) == cp[q] \in {"copying", "dispatching"}

BellBegin(g, q) ==
  /\ gpc[g] = "idle"
  /\ dmLock = Free
  /\ q \in doorbells
  /\ dmLock' = g
  /\ GoTo(g, "bellMap")
  /\ gq' = [gq EXCEPT ![g] = q]
  /\ UNCHANGED <<ringVars, active, cpVars, mapVars, cvLock, next, submitted, executed>>

BellMap(g) ==
  /\ gpc[g] = "bellMap"
  /\ cvLock = Free
  /\ IF gq[g] \in condvars
       THEN /\ cvLock' = g
            /\ GoTo(g, "bellPair")
            /\ UNCHANGED <<dmLock, gq>>
       ELSE /\ dmLock' = Free
            /\ cvLock' = cvLock
            /\ Return(g)
  /\ UNCHANGED <<ringVars, active, cpVars, mapVars, next, submitted, executed>>

\* A notification nobody waits for is lost.
BellNotify(g) ==
  LET q == gq[g] IN
  /\ gpc[g] = "bellPair"
  /\ ~Busy(q)
  /\ bell' = [bell EXCEPT ![q] = cp[q] = "waiting"]
  /\ dmLock' = Free /\ cvLock' = Free
  /\ Return(g)
  /\ UNCHANGED <<ringVars, active, cp, lrptr, lwptr, buffer, mapVars, next, submitted, executed>>

-------------------------------------------------------------------------------
\* shutdown_all_queues

Shutdown(g) ==
  /\ gpc[g] = "idle"
  /\ active' = [q \in Queues |-> active[q] /\ q \notin processors]
  /\ processors' = {}
  /\ GoTo(g, "clearDoorbells")
  /\ UNCHANGED <<ringVars, cpVars, doorbells, condvars, lockVars, next, gq, submitted, executed>>

ClearDoorbells(g) ==
  /\ gpc[g] = "clearDoorbells"
  /\ dmLock = Free
  /\ doorbells' = {}
  /\ GoTo(g, "clearCondvars")
  /\ UNCHANGED <<ringVars, active, cpVars, processors, condvars, lockVars, next, gq, submitted, executed>>

ClearCondvars(g) ==
  /\ gpc[g] = "clearCondvars"
  /\ cvLock = Free
  /\ condvars' = {}
  /\ Return(g)
  /\ UNCHANGED <<ringVars, active, cpVars, processors, doorbells, lockVars, next, submitted, executed>>

-------------------------------------------------------------------------------
\* The command processor's loop

cpFrame == <<wptr, ring, active, mapVars, lockVars, guestVars, submitted>>

LoopTop(q) ==
  /\ cp[q] = "looping"
  /\ Run(q, IF active[q] THEN "waiting" ELSE "exited")
  /\ UNCHANGED <<bell, rptr, lrptr, lwptr, buffer, executed, cpFrame>>

\* The thread wakes with the lock and looks at the pointers.
Look(q) ==
  /\ cp[q] = "waiting"
  /\ bell' = [bell EXCEPT ![q] = FALSE]
  /\ lwptr' = [lwptr EXCEPT ![q] = wptr[q]]
  /\ lrptr' = [lrptr EXCEPT ![q] = rptr[q]]
  /\ Run(q, IF wptr[q] = rptr[q] THEN "looping" ELSE "copying")
  /\ UNCHANGED <<rptr, buffer, executed, cpFrame>>

WakeNotified(q) == bell[q] /\ Look(q)

\* Defect: the wait has no timeout.
NoTimeout(q) == FALSE

WakeTimeout(q) == ~bell[q] /\ Look(q)

Copy(q) ==
  /\ cp[q] = "copying"
  /\ lrptr[q] # lwptr[q]
  /\ buffer' = [buffer EXCEPT ![q] = Append(@, ring[q][lrptr[q]])]
  /\ lrptr' = [lrptr EXCEPT ![q] = (@ + 1) % Cap]
  /\ UNCHANGED <<cp, bell, rptr, lwptr, executed, cpFrame>>

\* Defect: the read pointer published is the write pointer of now.
PublishCurrent(q) ==
  /\ cp[q] = "copying"
  /\ lrptr[q] = lwptr[q]
  /\ rptr' = [rptr EXCEPT ![q] = wptr[q]]
  /\ Run(q, "dispatching")
  /\ UNCHANGED <<bell, lrptr, lwptr, buffer, executed, cpFrame>>

\* The read pointer is published before anything is decoded.
Publish(q) ==
  /\ cp[q] = "copying"
  /\ lrptr[q] = lwptr[q]
  /\ rptr' = [rptr EXCEPT ![q] = lrptr[q]]
  /\ Run(q, "dispatching")
  /\ UNCHANGED <<bell, lrptr, lwptr, buffer, executed, cpFrame>>

\* decode_pm4_command_buffer reads from the copy.
Decode(q) ==
  /\ cp[q] = "dispatching"
  /\ buffer[q] # << >>
  /\ executed' = [executed EXCEPT ![q] = Append(@, Head(buffer[q]))]
  /\ buffer' = [buffer EXCEPT ![q] = Tail(@)]
  /\ UNCHANGED <<cp, bell, rptr, lrptr, lwptr, cpFrame>>

EndIteration(q) ==
  /\ cp[q] = "dispatching"
  /\ buffer[q] = << >>
  /\ Run(q, "looping")
  /\ UNCHANGED <<bell, rptr, lrptr, lwptr, buffer, executed, cpFrame>>

-------------------------------------------------------------------------------
Processor(q) ==
  \/ LoopTop(q) \/ WakeNotified(q) \/ WakeTimeout(q)
  \/ Copy(q) \/ Publish(q) \/ Decode(q) \/ EndIteration(q)

Guest(g) ==
  \/ AddProcessor(g) \/ AddDoorbell(g) \/ AddCondvar(g) \/ SpawnThread(g)
  \/ \E q \in Queues : BellBegin(g, q)
  \/ BellMap(g) \/ BellNotify(g)
  \/ Shutdown(g) \/ ClearDoorbells(g) \/ ClearCondvars(g)

Next ==
  \/ \E q \in Queues : Submit(q) \/ Processor(q)
  \/ \E g \in Guests : Guest(g)

Spec == Init /\ [][Next]_vars

\* The host schedules each command processor; its wait ends after 10 ms.
FairSpec == Spec /\ \A q \in Queues : WF_vars(Processor(q))

-------------------------------------------------------------------------------
\* A command ring is a reliable FIFO channel from the guest to the decoder
\* (EventChannel): exactly the packets submitted are executed, in order, through
\* all its pointers, wraps and copies and while the guest reuses every slot that
\* the read pointer has passed (run_loop).
Stream == INSTANCE EventChannel
            WITH Events <- Words, posted <- submitted, taken <- executed

ImplementsStream == Stream!Spec

\* The threads that hold the two maps' locks never wait for each other:
\* whoever holds the doorbell map waits only for a condition-variable map that
\* its holder will give up without needing the doorbell map.
NoLockCycle ==
  \A g, h \in Guests :
    ~(/\ dmLock = g /\ gpc[g] = "bellMap" /\ cvLock = h
      /\ gpc[h] # "bellPair")

\* Every packet submitted to a queue that is not shut down is executed, with or
\* without a doorbell: notifications that find the thread busy are lost, and
\* the 10 ms poll makes up for them.
SubmissionsAreExecuted ==
  \A q \in Queues, n \in 1 .. MaxPackets :
    Len(submitted[q]) >= n ~> (Len(executed[q]) >= n \/ ~active[q])

\* After shutdown_all_queues has reached a queue, its thread ends, whatever it
\* was doing.
ShutdownEndsThread ==
  \A q \in Queues :
    (cp[q] # "none" /\ ~active[q]) ~> cp[q] = "exited"

\* A queue's thread does what it is for until it is stopped, and then stops.
QueuesAreServed == SubmissionsAreExecuted /\ ShutdownEndsThread
===============================================================================
