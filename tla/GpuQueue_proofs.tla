---------------------------- MODULE GpuQueue_proofs ----------------------------
(***************************************************************************)
(* Proofs about GpuQueue, for any number of guests and queues and any size *)
(* of the rings, and about CommandStream, the words that rings and         *)
(* submissions hand to a decoder, for any buffers, calls and decoders.     *)
(***************************************************************************)
EXTENDS GpuQueue, CommandStream, TLAPS, SequenceTheorems, WellFoundedInduction

\* Packets that were copied out of the ring, decoded or not.
Copied(q) == Len(executed[q]) + Len(buffer[q])

\* Packet i is the i-th that is submitted, copied and decoded; those not yet copied
\* are in the ring, each in its slot.
PacketsInv(q) ==
  /\ \A i \in 1 .. Len(submitted[q]) : submitted[q][i] = i
  /\ \A i \in 1 .. Len(executed[q]) : executed[q][i] = i
  /\ \A i \in 1 .. Len(buffer[q]) : buffer[q][i] = Len(executed[q]) + i
  /\ Copied(q) <= Len(submitted[q])
  /\ \A i \in Copied(q) .. Len(submitted[q]) - 1 : ring[q][i % Cap] = i + 1

\* What the pointers stand for: the write pointer for the packets submitted, the read
\* pointer for no more than those copied, and so never a lap behind.
PointersInv(q) ==
  /\ wptr[q] = Len(submitted[q]) % Cap
  /\ \E p \in 0 .. Copied(q) :
       /\ rptr[q] = p % Cap
       /\ Len(submitted[q]) - p < Cap
       /\ cp[q] # "copying" => p = Copied(q)
  /\ cp[q] = "copying" =>
       /\ lrptr[q] = Copied(q) % Cap
       /\ \E m \in Copied(q) .. Len(submitted[q]) : lwptr[q] = m % Cap
  /\ cp[q] \notin {"copying", "dispatching"} => buffer[q] = << >>

StreamInv == \A q \in Queues : PacketsInv(q) /\ PointersInv(q)

\* The lock of COND_VARS is held across steps only with the lock of DOORBELL_MAP.
LockInv ==
  \A g \in Guests :
    /\ dmLock = g => gpc[g] \in {"bellMap", "bellPair"}
    /\ cvLock = g <=> gpc[g] = "bellPair"
    /\ gpc[g] \in {"bellMap", "bellPair"} => dmLock = g

Creating == {"addDoorbell", "addCondvar", "spawn"}

\* A queue under construction has no thread yet and is known to its creator alone.
CreationInv ==
  /\ \A q \in Queues : q > next => cp[q] = "none"
  /\ \A g \in Guests :
       /\ gpc[g] \in {"bellMap", "bellPair"} => gq[g] \in Queues
       /\ gpc[g] \in Creating =>
            /\ gq[g] \in 1 .. next
            /\ cp[gq[g]] = "none"
            /\ \A h \in Guests : gpc[h] \in Creating /\ gq[h] = gq[g] => h = g

-------------------------------------------------------------------------------

\* Arithmetic of the ring

\* Positions in the ring are remainders.
LEMMA Division ==
  ASSUME NEW a \in Nat
  PROVE  /\ a % Cap \in 0 .. Cap - 1 /\ a \div Cap \in Nat
         /\ a = Cap * (a \div Cap) + (a % Cap)
  BY RingAssumption

\* Quotient and remainder are unique.
LEMMA DivisionUnique ==
  ASSUME NEW p \in Nat, NEW q \in Nat, NEW r \in 0 .. Cap - 1, NEW s \in 0 .. Cap - 1,
         Cap * p + r = Cap * q + s
  PROVE  p = q /\ r = s
<1>1. \A x, y \in Nat : x < y => Cap * y >= Cap * x + Cap
  <2> SUFFICES ASSUME NEW x \in Nat, NEW y \in Nat, x < y PROVE Cap * y >= Cap * x + Cap
    OBVIOUS
  <2>1. PICK d \in Nat : y = x + 1 + d
    <3>1. y - x - 1 \in Nat /\ y = x + 1 + (y - x - 1)
      OBVIOUS
    <3> QED
      BY <3>1
  <2>2. Cap * d \in Nat /\ Cap * x \in Nat
    BY RingAssumption
  <2>3. Cap * y = Cap * x + Cap + Cap * d
    BY <2>1, RingAssumption
  <2> QED
    BY <2>2, <2>3, RingAssumption
<1>2. ~(p < q)
  BY <1>1, RingAssumption
<1>3. ~(q < p)
  BY <1>1, RingAssumption
<1> QED
  BY <1>2, <1>3, RingAssumption

\* Two positions less than a lap apart that share a slot are the same.
LEMMA SameSlot ==
  ASSUME NEW a \in Nat, NEW b \in Nat, a <= b, b - a < Cap, a % Cap = b % Cap
  PROVE  a = b
<1> DEFINE p == a \div Cap
           q == b \div Cap
           r == a % Cap
<1>1. p \in Nat /\ q \in Nat /\ r \in 0 .. Cap - 1 /\ a = Cap * p + r /\ b = Cap * q + r
  BY Division
<1>2. PICK d \in 0 .. Cap - 1 : b = a + d
  <2>1. b - a \in 0 .. Cap - 1 /\ b = a + (b - a)
    BY RingAssumption
  <2> QED
    BY <2>1
<1> HIDE DEF p, q, r
<1> QED
  BY <1>1, <1>2, RingAssumption

\* Pointers are advanced slot by slot.
LEMMA NextSlot ==
  ASSUME NEW a \in Nat
  PROVE  ((a % Cap) + 1) % Cap = (a + 1) % Cap
<1> DEFINE q == a \div Cap
           r == a % Cap
           p == (a + 1) \div Cap
           s == (a + 1) % Cap
<1>1. q \in Nat /\ r \in 0 .. Cap - 1 /\ a = Cap * q + r
  BY Division
<1>2. p \in Nat /\ s \in 0 .. Cap - 1 /\ a + 1 = Cap * p + s
  BY Division
<1>3. CASE r + 1 < Cap
  <2>1. (r + 1) % Cap = r + 1
    BY <1>1, <1>3, RingAssumption
  <2>2. Cap * q + (r + 1) = Cap * p + s
    BY <1>1, <1>2, RingAssumption
  <2> HIDE DEF q, r, p, s
  <2>3. r + 1 \in 0 .. Cap - 1
    BY <1>1, <1>3, RingAssumption
  <2>4. r + 1 = s
    BY <1>1, <1>2, <2>2, <2>3, DivisionUnique
  <2> QED
    BY <2>1, <2>4 DEF r, s
<1>4. CASE r + 1 = Cap
  <2>1. (r + 1) % Cap = 0
    BY <1>1, <1>4, RingAssumption
  <2>2. Cap * (q + 1) + 0 = Cap * p + s
    BY <1>1, <1>2, <1>4, RingAssumption
  <2> HIDE DEF q, r, p, s
  <2>3. s = 0
    BY <1>1, <1>2, <2>2, DivisionUnique, RingAssumption
  <2> QED
    BY <2>1, <2>3 DEF r, s
<1> QED
  BY <1>1, <1>3, <1>4, RingAssumption
-------------------------------------------------------------------------------

\* Type correctness, one part of the state at a time.

\* The rings keep their type.
LEMMA RingTyped ==
  ASSUME TypeOK, [Next]_vars
  PROVE  RingOK'
<1> USE RingAssumption DEF RingOK, Queues, Slots, Words
<1>1. CASE UNCHANGED <<ringVars, submitted>>
  BY <1>1 DEF TypeOK, ringVars
<1>2. ASSUME NEW q \in Queues, Submit(q) PROVE RingOK'
  <2> DEFINE n == Len(submitted[q]) + 1
  <2>1. submitted[q] \in Seq(Words) /\ Len(submitted[q]) \in Nat
    BY LenProperties DEF TypeOK
  <2>2. n \in Words
    BY <1>2, <2>1, GpuBounds DEF Submit
  <2> HIDE DEF n
  <2>3. Append(submitted[q], n) \in Seq(Words)
    BY <2>1, <2>2, AppendProperties
  <2>4. wptr' \in [Queues -> Slots] /\ rptr' = rptr
    <3>1. wptr[q] + 1 \in Nat
      BY DEF TypeOK
    <3>2. (wptr[q] + 1) % Cap \in Slots
      BY <3>1, Division
    <3> QED
      BY <1>2, <3>2 DEF Submit, TypeOK
  <2>5. ring' \in [Queues -> [Slots -> Words]]
    BY <1>2, <2>2 DEF Submit, TypeOK, n
  <2> QED
    BY <1>2, <2>3, <2>4, <2>5 DEF Submit, TypeOK, n
<1>3. ASSUME NEW q \in Queues, Publish(q) PROVE RingOK'
  BY <1>3 DEF Publish, cpFrame, TypeOK, ProcessorOK
<1>4. ASSUME NEW q \in Queues, Processor(q), ~Publish(q)
      PROVE  UNCHANGED <<ringVars, submitted>>
  BY <1>4 DEF Processor, LoopTop, WakeNotified, WakeTimeout, Look, Copy, Decode, EndIteration,
              cpFrame, ringVars
<1>5. ASSUME NEW g \in Guests, Guest(g) PROVE UNCHANGED <<ringVars, submitted>>
  BY <1>5 DEF Guest, AddProcessor, AddDoorbell, AddCondvar, SpawnThread, BellBegin, BellMap,
              BellNotify, Shutdown, ClearDoorbells, ClearCondvars
<1>6. UNCHANGED vars => UNCHANGED <<ringVars, submitted>>
  BY DEF vars
<1> QED
  BY <1>1, <1>2, <1>3, <1>4, <1>5, <1>6 DEF Next

\* The command processors keep theirs.
LEMMA ProcessorTyped ==
  ASSUME TypeOK, [Next]_vars
  PROVE  ProcessorOK'
<1> USE RingAssumption DEF ProcessorOK, Queues, Slots, Words
<1>1. CASE UNCHANGED <<active, cpVars, executed>>
  BY <1>1 DEF TypeOK, cpVars
<1>2. ASSUME NEW g \in Guests,
             AddProcessor(g) \/ SpawnThread(g) \/ BellNotify(g) \/ Shutdown(g)
      PROVE  ProcessorOK'
  BY <1>2 DEF AddProcessor, SpawnThread, BellNotify, Shutdown, Run, cpVars, TypeOK
<1>3. ASSUME NEW q \in Queues, LoopTop(q) \/ Look(q) \/ Publish(q) \/ EndIteration(q)
      PROVE  ProcessorOK'
  BY <1>3 DEF LoopTop, Look, Publish, EndIteration, Run, cpFrame, TypeOK, RingOK
<1>4. ASSUME NEW q \in Queues, Copy(q) PROVE ProcessorOK'
  <2>1. buffer[q] \in Seq(Words) /\ lrptr[q] \in Slots /\ ring[q][lrptr[q]] \in Words
    BY DEF TypeOK, RingOK
  <2>2. Append(buffer[q], ring[q][lrptr[q]]) \in Seq(Words)
    BY <2>1, AppendProperties
  <2>3. buffer' \in [Queues -> Seq(Words)]
    BY <1>4, <2>2 DEF Copy, TypeOK
  <2>4. lrptr' \in [Queues -> Slots]
    BY <1>4, <2>1 DEF Copy, TypeOK
  <2> QED
    BY <1>4, <2>3, <2>4 DEF Copy, cpFrame, TypeOK
<1>5. ASSUME NEW q \in Queues, Decode(q) PROVE ProcessorOK'
  <2>1. buffer[q] \in Seq(Words) /\ executed[q] \in Seq(Words) /\ buffer[q] # << >>
    BY <1>5 DEF Decode, TypeOK
  <2>2. Tail(buffer[q]) \in Seq(Words) /\ Head(buffer[q]) \in Words
    BY <2>1, HeadTailProperties
  <2>3. Append(executed[q], Head(buffer[q])) \in Seq(Words)
    BY <2>1, <2>2, AppendProperties
  <2> QED
    BY <1>5, <2>2, <2>3 DEF Decode, cpFrame, TypeOK
<1>6. ASSUME NEW g \in Guests, Guest(g)
      PROVE  \/ UNCHANGED <<active, cpVars, executed>>
             \/ AddProcessor(g) \/ SpawnThread(g) \/ BellNotify(g) \/ Shutdown(g)
  BY <1>6 DEF Guest, AddDoorbell, AddCondvar, BellBegin, BellMap, ClearDoorbells, ClearCondvars
<1>7. ASSUME NEW q \in Queues, Submit(q) PROVE UNCHANGED <<active, cpVars, executed>>
  BY <1>7 DEF Submit
<1>8. UNCHANGED vars => UNCHANGED <<active, cpVars, executed>>
  BY DEF vars
<1> QED
  BY <1>1, <1>2, <1>3, <1>4, <1>5, <1>6, <1>7, <1>8 DEF Next, Processor, WakeNotified, WakeTimeout

\* The guest threads keep theirs.
LEMMA GuestTyped ==
  ASSUME TypeOK, [Next]_vars
  PROVE  GuestOK'
<1> USE GpuBounds DEF GuestOK, Queues
<1>1. CASE UNCHANGED guestVars
  BY <1>1 DEF TypeOK, guestVars
<1>2. ASSUME NEW g \in Guests,
             \/ AddProcessor(g) \/ AddDoorbell(g) \/ AddCondvar(g) \/ SpawnThread(g)
             \/ Shutdown(g) \/ ClearDoorbells(g) \/ ClearCondvars(g)
      PROVE  GuestOK'
  BY <1>2 DEF AddProcessor, AddDoorbell, AddCondvar, SpawnThread, Shutdown, ClearDoorbells,
              ClearCondvars, GoTo, Return, TypeOK
<1>3. ASSUME NEW g \in Guests, NEW q \in Queues, BellBegin(g, q) \/ BellMap(g) \/ BellNotify(g)
      PROVE  GuestOK'
  BY <1>3 DEF BellBegin, BellMap, BellNotify, GoTo, Return, TypeOK
<1>4. ASSUME NEW q \in Queues, Processor(q) \/ Submit(q) PROVE UNCHANGED guestVars
  BY <1>4 DEF Processor, LoopTop, WakeNotified, WakeTimeout, Look, Copy, Publish, Decode,
              EndIteration, Submit, cpFrame
<1>5. ASSUME NEW g \in Guests, BellMap(g) \/ BellNotify(g) PROVE GuestOK'
  BY <1>5 DEF BellMap, BellNotify, GoTo, Return, TypeOK
<1>6. UNCHANGED vars => UNCHANGED guestVars
  BY DEF vars
<1> QED
  BY <1>1, <1>2, <1>3, <1>4, <1>5, <1>6 DEF Next, Guest

\* The tables of queues keep theirs.
LEMMA RegistryTyped ==
  ASSUME TypeOK, CreationInv, [Next]_vars
  PROVE  RegistryOK'
<1> USE GpuBounds DEF RegistryOK, Queues
<1>1. CASE UNCHANGED <<mapVars, lockVars>>
  BY <1>1 DEF TypeOK, mapVars, lockVars
<1>2. ASSUME NEW g \in Guests,
             \/ AddProcessor(g) \/ AddDoorbell(g) \/ AddCondvar(g)
             \/ Shutdown(g) \/ ClearDoorbells(g) \/ ClearCondvars(g)
      PROVE  RegistryOK'
  <2>1. CASE Shutdown(g) \/ ClearDoorbells(g) \/ ClearCondvars(g)
    BY <2>1 DEF Shutdown, ClearDoorbells, ClearCondvars, lockVars, TypeOK
  <2>3. CASE AddProcessor(g)
    <3>1. next + 1 \in Queues
      BY <2>3 DEF AddProcessor, TypeOK, GuestOK
    <3> QED
      BY <2>3, <3>1 DEF AddProcessor, lockVars, TypeOK
  <2>2. CASE AddDoorbell(g) \/ AddCondvar(g)
    <3>1. gq[g] \in Queues
      BY <2>2 DEF AddDoorbell, AddCondvar, TypeOK, GuestOK, CreationInv, Creating
    <3> QED
      BY <2>2, <3>1 DEF AddDoorbell, AddCondvar, lockVars, TypeOK
  <2> QED
    BY <1>2, <2>1, <2>2, <2>3
<1>3. ASSUME NEW g \in Guests, NEW q \in Queues, BellBegin(g, q) PROVE RegistryOK'
  BY <1>3 DEF BellBegin, mapVars, TypeOK
<1>4. ASSUME NEW g \in Guests, BellMap(g) \/ BellNotify(g) PROVE RegistryOK'
  BY <1>4 DEF BellMap, BellNotify, mapVars, TypeOK
<1>5. ASSUME NEW g \in Guests, SpawnThread(g) PROVE UNCHANGED <<mapVars, lockVars>>
  BY <1>5 DEF SpawnThread
<1>6. ASSUME NEW q \in Queues, Processor(q) \/ Submit(q) PROVE UNCHANGED <<mapVars, lockVars>>
  BY <1>6 DEF Processor, LoopTop, WakeNotified, WakeTimeout, Look, Copy, Publish, Decode,
              EndIteration, Submit, cpFrame
<1>7. UNCHANGED vars => UNCHANGED <<mapVars, lockVars>>
  BY DEF vars
<1> QED
  BY <1>1, <1>2, <1>3, <1>4, <1>5, <1>6, <1>7 DEF Next, Guest

\* A queue under construction stays its creator's.
LEMMA CreationStep ==
  ASSUME TypeOK, CreationInv, [Next]_vars
  PROVE  CreationInv'
<1> USE DEF TypeOK, GuestOK, ProcessorOK, Creating, Queues
<1>1. CASE UNCHANGED <<cp, guestVars>>
  BY <1>1 DEF CreationInv, guestVars
<1>2. ASSUME NEW g \in Guests, AddProcessor(g) PROVE CreationInv'
  BY <1>2, GpuBounds DEF AddProcessor, GoTo, cpVars, CreationInv

\* A guest that starts no creation and keeps its queue while it is in one.
<1>3. ASSUME NEW g \in Guests, UNCHANGED <<next, cp>>,
             \A h \in Guests \ {g} : gpc'[h] = gpc[h] /\ gq'[h] = gq[h],
             gpc'[g] \in {"bellMap", "bellPair"} => gq'[g] \in Queues,
             gpc'[g] \in Creating => gpc[g] \in Creating /\ gq'[g] = gq[g]
      PROVE  CreationInv'
  <2> HIDE DEF TypeOK, GuestOK, ProcessorOK, Creating, Queues
  <2>1. \A h \in Guests : gpc'[h] \in Creating => gpc[h] \in Creating /\ gq'[h] = gq[h]
    BY <1>3
  <2>2. \A h \in Guests : gpc'[h] \in {"bellMap", "bellPair"} => gq'[h] \in Queues
    BY <1>3 DEF CreationInv
  <2> QED
    BY <1>3, <2>1, <2>2 DEF CreationInv, Queues
<1>4. ASSUME NEW g \in Guests, SpawnThread(g) PROVE CreationInv'
  BY <1>4 DEF SpawnThread, Run, GoTo, Return, CreationInv
<1>5. ASSUME NEW g \in Guests,
             \/ AddDoorbell(g) \/ AddCondvar(g)
             \/ Shutdown(g) \/ ClearDoorbells(g) \/ ClearCondvars(g)
      PROVE  CreationInv'
  <2>2. CASE ClearCondvars(g)
    BY <1>3, <2>2 DEF ClearCondvars, GoTo, Return, cpVars
  <2>3. CASE AddDoorbell(g) \/ AddCondvar(g)
    BY <1>3, <2>3 DEF AddDoorbell, AddCondvar, GoTo, cpVars
  <2>4. CASE Shutdown(g) \/ ClearDoorbells(g)
    BY <1>3, <2>4 DEF Shutdown, ClearDoorbells, GoTo, cpVars
  <2> QED
    BY <1>5, <2>2, <2>3, <2>4
<1>6. ASSUME NEW g \in Guests, (\E q \in Queues : BellBegin(g, q)) \/ BellMap(g) \/ BellNotify(g)
      PROVE  CreationInv'
  <2>1. CASE \E q \in Queues : BellBegin(g, q)
    BY <1>3, <2>1 DEF BellBegin, GoTo, cpVars
  <2>2. CASE BellMap(g)
    <3>1. CASE GoTo(g, "bellPair") /\ UNCHANGED gq
      BY <1>3, <2>2, <3>1 DEF BellMap, GoTo, cpVars, CreationInv
    <3>2. CASE Return(g)
      BY <1>3, <2>2, <3>2 DEF BellMap, GoTo, Return, cpVars
    <3> QED
      BY <2>2, <3>1, <3>2 DEF BellMap
  <2>3. CASE BellNotify(g)
    BY <1>3, <2>3 DEF BellNotify, GoTo, Return, cpVars
  <2> QED
    BY <1>6, <2>1, <2>2, <2>3
<1>7. ASSUME NEW q \in Queues, Processor(q) PROVE CreationInv'
  <2>1. /\ UNCHANGED guestVars
        /\ cp[q] # "none"
        /\ \A r \in Queues : r # q => cp'[r] = cp[r]
    BY <1>7 DEF Processor, LoopTop, WakeNotified, WakeTimeout, Look, Copy, Publish, Decode,
                EndIteration, Run, cpFrame
  <2> QED
    BY <2>1, GpuBounds DEF CreationInv, guestVars
<1>8. ASSUME NEW q \in Queues, Submit(q) PROVE UNCHANGED <<cp, guestVars>>
  BY <1>8 DEF Submit, cpVars
<1>9. UNCHANGED vars => UNCHANGED <<cp, guestVars>>
  BY DEF vars, cpVars
<1> QED
  BY <1>1, <1>2, <1>3, <1>4, <1>5, <1>6, <1>7, <1>8, <1>9 DEF Next, Guest

\* Every step keeps the order of the locks.
LEMMA LockStep ==
  ASSUME TypeOK, LockInv, [Next]_vars
  PROVE  LockInv'
<1> USE FreeAssumption DEF TypeOK, GuestOK
<1>1. CASE UNCHANGED <<gpc, lockVars>>
  BY <1>1 DEF LockInv, lockVars
<1>2. ASSUME NEW g \in Guests,
             \/ AddProcessor(g) \/ AddDoorbell(g) \/ AddCondvar(g) \/ SpawnThread(g)
             \/ Shutdown(g) \/ ClearDoorbells(g) \/ ClearCondvars(g)
      PROVE  LockInv'
  BY <1>2 DEF AddProcessor, AddDoorbell, AddCondvar, SpawnThread, Shutdown, ClearDoorbells,
              ClearCondvars, GoTo, Return, lockVars, LockInv
<1>3. ASSUME NEW g \in Guests, NEW q \in Queues, BellBegin(g, q) PROVE LockInv'
  BY <1>3 DEF BellBegin, GoTo, LockInv
<1>4. ASSUME NEW g \in Guests, BellMap(g) PROVE LockInv'
  BY <1>4 DEF BellMap, GoTo, Return, LockInv
<1>5. ASSUME NEW g \in Guests, BellNotify(g) PROVE LockInv'
  BY <1>5 DEF BellNotify, GoTo, Return, LockInv
<1>6. ASSUME NEW q \in Queues, Processor(q) \/ Submit(q) PROVE UNCHANGED <<gpc, lockVars>>
  BY <1>6 DEF Processor, LoopTop, WakeNotified, WakeTimeout, Look, Copy, Publish, Decode,
              EndIteration, Submit, cpFrame, guestVars
<1>7. UNCHANGED vars => UNCHANGED <<gpc, lockVars>>
  BY DEF vars, guestVars
<1> QED
  BY <1>1, <1>2, <1>3, <1>4, <1>5, <1>6, <1>7 DEF Next, Guest

\* Type correctness of the rings and their processors; with it, a queue gets its thread
\* once, from the guest that created it.
THEOREM TypeCorrect == Spec => [](TypeOK /\ CreationInv)
<1>1. Init => TypeOK /\ CreationInv
  <2> SUFFICES ASSUME Init PROVE TypeOK /\ CreationInv
    OBVIOUS
  <2> USE RingAssumption, GpuBounds DEF Init, Queues, Slots, Words
  <2>1. RingOK
    BY DEF RingOK
  <2>2. ProcessorOK
    BY DEF ProcessorOK
  <2>3. RegistryOK /\ GuestOK
    BY DEF RegistryOK, GuestOK
  <2>4. CreationInv
    BY DEF CreationInv, Creating
  <2> QED
    BY <2>1, <2>2, <2>3, <2>4 DEF TypeOK
<1>2. TypeOK /\ CreationInv /\ [Next]_vars => (TypeOK /\ CreationInv)'
  BY RingTyped, ProcessorTyped, RegistryTyped, GuestTyped, CreationStep DEF TypeOK
<1> QED
  BY <1>1, <1>2, PTL DEF Spec

\* No order of creations, doorbells and shutdowns makes two threads wait for each
\* other's map: whoever has the condition variables needs no further lock.
THEOREM NoLockCycles == Spec => []NoLockCycle
<1>1. Init => LockInv
  <2> SUFFICES ASSUME Init, NEW g \in Guests
               PROVE  dmLock # g /\ cvLock # g /\ gpc[g] = "idle"
    BY DEF LockInv
  <2> QED
    BY FreeAssumption DEF Init
<1>2. TypeOK /\ LockInv /\ [Next]_vars => LockInv'
  BY LockStep
<1>3. LockInv => NoLockCycle
  BY DEF LockInv, NoLockCycle
<1> QED
  BY <1>1, <1>2, <1>3, TypeCorrect, PTL DEF Spec
-------------------------------------------------------------------------------

\* The ring as a stream of packets

packetVars == <<ringVars, cp, lrptr, lwptr, buffer, submitted, executed>>

\* A position one lap on shares the slot.
LEMMA NextLap ==
  ASSUME NEW a \in Nat
  PROVE  (a + Cap) % Cap = a % Cap
<1> DEFINE q == a \div Cap
           r == a % Cap
           p == (a + Cap) \div Cap
           s == (a + Cap) % Cap
<1>1. q \in Nat /\ r \in 0 .. Cap - 1 /\ a = Cap * q + r
  BY Division
<1>2. p \in Nat /\ s \in 0 .. Cap - 1 /\ a + Cap = Cap * p + s
  BY Division, RingAssumption
<1>3. Cap * (q + 1) + r = Cap * p + s
  BY <1>1, <1>2, RingAssumption
<1> HIDE DEF q, r, p, s
<1>4. r = s
  BY <1>1, <1>2, <1>3, DivisionUnique
<1> QED
  BY <1>4 DEF r, s

\* The histories and the buffer of a queue have lengths.
LEMMA Counts ==
  ASSUME TypeOK, NEW q \in Queues
  PROVE  /\ submitted[q] \in Seq(Words) /\ Len(submitted[q]) \in Nat
         /\ executed[q] \in Seq(Words) /\ Len(executed[q]) \in Nat
         /\ buffer[q] \in Seq(Words) /\ Len(buffer[q]) \in Nat
         /\ Copied(q) \in Nat
<1>1. submitted[q] \in Seq(Words) /\ executed[q] \in Seq(Words) /\ buffer[q] \in Seq(Words)
  BY DEF TypeOK, RingOK, ProcessorOK
<1>2. Len(submitted[q]) \in Nat /\ Len(executed[q]) \in Nat /\ Len(buffer[q]) \in Nat
  BY <1>1, LenProperties
<1>3. Copied(q) \in Nat
  <2> DEFINE E == Len(executed[q])
             B == Len(buffer[q])
  <2>1. Copied(q) = E + B /\ E \in Nat /\ B \in Nat
    BY <1>2 DEF Copied
  <2> HIDE DEF E, B
  <2> QED
    BY <2>1
<1> QED
  BY <1>1, <1>2, <1>3

\* A queue the step leaves alone.
LEMMA StreamFrame ==
  ASSUME NEW q \in Queues, PacketsInv(q), PointersInv(q),
         ring'[q] = ring[q], wptr'[q] = wptr[q], rptr'[q] = rptr[q], cp'[q] = cp[q],
         lrptr'[q] = lrptr[q], lwptr'[q] = lwptr[q], buffer'[q] = buffer[q],
         submitted'[q] = submitted[q], executed'[q] = executed[q]
  PROVE  PacketsInv(q)' /\ PointersInv(q)'
  BY DEF PacketsInv, PointersInv, Copied

\* The guest writes only into slots that were read.
LEMMA SubmitStep ==
  ASSUME TypeOK, NEW q \in Queues, PacketsInv(q), PointersInv(q), Submit(q)
  PROVE  PacketsInv(q)' /\ PointersInv(q)'
<1> DEFINE N == Len(submitted[q])
           C == Copied(q)
<1>1. N \in Nat /\ C \in Nat /\ C <= N
  BY Counts DEF PacketsInv
<1>2. PICK p \in 0 .. C : /\ rptr[q] = p % Cap
                          /\ N - p < Cap
                          /\ cp[q] # "copying" => p = C
  BY DEF PointersInv
<1>3. /\ submitted'[q] = Append(submitted[q], N + 1)
      /\ wptr'[q] = (wptr[q] + 1) % Cap
      /\ ring'[q] = [ring[q] EXCEPT ![wptr[q]] = N + 1]
      /\ (wptr[q] + 1) % Cap # rptr[q]
      /\ N + 1 \in Words
      /\ UNCHANGED <<rptr, cp, lrptr, lwptr, buffer, executed>>
  BY <1>1 DEF Submit, cpVars, TypeOK, RingOK, Words
<1>4. wptr[q] = N % Cap /\ N % Cap \in Slots /\ ring[q] \in [Slots -> Words]
  BY <1>1, Division DEF PointersInv, Slots, TypeOK, RingOK
<1>5. Copied(q)' = C
  BY <1>3 DEF Copied
<1>6. /\ Len(submitted'[q]) = N + 1
      /\ \A i \in 1 .. N : submitted'[q][i] = submitted[q][i]
      /\ submitted'[q][N + 1] = N + 1
  BY <1>3, Counts, AppendProperties
<1>7. (N + 1) - p < Cap
  <2>1. (N + 1) % Cap # p % Cap
    BY <1>1, <1>2, <1>3, <1>4, NextSlot
  <2>2. N + 1 # p + Cap
    BY <1>1, <1>2, <2>1, NextLap
  <2> QED
    BY <1>1, <1>2, <2>2, RingAssumption
<1>8. ASSUME NEW i \in C .. N - 1 PROVE ring'[q][i % Cap] = i + 1
  <2>1. i \in Nat /\ i <= N /\ N - i < Cap /\ i # N
    BY <1>1, <1>2, RingAssumption
  <2>2. i % Cap # N % Cap
    BY <1>1, <2>1, SameSlot
  <2>3. ring[q][i % Cap] = i + 1
    BY DEF PacketsInv
  <2>4. i % Cap \in Slots
    BY <2>1, Division DEF Slots
  <2> QED
    BY <1>3, <1>4, <2>2, <2>3, <2>4
<1>9. ring'[q][N % Cap] = N + 1
  BY <1>3, <1>4
<1> HIDE DEF N, C
<1>10. PacketsInv(q)'
  <2>1. ASSUME NEW i \in 1 .. N + 1 PROVE submitted'[q][i] = i
    <3>1. CASE i = N + 1
      BY <1>6, <3>1
    <3>2. CASE i # N + 1
      <4>1. i \in 1 .. N
        BY <1>1, <3>2
      <4> QED
        BY <1>6, <4>1 DEF PacketsInv, N
    <3> QED
      BY <3>1, <3>2
  <2>2. \A i \in C .. (N + 1) - 1 : ring'[q][i % Cap] = i + 1
    BY <1>1, <1>8, <1>9
  <2>3. C <= N + 1
    BY <1>1
  <2>4. /\ \A i \in 1 .. Len(executed'[q]) : executed'[q][i] = i
        /\ \A i \in 1 .. Len(buffer'[q]) : buffer'[q][i] = Len(executed'[q]) + i
    BY <1>3 DEF PacketsInv
  <2> QED
    BY <1>5, <1>6, <2>1, <2>2, <2>3, <2>4 DEF PacketsInv
<1>11. PointersInv(q)'
  <2>1. wptr'[q] = (N + 1) % Cap
    BY <1>1, <1>3, <1>4, NextSlot
  <2>2. \E r \in 0 .. C : rptr'[q] = r % Cap /\ (N + 1) - r < Cap /\ (cp'[q] # "copying" => r = C)
    BY <1>2, <1>3, <1>7
  <2>3. cp'[q] = "copying" => /\ lrptr'[q] = C % Cap
                              /\ \E m \in C .. N + 1 : lwptr'[q] = m % Cap
    <3>1. cp[q] = "copying" => \E m \in C .. N : lwptr[q] = m % Cap
      BY DEF PointersInv, N, C
    <3>2. C .. N \subseteq C .. N + 1
      BY <1>1
    <3> QED
      BY <1>3, <3>1, <3>2 DEF PointersInv, C
  <2>4. cp'[q] \notin {"copying", "dispatching"} => buffer'[q] = << >>
    BY <1>3 DEF PointersInv
  <2> QED
    BY <1>5, <1>6, <2>1, <2>2, <2>3, <2>4 DEF PointersInv
<1> QED
  BY <1>10, <1>11

\* What is copied is the next packet.
LEMMA CopyStep ==
  ASSUME TypeOK, NEW q \in Queues, PacketsInv(q), PointersInv(q), Copy(q)
  PROVE  PacketsInv(q)' /\ PointersInv(q)'
<1> DEFINE N == Len(submitted[q])
           C == Copied(q)
           B == Len(buffer[q])
           E == Len(executed[q])
<1>1. N \in Nat /\ C \in Nat /\ B \in Nat /\ E \in Nat /\ C = E + B /\ C <= N
  BY Counts DEF PacketsInv, Copied
<1>2. /\ cp[q] = "copying" /\ lrptr[q] # lwptr[q]
      /\ lrptr[q] = C % Cap
      /\ buffer'[q] = Append(buffer[q], ring[q][lrptr[q]])
      /\ lrptr'[q] = (lrptr[q] + 1) % Cap
      /\ UNCHANGED <<cp, ring, wptr, rptr, lwptr, submitted, executed>>
  BY DEF Copy, cpFrame, PointersInv, TypeOK, ProcessorOK
<1>3. PICK m \in C .. N : lwptr[q] = m % Cap
  BY <1>2 DEF PointersInv
<1>4. m \in C + 1 .. N /\ C \in C .. N - 1
  <2>1. m # C
    BY <1>2, <1>3
  <2> HIDE DEF C, N, B, E
  <2> QED
    BY <1>1, <1>3, <2>1
<1>5. ring[q][lrptr[q]] = C + 1
  BY <1>2, <1>4 DEF PacketsInv
<1>6. /\ Len(buffer'[q]) = B + 1
      /\ \A i \in 1 .. B : buffer'[q][i] = buffer[q][i]
      /\ buffer'[q][B + 1] = C + 1
  <2>1. ring[q][lrptr[q]] \in Words
    BY DEF TypeOK, RingOK, ProcessorOK
  <2> QED
    BY <1>2, <1>5, <2>1, Counts, AppendProperties
<1>7. Copied(q)' = C + 1
  <2>1. Copied(q)' = E + Len(buffer'[q])
    BY <1>2 DEF Copied
  <2> HIDE DEF C, B, E
  <2> QED
    BY <1>1, <1>6, <2>1
<1>8. \A i \in 1 .. B + 1 : buffer'[q][i] = E + i
  <2>1. \A i \in 1 .. B : buffer[q][i] = E + i
    BY DEF PacketsInv
  <2> HIDE DEF C, E, B
  <2> TAKE i \in 1 .. B + 1
  <2>2. CASE i = B + 1
    <3>1. E + (B + 1) = C + 1
      BY <1>1
    <3> QED
      BY <1>6, <2>2, <3>1
  <2>3. CASE i # B + 1
    <3>1. i \in 1 .. B
      BY <1>1, <2>3
    <3> QED
      BY <1>6, <2>1, <3>1
  <2> QED
    BY <2>2, <2>3
<1> HIDE DEF N, C, B, E
<1>9. PacketsInv(q)'
  <2>1. C + 1 <= N /\ C + 1 .. N - 1 \subseteq C .. N - 1
    BY <1>1, <1>4
  <2>2. \A i \in C + 1 .. N - 1 : ring'[q][i % Cap] = i + 1
    BY <1>2, <2>1 DEF PacketsInv, C, N
  <2>3. /\ \A i \in 1 .. Len(submitted'[q]) : submitted'[q][i] = i
        /\ \A i \in 1 .. Len(executed'[q]) : executed'[q][i] = i
    BY <1>2 DEF PacketsInv
  <2>4. \A i \in 1 .. Len(buffer'[q]) : buffer'[q][i] = Len(executed'[q]) + i
    BY <1>2, <1>6, <1>8 DEF E
  <2> QED
    BY <1>2, <1>7, <2>1, <2>2, <2>3, <2>4 DEF PacketsInv, N
<1>10. PointersInv(q)'
  <2>1. \E p \in 0 .. C + 1 : rptr'[q] = p % Cap /\ N - p < Cap
    <3>1. \E p \in 0 .. C : rptr[q] = p % Cap /\ N - p < Cap
      BY DEF PointersInv, C, N
    <3>2. 0 .. C \subseteq 0 .. C + 1
      BY <1>1
    <3> QED
      BY <1>2, <3>1, <3>2
  <2>2. lrptr'[q] = (C + 1) % Cap
    BY <1>1, <1>2, NextSlot
  <2>3. \E r \in C + 1 .. N : lwptr'[q] = r % Cap
    BY <1>2, <1>3, <1>4
  <2>4. wptr'[q] = N % Cap
    BY <1>2 DEF PointersInv, N
  <2> QED
    BY <1>2, <1>7, <2>1, <2>2, <2>3, <2>4 DEF PointersInv, N
<1> QED
  BY <1>9, <1>10

\* The read pointer moves over exactly what was copied.
LEMMA PublishStep ==
  ASSUME TypeOK, NEW q \in Queues, PacketsInv(q), PointersInv(q), Publish(q)
  PROVE  PacketsInv(q)' /\ PointersInv(q)'
<1> DEFINE N == Len(submitted[q])
           C == Copied(q)
<1>1. /\ cp[q] = "copying" /\ cp'[q] = "dispatching"
      /\ lrptr[q] = C % Cap /\ rptr'[q] = C % Cap
      /\ UNCHANGED <<ring, wptr, lrptr, lwptr, buffer, submitted, executed>>
  BY DEF Publish, Run, cpFrame, PointersInv, TypeOK, RingOK, ProcessorOK
<1>2. N \in Nat /\ C \in Nat
  BY Counts
<1>3. N - C < Cap
  <2>1. PICK p \in 0 .. C : N - p < Cap
    BY DEF PointersInv
  <2> HIDE DEF N, C
  <2> QED
    BY <1>2, <2>1, RingAssumption
<1>4. Copied(q)' = C
  BY <1>1 DEF Copied
<1> HIDE DEF C
<1>5. PacketsInv(q)'
  BY <1>1, <1>4 DEF PacketsInv, C
<1>6. PointersInv(q)'
  <2>1. C \in 0 .. C
    BY <1>2
  <2> QED
    BY <1>1, <1>3, <1>4, <2>1 DEF PointersInv
<1> QED
  BY <1>5, <1>6

\* The packet decoded is the one that follows those decoded before.
LEMMA DecodeStep ==
  ASSUME TypeOK, NEW q \in Queues, PacketsInv(q), PointersInv(q), Decode(q)
  PROVE  /\ PacketsInv(q)' /\ PointersInv(q)'
         /\ executed'[q] = Append(executed[q], Len(executed[q]) + 1)
         /\ Len(executed[q]) + 1 <= Len(submitted[q])
<1> DEFINE C == Copied(q)
           B == Len(buffer[q])
           E == Len(executed[q])
           N == Len(submitted[q])
<1>1. /\ cp[q] = "dispatching" /\ buffer[q] # << >>
      /\ executed'[q] = Append(executed[q], Head(buffer[q]))
      /\ buffer'[q] = Tail(buffer[q])
      /\ UNCHANGED <<ring, wptr, rptr, cp, lrptr, lwptr, submitted>>
  BY DEF Decode, cpFrame, TypeOK, ProcessorOK
<1>2. /\ B \in Nat /\ E \in Nat /\ N \in Nat /\ C = E + B /\ C <= N /\ B # 0
      /\ executed[q] \in Seq(Words) /\ buffer[q] \in Seq(Words)
  BY <1>1, Counts, EmptySeq DEF PacketsInv, Copied
<1>3. Head(buffer[q]) = E + 1
  <2>1. Head(buffer[q]) = buffer[q][1]
    BY <1>1, <1>2
  <2>2. 1 \in 1 .. Len(buffer[q])
    BY <1>2
  <2> QED
    BY <2>1, <2>2 DEF PacketsInv
<1>4. /\ Len(buffer'[q]) = B - 1
      /\ \A i \in 1 .. B - 1 : buffer'[q][i] = buffer[q][i + 1]
      /\ Head(buffer[q]) \in Words
  BY <1>1, <1>2, HeadTailProperties
<1>5. /\ Len(executed'[q]) = E + 1
      /\ \A i \in 1 .. E : executed'[q][i] = executed[q][i]
      /\ executed'[q][E + 1] = E + 1
  BY <1>1, <1>2, <1>3, <1>4, AppendProperties
<1>6. \A i \in 1 .. E + 1 : executed'[q][i] = i
  <2>1. \A i \in 1 .. E : executed[q][i] = i
    BY DEF PacketsInv
  <2> HIDE DEF E
  <2> QED
    BY <1>2, <1>5, <2>1
<1>7. \A i \in 1 .. B - 1 : buffer'[q][i] = (E + 1) + i
  <2>1. \A i \in 1 .. B : buffer[q][i] = E + i
    BY DEF PacketsInv
  <2> HIDE DEF E, B
  <2> SUFFICES ASSUME NEW i \in 1 .. B - 1 PROVE buffer'[q][i] = (E + 1) + i
    OBVIOUS
  <2>2. i + 1 \in 1 .. B
    BY <1>2
  <2> QED
    BY <1>2, <1>4, <2>1, <2>2
<1>8. Copied(q)' = C
  <2>1. Copied(q)' = Len(executed'[q]) + Len(buffer'[q])
    BY DEF Copied
  <2> HIDE DEF C, B, E
  <2> QED
    BY <1>2, <1>4, <1>5, <2>1
<1>9. E + 1 <= N
  <2> HIDE DEF C, B, E, N
  <2> QED
    BY <1>2
<1> HIDE DEF C, B, E
<1>10. PacketsInv(q)'
  BY <1>1, <1>4, <1>5, <1>6, <1>7, <1>8 DEF PacketsInv, C
<1>11. PointersInv(q)'
  BY <1>1, <1>8 DEF PointersInv, C
<1> QED
  BY <1>1, <1>3, <1>9, <1>10, <1>11 DEF E

\* Turning round the loop.
LEMMA LoopStep ==
  ASSUME TypeOK, NEW q \in Queues, PacketsInv(q), PointersInv(q),
         LoopTop(q) \/ Look(q) \/ EndIteration(q)
  PROVE  PacketsInv(q)' /\ PointersInv(q)'
<1>1. /\ cp[q] # "copying" /\ buffer[q] = << >>
      /\ UNCHANGED <<ring, wptr, rptr, buffer, submitted, executed>>
      /\ cp'[q] = "copying" => lrptr'[q] = rptr[q] /\ lwptr'[q] = wptr[q]
  BY DEF LoopTop, Look, EndIteration, Run, cpFrame, PointersInv, TypeOK, ProcessorOK
<1>2. Copied(q)' = Copied(q) /\ Copied(q) \in Nat /\ Copied(q) <= Len(submitted[q])
      /\ Len(submitted[q]) \in Nat
  BY <1>1, Counts DEF Copied, PacketsInv
<1>3. PacketsInv(q)'
  BY <1>1, <1>2 DEF PacketsInv
<1>4. PointersInv(q)'
  <2> DEFINE C == Copied(q)
             N == Len(submitted[q])
  <2>1. rptr[q] = C % Cap /\ N - C < Cap /\ wptr[q] = N % Cap
    BY <1>1 DEF PointersInv
  <2> HIDE DEF C, N
  <2>2. C \in 0 .. C /\ N \in C .. N
    BY <1>2 DEF C, N
  <2> QED
    BY <1>1, <1>2, <2>1, <2>2 DEF PointersInv, C, N
<1> QED
  BY <1>3, <1>4

\* A new thread starts with an empty buffer.
LEMMA SpawnStep ==
  ASSUME TypeOK, CreationInv, NEW g \in Guests, SpawnThread(g),
         NEW q \in Queues, PacketsInv(q), PointersInv(q)
  PROVE  PacketsInv(q)' /\ PointersInv(q)'
<1>1. /\ UNCHANGED <<ringVars, lrptr, lwptr, buffer, submitted, executed>>
      /\ cp'[q] = cp[q] \/ (cp[q] = "none" /\ cp'[q] = "looping")
  BY DEF SpawnThread, Run, CreationInv, Creating, TypeOK, ProcessorOK
<1>2. Copied(q)' = Copied(q)
  BY <1>1 DEF Copied
<1> QED
  BY <1>1, <1>2 DEF PacketsInv, PointersInv, ringVars

\* What each step does to the streams.
LEMMA StreamSteps ==
  ASSUME [Next]_vars
  PROVE  \/ UNCHANGED packetVars
         \/ \E g \in Guests : SpawnThread(g)
         \/ \E q \in Queues : Submit(q) \/ Processor(q)
<1>1. ASSUME NEW g \in Guests, Guest(g) PROVE UNCHANGED packetVars \/ SpawnThread(g)
  BY <1>1 DEF Guest, AddProcessor, AddDoorbell, AddCondvar, BellBegin, BellMap, BellNotify,
              Shutdown, ClearDoorbells, ClearCondvars, cpVars, packetVars
<1>2. UNCHANGED vars => UNCHANGED packetVars
  BY DEF vars, cpVars, packetVars
<1> QED
  BY <1>1, <1>2 DEF Next

\* Every step keeps the numbering of the packets.
LEMMA StreamStep ==
  ASSUME TypeOK, CreationInv, StreamInv, [Next]_vars
  PROVE  StreamInv'
<1> SUFFICES ASSUME NEW r \in Queues PROVE PacketsInv(r)' /\ PointersInv(r)'
  BY DEF StreamInv
<1>1. PacketsInv(r) /\ PointersInv(r)
  BY DEF StreamInv
<1>2. CASE UNCHANGED packetVars
  BY <1>1, <1>2, StreamFrame DEF packetVars, ringVars
<1>3. ASSUME NEW g \in Guests, SpawnThread(g) PROVE PacketsInv(r)' /\ PointersInv(r)'
  BY <1>1, <1>3, SpawnStep
<1>4. ASSUME NEW q \in Queues, Submit(q) \/ Processor(q), q # r
      PROVE  PacketsInv(r)' /\ PointersInv(r)'
  <2>1. /\ ring'[r] = ring[r] /\ wptr'[r] = wptr[r] /\ rptr'[r] = rptr[r] /\ cp'[r] = cp[r]
        /\ lrptr'[r] = lrptr[r] /\ lwptr'[r] = lwptr[r] /\ buffer'[r] = buffer[r]
        /\ submitted'[r] = submitted[r] /\ executed'[r] = executed[r]
    <3>1. CASE Submit(q)
      BY <1>4, <3>1 DEF Submit, cpVars, TypeOK, RingOK
    <3>2. CASE LoopTop(q) \/ Look(q) \/ EndIteration(q)
      BY <1>4, <3>2 DEF LoopTop, Look, EndIteration, Run, cpFrame, TypeOK, ProcessorOK
    <3>3. CASE Copy(q) \/ Publish(q) \/ Decode(q)
      BY <1>4, <3>3 DEF Copy, Publish, Decode, Run, cpFrame, TypeOK, RingOK, ProcessorOK
    <3> QED
      BY <1>4, <3>1, <3>2, <3>3 DEF Processor, WakeNotified, WakeTimeout
  <2> QED
    BY <1>1, <2>1, StreamFrame
<1>5. ASSUME Submit(r) \/ Processor(r) PROVE PacketsInv(r)' /\ PointersInv(r)'
  BY <1>1, <1>5, SubmitStep, CopyStep, PublishStep, DecodeStep, LoopStep
     DEF Processor, WakeNotified, WakeTimeout
<1> QED
  BY <1>2, <1>3, <1>4, <1>5, StreamSteps

\* What the ring, the pointers and the copy of every queue hold, for rings of any size:
\* the packets that were submitted and not yet decoded, in order.
THEOREM RingsHoldTheStream == Spec => []StreamInv
<1>1. Init => StreamInv
  <2> SUFFICES ASSUME Init, NEW q \in Queues PROVE PacketsInv(q) /\ PointersInv(q)
    BY DEF StreamInv
  <2>1. /\ submitted[q] = << >> /\ executed[q] = << >> /\ buffer[q] = << >>
        /\ wptr[q] = 0 /\ rptr[q] = 0 /\ cp[q] = "none"
    BY DEF Init
  <2>2. Copied(q) = 0 /\ Len(submitted[q]) = 0
    BY <2>1 DEF Copied
  <2>3. 0 % Cap = 0
    BY RingAssumption
  <2> QED
    BY <2>1, <2>2, <2>3, RingAssumption DEF PacketsInv, PointersInv
<1>2. TypeOK /\ CreationInv /\ StreamInv /\ [Next]_vars => StreamInv'
  BY StreamStep
<1> QED
  BY <1>1, <1>2, TypeCorrect, PTL DEF Spec

\* A command ring is a reliable FIFO channel for any number of queues and guests and any
\* size of the ring: a submission posts one packet, decoding takes the oldest one that
\* nobody took, and no other step shows (run_loop of gpu_queue.rs).
THEOREM RingsAreChannels == Spec => ImplementsStream
<1>1. Init => Stream!Init
  BY DEF Init, Stream!Init
<1>2. TypeOK /\ StreamInv /\ [Next]_vars => [Stream!Next]_(Stream!chanVars)
  <2> SUFFICES ASSUME TypeOK, StreamInv, [Next]_vars
               PROVE  [Stream!Next]_(Stream!chanVars)
    OBVIOUS
  <2>1. CASE UNCHANGED <<submitted, executed>>
    BY <2>1 DEF Stream!chanVars
  <2>2. ASSUME NEW q \in Queues, Submit(q) PROVE Stream!Next
    <3>1. Len(submitted[q]) \in Nat
      BY Counts
    <3>2. Len(submitted[q]) + 1 \in Words
      BY <2>2, <3>1, GpuBounds DEF Submit, Words
    <3>3. Stream!Post(q, Len(submitted[q]) + 1)
      BY <2>2 DEF Submit, Stream!Post
    <3> QED
      BY <3>2, <3>3 DEF Stream!Next
  <2>3. ASSUME NEW q \in Queues, Decode(q) PROVE Stream!Next
    <3> DEFINE E == Len(executed[q])
               N == Len(submitted[q])
               done == Append(executed[q], E + 1)
               first == SubSeq(submitted[q], 1, E + 1)
    <3>1. E \in Nat /\ N \in Nat /\ executed[q] \in Seq(Words) /\ submitted[q] \in Seq(Words)
      BY Counts
    <3>2. PacketsInv(q) /\ PointersInv(q)
      BY DEF StreamInv
    <3>3. executed'[q] = done /\ E + 1 <= N
      BY <2>3, <3>2, DecodeStep
    <3>4. executed' = [executed EXCEPT ![q] = done] /\ submitted' = submitted
      BY <2>3, <3>3 DEF Decode, cpFrame, TypeOK, ProcessorOK
    <3>5. \A i \in 1 .. E + 1 : i \in 1 .. N
      <4> HIDE DEF E, N
      <4> QED
        BY <3>1, <3>3
    <3>6. E + 1 \in Words
      <4>1. E + 1 \in 1 .. N
        BY <3>1, <3>5
      <4>2. submitted[q][E + 1] = E + 1
        BY <3>2, <4>1 DEF PacketsInv
      <4> QED
        BY <3>1, <4>1, <4>2, ElementOfSeq
    <3>7. /\ done \in Seq(Words) /\ Len(done) = E + 1
          /\ \A i \in 1 .. E : done[i] = executed[q][i]
          /\ done[E + 1] = E + 1
      BY <3>1, <3>6, AppendProperties
    <3>8. /\ first \in Seq(Words) /\ Len(first) = E + 1
          /\ \A i \in 1 .. E + 1 : first[i] = submitted[q][i]
      <4>1. \A i \in 1 .. E + 1 : submitted[q][i] \in Words
        BY <3>1, <3>5, ElementOfSeq
      <4> QED
        BY <3>1, <4>1, SubSeqProperties
    <3>9. \A i \in 1 .. E + 1 : done[i] = first[i]
      <4>1. \A i \in 1 .. E : executed[q][i] = i
        BY <3>2 DEF PacketsInv
      <4>2. \A i \in 1 .. E + 1 : submitted[q][i] = i
        BY <3>2, <3>5 DEF PacketsInv
      <4> HIDE DEF E, done, first
      <4> QED
        BY <3>1, <3>7, <3>8, <4>1, <4>2
    <3>10. done = first
      <4> HIDE DEF done, first
      <4> QED
        BY <3>7, <3>8, <3>9, SeqEqual
    <3>11. Stream!Take(q, E + 1) /\ E + 1 \in 1 .. N
      <4>1. E + 1 > E /\ E + 1 \in 1 .. N
        <5> HIDE DEF E, N
        <5> QED
          BY <3>1, <3>5
      <4>2. executed' = [executed EXCEPT ![q] = first]
        <5> HIDE DEF done, first
        <5> QED
          BY <3>4, <3>10
      <4>3. UNCHANGED submitted
        BY <3>4
      <4> QED
        BY <4>1, <4>2, <4>3 DEF Stream!Take
    <3> QED
      BY <3>11 DEF Stream!Next
  <2>4. ASSUME NEW q \in Queues, Processor(q), ~Decode(q)
        PROVE  UNCHANGED <<submitted, executed>>
    BY <2>4 DEF Processor, LoopTop, WakeNotified, WakeTimeout, Look, Copy, Publish, EndIteration,
                cpFrame
  <2>5. ASSUME NEW g \in Guests, SpawnThread(g) PROVE UNCHANGED <<submitted, executed>>
    BY <2>5 DEF SpawnThread
  <2> QED
    BY <2>1, <2>2, <2>3, <2>4, <2>5, StreamSteps DEF packetVars
<1> QED
  BY <1>1, <1>2, TypeCorrect, RingsHoldTheStream, PTL DEF Spec, ImplementsStream, Stream!Spec

-------------------------------------------------------------------------------
\* Command buffers: words that are packets

\* Joined words are words.
LEMMA WordsJoin ==
  ASSUME NEW v, NEW w, AreWords(v), AreWords(w)
  PROVE  LET u == v \o w
         IN  /\ AreWords(u) /\ Len(u) = Len(v) + Len(w)
             /\ \A i \in 1 .. Len(v) : u[i] = v[i]
             /\ \A i \in 1 .. Len(w) : u[Len(v) + i] = w[i]
<1> DEFINE u == v \o w
           T == ToSet(v) \cup ToSet(w)
<1>1. v \in Seq(T) /\ w \in Seq(T) /\ Len(v) \in Nat /\ Len(w) \in Nat
      /\ DOMAIN v = 1 .. Len(v) /\ DOMAIN w = 1 .. Len(w)
  BY DEF AreWords
<1> HIDE DEF T
<1>2. /\ u \in Seq(T) /\ Len(u) = Len(v) + Len(w)
      /\ \A i \in 1 .. Len(v) : u[i] = v[i]
      /\ \A i \in 1 .. Len(w) : u[Len(v) + i] = w[i]
  BY <1>1, ConcatProperties
<1> HIDE DEF u
<1>3. \A i \in 1 .. Len(u) : IsWord(u[i])
  <2> TAKE i \in 1 .. Len(u)
  <2>1. CASE i <= Len(v)
    BY <1>1, <1>2, <2>1 DEF AreWords
  <2>2. CASE i > Len(v)
    <3>1. i - Len(v) \in 1 .. Len(w) /\ i = Len(v) + (i - Len(v))
      BY <1>1, <1>2, <2>2
    <3> QED
      BY <1>1, <1>2, <3>1 DEF AreWords
  <2> QED
    BY <1>1, <1>2, <2>1, <2>2
<1>4. u \in Seq(ToSet(u)) /\ DOMAIN u = 1 .. Len(u)
  BY <1>2 DEF ToSet
<1> QED
  BY <1>2, <1>3, <1>4 DEF AreWords, u

\* S marks where the packets of some words begin, and where the next would.
Tiles(S, w) ==
  /\ S \subseteq 1 .. Len(w) + 1
  /\ 1 \in S /\ Len(w) + 1 \in S
  /\ \A i \in S : i <= Len(w) => IsHeader(w[i]) /\ i + Span(w[i]) \in S

\* The packet at i has the fields that a patch function which takes it looks for.
LaidOut(w, i) ==
  \A patch \in Patches : PatchedWords(patch, w[i]) # {} =>
    /\ i + w[i].len < Len(w)
    /\ PatchedWords(patch, w[i]) =
         {o \in 1 .. w[i].len + 1 : w[i + o].kind = "field" /\ w[i + o].name \in Target(patch)}

Sound(w) ==
  /\ AreWords(w)
  /\ \E S \in SUBSET Nat : Tiles(S, w)
  /\ \A i \in 1 .. Len(w) : IsHeader(w[i]) => LaidOut(w, i)

\* What a header says, and which words are none.
LEMMA WordKinds ==
  ASSUME NEW w, IsWord(w)
  PROVE  /\ IsHeader(w) => w.type \in 0 .. 3 /\ w.len \in Nat
         /\ IsHeader(w) => Span(w) \in Nat /\ Span(w) > 0
BY DEF IsWord, IsHeader, Span

\* No words are packets.
LEMMA EmptyIsSound == Sound(<< >>)
<1>1. Tiles({1}, << >>)
  BY DEF Tiles
<1> QED
  BY <1>1 DEF Sound, AreWords

\* A packet's layout goes with its words.
LEMMA LayoutMoves ==
  ASSUME NEW u, NEW w, NEW i \in Nat, NEW j \in Nat, NEW n \in Nat, NEW m \in Nat,
         Len(w) = n, Len(u) = m, j \in 1 .. n, i + (n - j) <= m,
         u[i] = w[j], w[j].len \in Nat, \A o \in 1 .. n - j : u[i + o] = w[j + o],
         LaidOut(w, j)
  PROVE  LaidOut(u, i)
<1> DEFINE Is(x, patch) == x.kind = "field" /\ x.name \in Target(patch)
<1> SUFFICES ASSUME NEW patch \in Patches, PatchedWords(patch, u[i]) # {}
             PROVE  /\ i + u[i].len < m
                    /\ PatchedWords(patch, u[i]) = {o \in 1 .. u[i].len + 1 : Is(u[i + o], patch)}
  BY DEF LaidOut
<1>1. /\ j + w[j].len < n
      /\ PatchedWords(patch, w[j]) = {o \in 1 .. w[j].len + 1 : Is(w[j + o], patch)}
  BY DEF LaidOut
<1>2. \A o \in 1 .. w[j].len + 1 : o \in 1 .. n - j
  BY <1>1
<1> HIDE DEF Is
<1>3. {o \in 1 .. w[j].len + 1 : Is(w[j + o], patch)} = {o \in 1 .. w[j].len + 1 : Is(u[i + o], patch)}
  BY <1>2
<1> QED
  BY <1>1, <1>3

\* Packets after packets are packets.
LEMMA JoinedIsSound ==
  ASSUME NEW v, NEW w, Sound(v), Sound(w)
  PROVE  Sound(v \o w)
<1> DEFINE u == v \o w
<1>1. /\ AreWords(v) /\ AreWords(w) /\ Len(v) \in Nat /\ Len(w) \in Nat
      /\ \A i \in 1 .. Len(v) : IsWord(v[i])
      /\ \A i \in 1 .. Len(w) : IsWord(w[i])
  BY DEF Sound, AreWords
<1>2. /\ AreWords(u) /\ Len(u) = Len(v) + Len(w)
      /\ \A i \in 1 .. Len(v) : u[i] = v[i]
      /\ \A i \in 1 .. Len(w) : u[Len(v) + i] = w[i]
  BY <1>1, WordsJoin
<1>3. PICK S \in SUBSET Nat : Tiles(S, v)
  BY DEF Sound
<1>4. PICK T \in SUBSET Nat : Tiles(T, w)
  BY DEF Sound
<1> DEFINE R == S \cup {Len(v) + i : i \in T}
<1> HIDE DEF u
<1>5. R \in SUBSET Nat /\ Tiles(R, u)
  <2>1. R \subseteq 1 .. Len(u) + 1 /\ 1 \in R /\ Len(u) + 1 \in R
    <3>1. S \subseteq 1 .. Len(v) + 1 /\ 1 \in S /\ T \subseteq 1 .. Len(w) + 1 /\ Len(w) + 1 \in T
      BY <1>3, <1>4 DEF Tiles
    <3>2. \A i \in T : Len(v) + i \in 1 .. Len(u) + 1
      BY <1>1, <1>2, <3>1
    <3>3. Len(u) + 1 = Len(v) + (Len(w) + 1) /\ \A i \in S : i \in 1 .. Len(u) + 1
      BY <1>1, <1>2, <3>1
    <3> QED
      BY <3>1, <3>2, <3>3
  <2>2. ASSUME NEW i \in R, i <= Len(u)
        PROVE  IsHeader(u[i]) /\ i + Span(u[i]) \in R
    <3>1. CASE i \in S /\ i <= Len(v)
      <4>1. u[i] = v[i]
        BY <1>1, <1>2, <1>3, <3>1 DEF Tiles
      <4> QED
        BY <4>1, <1>3, <3>1 DEF Tiles
    <3>2. CASE ~(i \in S /\ i <= Len(v))
      <4>1. PICK j \in T : i = Len(v) + j
        <5>1. i \in S => i = Len(v) + 1
          BY <1>1, <1>3, <3>2 DEF Tiles
        <5>2. 1 \in T
          BY <1>4 DEF Tiles
        <5> QED
          BY <5>1, <5>2
      <4>2. j \in 1 .. Len(w) /\ u[i] = w[j]
        BY <1>1, <1>2, <1>4, <2>2, <4>1 DEF Tiles
      <4>3. IsHeader(w[j]) /\ j + Span(w[j]) \in T
        BY <1>4, <4>2 DEF Tiles
      <4>4. Span(w[j]) \in Nat
        BY <1>1, <4>2, <4>3, WordKinds
      <4>5. i + Span(w[j]) = Len(v) + (j + Span(w[j]))
        BY <1>1, <4>1, <4>2, <4>4
      <4> QED
        BY <4>2, <4>3, <4>5
    <3> QED
      BY <3>1, <3>2
  <2> QED
    BY <1>1, <2>1, <2>2 DEF Tiles
<1>6. ASSUME NEW i \in 1 .. Len(u), IsHeader(u[i])
      PROVE  LaidOut(u, i)
  <2>1. CASE i <= Len(v)
    <3>1. u[i] = v[i] /\ LaidOut(v, i)
      BY <1>1, <1>2, <1>6, <2>1 DEF Sound
    <3>2. v[i].len \in Nat
      BY <1>1, <1>2, <1>6, <2>1, <3>1, WordKinds
    <3>3. \A o \in 1 .. Len(v) - i : u[i + o] = v[i + o]
      <4> TAKE o \in 1 .. Len(v) - i
      <4>1. i + o \in 1 .. Len(v)
        BY <1>1, <1>2
      <4> QED
        BY <1>2, <4>1
    <3>4. i \in Nat /\ i \in 1 .. Len(v) /\ i + (Len(v) - i) <= Len(u) /\ Len(u) \in Nat
      BY <1>1, <1>2, <2>1
    <3>5. u[i].len \in Nat
      BY <3>1, <3>2
    <3> QED
      BY <1>1, <3>1, <3>2, <3>3, <3>4, LayoutMoves
  <2>2. CASE i > Len(v)
    <3> DEFINE j == i - Len(v)
    <3>1. j \in 1 .. Len(w) /\ u[i] = w[j] /\ i = Len(v) + j
      BY <1>1, <1>2, <2>2
    <3> HIDE DEF j
    <3>2. LaidOut(w, j) /\ w[j].len \in Nat
      BY <1>1, <1>6, <3>1, WordKinds DEF Sound
    <3>3. \A o \in 1 .. Len(w) - j : u[i + o] = w[j + o]
      <4> TAKE o \in 1 .. Len(w) - j
      <4>1. j + o \in 1 .. Len(w) /\ i + o = Len(v) + (j + o)
        BY <1>1, <3>1
      <4> QED
        BY <1>2, <4>1
    <3>4. i \in Nat /\ j \in Nat /\ i + (Len(w) - j) <= Len(u) /\ Len(u) \in Nat
      BY <1>1, <1>2, <3>1
    <3> QED
      BY <1>1, <3>1, <3>2, <3>3, <3>4, LayoutMoves
  <2> QED
    BY <1>1, <1>2, <2>1, <2>2
<1> QED
  BY <1>2, <1>5, <1>6 DEF Sound, u

\* A patch changes the value of a field and nothing else.
LEMMA PatchedWord ==
  ASSUME NEW w, IsWord(w), NEW patch
  PROVE  LET x == [w EXCEPT !.val = patch]
         IN  /\ IsWord(x) /\ x.kind = w.kind
             /\ IsHeader(w) => x = w
             /\ w.kind = "field" => x.name = w.name
BY DEF IsWord, IsHeader, Stale

\* Patched packets are packets.
LEMMA PatchedIsSound ==
  ASSUME NEW w, Sound(w), NEW P, NEW patch
  PROVE  Sound([j \in DOMAIN w |-> IF j \in P THEN [w[j] EXCEPT !.val = patch] ELSE w[j]])
<1> DEFINE u == [j \in DOMAIN w |-> IF j \in P THEN [w[j] EXCEPT !.val = patch] ELSE w[j]]
<1>1. /\ AreWords(w) /\ Len(w) \in Nat /\ DOMAIN w = 1 .. Len(w)
      /\ \A j \in 1 .. Len(w) : IsWord(w[j])
  BY DEF Sound, AreWords
<1>2. \A j \in 1 .. Len(w) :
         /\ IsWord(u[j]) /\ u[j].kind = w[j].kind
         /\ IsHeader(w[j]) => u[j] = w[j]
         /\ w[j].kind = "field" => u[j].name = w[j].name
  <2> TAKE j \in 1 .. Len(w)
  <2>1. IsWord(w[j])
    BY <1>1
  <2>2. CASE j \in P
    <3>1. u[j] = [w[j] EXCEPT !.val = patch]
      BY <1>1, <2>2
    <3> QED
      BY <2>1, <3>1, PatchedWord
  <2>3. CASE j \notin P
    BY <1>1, <2>1, <2>3
  <2> QED
    BY <2>2, <2>3
<1>3. AreWords(u) /\ Len(u) = Len(w)
  <2>1. DOMAIN u = 1 .. Len(w) /\ u = [j \in 1 .. Len(w) |-> u[j]]
    BY <1>1
  <2> HIDE DEF u
  <2>2. u \in [1 .. Len(w) -> ToSet(u)]
    BY <2>1 DEF ToSet
  <2> QED
    BY <1>1, <1>2, <2>1, <2>2 DEF AreWords
<1> HIDE DEF u
<1>4. PICK S \in SUBSET Nat : Tiles(S, w)
  BY DEF Sound
<1>5. Tiles(S, u)
  <2>1. ASSUME NEW i \in S, i <= Len(u)
        PROVE  IsHeader(u[i]) /\ i + Span(u[i]) \in S
    <3>1. i \in 1 .. Len(w) /\ IsHeader(w[i]) /\ i + Span(w[i]) \in S
      BY <1>1, <1>3, <1>4, <2>1 DEF Tiles
    <3> QED
      BY <1>2, <3>1
  <2> QED
    BY <1>3, <1>4, <2>1 DEF Tiles
<1>6. ASSUME NEW i \in 1 .. Len(u), IsHeader(u[i])
      PROVE  LaidOut(u, i)
  <2>1. u[i] = w[i] /\ IsHeader(w[i]) /\ LaidOut(w, i) /\ w[i].len \in Nat
    BY <1>1, <1>2, <1>3, <1>6, WordKinds DEF IsHeader, Sound
  <2> SUFFICES ASSUME NEW p \in Patches, PatchedWords(p, u[i]) # {}
               PROVE  /\ i + u[i].len < Len(u)
                      /\ PatchedWords(p, u[i]) =
                           {o \in 1 .. u[i].len + 1 : u[i + o].kind = "field" /\ u[i + o].name \in Target(p)}
    BY DEF LaidOut
  <2>2. /\ i + w[i].len < Len(w)
        /\ PatchedWords(p, w[i]) =
             {o \in 1 .. w[i].len + 1 : w[i + o].kind = "field" /\ w[i + o].name \in Target(p)}
    BY <2>1 DEF LaidOut
  <2>3. \A o \in 1 .. w[i].len + 1 : i + o \in 1 .. Len(w)
    BY <1>1, <1>3, <2>1, <2>2
  <2>4. {o \in 1 .. w[i].len + 1 : w[i + o].kind = "field" /\ w[i + o].name \in Target(p)} =
          {o \in 1 .. w[i].len + 1 : u[i + o].kind = "field" /\ u[i + o].name \in Target(p)}
    BY <1>2, <2>3
  <2> QED
    BY <1>3, <2>1, <2>2, <2>4
<1> QED
  BY <1>3, <1>5, <1>6 DEF Sound, u

\* A packet that is whole and laid out as patches expect.
LEMMA OnePacketIsSound ==
  ASSUME NEW p, GuestPacket(p)
  PROVE  Sound(p)
<1>1. AreWords(p) /\ Len(p) \in Nat /\ Len(p) > 0 /\ IsHeader(p[1]) /\ IsWord(p[1])
  BY DEF GuestPacket, AreWords
<1>2. p[1].len \in Nat /\ Span(p[1]) \in Nat /\ Len(p) = Span(p[1])
  BY <1>1, WordKinds DEF GuestPacket
<1>3. Tiles({1, Len(p) + 1}, p)
  BY <1>1, <1>2 DEF Tiles
<1>4. ASSUME NEW i \in 1 .. Len(p), IsHeader(p[i])
      PROVE  LaidOut(p, i)
  <2>1. i = 1
    BY <1>1, <1>4 DEF GuestPacket
  <2> SUFFICES ASSUME NEW patch \in Patches, PatchedWords(patch, p[1]) # {}
               PROVE  /\ 1 + p[1].len < Len(p)
                      /\ PatchedWords(patch, p[1]) =
                           {o \in 1 .. p[1].len + 1 : p[1 + o].kind = "field" /\ p[1 + o].name \in Target(patch)}
    BY <2>1 DEF LaidOut
  <2>2. /\ p[1].type \notin {1, 2}
        /\ PatchedWords(patch, p[1]) =
             {o \in 1 .. Len(p) - 1 : p[o + 1].kind = "field" /\ p[o + 1].name \in Target(patch)}
    BY DEF GuestPacket
  <2>3. Len(p) - 1 = p[1].len + 1
    BY <1>2, <2>2 DEF Span
  <2>4. \A o \in 1 .. p[1].len + 1 : o + 1 = 1 + o
    OBVIOUS
  <2>5. {o \in 1 .. p[1].len + 1 : p[o + 1].kind = "field" /\ p[o + 1].name \in Target(patch)} =
          {o \in 1 .. p[1].len + 1 : p[1 + o].kind = "field" /\ p[1 + o].name \in Target(patch)}
    BY <2>4
  <2> QED
    BY <1>1, <1>2, <2>2, <2>3, <2>5
<1> QED
  BY <1>1, <1>3, <1>4 DEF Sound

\* A set of numbers that has 0 and with each the next has all.
LEMMA NumbersFromZero ==
  ASSUME NEW T \in SUBSET Nat, 0 \in T, \A n \in T : n + 1 \in T
  PROVE  T = Nat
<1> DEFINE U == Nat \ T
<1>1. SUFFICES ASSUME U # {} PROVE FALSE
  OBVIOUS
<1>2. PICK i \in U : \A j \in U : ~(<<j, i>> \in OpToRel(<, Nat))
  <2> HIDE DEF U
  <2>1. U \in SUBSET Nat
    BY DEF U
  <2> QED
    BY <1>1, <2>1, NatLessThanWellFounded, WFMin
<1>3. i # 0 /\ i - 1 \in Nat /\ i - 1 < i
  OBVIOUS
<1>4. i - 1 \in T
  BY <1>2, <1>3 DEF OpToRel
<1> QED
  BY <1>3, <1>4

\* The joins of the first sequences, one after the other.
Joins(seqs, n, g) == g = [i \in 1 .. n |-> IF i = 1 THEN seqs[i] ELSE g[i - 1] \o seqs[i]]

\* The same value by value.
Joined(seqs, n, g) == \A i \in 1 .. n : g[i] = IF i = 1 THEN seqs[i] ELSE g[i - 1] \o seqs[i]

\* A function that gives the joins has them at each number.
LEMMA JoinsAt ==
  ASSUME NEW seqs, NEW n \in Nat, NEW g, Joins(seqs, n, g)
  PROVE  Joined(seqs, n, g)
<1> DEFINE k == [i \in 1 .. n |-> IF i = 1 THEN seqs[i] ELSE g[i - 1] \o seqs[i]]
<1>1. g = k
  BY DEF Joins
<1>2. \A i \in 1 .. n : k[i] = IF i = 1 THEN seqs[i] ELSE g[i - 1] \o seqs[i]
  OBVIOUS
<1> HIDE DEF k
<1>3. \A i \in 1 .. n : g[i] = k[i]
  BY <1>1
<1> QED
  BY <1>2, <1>3 DEF Joined

\* Such a function is there for every number of sequences.
LEMMA JoinsExist ==
  ASSUME NEW seqs, NEW n \in Nat
  PROVE  \E g : Joins(seqs, n, g)
<1> DEFINE T == {m \in Nat : \E g : Joins(seqs, m, g)}
<1>1. 0 \in T
  <2>1. Joins(seqs, 0, << >>)
    BY DEF Joins
  <2> QED
    BY <2>1
<1>2. \A m \in T : m + 1 \in T
  <2> SUFFICES ASSUME NEW m \in Nat, NEW g, Joins(seqs, m, g)
               PROVE  \E h : Joins(seqs, m + 1, h)
    OBVIOUS
  <2>1. \A i \in 1 .. m : g[i] = IF i = 1 THEN seqs[i] ELSE g[i - 1] \o seqs[i]
    BY JoinsAt DEF Joined
  <2> DEFINE h == [i \in 1 .. m + 1 |->
                     IF i = 1 THEN seqs[i] ELSE g[i - 1] \o seqs[i]]
             k == [i \in 1 .. m + 1 |->
                     IF i = 1 THEN seqs[i] ELSE h[i - 1] \o seqs[i]]
  <2>2. \A i \in 1 .. m : h[i] = g[i]
    BY <2>1
  <2>3. \A i \in 1 .. m + 1 : h[i] = k[i]
    <3> TAKE i \in 1 .. m + 1
    <3>1. CASE i = 1
      BY <3>1
    <3>2. CASE i # 1
      <4>1. i - 1 \in 1 .. m
        BY <3>2
      <4>2. h[i - 1] = g[i - 1]
        BY <2>2, <4>1
      <4>3. h[i] = g[i - 1] \o seqs[i]
        BY <3>2
      <4>4. k[i] = h[i - 1] \o seqs[i]
        BY <3>2
      <4> QED
        BY <4>2, <4>3, <4>4
    <3> QED
      BY <3>1, <3>2
  <2>4. h = k
    BY <2>3
  <2>5. Joins(seqs, m + 1, h)
    BY <2>4 DEF Joins
  <2> QED
    BY <2>5
<1> HIDE DEF T
<1>3. T = Nat
  BY <1>1, <1>2, NumbersFromZero DEF T
<1> QED
  BY <1>3 DEF T

\* What FlattenSeq makes of some sequences.
LEMMA FlatIsJoined ==
  ASSUME NEW n \in Nat, NEW seqs, seqs = [i \in 1 .. n |-> seqs[i]]
  PROVE  /\ n = 0 => FlattenSeq(seqs) = << >>
         /\ n > 0 => \E g : FlattenSeq(seqs) = g[n] /\ Joined(seqs, n, g)
<1>1. Len(seqs) = n /\ seqs \in Seq(ToSet(seqs))
  BY DEF ToSet
<1>2. CASE n = 0
  BY <1>1, <1>2 DEF FlattenSeq
<1>3. CASE n > 0
  <2> DEFINE g == CHOOSE g : g = [i \in 1 .. n |-> IF i = 1 THEN seqs[i] ELSE g[i - 1] \o seqs[i]]
  <2>1. Joins(seqs, n, g)
    BY JoinsExist DEF Joins
  <2>2. FlattenSeq(seqs) = g[n]
    BY <1>1, <1>3 DEF FlattenSeq
  <2> HIDE DEF g
  <2>3. Joined(seqs, n, g)
    BY <2>1, JoinsAt
  <2>4. \E h : FlattenSeq(seqs) = h[n] /\ Joined(seqs, n, h)
    BY <2>2, <2>3
  <2>5. n # 0
    BY <1>3
  <2> QED
    BY <2>4, <2>5, Zenon
<1> QED
  BY <1>2, <1>3

\* Packets of several allocations one after the other.
LEMMA FlatIsSound ==
  ASSUME NEW n \in Nat, NEW seqs, seqs = [i \in 1 .. n |-> seqs[i]],
         \A i \in 1 .. n : Sound(seqs[i])
  PROVE  Sound(FlattenSeq(seqs))
<1>1. CASE n = 0
  BY <1>1, FlatIsJoined, EmptyIsSound
<1>2. CASE n > 0
  <2>1. PICK g : FlattenSeq(seqs) = g[n] /\ Joined(seqs, n, g)
    BY <1>2, FlatIsJoined
  <2> DEFINE T == {m \in Nat : m + 1 \in 1 .. n => Sound(g[m + 1])}
  <2>2. 0 \in T
    BY <1>2, <2>1 DEF Joined
  <2>3. \A m \in T : m + 1 \in T
    <3> SUFFICES ASSUME NEW m \in T, m + 2 \in 1 .. n
                 PROVE  Sound(g[m + 2])
      OBVIOUS
    <3>1. g[m + 2] = g[m + 1] \o seqs[m + 2]
      <4>1. (m + 2) - 1 = m + 1 /\ m + 2 # 1
        OBVIOUS
      <4> QED
        BY <2>1, <4>1 DEF Joined
    <3>2. Sound(g[m + 1]) /\ Sound(seqs[m + 2])
      OBVIOUS
    <3> QED
      BY <3>1, <3>2, JoinedIsSound
  <2> HIDE DEF T
  <2>4. T = Nat
    BY <2>2, <2>3, NumbersFromZero DEF T
  <2>5. n - 1 \in Nat /\ (n - 1) + 1 = n
    BY <1>2
  <2>6. n - 1 \in T
    BY <2>4, <2>5
  <2> QED
    BY <1>2, <2>1, <2>5, <2>6 DEF T
<1> QED
  BY <1>1, <1>2

\* What a builder's allocations put into the buffer.
Result(chunks) == FlattenSeq([i \in DOMAIN chunks |-> Written(chunks[i])])

\* A refused call writes nothing, one allocation its words, two theirs in order.
LEMMA FewResults ==
  /\ Result(Refused) = << >>
  /\ \A c : Result(<< c >>) = Written(c)
  /\ \A c, d : Result(<<c>> \o <<d>>) = Written(c) \o Written(d)
<1>1. Result(Refused) = << >>
  <2> DEFINE s == [i \in DOMAIN Refused |-> Written(Refused[i])]
  <2>1. s = [i \in 1 .. 0 |-> s[i]]
    BY DEF Refused
  <2> HIDE DEF s
  <2>2. FlattenSeq(s) = << >>
    BY <2>1, FlatIsJoined
  <2> QED
    BY <2>2 DEF Result, s
<1>2. ASSUME NEW c PROVE Result(<< c >>) = Written(c)
  <2> DEFINE s == [i \in DOMAIN <<c>> |-> Written(<<c>>[i])]
  <2>1. s = [i \in 1 .. 1 |-> s[i]] /\ s[1] = Written(c)
    OBVIOUS
  <2> HIDE DEF s
  <2>2. PICK g : FlattenSeq(s) = g[1] /\ Joined(s, 1, g)
    <3>1. 1 \in Nat /\ 1 > 0 /\ 1 # 0
      OBVIOUS
    <3> QED
      BY <2>1, <3>1, FlatIsJoined
  <2>3. g[1] = s[1]
    BY <2>2 DEF Joined
  <2> QED
    BY <2>1, <2>2, <2>3 DEF Result, s
<1>3. ASSUME NEW c, NEW d PROVE Result(<<c>> \o <<d>>) = Written(c) \o Written(d)
  <2> DEFINE t == <<c>> \o <<d>>
             s == [i \in DOMAIN t |-> Written(t[i])]
  <2>1. DOMAIN t = 1 .. 2 /\ t[1] = c /\ t[2] = d
    <3>1. <<c>> \in Seq({c, d}) /\ <<d>> \in Seq({c, d}) /\ Len(<<c>>) = 1 /\ Len(<<d>>) = 1
      OBVIOUS
    <3> QED
      BY <3>1
  <2>2. s = [i \in 1 .. 2 |-> s[i]] /\ s[1] = Written(c) /\ s[2] = Written(d)
    BY <2>1
  <2> HIDE DEF s
  <2>3. PICK g : FlattenSeq(s) = g[2] /\ Joined(s, 2, g)
    <3>1. 2 \in Nat /\ 2 > 0
      OBVIOUS
    <3> QED
      BY <2>2, <3>1, FlatIsJoined
  <2>4. g[1] = s[1] /\ g[2] = g[1] \o s[2]
    <3>1. 1 \in 1 .. 2 /\ 2 \in 1 .. 2 /\ 2 # 1 /\ 2 - 1 = 1
      OBVIOUS
    <3>2. \A i \in 1 .. 2 : g[i] = IF i = 1 THEN s[i] ELSE g[i - 1] \o s[i]
      BY <2>3 DEF Joined
    <3> QED
      BY <3>1, <3>2
  <2> QED
    BY <2>2, <2>3, <2>4 DEF Result, s
<1> QED
  BY <1>1, <1>2, <1>3

\* A header whose length fits says what follows it.
LEMMA SmallHeader ==
  ASSUME NEW n \in 2 .. LenSpan + 1, NEW op, NEW reg
  PROVE  LET h == Header(n, op, reg)
         IN  /\ IsHeader(h) /\ IsWord(h)
             /\ h.type = 0 /\ h.len = n - 2 /\ h.op = op /\ h.reg = reg /\ Span(h) = n
<1>1. LenSpan \in Nat /\ LenSpan > 8 /\ n - 2 \in 0 .. LenSpan - 1
  BY CommandBufferAssumption
<1>2. (n - 2) \div LenSpan = 0 /\ (n - 2) % LenSpan = n - 2
  BY <1>1
<1>3. ((n - 2) \div LenSpan) % 4 = 0
  BY <1>2
<1> QED
  BY <1>1, <1>2, <1>3 DEF Header, IsHeader, IsWord, Span

\* A sequence of m names.
OfLength(names, m) == names \in [1 .. m -> ToSet(names)]

\* An allocation of n words with a header and fields, the rest stale.
Filled(n, op, reg, names) ==
  Written([alloc |-> n, words |-> <<Header(n, op, reg)>> \o Fields(names)])

\* The words of such an allocation.
HasWords(p, n, op, reg, m, names) ==
  /\ AreWords(p) /\ Len(p) = n /\ p[1] = Header(n, op, reg)
  /\ \A o \in 1 .. m : p[o + 1] = Field(names[o])
  /\ \A o \in m + 1 .. n - 1 : p[o + 1] = Stale

\* What an allocation holds: the header, the fields, and stale words to its end.
LEMMA WrittenWords ==
  ASSUME NEW n \in 2 .. LenSpan + 1, NEW op, NEW reg, NEW m \in 0 .. n - 1,
         NEW names, OfLength(names, m),
         NEW p, p = Filled(n, op, reg, names)
  PROVE  HasWords(p, n, op, reg, m, names)
<1> DEFINE h == << Header(n, op, reg) >>
           f == Fields(names)
           s == [i \in 1 .. n - (m + 1) |-> Stale]
<1>1. AreWords(h) /\ Len(h) = 1
  <2>1. IsWord(Header(n, op, reg))
    BY SmallHeader
  <2> HIDE DEF IsWord
  <2>2. h \in [1 .. 1 -> ToSet(h)]
    BY DEF ToSet
  <2>3. h \in Seq(ToSet(h)) /\ Len(h) = 1 /\ DOMAIN h = 1 .. 1 /\ h[1] = Header(n, op, reg)
    BY <2>2
  <2> QED
    BY <2>1, <2>3 DEF AreWords
<1>2. /\ AreWords(f) /\ Len(f) = m
      /\ \A o \in 1 .. m : f[o] = Field(names[o])
  <2>1. f = [i \in 1 .. m |-> Field(names[i])]
    BY DEF Fields, OfLength
  <2>2. \A i \in 1 .. m : IsWord(f[i])
    BY <2>1 DEF Field, IsWord, IsHeader
  <2>3. f \in [1 .. m -> ToSet(f)]
    BY <2>1 DEF ToSet
  <2>4. f \in Seq(ToSet(f)) /\ Len(f) = m /\ DOMAIN f = 1 .. m
    BY <2>1, <2>3
  <2> QED
    BY <2>1, <2>2, <2>4 DEF AreWords
<1>3. /\ AreWords(s) /\ Len(s) = n - (m + 1)
      /\ \A o \in 1 .. n - (m + 1) : s[o] = Stale
  <2>1. n - (m + 1) \in Nat
    OBVIOUS
  <2>2. \A i \in 1 .. n - (m + 1) : IsWord(s[i])
    BY DEF IsWord, IsHeader, Stale
  <2>3. s \in [1 .. n - (m + 1) -> ToSet(s)]
    BY DEF ToSet
  <2>4. s \in Seq(ToSet(s)) /\ Len(s) = n - (m + 1) /\ DOMAIN s = 1 .. n - (m + 1)
    BY <2>1, <2>3
  <2> QED
    BY <2>2, <2>4 DEF AreWords
<1> DEFINE v == h \o f
<1> HIDE DEF h, f, s
<1>4. /\ AreWords(v) /\ Len(v) = m + 1 /\ v[1] = h[1]
      /\ \A o \in 1 .. m : v[1 + o] = f[o]
  <2>1. AreWords(h) /\ AreWords(f)
    BY <1>1, <1>2
  <2>3. /\ AreWords(h \o f) /\ Len(h \o f) = Len(h) + Len(f)
        /\ \A i \in 1 .. Len(h) : (h \o f)[i] = h[i]
        /\ \A i \in 1 .. Len(f) : (h \o f)[Len(h) + i] = f[i]
    BY <2>1, WordsJoin
  <2> HIDE DEF v
  <2>2. v = h \o f
    BY DEF v
  <2> QED
    BY <1>1, <1>2, <2>2, <2>3
<1> HIDE DEF v
<1>5. p = v \o s
  <2>1. p = Written([alloc |-> n, words |-> v])
    BY DEF v, h, f, Filled
  <2> QED
    BY <1>4, <2>1 DEF Written, s
<1>6. /\ AreWords(v \o s) /\ Len(v \o s) = n
      /\ \A i \in 1 .. m + 1 : (v \o s)[i] = v[i]
      /\ \A o \in 1 .. n - (m + 1) : (v \o s)[m + 1 + o] = s[o]
  <2>1. AreWords(v) /\ AreWords(s)
    BY <1>3, <1>4
  <2>2. /\ AreWords(v \o s) /\ Len(v \o s) = Len(v) + Len(s)
        /\ \A i \in 1 .. Len(v) : (v \o s)[i] = v[i]
        /\ \A i \in 1 .. Len(s) : (v \o s)[Len(v) + i] = s[i]
    BY <2>1, WordsJoin
  <2>3. Len(v) + Len(s) = n
    BY <1>3, <1>4
  <2> QED
    BY <1>3, <1>4, <2>2, <2>3
<1>7. \A o \in 1 .. m : p[o + 1] = Field(names[o])
  BY <1>2, <1>4, <1>5, <1>6
<1>8. ASSUME NEW o \in m + 1 .. n - 1 PROVE p[o + 1] = Stale
  <2>1. o - m \in 1 .. n - (m + 1) /\ o + 1 = m + 1 + (o - m)
    OBVIOUS
  <2> QED
    BY <1>3, <1>5, <1>6, <2>1
<1>9. p[1] = Header(n, op, reg)
  BY <1>4, <1>5, <1>6 DEF h
<1> QED
  BY <1>5, <1>6, <1>7, <1>8, <1>9 DEF HasWords

\* Packets some patch function takes.
Patchable(op, reg) ==
  \/ op = IT_WAIT_REG_MEM
  \/ op = IT_NOP /\ reg \in {"DMA_DATA", "WAIT_MEM32", "WAIT_MEM64", "RELEASE_MEM"}

\* Packets of n words together.
Sized(words, n) == Sound(words) /\ Len(words) = n

\* No patch function takes the other packets.
LEMMA PlainIsUnpatched ==
  ASSUME NEW h, ~Patchable(h.op, h.reg), NEW patch \in Patches
  PROVE  PatchedWords(patch, h) = {}
<1>1. h.op # IT_WAIT_REG_MEM
      /\ (h.op = IT_NOP => h.reg # "DMA_DATA" /\ h.reg # "WAIT_MEM32"
                           /\ h.reg # "WAIT_MEM64" /\ h.reg # "RELEASE_MEM")
  BY DEF Patchable
<1>2. DmaDataPatchSetDst(h) = {} /\ DmaDataPatchSetSrc(h) = {}
  BY <1>1 DEF DmaDataPatchSetDst, DmaDataPatchSetSrc
<1>3. WaitKind(h) = "none"
  BY <1>1 DEF WaitKind
<1>4. /\ WaitRegMemPatchAddress(h) = {} /\ WaitRegMemPatchCompareFunction(h) = {}
      /\ WaitRegMemPatchReference(h) = {} /\ WaitRegMemPatchMask(h) = {}
  BY <1>3 DEF WaitRegMemPatchAddress, WaitRegMemPatchCompareFunction,
     WaitRegMemPatchReference, WaitRegMemPatchMask
<1>5. /\ QueueEndOfPipeActionPatchAddress(h) = {} /\ QueueEndOfPipeActionPatchGcrCntl(h) = {}
      /\ QueueEndOfPipeActionPatchType(h) = {}
  BY <1>1 DEF IsReleaseMem, QueueEndOfPipeActionPatchAddress, QueueEndOfPipeActionPatchGcrCntl,
     QueueEndOfPipeActionPatchType
<1> QED
  BY <1>2, <1>4, <1>5 DEF Patches, PatchedWords

\* A packet no patch function takes.
LEMMA PlainPacket ==
  ASSUME NEW n \in 2 .. LenSpan + 1, NEW op, NEW reg, NEW m \in 0 .. n - 1,
         NEW names, OfLength(names, m), ~Patchable(op, reg),
         NEW p, p = Filled(n, op, reg, names)
  PROVE  Sized(p, n)
<1>1. /\ AreWords(p) /\ Len(p) = n /\ p[1] = Header(n, op, reg)
      /\ \A o \in 1 .. m : p[o + 1] = Field(names[o])
      /\ \A o \in m + 1 .. n - 1 : p[o + 1] = Stale
  BY WrittenWords DEF HasWords
<1>2. /\ IsHeader(p[1]) /\ Span(p[1]) = n /\ p[1].op = op /\ p[1].reg = reg
  BY <1>1, SmallHeader
<1>3. \A patch \in Patches : PatchedWords(patch, p[1]) = {}
  BY <1>2, PlainIsUnpatched
<1>4. p # << >> /\ DOMAIN p = 1 .. n
  BY <1>1 DEF AreWords
<1>5. ASSUME NEW i \in 1 .. n, i # 1
      PROVE  ~IsHeader(p[i])
  <2>1. i - 1 \in 1 .. n - 1 /\ i = (i - 1) + 1
    BY <1>5
  <2>2. CASE i - 1 <= m
    <3>1. p[i] = Field(names[i - 1])
      BY <1>1, <2>1, <2>2
    <3> QED
      BY <3>1 DEF IsHeader, Field
  <2>3. CASE i - 1 > m
    <3>1. i - 1 \in m + 1 .. n - 1
      BY <2>1, <2>3
    <3>3. p[i] = Stale
      BY <1>1, <2>1, <3>1
    <3> QED
      BY <3>3 DEF IsHeader, Stale
  <2> QED
    BY <2>1, <2>2, <2>3
<1>6. GuestPacket(p)
  BY <1>1, <1>2, <1>3, <1>4, <1>5 DEF GuestPacket
<1> QED
  BY <1>1, <1>6, OnePacketIsSound DEF Sized

\* A packet whose fields stand where the patch functions that take it look.
LEMMA PatchablePacket ==
  ASSUME NEW n \in 2 .. LenSpan + 1, NEW op, NEW reg,
         NEW names, OfLength(names, n - 1),
         \A patch \in Patches : PatchedWords(patch, Header(n, op, reg)) # {} =>
           PatchedWords(patch, Header(n, op, reg)) = {o \in 1 .. n - 1 : names[o] \in Target(patch)},
         NEW p, p = Filled(n, op, reg, names)
  PROVE  Sized(p, n)
<1>1. /\ AreWords(p) /\ Len(p) = n /\ p[1] = Header(n, op, reg)
      /\ \A o \in 1 .. n - 1 : p[o + 1] = Field(names[o])
  <2> DEFINE m == n - 1
  <2>1. m \in 0 .. n - 1 /\ OfLength(names, m)
    OBVIOUS
  <2> HIDE DEF m
  <2>2. HasWords(p, n, op, reg, m, names)
    BY <2>1, WrittenWords
  <2> QED
    BY <2>2 DEF m, HasWords
<1>2. /\ IsHeader(p[1]) /\ Span(p[1]) = n /\ p[1].type = 0
  BY <1>1, SmallHeader
<1>3. p # << >> /\ DOMAIN p = 1 .. n
  BY <1>1 DEF AreWords
<1>4. ASSUME NEW o \in 1 .. n - 1
      PROVE  p[o + 1].kind = "field" /\ p[o + 1].name = names[o]
  <2>1. p[o + 1] = Field(names[o])
    BY <1>1
  <2> QED
    BY <2>1 DEF Field
<1>5. ASSUME NEW i \in 1 .. n, i # 1
      PROVE  ~IsHeader(p[i])
  <2>1. i - 1 \in 1 .. n - 1 /\ i = (i - 1) + 1
    BY <1>5
  <2> QED
    BY <1>4, <2>1 DEF IsHeader
<1>6. ASSUME NEW patch \in Patches, PatchedWords(patch, p[1]) # {}
      PROVE  PatchedWords(patch, p[1]) =
               {o \in 1 .. Len(p) - 1 : p[o + 1].kind = "field" /\ p[o + 1].name \in Target(patch)}
  <2>1. PatchedWords(patch, p[1]) = {o \in 1 .. n - 1 : names[o] \in Target(patch)}
    BY <1>1, <1>6
  <2> QED
    BY <1>1, <1>4, <2>1
<1>7. GuestPacket(p)
  BY <1>1, <1>2, <1>3, <1>5, <1>6 DEF GuestPacket
<1> QED
  BY <1>1, <1>7, OnePacketIsSound DEF Sized

\* A call writes packets, and no more than k words.
Fits(chunks, k) == Sound(Result(chunks)) /\ Len(Result(chunks)) <= k

\* A refused call writes nothing.
LEMMA RefusedFits ==
  ASSUME NEW k \in Nat
  PROVE  Fits(Refused, k)
BY FewResults, EmptyIsSound DEF Fits

\* A call of one plain packet, no longer than k words.
LEMMA PlainFits ==
  ASSUME NEW n \in 2 .. LenSpan + 1, NEW op, NEW reg, NEW m \in 0 .. n - 1,
         NEW names, OfLength(names, m), ~Patchable(op, reg)
  PROVE  Fits(Chunk(n, <<Header(n, op, reg)>> \o Fields(names)), n)
<1>1. Sized(Filled(n, op, reg, names), n)
  BY PlainPacket
<1>2. Result(Chunk(n, <<Header(n, op, reg)>> \o Fields(names))) = Filled(n, op, reg, names)
  BY FewResults DEF Chunk, Filled
<1> HIDE DEF Chunk
<1>3. n \in Nat /\ n <= n
  BY CommandBufferAssumption
<1> QED
  BY <1>1, <1>2, <1>3 DEF Sized, Fits

\* The same for a packet with patchable fields.
LEMMA PatchableFits ==
  ASSUME NEW n \in 2 .. LenSpan + 1, NEW op, NEW reg,
         NEW names, OfLength(names, n - 1),
         \A patch \in Patches : PatchedWords(patch, Header(n, op, reg)) # {} =>
           PatchedWords(patch, Header(n, op, reg)) = {o \in 1 .. n - 1 : names[o] \in Target(patch)}
  PROVE  Fits(Packet(n, op, reg, names), n)
<1>1. Sized(Filled(n, op, reg, names), n)
  BY PatchablePacket
<1>2. Result(Packet(n, op, reg, names)) = Filled(n, op, reg, names)
  BY FewResults DEF Packet, Chunk, Filled
<1>3. n \in Nat /\ n <= n
  BY CommandBufferAssumption
<1> QED
  BY <1>1, <1>2, <1>3 DEF Sized, Fits

\* A call of two allocations.
LEMMA TwoFit ==
  ASSUME NEW c, NEW d, NEW m \in Nat, NEW n \in Nat,
         Sized(Written(c), m), Sized(Written(d), n)
  PROVE  Fits(<<c>> \o <<d>>, m + n)
<1>1. Result(<<c>> \o <<d>>) = Written(c) \o Written(d)
  BY FewResults
<1>2. Sound(Written(c) \o Written(d))
  BY JoinedIsSound DEF Sized
<1>3. Len(Written(c) \o Written(d)) = m + n
  BY WordsJoin DEF Sized, Sound
<1>4. Len(Written(c) \o Written(d)) <= m + n
  BY <1>3
<1> QED
  BY <1>1, <1>2, <1>4, Zenon DEF Fits

\* The shortest sequences of names.
LEMMA ShortNames ==
  /\ \A a : OfLength(<<a>>, 1)
  /\ \A a, b : OfLength(<<a, b>>, 2)
  /\ \A a, b, c : OfLength(<<a, b, c>>, 3)
  /\ \A a, b, c, d : OfLength(<<a, b, c, d>>, 4)
  /\ \A a, b, c, d, e : OfLength(<<a, b, c, d, e>>, 5)
  /\ \A a, b, c, d, e, f : OfLength(<<a, b, c, d, e, f>>, 6)
  /\ \A a, b, c, d, e, f, g : OfLength(<<a, b, c, d, e, f, g>>, 7)
  /\ \A a, b, c, d, e, f, g, h : OfLength(<<a, b, c, d, e, f, g, h>>, 8)
BY DEF OfLength, ToSet

\* Short packets without patchable fields.
LEMMA ShortFits ==
  ASSUME NEW n \in 2 .. 9, NEW op, NEW reg, NEW names, OfLength(names, n - 1),
         ~Patchable(op, reg)
  PROVE  Fits(Packet(n, op, reg, names), n)
<1> DEFINE m == n - 1
<1>1. n \in 2 .. LenSpan + 1 /\ m \in 0 .. n - 1 /\ OfLength(names, m)
  BY CommandBufferAssumption
<1> HIDE DEF m
<1> QED
  BY <1>1, PlainFits DEF Packet

\* Opcodes and registers of the packets that no patch function takes.
LEMMA PlainKinds ==
  /\ \A reg : /\ ~Patchable(IT_DISPATCH_DIRECT, reg) /\ ~Patchable(IT_DISPATCH_INDIRECT, reg)
              /\ ~Patchable(IT_DRAW_INDEX_2, reg) /\ ~Patchable(IT_DRAW_INDEX_OFFSET_2, reg)
              /\ ~Patchable(IT_INDEX_TYPE, reg) /\ ~Patchable(IT_NUM_INSTANCES, reg)
              /\ ~Patchable(IT_EVENT_WRITE, reg) /\ ~Patchable(IT_SET_BASE, reg)
              /\ ~Patchable(IT_SET_SH_REG, reg) /\ ~Patchable(IT_INDEX_BASE, reg)
              /\ ~Patchable(IT_INDEX_BUFFER_SIZE, reg)
  /\ \A reg : reg \in {"ZERO", "DRAW_INDEX_AUTO", "INDEX_COUNT", "CX_REGS_INDIRECT",
                "SH_REGS_INDIRECT", "UC_REGS_INDIRECT", "WRITE_DATA", "WAIT_FLIP_DONE", "FLIP",
                "PUSH_MARKER", "POP_MARKER", "DRAW_RESET", "ACQUIRE_MEM", "ACB_RESET"}
       => ~Patchable(IT_NOP, reg)
BY DEF Patchable, IT_DISPATCH_DIRECT, IT_DISPATCH_INDIRECT, IT_DRAW_INDEX_2, IT_DRAW_INDEX_OFFSET_2,
   IT_INDEX_TYPE, IT_NUM_INSTANCES, IT_EVENT_WRITE, IT_SET_BASE, IT_SET_SH_REG, IT_INDEX_BASE,
   IT_INDEX_BUFFER_SIZE, IT_NOP, IT_WAIT_REG_MEM

\* Packets of constant length that no patch function takes.
LEMMA PlainCalls ==
  /\ Fits(CbDispatch, 5)
  /\ Fits(DcbDrawIndexOffset, 5)
  /\ Fits(DcbSetIndexCount, 2) /\ Fits(DcbSetNumInstances, 2)
  /\ Fits(DcbSetCxRegistersIndirect, 2) /\ Fits(DcbSetShRegistersIndirect, 2)
  /\ Fits(DcbSetUcRegistersIndirect, 2)
  /\ Fits(DcbWaitUntilSafeForRendering, 7) /\ Fits(DcbSetFlip, 6) /\ Fits(DcbPopMarker, 2)
  /\ Fits(DcbDispatchIndirect, 3) /\ Fits(DcbStallCommandBufferParser, 2)
  /\ Fits(AcbResetQueue, 2) /\ Fits(AcbWriteData, 2) /\ Fits(AcbDispatchIndirect, 4)
<1> USE ShortFits, ShortNames, PlainKinds
<1>1. Fits(CbDispatch, 5)
  BY DEF CbDispatch
<1>2. Fits(DcbDrawIndexOffset, 5)
  BY DEF DcbDrawIndexOffset
<1>3. Fits(DcbSetIndexCount, 2) /\ Fits(DcbSetNumInstances, 2)
  BY DEF DcbSetIndexCount, DcbSetNumInstances
<1>4. /\ Fits(DcbSetCxRegistersIndirect, 2) /\ Fits(DcbSetShRegistersIndirect, 2)
      /\ Fits(DcbSetUcRegistersIndirect, 2)
  BY DEF DcbSetCxRegistersIndirect, DcbSetShRegistersIndirect, DcbSetUcRegistersIndirect
<1>5. Fits(DcbWaitUntilSafeForRendering, 7)
  BY DEF DcbWaitUntilSafeForRendering
<1>6. Fits(DcbSetFlip, 6)
  BY DEF DcbSetFlip
<1>7. Fits(DcbPopMarker, 2) /\ Fits(DcbStallCommandBufferParser, 2)
  BY DEF DcbPopMarker, DcbStallCommandBufferParser
<1>8. Fits(DcbDispatchIndirect, 3)
  BY DEF DcbDispatchIndirect
<1>9. Fits(AcbResetQueue, 2) /\ Fits(AcbWriteData, 2)
  BY DEF AcbResetQueue, AcbWriteData
<1>10. Fits(AcbDispatchIndirect, 4)
  BY DEF AcbDispatchIndirect
<1> QED
  BY <1>1, <1>2, <1>3, <1>4, <1>5, <1>6, <1>7, <1>8, <1>9, <1>10

\* A field repeated is a sequence of fields.
LEMMA RepeatedFields ==
  ASSUME NEW k \in Nat, NEW name
  PROVE  \E names : OfLength(names, k) /\ Repeated(k, name) = Fields(names)
<1> DEFINE names == [i \in 1 .. k |-> name]
<1>1. OfLength(names, k)
  BY DEF OfLength, ToSet
<1>2. Repeated(k, name) = Fields(names)
  BY DEF Repeated, Fields
<1> QED
  BY <1>1, <1>2

\* A packet with one field, repeated.
LEMMA RepeatedFits ==
  ASSUME NEW n \in 2 .. LenSpan + 1, NEW op, NEW reg, NEW name, ~Patchable(op, reg)
  PROVE  Fits(Chunk(n, <<Header(n, op, reg)>> \o Repeated(n - 1, name)), n)
<1> DEFINE m == n - 1
<1>1. m \in Nat /\ m \in 0 .. n - 1
  BY CommandBufferAssumption
<1> HIDE DEF m
<1>2. PICK names : OfLength(names, m) /\ Repeated(m, name) = Fields(names)
  BY <1>1, RepeatedFields
<1>3. Fits(Chunk(n, <<Header(n, op, reg)>> \o Fields(names)), n)
  BY <1>1, <1>2, PlainFits
<1> QED
  BY <1>2, <1>3 DEF m

\* The two builders of NOP packets.
LEMMA NopFits ==
  ASSUME NEW count \in Nat
  PROVE  Sound(Result(CbNop(count)))
<1>1. CASE count \in 2 .. LenSpan + 1
  <2>1. CbNop(count) = Chunk(count, <<Header(count, IT_NOP, "ZERO")>> \o Repeated(count - 1, "zero"))
    BY <1>1, CommandBufferAssumption DEF CbNop
  <2>2. ~Patchable(IT_NOP, "ZERO")
    BY PlainKinds
  <2>3. Fits(CbNop(count), count)
    BY <1>1, <2>1, <2>2, RepeatedFits
  <2> QED
    BY <2>3 DEF Fits
<1>2. CASE count \notin 2 .. LenSpan + 1
  <2>1. CbNop(count) = Refused
    BY <1>2, CommandBufferAssumption DEF CbNop
  <2> QED
    BY <2>1, RefusedFits DEF Fits
<1> QED
  BY <1>1, <1>2

\* A marker: one packet of the bytes that were read.
LEMMA MarkerFits ==
  ASSUME NEW bytes \in Nat
  PROVE  Sound(Result(DcbPushMarker(bytes)))
<1>1. CASE bytes = 0
  BY <1>1, RefusedFits DEF DcbPushMarker, Fits
<1>2. CASE bytes # 0
  <2> DEFINE read == IF bytes < MaxMarker THEN bytes ELSE MaxMarker
             payload == (read + 3) \div 4
             n == payload + 1
  <2>1. read \in 1 .. 4 * LenSpan
    BY <1>2, CommandBufferAssumption
  <2> HIDE DEF read
  <2>2. payload \in 1 .. LenSpan
    BY <2>1, CommandBufferAssumption
  <2>3. DcbPushMarker(bytes) = Chunk(payload + 1, <<Header(payload + 1, IT_NOP, "PUSH_MARKER")>>
                                                    \o Repeated(payload, "text"))
    BY <1>2 DEF DcbPushMarker, read
  <2> HIDE DEF payload
  <2>4. n \in 2 .. LenSpan + 1 /\ n - 1 = payload
    BY <2>2, CommandBufferAssumption
  <2>5. ~Patchable(IT_NOP, "PUSH_MARKER")
    BY PlainKinds
  <2>6. DcbPushMarker(bytes) = Chunk(n, <<Header(n, IT_NOP, "PUSH_MARKER")>> \o Repeated(n - 1, "text"))
    BY <2>3, <2>4
  <2> HIDE DEF n
  <2>7. Fits(DcbPushMarker(bytes), n)
    BY <2>4, <2>5, <2>6, RepeatedFits
  <2> QED
    BY <2>7 DEF Fits
<1> QED
  BY <1>1, <1>2

\* Calls that write a plain packet or none.
LEMMA PlainOrRefused ==
  ASSUME NEW i \in Nat, NEW j \in Nat
  PROVE  /\ Fits(DcbDrawIndexAuto(i), 7) /\ Fits(DcbSetIndexSize(i), 2)
         /\ Fits(DcbEventWrite(i, j), 2) /\ Fits(DcbResetQueue(i, j), 2)
         /\ Fits(DcbAcquireMem(i, j), 8) /\ Fits(AcbAcquireMem(i), 8)
         /\ Fits(DcbSetBaseIndirectArgs(i), 4) /\ Fits(AcbEventWrite(i), 4)
<1> USE ShortFits, ShortNames, PlainKinds, RefusedFits
<1>1. Fits(DcbDrawIndexAuto(i), 7)
  BY DEF DcbDrawIndexAuto
<1>2. Fits(DcbSetIndexSize(i), 2)
  BY DEF DcbSetIndexSize
<1>3. Fits(DcbEventWrite(i, j), 2)
  BY DEF DcbEventWrite
<1>4. Fits(DcbResetQueue(i, j), 2)
  BY DEF DcbResetQueue
<1>5. Fits(DcbAcquireMem(i, j), 8) /\ Fits(AcbAcquireMem(i), 8)
  BY DEF DcbAcquireMem, AcbAcquireMem, AcquireFields
<1>6. Fits(DcbSetBaseIndirectArgs(i), 4)
  BY DEF DcbSetBaseIndirectArgs
<1>7. Fits(AcbEventWrite(i), 4)
  <2>1. Fits(Packet(2, IT_EVENT_WRITE, "ZERO", <<"event">>), 2)
    OBVIOUS
  <2>2. Fits(Packet(2, IT_EVENT_WRITE, "ZERO", <<"event">>), 4)
    BY <2>1 DEF Fits, Sound, AreWords
  <2> QED
    BY <2>2 DEF AcbEventWrite
<1> QED
  BY <1>1, <1>2, <1>3, <1>4, <1>5, <1>6, <1>7

\* Fields after fields are the fields of the joined names.
LEMMA FieldsJoin ==
  ASSUME NEW T, NEW a \in Seq(T), NEW b \in Seq(T), NEW h
  PROVE  (<<h>> \o Fields(a)) \o Fields(b) = <<h>> \o Fields(a \o b)
<1> DEFINE E == {Field(x) : x \in T} \cup {h}
           m == Len(a)
           n == Len(b)
           F == Fields(a)
           G == Fields(b)
           c == a \o b
           N == Fields(c)
<1>1. /\ m \in Nat /\ n \in Nat
      /\ DOMAIN a = 1 .. m /\ DOMAIN b = 1 .. n
      /\ \A i \in 1 .. m : a[i] \in T
      /\ \A i \in 1 .. n : b[i] \in T
  OBVIOUS
<1>2. /\ c \in Seq(T) /\ Len(c) = m + n
      /\ \A i \in 1 .. m + n : c[i] = IF i <= m THEN a[i] ELSE b[i - m]
  BY ConcatProperties
<1>3. DOMAIN c = 1 .. m + n
  BY <1>2
<1> HIDE DEF c
<1>4. /\ F = [i \in 1 .. m |-> Field(a[i])]
      /\ G = [i \in 1 .. n |-> Field(b[i])]
      /\ N = [i \in 1 .. m + n |-> Field(c[i])]
  BY <1>1, <1>3 DEF Fields
<1> HIDE DEF m, n, F, G, N
<1>5. F \in [1 .. m -> E] /\ G \in [1 .. n -> E]
  BY <1>1, <1>4
<1> HIDE DEF E
<1>6. F \in Seq(E) /\ Len(F) = m /\ G \in Seq(E) /\ Len(G) = n
  BY <1>1, <1>5
<1>7. /\ F \o G \in Seq(E) /\ Len(F \o G) = m + n
      /\ \A i \in 1 .. m + n : (F \o G)[i] = IF i <= m THEN F[i] ELSE G[i - m]
  <2>1. /\ F \o G \in Seq(E) /\ Len(F \o G) = Len(F) + Len(G)
        /\ \A i \in 1 .. Len(F) + Len(G) :
             (F \o G)[i] = IF i <= Len(F) THEN F[i] ELSE G[i - Len(F)]
    BY <1>6, ConcatProperties
  <2> QED
    BY <1>6, <2>1
<1> DEFINE u == F \o G
<1> HIDE DEF u
<1>8. u \in Seq(E) /\ Len(u) = m + n
      /\ \A i \in 1 .. m + n : u[i] = IF i <= m THEN F[i] ELSE G[i - m]
  BY <1>7 DEF u
<1>9. ASSUME NEW i \in 1 .. m + n
      PROVE  u[i] = N[i]
  <2>1. CASE i <= m
    <3>1. i \in 1 .. m /\ c[i] = a[i]
      BY <1>1, <1>2, <2>1
    <3>2. u[i] = F[i] /\ F[i] = Field(a[i]) /\ N[i] = Field(c[i])
      BY <1>4, <1>8, <2>1, <3>1
    <3> QED
      BY <3>1, <3>2
  <2>2. CASE ~(i <= m)
    <3>1. i - m \in 1 .. n
      BY <1>1, <2>2
    <3> QED
      BY <1>1, <1>2, <1>4, <1>8, <2>2, <3>1
  <2> QED
    BY <2>1, <2>2
<1>10. u = N
  <2>1. u = [i \in 1 .. m + n |-> u[i]]
    BY <1>1, <1>8
  <2>2. N = [i \in 1 .. m + n |-> N[i]]
    BY <1>4
  <2> QED
    BY <1>9, <2>1, <2>2
<1>11. (<<h>> \o F) \o G = <<h>> \o u
  <2>1. <<h>> \in Seq(E)
    BY DEF E
  <2> QED
    BY <1>6, <2>1, ConcatAssociative DEF u
<1> QED
  BY <1>10, <1>11 DEF F, G, N, c

PacketOf(h, names) == <<h>> \o Fields(names)

\* Joined names, the last k of them one name, give the words of both.
MoreFollow(h, a, m, k, name) ==
  \E names : OfLength(names, m + k) /\ PacketOf(h, a) \o Repeated(k, name) = PacketOf(h, names)

\* Fields after the first ones, all of one name.
LEMMA MoreFields ==
  ASSUME NEW m \in Nat, NEW a, OfLength(a, m), NEW k \in Nat, NEW name, NEW h
  PROVE  MoreFollow(h, a, m, k, name)
<1>1. PICK b : OfLength(b, k) /\ Repeated(k, name) = Fields(b)
  BY RepeatedFields
<1> DEFINE T == ToSet(a) \cup ToSet(b)
<1>2. a \in Seq(T) /\ Len(a) = m /\ b \in Seq(T) /\ Len(b) = k
  BY <1>1 DEF OfLength
<1> HIDE DEF T
<1>3. (<<h>> \o Fields(a)) \o Fields(b) = <<h>> \o Fields(a \o b)
  BY <1>2, FieldsJoin
<1>4. a \o b \in Seq(T) /\ Len(a \o b) = m + k
  <2>1. a \o b \in Seq(T) /\ Len(a \o b) = Len(a) + Len(b)
    BY <1>2, ConcatProperties
  <2> QED
    BY <1>2, <2>1
<1> DEFINE c == a \o b
<1> HIDE DEF c
<1>5. c \in Seq(T) /\ Len(c) = m + k
  BY <1>4 DEF c
<1>6. OfLength(c, m + k)
  BY <1>5 DEF OfLength, ToSet
<1> QED
  BY <1>1, <1>3, <1>6 DEF c, PacketOf, MoreFollow

\* A register's offset is such a first field.
LEMMA RunFields ==
  ASSUME NEW k \in Nat, NEW h
  PROVE  \E names : /\ OfLength(names, 1 + k)
                    /\ <<h, Field("offset")>> \o Repeated(k, "value") = <<h>> \o Fields(names)
<1> DEFINE a == <<"offset">>
<1>1. OfLength(a, 1)
  BY ShortNames
<1>2. <<h>> \o Fields(a) = <<h, Field("offset")>>
  <2>1. Fields(a) = <<Field("offset")>>
    BY DEF Fields
  <2>2. <<h>> \o <<Field("offset")>> = <<h, Field("offset")>>
    <3> DEFINE f == Field("offset")
    <3> HIDE DEF f
    <3>1. <<h>> \in Seq({h, f}) /\ <<f>> \in Seq({h, f}) /\ Len(<<h>>) = 1 /\ Len(<<f>>) = 1
      OBVIOUS
    <3>2. Append(<<h>>, f) = <<h>> \o <<f>>
      BY <3>1, AppendIsConcat
    <3>3. Append(<<h>>, f) = <<h, f>>
      <4> DEFINE u == <<h>>
                 v == Append(u, f)
      <4>1. u \in Seq({h, f}) /\ f \in {h, f} /\ Len(u) = 1 /\ u[1] = h
        OBVIOUS
      <4> HIDE DEF u
      <4>2. v \in Seq({h, f}) /\ Len(v) = 2 /\ v[1] = h /\ v[2] = f
        <5>1. /\ v \in Seq({h, f}) /\ Len(v) = Len(u) + 1
              /\ v[Len(u) + 1] = f
              /\ \A i \in 1 .. Len(u) : v[i] = u[i]
          BY <4>1, AppendProperties
        <5>2. Len(u) + 1 = 2 /\ 1 \in 1 .. Len(u)
          BY <4>1
        <5> HIDE DEF v
        <5> QED
          BY <4>1, <5>1, <5>2
      <4> HIDE DEF v
      <4>3. v = <<h, f>>
        BY <4>2
      <4> QED
        BY <4>3 DEF u, v
    <3> QED
      BY <3>2, <3>3 DEF f
  <2> QED
    BY <2>1, <2>2
<1> HIDE DEF a
<1>3. MoreFollow(h, a, 1, k, "value")
  <2>1. 1 \in Nat
    OBVIOUS
  <2> QED
    BY <1>1, <2>1, MoreFields
<1> QED
  BY <1>2, <1>3 DEF PacketOf, MoreFollow

\* Data is as long as the header says; what could not be read is stale.
LEMMA WriteDataFits ==
  ASSUME NEW count \in Nat, NEW readable \in Nat
  PROVE  Sound(Result(DcbWriteData(count, readable)))
<1>1. CASE count > LenSpan - 3
  BY <1>1, RefusedFits DEF DcbWriteData, Fits
<1>2. CASE ~(count > LenSpan - 3)
  <2> DEFINE n == count + 4
             k == IF readable < count THEN readable ELSE count
             a == <<"control", "addr_lo", "addr_hi">>
             h == Header(n, IT_NOP, "WRITE_DATA")
  <2>1. DcbWriteData(count, readable) = Chunk(n, (<<h>> \o Fields(a)) \o Repeated(k, "data"))
    BY <1>2 DEF DcbWriteData
  <2>2. n \in 2 .. LenSpan + 1 /\ k \in Nat /\ 3 + k \in 0 .. n - 1
    BY <1>2, CommandBufferAssumption
  <2> HIDE DEF n, k
  <2>3. OfLength(a, 3)
    BY ShortNames
  <2> HIDE DEF a, h
  <2>4. PICK names : /\ OfLength(names, 3 + k)
                     /\ PacketOf(h, a) \o Repeated(k, "data") = PacketOf(h, names)
    <3>1. 3 \in Nat
      OBVIOUS
    <3>2. MoreFollow(h, a, 3, k, "data")
      BY <2>2, <2>3, <3>1, MoreFields
    <3> QED
      BY <3>2 DEF MoreFollow
  <2>5. ~Patchable(IT_NOP, "WRITE_DATA")
    BY PlainKinds
  <2>6. Fits(Chunk(n, <<h>> \o Fields(names)), n)
    BY <2>2, <2>4, <2>5, PlainFits DEF h
  <2> QED
    BY <2>1, <2>4, <2>6 DEF Fits, PacketOf
<1> QED
  BY <1>1, <1>2

\* Two packets in one allocation.
LEMMA IndexBufferFits == Sized(Written([alloc |-> 5, words |-> IndexBuffer]), 5)
<1> DEFINE p == Filled(3, IT_INDEX_BASE, "ZERO", <<"addr_lo", "addr_hi">>)
           q == Filled(2, IT_INDEX_BUFFER_SIZE, "ZERO", <<"count">>)
           w == Written([alloc |-> 5, words |-> IndexBuffer])
<1>1. /\ 3 \in 2 .. LenSpan + 1 /\ 2 \in 0 .. 3 - 1 /\ 2 \in 2 .. LenSpan + 1 /\ 1 \in 0 .. 2 - 1
      /\ OfLength(<<"addr_lo", "addr_hi">>, 2) /\ OfLength(<<"count">>, 1)
      /\ ~Patchable(IT_INDEX_BASE, "ZERO") /\ ~Patchable(IT_INDEX_BUFFER_SIZE, "ZERO")
  BY CommandBufferAssumption, ShortNames, PlainKinds
<1>2. /\ Sized(p, 3) /\ HasWords(p, 3, IT_INDEX_BASE, "ZERO", 2, <<"addr_lo", "addr_hi">>)
  BY <1>1, PlainPacket, WrittenWords
<1>3. /\ Sized(q, 2) /\ HasWords(q, 2, IT_INDEX_BUFFER_SIZE, "ZERO", 1, <<"count">>)
  BY <1>1, PlainPacket, WrittenWords
<1> HIDE DEF p, q
<1>4. /\ AreWords(p) /\ Len(p) = 3 /\ p[1] = IndexBuffer[1] /\ p[2] = IndexBuffer[2]
      /\ p[3] = IndexBuffer[3]
  <2>1. /\ AreWords(p) /\ Len(p) = 3 /\ p[1] = Header(3, IT_INDEX_BASE, "ZERO")
        /\ \A o \in 1 .. 2 : p[o + 1] = Field(<<"addr_lo", "addr_hi">>[o])
    BY <1>2 DEF HasWords
  <2>2. 1 \in 1 .. 2 /\ 2 \in 1 .. 2 /\ 1 + 1 = 2 /\ 2 + 1 = 3
    OBVIOUS
  <2>3. p[2] = Field("addr_lo") /\ p[3] = Field("addr_hi")
    BY <2>1, <2>2
  <2> QED
    BY <2>1, <2>3 DEF IndexBuffer
<1>5. /\ AreWords(q) /\ Len(q) = 2 /\ q[1] = IndexBuffer[4] /\ q[2] = IndexBuffer[5]
  <2>1. /\ AreWords(q) /\ Len(q) = 2 /\ q[1] = Header(2, IT_INDEX_BUFFER_SIZE, "ZERO")
        /\ \A o \in 1 .. 1 : q[o + 1] = Field(<<"count">>[o])
    BY <1>3 DEF HasWords
  <2>2. 1 \in 1 .. 1 /\ 1 + 1 = 2
    OBVIOUS
  <2>3. q[2] = Field("count")
    BY <2>1, <2>2
  <2> QED
    BY <2>1, <2>3 DEF IndexBuffer
<1>6. /\ Sound(p \o q) /\ Len(p \o q) = 5
      /\ \A i \in 1 .. 3 : (p \o q)[i] = p[i]
      /\ \A i \in 1 .. 2 : (p \o q)[3 + i] = q[i]
  <2>1. Sound(p) /\ Sound(q)
    BY <1>2, <1>3 DEF Sized
  <2>2. /\ Len(p \o q) = Len(p) + Len(q)
        /\ \A i \in 1 .. Len(p) : (p \o q)[i] = p[i]
        /\ \A i \in 1 .. Len(q) : (p \o q)[Len(p) + i] = q[i]
    <3>1. AreWords(p) /\ AreWords(q)
      BY <1>4, <1>5
    <3> QED
      BY <3>1, WordsJoin
  <2> QED
    BY <1>4, <1>5, <2>1, <2>2, JoinedIsSound
<1> DEFINE u == p \o q
<1> HIDE DEF u
<1>7. /\ Sound(u) /\ Len(u) = 5
      /\ \A i \in 1 .. 3 : u[i] = p[i]
      /\ \A i \in 1 .. 2 : u[3 + i] = q[i]
  BY <1>6 DEF u
<1>8. IndexBuffer = [i \in 1 .. 5 |-> IndexBuffer[i]]
  BY DEF IndexBuffer
<1>9. u = IndexBuffer
  <2>1. u = [i \in 1 .. 5 |-> u[i]]
    BY <1>7 DEF Sound, AreWords
  <2>2. u[1] = p[1] /\ u[2] = p[2] /\ u[3] = p[3]
    BY <1>7
  <2>3. u[4] = q[1] /\ u[5] = q[2]
    <3>1. 1 \in 1 .. 2 /\ 2 \in 1 .. 2 /\ 3 + 1 = 4 /\ 3 + 2 = 5
      OBVIOUS
    <3> QED
      BY <1>7, <3>1
  <2>4. \A i \in 1 .. 5 : u[i] = IndexBuffer[i]
    <3>1. \A i \in 1 .. 5 : i = 1 \/ i = 2 \/ i = 3 \/ i = 4 \/ i = 5
      OBVIOUS
    <3> QED
      BY <1>4, <1>5, <2>2, <2>3, <3>1
  <2> QED
    BY <1>8, <2>1, <2>4
<1>10. w = IndexBuffer
  <2>1. Len(IndexBuffer) = 5
    BY <1>8
  <2>2. w = IndexBuffer \o [i \in 1 .. 0 |-> Stale]
    <3> DEFINE c == [alloc |-> 5, words |-> IndexBuffer]
    <3>1. c.words = IndexBuffer /\ c.alloc - Len(c.words) = 0
      BY <2>1
    <3> HIDE DEF c
    <3>2. Written(c) = IndexBuffer \o [i \in 1 .. 0 |-> Stale]
      BY <3>1 DEF Written
    <3> QED
      BY <3>2 DEF c
  <2>3. [i \in 1 .. 0 |-> Stale] = << >>
    OBVIOUS
  <2>4. u \in Seq(ToSet(u))
    BY <1>7 DEF Sound, AreWords
  <2> QED
    BY <1>9, <2>2, <2>3, <2>4, ConcatEmptySeq
<1> QED
  BY <1>7, <1>9, <1>10 DEF Sized

\* The builders that set or draw indices.
LEMMA IndexCalls ==
  ASSUME NEW i \in Nat
  PROVE  Fits(DcbSetIndexBuffer, 5) /\ Fits(DcbDrawIndex(i), 11)
<1>1. Fits(DcbSetIndexBuffer, 5)
  <2>1. Result(DcbSetIndexBuffer) = Written([alloc |-> 5, words |-> IndexBuffer])
    BY FewResults DEF DcbSetIndexBuffer, Chunk
  <2> DEFINE w == Written([alloc |-> 5, words |-> IndexBuffer])
  <2>2. Sound(w) /\ Len(w) <= 5
    <3>1. Sized(w, 5)
      BY IndexBufferFits
    <3> HIDE DEF w
    <3> QED
      BY <3>1 DEF Sized
  <2> HIDE DEF w
  <2> QED
    BY <2>1, <2>2 DEF Fits, w
<1>2. Fits(DcbDrawIndex(i), 11)
  <2>1. CASE i # DrawModifier
    BY <2>1, RefusedFits DEF DcbDrawIndex
  <2>2. CASE i = DrawModifier
    <3> DEFINE names == <<"count", "addr_lo", "addr_hi", "count", "zero">>
               c == [alloc |-> 5, words |-> IndexBuffer]
               d == [alloc |-> 6, words |-> <<Header(6, IT_DRAW_INDEX_2, "ZERO")>> \o Fields(names)]
    <3>1. DcbDrawIndex(i) = <<c>> \o <<d>>
      BY <2>2 DEF DcbDrawIndex, Chunk, Packet
    <3>2. /\ 6 \in 2 .. LenSpan + 1 /\ 5 \in 0 .. 6 - 1 /\ OfLength(names, 5)
          /\ ~Patchable(IT_DRAW_INDEX_2, "ZERO")
      BY CommandBufferAssumption, ShortNames, PlainKinds
    <3> HIDE DEF names
    <3>3. Sized(Filled(6, IT_DRAW_INDEX_2, "ZERO", names), 6)
      BY <3>2, PlainPacket
    <3>4. Sized(Written(d), 6)
      BY <3>3 DEF Filled
    <3>5. Sized(Written(c), 5)
      BY IndexBufferFits
    <3> HIDE DEF c, d
    <3>6. Fits(<<c>> \o <<d>>, 5 + 6)
      BY <3>4, <3>5, TwoFit
    <3>7. 5 + 6 = 11
      OBVIOUS
    <3> QED
      BY <3>1, <3>6, <3>7
  <2> QED
    BY <2>1, <2>2
<1> QED
  BY <1>1, <1>2

\* A range of registers, after a marker.
LEMMA RangeFits ==
  ASSUME NEW offset \in Nat, NEW count \in 0 .. LenSpan - 1
  PROVE  Sound(Result(CbSetShRegisterRangeDirect(offset, count)))
<1>1. CASE offset = 0 \/ offset > 1023 \/ count = 0
  BY <1>1, RefusedFits DEF CbSetShRegisterRangeDirect, Fits
<1>2. CASE ~(offset = 0 \/ offset > 1023 \/ count = 0)
  <2> DEFINE n == count + 2
             a == <<"offset">>
             h == Header(n, IT_SET_SH_REG, "ZERO")
             c == [alloc |-> 2, words |-> <<Header(2, IT_NOP, "ZERO")>> \o Fields(<<"marker">>)]
             d == [alloc |-> n, words |-> <<h, Field("offset")>> \o Repeated(count, "value")]
  <2>1. CbSetShRegisterRangeDirect(offset, count) = <<c>> \o <<d>>
    BY <1>2 DEF CbSetShRegisterRangeDirect, Packet, Chunk
  <2>2. n \in 2 .. LenSpan + 1 /\ n \in Nat /\ count \in Nat /\ 1 + count \in 0 .. n - 1
    BY CommandBufferAssumption
  <2>3. Sized(Written(c), 2)
    <3>1. 2 \in 2 .. LenSpan + 1 /\ 1 \in 0 .. 2 - 1
      BY CommandBufferAssumption
    <3>2. OfLength(<<"marker">>, 1) /\ ~Patchable(IT_NOP, "ZERO")
      BY ShortNames, PlainKinds
    <3>3. Sized(Filled(2, IT_NOP, "ZERO", <<"marker">>), 2)
      BY <3>1, <3>2, PlainPacket
    <3> QED
      BY <3>3 DEF Filled
  <2>4. Sized(Written(d), n)
    <3> HIDE DEF n, h
    <3>2. PICK names : /\ OfLength(names, 1 + count)
                       /\ <<h, Field("offset")>> \o Repeated(count, "value") = <<h>> \o Fields(names)
      BY <2>2, RunFields
    <3>3. ~Patchable(IT_SET_SH_REG, "ZERO")
      BY PlainKinds
    <3>4. Sized(Filled(n, IT_SET_SH_REG, "ZERO", names), n)
      BY <2>2, <3>2, <3>3, PlainPacket
    <3> QED
      BY <3>2, <3>4 DEF Filled, h
  <2> HIDE DEF c, d, n
  <2>5. 2 \in Nat
    OBVIOUS
  <2>6. Fits(<<c>> \o <<d>>, 2 + n)
    BY <2>2, <2>3, <2>4, <2>5, TwoFit
  <2> QED
    BY <2>1, <2>6 DEF Fits
<1> QED
  BY <1>1, <1>2

\* The packets that patch functions take, in each of their layouts.
LEMMA DmaDataLayouts ==
  /\ Fits(Packet(8, IT_NOP, "DMA_DATA",
            <<"selectors", "control", "bytes", "dst_lo", "dst_hi", "src_lo", "src_hi">>), 8)
  /\ Fits(Packet(7, IT_NOP, "DMA_DATA",
            <<"dst_lo", "dst_hi", "src_lo", "src_hi", "bytes", "selectors">>), 7)
<1>0. IT_NOP # IT_WAIT_REG_MEM /\ 8 \in 2 .. LenSpan + 1 /\ 7 \in 2 .. LenSpan + 1
  BY CommandBufferAssumption DEF IT_NOP, IT_WAIT_REG_MEM
<1>1. ASSUME NEW h, h.op = IT_NOP, h.reg = "DMA_DATA", NEW patch \in Patches,
             PatchedWords(patch, h) # {}
      PROVE  \/ /\ patch = "dst"
                /\ PatchedWords(patch, h) = IF h.len + 2 = 7 THEN {1, 2} ELSE {4, 5}
             \/ /\ patch = "src"
                /\ PatchedWords(patch, h) = IF h.len + 2 = 7 THEN {3, 4} ELSE {6, 7}
  <2>1. WaitKind(h) = "none" /\ ~IsReleaseMem(h)
    BY <1>0, <1>1 DEF WaitKind, IsReleaseMem
  <2>2. patch \notin {"address", "compare", "reference", "mask", "eop_address", "eop_gcr", "eop_type"}
    BY <1>1, <2>1 DEF PatchedWords, WaitRegMemPatchAddress, WaitRegMemPatchCompareFunction,
       WaitRegMemPatchReference, WaitRegMemPatchMask, QueueEndOfPipeActionPatchAddress,
       QueueEndOfPipeActionPatchGcrCntl, QueueEndOfPipeActionPatchType
  <2>3. patch \in {"dst", "src"}
    BY <2>2 DEF Patches
  <2> QED
    BY <1>1, <2>3 DEF PatchedWords, DmaDataPatchSetDst, DmaDataPatchSetSrc
<1>2. Fits(Packet(8, IT_NOP, "DMA_DATA",
             <<"selectors", "control", "bytes", "dst_lo", "dst_hi", "src_lo", "src_hi">>), 8)
  <2> DEFINE h == Header(8, IT_NOP, "DMA_DATA")
             names == <<"selectors", "control", "bytes", "dst_lo", "dst_hi", "src_lo", "src_hi">>
  <2>1. h.op = IT_NOP /\ h.reg = "DMA_DATA" /\ h.len + 2 = 8
    BY <1>0, SmallHeader
  <2>2. OfLength(names, 7)
    BY ShortNames
  <2> HIDE DEF h
  <2>3. ASSUME NEW patch \in Patches, PatchedWords(patch, h) # {}
        PROVE  PatchedWords(patch, h) = {o \in 1 .. 7 : names[o] \in Target(patch)}
    BY <1>1, <2>1, <2>3 DEF Target
  <2> QED
    BY <1>0, <2>2, <2>3, PatchableFits DEF h
<1>3. Fits(Packet(7, IT_NOP, "DMA_DATA",
             <<"dst_lo", "dst_hi", "src_lo", "src_hi", "bytes", "selectors">>), 7)
  <2> DEFINE h == Header(7, IT_NOP, "DMA_DATA")
             names == <<"dst_lo", "dst_hi", "src_lo", "src_hi", "bytes", "selectors">>
  <2>1. h.op = IT_NOP /\ h.reg = "DMA_DATA" /\ h.len + 2 = 7
    BY <1>0, SmallHeader
  <2>2. OfLength(names, 6)
    BY ShortNames
  <2> HIDE DEF h
  <2>3. ASSUME NEW patch \in Patches, PatchedWords(patch, h) # {}
        PROVE  PatchedWords(patch, h) = {o \in 1 .. 6 : names[o] \in Target(patch)}
    BY <1>1, <2>1, <2>3 DEF Target
  <2> QED
    BY <1>0, <2>2, <2>3, PatchableFits DEF h
<1> QED
  BY <1>2, <1>3

\* The waits, with a 32-bit or a 64-bit reference.
LEMMA WaitLayouts ==
  /\ Fits(Packet(7, IT_WAIT_REG_MEM, "ZERO",
            <<"compare", "addr_lo", "addr_hi", "ref_lo", "mask_lo", "poll">>), 7)
  /\ Fits(Wait32(Wait32Fields), 6)
  /\ Fits(Wait64(Wait64Fields), 9)
<1>0. IT_NOP # IT_WAIT_REG_MEM /\ 7 \in 2 .. LenSpan + 1 /\ 6 \in 2 .. LenSpan + 1 /\ 9 \in 2 .. LenSpan + 1
  BY CommandBufferAssumption DEF IT_NOP, IT_WAIT_REG_MEM
<1>1. ASSUME NEW h,
             \/ h.op = IT_WAIT_REG_MEM
             \/ h.op = IT_NOP /\ h.reg \in {"WAIT_MEM32", "WAIT_MEM64"},
             NEW patch \in Patches, PatchedWords(patch, h) # {}
      PROVE  \/ patch = "address" /\ PatchedWords(patch, h) = WaitRegMemPatchAddress(h)
             \/ patch = "compare" /\ PatchedWords(patch, h) = WaitRegMemPatchCompareFunction(h)
             \/ patch = "reference" /\ PatchedWords(patch, h) = WaitRegMemPatchReference(h)
             \/ patch = "mask" /\ PatchedWords(patch, h) = WaitRegMemPatchMask(h)
  <2>1. ~IsReleaseMem(h)
    BY <1>0, <1>1 DEF IsReleaseMem
  <2>2. patch \notin {"dst", "src", "eop_address", "eop_gcr", "eop_type"}
    BY <1>0, <1>1, <2>1 DEF PatchedWords, DmaDataPatchSetDst, DmaDataPatchSetSrc,
       QueueEndOfPipeActionPatchAddress, QueueEndOfPipeActionPatchGcrCntl, QueueEndOfPipeActionPatchType
  <2>3. patch \in {"address", "compare", "reference", "mask"}
    BY <2>2 DEF Patches
  <2> QED
    BY <2>3 DEF PatchedWords
<1> USE DEF WaitRegMemPatchAddress, WaitRegMemPatchCompareFunction, WaitRegMemPatchReference,
            WaitRegMemPatchMask
<1>2. Fits(Packet(7, IT_WAIT_REG_MEM, "ZERO",
             <<"compare", "addr_lo", "addr_hi", "ref_lo", "mask_lo", "poll">>), 7)
  <2> DEFINE h == Header(7, IT_WAIT_REG_MEM, "ZERO")
             names == <<"compare", "addr_lo", "addr_hi", "ref_lo", "mask_lo", "poll">>
  <2>1. h.op = IT_WAIT_REG_MEM
    BY <1>0, SmallHeader
  <2>2. OfLength(names, 6) /\ WaitKind(h) = "standard"
    BY <2>1, ShortNames DEF WaitKind
  <2> HIDE DEF h
  <2>3. ASSUME NEW patch \in Patches, PatchedWords(patch, h) # {}
        PROVE  PatchedWords(patch, h) = {o \in 1 .. 6 : names[o] \in Target(patch)}
    BY <1>1, <2>1, <2>2, <2>3 DEF Target
  <2> QED
    BY <1>0, <2>2, <2>3, PatchableFits DEF h
<1>3. Fits(Wait32(Wait32Fields), 6)
  <2> DEFINE h == Header(6, IT_NOP, "WAIT_MEM32")
             names == <<"addr_lo", "addr_hi", "mask_lo", "compare", "ref_lo">>
  <2>1. h.op = IT_NOP /\ h.reg = "WAIT_MEM32"
    BY <1>0, SmallHeader
  <2>2. OfLength(names, 5) /\ WaitKind(h) = "mem32"
    BY <1>0, <2>1, ShortNames DEF WaitKind
  <2> HIDE DEF h
  <2>3. ASSUME NEW patch \in Patches, PatchedWords(patch, h) # {}
        PROVE  PatchedWords(patch, h) = {o \in 1 .. 5 : names[o] \in Target(patch)}
    BY <1>1, <2>1, <2>2, <2>3 DEF Target
  <2> QED
    BY <1>0, <2>2, <2>3, PatchableFits DEF h, Wait32, Wait32Fields
<1>4. Fits(Wait64(Wait64Fields), 9)
  <2> DEFINE h == Header(9, IT_NOP, "WAIT_MEM64")
             names == <<"addr_lo", "addr_hi", "mask_lo", "mask_hi", "ref_lo", "ref_hi", "compare", "poll">>
  <2>1. h.op = IT_NOP /\ h.reg = "WAIT_MEM64"
    BY <1>0, SmallHeader
  <2>2. OfLength(names, 8) /\ WaitKind(h) = "mem64"
    BY <1>0, <2>1, ShortNames DEF WaitKind
  <2> HIDE DEF h
  <2>3. ASSUME NEW patch \in Patches, PatchedWords(patch, h) # {}
        PROVE  PatchedWords(patch, h) = {o \in 1 .. 8 : names[o] \in Target(patch)}
    BY <1>1, <2>1, <2>2, <2>3 DEF Target
  <2> QED
    BY <1>0, <2>2, <2>3, PatchableFits DEF h, Wait64, Wait64Fields
<1> QED
  BY <1>2, <1>3, <1>4

\* The release at the end of a pipe.
LEMMA ReleaseMemLayout ==
  Fits(Packet(8, IT_NOP, "RELEASE_MEM",
         <<"action", "control", "addr_lo", "addr_hi", "data_lo", "data_hi", "zero">>), 8)
<1> DEFINE h == Header(8, IT_NOP, "RELEASE_MEM")
           names == <<"action", "control", "addr_lo", "addr_hi", "data_lo", "data_hi", "zero">>
<1>0. IT_NOP # IT_WAIT_REG_MEM /\ 8 \in 2 .. LenSpan + 1
  BY CommandBufferAssumption DEF IT_NOP, IT_WAIT_REG_MEM
<1>1. h.op = IT_NOP /\ h.reg = "RELEASE_MEM"
  BY <1>0, SmallHeader
<1>2. OfLength(names, 7) /\ WaitKind(h) = "none" /\ IsReleaseMem(h)
  BY <1>0, <1>1, ShortNames DEF WaitKind, IsReleaseMem
<1> HIDE DEF h
<1>3. ASSUME NEW patch \in Patches, PatchedWords(patch, h) # {}
      PROVE  PatchedWords(patch, h) = {o \in 1 .. 7 : names[o] \in Target(patch)}
  <2>1. patch \notin {"dst", "src", "address", "compare", "reference", "mask"}
    BY <1>1, <1>2, <1>3 DEF PatchedWords, DmaDataPatchSetDst, DmaDataPatchSetSrc, WaitRegMemPatchAddress,
       WaitRegMemPatchCompareFunction, WaitRegMemPatchReference, WaitRegMemPatchMask
  <2>2. patch \in {"eop_address", "eop_gcr", "eop_type"}
    BY <2>1 DEF Patches
  <2>3. \/ patch = "eop_address" /\ PatchedWords(patch, h) = {3, 4}
        \/ patch \in {"eop_gcr", "eop_type"} /\ PatchedWords(patch, h) = {2}
    BY <1>2, <2>2 DEF PatchedWords, QueueEndOfPipeActionPatchAddress,
       QueueEndOfPipeActionPatchGcrCntl, QueueEndOfPipeActionPatchType
  <2> QED
    BY <2>3 DEF Target
<1> QED
  BY <1>0, <1>2, <1>3, PatchableFits DEF h

\* The builders of packets that patch functions take.
LEMMA PatchableCalls ==
  ASSUME NEW i \in Nat, NEW j \in Nat
  PROVE  /\ Fits(CbReleaseMem(i, j), 8) /\ Fits(DcbDmaData(i), 8) /\ Fits(AcbDmaData(i), 8)
         /\ Fits(DcbWaitRegMem(i, j), 9) /\ Fits(AcbWaitRegMem(i), 9)
<1>1. \A chunks, m : m \in Nat /\ m <= 9 /\ Fits(chunks, m)
                       => (m <= 8 => Fits(chunks, 8)) /\ Fits(chunks, 9)
  BY DEF Fits, Sound, AreWords
<1>2. Fits(CbReleaseMem(i, j), 8)
  BY ReleaseMemLayout, RefusedFits DEF CbReleaseMem
<1>3. Fits(DcbDmaData(i), 8)
  BY DmaDataLayouts, RefusedFits DEF DcbDmaData
<1>4. Fits(AcbDmaData(i), 8)
  <2>1. CASE i = 0
    BY <2>1, RefusedFits DEF AcbDmaData
  <2>2. CASE i # 0
    BY <1>1, <2>2, DmaDataLayouts DEF AcbDmaData
  <2> QED
    BY <2>1, <2>2
<1>5. /\ Fits(Packet(7, IT_WAIT_REG_MEM, "ZERO",
                <<"compare", "addr_lo", "addr_hi", "ref_lo", "mask_lo", "poll">>), 9)
      /\ Fits(Wait32(Wait32Fields), 9) /\ Fits(Wait64(Wait64Fields), 9) /\ Fits(Refused, 9)
  BY <1>1, WaitLayouts, RefusedFits
<1>6. Fits(DcbWaitRegMem(i, j), 9)
  BY <1>5 DEF DcbWaitRegMem
<1>7. Fits(AcbWaitRegMem(i), 9)
  BY <1>5 DEF AcbWaitRegMem
<1> QED
  BY <1>2, <1>3, <1>4, <1>6, <1>7

\* The next run lengths r at offset i of some sorted offsets.
NextRuns(sorted, i, r) ==
  IF i > 1 /\ sorted[i] = sorted[i - 1] + 1
    THEN [r EXCEPT ![Len(r)] = @ + 1] ELSE Append(r, 1)

\* The run lengths of the first n offsets.
RunsTo(sorted, n, g) ==
  g = [i \in 0 .. n |-> IF i = 0 THEN << >> ELSE NextRuns(sorted, i, g[i - 1])]

\* The same value by value.
RunsEach(sorted, n, g) ==
  \A i \in 0 .. n : g[i] = IF i = 0 THEN << >> ELSE NextRuns(sorted, i, g[i - 1])

\* The run lengths at each number.
LEMMA RunsAt ==
  ASSUME NEW sorted, NEW n \in Nat, NEW g, RunsTo(sorted, n, g)
  PROVE  RunsEach(sorted, n, g)
<1> DEFINE k == [i \in 0 .. n |-> IF i = 0 THEN << >> ELSE NextRuns(sorted, i, g[i - 1])]
<1>1. g = k
  BY DEF RunsTo
<1>2. \A i \in 0 .. n : k[i] = IF i = 0 THEN << >> ELSE NextRuns(sorted, i, g[i - 1])
  OBVIOUS
<1> HIDE DEF k
<1>3. \A i \in 0 .. n : g[i] = k[i]
  BY <1>1
<1> QED
  BY <1>2, <1>3 DEF RunsEach

\* Such run lengths are there for every number of offsets.
LEMMA RunsExist ==
  ASSUME NEW sorted, NEW n \in Nat
  PROVE  \E g : RunsTo(sorted, n, g)
<1> DEFINE T == {m \in Nat : \E g : RunsTo(sorted, m, g)}
<1>1. 0 \in T
  <2> DEFINE g == [i \in 0 .. 0 |-> << >>]
  <2>1. g = [i \in 0 .. 0 |-> IF i = 0 THEN << >> ELSE NextRuns(sorted, i, g[i - 1])]
    OBVIOUS
  <2>2. RunsTo(sorted, 0, g)
    BY <2>1 DEF RunsTo
  <2> QED
    BY <2>2
<1>2. \A m \in T : m + 1 \in T
  <2> SUFFICES ASSUME NEW m \in Nat, NEW g, RunsTo(sorted, m, g)
               PROVE  \E h : RunsTo(sorted, m + 1, h)
    OBVIOUS
  <2>1. \A i \in 0 .. m : g[i] = IF i = 0 THEN << >> ELSE NextRuns(sorted, i, g[i - 1])
    BY RunsAt DEF RunsEach
  <2> DEFINE h == [i \in 0 .. m + 1 |->
                     IF i = 0 THEN << >> ELSE NextRuns(sorted, i, g[i - 1])]
             k == [i \in 0 .. m + 1 |->
                     IF i = 0 THEN << >> ELSE NextRuns(sorted, i, h[i - 1])]
  <2>2. \A i \in 0 .. m : h[i] = g[i]
    BY <2>1
  <2>3. \A i \in 0 .. m + 1 : h[i] = k[i]
    <3> TAKE i \in 0 .. m + 1
    <3>1. CASE i = 0
      BY <3>1
    <3>2. CASE i # 0
      <4>1. i - 1 \in 0 .. m
        BY <3>2
      <4>2. h[i - 1] = g[i - 1]
        BY <2>2, <4>1
      <4>3. h[i] = NextRuns(sorted, i, g[i - 1])
        BY <3>2
      <4>4. k[i] = NextRuns(sorted, i, h[i - 1])
        BY <3>2
      <4> QED
        BY <4>2, <4>3, <4>4
    <3> QED
      BY <3>1, <3>2
  <2>4. h = k
    BY <2>3
  <2>5. RunsTo(sorted, m + 1, h)
    BY <2>4 DEF RunsTo
  <2> QED
    BY <2>5
<1> HIDE DEF T
<1>3. T = Nat
  BY <1>1, <1>2, NumbersFromZero DEF T
<1> QED
  BY <1>3 DEF T

\* No run is longer than the offsets it is made of.
LEMMA RunsAreBounded ==
  ASSUME NEW sorted, Len(sorted) \in Nat
  PROVE  Runs(sorted)[Len(sorted)] \in Seq(1 .. Len(sorted))
<1> DEFINE n == Len(sorted)
           g == CHOOSE g : g = [i \in 0 .. n |->
                  IF i = 0 THEN << >>
                  ELSE IF i > 1 /\ sorted[i] = sorted[i - 1] + 1
                    THEN [g[i - 1] EXCEPT ![Len(g[i - 1])] = @ + 1]
                  ELSE Append(g[i - 1], 1)]
<1>1. RunsTo(sorted, n, g)
  <2>1. \E h : h = [i \in 0 .. n |->
                  IF i = 0 THEN << >>
                  ELSE IF i > 1 /\ sorted[i] = sorted[i - 1] + 1
                    THEN [h[i - 1] EXCEPT ![Len(h[i - 1])] = @ + 1]
                  ELSE Append(h[i - 1], 1)]
    <3>1. PICK h : RunsTo(sorted, n, h)
      BY RunsExist
    <3>2. h = [i \in 0 .. n |->
                  IF i = 0 THEN << >>
                  ELSE IF i > 1 /\ sorted[i] = sorted[i - 1] + 1
                    THEN [h[i - 1] EXCEPT ![Len(h[i - 1])] = @ + 1]
                  ELSE Append(h[i - 1], 1)]
      BY <3>1, Zenon DEF RunsTo, NextRuns
    <3> QED
      BY <3>2, Zenon
  <2>2. g = [i \in 0 .. n |->
                  IF i = 0 THEN << >>
                  ELSE IF i > 1 /\ sorted[i] = sorted[i - 1] + 1
                    THEN [g[i - 1] EXCEPT ![Len(g[i - 1])] = @ + 1]
                  ELSE Append(g[i - 1], 1)]
    BY <2>1, Zenon
  <2> QED
    BY <2>2 DEF RunsTo, NextRuns
<1>2. Runs(sorted) = g
  BY DEF Runs
<1> HIDE DEF g, n
<1>3. \A i \in 0 .. n : g[i] = IF i = 0 THEN << >> ELSE NextRuns(sorted, i, g[i - 1])
  BY <1>1, RunsAt DEF RunsEach, n
<1> DEFINE Good(m) == m \in 0 .. n => g[m] \in Seq(1 .. m) /\ (m > 0 => g[m] # << >>)
           T == {m \in Nat : Good(m)}
<1>4. 0 \in T
  <2>1. 0 \in 0 .. n
    BY DEF n
  <2>2. g[0] = << >>
    BY <1>3, <2>1
  <2>3. << >> \in Seq(1 .. 0) /\ ~(0 > 0) /\ 0 \in Nat
    OBVIOUS
  <2>4. Good(0)
    BY <2>2, <2>3
  <2> HIDE DEF Good
  <2> QED
    BY <2>3, <2>4
<1>5. \A m \in T : m + 1 \in T
  <2> SUFFICES ASSUME NEW m \in Nat, Good(m), m + 1 \in 0 .. n
               PROVE  g[m + 1] \in Seq(1 .. m + 1) /\ g[m + 1] # << >>
    OBVIOUS
  <2> DEFINE r == g[m]
  <2>1. g[m + 1] = NextRuns(sorted, m + 1, r)
    <3>1. (m + 1) - 1 = m /\ m + 1 # 0
      OBVIOUS
    <3> QED
      BY <1>3, <3>1
  <2>2. r \in Seq(1 .. m) /\ (m > 0 => r # << >>)
    BY DEF n
  <2> HIDE DEF r
  <2>3. r \in Seq(1 .. m + 1)
    <3>1. Len(r) \in Nat /\ DOMAIN r = 1 .. Len(r) /\ \A i \in 1 .. Len(r) : r[i] \in 1 .. m + 1
      BY <2>2
    <3>2. r = [i \in 1 .. Len(r) |-> r[i]]
      BY <2>2
    <3>3. r \in [1 .. Len(r) -> 1 .. m + 1]
      BY <3>1, <3>2
    <3> QED
      BY <3>1, <3>3
  <2>4. CASE m + 1 > 1 /\ sorted[m + 1] = sorted[(m + 1) - 1] + 1
    <3> DEFINE s == [r EXCEPT ![Len(r)] = @ + 1]
    <3>1. g[m + 1] = s
      BY <2>1, <2>4 DEF NextRuns
    <3>2. Len(r) \in Nat /\ Len(r) > 0 /\ r[Len(r)] \in 1 .. m
      BY <2>2, <2>4
    <3>3. s \in Seq(1 .. m + 1) /\ Len(s) = Len(r)
      BY <2>3, <3>2
    <3> HIDE DEF s
    <3> QED
      BY <3>1, <3>2, <3>3
  <2>5. CASE ~(m + 1 > 1 /\ sorted[m + 1] = sorted[(m + 1) - 1] + 1)
    <3>1. g[m + 1] = Append(r, 1)
      BY <2>1, <2>5 DEF NextRuns
    <3>2. 1 \in 1 .. m + 1
      OBVIOUS
    <3>3. Append(r, 1) \in Seq(1 .. m + 1) /\ Append(r, 1) # << >>
      BY <2>3, <3>2, AppendProperties
    <3> QED
      BY <3>1, <3>3
  <2> QED
    BY <2>4, <2>5
<1> HIDE DEF T
<1>6. T = Nat
  BY <1>4, <1>5, NumbersFromZero DEF T
<1>7. n \in Nat /\ n \in 0 .. n
  BY DEF n
<1>8. g[n] \in Seq(1 .. n)
  BY <1>6, <1>7 DEF T
<1> QED
  BY <1>2, <1>8 DEF n

\* Registers in runs: a packet for each.
LEMMA DirectFits ==
  ASSUME NEW offsets \in Seq(Nat)
  PROVE  Sound(Result(CbSetShRegistersDirect(offsets)))
<1>1. CASE offsets = << >> \/ Len(offsets) > MaxRegs
  BY <1>1, RefusedFits DEF CbSetShRegistersDirect, Fits
<1>2. CASE ~(offsets = << >> \/ Len(offsets) > MaxRegs)
  <2> DEFINE s == Sorted(offsets)
             n == Len(offsets)
             runs == Runs(s)[n]
             chunk(i) == [alloc |-> runs[i] + 2,
                          words |-> <<Header(runs[i] + 2, IT_SET_SH_REG, "ZERO"), Field("offset")>>
                                      \o Repeated(runs[i], "value")]
             seqs == [i \in DOMAIN runs |-> Written(chunk(i))]
  <2>1. CbSetShRegistersDirect(offsets) = [i \in DOMAIN runs |-> chunk(i)]
    BY <1>2 DEF CbSetShRegistersDirect
  <2>2. n \in Nat /\ n <= LenSpan - 1 /\ Len(s) = n
    <3>1. n \in Nat /\ DOMAIN offsets = 1 .. n
      OBVIOUS
    <3>2. Len(s) = n
      BY <3>1 DEF Sorted
    <3> QED
      BY <1>2, <3>1, <3>2, CommandBufferAssumption
  <2> HIDE DEF s, n
  <2>3. runs \in Seq(1 .. n)
    <3>1. Runs(s)[Len(s)] \in Seq(1 .. Len(s))
      BY <2>2, RunsAreBounded
    <3> QED
      BY <2>2, <3>1
  <2> HIDE DEF runs
  <2>4. Len(runs) \in Nat /\ DOMAIN runs = 1 .. Len(runs)
        /\ \A i \in 1 .. Len(runs) : runs[i] \in 1 .. n
    <3> DEFINE R == 1 .. n
    <3>1. runs \in Seq(R)
      BY <2>3
    <3> HIDE DEF R
    <3>2. Len(runs) \in Nat /\ DOMAIN runs = 1 .. Len(runs) /\ \A i \in 1 .. Len(runs) : runs[i] \in R
      BY <3>1
    <3> QED
      BY <3>2 DEF R
  <2>5. ASSUME NEW i \in 1 .. Len(runs)
        PROVE  Sound(Written(chunk(i)))
    <3> DEFINE k == runs[i]
               h == Header(k + 2, IT_SET_SH_REG, "ZERO")
    <3>1. k \in 1 .. n /\ k \in Nat /\ k + 2 \in 2 .. LenSpan + 1 /\ 1 + k \in 0 .. (k + 2) - 1
      BY <2>2, <2>4, CommandBufferAssumption
    <3>2. chunk(i) = [alloc |-> k + 2, words |-> <<h, Field("offset")>> \o Repeated(k, "value")]
      OBVIOUS
    <3> HIDE DEF k, chunk, h
    <3>3. PICK names : /\ OfLength(names, 1 + k)
                       /\ <<h, Field("offset")>> \o Repeated(k, "value") = <<h>> \o Fields(names)
      BY <3>1, RunFields
    <3>4. ~Patchable(IT_SET_SH_REG, "ZERO")
      BY PlainKinds
    <3>5. Sized(Filled(k + 2, IT_SET_SH_REG, "ZERO", names), k + 2)
      BY <3>1, <3>3, <3>4, PlainPacket
    <3> QED
      BY <3>2, <3>3, <3>5 DEF Filled, Sized, h
  <2> HIDE DEF chunk
  <2>6. Result(CbSetShRegistersDirect(offsets)) = FlattenSeq(seqs)
    <3> DEFINE cs == [i \in DOMAIN runs |-> chunk(i)]
    <3>1. DOMAIN cs = DOMAIN runs /\ \A i \in DOMAIN runs : cs[i] = chunk(i)
      OBVIOUS
    <3> HIDE DEF cs
    <3>2. [i \in DOMAIN cs |-> Written(cs[i])] = seqs
      BY <3>1
    <3> QED
      BY <2>1, <3>2 DEF Result, cs
  <2>7. seqs = [i \in 1 .. Len(runs) |-> seqs[i]] /\ \A i \in 1 .. Len(runs) : Sound(seqs[i])
    BY <2>4, <2>5
  <2> HIDE DEF seqs
  <2>8. Sound(FlattenSeq(seqs))
    BY <2>4, <2>7, FlatIsSound
  <2> QED
    BY <2>6, <2>8
<1> QED
  BY <1>1, <1>2

\* The announced sizes.
LEMMA Announced ==
  /\ FixedSize \subseteq {"CbDispatch", "DcbDrawIndex", "DcbDrawIndexAuto", "DcbDrawIndexOffset",
       "DcbSetIndexCount", "DcbDmaData", "DcbStallCommandBufferParser", "AcbDmaData",
       "AcbEventWrite", "AcbAcquireMem", "DcbAcquireMem", "DcbSetCxRegistersIndirect",
       "DcbSetShRegistersIndirect", "DcbDispatchIndirect", "DcbSetIndexBuffer",
       "CbReleaseMem", "DcbEventWrite"}
  /\ AnnouncedWords["CbDispatch"] = 5 /\ AnnouncedWords["DcbDrawIndex"] = 11
  /\ AnnouncedWords["DcbDrawIndexAuto"] = 7 /\ AnnouncedWords["DcbDrawIndexOffset"] = 5
  /\ AnnouncedWords["DcbSetIndexCount"] >= 2 /\ AnnouncedWords["DcbDmaData"] = 8
  /\ AnnouncedWords["DcbStallCommandBufferParser"] = 2 /\ AnnouncedWords["AcbDmaData"] = 8
  /\ AnnouncedWords["AcbEventWrite"] = 4 /\ AnnouncedWords["AcbAcquireMem"] = 8
  /\ AnnouncedWords["DcbAcquireMem"] = 8 /\ AnnouncedWords["DcbSetCxRegistersIndirect"] = 2
  /\ AnnouncedWords["DcbSetShRegistersIndirect"] = 2 /\ AnnouncedWords["DcbDispatchIndirect"] = 3
  /\ AnnouncedWords["DcbSetIndexBuffer"] = 5 /\ AnnouncedWords["CbReleaseMem"] = 8
  /\ AnnouncedWords["DcbEventWrite"] = 4
  /\ \A name \in FixedSize : AnnouncedWords[name] \in Nat
BY DEF FixedSize, AnnouncedWords

\* What a call's allocations have to be.
Kept(name, chunks) ==
  /\ Sound(Result(chunks))
  /\ name \in FixedSize => Len(Result(chunks)) <= AnnouncedWords[name]

\* A call that fits keeps what it has to.
LEMMA FitsIsKept ==
  ASSUME NEW name, NEW chunks, NEW k \in Nat, Fits(chunks, k),
         name \in FixedSize => k <= AnnouncedWords[name]
  PROVE  Kept(name, chunks)
<1>1. Len(Result(chunks)) \in Nat /\ Len(Result(chunks)) <= k
  BY DEF Fits, Sound, AreWords
<1>2. name \in FixedSize => AnnouncedWords[name] \in Nat
  BY Announced
<1> QED
  BY <1>1, <1>2 DEF Kept, Fits

\* Calls without arguments.
LEMMA NoneKept ==
  /\ Kept("CbDispatch", CbDispatch)
  /\ Kept("DcbDrawIndexOffset", DcbDrawIndexOffset)
  /\ Kept("DcbSetIndexCount", DcbSetIndexCount)
  /\ Kept("DcbSetNumInstances", DcbSetNumInstances)
  /\ Kept("DcbSetCxRegistersIndirect", DcbSetCxRegistersIndirect)
  /\ Kept("DcbSetShRegistersIndirect", DcbSetShRegistersIndirect)
  /\ Kept("DcbSetUcRegistersIndirect", DcbSetUcRegistersIndirect)
  /\ Kept("DcbWaitUntilSafeForRendering", DcbWaitUntilSafeForRendering)
  /\ Kept("DcbSetFlip", DcbSetFlip)
  /\ Kept("DcbPopMarker", DcbPopMarker)
  /\ Kept("DcbSetIndexBuffer", DcbSetIndexBuffer)
  /\ Kept("DcbDispatchIndirect", DcbDispatchIndirect)
  /\ Kept("DcbStallCommandBufferParser", DcbStallCommandBufferParser)
  /\ Kept("AcbResetQueue", AcbResetQueue)
  /\ Kept("AcbWriteData", AcbWriteData)
  /\ Kept("AcbDispatchIndirect", AcbDispatchIndirect)
<1>1. Kept("CbDispatch", CbDispatch)
  <2>1. Fits(CbDispatch, 5) /\ 5 \in Nat
    BY PlainCalls
  <2> QED
    BY <2>1, FitsIsKept, Announced
<1>2. Kept("DcbDrawIndexOffset", DcbDrawIndexOffset)
  <2>1. Fits(DcbDrawIndexOffset, 5) /\ 5 \in Nat
    BY PlainCalls
  <2> QED
    BY <2>1, FitsIsKept, Announced
<1>3. Kept("DcbSetIndexCount", DcbSetIndexCount)
  <2>1. Fits(DcbSetIndexCount, 2) /\ 2 \in Nat
    BY PlainCalls
  <2> QED
    BY <2>1, FitsIsKept, Announced
<1>4. Kept("DcbSetNumInstances", DcbSetNumInstances)
  <2>1. Fits(DcbSetNumInstances, 2) /\ 2 \in Nat
    BY PlainCalls
  <2> QED
    BY <2>1, FitsIsKept, Announced
<1>5. Kept("DcbSetCxRegistersIndirect", DcbSetCxRegistersIndirect)
  <2>1. Fits(DcbSetCxRegistersIndirect, 2) /\ 2 \in Nat
    BY PlainCalls
  <2> QED
    BY <2>1, FitsIsKept, Announced
<1>6. Kept("DcbSetShRegistersIndirect", DcbSetShRegistersIndirect)
  <2>1. Fits(DcbSetShRegistersIndirect, 2) /\ 2 \in Nat
    BY PlainCalls
  <2> QED
    BY <2>1, FitsIsKept, Announced
<1>7. Kept("DcbSetUcRegistersIndirect", DcbSetUcRegistersIndirect)
  <2>1. Fits(DcbSetUcRegistersIndirect, 2) /\ 2 \in Nat
    BY PlainCalls
  <2> QED
    BY <2>1, FitsIsKept, Announced
<1>8. Kept("DcbWaitUntilSafeForRendering", DcbWaitUntilSafeForRendering)
  <2>1. Fits(DcbWaitUntilSafeForRendering, 7) /\ 7 \in Nat
    BY PlainCalls
  <2> QED
    BY <2>1, FitsIsKept, Announced
<1>9. Kept("DcbSetFlip", DcbSetFlip)
  <2>1. Fits(DcbSetFlip, 6) /\ 6 \in Nat
    BY PlainCalls
  <2> QED
    BY <2>1, FitsIsKept, Announced
<1>10. Kept("DcbPopMarker", DcbPopMarker)
  <2>1. Fits(DcbPopMarker, 2) /\ 2 \in Nat
    BY PlainCalls
  <2> QED
    BY <2>1, FitsIsKept, Announced
<1>11. Kept("DcbSetIndexBuffer", DcbSetIndexBuffer)
  <2>1. Fits(DcbSetIndexBuffer, 5) /\ 5 \in Nat
    BY IndexCalls
  <2> QED
    BY <2>1, FitsIsKept, Announced
<1>12. Kept("DcbDispatchIndirect", DcbDispatchIndirect)
  <2>1. Fits(DcbDispatchIndirect, 3) /\ 3 \in Nat
    BY PlainCalls
  <2> QED
    BY <2>1, FitsIsKept, Announced
<1>13. Kept("DcbStallCommandBufferParser", DcbStallCommandBufferParser)
  <2>1. Fits(DcbStallCommandBufferParser, 2) /\ 2 \in Nat
    BY PlainCalls
  <2> QED
    BY <2>1, FitsIsKept, Announced
<1>14. Kept("AcbResetQueue", AcbResetQueue)
  <2>1. Fits(AcbResetQueue, 2) /\ 2 \in Nat
    BY PlainCalls
  <2> QED
    BY <2>1, FitsIsKept, Announced
<1>15. Kept("AcbWriteData", AcbWriteData)
  <2>1. Fits(AcbWriteData, 2) /\ 2 \in Nat
    BY PlainCalls
  <2> QED
    BY <2>1, FitsIsKept, Announced
<1>16. Kept("AcbDispatchIndirect", AcbDispatchIndirect)
  <2>1. Fits(AcbDispatchIndirect, 4) /\ 4 \in Nat
    BY PlainCalls
  <2> QED
    BY <2>1, FitsIsKept, Announced
<1> QED
  BY <1>1, <1>2, <1>3, <1>4, <1>5, <1>6, <1>7, <1>8,
     <1>9, <1>10, <1>11, <1>12, <1>13, <1>14, <1>15, <1>16

\* Calls with one number or two.
LEMMA NumbersKept ==
  ASSUME NEW i \in Nat, NEW j \in Nat
  PROVE  /\ Kept("DcbDrawIndex", DcbDrawIndex(i))
         /\ Kept("DcbDrawIndexAuto", DcbDrawIndexAuto(i))
         /\ Kept("DcbSetIndexSize", DcbSetIndexSize(i))
         /\ Kept("DcbDmaData", DcbDmaData(i))
         /\ Kept("DcbSetBaseIndirectArgs", DcbSetBaseIndirectArgs(i))
         /\ Kept("AcbEventWrite", AcbEventWrite(i))
         /\ Kept("AcbWaitRegMem", AcbWaitRegMem(i))
         /\ Kept("AcbDmaData", AcbDmaData(i))
         /\ Kept("AcbAcquireMem", AcbAcquireMem(i))
         /\ Kept("CbReleaseMem", CbReleaseMem(i, j))
         /\ Kept("DcbWaitRegMem", DcbWaitRegMem(i, j))
         /\ Kept("DcbEventWrite", DcbEventWrite(i, j))
         /\ Kept("DcbResetQueue", DcbResetQueue(i, j))
         /\ Kept("DcbAcquireMem", DcbAcquireMem(i, j))
<1>1. Kept("DcbDrawIndex", DcbDrawIndex(i))
  <2>1. Fits(DcbDrawIndex(i), 11) /\ 11 \in Nat
    BY IndexCalls
  <2> QED
    BY <2>1, FitsIsKept, Announced
<1>2. Kept("DcbDrawIndexAuto", DcbDrawIndexAuto(i))
  <2>1. Fits(DcbDrawIndexAuto(i), 7) /\ 7 \in Nat
    BY PlainOrRefused
  <2> QED
    BY <2>1, FitsIsKept, Announced
<1>3. Kept("DcbSetIndexSize", DcbSetIndexSize(i))
  <2>1. Fits(DcbSetIndexSize(i), 2) /\ 2 \in Nat
    BY PlainOrRefused
  <2> QED
    BY <2>1, FitsIsKept, Announced
<1>4. Kept("DcbDmaData", DcbDmaData(i))
  <2>1. Fits(DcbDmaData(i), 8) /\ 8 \in Nat
    BY PatchableCalls
  <2> QED
    BY <2>1, FitsIsKept, Announced
<1>5. Kept("DcbSetBaseIndirectArgs", DcbSetBaseIndirectArgs(i))
  <2>1. Fits(DcbSetBaseIndirectArgs(i), 4) /\ 4 \in Nat
    BY PlainOrRefused
  <2> QED
    BY <2>1, FitsIsKept, Announced
<1>6. Kept("AcbEventWrite", AcbEventWrite(i))
  <2>1. Fits(AcbEventWrite(i), 4) /\ 4 \in Nat
    BY PlainOrRefused
  <2> QED
    BY <2>1, FitsIsKept, Announced
<1>7. Kept("AcbWaitRegMem", AcbWaitRegMem(i))
  <2>1. Fits(AcbWaitRegMem(i), 9) /\ 9 \in Nat
    BY PatchableCalls
  <2> QED
    BY <2>1, FitsIsKept, Announced
<1>8. Kept("AcbDmaData", AcbDmaData(i))
  <2>1. Fits(AcbDmaData(i), 8) /\ 8 \in Nat
    BY PatchableCalls
  <2> QED
    BY <2>1, FitsIsKept, Announced
<1>9. Kept("AcbAcquireMem", AcbAcquireMem(i))
  <2>1. Fits(AcbAcquireMem(i), 8) /\ 8 \in Nat
    BY PlainOrRefused
  <2> QED
    BY <2>1, FitsIsKept, Announced
<1>10. Kept("CbReleaseMem", CbReleaseMem(i, j))
  <2>1. Fits(CbReleaseMem(i, j), 8) /\ 8 \in Nat
    BY PatchableCalls
  <2> QED
    BY <2>1, FitsIsKept, Announced
<1>11. Kept("DcbWaitRegMem", DcbWaitRegMem(i, j))
  <2>1. Fits(DcbWaitRegMem(i, j), 9) /\ 9 \in Nat
    BY PatchableCalls
  <2> QED
    BY <2>1, FitsIsKept, Announced
<1>12. Kept("DcbEventWrite", DcbEventWrite(i, j))
  <2>1. Fits(DcbEventWrite(i, j), 2) /\ 2 \in Nat
    BY PlainOrRefused
  <2> QED
    BY <2>1, FitsIsKept, Announced
<1>13. Kept("DcbResetQueue", DcbResetQueue(i, j))
  <2>1. Fits(DcbResetQueue(i, j), 2) /\ 2 \in Nat
    BY PlainOrRefused
  <2> QED
    BY <2>1, FitsIsKept, Announced
<1>14. Kept("DcbAcquireMem", DcbAcquireMem(i, j))
  <2>1. Fits(DcbAcquireMem(i, j), 8) /\ 8 \in Nat
    BY PlainOrRefused
  <2> QED
    BY <2>1, FitsIsKept, Announced
<1> QED
  BY <1>1, <1>2, <1>3, <1>4, <1>5, <1>6, <1>7,
     <1>8, <1>9, <1>10, <1>11, <1>12, <1>13, <1>14

\* Calls whose packets are as long as their arguments say.
LEMMA LongKept ==
  ASSUME NEW i \in Nat, NEW j \in Nat
  PROVE  /\ Kept("CbNop", CbNop(i)) /\ Kept("DcbPushMarker", DcbPushMarker(i))
         /\ Kept("DcbWriteData", DcbWriteData(i, j))
         /\ j < LenSpan => Kept("CbSetShRegisterRangeDirect", CbSetShRegisterRangeDirect(i, j))
         /\ \A offsets \in Seq(Nat) : Kept("CbSetShRegistersDirect", CbSetShRegistersDirect(offsets))
<1>1. \A name \in {"CbNop", "DcbPushMarker", "DcbWriteData", "CbSetShRegisterRangeDirect",
                   "CbSetShRegistersDirect"} : name \notin FixedSize
  BY Announced
<1>2. j < LenSpan => j \in 0 .. LenSpan - 1
  BY CommandBufferAssumption
<1> QED
  BY <1>1, <1>2, NopFits, MarkerFits, WriteDataFits, RangeFits, DirectFits DEF Kept

\* Every builder writes whole packets, laid out as the patch functions expect, and one
\* that announces a size keeps to it.
LEMMA BuildersWritePackets ==
  ASSUME NEW call, call.name \in Builders, call.args \in Arguments(call.name)
  PROVE  Kept(call.name, Chunks(call))
<1> DEFINE a == call.args
           name == call.name
<1>1. CASE name \in WithNone
  BY <1>1, NoneKept DEF Chunks, WithNone
<1>2. CASE name \in WithCount
  <2>1. a[1] \in Nat
    BY <1>2 DEF Arguments, WithNone, WithCount
  <2> DEFINE i == a[1]
  <2>2. i \in Nat /\ call.args[1] = i
    BY <2>1
  <2> HIDE DEF i
  <2> QED
    BY <1>2, <2>2, NumbersKept, LongKept DEF Chunks, WithCount
<1>3. CASE name = "CbSetShRegistersDirect"
  <2>1. a \in Seq(Nat)
    BY <1>3 DEF Arguments, WithNone, WithCount
  <2> QED
    BY <1>3, <2>1, LongKept DEF Chunks
<1>4. CASE name = "CbSetShRegisterRangeDirect"
  <2>1. a[1] \in Nat /\ a[2] \in Nat /\ a[2] < LenSpan
    BY <1>4, CommandBufferAssumption DEF Arguments, WithNone, WithCount
  <2> QED
    BY <1>4, <2>1, LongKept DEF Chunks
<1>5. CASE name \in {"CbReleaseMem", "DcbWriteData", "DcbWaitRegMem", "DcbEventWrite", "DcbResetQueue",
                     "DcbAcquireMem"}
  <2>1. a[1] \in Nat /\ a[2] \in Nat
    BY <1>5 DEF Arguments, WithNone, WithCount
  <2> DEFINE i == a[1]
             j == a[2]
  <2>2. i \in Nat /\ j \in Nat /\ call.args[1] = i /\ call.args[2] = j
    BY <2>1
  <2> HIDE DEF i, j
  <2> QED
    BY <1>5, <2>2, NumbersKept, LongKept DEF Chunks
<1> QED
  BY <1>1, <1>2, <1>3, <1>4, <1>5 DEF Builders

-------------------------------------------------------------------------------
\* The walk

\* A frame stands at a packet's first word, or behind the last packet.
FrameOK(f, bufs) ==
  /\ f = [buf |-> f.buf, pos |-> f.pos, reg |-> f.reg]
  /\ f.buf \in Buffers /\ f.pos \in Nat
  /\ \E S \in SUBSET Nat : Tiles(S, bufs[f.buf]) /\ f.pos \in S

\* A frame below the innermost stands at the packet that names the next buffer.
Waits(f, bufs) == f.pos <= Len(bufs[f.buf]) /\ bufs[f.buf][f.pos].type = 3

\* The buffers of one decoder, the innermost last.
WalkOK(s, bufs) ==
  /\ s \in Seq(ToSet(s))
  /\ \A i \in 1 .. Len(s) : FrameOK(s[i], bufs) /\ (i < Len(s) => Waits(s[i], bufs))

\* A step that changes the innermost frame keeps the frames below.
LEMMA TopMoves ==
  ASSUME NEW s, NEW bufs, WalkOK(s, bufs), s # << >>, NEW f, FrameOK(f, bufs)
  PROVE  LET t == [s EXCEPT ![Len(s)] = f]
         IN  WalkOK(t, bufs) /\ Len(t) = Len(s) /\ t # << >>
<1> DEFINE n == Len(s)
           t == [s EXCEPT ![Len(s)] = f]
           D == ToSet(s) \cup {f}
<1>1. /\ n \in Nat /\ n > 0 /\ s \in Seq(D) /\ f \in D /\ s \in Seq(ToSet(s))
      /\ \A i \in 1 .. n : FrameOK(s[i], bufs) /\ (i < n => Waits(s[i], bufs))
  BY DEF WalkOK, ToSet
<1> HIDE DEF D
<1>2. /\ t \in Seq(D) /\ Len(t) = n /\ t[n] = f
      /\ \A i \in 1 .. n : i # n => t[i] = s[i]
  BY <1>1
<1> HIDE DEF t, n
<1>3. t \in Seq(ToSet(t))
  BY <1>1, <1>2 DEF ToSet
<1>4. \A i \in 1 .. n : FrameOK(t[i], bufs) /\ (i < n => Waits(t[i], bufs))
  BY <1>1, <1>2
<1>5. t # << >>
  BY <1>1, <1>2
<1> QED
  BY <1>2, <1>3, <1>4, <1>5 DEF WalkOK, t, n

\* A buffer is entered from a packet of type 3.
LEMMA FrameEntered ==
  ASSUME NEW s, NEW bufs, WalkOK(s, bufs), s # << >> => Waits(s[Len(s)], bufs),
         NEW f, FrameOK(f, bufs)
  PROVE  WalkOK(Append(s, f), bufs) /\ Len(Append(s, f)) = Len(s) + 1 /\ Append(s, f) # << >>
<1> DEFINE n == Len(s)
           t == Append(s, f)
           D == ToSet(s) \cup {f}
<1>1. /\ n \in Nat /\ s \in Seq(D) /\ f \in D
      /\ \A i \in 1 .. n : FrameOK(s[i], bufs) /\ (i < n => Waits(s[i], bufs))
      /\ n > 0 => Waits(s[n], bufs)
  BY DEF WalkOK, ToSet
<1> HIDE DEF D
<1>2. /\ t \in Seq(D) /\ Len(t) = n + 1 /\ t[n + 1] = f /\ t # << >>
      /\ \A i \in 1 .. n : t[i] = s[i]
  BY <1>1, AppendProperties
<1> HIDE DEF t, n
<1>3. t \in Seq(ToSet(t))
  BY <1>1, <1>2 DEF ToSet
<1>4. \A i \in 1 .. n + 1 : FrameOK(t[i], bufs) /\ (i < n + 1 => Waits(t[i], bufs))
  <2> TAKE i \in 1 .. n + 1
  <2>1. CASE i = n + 1
    BY <1>1, <1>2, <2>1
  <2>2. CASE i # n + 1
    <3>1. i \in 1 .. n /\ t[i] = s[i] /\ (i = n \/ i < n)
      BY <1>1, <1>2, <2>2
    <3> QED
      BY <1>1, <3>1
  <2> QED
    BY <2>1, <2>2
<1> QED
  BY <1>2, <1>3, <1>4 DEF WalkOK, t, n

\* To the next packet.
LEMMA FrameAdvances ==
  ASSUME NEW f, NEW bufs, FrameOK(f, bufs), f.pos <= Len(bufs[f.buf]),
         AreWords(bufs[f.buf]),
         NEW n, n = Span(bufs[f.buf][f.pos])
  PROVE  /\ IsHeader(bufs[f.buf][f.pos])
         /\ FrameOK([f EXCEPT !.pos = @ + n, !.reg = 0], bufs)
         /\ FrameOK([f EXCEPT !.pos = @ + n], bufs)
<1> DEFINE w == bufs[f.buf]
<1>1. PICK S \in SUBSET Nat : Tiles(S, w) /\ f.pos \in S
  BY DEF FrameOK
<1>2. IsHeader(w[f.pos]) /\ f.pos + n \in S /\ f.pos + n \in Nat
  BY <1>1 DEF Tiles
<1>3. ASSUME NEW g, g = [buf |-> f.buf, pos |-> f.pos + n, reg |-> g.reg]
      PROVE  FrameOK(g, bufs)
  <2>1. g.buf = f.buf /\ g.pos = f.pos + n
    BY <1>3
  <2>2. f.buf \in Buffers
    BY DEF FrameOK
  <2> QED
    BY <1>1, <1>2, <1>3, <2>1, <2>2 DEF FrameOK
<1> DEFINE g == [f EXCEPT !.pos = @ + n, !.reg = 0]
           h == [f EXCEPT !.pos = @ + n]
<1>4. f = [buf |-> f.buf, pos |-> f.pos, reg |-> f.reg]
  BY DEF FrameOK
<1>5. g = [buf |-> f.buf, pos |-> f.pos + n, reg |-> g.reg]
  <2>1. g = [buf |-> f.buf, pos |-> f.pos + n, reg |-> 0]
    <3>1. g = [[f EXCEPT !.pos = f.pos + n] EXCEPT !.reg = 0]
      OBVIOUS
    <3>2. [f EXCEPT !.pos = f.pos + n] = [buf |-> f.buf, pos |-> f.pos + n, reg |-> f.reg]
      BY <1>4
    <3>3. [[buf |-> f.buf, pos |-> f.pos + n, reg |-> f.reg] EXCEPT !.reg = 0] =
            [buf |-> f.buf, pos |-> f.pos + n, reg |-> 0]
      OBVIOUS
    <3> HIDE DEF g
    <3> QED
      BY <3>1, <3>2, <3>3
  <2> HIDE DEF g
  <2> QED
    BY <2>1
<1>6. h = [buf |-> f.buf, pos |-> f.pos + n, reg |-> h.reg]
  BY <1>4
<1> HIDE DEF g, h
<1>7. FrameOK(g, bufs) /\ FrameOK(h, bufs)
  BY <1>3, <1>5, <1>6
<1> QED
  BY <1>2, <1>7 DEF g, h

\* The frame a buffer is entered with.
LEMMA FrameStarts ==
  ASSUME NEW b \in Buffers, NEW bufs, Sound(bufs[b])
  PROVE  FrameOK([buf |-> b, pos |-> 1, reg |-> 0], bufs)
<1>1. PICK S \in SUBSET Nat : Tiles(S, bufs[b])
  BY DEF Sound
<1>2. 1 \in S
  BY <1>1 DEF Tiles
<1> QED
  BY <1>1, <1>2 DEF FrameOK

\* The buffers below the innermost.
LEMMA FrameLeft ==
  ASSUME NEW s, NEW bufs, WalkOK(s, bufs), Len(s) > 1
  PROVE  /\ WalkOK(Front(s), bufs) /\ Len(Front(s)) = Len(s) - 1 /\ Front(s) # << >>
         /\ FrameOK(Front(s)[Len(Front(s))], bufs) /\ Waits(Front(s)[Len(Front(s))], bufs)
<1> DEFINE n == Len(s)
           t == Front(s)
<1>1. /\ n \in Nat /\ n > 1 /\ s \in Seq(ToSet(s))
      /\ \A i \in 1 .. n : FrameOK(s[i], bufs) /\ (i < n => Waits(s[i], bufs))
  BY DEF WalkOK
<1> HIDE DEF n
<1>2. t = [i \in 1 .. n - 1 |-> s[i]]
  BY <1>1 DEF Front, n
<1> HIDE DEF t
<1>3. t \in [1 .. n - 1 -> ToSet(t)]
  BY <1>2 DEF ToSet
<1>4. t \in Seq(ToSet(t)) /\ Len(t) = n - 1 /\ \A i \in 1 .. n - 1 : t[i] = s[i]
  BY <1>1, <1>2, <1>3
<1>5. \A i \in 1 .. n - 1 : FrameOK(t[i], bufs) /\ Waits(t[i], bufs)
  BY <1>1, <1>4
<1>6. n - 1 \in 1 .. n - 1 /\ t # << >>
  BY <1>1, <1>4
<1> QED
  BY <1>4, <1>5, <1>6 DEF WalkOK, t, n

-------------------------------------------------------------------------------
\* The invariant

\* Buffers hold whole packets, within what was announced for them.
FilledInv ==
  /\ buf = [b \in Buffers |-> buf[b]]
  /\ calls \in [Buffers -> Nat] /\ reserved \in [Buffers -> Nat]
  /\ \A b \in Buffers :
       calls[b] <= MaxCalls[b] /\ Sound(buf[b]) /\ Len(buf[b]) <= reserved[b]

\* Each buffer a decoder walks is one level of its thread's depth.
WalkInv ==
  /\ stack = [d \in Decoders |-> stack[d]] /\ depth \in [Decoders -> Nat]
  /\ \A d \in Decoders :
       /\ WalkOK(stack[d], buf)
       /\ stack[d] # << >> => submits > 0 /\ Len(stack[d]) = depth[d] + 1
       /\ stack[d] = << >> => depth[d] = 0
       /\ depth[d] <= MaxDepth

\* Registers and submissions.
SharedInv == DOMAIN regs \subseteq ShRegisters /\ submits \in 0 .. MaxSubmits

CommandInv == FilledInv /\ WalkInv /\ SharedInv

\* The invariant holds before any call.
LEMMA StreamStarts == StreamInit => CommandInv
<1> SUFFICES ASSUME StreamInit PROVE CommandInv
  OBVIOUS
<1> USE DEF StreamInit
<1>1. FilledInv
  <2>1. \A b \in Buffers : MaxCalls[b] \in Nat
    BY StreamBounds
  <2> QED
    BY <2>1, EmptyIsSound DEF FilledInv
<1>2. WalkInv
  <2>1. WalkOK(<< >>, buf)
    BY DEF WalkOK, ToSet
  <2> QED
    BY <2>1, StreamBounds DEF WalkInv
<1>3. SharedInv
  BY StreamBounds DEF SharedInv
<1> QED
  BY <1>1, <1>2, <1>3 DEF CommandInv

\* Words are added before anything is submitted.
LEMMA FillStep ==
  ASSUME FilledInv, NEW b \in Buffers, NEW words, Sound(words), NEW k \in Nat, Len(words) <= k,
         calls[b] < MaxCalls[b],
         buf' = [buf EXCEPT ![b] = @ \o words],
         calls' = [calls EXCEPT ![b] = @ + 1],
         reserved' = [reserved EXCEPT ![b] = @ + k]
  PROVE  FilledInv'
<1> USE DEF FilledInv
<1>1. Sound(buf[b] \o words) /\ Len(buf[b] \o words) = Len(buf[b]) + Len(words)
      /\ Len(buf[b]) \in Nat /\ Len(words) \in Nat
  <2>1. Sound(buf[b]) /\ AreWords(buf[b]) /\ AreWords(words)
    BY DEF Sound
  <2> QED
    BY <2>1, JoinedIsSound, WordsJoin DEF AreWords
<1>2. /\ buf'[b] = buf[b] \o words /\ \A c \in Buffers : c # b => buf'[c] = buf[c]
      /\ buf' = [c \in Buffers |-> buf'[c]]
  OBVIOUS
<1>3. /\ reserved' \in [Buffers -> Nat] /\ reserved'[b] = reserved[b] + k /\ reserved[b] \in Nat
      /\ \A c \in Buffers : c # b => reserved'[c] = reserved[c]
  OBVIOUS
<1>4. /\ calls' \in [Buffers -> Nat] /\ \A c \in Buffers : calls'[c] <= MaxCalls[c]
  <2>1. MaxCalls[b] \in Nat
    BY StreamBounds
  <2> QED
    BY <2>1
<1>5. ASSUME NEW c \in Buffers PROVE Sound(buf'[c]) /\ Len(buf'[c]) <= reserved'[c]
  <2>1. CASE c = b
    BY <1>1, <1>2, <1>3, <2>1
  <2>2. CASE c # b
    BY <1>2, <1>3, <2>2
  <2> QED
    BY <2>1, <2>2
<1> QED
  BY <1>2, <1>3, <1>4, <1>5

\* No decoder has a buffer before the first is submitted.
LEMMA BeforeSubmits ==
  ASSUME WalkInv, submits = 0, UNCHANGED <<walkVars, submits>>
  PROVE  WalkInv'
<1>1. \A d \in Decoders : stack[d] = << >>
  BY DEF WalkInv
<1>2. WalkOK(<< >>, buf')
  BY DEF WalkOK, ToSet
<1> QED
  BY <1>1, <1>2 DEF WalkInv, walkVars

\* A decoder's innermost frame moves.
LEMMA MoveStep ==
  ASSUME CommandInv, NEW d \in Decoders, stack[d] # << >>,
         NEW f, FrameOK(f, buf), stack' = SetTop(d, f),
         UNCHANGED <<fillVars, submits, depth>>, DOMAIN regs' \subseteq ShRegisters
  PROVE  CommandInv'
<1> DEFINE s == stack[d]
           t == [s EXCEPT ![Len(s)] = f]
<1>1. WalkOK(s, buf)
  BY DEF CommandInv, WalkInv
<1>2. WalkOK(t, buf) /\ Len(t) = Len(s) /\ t # << >>
  BY <1>1, TopMoves
<1>3. stack' = [stack EXCEPT ![d] = t]
  BY DEF SetTop
<1> HIDE DEF t
<1>4. WalkInv'
  <2>1. /\ stack' = [e \in Decoders |-> stack'[e]] /\ stack'[d] = t
        /\ \A e \in Decoders : e # d => stack'[e] = stack[e]
    BY <1>3 DEF CommandInv, WalkInv
  <2> QED
    BY <1>2, <2>1 DEF CommandInv, WalkInv, fillVars
<1>5. FilledInv' /\ SharedInv'
  BY DEF CommandInv, FilledInv, SharedInv, fillVars
<1> QED
  BY <1>4, <1>5 DEF CommandInv

\* Where a decoder reads.
LEMMA ReadingFrame ==
  ASSUME CommandInv, NEW d \in Decoders, Reading(d)
  PROVE  LET f == Top(d)
             h == buf[f.buf][f.pos]
         IN  /\ stack[d] # << >> /\ WalkOK(stack[d], buf)
             /\ FrameOK(f, buf) /\ f.pos <= Len(buf[f.buf]) /\ AreWords(buf[f.buf])
             /\ IsHeader(h)
             /\ FrameOK([f EXCEPT !.pos = @ + Span(h), !.reg = 0], buf)
<1> DEFINE f == Top(d)
<1>1. /\ stack[d] # << >> /\ WalkOK(stack[d], buf) /\ f.pos <= Len(buf[f.buf])
  BY DEF Reading, WordsOf, CommandInv, WalkInv
<1>2. FrameOK(f, buf)
  <2>1. Len(stack[d]) \in Nat /\ Len(stack[d]) > 0
    BY <1>1 DEF WalkOK
  <2>2. Len(stack[d]) \in 1 .. Len(stack[d])
    BY <2>1
  <2> QED
    BY <1>1, <2>2 DEF WalkOK, Top
<1> HIDE DEF f
<1>3. f.buf \in Buffers /\ AreWords(buf[f.buf])
  BY <1>2 DEF FrameOK, CommandInv, FilledInv, Sound
<1>4. IsHeader(buf[f.buf][f.pos])
      /\ FrameOK([f EXCEPT !.pos = @ + Span(buf[f.buf][f.pos]), !.reg = 0], buf)
  BY <1>1, <1>2, <1>3, FrameAdvances
<1> QED
  BY <1>1, <1>2, <1>3, <1>4 DEF f

\* Past a packet.
LEMMA SkipStep ==
  ASSUME CommandInv, NEW d \in Decoders, Reading(d),
         Skip(d, Span(WordsOf(d)[Top(d).pos])),
         UNCHANGED <<fillVars, submits, depth>>, DOMAIN regs' \subseteq ShRegisters
  PROVE  CommandInv'
<1> DEFINE f == Top(d)
           g == [f EXCEPT !.pos = @ + Span(buf[f.buf][f.pos]), !.reg = 0]
<1>1. stack[d] # << >> /\ FrameOK(g, buf)
  BY ReadingFrame
<1>2. stack' = SetTop(d, g)
  BY DEF Skip, WordsOf
<1>3. PICK k : k = g
  OBVIOUS
<1> HIDE DEF g
<1> QED
  BY <1>1, <1>2, <1>3, MoveStep

\* Past a packet by the length in its header.
LEMMA PacketStep ==
  ASSUME CommandInv, NEW d \in Decoders, NEW type \in {0, 3}, At(d, type), NextPacket(d),
         UNCHANGED <<fillVars, submits, depth>>, DOMAIN regs' \subseteq ShRegisters
  PROVE  CommandInv'
<1>1. Reading(d) /\ WordsOf(d)[Top(d).pos].type \notin {1, 2}
  BY DEF At
<1>2. Skip(d, Span(WordsOf(d)[Top(d).pos]))
  BY <1>1 DEF NextPacket, Span
<1> QED
  BY <1>1, <1>2, SkipStep

\* Past a packet of type 1 or 2.
LEMMA OneWordStep ==
  ASSUME CommandInv, NEW d \in Decoders, OneWord(d)
  PROVE  CommandInv'
<1>1. PICK t \in {1, 2} : At(d, t)
  BY DEF OneWord
<1>2. Reading(d) /\ Span(WordsOf(d)[Top(d).pos]) = 1
  BY <1>1 DEF At, Span
<1>3. Skip(d, Span(WordsOf(d)[Top(d).pos]))
  BY <1>2 DEF OneWord
<1>4. UNCHANGED <<fillVars, submits, depth>> /\ DOMAIN regs' \subseteq ShRegisters
  BY DEF OneWord, Step, pastVars, sharedVars, CommandInv, SharedInv
<1> QED
  BY <1>2, <1>3, <1>4, SkipStep

\* Registers written stay among those the decoder knows.
LEMMA RegisterAdded ==
  ASSUME SharedInv, NEW r \in ShRegisters, NEW v, regs' = Writing(r, v)
  PROVE  DOMAIN regs' \subseteq ShRegisters
BY DEF SharedInv, Writing

\* Packets the decoder passes in one step.
LEMMA PassStep ==
  ASSUME CommandInv, NEW d \in Decoders,
         \/ Type0(d) \/ Draw(d) \/ DrawAuto(d) \/ EndRegisters(d) \/ WriteData(d)
         \/ SetIndexType(d) \/ Dispatch(d) \/ SkipIndirect(d) \/ Unknown(d)
  PROVE  CommandInv'
<1> USE DEF AtOp, Step, pastVars, sharedVars
<1>0. DOMAIN regs \subseteq ShRegisters
  BY DEF CommandInv, SharedInv
<1>1. CASE Type0(d)
  <2>1. At(d, 0) /\ NextPacket(d) /\ UNCHANGED <<fillVars, submits, depth>> /\ regs' = regs
    BY <1>1 DEF Type0
  <2> QED
    BY <1>0, <2>1, PacketStep
<1>2. CASE Draw(d)
  <2>1. At(d, 3) /\ NextPacket(d) /\ UNCHANGED <<fillVars, submits, depth>> /\ regs' = regs
    BY <1>2 DEF Draw
  <2> QED
    BY <1>0, <2>1, PacketStep
<1>3. CASE DrawAuto(d)
  <2>1. At(d, 3) /\ NextPacket(d) /\ UNCHANGED <<fillVars, submits, depth>>
    BY <1>3 DEF DrawAuto
  <2>2. \/ regs' = regs
        \/ regs' = Writing(IndexCount, Word(d, 1).name)
    BY <1>3 DEF DrawAuto
  <2>3. IndexCount \in ShRegisters
    BY DEF IndexCount, ShRegisters
  <2>4. DOMAIN regs' \subseteq ShRegisters
    BY <1>0, <2>2, <2>3, RegisterAdded DEF CommandInv
  <2> QED
    BY <2>1, <2>4, PacketStep
<1>4. CASE EndRegisters(d)
  <2>1. At(d, 3) /\ NextPacket(d) /\ UNCHANGED <<fillVars, submits, depth>> /\ regs' = regs
    BY <1>4 DEF EndRegisters
  <2> QED
    BY <1>0, <2>1, PacketStep
<1>5. CASE WriteData(d)
  <2>1. At(d, 3) /\ NextPacket(d) /\ UNCHANGED <<fillVars, submits, depth>> /\ regs' = regs
    BY <1>5 DEF WriteData
  <2> QED
    BY <1>0, <2>1, PacketStep
<1>6. CASE SetIndexType(d)
  <2>1. At(d, 3) /\ NextPacket(d) /\ UNCHANGED <<fillVars, submits, depth>> /\ regs' = regs
    BY <1>6 DEF SetIndexType
  <2> QED
    BY <1>0, <2>1, PacketStep
<1>7. CASE Dispatch(d)
  <2>1. At(d, 3) /\ NextPacket(d) /\ UNCHANGED <<fillVars, submits, depth>> /\ regs' = regs
    BY <1>7 DEF Dispatch
  <2> QED
    BY <1>0, <2>1, PacketStep
<1>8. CASE SkipIndirect(d)
  <2>1. At(d, 3) /\ NextPacket(d) /\ UNCHANGED <<fillVars, submits, depth>> /\ regs' = regs
    BY <1>8 DEF SkipIndirect
  <2> QED
    BY <1>0, <2>1, PacketStep
<1>9. CASE Unknown(d)
  <2>1. At(d, 3) /\ NextPacket(d) /\ UNCHANGED <<fillVars, submits, depth>> /\ regs' = regs
    BY <1>9 DEF Unknown
  <2> QED
    BY <1>0, <2>1, PacketStep
<1> QED
  BY <1>1, <1>2, <1>3, <1>4, <1>5, <1>6, <1>7, <1>8, <1>9

\* One register of a packet: the frame stays at its header.
LEMMA SetRegisterStep ==
  ASSUME CommandInv, NEW d \in Decoders, SetRegister(d)
  PROVE  CommandInv'
<1> DEFINE f == Top(d)
           g == [f EXCEPT !.reg = @ + 1]
<1>1. Reading(d) /\ stack' = SetTop(d, g) /\ UNCHANGED <<fillVars, submits, depth>>
  BY DEF SetRegister, AtOp, At, Step, pastVars
<1>2. FrameOK(f, buf) /\ stack[d] # << >>
  BY <1>1, ReadingFrame
<1>3. DOMAIN regs' \subseteq ShRegisters
  <2> DEFINE r == Word(d, 1).reg + Top(d).reg
             v == Word(d, 2 + Top(d).reg).name
  <2>1. regs' = regs \/ (r \in Reached(d) /\ regs' = Writing(r, v))
    BY DEF SetRegister
  <2> HIDE DEF r, v
  <2>2. Reached(d) \subseteq ShRegisters
    BY DEF Reached, ShRegisters, CxRegisters
  <2>3. DOMAIN regs \subseteq ShRegisters /\ SharedInv
    BY DEF CommandInv, SharedInv
  <2>4. CASE regs' = regs
    BY <2>3, <2>4
  <2>5. CASE r \in Reached(d) /\ regs' = Writing(r, v)
    <3>1. PICK x, y : x = r /\ y = v
      OBVIOUS
    <3>2. x \in ShRegisters /\ regs' = Writing(x, y)
      BY <2>2, <2>5, <3>1
    <3> QED
      BY <2>3, <3>2, RegisterAdded
  <2> QED
    BY <2>1, <2>4, <2>5
<1> HIDE DEF f
<1>4. PICK k : k = g
  OBVIOUS
<1>5. FrameOK(k, buf)
  <2>1. f = [buf |-> f.buf, pos |-> f.pos, reg |-> f.reg]
    BY <1>2 DEF FrameOK
  <2>2. k = [buf |-> f.buf, pos |-> f.pos, reg |-> k.reg]
    BY <1>4, <2>1
  <2>3. k.buf = f.buf /\ k.pos = f.pos
    BY <2>2
  <2> QED
    BY <1>2, <2>2, <2>3 DEF FrameOK
<1>6. stack' = SetTop(d, k)
  BY <1>1, <1>4
<1> QED
  BY <1>1, <1>2, <1>3, <1>5, <1>6, MoveStep

\* Into an indirect buffer, whose packet the outer frame stays at.
LEMMA EnterStep ==
  ASSUME CommandInv, NEW d \in Decoders, EnterIndirect(d)
  PROVE  CommandInv'
<1> DEFINE s == stack[d]
<1>1. PICK f : f = [buf |-> Word(d, 1).buf, pos |-> 1, reg |-> 0]
  OBVIOUS
<1>2. /\ Reading(d) /\ WordsOf(d)[Top(d).pos].type = 3 /\ depth[d] < MaxDepth
      /\ f.buf \in Buffers /\ stack' = [stack EXCEPT ![d] = Append(@, f)]
      /\ depth' = [depth EXCEPT ![d] = @ + 1]
      /\ UNCHANGED <<fillVars, submits, regs>>
  BY <1>1 DEF EnterIndirect, AtOp, At, Step, pastVars, sharedVars
<1>3. /\ s # << >> /\ WalkOK(s, buf) /\ Waits(s[Len(s)], buf)
  <2>1. /\ stack[d] # << >> /\ WalkOK(stack[d], buf) /\ Top(d).pos <= Len(buf[Top(d).buf])
    BY <1>2, ReadingFrame
  <2>2. Waits(Top(d), buf)
    BY <1>2, <2>1 DEF Waits, WordsOf
  <2> QED
    BY <2>1, <2>2 DEF Top
<1>4. FrameOK(f, buf)
  <2>1. PICK b \in Buffers : b = f.buf
    BY <1>2
  <2>2. Sound(buf[b]) /\ f = [buf |-> b, pos |-> 1, reg |-> 0]
    BY <1>1, <2>1 DEF CommandInv, FilledInv
  <2>3. PICK bufs : bufs = buf
    OBVIOUS
  <2>4. FrameOK([buf |-> b, pos |-> 1, reg |-> 0], bufs)
    BY <2>2, <2>3, FrameStarts
  <2> QED
    BY <2>2, <2>3, <2>4
<1>5. WalkOK(Append(s, f), buf) /\ Len(Append(s, f)) = Len(s) + 1 /\ Append(s, f) # << >>
  BY <1>3, <1>4, FrameEntered
<1> DEFINE t == Append(s, f)
<1> HIDE DEF t
<1>6. WalkInv'
  <2>1. WalkOK(t, buf) /\ Len(t) = Len(stack[d]) + 1 /\ t # << >> /\ stack' = [stack EXCEPT ![d] = t]
    BY <1>2, <1>5 DEF t
  <2>2. /\ stack' = [e \in Decoders |-> stack'[e]] /\ stack'[d] = t
        /\ \A e \in Decoders : e # d => stack'[e] = stack[e]
    BY <2>1 DEF CommandInv, WalkInv
  <2>3. /\ depth' \in [Decoders -> Nat] /\ depth'[d] = depth[d] + 1 /\ depth[d] \in Nat
        /\ \A e \in Decoders : e # d => depth'[e] = depth[e]
    BY <1>2 DEF CommandInv, WalkInv
  <2>4. submits > 0 /\ Len(stack[d]) = depth[d] + 1
    BY <1>3 DEF CommandInv, WalkInv
  <2>5. MaxDepth \in Nat /\ submits' = submits /\ buf' = buf
    BY <1>2, StreamBounds DEF fillVars
  <2>6. ASSUME NEW e \in Decoders
        PROVE  /\ WalkOK(stack'[e], buf')
               /\ stack'[e] # << >> => submits' > 0 /\ Len(stack'[e]) = depth'[e] + 1
               /\ stack'[e] = << >> => depth'[e] = 0
               /\ depth'[e] <= MaxDepth
    <3>1. CASE e = d
      <4>1. depth'[d] <= MaxDepth /\ depth'[d] > 0
        BY <1>2, <2>3, <2>5
      <4>2. Len(stack'[d]) = depth'[d] + 1
        BY <2>1, <2>2, <2>3, <2>4
      <4>3. stack'[d] # << >> /\ WalkOK(stack'[d], buf')
        BY <2>1, <2>2, <2>5
      <4> QED
        BY <2>4, <2>5, <3>1, <4>1, <4>2, <4>3
    <3>2. CASE e # d
      BY <2>2, <2>3, <2>5, <3>2 DEF CommandInv, WalkInv
    <3> QED
      BY <3>1, <3>2
  <2> QED
    BY <2>2, <2>3, <2>6 DEF WalkInv
<1>7. FilledInv' /\ SharedInv'
  BY <1>2 DEF CommandInv, FilledInv, SharedInv, fillVars
<1> QED
  BY <1>6, <1>7 DEF CommandInv

\* Back, past the packet that named the buffer.
LEMMA EndIndirectStep ==
  ASSUME CommandInv, NEW d \in Decoders, EndIndirect(d)
  PROVE  CommandInv'
<1> DEFINE s == stack[d]
           outer == Front(s)
           f == outer[Len(outer)]
           g == [f EXCEPT !.pos = @ + buf[f.buf][f.pos].len + 2]
           t == [outer EXCEPT ![Len(outer)] = g]
<1>1. /\ Len(s) > 1 /\ stack' = [stack EXCEPT ![d] = t]
      /\ depth' = [depth EXCEPT ![d] = @ - 1]
      /\ UNCHANGED <<fillVars, submits, regs>>
  BY DEF EndIndirect, Step, pastVars, sharedVars
<1>2. WalkOK(s, buf) /\ s # << >>
  BY <1>1 DEF CommandInv, WalkInv, WalkOK
<1>3. /\ WalkOK(outer, buf) /\ Len(outer) = Len(s) - 1 /\ outer # << >>
      /\ FrameOK(f, buf) /\ Waits(f, buf)
  BY <1>1, <1>2, FrameLeft
<1> HIDE DEF outer
<1>4. FrameOK(g, buf)
  <2>1. f.buf \in Buffers /\ f.pos <= Len(buf[f.buf]) /\ buf[f.buf][f.pos].type = 3 /\ f.pos \in Nat
    BY <1>3 DEF FrameOK, Waits
  <2>2. AreWords(buf[f.buf])
    BY <2>1 DEF CommandInv, FilledInv, Sound
  <2> DEFINE n == Span(buf[f.buf][f.pos])
             h == buf[f.buf][f.pos]
  <2> HIDE DEF f
  <2>3. IsHeader(h) /\ FrameOK([f EXCEPT !.pos = @ + n], buf)
    BY <1>3, <2>1, <2>2, FrameAdvances
  <2>4. n = h.len + 2 /\ h.len \in Nat
    <3>1. f.pos \in 1 .. Len(buf[f.buf])
      BY <1>3, <2>1 DEF FrameOK, Tiles
    <3>2. IsWord(h)
      BY <2>2, <3>1 DEF AreWords
    <3> QED
      BY <2>1, <2>3, <3>2, WordKinds DEF Span
  <2>5. f.pos + n = f.pos + h.len + 2
    BY <2>1, <2>4
  <2>6. [f EXCEPT !.pos = @ + n] = [f EXCEPT !.pos = @ + h.len + 2]
    BY <2>5
  <2> HIDE DEF n
  <2> QED
    BY <2>3, <2>6
<1>5. WalkOK(t, buf) /\ Len(t) = Len(outer) /\ t # << >>
  <2>1. PICK k : k = g
    OBVIOUS
  <2>2. FrameOK(k, buf)
    BY <1>4, <2>1
  <2> HIDE DEF g
  <2> QED
    BY <1>3, <2>1, <2>2, TopMoves
<1> HIDE DEF t
<1>6. WalkInv'
  <2>1. /\ stack' = [e \in Decoders |-> stack'[e]] /\ stack'[d] = t
        /\ \A e \in Decoders : e # d => stack'[e] = stack[e]
    BY <1>1 DEF CommandInv, WalkInv
  <2>2. /\ submits > 0 /\ Len(s) = depth[d] + 1 /\ depth[d] \in Nat /\ depth[d] <= MaxDepth
    BY <1>2 DEF CommandInv, WalkInv
  <2>3. depth[d] - 1 \in Nat
    BY <1>1, <2>2
  <2>4. /\ depth' \in [Decoders -> Nat] /\ depth'[d] = depth[d] - 1
        /\ \A e \in Decoders : e # d => depth'[e] = depth[e]
    BY <1>1, <2>3 DEF CommandInv, WalkInv
  <2>5. MaxDepth \in Nat /\ submits' = submits /\ buf' = buf
    BY <1>1, StreamBounds DEF fillVars
  <2>6. ASSUME NEW e \in Decoders
        PROVE  /\ WalkOK(stack'[e], buf')
               /\ stack'[e] # << >> => submits' > 0 /\ Len(stack'[e]) = depth'[e] + 1
               /\ stack'[e] = << >> => depth'[e] = 0
               /\ depth'[e] <= MaxDepth
    <3>1. CASE e = d
      BY <1>3, <1>5, <2>1, <2>2, <2>3, <2>4, <2>5, <3>1
    <3>2. CASE e # d
      BY <2>1, <2>4, <2>5, <3>2 DEF CommandInv, WalkInv
    <3> QED
      BY <3>1, <3>2
  <2> QED
    BY <2>1, <2>4, <2>6 DEF WalkInv
<1>7. FilledInv' /\ SharedInv'
  BY <1>1 DEF CommandInv, FilledInv, SharedInv, fillVars
<1> QED
  BY <1>6, <1>7 DEF CommandInv

\* The end of a submitted buffer.
LEMMA FinishStep ==
  ASSUME CommandInv, NEW d \in Decoders, Finish(d)
  PROVE  CommandInv'
<1>1. /\ stack' = [stack EXCEPT ![d] = << >>] /\ Len(stack[d]) = 1
      /\ UNCHANGED <<fillVars, submits, depth, regs>>
  BY DEF Finish, pastVars, sharedVars
<1>2. WalkInv'
  <2>1. WalkOK(<< >>, buf)
    BY DEF WalkOK, ToSet
  <2>2. /\ stack' = [e \in Decoders |-> stack'[e]] /\ stack'[d] = << >>
        /\ \A e \in Decoders : e # d => stack'[e] = stack[e]
    BY <1>1 DEF CommandInv, WalkInv
  <2>3. depth[d] = 0
    <3>1. stack[d] # << >>
      BY <1>1
    <3>2. Len(stack[d]) = depth[d] + 1 /\ depth[d] \in Nat
      BY <3>1 DEF CommandInv, WalkInv
    <3> QED
      BY <1>1, <3>2
  <2>4. buf' = buf
    BY <1>1 DEF fillVars
  <2> QED
    BY <1>1, <2>1, <2>2, <2>3, <2>4 DEF CommandInv, WalkInv
<1>3. FilledInv' /\ SharedInv'
  BY <1>1 DEF CommandInv, FilledInv, SharedInv, fillVars
<1> QED
  BY <1>2, <1>3 DEF CommandInv

\* A submitted buffer is entered at its first word.
LEMMA SubmitBufferStep ==
  ASSUME CommandInv, NEW d \in Decoders, NEW b \in Buffers, SubmitBuffer(d, b)
  PROVE  CommandInv'
<1> DEFINE t == <<[buf |-> b, pos |-> 1, reg |-> 0]>>
<1>1. /\ stack[d] = << >> /\ stack' = [stack EXCEPT ![d] = t]
      /\ submits' = submits + 1 /\ submits < MaxSubmits
      /\ UNCHANGED <<fillVars, depth, regs>>
  BY DEF SubmitBuffer, sharedVars
<1>2. WalkOK(t, buf) /\ Len(t) = 1 /\ t # << >>
  <2> DEFINE f == [buf |-> b, pos |-> 1, reg |-> 0]
  <2>1. PICK bufs : bufs = buf
    OBVIOUS
  <2>2. FrameOK(f, bufs)
    BY <2>1, FrameStarts DEF CommandInv, FilledInv
  <2> HIDE DEF f
  <2>3. WalkOK(<<f>>, buf) /\ Len(<<f>>) = 1 /\ <<f>> # << >>
    BY <2>1, <2>2 DEF WalkOK, ToSet
  <2> QED
    BY <2>3 DEF f
<1> HIDE DEF t
<1>3. submits \in Nat /\ MaxSubmits \in Nat /\ submits' \in 0 .. MaxSubmits /\ submits' > 0
  BY <1>1, StreamBounds DEF CommandInv, SharedInv
<1>4. WalkInv'
  <2>1. /\ stack' = [e \in Decoders |-> stack'[e]] /\ stack'[d] = t
        /\ \A e \in Decoders : e # d => stack'[e] = stack[e]
    BY <1>1 DEF CommandInv, WalkInv
  <2>2. depth[d] = 0 /\ buf' = buf /\ depth' = depth
    BY <1>1 DEF CommandInv, WalkInv, fillVars
  <2>3. ASSUME NEW e \in Decoders
        PROVE  /\ WalkOK(stack'[e], buf')
               /\ stack'[e] # << >> => submits' > 0 /\ Len(stack'[e]) = depth'[e] + 1
               /\ stack'[e] = << >> => depth'[e] = 0
               /\ depth'[e] <= MaxDepth
    <3>1. CASE e = d
      BY <1>2, <1>3, <2>1, <2>2, <3>1, StreamBounds
    <3>2. CASE e # d
      BY <1>3, <2>1, <2>2, <3>2 DEF CommandInv, WalkInv
    <3> QED
      BY <3>1, <3>2
  <2> QED
    BY <2>1, <2>2, <2>3 DEF CommandInv, WalkInv
<1>5. FilledInv' /\ SharedInv'
  BY <1>1, <1>3 DEF CommandInv, FilledInv, SharedInv, fillVars
<1> QED
  BY <1>4, <1>5 DEF CommandInv

\* A builder's call adds whole packets, and no more words than it announces.
LEMMA BuildStep ==
  ASSUME CommandInv, NEW b \in Buffers, NEW call \in Calls[b], Build(b, call)
  PROVE  CommandInv'
<1> DEFINE words == Result(Chunks(call))
           k == IF call.name \in FixedSize THEN AnnouncedWords[call.name] ELSE Len(words)
<1>1. /\ submits = 0 /\ calls[b] < MaxCalls[b]
      /\ buf' = [buf EXCEPT ![b] = @ \o words]
      /\ calls' = [calls EXCEPT ![b] = @ + 1]
      /\ reserved' = [reserved EXCEPT ![b] = @ + k]
      /\ UNCHANGED <<walkVars, submits, regs>>
  BY DEF Build, Result, pastVars, sharedVars
<1>2. Kept(call.name, Chunks(call))
  BY GuestCalls, BuildersWritePackets
<1> HIDE DEF words
<1>3. Sound(words) /\ Len(words) \in Nat /\ k \in Nat /\ Len(words) <= k
  <2>1. Sound(words) /\ (call.name \in FixedSize => Len(words) <= AnnouncedWords[call.name])
    BY <1>2 DEF Kept, words
  <2>2. Len(words) \in Nat
    BY <2>1 DEF Sound, AreWords
  <2>3. call.name \in FixedSize => AnnouncedWords[call.name] \in Nat
    BY Announced
  <2> QED
    BY <2>1, <2>2, <2>3
<1> HIDE DEF k
<1>4. FilledInv'
  BY <1>1, <1>3, FillStep DEF CommandInv
<1>5. WalkInv'
  BY <1>1, BeforeSubmits DEF CommandInv
<1> QED
  BY <1>1, <1>4, <1>5 DEF CommandInv, SharedInv

\* The guest's own packet.
LEMMA WritePacketStep ==
  ASSUME CommandInv, NEW b \in Buffers, NEW words \in Packets3[b], WritePacket(b, words)
  PROVE  CommandInv'
<1>1. Sound(words) /\ Len(words) \in Nat /\ Len(words) <= Len(words)
  <2>1. GuestPacket(words)
    BY GuestCalls
  <2>2. Len(words) \in Nat
    BY <2>1 DEF GuestPacket, AreWords
  <2> QED
    BY <2>1, <2>2, OnePacketIsSound
<1>2. FilledInv'
  BY <1>1, FillStep DEF WritePacket, CommandInv
<1>3. WalkInv'
  BY BeforeSubmits DEF WritePacket, CommandInv, pastVars
<1> QED
  BY <1>2, <1>3 DEF CommandInv, SharedInv, WritePacket, pastVars, sharedVars

\* A patch keeps every packet.
LEMMA PatchStep ==
  ASSUME CommandInv, NEW b \in Buffers, NEW i \in DOMAIN buf[b], NEW p \in Patches, Patch(b, i, p)
  PROVE  CommandInv'
<1> DEFINE w == buf[b]
           P == {j \in DOMAIN w : j - i \in PatchedWords(p, w[i])}
           u == [j \in DOMAIN w |-> IF j \in P THEN [w[j] EXCEPT !.val = p] ELSE w[j]]
<1>1. /\ submits = 0 /\ buf' = [buf EXCEPT ![b] = u]
      /\ UNCHANGED <<calls, reserved, walkVars, submits, regs>>
  BY DEF Patch, pastVars, sharedVars
<1>2. Sound(w)
  BY DEF CommandInv, FilledInv
<1>3. Sound(u) /\ Len(u) = Len(w)
  <2>1. PICK x, Q : x = w /\ Q = P
    OBVIOUS
  <2>2. u = [j \in DOMAIN x |-> IF j \in Q THEN [x[j] EXCEPT !.val = p] ELSE x[j]]
    BY <2>1
  <2>3. Sound(x)
    BY <1>2, <2>1
  <2> HIDE DEF P, w, u
  <2>4. Sound(u)
    BY <2>2, <2>3, PatchedIsSound
  <2>5. Len(u) = Len(x)
    <3>1. Len(x) \in Nat /\ DOMAIN x = 1 .. Len(x)
      BY <2>3 DEF Sound, AreWords
    <3> QED
      BY <2>2, <3>1
  <2> QED
    BY <2>1, <2>4, <2>5
<1> HIDE DEF u
<1>4. FilledInv'
  <2>1. /\ buf' = [c \in Buffers |-> buf'[c]] /\ buf'[b] = u
        /\ \A c \in Buffers : c # b => buf'[c] = buf[c]
    BY <1>1 DEF CommandInv, FilledInv
  <2> QED
    BY <1>1, <1>3, <2>1 DEF CommandInv, FilledInv
<1>5. WalkInv'
  BY <1>1, BeforeSubmits DEF CommandInv
<1> QED
  BY <1>1, <1>4, <1>5 DEF CommandInv, SharedInv

\* Every step keeps the invariant.
LEMMA CommandSteps ==
  ASSUME CommandInv, [StreamNext]_streamVars
  PROVE  CommandInv'
<1>1. ASSUME NEW b \in Buffers, NEW call \in Calls[b], Build(b, call) PROVE CommandInv'
  BY <1>1, BuildStep
<1>2. ASSUME NEW b \in Buffers, NEW p \in Packets3[b], WritePacket(b, p) PROVE CommandInv'
  BY <1>2, WritePacketStep
<1>3. ASSUME NEW b \in Buffers, NEW i \in DOMAIN buf[b], NEW p \in Patches, Patch(b, i, p)
      PROVE  CommandInv'
  BY <1>3, PatchStep
<1>4. ASSUME NEW d \in Decoders, DecodeWord(d) PROVE CommandInv'
  BY <1>4, PassStep, OneWordStep, SetRegisterStep, EnterStep, EndIndirectStep, FinishStep
     DEF DecodeWord
<1>5. ASSUME NEW d \in Decoders, NEW b \in Buffers, SubmitBuffer(d, b) PROVE CommandInv'
  <2>1. b \in Buffers
    OBVIOUS
  <2> QED
    BY <1>5, SubmitBufferStep
<1>6. CASE UNCHANGED streamVars
  BY <1>6 DEF streamVars, fillVars, walkVars, sharedVars, pastVars, CommandInv, FilledInv, WalkInv,
     SharedInv
<1>7. CASE StreamNext
  BY <1>1, <1>2, <1>3, <1>4, <1>5, <1>7 DEF StreamNext
<1> QED
  BY <1>6, <1>7

\* The invariant holds of every behaviour.
LEMMA CommandInvHolds == StreamSpec => []CommandInv
BY StreamStarts, CommandSteps, PTL DEF StreamSpec

\* The type invariant of command buffers and their decoders: reservations count words,
\* no thread's RECURSION_DEPTH is beyond the limit, frames stand in buffers, and only
\* registers the decoder knows are written.
THEOREM StreamTypes == StreamSpec => []StreamTypeOK
<1>1. CommandInv => StreamTypeOK
  <2> SUFFICES ASSUME CommandInv PROVE StreamTypeOK
    OBVIOUS
  <2>1. \A d \in Decoders : \A i \in DOMAIN stack[d] :
          stack[d][i].buf \in Buffers /\ stack[d][i].pos \in Nat
    <3> TAKE d \in Decoders
    <3>1. WalkOK(stack[d], buf)
      BY DEF CommandInv, WalkInv
    <3>2. DOMAIN stack[d] = 1 .. Len(stack[d])
      BY <3>1 DEF WalkOK
    <3> QED
      BY <3>1, <3>2 DEF WalkOK, FrameOK
  <2>2. DOMAIN buf = Buffers
    BY DEF CommandInv, FilledInv
  <2>3. \A b \in Buffers : calls[b] \in 0 .. MaxCalls[b] /\ reserved[b] \in Nat
    BY StreamBounds DEF CommandInv, FilledInv
  <2>4. depth \in [Decoders -> 0 .. MaxDepth]
    BY StreamBounds DEF CommandInv, WalkInv
  <2> QED
    BY <2>1, <2>2, <2>3, <2>4 DEF StreamTypeOK, CommandInv, SharedInv
<1> QED
  BY <1>1, CommandInvHolds, PTL

\* What the properties say of walks and patches follows from the invariant.
LEMMA ShapesFollow == CommandInv => PacketsKeepTheirShape
<1> SUFFICES ASSUME CommandInv PROVE WalkInStep /\ PatchersKnowTheirLayouts
  BY DEF PacketsKeepTheirShape
<1>1. WalkInStep
  <2> SUFFICES ASSUME NEW d \in Decoders, stack[d] # << >>
               PROVE  IF Reading(d) THEN IsHeader(WordsOf(d)[Top(d).pos])
                                    ELSE Top(d).pos = Len(WordsOf(d)) + 1
    BY DEF WalkInStep
  <2>1. CASE Reading(d)
    BY <2>1, ReadingFrame DEF WordsOf
  <2>2. CASE ~Reading(d)
    <3>1. Len(stack[d]) \in 1 .. Len(stack[d]) /\ WalkOK(stack[d], buf)
      BY DEF CommandInv, WalkInv, WalkOK
    <3>2. FrameOK(Top(d), buf)
      BY <3>1 DEF WalkOK, Top
    <3> DEFINE f == Top(d)
    <3> HIDE DEF f
    <3>3. PICK S \in SUBSET Nat : Tiles(S, buf[f.buf]) /\ f.pos \in S
      BY <3>2 DEF FrameOK, f
    <3>4. f.pos \in 1 .. Len(buf[f.buf]) + 1 /\ f.pos \in Nat
      BY <3>3 DEF Tiles
    <3>5. Len(buf[f.buf]) \in Nat
      BY <3>2 DEF FrameOK, CommandInv, FilledInv, Sound, AreWords, f
    <3>6. ~(f.pos <= Len(buf[f.buf]))
      BY <2>2 DEF Reading, WordsOf, f
    <3>7. f.pos = Len(buf[f.buf]) + 1
      BY <3>4, <3>5, <3>6
    <3> QED
      BY <2>2, <3>7 DEF WordsOf, f
  <2> QED
    BY <2>1, <2>2
<1>2. PatchersKnowTheirLayouts
  <2> SUFFICES ASSUME NEW b \in Buffers, NEW i \in DOMAIN buf[b], IsHeader(buf[b][i]),
                      NEW patch \in Patches, PatchedWords(patch, buf[b][i]) # {}
               PROVE  LET h == buf[b][i]
                          body == {o \in 1 .. h.len + 1 : i + o \in DOMAIN buf[b]}
                      IN  PatchedWords(patch, h) =
                            {o \in body : buf[b][i + o].kind = "field" /\ buf[b][i + o].name \in Target(patch)}
    BY DEF PatchersKnowTheirLayouts
  <2> DEFINE w == buf[b]
             h == w[i]
             body == {o \in 1 .. h.len + 1 : i + o \in DOMAIN w}
             Is(o) == w[i + o].kind = "field" /\ w[i + o].name \in Target(patch)
  <2>1. Sound(w) /\ AreWords(w) /\ Len(w) \in Nat /\ DOMAIN w = 1 .. Len(w)
    BY DEF CommandInv, FilledInv, Sound, AreWords
  <2>2. i \in 1 .. Len(w) /\ LaidOut(w, i) /\ h.len \in Nat
    BY <2>1, WordKinds DEF Sound, AreWords
  <2>3. /\ i + h.len < Len(w)
        /\ PatchedWords(patch, h) = {o \in 1 .. h.len + 1 : Is(o)}
    BY <2>2 DEF LaidOut
  <2> HIDE DEF w, h, Is
  <2>4. ASSUME NEW o \in 1 .. h.len + 1 PROVE i + o \in DOMAIN w
    <3>1. i \in Nat /\ h.len \in Nat /\ i + h.len < Len(w)
      BY <2>2, <2>3
    <3>2. i + o \in 1 .. Len(w)
      BY <2>1, <3>1
    <3> QED
      BY <2>1, <3>2
  <2>5. PatchedWords(patch, h) = {o \in body : Is(o)}
    BY <2>3, <2>4
  <2> QED
    BY <2>5 DEF w, h, Is
<1> QED
  BY <1>1, <1>2

\* For any guest: whatever builders it calls, in whatever order and with whatever
\* arguments, the decoder of decode_pm4_command_buffer takes for a header only what was
\* written as one, and every patch function finds the fields it is for.
THEOREM StreamShapes == StreamSpec => []PacketsKeepTheirShape
BY CommandInvHolds, ShapesFollow, PTL

\* For any guest: the words written for the calls never exceed what their ...GetSize
\* functions announce.
THEOREM StreamReservations == StreamSpec => []ReservedSpaceSuffices
<1>1. CommandInv => ReservedSpaceSuffices
  BY DEF CommandInv, FilledInv, ReservedSpaceSuffices
<1> QED
  BY <1>1, CommandInvHolds, PTL

===============================================================================
