----------------------------- MODULE GuestMemory -----------------------------
(***************************************************************************)
(* The guest's memory: allocate_guest_memory and deallocate_guest_memory,  *)
(* the break, malloc and its relatives, direct memory, JIT shared memory   *)
(* and the map of guest addresses (src/src/kernel.rs).                     *)
(*                                                                         *)
(* An address is a number of units.  The host maps pages, the program asks *)
(* for multiples of the guest's page and moves its bump pointer by         *)
(* megabytes.  The host gives memory at the address asked for when it is   *)
(* free, else at one of its own choice; it may also refuse.                *)
(***************************************************************************)
EXTENDS Integers, Sequences, FiniteSets, FiniteSetsExt, Functions

CONSTANTS
  Threads,    \* guest threads, and the thread that loads the executable
  HostPage, GuestPage, Megabyte,   \* sizes, in units
  GuestLow, GuestHigh,             \* the guest's range of addresses
  None,
  Sizes,      \* sizes the guest allocates
  Wrap,       \* where a product of sizes wraps around
  Growths,    \* by how much it moves its break
  MaxCalls,   \* bound: calls of the guest
  MaxRefusals \* bound: times the host refuses memory

ASSUME MemoryAssumption ==
  /\ HostPage \in Nat \ {0} /\ GuestPage \in Nat \ {0} /\ Megabyte \in Nat \ {0}
  /\ GuestPage % HostPage = 0 /\ Megabyte % GuestPage = 0
  /\ GuestLow \in Int /\ GuestHigh \in Int /\ GuestLow < GuestHigh
  /\ GuestLow % Megabyte = 0 /\ GuestHigh % HostPage = 0
  /\ Sizes \subseteq Nat /\ Wrap \in Nat \ {0} /\ Growths \subseteq Int
  /\ None \notin Int \cup Threads

VARIABLES
  vmas,       \* the host's mappings made for the guest
  bump,       \* GUEST_VM_BUMP
  brk,        \* CURRENT_BREAK, 0 until the executable is loaded
  allocs,     \* ALLOCATIONS: the size malloc keeps for each block
  mappings,   \* GUEST_MEMORY_MAP, by guest address
  jit, nextFd,\* JIT_SHARED_MEM and NEXT_JIT_FD
  call,       \* the memory call each thread is in
  shrunk,     \* history: blocks that realloc made smaller
  calls, refusals

memoryVars == <<vmas, bump, brk, allocs, mappings, jit, nextFd, call, shrunk>>

-------------------------------------------------------------------------------
\* Ranges of addresses

RoundUp(n, unit) == ((n + unit - 1) \div unit) * unit

Overlap(v, lo, hi) == v.lo < hi /\ lo < v.hi

FreeRange(lo, hi) == \A v \in vmas : ~Overlap(v, lo, hi)

\* What is left of the mappings when [lo, hi) is taken out of them (munmap).
Without(maps, lo, hi) ==
  {v \in maps : ~Overlap(v, lo, hi)}
  \cup {[v EXCEPT !.hi = lo] : v \in {w \in maps : Overlap(w, lo, hi) /\ w.lo < lo}}
  \cup {[v EXCEPT !.lo = hi] : v \in {w \in maps : Overlap(w, lo, hi) /\ w.hi > hi}}

\* A mapping, and what was asked for when it was made.
Mapping(lo, size, kind) ==
  [lo |-> lo, hi |-> lo + size, kind |-> kind, base |-> lo, end |-> lo + size]

\* [lo, hi) is mapped for the object at base.
MappedFor(kind, base, lo, hi) ==
  \E v \in vmas : v.kind = kind /\ v.base = base /\ v.lo <= lo /\ hi <= v.hi

InGuestRange(a) == GuestLow <= a /\ a < GuestHigh

\* Where the host puts memory when the place asked for is taken.
Elsewhere == Max({GuestHigh} \cup {v.hi : v \in vmas})

\* What the bump pointer moves by.
BumpOf(size) == RoundUp(RoundUp(size, GuestPage), Megabyte)

\* allocate_guest_memory: the outcomes, a refused allocation having no base.  A
\* refusal is answered by one more try at another bump address.
Allocations(hint, size, kind) ==
  LET length  == RoundUp(size, GuestPage)
      hinted  == InGuestRange(hint)
      want    == IF hinted THEN hint ELSE bump
      next    == IF hinted THEN bump ELSE bump + BumpOf(size)
      Put(at, b, n) ==
        LET base == IF FreeRange(at, at + length) THEN at ELSE Elsewhere
        IN  [base |-> base, bump |-> b, refused |-> n,
             vmas |-> vmas \cup {Mapping(base, length, kind)}]
      Refused(n) == [base |-> None, bump |-> next + BumpOf(size), refused |-> n, vmas |-> vmas]
  IN  IF length = 0 THEN {Refused(0)}
      ELSE {o \in {Put(want, next, 0), Put(next, next + BumpOf(size), 1), Refused(2)} :
              refusals + o.refused <= MaxRefusals}

Take(o) ==
  /\ vmas' = o.vmas /\ bump' = o.bump /\ refusals' = refusals + o.refused

\* deallocate_guest_memory; the host refuses an address that is not of a page, and
\* nothing to unmap.
Deallocate(maps, addr, size) ==
  IF addr % HostPage = 0 /\ size # 0 THEN Without(maps, addr, addr + RoundUp(size, GuestPage)) ELSE maps

\* register_guest_memory, with the guest's address for the host's.
Register(m, addr, host, size) ==
  [a \in DOMAIN m \cup {addr} |-> IF a = addr THEN [host |-> host, size |-> size] ELSE m[a]]

\* translate_guest_addr: any entry that holds the address may answer.
Translations(addr) ==
  {mappings[g].host + (addr - g) : g \in {h \in DOMAIN mappings : h <= addr /\ addr < h + mappings[h].size}}

-------------------------------------------------------------------------------
NoCall == [op |-> "none"]

\* The object of a shader takes one unit at most.
ShaderObject == 1

\* The words a command ring has at its end.
QueueWords == 3

Quiet(t) == call[t] = NoCall

Enter(t, record) == call' = [call EXCEPT ![t] = record]

Return(t) == Enter(t, NoCall)

\* Bound: one call less where the host has refused memory.
Counted ==
  /\ calls < MaxCalls - (IF refusals > 0 THEN 1 ELSE 0)
  /\ calls' = calls + 1

InitMemory ==
  /\ vmas = {} /\ bump = GuestLow
  /\ brk = 0
  /\ allocs = << >> /\ mappings = << >>
  /\ jit = << >> /\ nextFd = 500
  /\ call = [t \in Threads |-> NoCall]
  /\ shrunk = {}
  /\ calls = 0 /\ refusals = 0

-------------------------------------------------------------------------------
\* malloc and its relatives

Insert(addr, size) == [a \in DOMAIN allocs \cup {addr} |-> IF a = addr THEN size ELSE allocs[a]]

\* hle_malloc: memory first, then the entries under the lock of the blocks; then
\* is what the caller goes on with.
MallocFor(t, size, then) ==
  IF size = 0 THEN Return(t) /\ UNCHANGED <<vmas, bump, refusals>>
  ELSE \E o \in Allocations(0, size, "malloc") :
         /\ Take(o)
         /\ IF o.base = None THEN Return(t)
            ELSE Enter(t, [op |-> "record", base |-> o.base, size |-> size, then |-> then])

Malloc(t) ==
  /\ Quiet(t) /\ Counted
  /\ \E size \in Sizes : MallocFor(t, size, NoCall)
  /\ UNCHANGED <<brk, allocs, mappings, jit, nextFd, shrunk>>

\* hle_calloc: the product of its arguments wraps around.
Calloc(t) ==
  /\ Quiet(t) /\ Counted
  /\ \E num \in 1 .. 2, size \in Sizes : MallocFor(t, (num * size) % Wrap, NoCall)
  /\ UNCHANGED <<brk, allocs, mappings, jit, nextFd, shrunk>>

RecordMalloc(t) ==
  /\ call[t].op = "record"
  /\ allocs' = Insert(call[t].base, call[t].size)
  /\ mappings' = Register(mappings, call[t].base, call[t].base, call[t].size)
  /\ Enter(t, call[t].then)
  /\ UNCHANGED <<vmas, bump, brk, jit, nextFd, shrunk, calls, refusals>>

\* The guest frees and reallocates what it got from malloc; of two threads only
\* one is in a call for a block.
Blocks == {v.base : v \in {w \in vmas : w.kind = "malloc"}}

Works(c, a) == c.op \in {"record", "shrink", "grow", "free"} /\ c.base = a

InCall(a) ==
  \E t \in Threads : Works(call[t], a) \/ (call[t].op = "record" /\ Works(call[t].then, a))

Freed(a) == Deallocate(vmas, a, allocs[a])

\* hle_free, under one lock; a block that is not listed is left alone.
FreeBlock(a) ==
  IF a \in DOMAIN allocs
    THEN vmas' = Freed(a) /\ allocs' = Restrict(allocs, DOMAIN allocs \ {a})
    ELSE UNCHANGED <<vmas, allocs>>

Free(t, a) ==
  /\ Quiet(t) /\ Counted /\ ~InCall(a)
  /\ FreeBlock(a)
  /\ UNCHANGED <<bump, brk, mappings, jit, nextFd, call, shrunk, refusals>>

\* Defect: a block is taken to have a megabyte.
FitsMegabyte(a, size) == RoundUp(allocs[a], Megabyte) >= size

Fits(a, size) == allocs[a] >= size

\* hle_realloc reads the size and gives the lock back.
Realloc(t, a) ==
  /\ Quiet(t) /\ Counted /\ ~InCall(a)
  /\ \E size \in Sizes \ {0} :
       IF a \notin DOMAIN allocs THEN MallocFor(t, size, NoCall)
       ELSE /\ Enter(t, [op |-> IF Fits(a, size) THEN "shrink" ELSE "grow",
                         base |-> a, size |-> size])
            /\ UNCHANGED <<vmas, bump, refusals>>
  /\ UNCHANGED <<brk, allocs, mappings, jit, nextFd, shrunk>>

Shrink(t) ==
  /\ call[t].op = "shrink"
  /\ allocs' = Insert(call[t].base, call[t].size)
  /\ shrunk' = shrunk \cup {call[t].base}
  /\ Return(t)
  /\ UNCHANGED <<vmas, bump, brk, mappings, jit, nextFd, calls, refusals>>

\* A larger block, a copy and the end of the old one.
Grow(t) ==
  /\ call[t].op = "grow"
  /\ MallocFor(t, call[t].size, [op |-> "free", base |-> call[t].base])
  /\ UNCHANGED <<brk, allocs, mappings, jit, nextFd, shrunk, calls>>

FreeOld(t) ==
  /\ call[t].op = "free"
  /\ FreeBlock(call[t].base)
  /\ Return(t)
  /\ UNCHANGED <<bump, brk, mappings, jit, nextFd, shrunk, calls, refusals>>

\* sceAgcCreateShader: a block for the object, then one for its binary, of which
\* the object goes without when there is none or no memory for it.
CreateShader(t) ==
  /\ Quiet(t) /\ Counted
  /\ \E size \in Sizes :
       MallocFor(t, ShaderObject, IF size = 0 THEN NoCall ELSE [op |-> "binary", size |-> size])
  /\ UNCHANGED <<brk, allocs, mappings, jit, nextFd, shrunk>>

CreateBinary(t) ==
  /\ call[t].op = "binary"
  /\ MallocFor(t, call[t].size, NoCall)
  /\ UNCHANGED <<brk, allocs, mappings, jit, nextFd, shrunk, calls>>

-------------------------------------------------------------------------------
\* The break, the guest's own mappings and direct memory

\* sys_obreak: memory is mapped over whatever is there from the break on, unless
\* the break is not of a page or the host refuses; the break moves all the same.
Obreak(t) ==
  /\ Quiet(t) /\ Counted /\ brk # 0
  /\ \E to \in {brk + g : g \in Growths} :
       /\ to > 0
       /\ LET top    == brk + RoundUp(to - brk, GuestPage)
              mapped == to > brk /\ brk % HostPage = 0
          IN  \/ /\ mapped
                 /\ vmas' = Without(vmas, brk, top) \cup {Mapping(brk, top - brk, "break")}
                 /\ UNCHANGED refusals
              \/ /\ mapped => refusals < MaxRefusals
                 /\ refusals' = refusals + IF mapped THEN 1 ELSE 0
                 /\ UNCHANGED vmas
       /\ brk' = to
  /\ UNCHANGED <<bump, allocs, mappings, jit, nextFd, call, shrunk>>

\* sys_mmap and sceKernelReserveVirtualRange: with a hint or without.
Mmap(t) ==
  /\ Quiet(t) /\ Counted
  /\ \E size \in Sizes, hint \in {0, GuestHigh - Megabyte} :
       \E o \in Allocations(hint, size, "mmap") : Take(o)
  /\ UNCHANGED <<brk, allocs, mappings, jit, nextFd, call, shrunk>>

\* sys_munmap of what the guest has mapped.
Munmap(t) ==
  /\ Quiet(t) /\ Counted
  /\ \E v \in vmas : v.kind = "mmap" /\ vmas' = Deallocate(vmas, v.base, v.end - v.base)
  /\ UNCHANGED <<bump, brk, allocs, mappings, jit, nextFd, call, shrunk, refusals>>

AllocateDirect(t) ==
  /\ Quiet(t) /\ Counted
  /\ \E size \in Sizes : \E o \in Allocations(0, size, "direct") : Take(o)
  /\ UNCHANGED <<brk, allocs, mappings, jit, nextFd, call, shrunk>>

\* sceKernelMapDirectMemory, sceKernelMapNamedDirectMemory: mapped where it is.
MapDirect(t) ==
  /\ Quiet(t) /\ Counted
  /\ \E v \in vmas : v.kind = "direct" /\ mappings' = Register(mappings, v.lo, v.lo, v.hi - v.lo)
  /\ UNCHANGED <<vmas, bump, brk, allocs, jit, nextFd, call, shrunk, refusals>>

\* sceKernelCreateGpuQueue, for a ring in direct memory with its three words at the
\* end: each is entered for itself.
CreateQueue(t) ==
  /\ Quiet(t) /\ Counted
  /\ \E v \in vmas :
       LET words == v.hi - QueueWords .. v.hi - 1
           sizes == [a \in {v.lo} \cup words |->
                       IF a \in words THEN 1 ELSE v.hi - QueueWords - v.lo]
       IN  /\ v.kind = "direct"
           /\ mappings' = [a \in DOMAIN mappings \cup DOMAIN sizes |->
                             IF a \in DOMAIN sizes THEN [host |-> a, size |-> sizes[a]]
                             ELSE mappings[a]]
  /\ UNCHANGED <<vmas, bump, brk, allocs, jit, nextFd, call, shrunk, refusals>>

-------------------------------------------------------------------------------
\* JIT shared memory

AddJit(info) == jit' = [f \in DOMAIN jit \cup {nextFd} |-> IF f = nextFd THEN info ELSE jit[f]]

\* Nowhere to put the descriptor: the memory goes back.
CreateJit(t) ==
  /\ Quiet(t) /\ Counted
  /\ \E size \in Sizes, wanted \in BOOLEAN : \E o \in Allocations(0, size, "jit") :
       /\ bump' = o.bump /\ refusals' = refusals + o.refused
       /\ IF o.base # None /\ wanted
            THEN /\ vmas' = o.vmas
                 /\ AddJit([of |-> nextFd, host |-> o.base, len |-> size, guest |-> 0])
                 /\ nextFd' = nextFd + 1
            ELSE /\ vmas' = IF o.base = None THEN vmas ELSE Deallocate(o.vmas, o.base, size)
                 /\ UNCHANGED <<jit, nextFd>>
  /\ UNCHANGED <<brk, allocs, mappings, call, shrunk>>

\* The alias is a copy of what its parent is now.
AliasOf(fd) == jit[fd]

AliasJit(t) ==
  /\ Quiet(t) /\ Counted
  /\ \E fd \in DOMAIN jit : AddJit(AliasOf(fd)) /\ nextFd' = nextFd + 1
  /\ UNCHANGED <<vmas, bump, brk, allocs, mappings, call, shrunk, refusals>>

MapJit(t) ==
  /\ Quiet(t) /\ Counted
  /\ \E fd \in DOMAIN jit :
       /\ mappings' = Register(mappings, jit[fd].host, jit[fd].host, jit[fd].len)
       /\ jit' = [jit EXCEPT ![fd].guest = jit[fd].host]
  /\ UNCHANGED <<vmas, bump, brk, allocs, nextFd, call, shrunk, refusals>>

-------------------------------------------------------------------------------
\* Steps that allocate, and steps within a call
Memory(t) ==
  \/ Malloc(t) \/ Calloc(t) \/ RecordMalloc(t)
  \/ \E a \in Blocks \cup {GuestLow} : Free(t, a) \/ Realloc(t, a)
  \/ Shrink(t) \/ Grow(t) \/ FreeOld(t)
  \/ CreateShader(t) \/ CreateBinary(t)
  \/ Obreak(t) \/ Mmap(t) \/ Munmap(t)
  \/ AllocateDirect(t) \/ MapDirect(t) \/ CreateQueue(t)
  \/ CreateJit(t) \/ AliasJit(t) \/ MapJit(t)

-------------------------------------------------------------------------------
\* Memory the program or the guest still counts on is mapped, as its own, up to
\* the size that is kept for it: the blocks of malloc, and JIT memory, through
\* all allocations, releases and refusals.  Only memory the growing break was
\* mapped over is lost (allocate_guest_memory, hle_free, hle_realloc).
BlocksKeepTheirMemory ==
  LET Kept(kind, base, size) ==
        \/ MappedFor(kind, base, base, base + size)
        \/ \E v \in vmas : v.kind = "break" /\ Overlap(v, base, base + size)
  IN  /\ \A a \in DOMAIN allocs : Kept("malloc", a, allocs[a])
      /\ \A f \in DOMAIN jit : Kept("jit", jit[f].host, jit[f].len)

\* Memory of malloc that no block accounts for is the tail of a block that
\* realloc made smaller, or about to be recorded: nothing else leaks (hle_free,
\* hle_realloc, which records the new size and keeps the pages).
OnlyShrinkingLeaks ==
  \A v \in vmas : v.kind = "malloc" =>
    \/ v.base \in DOMAIN allocs
    \/ v.base \in shrunk
    \/ \E t \in Threads : call[t].op = "record" /\ call[t].base = v.base

\* Every descriptor of one JIT memory is for the same memory, is mapped at that
\* memory's address or not yet, and every entry of the address map translates an
\* address to itself, so that it does not matter which of two overlapping
\* entries answers (sceKernelJitCreateAliasOfSharedMemory, translate_guest_addr).
AliasesShareMemory ==
  /\ \A f \in DOMAIN jit :
       /\ jit[f].host = jit[jit[f].of].host
       /\ jit[f].guest # 0 => jit[f].guest = jit[f].host
  /\ \A g \in DOMAIN mappings : Translations(g) = {g}
===============================================================================
