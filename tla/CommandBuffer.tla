---------------------------- MODULE CommandBuffer ----------------------------
(***************************************************************************)
(* The AGC functions that write PM4 packets into a command buffer of the   *)
(* guest, patch them and announce their sizes (src/src/graphics.rs).       *)
(*                                                                         *)
(* A word is a record that says what stands in it: a packet header, or a   *)
(* named field.  A builder is an operator from the arguments its control   *)
(* flow looks at to the allocations it makes: each moves the cursor by     *)
(* "alloc" words (try_allocate_command_dwords) and then writes "words" from *)
(* the place the cursor was.  A refused call makes none.                    *)
(***************************************************************************)
EXTENDS Integers, Sequences, FiniteSets, SequencesExt

CONSTANTS
  LenSpan,   \* 2^14: values of a header's length field
  MaxMarker, \* bytes of a marker that DcbPushMarker reads, 256
  MaxRegs    \* register_count that CbSetShRegistersDirect accepts, 4096

ASSUME CommandBufferAssumption ==
  /\ LenSpan \in Nat /\ LenSpan > 8
  /\ MaxMarker \in 1 .. 4 * LenSpan
  /\ MaxRegs \in 1 .. LenSpan - 1

-------------------------------------------------------------------------------
\* Opcodes
IT_NOP == \h10
IT_SET_BASE == \h11
IT_INDEX_BUFFER_SIZE == \h13
IT_DISPATCH_DIRECT == \h15
IT_DISPATCH_INDIRECT == \h16
IT_INDEX_BASE == \h26
IT_DRAW_INDEX_2 == \h27
IT_INDEX_TYPE == \h2A
IT_NUM_INSTANCES == \h2F
IT_DRAW_INDEX_OFFSET_2 == \h35
IT_WAIT_REG_MEM == \h3C
IT_EVENT_WRITE == \h46
IT_SET_SH_REG == \h76

\* Words

\* pm4_header: the bits above the length field are the packet's type, which the
\* code leaves 0, or what a length too large for its field puts there.
Header(n, op, reg) ==
  [kind |-> "header", type |-> ((n - 2) \div LenSpan) % 4,
   len |-> (n - 2) % LenSpan, op |-> op, reg |-> reg]

\* A header as the guest's own code writes it, of type 3.
Header3(n, op, reg) == [Header(n, op, reg) EXCEPT !.type = 3]

Field(name) == [kind |-> "field", name |-> name, val |-> "built"]

Fields(names) == [i \in DOMAIN names |-> Field(names[i])]

Repeated(n, name) == [i \in 1 .. n |-> Field(name)]

\* A word of the buffer the cursor has passed and nobody has written.
Stale == [kind |-> "stale"]

IsHeader(w) == w.kind = "header"

\* What stands in buffers: of the guest's own words, offsets of registers and the
\* names of buffers are told apart.
IsWord(w) ==
  CASE IsHeader(w)       -> /\ w = [kind |-> "header", type |-> w.type, len |-> w.len,
                                    op |-> w.op, reg |-> w.reg]
                            /\ w.type \in 0 .. 3 /\ w.len \in Nat
    [] w.kind = "field"  -> w = [kind |-> "field", name |-> w.name, val |-> w.val]
    [] w.kind = "reg"    -> w = [kind |-> "reg", reg |-> w.reg]
    [] w.kind = "buffer" -> w = [kind |-> "buffer", buf |-> w.buf]
    [] OTHER             -> w = Stale

AreWords(p) == p \in Seq(ToSet(p)) /\ \A i \in DOMAIN p : IsWord(p[i])

\* One allocation and what is written at it; the packet usually fills it.
Chunk(n, words) == <<[alloc |-> n, words |-> words]>>

Packet(n, op, reg, names) == Chunk(n, <<Header(n, op, reg)>> \o Fields(names))

Refused == << >>

\* What the buffer holds after the cursor has moved: an allocation that was not
\* written to its end leaves stale words.
Written(c) == c.words \o [i \in 1 .. c.alloc - Len(c.words) |-> Stale]

-------------------------------------------------------------------------------
\* Builders of both kinds of buffer

\* Defect: the header counts itself twice.
CbNopLong(count) ==
  IF count < 2 \/ count > LenSpan + 1 THEN Refused
  ELSE Chunk(count, <<Header(count + 1, IT_NOP, "ZERO")>> \o Repeated(count - 1, "zero"))

CbNop(count) ==
  IF count < 2 \/ count > LenSpan + 1 THEN Refused
  ELSE Chunk(count, <<Header(count, IT_NOP, "ZERO")>> \o Repeated(count - 1, "zero"))

CbDispatch ==
  Packet(5, IT_DISPATCH_DIRECT, "ZERO", <<"x", "y", "z", "initiator">>)

\* The offsets in order (sort_by_key).
Sorted(offsets) ==
  LET before(k, j) == offsets[k] < offsets[j] \/ (offsets[k] = offsets[j] /\ k < j)
      place(j) == 1 + Cardinality({k \in DOMAIN offsets : before(k, j)})
  IN [i \in DOMAIN offsets |-> offsets[CHOOSE j \in DOMAIN offsets : place(j) = i]]

\* The lengths of the runs of neighbours among the first i offsets, for each i.
Runs(sorted) ==
  LET runs[i \in 0 .. Len(sorted)] ==
        IF i = 0 THEN << >>
        ELSE IF i > 1 /\ sorted[i] = sorted[i - 1] + 1
          THEN [runs[i - 1] EXCEPT ![Len(runs[i - 1])] = @ + 1]
        ELSE Append(runs[i - 1], 1)
  IN runs

\* Registers are sorted and every run of neighbours becomes one packet.
CbSetShRegistersDirect(offsets) ==
  IF offsets = << >> \/ Len(offsets) > MaxRegs THEN Refused
  ELSE LET runs == Runs(Sorted(offsets))[Len(offsets)] IN
       [i \in DOMAIN runs |->
          [alloc |-> runs[i] + 2,
           words |-> <<Header(runs[i] + 2, IT_SET_SH_REG, "ZERO"), Field("offset")>>
                       \o Repeated(runs[i], "value")]]

\* No upper bound on the count; unreadable values are written as 0.
CbSetShRegisterRangeDirect(offset, count) ==
  IF offset = 0 \/ offset > 1023 \/ count = 0 THEN Refused
  ELSE Packet(2, IT_NOP, "ZERO", <<"marker">>)
         \o Chunk(count + 2, <<Header(count + 2, IT_SET_SH_REG, "ZERO"), Field("offset")>>
                               \o Repeated(count, "value"))

CbReleaseMem(destination, selection) ==
  IF destination > 1 \/ selection > 3 THEN Refused
  ELSE Packet(8, IT_NOP, "RELEASE_MEM",
              <<"action", "control", "addr_lo", "addr_hi", "data_lo", "data_hi", "zero">>)

-------------------------------------------------------------------------------
\* Draw command buffers

IndexBuffer ==
  <<Header(3, IT_INDEX_BASE, "ZERO"), Field("addr_lo"), Field("addr_hi"),
    Header(2, IT_INDEX_BUFFER_SIZE, "ZERO"), Field("count")>>

DrawModifier == 1  \* stands for 0x4000_0000

DcbDrawIndex(modifier) ==
  IF modifier # DrawModifier THEN Refused
  ELSE Chunk(5, IndexBuffer)
         \o Packet(6, IT_DRAW_INDEX_2, "ZERO",
                   <<"count", "addr_lo", "addr_hi", "count", "zero">>)

DcbDrawIndexAuto(modifier) ==
  IF modifier # DrawModifier THEN Refused
  ELSE Packet(7, IT_NOP, "DRAW_INDEX_AUTO",
              <<"count", "zero", "zero", "zero", "zero", "zero">>)

DcbDrawIndexOffset ==
  Packet(5, IT_DRAW_INDEX_OFFSET_2, "ZERO", <<"count", "offset", "count", "flags">>)

DcbSetIndexSize(cachePolicy) ==
  IF cachePolicy # 0 THEN Refused
  ELSE Packet(2, IT_INDEX_TYPE, "ZERO", <<"size">>)

DcbSetIndexCount == Packet(2, IT_NOP, "INDEX_COUNT", <<"count">>)

DcbSetNumInstances == Packet(2, IT_NUM_INSTANCES, "ZERO", <<"count">>)

DcbSetCxRegistersIndirect == Packet(2, IT_NOP, "CX_REGS_INDIRECT", <<"zero">>)

DcbSetShRegistersIndirect == Packet(2, IT_NOP, "SH_REGS_INDIRECT", <<"zero">>)

DcbSetUcRegistersIndirect == Packet(2, IT_NOP, "UC_REGS_INDIRECT", <<"zero">>)

\* The data is read after the cursor has moved and the header is written; data
\* that cannot be read from the word after "readable" on ends the call there.
DcbWriteData(count, readable) ==
  IF count > LenSpan - 3 THEN Refused
  ELSE LET n == count + 4 IN
       Chunk(n, <<Header(n, IT_NOP, "WRITE_DATA")>>
                  \o Fields(<<"control", "addr_lo", "addr_hi">>)
                  \o Repeated(IF readable < count THEN readable ELSE count, "data"))

Wait32(names) == Packet(6, IT_NOP, "WAIT_MEM32", names)
Wait64(names) == Packet(9, IT_NOP, "WAIT_MEM64", names)

Wait32Fields == <<"addr_lo", "addr_hi", "mask_lo", "compare", "ref_lo">>
Wait64Fields ==
  <<"addr_lo", "addr_hi", "mask_lo", "mask_hi", "ref_lo", "ref_hi", "compare", "poll">>

DcbWaitRegMem(size, operation) ==
  IF size > 1 \/ operation > 4 THEN Refused
  ELSE IF operation \in {2, 3}
         THEN Packet(7, IT_WAIT_REG_MEM, "ZERO",
                     <<"compare", "addr_lo", "addr_hi", "ref_lo", "mask_lo", "poll">>)
       ELSE IF size = 0 THEN Wait32(Wait32Fields) ELSE Wait64(Wait64Fields)

DcbDmaData(bytes) ==
  IF bytes = 0 \/ bytes % 4 # 0 THEN Refused
  ELSE Packet(8, IT_NOP, "DMA_DATA",
              <<"selectors", "control", "bytes", "dst_lo", "dst_hi", "src_lo", "src_hi">>)

DcbEventWrite(event, address) ==
  IF event > 63 \/ address # 0 THEN Refused
  ELSE Packet(2, IT_EVENT_WRITE, "ZERO", <<"event">>)

DcbWaitUntilSafeForRendering ==
  Packet(7, IT_NOP, "WAIT_FLIP_DONE", <<"handle", "index", "zero", "zero", "zero", "zero">>)

DcbSetFlip ==
  Packet(6, IT_NOP, "FLIP", <<"handle", "index", "mode", "arg_lo", "arg_hi">>)

\* The marker's length in bytes, of which MaxMarker are read; four go into a word.
DcbPushMarker(bytes) ==
  IF bytes = 0 THEN Refused
  ELSE LET read == IF bytes < MaxMarker THEN bytes ELSE MaxMarker
           payload == (read + 3) \div 4 IN
       Chunk(payload + 1, <<Header(payload + 1, IT_NOP, "PUSH_MARKER")>>
                            \o Repeated(payload, "text"))

DcbPopMarker == Packet(2, IT_NOP, "POP_MARKER", <<"zero">>)

DcbResetQueue(op, state) ==
  IF op # 1023 \/ state # 0 THEN Refused
  ELSE Packet(2, IT_NOP, "DRAW_RESET", <<"zero">>)

AcquireFields == <<"engine", "size", "zero", "base", "zero", "poll", "control">>

\* The range's odd bytes, those beyond 2^40 included.
DcbAcquireMem(engine, odd) ==
  IF engine > 1 \/ odd # 0 THEN Refused
  ELSE Packet(8, IT_NOP, "ACQUIRE_MEM", AcquireFields)

DcbSetIndexBuffer == Chunk(5, IndexBuffer)

\* Defect: the packet of the compute buffers, which is one word longer.
DcbDispatchIndirectWide ==
  Packet(4, IT_DISPATCH_INDIRECT, "ZERO", <<"offset", "zero", "initiator">>)

DcbDispatchIndirect ==
  Packet(3, IT_DISPATCH_INDIRECT, "ZERO", <<"offset", "initiator">>)

DcbSetBaseIndirectArgs(index) ==
  Packet(4, IT_SET_BASE, IF index = 0 THEN "ZERO" ELSE "BASE", <<"one", "addr_lo", "addr_hi">>)

DcbStallCommandBufferParser == Packet(2, IT_NOP, "ZERO", <<"zero">>)

-------------------------------------------------------------------------------
\* Asynchronous compute buffers

AcbResetQueue == Packet(2, IT_NOP, "ACB_RESET", <<"zero">>)

\* Events 0x38 and 0x39 carry an address.
AcbEventWrite(event) ==
  IF event >= 64 THEN Refused
  ELSE IF event \in {56, 57}
         THEN Packet(4, IT_EVENT_WRITE, "ZERO", <<"event", "addr_lo", "addr_hi">>)
         ELSE Packet(2, IT_EVENT_WRITE, "ZERO", <<"event">>)

AcbAcquireMem(odd) ==
  IF odd # 0 THEN Refused ELSE Packet(8, IT_NOP, "ACQUIRE_MEM", AcquireFields)

AcbWaitRegMem(size) ==
  IF size > 1 THEN Refused
  ELSE IF size = 0 THEN Wait32(Wait32Fields) ELSE Wait64(Wait64Fields)

AcbWriteData == Packet(2, IT_NOP, "WRITE_DATA", <<"zero">>)

AcbDispatchIndirect ==
  Packet(4, IT_DISPATCH_INDIRECT, "ZERO", <<"addr_lo", "addr_hi", "initiator">>)

AcbDmaData(bytes) ==
  IF bytes = 0 THEN Refused
  ELSE Packet(7, IT_NOP, "DMA_DATA",
              <<"dst_lo", "dst_hi", "src_lo", "src_hi", "bytes", "selectors">>)

-------------------------------------------------------------------------------
\* A call of a builder: its name and its arguments, and the allocations it makes.

WithNone == {"CbDispatch", "DcbDrawIndexOffset", "DcbSetIndexCount", "DcbSetNumInstances",
   "DcbSetCxRegistersIndirect", "DcbSetShRegistersIndirect",
   "DcbSetUcRegistersIndirect", "DcbWaitUntilSafeForRendering", "DcbSetFlip",
   "DcbPopMarker", "DcbSetIndexBuffer", "DcbDispatchIndirect",
   "DcbStallCommandBufferParser", "AcbResetQueue", "AcbWriteData",
   "AcbDispatchIndirect"}

WithCount == {"CbNop", "DcbDrawIndex", "DcbDrawIndexAuto", "DcbSetIndexSize", "DcbDmaData",
   "DcbPushMarker", "DcbSetBaseIndirectArgs", "AcbEventWrite", "AcbWaitRegMem",
   "AcbDmaData", "AcbAcquireMem"}

Builders ==
  WithNone \cup WithCount
    \cup {"CbSetShRegistersDirect", "CbSetShRegisterRangeDirect", "CbReleaseMem", "DcbWriteData",
          "DcbWaitRegMem", "DcbEventWrite", "DcbResetQueue", "DcbAcquireMem"}

\* The arguments a builder's control flow looks at.  Registers written as a range fit
\* the length field, which the code does not look at: there are 1024 of them.
Arguments(name) ==
  CASE name \in WithNone                    -> {<< >>}
    [] name \in WithCount                   -> [1 .. 1 -> Nat]
    [] name = "CbSetShRegistersDirect"      -> Seq(Nat)
    [] name = "CbSetShRegisterRangeDirect"  -> Nat \X (0 .. LenSpan - 1)
    [] OTHER                                -> Nat \X Nat

Chunks(call) ==
  LET a == call.args IN
  CASE call.name = "CbNop" -> CbNop(a[1])
    [] call.name = "CbDispatch" -> CbDispatch
    [] call.name = "CbSetShRegistersDirect" -> CbSetShRegistersDirect(a)
    [] call.name = "CbSetShRegisterRangeDirect" -> CbSetShRegisterRangeDirect(a[1], a[2])
    [] call.name = "CbReleaseMem" -> CbReleaseMem(a[1], a[2])
    [] call.name = "DcbDrawIndex" -> DcbDrawIndex(a[1])
    [] call.name = "DcbDrawIndexAuto" -> DcbDrawIndexAuto(a[1])
    [] call.name = "DcbDrawIndexOffset" -> DcbDrawIndexOffset
    [] call.name = "DcbSetIndexSize" -> DcbSetIndexSize(a[1])
    [] call.name = "DcbSetIndexCount" -> DcbSetIndexCount
    [] call.name = "DcbSetNumInstances" -> DcbSetNumInstances
    [] call.name = "DcbSetCxRegistersIndirect" -> DcbSetCxRegistersIndirect
    [] call.name = "DcbSetShRegistersIndirect" -> DcbSetShRegistersIndirect
    [] call.name = "DcbSetUcRegistersIndirect" -> DcbSetUcRegistersIndirect
    [] call.name = "DcbWriteData" -> DcbWriteData(a[1], a[2])
    [] call.name = "DcbWaitRegMem" -> DcbWaitRegMem(a[1], a[2])
    [] call.name = "DcbDmaData" -> DcbDmaData(a[1])
    [] call.name = "DcbEventWrite" -> DcbEventWrite(a[1], a[2])
    [] call.name = "DcbWaitUntilSafeForRendering" -> DcbWaitUntilSafeForRendering
    [] call.name = "DcbSetFlip" -> DcbSetFlip
    [] call.name = "DcbPushMarker" -> DcbPushMarker(a[1])
    [] call.name = "DcbPopMarker" -> DcbPopMarker
    [] call.name = "DcbResetQueue" -> DcbResetQueue(a[1], a[2])
    [] call.name = "DcbAcquireMem" -> DcbAcquireMem(a[1], a[2])
    [] call.name = "DcbSetIndexBuffer" -> DcbSetIndexBuffer
    [] call.name = "DcbDispatchIndirect" -> DcbDispatchIndirect
    [] call.name = "DcbSetBaseIndirectArgs" -> DcbSetBaseIndirectArgs(a[1])
    [] call.name = "DcbStallCommandBufferParser" -> DcbStallCommandBufferParser
    [] call.name = "AcbResetQueue" -> AcbResetQueue
    [] call.name = "AcbEventWrite" -> AcbEventWrite(a[1])
    [] call.name = "AcbAcquireMem" -> AcbAcquireMem(a[1])
    [] call.name = "AcbWaitRegMem" -> AcbWaitRegMem(a[1])
    [] call.name = "AcbWriteData" -> AcbWriteData
    [] call.name = "AcbDispatchIndirect" -> AcbDispatchIndirect
    [] call.name = "AcbDmaData" -> AcbDmaData(a[1])

-------------------------------------------------------------------------------
\* Patches: the offsets, in words from the header, that a patch of a header's
\* packet writes; {} where the function refuses the packet.

DmaDataPatchSetDst(h) ==
  IF h.op = IT_NOP /\ h.reg = "DMA_DATA"
    THEN LET o == IF h.len + 2 = 7 THEN 1 ELSE 4 IN {o, o + 1} ELSE {}

DmaDataPatchSetSrc(h) ==
  IF h.op = IT_NOP /\ h.reg = "DMA_DATA"
    THEN LET o == IF h.len + 2 = 7 THEN 3 ELSE 6 IN {o, o + 1} ELSE {}

WaitKind(h) ==
  IF h.op = IT_WAIT_REG_MEM THEN "standard"
  ELSE IF h.op # IT_NOP THEN "none"
  ELSE IF h.reg = "WAIT_MEM32" THEN "mem32"
  ELSE IF h.reg = "WAIT_MEM64" THEN "mem64"
  ELSE "none"

WaitRegMemPatchAddress(h) ==
  CASE WaitKind(h) = "standard"           -> {2, 3}
    [] WaitKind(h) \in {"mem32", "mem64"} -> {1, 2}
    [] OTHER                              -> {}

WaitRegMemPatchCompareFunction(h) ==
  CASE WaitKind(h) = "standard" -> {1}
    [] WaitKind(h) = "mem32"    -> {4}
    [] WaitKind(h) = "mem64"    -> {7}
    [] OTHER                    -> {}

WaitRegMemPatchReference(h) ==
  CASE WaitKind(h) = "standard" -> {4}
    [] WaitKind(h) = "mem32"    -> {5}
    [] WaitKind(h) = "mem64"    -> {5, 6}
    [] OTHER                    -> {}

WaitRegMemPatchMask(h) ==
  CASE WaitKind(h) = "standard" -> {5}
    [] WaitKind(h) = "mem32"    -> {3}
    [] WaitKind(h) = "mem64"    -> {3, 4}
    [] OTHER                    -> {}

IsReleaseMem(h) == h.op = IT_NOP /\ h.reg = "RELEASE_MEM"

QueueEndOfPipeActionPatchAddress(h) == IF IsReleaseMem(h) THEN {3, 4} ELSE {}

QueueEndOfPipeActionPatchGcrCntl(h) == IF IsReleaseMem(h) THEN {2} ELSE {}

QueueEndOfPipeActionPatchType(h) == IF IsReleaseMem(h) THEN {2} ELSE {}

PatchedWords(patch, h) ==
  CASE patch = "dst"         -> DmaDataPatchSetDst(h)
    [] patch = "src"         -> DmaDataPatchSetSrc(h)
    [] patch = "address"     -> WaitRegMemPatchAddress(h)
    [] patch = "compare"     -> WaitRegMemPatchCompareFunction(h)
    [] patch = "reference"   -> WaitRegMemPatchReference(h)
    [] patch = "mask"        -> WaitRegMemPatchMask(h)
    [] patch = "eop_address" -> QueueEndOfPipeActionPatchAddress(h)
    [] patch = "eop_gcr"     -> QueueEndOfPipeActionPatchGcrCntl(h)
    [] patch = "eop_type"    -> QueueEndOfPipeActionPatchType(h)

Patches ==
  {"dst", "src", "address", "compare", "reference", "mask",
   "eop_address", "eop_gcr", "eop_type"}

-------------------------------------------------------------------------------
\* What the ...GetSize functions of these builders announce, in words.
AnnouncedWords ==
  [CbDispatch |-> 5, CbNop |-> 2, DcbDrawIndex |-> 11, DcbDrawIndexAuto |-> 7,
   DcbDrawIndexOffset |-> 5, DcbSetIndexCount |-> 7, DcbDmaData |-> 8, DcbWriteData |-> 4,
   DcbStallCommandBufferParser |-> 2, AcbDmaData |-> 8, AcbEventWrite |-> 4,
   AcbAcquireMem |-> 8, DcbAcquireMem |-> 8, CbSetShRegistersDirect |-> 200,
   DcbSetCxRegistersIndirect |-> 2, DcbSetShRegistersIndirect |-> 2,
   DcbDispatchIndirect |-> 3, DcbSetIndexBuffer |-> 5, CbReleaseMem |-> 8,
   DcbEventWrite |-> 4]

\* The announced sizes are constants; those of three builders whose packets grow
\* with their arguments (CbNop 2, DcbWriteData 4, CbSetShRegistersDirect 200) are
\* no bound on what these write, and their callers must count the words instead.
FixedSize ==
  DOMAIN AnnouncedWords \ {"CbNop", "DcbWriteData", "CbSetShRegistersDirect"}
===============================================================================
