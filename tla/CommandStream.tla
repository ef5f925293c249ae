---------------------------- MODULE CommandStream ----------------------------
(***************************************************************************)
(* Command buffers from the guest's calls to the decoder                   *)
(* (decode_pm4_command_buffer in src/src/graphics.rs).                     *)
(*                                                                         *)
(* The guest fills buffers with builder calls (CommandBuffer) and with     *)
(* type-3 packets of its own, patches them and submits them.  Each decoder *)
(* is a thread: a queue's command processor, or a guest thread inside a    *)
(* submit call.  It walks a buffer packet by packet, and an indirect       *)
(* buffer before the packet after it.  The register state is one for all   *)
(* decoders, and its lock is held for one register or one draw at a time.  *)
(***************************************************************************)
EXTENDS CommandBuffer, TLC

CONSTANTS
  Decoders,   \* threads that decode
  Buffers,    \* buffers in guest memory
  Calls,      \* builder calls made for each buffer: names and arguments
  Packets3,   \* packets the guest writes itself into each, as sequences of words
  MaxCalls,   \* bound: calls and packets for each buffer
  MaxBuilds,  \* bound: calls of builders in all
  MayDecode,  \* buffers each decoder is given
  MaxDepth,   \* nested indirect buffers a thread follows, 16
  MaxSubmits  \* bound: submissions

\* The fields each patch function is for.
Target(patch) ==
  CASE patch = "dst"                         -> {"dst_lo", "dst_hi"}
    [] patch = "src"                         -> {"src_lo", "src_hi"}
    [] patch \in {"address", "eop_address"}  -> {"addr_lo", "addr_hi"}
    [] patch = "compare"                     -> {"compare"}
    [] patch = "reference"                   -> {"ref_lo", "ref_hi"}
    [] patch = "mask"                        -> {"mask_lo", "mask_hi"}
    [] patch \in {"eop_gcr", "eop_type"}     -> {"control"}

\* The words of a packet by the length in its header; types 1 and 2 are one word.
Span(h) == IF h.type \in {1, 2} THEN 1 ELSE h.len + 2

\* The guest's own packets are as long as they say, and laid out as the builders' are
\* where a patch function takes them.
GuestPacket(p) ==
  /\ AreWords(p) /\ p # << >>
  /\ \A i \in DOMAIN p : IsHeader(p[i]) <=> i = 1
  /\ Len(p) = Span(p[1])
  /\ \A patch \in Patches : PatchedWords(patch, p[1]) # {} =>
       /\ p[1].type \notin {1, 2}
       /\ PatchedWords(patch, p[1]) =
            {o \in 1 .. Len(p) - 1 : p[o + 1].kind = "field" /\ p[o + 1].name \in Target(patch)}

ASSUME GuestCalls ==
  \A b \in Buffers :
    /\ \A call \in Calls[b] : call.name \in Builders /\ call.args \in Arguments(call.name)
    /\ \A p \in Packets3[b] : GuestPacket(p)

ASSUME StreamBounds ==
  MaxCalls \in [Buffers -> Nat] /\ MaxDepth \in Nat /\ MaxSubmits \in Nat
  /\ MayDecode \in [Decoders -> SUBSET Buffers]

VARIABLES
  buf,        \* the words of each buffer up to its cursor
  calls,      \* calls made to fill each buffer
  builds,     \* calls of builders
  reserved,   \* words that the announced sizes of these calls add up to
  stack,      \* each decoder's buffers being walked, the innermost last
  depth,      \* RECURSION_DEPTH of its thread
  regs,       \* ACTIVE_STATE: the registers written so far
  indexType,  \* ACTIVE_STATE.index_type
  memory,     \* guest memory that WRITE_DATA packets reach
  issued,     \* history: draws and dispatches, with the state they use
  origin,     \* history: the shared state at each submission
  alone,      \* history: no other decoder has stepped since
  submits     \* submissions made

sharedVars == <<regs, indexType, memory, issued>>
fillVars   == <<buf, calls, builds, reserved>>
walkVars   == <<stack, depth>>
pastVars   == <<origin, submits>>
streamVars == <<fillVars, walkVars, sharedVars, pastVars, alone>>

-------------------------------------------------------------------------------
\* Registers that SET_SH_REG and SET_CONTEXT_REG packets reach; others are
\* ignored.  A 64-bit address is two of them.

ShRegisters ==
  \h1000 .. \h1005 \cup \h1008 .. \h1012 \cup \h1020 .. \h1027
    \cup \h1030 .. \h1035 \cup \h1038 .. \h103B

CxRegisters == \h1000 .. \h1003 \cup \h100E .. \h100F

IndexCount == \h100D

Zero == "0"

\* The registers after one of them is written.
Writing(r, value) == [n \in DOMAIN regs \cup {r} |-> IF n = r THEN value ELSE regs[n]]

NoComputeShader(r) == \A n \in {\h100E, \h100F} : n \notin DOMAIN r \/ r[n] = Zero

\* Opcodes the decoder knows.
OpDraw      == {\h27, \h28, \h35}
OpDrawAuto  == \h2D
OpSetSh     == \h2C
OpSetCx     == \h69
OpWriteData == \h37
OpIndirect  == \h3F
OpDispatch  == {\h15, \hD5}
OpIndexType == \h24

Shared == [regs |-> regs, indexType |-> indexType, memory |-> memory, issued |-> issued]

StreamTypeOK ==
  /\ DOMAIN buf = Buffers
  /\ \A b \in Buffers : calls[b] \in 0 .. MaxCalls[b] /\ reserved[b] \in Nat
  /\ depth \in [Decoders -> 0 .. MaxDepth]
  /\ \A d \in Decoders : \A i \in DOMAIN stack[d] :
       stack[d][i].buf \in Buffers /\ stack[d][i].pos \in Nat
  /\ DOMAIN regs \subseteq ShRegisters
  /\ submits \in 0 .. MaxSubmits

StreamInit ==
  /\ buf = [b \in Buffers |-> << >>]
  /\ calls = [b \in Buffers |-> 0]
  /\ builds = 0
  /\ reserved = [b \in Buffers |-> 0]
  /\ stack = [d \in Decoders |-> << >>]
  /\ depth = [d \in Decoders |-> 0]
  /\ regs = << >>
  /\ indexType = Zero
  /\ memory = Zero
  /\ issued = << >>
  /\ origin = [d \in Decoders |-> Shared]
  /\ alone = [d \in Decoders |-> FALSE]
  /\ submits = 0

-------------------------------------------------------------------------------
\* The guest.  It fills all its buffers before it submits the first.

\* A builder called by name.
Build(b, call) ==
  LET chunks == Chunks(call)
      words == FlattenSeq([i \in DOMAIN chunks |-> Written(chunks[i])]) IN
  /\ submits = 0
  /\ calls[b] < MaxCalls[b] /\ builds < MaxBuilds
  /\ buf' = [buf EXCEPT ![b] = @ \o words]
  /\ calls' = [calls EXCEPT ![b] = @ + 1]
  /\ builds' = builds + 1
  /\ reserved' = [reserved EXCEPT
       ![b] = @ + IF call.name \in FixedSize
                    THEN AnnouncedWords[call.name] ELSE Len(words)]
  /\ UNCHANGED <<walkVars, sharedVars, pastVars, alone>>

\* A packet the guest writes by itself and moves the cursor for.
WritePacket(b, words) ==
  /\ submits = 0
  /\ calls[b] < MaxCalls[b]
  /\ buf' = [buf EXCEPT ![b] = @ \o words]
  /\ calls' = [calls EXCEPT ![b] = @ + 1]
  /\ reserved' = [reserved EXCEPT ![b] = @ + Len(words)]
  /\ UNCHANGED <<builds, walkVars, sharedVars, pastVars, alone>>

\* A patch of the packet at i: read_packet_header accepts type 3 only.
Patch(b, i, patch) ==
  LET h == buf[b][i] IN
  /\ submits = 0
  /\ IsHeader(h) /\ h.type = 3
  /\ PatchedWords(patch, h) # {}
  /\ buf' = [buf EXCEPT ![b] = [j \in DOMAIN @ |->
       IF j - i \in PatchedWords(patch, h) THEN [@[j] EXCEPT !.val = patch] ELSE @[j]]]
  /\ UNCHANGED <<calls, builds, reserved, walkVars, sharedVars, pastVars, alone>>

\* sceAgcDriverSubmitDcb, sceAgcDriverSubmitAcb, sceAgcSubmitGraphics, or a batch
\* of a ring.
SubmitBuffer(d, b) ==
  /\ stack[d] = << >>
  /\ b \in MayDecode[d] /\ buf[b] # << >>
  /\ submits < MaxSubmits
  /\ submits' = submits + 1
  /\ stack' = [stack EXCEPT ![d] = <<[buf |-> b, pos |-> 1, reg |-> 0]>>]
  /\ origin' = [origin EXCEPT ![d] = Shared]
  /\ alone' = [alone EXCEPT ![d] = \A e \in Decoders : stack[e] = << >>]
  /\ UNCHANGED <<fillVars, depth, sharedVars>>

-------------------------------------------------------------------------------
\* The walk

Top(d) == stack[d][Len(stack[d])]

WordsOf(d) == buf[Top(d).buf]

\* The words of the packet's body, by their number from 1; Has says that the
\* header's count is n or more and the buffer does not end before word k.
Word(d, k) == WordsOf(d)[Top(d).pos + k]
Has(d, n, k) == WordsOf(d)[Top(d).pos].len >= n /\ Top(d).pos + k <= Len(WordsOf(d))

SetTop(d, f) == [stack EXCEPT ![d] = [@ EXCEPT ![Len(@)] = f]]

Skip(d, n) ==
  stack' = SetTop(d, [Top(d) EXCEPT !.pos = @ + n, !.reg = 0])

\* Past the packet, by the length in its header.
NextPacket(d) == Skip(d, WordsOf(d)[Top(d).pos].len + 2)

Reading(d) ==
  /\ stack[d] # << >>
  /\ Top(d).pos <= Len(WordsOf(d))

\* Other decoders no longer run alone.
Step(d) ==
  /\ alone' = [e \in Decoders |-> alone[e] /\ e = d]
  /\ UNCHANGED <<fillVars, pastVars>>

\* The decoder reads a word that is not a header as one; what it makes of it is
\* not modelled, and no property holds of it.
At(d, type) ==
  /\ Reading(d)
  /\ IsHeader(WordsOf(d)[Top(d).pos])
  /\ WordsOf(d)[Top(d).pos].type = type

AtOp(d, ops) == At(d, 3) /\ WordsOf(d)[Top(d).pos].op \in ops

Type0(d) ==
  /\ At(d, 0)
  /\ NextPacket(d)
  /\ Step(d)
  /\ UNCHANGED <<depth, sharedVars>>

OneWord(d) ==
  /\ \E t \in {1, 2} : At(d, t)
  /\ Skip(d, 1)
  /\ Step(d)
  /\ UNCHANGED <<depth, sharedVars>>

Issue(kind, r) == issued' = Append(issued, [kind |-> kind, regs |-> r, index |-> indexType])

Draw(d) ==
  /\ AtOp(d, OpDraw)
  /\ Issue("draw", regs)
  /\ NextPacket(d)
  /\ Step(d)
  /\ UNCHANGED <<depth, regs, indexType, memory>>

DrawAuto(d) ==
  /\ AtOp(d, {OpDrawAuto})
  /\ IF Has(d, 1, 1)
       THEN /\ regs' = Writing(IndexCount, Word(d, 1).name)
            /\ Issue("draw", regs')
       ELSE UNCHANGED <<regs, issued>>
  /\ NextPacket(d)
  /\ Step(d)
  /\ UNCHANGED <<depth, indexType, memory>>

Reached(d) == IF AtOp(d, {OpSetSh}) THEN ShRegisters ELSE CxRegisters

\* One register under the lock; the packet's count says how many follow.
SetRegister(d) ==
  LET f == Top(d)
      r == Word(d, 1).reg + f.reg
      more == f.reg < WordsOf(d)[f.pos].len
      inside == f.pos + 2 + f.reg <= Len(WordsOf(d))
  IN
  /\ AtOp(d, {OpSetSh, OpSetCx})
  /\ Has(d, 1, 1) /\ more
  /\ regs' = IF inside /\ r \in Reached(d)
               THEN Writing(r, Word(d, 2 + f.reg).name) ELSE regs
  /\ stack' = SetTop(d, [f EXCEPT !.reg = @ + 1])
  /\ Step(d)
  /\ UNCHANGED <<depth, indexType, memory, issued>>

EndRegisters(d) ==
  /\ AtOp(d, {OpSetSh, OpSetCx})
  /\ Has(d, 1, 1) => Top(d).reg = WordsOf(d)[Top(d).pos].len
  /\ NextPacket(d)
  /\ Step(d)
  /\ UNCHANGED <<depth, sharedVars>>

WriteData(d) ==
  /\ AtOp(d, {OpWriteData})
  /\ memory' = IF Has(d, 3, 4) THEN Word(d, 4).name ELSE memory
  /\ NextPacket(d)
  /\ Step(d)
  /\ UNCHANGED <<depth, regs, indexType, issued>>

SetIndexType(d) ==
  /\ AtOp(d, {OpIndexType})
  /\ indexType' = IF Top(d).pos + 1 <= Len(WordsOf(d)) THEN Word(d, 1).name ELSE indexType
  /\ NextPacket(d)
  /\ Step(d)
  /\ UNCHANGED <<depth, regs, memory, issued>>

\* Without a compute shader the dispatch is only logged.
Dispatch(d) ==
  /\ AtOp(d, OpDispatch)
  /\ IF Has(d, 1, 1) /\ ~NoComputeShader(regs)
       THEN Issue("dispatch", regs)
       ELSE UNCHANGED issued
  /\ NextPacket(d)
  /\ Step(d)
  /\ UNCHANGED <<depth, regs, indexType, memory>>

Follows(d) == Has(d, 2, 3)

\* Follow an indirect buffer; beyond the limit it is skipped.
EnterIndirect(d) ==
  /\ AtOp(d, {OpIndirect})
  /\ Follows(d) /\ depth[d] < MaxDepth
  /\ Word(d, 1).buf \in Buffers
  /\ depth' = [depth EXCEPT ![d] = @ + 1]
  /\ stack' = [stack EXCEPT ![d] = Append(@, [buf |-> Word(d, 1).buf, pos |-> 1, reg |-> 0])]
  /\ Step(d)
  /\ UNCHANGED sharedVars

SkipIndirect(d) ==
  /\ AtOp(d, {OpIndirect})
  /\ ~Follows(d) \/ depth[d] >= MaxDepth
  /\ NextPacket(d)
  /\ Step(d)
  /\ UNCHANGED <<depth, sharedVars>>

Unknown(d) ==
  /\ At(d, 3)
  /\ ~AtOp(d, OpDraw \cup OpDispatch
             \cup {OpDrawAuto, OpSetSh, OpSetCx, OpWriteData, OpIndirect, OpIndexType})
  /\ NextPacket(d)
  /\ Step(d)
  /\ UNCHANGED <<depth, sharedVars>>

\* Defect: the depth is not restored after the nested buffer.
EndIndirectDeeper(d) ==
  LET outer == Front(stack[d])
      f == outer[Len(outer)] IN
  /\ Len(stack[d]) > 1
  /\ ~Reading(d)
  /\ stack' = [stack EXCEPT ![d] =
       [outer EXCEPT ![Len(outer)] = [f EXCEPT !.pos = @ + buf[f.buf][f.pos].len + 2]]]
  /\ Step(d)
  /\ UNCHANGED <<depth, sharedVars>>

\* Back to the buffer that named this one, and past the packet that did.
EndIndirect(d) ==
  LET outer == Front(stack[d])
      f == outer[Len(outer)] IN
  /\ Len(stack[d]) > 1
  /\ ~Reading(d)
  /\ depth' = [depth EXCEPT ![d] = @ - 1]
  /\ stack' = [stack EXCEPT ![d] =
       [outer EXCEPT ![Len(outer)] = [f EXCEPT !.pos = @ + buf[f.buf][f.pos].len + 2]]]
  /\ Step(d)
  /\ UNCHANGED sharedVars

Finish(d) ==
  /\ Len(stack[d]) = 1
  /\ ~Reading(d)
  /\ stack' = [stack EXCEPT ![d] = << >>]
  /\ UNCHANGED <<fillVars, depth, sharedVars, pastVars, alone>>

DecodeWord(d) ==
  \/ Type0(d) \/ OneWord(d) \/ Draw(d) \/ DrawAuto(d)
  \/ SetRegister(d) \/ EndRegisters(d) \/ WriteData(d) \/ SetIndexType(d)
  \/ Dispatch(d) \/ EnterIndirect(d) \/ SkipIndirect(d) \/ Unknown(d)
  \/ EndIndirect(d) \/ Finish(d)

StreamNext ==
  \/ \E b \in Buffers :
       \/ \E call \in Calls[b] : Build(b, call)
       \/ \E p \in Packets3[b] : WritePacket(b, p)
       \/ \E i \in DOMAIN buf[b], p \in Patches : Patch(b, i, p)
  \/ \E d \in Decoders : DecodeWord(d) \/ \E b \in Buffers : SubmitBuffer(d, b)

StreamSpec == StreamInit /\ [][StreamNext]_streamVars

\* A thread that decodes is scheduled; it waits for nobody.
FairStreamSpec == StreamSpec /\ \A d \in Decoders : WF_streamVars(DecodeWord(d))

-------------------------------------------------------------------------------
\* Properties

\* The decoder takes a word for a packet's header only if a builder, or the
\* guest, wrote it as one: sizes in headers, cursor moves and the decoder's steps
\* agree for every packet, also when a builder stops before its packet's end, and
\* the walk ends where the cursor stood.
WalkInStep ==
  \A d \in Decoders : stack[d] # << >> =>
    IF Reading(d) THEN IsHeader(WordsOf(d)[Top(d).pos])
                  ELSE Top(d).pos = Len(WordsOf(d)) + 1

\* A patch function finds, in every packet the builders write that it accepts, the
\* fields it is for, all of them and nothing else: the layouts are written down
\* twice in the code, once per builder and once per patch.
PatchersKnowTheirLayouts ==
  \A b \in Buffers : \A i \in DOMAIN buf[b] : IsHeader(buf[b][i]) =>
    LET h == buf[b][i]
        body == {o \in 1 .. h.len + 1 : i + o \in DOMAIN buf[b]} IN
    \A patch \in Patches : PatchedWords(patch, h) # {} =>
      PatchedWords(patch, h) =
        {o \in body : buf[b][i + o].kind = "field" /\ buf[b][i + o].name \in Target(patch)}

\* Packets keep their bounds: for the decoder that walks them, and for the functions
\* that change one after it was built.
PacketsKeepTheirShape == WalkInStep /\ PatchersKnowTheirLayouts

\* A guest that reserves, for each call, what the call's ...GetSize function
\* announces, or for the three of varying size counts the words, never has a
\* cursor beyond its reservation.
ReservedSpaceSuffices == \A b \in Buffers : Len(buf[b]) <= reserved[b]

\* A submitted buffer is decoded to its end, also when buffers name themselves.
DecodeEnds == \A d \in Decoders : stack[d] # << >> ~> stack[d] = << >>

\* What a builder wrote as a draw is issued when its buffer has been decoded.
BuiltDrawsAreIssued ==
  \A d \in Decoders : LET b == stack[d][1].buf IN
    (Len(stack[d]) = 1 /\ ~Reading(d) /\ Len(buf[b]) > 0
       /\ \E i \in DOMAIN buf[b] :
            IsHeader(buf[b][i]) /\ buf[b][i].op \in OpDraw)
      => issued # << >>
===============================================================================
