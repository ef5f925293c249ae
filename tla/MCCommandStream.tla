--------------------------- MODULE MCCommandStream ---------------------------
(***************************************************************************)
(* Two decoders over two buffers of up to two packets each, and the        *)
(* reference the decoder is compared with.                                 *)
(***************************************************************************)
EXTENDS CommandStream

Call(n, args) == [name |-> n, args |-> args]

\* One call of every builder for every path through it.
EveryCall ==
  {Call(n, << >>) : n \in WithNone}
    \cup {Call("CbNop", <<3>>), Call("CbSetShRegistersDirect", <<4, 1, 2, 2>>),
          Call("CbSetShRegisterRangeDirect", <<1, 2>>), Call("CbReleaseMem", <<0, 2>>),
          Call("DcbDrawIndex", <<1>>), Call("DcbDrawIndexAuto", <<1>>),
          Call("DcbSetIndexSize", <<0>>), Call("DcbWriteData", <<2, 1>>),
          Call("DcbWaitRegMem", <<0, 2>>), Call("DcbWaitRegMem", <<0, 1>>),
          Call("DcbWaitRegMem", <<1, 1>>), Call("DcbDmaData", <<4>>),
          Call("DcbEventWrite", <<1, 0>>), Call("DcbPushMarker", <<5>>),
          Call("DcbResetQueue", <<1023, 0>>), Call("DcbAcquireMem", <<0, 0>>),
          Call("DcbSetBaseIndirectArgs", <<1>>), Call("AcbEventWrite", <<56>>),
          Call("AcbEventWrite", <<1>>), Call("AcbAcquireMem", <<0>>),
          Call("AcbWaitRegMem", <<1>>), Call("AcbDmaData", <<4>>)}

Register(n) == [kind |-> "reg", reg |-> n]
Indirect(b) == [kind |-> "buffer", buf |-> b]

\* Packets of type 3, and one padding word.  The release packet is one a guest
\* writes for the patch functions.
CONSTANTS first, named, d1, d2

MCDecoders == {d1, d2}

MCMayDecode == (d1 :> {first} @@ d2 :> {first, named})

MCBuffers == {first, named}

MCMaxCalls == (first :> 2 @@ named :> 1)

EveryPacket3 ==
  {<<Header3(3, \h2D, "ZERO"), Field("n"), Field("initiator")>>,
   <<Header3(4, \h2C, "ZERO"), Register(\h100E), Field("v1"), Field("v2")>>,
   <<Header3(3, \h69, "ZERO"), Register(\h1000), Field("w1")>>,
   <<Header3(5, \h37, "ZERO"), Field("control"), Field("lo"), Field("hi"), Field("data")>>,
   <<Header3(3, \h15, "ZERO"), Field("x"), Field("y")>>,
   <<Header3(2, \h24, "ZERO"), Field("u32")>>,
   <<Header3(2, \h27, "ZERO"), Field("count")>>,
   <<Header3(4, \h3F, "ZERO"), Indirect(named), Field("hi"), Field("size")>>,
   <<[Header(2, IT_NOP, "ZERO") EXCEPT !.type = 2]>>,
   <<Header3(8, IT_NOP, "RELEASE_MEM")>>
     \o Fields(<<"action", "control", "addr_lo", "addr_hi", "data_lo", "data_hi", "zero">>)}

MCCalls == (first :> EveryCall @@ named :> {})

\* The second buffer draws or names itself.
MCPackets3 ==
  (first :> EveryPacket3 @@ named :> {p \in EveryPacket3 : p[1].op \in {\h27, \h3F}})

\* Reference: the packets of a buffer in order, an indirect buffer in place of the
\* packet that names it, to the depth the decoder follows, and the effect of each.

\* The shared state sh after packet p, a sequence of words.
Effect(sh, p) ==
  LET h == p[1]
      set(reach) ==
        [r \in {r \in reach : r - p[2].reg \in 0 .. Len(p) - 3} |->
           p[r - p[2].reg + 3].name] @@ sh.regs
      issue(s, kind) == [s EXCEPT !.issued = Append(@,
                           [kind |-> kind, regs |-> s.regs, index |-> s.indexType])]
  IN IF h.type # 3 THEN sh ELSE
     CASE h.op \in OpDraw -> issue(sh, "draw")
       [] h.op = OpDrawAuto /\ h.len >= 1 ->
            issue([sh EXCEPT !.regs = IndexCount :> p[2].name @@ @], "draw")
       [] h.op = OpSetSh -> [sh EXCEPT !.regs = set(ShRegisters)]
       [] h.op = OpSetCx -> [sh EXCEPT !.regs = set(CxRegisters)]
       [] h.op = OpWriteData -> [sh EXCEPT !.memory = p[5].name]
       [] h.op = OpIndexType -> [sh EXCEPT !.indexType = p[2].name]
       [] h.op \in OpDispatch ->
            IF NoComputeShader(sh.regs) THEN sh ELSE issue(sh, "dispatch")
       [] OTHER -> sh

RECURSIVE PacketsFrom(_, _, _)
PacketsFrom(x, i, left) ==
  IF i > Len(buf[x]) THEN << >>
  ELSE LET n == IF buf[x][i].type \in {1, 2} THEN 1 ELSE buf[x][i].len + 2
           p == SubSeq(buf[x], i, i + n - 1)
           inner == IF p[1].type = 3 /\ p[1].op = OpIndirect /\ left > 0
                      THEN PacketsFrom(p[2].buf, 1, left - 1) ELSE <<p>>
       IN inner \o PacketsFrom(x, i + n, left)

\* What decoder d, which no other decoder met, leaves at the end of its stream is what
\* the packets say, in order.
LeavesWhatPacketsSay(d) ==
  (alone[d] /\ Len(stack[d]) = 1 /\ ~Reading(d))
    => Shared = FoldLeft(Effect, origin[d], PacketsFrom(stack[d][1].buf, 1, MaxDepth))

\* A decoder leaves the registers and draws of its stream read packet by packet, and
\* comes to its end whatever the nesting of indirect buffers.
DecodesTheWholeStream ==
  /\ [](\A d \in Decoders : LeavesWhatPacketsSay(d))
  /\ DecodeEnds
===============================================================================
