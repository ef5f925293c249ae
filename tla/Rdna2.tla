-------------------------------- MODULE Rdna2 --------------------------------
(***************************************************************************)
(* Shader microcode and the instructions it is parsed into                 *)
(* (src/src/shader_translation.rs).                                        *)
(*                                                                         *)
(* A word is a record of the fields the parser cuts out of it: "top" its   *)
(* nine upper bits, which tell the format, "op", "dst" and "imm" where the *)
(* format has them, "src" its source fields, and "ext" what the word holds *)
(* when it is the second of a two-word instruction, or a literal.          *)
(***************************************************************************)
EXTENDS Integers, Sequences, FiniteSets, SequencesExt

Sgpr(n) == [file |-> "s", n |-> n]
Vgpr(n) == [file |-> "v", n |-> n]
Literal(v) == [file |-> "literal", n |-> v]
Constant(v) == [file |-> "constant", n |-> v]

Instruction(op, dst, src, imm) == [op |-> op, dst |-> dst, src |-> src, imm |-> imm]

NoDst == [file |-> "none", n |-> 0]
EndPgm == Instruction("endpgm", NoDst, << >>, 0)
Unknown == Instruction("unknown", NoDst, << >>, 0)

NoExt == [src |-> << >>, dst |-> 0, imm |-> 0]
Word(top, op, dst, src, imm) ==
  [top |-> top, op |-> op, dst |-> dst, src |-> src, imm |-> imm, ext |-> NoExt]
SecondWord(src, dst, imm) ==
  [Word(0, 0, 0, <<0, 0>>, 0) EXCEPT !.ext = [src |-> src, dst |-> dst, imm |-> imm]]

Branches == {"branch", "scc0", "scc1"}
Terminators == Branches \cup {"endpgm"}

-------------------------------------------------------------------------------
\* Formats

SOP1 == \h17D
SOPC == \h17E
SOPP == \h17F

\* The formats of two words, by the upper six bits.
TwoWordFormat ==
  [p \in {\h35, \h33, \h36, \h3C, \h30, \h31, \h32} |->
     CASE p = \h35 -> "VOP3" [] p = \h33 -> "VOP3P" [] p = \h36 -> "DS"
       [] p = \h3C -> "SMEM" [] p \in {\h30, \h31} -> "VMEM" [] p = \h32 -> "MIMG"]

IsSopk(w) == w.top \div 32 = \hB /\ w.top \notin {SOP1, SOPC, SOPP}

\* The order of the tests: scalar formats share their upper bits.
Format(w) ==
  IF w.top = SOPP /\ w.op = 0 /\ w.imm = 0 THEN "END"
  ELSE IF w.top = SOP1 THEN "SOP1"
  ELSE IF IsSopk(w) THEN "SOPK"
  ELSE IF w.top = SOPP THEN "SOPP"
  ELSE IF w.top \div 128 = 2 THEN "SOP2"
  ELSE IF w.top \div 256 = 0 THEN "VOP2"
  ELSE IF w.top \div 8 \in DOMAIN TwoWordFormat THEN TwoWordFormat[w.top \div 8]
  ELSE "OTHER"

-------------------------------------------------------------------------------
\* Decoders, one per format: w is the first word, x what the next one holds as a
\* second word.

ScalarSource(n) == IF n < 102 THEN Sgpr(n) ELSE Constant(n - 128)

TakesLiteral(w) == w.op = 3 /\ w.src[1] = 255

DecodeSop1(w, x) ==
  LET src == <<ScalarSource(w.src[1])>> IN
  CASE w.op = 3 ->
         Instruction("s_mov", Sgpr(w.dst),
                     IF TakesLiteral(w) THEN <<Literal(x.imm)>> ELSE src, 0)
    [] w.op = 1 /\ w.dst = 126 -> Instruction("mov_exec", NoDst, src, 0)
    [] w.op = 1 /\ w.dst # 126 -> Instruction("s_mov", Sgpr(w.dst), src, 0)
    [] w.op = \h22 -> Instruction("and_saveexec", Sgpr(w.dst), src, 0)
    [] w.op = \h24 -> Instruction("or_saveexec", Sgpr(w.dst), src, 0)
    [] OTHER -> Unknown

DecodeSopk(w) ==
  CASE w.top % 32 = 0 -> Instruction("s_movk", Sgpr(w.dst), << >>, w.imm)
    [] w.top % 32 = 2 -> Instruction("s_addk", Sgpr(w.dst), << >>, w.imm)
    [] OTHER -> Unknown

DecodeSopp(w) ==
  CASE w.op = 2 -> Instruction("branch", NoDst, << >>, w.imm)
    [] w.op = 4 -> Instruction("scc0", NoDst, << >>, w.imm)
    [] w.op = 5 -> Instruction("scc1", NoDst, << >>, w.imm)
    [] w.op = 10 -> Instruction("barrier", NoDst, << >>, 0)
    [] w.op = 12 -> Instruction("waitcnt", NoDst, << >>, w.imm)
    [] OTHER -> Unknown

DecodeSop2(w) ==
  IF w.top % 128 = 0
  THEN Instruction("s_add", Sgpr(w.dst), <<Sgpr(w.src[1]), Sgpr(w.src[2])>>, 0)
  ELSE Unknown

DecodeVop2(w) ==
  LET op == w.top \div 4  both == <<Vgpr(w.src[1]), Vgpr(w.src[2])>> IN
  CASE op = 1 -> Instruction("v_mov", Vgpr(w.dst), <<Vgpr(w.src[1])>>, 0)
    [] op = 3 -> Instruction("v_add", Vgpr(w.dst), both, 0)
    [] op = 8 -> Instruction("v_mul", Vgpr(w.dst), both, 0)
    [] OTHER -> Unknown

VectorSource(n) ==
  IF n < 256 THEN Vgpr(n) ELSE IF n < 358 THEN Sgpr(n - 256) ELSE Constant(n - 358)

\* v_fma keeps its modifiers: the upper six bits of the second word, three for absolute
\* values and three for signs, and above them the clamp bit of the first.
DecodeVop3(w, x) ==
  LET s(k) == VectorSource(x.src[k]) IN
  CASE w.op \in {\h1F4, \h22F, \h2F4} ->
         Instruction("v_fma", Vgpr(w.dst), <<s(1), s(2), s(3)>>, x.imm + 64 * w.imm)
    [] w.op = \h280 ->
         Instruction("readlane", Sgpr(w.dst),
                     <<Vgpr(IF s(1).file = "v" THEN s(1).n ELSE 0), s(2)>>, 0)
    [] w.op = \h282 -> Instruction("writelane", Vgpr(w.dst), <<s(1), s(2)>>, 0)
    [] OTHER -> Unknown

DecodeVop3p(w, x) ==
  LET s(k) == VectorSource(x.src[k]) IN
  CASE w.op = 0 -> Instruction("pk_fma", Vgpr(w.dst), <<s(1), s(2), s(3)>>, 0)
    [] w.op = 1 -> Instruction("pk_add", Vgpr(w.dst), <<s(1), s(2)>>, 0)
    [] w.op = 2 -> Instruction("pk_mul", Vgpr(w.dst), <<s(1), s(2)>>, 0)
    [] OTHER -> Unknown

\* LDS and memory instructions: the address and the resource are sources.
DecodeDs(w, x) ==
  CASE w.op \in {\h0D, \h36} -> Instruction("ds_read", Vgpr(x.dst), <<Vgpr(w.src[1])>>, w.imm)
    [] w.op \in {\h1D, \hD0} ->
         Instruction("ds_write", NoDst, <<Vgpr(w.src[1]), Vgpr(x.src[1])>>, w.imm)
    [] OTHER -> Unknown

DecodeSmem(w, x) ==
  CASE w.op = 0 -> Instruction("s_load", Sgpr(w.dst), <<Sgpr(w.src[1])>>, x.imm)
    [] w.op = 2 -> Instruction("s_load4", Sgpr(w.dst), <<Sgpr(w.src[1])>>, x.imm)
    [] OTHER -> Unknown

DecodeVmem(w, x) ==
  LET from == <<Sgpr(x.src[1]), Vgpr(w.src[1])>> IN
  IF w.top \div 8 = \h30 THEN Instruction("buffer_load", Vgpr(w.dst), from, x.imm)
  ELSE Instruction("buffer_store", NoDst, from \o <<Vgpr(w.dst)>>, x.imm)

DecodeMimg(w, x) ==
  Instruction("image_sample", Vgpr(w.dst),
              <<Vgpr(w.src[1]), Sgpr(x.src[1]), Sgpr(x.src[2])>>, 0)

-------------------------------------------------------------------------------
\* The parser

\* The instruction at word i and the number of words it takes.  A two-word
\* instruction cut off by the end is unknown; a literal cut off is zero.
Decoded(code, i) ==
  LET w == code[i]
      f == Format(w)
      whole == i < Len(code)
      x == IF whole THEN code[i + 1].ext ELSE NoExt
      one(inst) == [inst |-> inst, words |-> 1]
      two(inst) == IF whole THEN [inst |-> inst, words |-> 2] ELSE one(Unknown)
  IN CASE f = "END" -> one(EndPgm)
       [] f = "SOP1" -> [inst |-> DecodeSop1(w, x), words |-> IF TakesLiteral(w) THEN 2 ELSE 1]
       [] f = "SOPK" -> one(DecodeSopk(w))
       [] f = "SOPP" -> one(DecodeSopp(w))
       [] f = "SOP2" -> one(DecodeSop2(w))
       [] f = "VOP2" -> one(DecodeVop2(w))
       [] f = "VOP3" -> two(DecodeVop3(w, x))
       [] f = "VOP3P" -> two(DecodeVop3p(w, x))
       [] f = "DS" -> two(DecodeDs(w, x))
       [] f = "SMEM" -> two(DecodeSmem(w, x))
       [] f = "VMEM" -> two(DecodeVmem(w, x))
       [] f = "MIMG" -> two(DecodeMimg(w, x))
       [] OTHER -> one(Unknown)

\* parse_rdna2_instructions
Parse(code) ==
  LET from[i \in 1 .. Len(code) + 2] ==
        IF i > Len(code) THEN << >>
        ELSE LET d == Decoded(code, i) IN <<d.inst>> \o from[i + d.words]
  IN from[1]
===============================================================================
