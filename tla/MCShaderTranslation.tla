------------------------- MODULE MCShaderTranslation -------------------------
(***************************************************************************)
(* Shaders of three kinds: every control flow of four instructions, and of *)
(* five that can all be reached; longer ones with irreducible, nested and  *)
(* guarded loops, alone and in pairs; and programs of one to three         *)
(* instructions of every kind, with every flag.                            *)
(***************************************************************************)
EXTENDS ShaderTranslation

I(op, dst, src, imm) == Instruction(op, dst, src, imm)

\* Reference: the words of an instruction, by the formats the parser names.
Assemble(i) ==
  LET d == i.dst.n
      r(k) == i.src[k].n
      scalar(o) == CASE o.file = "s" -> o.n [] o.file = "literal" -> 255 [] OTHER -> o.n + 128
      vector(o) == CASE o.file = "v" -> o.n [] o.file = "s" -> o.n + 256 [] OTHER -> o.n + 358
      sop1(op, dst) == <<Word(SOP1, op, dst, <<scalar(i.src[1])>>, 0)>>
      sopp(op) == <<Word(SOPP, op, 0, << >>, i.imm)>>
      vop3(top, op) ==
        <<Word(8 * top, op, d, << >>, i.imm \div 64),
          SecondWord([k \in DOMAIN i.src |-> vector(i.src[k])], 0, i.imm % 64)>>
  IN CASE i.op = "endpgm" -> <<Word(SOPP, 0, 0, << >>, 0)>>
       [] i.op = "s_mov" ->
            sop1(3, d) \o (IF i.src[1].file = "literal" THEN <<SecondWord(<< >>, 0, r(1))>> ELSE << >>)
       [] i.op = "mov_exec" -> sop1(1, 126)
       [] i.op = "and_saveexec" -> sop1(\h22, d)
       [] i.op = "or_saveexec" -> sop1(\h24, d)
       [] i.op = "s_movk" -> <<Word(\h160, 0, d, << >>, i.imm)>>
       [] i.op = "s_addk" -> <<Word(\h162, 0, d, << >>, i.imm)>>
       [] i.op = "branch" -> sopp(2)
       [] i.op = "scc0" -> sopp(4)
       [] i.op = "scc1" -> sopp(5)
       [] i.op = "barrier" -> sopp(10)
       [] i.op = "waitcnt" -> sopp(12)
       [] i.op = "s_add" -> <<Word(\h100, 0, d, <<r(1), r(2)>>, 0)>>
       [] i.op = "v_mov" -> <<Word(4, 0, d, <<r(1), 0>>, 0)>>
       [] i.op = "v_add" -> <<Word(12, 0, d, <<r(1), r(2)>>, 0)>>
       [] i.op = "v_mul" -> <<Word(32, 0, d, <<r(1), r(2)>>, 0)>>
       [] i.op = "v_fma" -> vop3(\h35, \h1F4)
       [] i.op = "readlane" -> vop3(\h35, \h280)
       [] i.op = "writelane" -> vop3(\h35, \h282)
       [] i.op = "pk_fma" -> vop3(\h33, 0)
       [] i.op = "pk_add" -> vop3(\h33, 1)
       [] i.op = "pk_mul" -> vop3(\h33, 2)
       [] i.op = "ds_read" ->
            <<Word(8 * \h36, \h36, 0, <<r(1)>>, i.imm), SecondWord(<< >>, d, 0)>>
       [] i.op = "ds_write" ->
            <<Word(8 * \h36, \h1D, 0, <<r(1)>>, i.imm), SecondWord(<<r(2)>>, 0, 0)>>
       [] i.op = "s_load" -> <<Word(8 * \h3C, 0, d, <<r(1)>>, 0), SecondWord(<< >>, 0, i.imm)>>
       [] i.op = "s_load4" -> <<Word(8 * \h3C, 2, d, <<r(1)>>, 0), SecondWord(<< >>, 0, i.imm)>>
       [] i.op = "buffer_load" ->
            <<Word(8 * \h30, 0, d, <<r(2)>>, 0), SecondWord(<<r(1)>>, 0, i.imm)>>
       [] i.op = "buffer_store" ->
            <<Word(8 * \h31, 0, r(3), <<r(2)>>, 0), SecondWord(<<r(1)>>, 0, i.imm)>>
       [] i.op = "image_sample" ->
            <<Word(8 * \h32, 0, d, <<r(1)>>, 0), SecondWord(<<r(2), r(3)>>, 0, 0)>>
       [] OTHER -> <<Word(\h1F8, 0, 0, << >>, 0)>>

AssembleAll(p) == FlattenSeq([k \in DOMAIN p |-> Assemble(p[k])])

\* Control flow only: an instruction, and branches to a place of the program.
Step == I("s_movk", Sgpr(0), << >>, 1)
Goto(op, at, to) == I(op, NoDst, << >>, to - at - 1)

ControlAt(at, n) ==
  {Step, EndPgm} \cup {Goto(op, at, to) : op \in {"branch", "scc0"}, to \in 0 .. n - 1}

EveryControl(n) ==
  LET of[k \in 0 .. n - 1] ==
        IF k = 0 THEN {<< >>} ELSE {Append(p, i) : p \in of[k - 1], i \in ControlAt(k - 1, n)}
  IN {Append(p, EndPgm) : p \in of[n - 1]}

\* Programs every instruction of which can be reached.
ReachableFrom(p) ==
  LET more(s) == s \cup UNION {Range(Successors(p, i)) : i \in s \cap 0 .. Len(p) - 1}
      after[k \in 0 .. Len(p)] == IF k = 0 THEN {0} ELSE more(after[k - 1])
  IN after[Len(p)]

EveryConnected(n) == {p \in EveryControl(n) : 0 .. n - 1 \subseteq ReachableFrom(p)}

\* Guarded, nested, and two-entry loops, entered from one block and from two.
Guarded == <<Goto("scc0", 0, 3), Step, Goto("scc1", 2, 1), EndPgm>>
TwoEntries ==
  <<Goto("scc0", 0, 3), Step, Goto("branch", 2, 5), Step, Step, Step, Goto("scc1", 6, 4), EndPgm>>
TwoEntriesBack ==
  <<Goto("scc0", 0, 4), Goto("scc0", 1, 3), Step, Step, Goto("scc0", 4, 6),
    Goto("branch", 5, 3), Goto("branch", 6, 2), EndPgm>>
Nested ==
  <<Step, Step, Step, Goto("scc0", 3, 2), Step, Goto("scc1", 5, 1), Step, EndPgm>>
TwoBackEdges ==
  <<Step, Step, Goto("scc0", 2, 1), Step, Goto("scc0", 4, 1), Step, Goto("branch", 6, 0), EndPgm>>

\* One way into a loop that is entered or passed leads to its header in one program
\* and past it in the other; the blocks of both have the same labels.
WayIn(to) ==
  <<Goto("scc0", 0, 2), Goto("branch", 1, to), Goto("scc0", 2, 6), Step,
    Goto("scc0", 4, 3), Goto("branch", 5, 7), Step, EndPgm>>

\* A multiplication and addition with the sources that lose and change their sign.
Fma(src, abs, neg, clamp) ==
  LET bits(ks) == FoldSet(LAMBDA k, n : n + 2 ^ (k - 1), 0, ks)
  IN I("v_fma", Vgpr(7), src, bits(abs) + 8 * bits(neg) + (IF clamp THEN 64 ELSE 0))

\* The same constant is negated on both ways.
Negated == Fma(<<Constant(2), Vgpr(9), Constant(3)>>, {}, {1}, FALSE)
Siblings == <<Goto("scc0", 0, 3), Negated, Goto("branch", 2, 4), Negated, EndPgm>>

LongPrograms ==
  {Siblings, Guarded, TwoEntries, TwoEntriesBack, Nested, TwoBackEdges, WayIn(3), WayIn(6)}

\* Every kind of instruction.
Kinds ==
  {I("s_mov", Sgpr(7), <<Literal(5)>>, 0), I("s_mov", Sgpr(7), <<Constant(1)>>, 0),
   I("s_mov", Sgpr(8), <<Sgpr(9)>>, 0), I("mov_exec", NoDst, <<Sgpr(10)>>, 0),
   I("and_saveexec", Sgpr(12), <<Sgpr(20)>>, 0), I("or_saveexec", Sgpr(14), <<Sgpr(22)>>, 0),
   I("s_movk", Sgpr(6), << >>, 3), I("s_addk", Sgpr(6), << >>, 3),
   I("barrier", NoDst, << >>, 0), I("waitcnt", NoDst, << >>, 1),
   I("s_add", Sgpr(6), <<Sgpr(7), Sgpr(8)>>, 0), I("v_mov", Vgpr(7), <<Vgpr(8)>>, 0),
   I("v_add", Vgpr(7), <<Vgpr(8), Vgpr(9)>>, 0), I("v_mul", Vgpr(7), <<Vgpr(8), Vgpr(9)>>, 0),
   I("v_fma", Vgpr(7), <<Vgpr(8), Sgpr(9), Constant(2)>>, 0),
   Negated,
   Fma(<<Constant(2), Vgpr(9), Constant(2)>>, {1, 2}, {2}, FALSE),
   Fma(<<Constant(2), Vgpr(9), Constant(2)>>, {1}, {1, 3}, FALSE),
   Fma(<<Constant(2), Vgpr(8), Sgpr(9)>>, {1, 3}, {3}, TRUE),
   I("readlane", Sgpr(7), <<Vgpr(8), Sgpr(9)>>, 0), I("writelane", Vgpr(7), <<Sgpr(8), Constant(1)>>, 0),
   I("pk_fma", Vgpr(7), <<Vgpr(8), Vgpr(9), Sgpr(10)>>, 0),
   I("pk_add", Vgpr(7), <<Vgpr(8), Vgpr(9)>>, 0), I("pk_mul", Vgpr(7), <<Vgpr(8), Vgpr(9)>>, 0),
   I("ds_read", Vgpr(7), <<Vgpr(8)>>, 4), I("ds_write", NoDst, <<Vgpr(8), Vgpr(9)>>, 4),
   I("s_load", Sgpr(7), <<Sgpr(12)>>, 8), I("s_load4", Sgpr(7), <<Sgpr(14)>>, 8),
   I("buffer_load", Vgpr(7), <<Sgpr(12), Vgpr(8)>>, 0),
   I("buffer_store", NoDst, <<Sgpr(12), Vgpr(8), Vgpr(9)>>, 0),
   I("s_load4", Sgpr(14), <<Sgpr(14)>>, 0), I("writelane", Vgpr(7), <<Sgpr(8), Sgpr(9)>>, 0),
   I("ds_read", Vgpr(7), <<Vgpr(8)>>, 0), I("buffer_load", Vgpr(8), <<Sgpr(12), Vgpr(8)>>, 8),
   I("image_sample", Vgpr(0), <<Vgpr(1), Sgpr(12), Sgpr(16)>>, 0),
   I("image_sample", Vgpr(7), <<Vgpr(8), Sgpr(12), Sgpr(16)>>, 0), Unknown}

Accesses == {i \in Kinds : i.op \in {"buffer_load", "buffer_store", "s_load", "ds_read", "ds_write"}}

Plain == [vertex |-> FALSE, vb |-> FALSE, cb |-> FALSE, tex |-> FALSE]

Shader(p, f) == [code |-> AssembleAll(p), flags |-> f]

MCWorkloads ==
  {<<Shader(p, Plain)>> : p \in EveryControl(4) \cup EveryConnected(5) \cup LongPrograms}
    \cup {<<Shader(p, Plain), Shader(q, Plain)>> : p, q \in LongPrograms}
    \cup {<<Shader(<<i, EndPgm>>, f)>> : i \in Kinds, f \in Flags}
    \cup {<<Shader(<<i, j, EndPgm>>, Plain)>> : i, j \in Kinds}
    \cup {<<Shader(<<i, j, k, EndPgm>>, Plain)>> : i, j, k \in Accesses}
    \cup {<<Shader(<< >>, f)>> : f \in Flags}

\* parse_rdna2_instructions reads microcode back as the instructions it was assembled
\* from, every word once: literals, second words and the formats that begin alike.
ParsedAsAssembled ==
  stage = "parsed" => AssembleAll(prog) = code

-------------------------------------------------------------------------------
\* Reference: what instructions compute, on whole numbers, for a wave of two lanes.

Lanes == {0, 1}
ScalarIn(n) == IF n = 9 THEN 1 ELSE n - 10
VectorIn(n, lane) == IF n % 2 = 0 THEN 4 * (n + lane) ELSE -(n + lane)
MemoryAt(a) == 3 * a + 1
SharedAt(a) == 5 * a + 2
TexelAt(u, v, k) == 100 * u + 10 * v + k
Upper(n) == 1000 * n     \* the value of a word as the upper half of an address
Clamped(n) == IF n < 0 THEN 0 ELSE IF n > 1 THEN 1 ELSE n
Mask(lanes) == FoldSet(LAMBDA l, n : n + 2 ^ l, 0, lanes)

\* The bits of the float an inline constant is made are not the constant.
BitsOf(v, n) == IF v.op = "constant" THEN 100 + n ELSE n

\* What a value of the emitted code is for a lane.
RECURSIVE ValueOf(_, _)
ValueOf(v, lane) ==
  LET a(k) == ValueOf(v.args[k], lane)
      all(k) == [l \in Lanes |-> ValueOf(v.args[k], l)]
  IN CASE v.op = "s" -> ScalarIn(v.n)
       [] v.op = "v" -> VectorIn(v.n, lane)
       [] v.op = "lane" -> lane
       [] v.op \in {"literal", "constant", "long", "uint", "index"} -> v.n
       [] v.op = "FAdd" -> a(1) + a(2)
       [] v.op = "FMul" -> a(1) * a(2)
       [] v.op = "Fma" -> a(1) * a(2) + a(3)
       [] v.op = "FNegate" -> -a(1)
       [] v.op = "FAbs" -> IF a(1) < 0 THEN -a(1) ELSE a(1)
       [] v.op = "FClamp" -> IF a(1) < a(2) THEN a(2) ELSE IF a(1) > a(3) THEN a(3) ELSE a(1)
       [] v.op = "Bitcast" -> BitsOf(v.args[1], a(1))
       [] v.op = "UConvert" -> a(1)
       [] v.op = "ShiftLeftLogical" /\ a(2) = 32 -> Upper(a(1))
       [] v.op = "ShiftRightLogical" -> a(1) \div (2 ^ a(2))
       [] v.op \in {"IAdd", "BitwiseOr"} -> a(1) + a(2)
       [] v.op = "IMul" -> a(1) * a(2)
       [] v.op = "AccessChain" -> a(1)
       [] v.op = "Load" -> IF v.args[1].op = "AccessChain" THEN SharedAt(a(1)) ELSE MemoryAt(a(1))
       [] v.op = "CompositeExtract" /\ v.args[1].op = "ImageSample" ->
            LET uv == v.args[1].args[1].args
            IN TexelAt(ValueOf(uv[1], lane), ValueOf(uv[2], lane), a(2))
       [] v.op = "CompositeExtract" -> Mask({l \in Lanes : ValueOf(v.args[1].args[1], l) = 1})
       [] v.op = "FOrdNotEqual" -> IF a(1) # a(2) THEN 1 ELSE 0
       [] v.op = "IEqual" -> IF a(1) = a(2) THEN 1 ELSE 0
       [] v.op = "Select" -> IF a(1) = 1 THEN a(2) ELSE a(3)
       [] v.op = "GroupNonUniformShuffle" -> all(1)[a(2) % 2]

\* What an instruction puts where, by its name.
Meaning(inst, lane) ==
  LET reg(r) == IF r.file = "v" THEN VectorIn(r.n, lane)
                ELSE IF r.file = "s" THEN ScalarIn(r.n) ELSE r.n
      r(k) == reg(inst.src[k])
      m(k) == LET sized == IF Abs(inst, k) /\ r(k) < 0 THEN -r(k) ELSE r(k)
              IN IF Neg(inst, k) THEN -sized ELSE sized
      base == Upper(reg(After(inst.src[1], 1))) + r(1)
      element == base + 4 * r(2) + inst.imm
      shared == (r(1) + inst.imm) \div 4
      mask == Mask({l \in Lanes : ValueOf(Leaf(inst.src[1].file, inst.src[1].n), l) # 0})
      to(k, n) == <<"register", After(inst.dst, k).file, After(inst.dst, k).n, n>>
  IN CASE inst.op \in {"s_mov", "v_mov"} -> <<to(0, r(1))>>
       [] inst.op = "s_movk" -> <<to(0, inst.imm)>>
       [] inst.op = "s_addk" -> <<to(0, reg(inst.dst) + inst.imm)>>
       [] inst.op \in {"s_add", "v_add", "pk_add"} -> <<to(0, r(1) + r(2))>>
       [] inst.op \in {"v_mul", "pk_mul"} -> <<to(0, r(1) * r(2))>>
       [] inst.op = "pk_fma" -> <<to(0, r(1) * r(2) + r(3))>>
       [] inst.op = "v_fma" ->
            LET sum == m(1) * m(2) + m(3) IN <<to(0, IF Clamps(inst) THEN Clamped(sum) ELSE sum)>>
       [] inst.op = "s_load" -> <<to(0, MemoryAt(base + inst.imm))>>
       [] inst.op = "s_load4" -> [k \in 1 .. 4 |-> to(k - 1, MemoryAt(base + inst.imm + 4 * (k - 1)))]
       [] inst.op = "buffer_load" -> <<to(0, MemoryAt(element))>>
       [] inst.op = "buffer_store" -> <<<<"memory", "word", element, r(3)>>>>
       [] inst.op = "ds_read" -> <<to(0, SharedAt(shared))>>
       [] inst.op = "ds_write" -> <<<<"shared", "word", shared, r(2)>>>>
       [] inst.op = "image_sample" /\ flags.tex ->
            [k \in 1 .. 4 |-> to(k - 1, TexelAt(r(1), reg(After(inst.src[1], 1)), k - 1))]
       [] inst.op = "readlane" -> <<to(0, VectorIn(inst.src[1].n, r(2) % 2))>>
       [] inst.op = "writelane" -> <<to(0, IF lane = r(2) THEN r(1) ELSE reg(inst.dst))>>
       [] inst.op = "and_saveexec" -> <<to(0, mask)>>
       [] inst.op = "or_saveexec" -> <<to(0, mask + r(1))>>
       [] OTHER -> << >>

\* What the emitted stores do for a lane.
Effect(stores, lane) ==
  [k \in DOMAIN stores |->
     LET s == stores[k]  n == ValueOf(s.value, lane) IN
     CASE s.to.op \in {"s", "v"} -> <<"register", s.to.op, s.to.n, n>>
       [] s.to.op = "AccessChain" -> <<"shared", "word", ValueOf(s.to, lane), n>>
       [] OTHER -> <<"memory", "word", ValueOf(s.to, lane), n>>]

\* A lane is chosen by a register: an inline constant is made a float first.
LaneIsInline(inst) == inst.op \in {"readlane", "writelane"} /\ inst.src[2].file = "constant"

Emissions == EmittedValues(blocks, prog, Gathered, flags.tex)

\* The emitted code stores, for every lane, what the instruction computes from the
\* registers, the modifiers and the addresses it names, and nothing else, however many
\* modified constants the shader's earlier instructions have left in the cache.
ValuesAreTheInstructions ==
  stage = "emitted" /\ ~Doubled =>
    \A k \in DOMAIN Emissions :
      LET e == Emissions[k] IN
      Touched(e.inst) \subseteq Gathered /\ ~LaneIsInline(e.inst) =>
        \A lane \in Lanes : Effect(e.stores, lane) = Meaning(e.inst, lane)

\* A modified constant is made in a block that dominates every block it is found
\* again in, as SPIR-V demands of a result.
ConstantsAreInReach ==
  stage = "emitted" /\ ~Doubled =>
    \A k \in DOMAIN Emissions : \A d \in Emissions[k].from :
      LET b == Emissions[k].block IN d = b \/ b \notin ReachedAvoiding({0}, d)

\* Microcode is read back as it was assembled and its instructions are emitted as code
\* that does what they do.
CodeKeepsItsMeaning == ParsedAsAssembled /\ ValuesAreTheInstructions
===============================================================================
