----------------------------- MODULE ShaderValues -----------------------------
(***************************************************************************)
(* What the SPIR-V emitted for an instruction computes                     *)
(* (src/src/shader_translation.rs, translate_to_spirv).                    *)
(*                                                                         *)
(* A value stands for the number of a result: an operation of other        *)
(* values, the load of a register's variable, or a constant.  Registers    *)
(* are variables of type float.  Every instruction loads all it reads      *)
(* before it stores, so its results are values of the registers before it. *)
(***************************************************************************)
EXTENDS ShaderCfg, TLC

\* The numbers the code writes for its operations, under the names its comments give;
\* to SPIR-V 131, 137, 181 and 333 are FSub, UMod, FUnordEqual and GroupNonUniformElect.
Number ==
  [FAdd |-> 129, FMul |-> 131, FNegate |-> 127, FAbs |-> 4, FClamp |-> 43, Fma |-> 50,
   Bitcast |-> 124, UConvert |-> 113, ShiftLeftLogical |-> 196, BitwiseOr |-> 197,
   IAdd |-> 128, IMul |-> 132, ShiftRightLogical |-> 137, Load |-> 61, AccessChain |-> 65,
   ImageSample |-> 87, CompositeExtract |-> 81, CompositeConstruct |-> 80, Select |-> 169,
   IEqual |-> 170, FOrdNotEqual |-> 181, GroupNonUniformShuffle |-> 345,
   GroupNonUniformBallot |-> 333]

Leaf(kind, n) == [op |-> kind, n |-> n, args |-> << >>]

Op(name, args) == [op |-> name, n |-> Number[name], args |-> args]

After(r, k) == [r EXCEPT !.n = @ + k]

Zero == Leaf("constant", 0)
One == Leaf("constant", 1)

\* load_operand: a register without a variable reads as zero; a literal is the bits of
\* a float and an inline constant an integer made a float.
LoadOperand(o, vars) ==
  IF o.file \in {"s", "v"} /\ o \notin vars THEN Zero ELSE Leaf(o.file, o.n)

-------------------------------------------------------------------------------
\* Modifiers.  modifier_cache keeps what was made of a value for the rest of the
\* shader; a load is a new value each time, so only constants are found again.

\* The modifiers of v_fma: from the upper bits of its second word, and its clamp bit.
Abs(inst, k) == (inst.imm \div 2 ^ (k - 1)) % 2 = 1
Neg(inst, k) == (inst.imm \div 2 ^ (k + 2)) % 2 = 1
Clamps(inst) == inst.imm >= 64

\* Defect: a value is found again whatever its sign.
ModifierKeyUnsigned(v, abs, neg) == <<v, abs, TRUE>>

ModifierKey(v, abs, neg) == <<v, abs, neg>>

\* apply_modifiers on a value in the block of a label.
ApplyModifiers(cache, v, abs, neg, label) ==
  LET absKey == ModifierKey(v, TRUE, FALSE)
      key == ModifierKey(v, abs, neg)
      absolute ==
        IF ~abs THEN v
        ELSE IF absKey \in DOMAIN cache THEN cache[absKey].value
        ELSE Op("FAbs", <<v>>)
      entry(x) == [value |-> x, block |-> label]
      made == (IF abs THEN absKey :> entry(absolute) ELSE << >>)
                @@ (IF neg THEN key :> entry(Op("FNegate", <<absolute>>)) ELSE << >>)
      known == cache @@ made
  IN IF ~abs /\ ~neg THEN [cache |-> cache, value |-> v, from |-> label]
     ELSE [cache |-> IF v.op \in {"s", "v"} THEN cache ELSE known,
           value |-> known[key].value, from |-> known[key].block]

\* The sources of v_fma with their modifiers, from the first to the last.
Modified(inst, vars, cache, label) ==
  LET one(st, k) ==
        LET m == ApplyModifiers(st.cache, LoadOperand(inst.src[k], vars),
                                Abs(inst, k), Neg(inst, k), label)
        IN [cache |-> m.cache, values |-> Append(st.values, m.value),
            from |-> st.from \cup {m.from}]
  IN FoldLeft(one, [cache |-> cache, values |-> << >>, from |-> {}], <<1, 2, 3>>)

-------------------------------------------------------------------------------
\* Addresses

Wide(v) == Op("UConvert", <<Op("Bitcast", <<v>>)>>)

\* The 64-bit address in a register and the next one.
AddressIn(r, vars) ==
  Op("BitwiseOr",
     <<Op("ShiftLeftLogical", <<Wide(LoadOperand(After(r, 1), vars)), Leaf("long", 32)>>),
       Wide(LoadOperand(r, vars))>>)

Displaced(address, offset, type) ==
  IF offset > 0 THEN Op("IAdd", <<address, Leaf(type, offset)>>) ELSE address

LoadFrom(address) == Op("Load", <<Op("Bitcast", <<address>>)>>)

\* An element of a buffer: the index register counts words.
Element(inst, vars) ==
  Displaced(Op("IAdd", <<AddressIn(inst.src[1], vars),
                         Op("IMul", <<Wide(LoadOperand(inst.src[2], vars)), Leaf("long", 4)>>)>>),
            inst.imm, "long")

\* A word of the shared memory.
SharedWord(inst, vars) ==
  LET index == Op("ShiftRightLogical",
                  <<Op("Bitcast", <<LoadOperand(inst.src[1], vars)>>), Leaf("uint", 2)>>)
  IN Op("AccessChain",
        <<IF inst.imm > 0 THEN Op("IAdd", <<index, Leaf("uint", inst.imm \div 4)>>) ELSE index>>)

-------------------------------------------------------------------------------
\* Results

Packed(name, vs) ==
  Op("Bitcast", <<Op(name, [k \in DOMAIN vs |-> Op("Bitcast", <<vs[k]>>)])>>)

\* The lanes whose source is not zero.
Ballot(v) ==
  Op("CompositeExtract",
     <<Op("GroupNonUniformBallot", <<Op("FOrdNotEqual", <<v, Zero>>)>>), Leaf("index", 0)>>)

FmaResult(inst, vs) ==
  LET sum == Op("FAdd", <<Op("FMul", <<vs[1], vs[2]>>), vs[3]>>) IN
  IF Clamps(inst) THEN Op("FClamp", <<sum, Zero, One>>) ELSE sum

Sampled(inst, vars) ==
  Op("ImageSample",
     <<Op("CompositeConstruct", <<LoadOperand(inst.src[1], vars),
                                  LoadOperand(After(inst.src[1], 1), vars)>>)>>)

\* Results of an instruction, which go to its register and the next ones; fma is
\* what Modified makes of its sources.
Results(inst, vars, textured, fma) ==
  LET v(k) == LoadOperand(inst.src[k], vars)
      vs == [k \in DOMAIN inst.src |-> v(k)]
      old == LoadOperand(inst.dst, vars)
  IN CASE inst.op \in {"s_mov", "v_mov"} -> <<v(1)>>
       [] inst.op = "s_movk" -> <<Leaf("constant", inst.imm)>>
       [] inst.op = "s_addk" -> <<Op("FAdd", <<old, Leaf("constant", inst.imm)>>)>>
       [] inst.op \in {"s_add", "v_add"} -> <<Op("FAdd", vs)>>
       [] inst.op = "v_mul" -> <<Op("FMul", vs)>>
       [] inst.op = "v_fma" -> <<FmaResult(inst, fma)>>
       [] inst.op = "pk_fma" -> <<Packed("Fma", vs)>>
       [] inst.op = "pk_add" -> <<Packed("FAdd", vs)>>
       [] inst.op = "pk_mul" -> <<Packed("FMul", vs)>>
       [] inst.op = "s_load" ->
            <<LoadFrom(Displaced(AddressIn(inst.src[1], vars), inst.imm, "long"))>>
       [] inst.op = "s_load4" ->
            [k \in 1 .. 4 |->
               LoadFrom(Displaced(AddressIn(inst.src[1], vars), inst.imm + 4 * (k - 1), "long"))]
       [] inst.op = "buffer_load" -> <<LoadFrom(Element(inst, vars))>>
       [] inst.op = "ds_read" -> <<Op("Load", <<SharedWord(inst, vars)>>)>>
       [] inst.op = "image_sample" /\ textured ->
            [k \in 1 .. 4 |-> Op("CompositeExtract", <<Sampled(inst, vars), Leaf("index", k - 1)>>)]
       [] inst.op = "readlane" ->
            <<Op("GroupNonUniformShuffle", <<v(1), Op("Bitcast", <<v(2)>>)>>)>>
       [] inst.op = "writelane" ->
            <<Op("Select", <<Op("IEqual", <<Leaf("lane", 0), Op("Bitcast", <<v(2)>>)>>), v(1), old>>)>>
       [] inst.op = "and_saveexec" -> <<Op("Bitcast", <<Ballot(v(1))>>)>>
       [] inst.op = "or_saveexec" ->
            <<Op("Bitcast", <<Op("BitwiseOr", <<Ballot(v(1)), Op("Bitcast", <<v(1)>>)>>)>>)>>
       [] OTHER -> << >>

Store(to, v) == [to |-> to, value |-> v]

\* What an instruction stores: its results that have a variable, or a word of memory.
StoresOf(inst, vars, textured, fma) ==
  LET rs == Results(inst, vars, textured, fma)
      to(k) == After(inst.dst, k - 1)
  IN CASE inst.op = "buffer_store" ->
            <<Store(Op("Bitcast", <<Element(inst, vars)>>), LoadOperand(inst.src[3], vars))>>
       [] inst.op = "ds_write" -> <<Store(SharedWord(inst, vars), LoadOperand(inst.src[2], vars))>>
       [] OTHER ->
            LET kept == SelectSeq([k \in DOMAIN rs |-> k], LAMBDA k : to(k) \in vars)
            IN [k \in DOMAIN kept |-> Store(Leaf(to(kept[k]).file, to(kept[k]).n), rs[kept[k]])]

\* What is emitted of an instruction in the block of a label.
EmitValue(st, inst, vars, textured, label) ==
  LET fma == IF inst.op = "v_fma" THEN Modified(inst, vars, st.cache, label)
             ELSE [cache |-> st.cache, values |-> << >>, from |-> {}]
  IN [cache |-> fma.cache,
      out |-> Append(st.out, [inst |-> inst, block |-> label, from |-> fma.from,
                              stores |-> StoresOf(inst, vars, textured, fma.values)])]

\* All that is emitted of the blocks, in their order.
EmittedValues(bs, prog, vars, textured) ==
  LET block(st, b) ==
        FoldLeft(LAMBDA s, i : EmitValue(s, At(prog, i), vars, textured, b.label), st, b.body)
  IN FoldLeft(block, [cache |-> << >>, out |-> << >>], bs).out
===============================================================================
