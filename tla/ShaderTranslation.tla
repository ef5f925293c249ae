-------------------------- MODULE ShaderTranslation --------------------------
(***************************************************************************)
(* translate_to_spirv (src/src/shader_translation.rs): shaders, one after  *)
(* another, are parsed, cut into blocks, structured and emitted.           *)
(*                                                                         *)
(* Every translation is made under the device's lock, so that one is made  *)
(* at a time; what they share is the table of redirected edges, which is   *)
(* never cleared.  A label that is looked up and missing panics, and the   *)
(* lock is poisoned: nothing is translated any more.                       *)
(*                                                                         *)
(* collapse_empty_blocks is left out: it is called on blocks that          *)
(* build_cfg has just made, none of which is empty.                        *)
(***************************************************************************)
EXTENDS ShaderValues, FiniteSetsExt, TLC

CONSTANTS
  Workloads,  \* sequences of shaders that are translated one after the other
  LabelGap    \* 1000: from the number of instructions to the first new label

\* A shader is its microcode and what the draw's state says of it.
Flags == [vertex : BOOLEAN, vb : BOOLEAN, cb : BOOLEAN, tex : BOOLEAN]

VARIABLES
  code, flags,  \* the shader at hand
  prog,         \* its instructions
  blocks,
  next,         \* next_label_id
  redirected,   \* REDIRECTED_EDGES: <<predecessor, dispatch block>> to target
  stage,
  waiting       \* shaders to translate after it

vars == <<code, flags, prog, blocks, next, redirected, stage, waiting>>

-------------------------------------------------------------------------------
\* Passes.  A pass is an operator from the blocks and the next label to both.

State(bs, n) == [bs |-> bs, next |-> n]

\* unify_loop_backedges: edges back to one header go through one new block.
UnifyOne(st, header, from) ==
  LET moved == FoldLeft(LAMBDA bs, p : RedirectAt(bs, p, header, st.next), st.bs, from) IN
  State(Append(moved, Block(st.next, << >>, <<header>>)), st.next + 1)

UnifyBackEdges(bs, n) ==
  LET headers == Places(bs, {k \in DOMAIN bs : Len(BackEdges(bs, k)) > 1}) IN
  FoldLeft(LAMBDA st, k : UnifyOne(st, bs[k].label, BackEdges(bs, k)), State(bs, n), headers)

\* split_loop_headers: the conditional branch a header ends with gets a block of its
\* own, whose label is the branch's number.
EndsInChoice(b) == b.body # << >> /\ At(prog, Last(b.body)).op \in {"scc0", "scc1"}

SplitHeaders(bs) ==
  LET split == {k \in LoopHeaders(bs) : EndsInChoice(bs[k])}
      tail(b) == Block(Last(b.body), <<Last(b.body)>>, b.succ)
      head(b) == Block(b.label, Front(b.body), <<Last(b.body)>>)
      order == Places(bs, split)
  IN [k \in DOMAIN bs |-> IF k \in split THEN head(bs[k]) ELSE bs[k]]
       \o [j \in DOMAIN order |-> tail(bs[order[j]])]

\* inject_ladders: blocks that merge at one place get their own way into it, but for
\* one of them, a loop's header if there is one.  Which one is up to the order of a
\* hash map; so is the order of the new labels, which nothing depends on.
MergeEntries(bs) ==
  LET pdom == PostDominators(bs)
      loops == {[header |-> bs[k].label, loop |-> TRUE,
                 merge |-> LoopMerge(bs[k].label, BackEdges(bs, k)[1], bs, pdom)]
                : k \in LoopHeaders(bs)}
      choices == {[header |-> bs[k].label, loop |-> FALSE,
                   merge |-> ImmediatePostDominator(bs[k].label, pdom)]
                  : k \in {k \in DOMAIN bs : Len(bs[k].succ) > 1}}
  IN loops \cup {e \in choices : e.merge # NoLabel}

Kept(entries) ==
  LET rivals(m) == {e \in entries : e.merge = m}
      loops(m) == {e \in rivals(m) : e.loop}
      shared == {e.merge : e \in {e \in entries : Cardinality(rivals(e.merge)) > 1}}
      candidates(m) == IF loops(m) # {} THEN loops(m) ELSE rivals(m)
  IN FoldSet(LAMBDA m, fs : {f @@ (m :> e) : f \in fs, e \in candidates(m)}, {<< >>}, shared)

LadderOne(st, e) ==
  State(Append(RedirectAt(st.bs, e.header, e.merge, st.next),
               Block(st.next, << >>, <<e.merge>>)), st.next + 1)

InjectLadders(bs, n, entries, kept) ==
  FoldLeft(LadderOne, State(bs, n),
           FoldSet(LAMBDA e, q : Append(q, e), << >>,
                   {e \in entries : e.merge \in DOMAIN kept /\ e # kept[e.merge]}))

\* transpose_irreducible_loops: a block that is entered from before it by a block that
\* does not descend from it, and from behind it, is entered through a dispatch block,
\* and so are the other targets of the blocks before it.
Group(bs, k) ==
  LET l == bs[k].label
      dom == Dominators(bs)
      before == SelectSeq(Preds(bs, l), LAMBDA p : l \notin dom[p] /\ Pos(bs, p) < k)
      others(p) == SelectSeq(BlockOf(bs, p).succ, LAMBDA s : s # l)
      add(g, p) == FoldLeft(LAMBDA h, s : IF s \in Range(h) THEN h ELSE Append(h, s), g, others(p))
  IN IF BackEdges(bs, k) = << >> THEN <<l>> ELSE FoldLeft(add, <<l>>, before)

Groups(bs) == SelectSeq([k \in DOMAIN bs |-> Group(bs, k)], LAMBDA g : Len(g) > 1)

\* The edges a group redirects, by the predecessors of before the pass.
Entering(bs, group) ==
  {<<p, e>> \in Labels(bs) \X Range(group) :
     e \in Labels(bs) /\ p \in Range(Preds(bs, e)) /\ p \notin Range(group)}

\* One group: st also holds the table of redirections.  Of two edges of one block
\* the table keeps the one later in the group.
\* Defect: an entry that is there already is kept.
RegisterOnce(table, edge, target) == IF edge \in DOMAIN table THEN table ELSE (edge :> target) @@ table

Register(table, edge, target) == (edge :> target) @@ table

DispatchOne(st, group, old) ==
  LET id == st.next
      leads(l, e) == <<l, e>> \in Entering(old, group) /\ e \in Range(BlockOf(st.bs, l).succ)
      edges == SelectSeq(FlattenSeq([g \in DOMAIN group |->
                 [k \in DOMAIN st.bs |-> <<st.bs[k].label, group[g]>>]]),
                 LAMBDA le : leads(le[1], le[2]))
  IN [bs |-> Append(FoldLeft(LAMBDA bs, le : RedirectAt(bs, le[1], le[2], id), st.bs, edges),
                    Block(id, << >>, group)),
      next |-> id + 1,
      table |-> FoldLeft(LAMBDA t, le : Register(t, <<le[1], id>>, le[2]), st.table, edges)]

TransposeLoops(bs, n, table) ==
  FoldLeft(LAMBDA st, g : DispatchOne(st, g, bs),
           [bs |-> bs, next |-> n, table |-> table], Groups(bs))

\* sort_blocks_rpo: depth first from the entry, then from what it has not reached.
RECURSIVE Dfs(_, _, _)
Dfs(l, bs, st) ==
  IF l \in st.seen THEN st
  ELSE LET targets == IF l \in Labels(bs) THEN BlockOf(bs, l).succ ELSE << >>
           below == FoldLeft(LAMBDA s, t : Dfs(t, bs, s), [st EXCEPT !.seen = @ \cup {l}], targets)
       IN [below EXCEPT !.post = Append(@, l)]

SortBlocks(bs) ==
  LET all == FoldLeft(LAMBDA s, b : Dfs(b.label, bs, s), Dfs(0, bs, [seen |-> {}, post |-> << >>]), bs)
      order == SelectSeq(Reverse(all.post), LAMBDA l : l \in Labels(bs))
      again == Places(bs, {k \in DOMAIN bs : Pos(bs, bs[k].label) # k})
  IN [k \in DOMAIN order |-> BlockOf(bs, order[k])] \o [j \in DOMAIN again |-> bs[again[j]]]

-------------------------------------------------------------------------------
\* Emission: labels

Dispatches(b) == b.body = << >> /\ Len(b.succ) > 1 /\ b.label >= Len(prog)

\* Loops a block is in, as pairs of header and blocks.
LoopsAround(bs, l) ==
  {[header |-> bs[k].label, blocks |-> LoopBlocks(bs[k].label, BackEdges(bs, k)[1], bs)]
   : k \in {k \in LoopHeaders(bs) : l \in LoopBlocks(bs[k].label, BackEdges(bs, k)[1], bs)}}

\* The merge block of a conditional branch: the post-dominator, or the target in the
\* smallest loop around when the post-dominator is outside it.
SelectionMerge(bs, b, fallthrough) ==
  LET pdom == PostDominators(bs)
      ipd == ImmediatePostDominator(b.label, pdom)
      merge == IF ipd = NoLabel THEN fallthrough ELSE ipd
      around == LoopsAround(bs, b.label)
      inner == CHOOSE p \in around : \A q \in around : Cardinality(p.blocks) <= Cardinality(q.blocks)
      inside == SelectSeq(b.succ, LAMBDA s : s \in inner.blocks)
  IN IF around = {} THEN merge
     ELSE IF merge \notin inner.blocks /\ inside # << >> THEN inside[1] ELSE merge

\* Labels looked up to emit the k-th block.
Looked(bs, k) ==
  LET b == bs[k]
      pdom == PostDominators(bs)
      continue == BackEdges(bs, k)[1]
      op == IF b.body = << >> THEN "none" ELSE At(prog, Last(b.body)).op
      fallthrough == IF Len(b.succ) > 1 THEN b.succ[2] ELSE Last(b.body) + 1
      loop == IF BackEdges(bs, k) = << >> THEN {}
              ELSE {continue, LoopMerge(b.label, continue, bs, pdom)}
      branch == CASE op = "endpgm" -> {}
                  [] op \in {"scc0", "scc1"} ->
                       {b.succ[1], fallthrough, SelectionMerge(bs, b, fallthrough)}
                  [] OTHER -> Range(SubSeq(b.succ, 1, 1))
  IN IF Dispatches(b) THEN Range(b.succ) ELSE loop \cup branch

Panics(bs) == \E k \in DOMAIN bs : ~(Looked(bs, k) \cup {0} \subseteq Labels(bs))

-------------------------------------------------------------------------------
\* Emission: memory barriers.  An access waits for an earlier store of its block
\* through the same registers.

Resource(inst) ==
  CASE inst.op \in {"buffer_load", "buffer_store", "s_load"} -> {inst.src[1]}
    [] OTHER -> {}

Shared(inst) == inst.op \in {"ds_read", "ds_write"}

Stores(inst) == IF inst.op = "buffer_store" THEN Resource(inst) ELSE {}

\* Defect: the store is noted before it is looked for.
EmitOneEarly(st, i) ==
  LET inst == At(prog, i)
      noted == st.stored \cup Stores(inst)
      waits == Resource(inst) \cap noted # {}
  IN [st EXCEPT !.out = Append(@, [inst |-> i, after |-> IF waits THEN {"buffer"} ELSE {}]),
                !.stored = noted \ (IF waits THEN Resource(inst) ELSE {})]

EmitOne(st, i) ==
  LET inst == At(prog, i)
      waits == Resource(inst) \cap st.stored # {}
      sharing == Shared(inst) /\ st.shared
      barriers == (IF sharing THEN {"lds"} ELSE {}) \cup (IF waits THEN {"buffer"} ELSE {})
  IN [out |-> Append(st.out, [inst |-> i, after |-> barriers]),
      shared |-> (st.shared /\ ~sharing) \/ inst.op = "ds_write",
      stored |-> (st.stored \ (IF waits THEN Resource(inst) ELSE {})) \cup Stores(inst)]

\* What is emitted of a block: its instructions, each after its barriers.
EmittedBody(b) == FoldLeft(EmitOne, [out |-> << >>, shared |-> FALSE, stored |-> {}], b.body).out

-------------------------------------------------------------------------------
\* Emission: variables.  Each register gathered from the instructions, and the first
\* six of each file, has one; a register without one reads as the constant zero.

Named(inst) == {r \in {inst.dst} \cup Range(inst.src) : r.file \in {"s", "v"}}

\* Registers next to the named ones: the upper halves of addresses and masks.
Neighbours(inst) ==
  CASE inst.op = "s_load" -> {After(inst.src[1], 1)}
    [] inst.op = "s_load4" -> {After(inst.src[1], 1)} \cup {After(inst.dst, k) : k \in 1 .. 3}
    [] inst.op \in {"buffer_load", "buffer_store"} -> {After(inst.src[1], 1)}
    [] inst.op \in {"and_saveexec", "or_saveexec", "mov_exec"} ->
         {After(r, 1) : r \in {r \in Named(inst) : r.file = "s"}}
    [] OTHER -> {}

Gathered ==
  UNION {Named(prog[k]) \cup Neighbours(prog[k]) : k \in DOMAIN prog}
    \cup {Sgpr(n) : n \in 0 .. 5} \cup {Vgpr(n) : n \in 0 .. 5}

\* Registers the code emitted for an instruction loads and stores.
Addressed(inst) == {inst.src[1], After(inst.src[1], 1)}

Touched(inst) ==
  CASE inst.op = "s_load" -> Addressed(inst) \cup {inst.dst}
    [] inst.op = "s_load4" -> Addressed(inst) \cup {After(inst.dst, k) : k \in 0 .. 3}
    [] inst.op \in {"buffer_load", "buffer_store"} -> Addressed(inst) \cup Named(inst)
    [] inst.op = "image_sample" ->
         IF flags.tex THEN Addressed(inst) \cup {After(inst.dst, k) : k \in 0 .. 3} ELSE {}
    [] OTHER -> Named(inst)

\* Variables shared with the other stages and the driver.
Attribute(side) == IF flags.tex THEN side \o "tex" ELSE side \o "color"

Declared ==
  {"lane", "out_" \o (IF flags.vertex THEN "pos" ELSE "color")}
    \cup (IF flags.vertex THEN {"vertex_index"} ELSE {Attribute("in_")})
    \cup (IF flags.vertex /\ flags.vb THEN {"in_pos", Attribute("in_"), Attribute("out_")} ELSE {})
    \cup (IF ~flags.vertex /\ flags.tex THEN {"sampler"} ELSE {})
    \cup (IF flags.cb THEN {"uniform"} ELSE {})

Preloaded ==
  IF ~flags.vertex THEN {Attribute("in_")}
  ELSE IF flags.vb THEN {"in_pos", Attribute("in_")} ELSE {"vertex_index"}

FragmentOutput ==
  {"out_color"} \cup (IF flags.tex THEN {"sampler"} ELSE IF flags.cb THEN {"uniform"} ELSE {})

\* At the end of the program; the vertex shader passes the position through in red.
Ended == IF flags.vertex THEN {"in_pos", "out_pos", "out_color"} ELSE FragmentOutput

\* A program with no block.
Empty ==
  IF ~flags.vertex THEN FragmentOutput \cup (IF flags.tex THEN {"in_tex"} ELSE {})
  ELSE {"out_pos"} \cup (IF flags.vb THEN {"in_pos", Attribute("in_"), Attribute("out_")} ELSE {})

Interface ==
  Preloaded \cup (IF prog = << >> THEN Empty ELSE {})
    \cup (IF EndPgm \in Range(prog) THEN Ended ELSE {})
    \cup (IF \E k \in DOMAIN prog : prog[k].op = "writelane" THEN {"lane"} ELSE {})
    \cup (IF flags.tex /\ \E k \in DOMAIN prog : prog[k].op = "image_sample" THEN {"sampler"} ELSE {})

-------------------------------------------------------------------------------
\* Steps

Init ==
  /\ \E w \in Workloads :
       code = w[1].code /\ flags = w[1].flags /\ waiting = Tail(w)
  /\ prog = << >> /\ blocks = << >> /\ next = 0
  /\ redirected = << >>
  /\ stage = "code"

Pass(from, to, st) ==
  /\ stage = from
  /\ stage' = to
  /\ blocks' = st.bs /\ next' = st.next
  /\ UNCHANGED <<code, flags, prog, waiting>>

ParseCode ==
  /\ stage = "code"
  /\ prog' = Parse(code)
  /\ stage' = "parsed"
  /\ UNCHANGED <<code, flags, blocks, next, redirected, waiting>>

Build ==
  /\ Pass("parsed", "built", State(BuildCfg(prog), Len(prog) + LabelGap))
  /\ UNCHANGED redirected

Unify ==
  /\ Pass("built", "unified", UnifyBackEdges(blocks, next))
  /\ UNCHANGED redirected

Split ==
  /\ Pass("unified", "split", State(SplitHeaders(blocks), next))
  /\ UNCHANGED redirected

Ladders ==
  /\ stage = "split"
  /\ LET entries == MergeEntries(blocks) IN
     \E kept \in Kept(entries) :
       Pass("split", "laddered", InjectLadders(blocks, next, entries, kept))
  /\ UNCHANGED redirected

Transpose ==
  LET st == TransposeLoops(blocks, next, redirected) IN
  /\ Pass("laddered", "transposed", State(st.bs, st.next))
  /\ redirected' = st.table

Sort ==
  /\ Pass("transposed", "sorted", State(SortBlocks(blocks), next))
  /\ UNCHANGED redirected

Emit ==
  /\ stage = "sorted"
  /\ stage' = IF blocks # << >> /\ Panics(blocks) THEN "panicked" ELSE "emitted"
  /\ UNCHANGED <<code, flags, prog, blocks, next, redirected, waiting>>

NextShader ==
  /\ stage = "emitted" /\ waiting # << >>
  /\ code' = waiting[1].code /\ flags' = waiting[1].flags /\ waiting' = Tail(waiting)
  /\ stage' = "code"
  /\ prog' = << >> /\ blocks' = << >> /\ next' = 0
  /\ UNCHANGED redirected

Next ==
  ParseCode \/ Build \/ Unify \/ Split \/ Ladders \/ Transpose \/ Sort \/ Emit \/ NextShader

Spec == Init /\ [][Next]_vars
-------------------------------------------------------------------------------
\* Properties

\* Where control goes.  The first instruction reached by entering block l from block
\* "from": an empty block is passed, a dispatch block leads to the target the table
\* holds for the edge, of which the first four have a number of their own.
Chosen(b, from) ==
  LET target == redirected[<<from, b.label>>]
      k == CHOOSE j \in DOMAIN b.succ : b.succ[j] = target
  IN IF k <= 4 THEN target ELSE b.succ[1]

RECURSIVE Resolve(_, _, _)
Resolve(from, l, fuel) ==
  IF l \notin Labels(blocks) THEN NoLabel
  ELSE LET b == BlockOf(blocks, l) IN
       IF b.body # << >> THEN b.body[1]
       ELSE IF fuel = 0 \/ b.succ = << >> THEN NoLabel
       ELSE Resolve(l, IF Dispatches(b) THEN Chosen(b, from) ELSE b.succ[1], fuel - 1)

\* Where control goes from instruction i of block b: one entry for each target.
Ways(b, i) ==
  IF i # Last(b.body) THEN <<i + 1>>
  ELSE [k \in DOMAIN b.succ |-> Resolve(b.label, b.succ[k], Len(blocks))]

SourceWays(i) ==
  [k \in DOMAIN Successors(prog, i) |->
     LET l == Successors(prog, i)[k] IN IF l \in 0 .. Len(prog) - 1 THEN l ELSE NoLabel]

Structured == stage \in {"built", "unified", "split", "laddered", "transposed", "sorted"}

\* Both targets of the block lead into one dispatch block, whose table has room for
\* one of them.
Merged(b) ==
  /\ Len(b.succ) = 2 /\ b.succ[1] = b.succ[2] /\ b.succ[1] \in Labels(blocks)
  /\ Dispatches(BlockOf(blocks, b.succ[1]))

\* A loop's header that is one branch is split into two blocks of one label.
Doubled == Cardinality(Labels(blocks)) < Len(blocks)

\* A step of the program goes, after every pass, where the instructions say: no pass
\* loses, adds or swaps a target.  The two places where the code does are left out,
\* see BranchesKeepTheirWay.
OtherBranchesKeepTheirWay ==
  Structured /\ ~Doubled =>
    \A k \in DOMAIN blocks : \A i \in Range(blocks[k].body) :
      ~Merged(blocks[k]) => Ways(blocks[k], i) = SourceWays(i)

\* What the comment on the transposition promises: the dispatch block branches to the
\* correct target, whatever led to it.
BranchesKeepTheirWay ==
  Structured /\ ~Doubled =>
    \A k \in DOMAIN blocks : \A i \in Range(blocks[k].body) :
      Ways(blocks[k], i) = SourceWays(i)

\* The sets the merge blocks are chosen from are post-dominators by their definition:
\* x is one of l if an exit that can be reached from l cannot be reached without x.
RECURSIVE ReachedAvoiding(_, _)
ReachedAvoiding(found, x) ==
  LET more == found \cup UNION {Range(BlockOf(blocks, l).succ) \cap (Labels(blocks) \ {x}) : l \in found}
  IN IF more = found THEN found ELSE ReachedAvoiding(more, x)

PostDominatorsMatchPaths ==
  Structured /\ ~Doubled =>
    LET pdom == PostDominators(blocks)
        whole == {k \in DOMAIN blocks : Range(blocks[k].succ) \subseteq Labels(blocks)}
    IN whole = DOMAIN blocks =>
         \A l \in Labels(blocks) :
           Exits(blocks) \cap ReachedAvoiding({l}, NoLabel) # {} =>
             pdom[l] = {x \in Labels(blocks) :
                          x = l \/ Exits(blocks) \cap ReachedAvoiding({l}, x) = {}}

\* In the order blocks are emitted in, every block comes after the blocks that
\* dominate it, as SPIR-V demands; the entry is the first of those it reaches.
DominatorsComeFirst ==
  stage = "sorted" /\ ~Doubled /\ prog # << >> =>
    \A x, l \in ReachedAvoiding({0}, NoLabel) :
      x # l /\ (x = 0 \/ l \notin ReachedAvoiding({0}, x)) => Pos(blocks, x) < Pos(blocks, l)

\* Between a store to a buffer and a later access of its block through the same
\* registers a barrier is emitted, and so between a store to the shared memory and a
\* later access to it.
WritesAreFenced ==
  stage = "emitted" =>
    \A k \in DOMAIN blocks :
      LET out == EmittedBody(blocks[k])
          inst(p) == At(prog, out[p].inst)
          fenced(p, q, kind) == \E m \in p + 1 .. q : kind \in out[m].after
      IN \A p, q \in DOMAIN out : p < q =>
           /\ Stores(inst(p)) \cap Resource(inst(q)) # {} => fenced(p, q, "buffer")
           /\ inst(p).op = "ds_write" /\ Shared(inst(q)) => fenced(p, q, "lds")

\* The code emitted for the instructions only uses variables the first pass over them
\* has declared.  Left out: what an image sample writes beside the registers it names,
\* and the vertex shaders whose end stores a colour or reads a position that they
\* do not have.
VariablesAreDeclared ==
  stage = "parsed" =>
    /\ \A k \in DOMAIN prog :
         prog[k].op # "image_sample" => Touched(prog[k]) \subseteq Gathered
    /\ ~flags.vertex \/ (flags.vb /\ ~flags.tex) => Interface \subseteq Declared

\* The regions of the emitted program are those of the shader's own paths: every
\* branch keeps its targets, and blocks merge and are ordered as their dominators say.
PathsAreKept == OtherBranchesKeepTheirWay /\ PostDominatorsMatchPaths /\ DominatorsComeFirst

\* The emitted instructions may stand where they do: writes and reads of one memory
\* have a barrier between them, and a register used has been declared.
EmittedCodeIsOrdered == WritesAreFenced /\ VariablesAreDeclared
===============================================================================
