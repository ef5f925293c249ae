------------------------------ MODULE ShaderCfg ------------------------------
(***************************************************************************)
(* The control flow of a shader and the passes that structure it           *)
(* (src/src/shader_translation.rs).                                        *)
(*                                                                         *)
(* A program is a sequence of instructions, numbered from 0 as in the      *)
(* code.  A block has a label, a body (the numbers of its instructions:    *)
(* lift_to_ast makes one node of each, whose content nothing reads) and the *)
(* labels it branches to.  Predecessors, which the code keeps in the       *)
(* blocks, are computed where it has just rebuilt them.                    *)
(***************************************************************************)
EXTENDS Rdna2

At(prog, i) == prog[i + 1]

Block(label, body, succ) == [label |-> label, body |-> body, succ |-> succ]

Labels(bs) == {bs[k].label : k \in DOMAIN bs}

\* The first block of a label: what every look-up by label finds.
Pos(bs, l) == CHOOSE k \in DOMAIN bs : bs[k].label = l /\ \A j \in 1 .. k - 1 : bs[j].label # l

BlockOf(bs, l) == bs[Pos(bs, l)]

Preds(bs, l) ==
  FoldLeft(LAMBDA ps, b : ps \o [k \in 1 .. Len(SelectSeq(b.succ, LAMBDA s : s = l)) |-> b.label],
           << >>, bs)

\* Predecessors of the k-th block that do not stand before it.
BackEdges(bs, k) == SelectSeq(Preds(bs, bs[k].label), LAMBDA p : Pos(bs, p) >= k)

Redirect(b, from, to) ==
  [b EXCEPT !.succ = [k \in DOMAIN b.succ |-> IF b.succ[k] = from THEN to ELSE b.succ[k]]]

\* The block of a label with one of its targets replaced.
RedirectAt(bs, l, from, to) == [bs EXCEPT ![Pos(bs, l)] = Redirect(@, from, to)]

\* Places of a sequence in order.
Places(bs, ks) == SelectSeq([k \in DOMAIN bs |-> k], LAMBDA k : k \in ks)

-------------------------------------------------------------------------------
\* build_cfg: offsets count instructions from the next one.

Target(prog, i) == i + 1 + At(prog, i).imm

Starts(prog) ==
  LET n == Len(prog)
      index == 0 .. n - 1
      branching == {i \in index : At(prog, i).op \in Branches}
      ending == {i \in index : At(prog, i).op \in Terminators}
  IN ({0} \cup {Target(prog, i) : i \in branching} \cup {i + 1 : i \in ending}) \cap 0 .. n

Successors(prog, last) ==
  LET op == At(prog, last).op
      taken == IF op \in Branches THEN <<Target(prog, last)>> ELSE << >>
      falls == op \notin {"branch", "endpgm"} /\ last + 1 < Len(prog)
  IN taken \o (IF falls THEN <<last + 1>> ELSE << >>)

BuildCfg(prog) ==
  LET starts == SelectSeq([k \in DOMAIN prog |-> k - 1], LAMBDA i : i \in Starts(prog))
      end(k) == IF k < Len(starts) THEN starts[k + 1] ELSE Len(prog)
  IN [k \in DOMAIN starts |->
        Block(starts[k], [j \in 1 .. end(k) - starts[k] |-> starts[k] + j - 1],
              Successors(prog, end(k) - 1))]

-------------------------------------------------------------------------------
\* Dominators.  Both are computed by passes over the blocks until one changes
\* nothing; a target that is no block restricts nothing.

RECURSIVE Settle(_, _, _)
Settle(Step(_, _), bs, sets) ==
  LET once == FoldLeft(Step, sets, bs) IN
  IF once = sets THEN sets ELSE Settle(Step, bs, once)

Common(sets, ls, all) ==
  {x \in all : \A l \in ls \cap DOMAIN sets : x \in sets[l]}

Exits(bs) == {bs[k].label : k \in {k \in DOMAIN bs : bs[k].succ = << >>}}

\* compute_post_dominators
PostDominators(bs) ==
  LET all == Labels(bs)
      step(sets, b) ==
        IF b.label \in Exits(bs) THEN sets
        ELSE [sets EXCEPT ![b.label] = {b.label} \cup Common(sets, Range(b.succ), all)]
  IN Settle(step, bs, [l \in all |-> IF l \in Exits(bs) THEN {l} ELSE all])

NoLabel == -1

\* find_immediate_post_dominator: the other post-dominator with the most of its own.
ImmediatePostDominator(l, pdom) ==
  LET others == pdom[l] \ {l}
      most == {x \in others : \A y \in others : Cardinality(pdom[y]) <= Cardinality(pdom[x])}
  IN IF others = {} THEN NoLabel ELSE CHOOSE x \in most : \A y \in most : x <= y

\* The dominators transpose_irreducible_loops computes.
Dominators(bs) ==
  LET all == Labels(bs)
      entry == bs[1].label
      step(sets, b) ==
        IF b.label = entry THEN sets
        ELSE [sets EXCEPT ![b.label] = {b.label} \cup Common(sets, Range(Preds(bs, b.label)), all)]
  IN Settle(step, bs, [l \in all |-> IF l = entry THEN {l} ELSE all])

-------------------------------------------------------------------------------
\* Loops

\* find_loop_blocks: what reaches the continue block without passing the header.
RECURSIVE Reaching(_, _, _)
Reaching(bs, header, found) ==
  LET more == found \cup UNION {Range(Preds(bs, l)) : l \in (found \ {header}) \cap Labels(bs)}
  IN IF more = found THEN found ELSE Reaching(bs, header, more)

LoopBlocks(header, continue, bs) == Reaching(bs, header, {header, continue})

\* find_loop_merge_block: a way out of the loop that post-dominates the header, else
\* the header's post-dominator, else the number after the continue block's label.
LoopMerge(header, continue, bs, pdom) ==
  LET loop == LoopBlocks(header, continue, bs)
      leaving(l) == SelectSeq(BlockOf(bs, l).succ, LAMBDA s : s \notin loop /\ s \in pdom[header])
      from == {l \in loop \cap Labels(bs) : leaving(l) # << >>}
      ipd == ImmediatePostDominator(header, pdom)
  IN IF from # {} THEN leaving(CHOOSE l \in from : \A m \in from : l <= m)[1]
     ELSE IF ipd # NoLabel THEN ipd
     ELSE continue + 1

LoopHeaders(bs) == {k \in DOMAIN bs : BackEdges(bs, k) # << >>}
===============================================================================
