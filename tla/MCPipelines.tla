----------------------------- MODULE MCPipelines -----------------------------
(***************************************************************************)
(* Two threads, two keys that share their shaders and differ in resources; *)
(* six hosts, and jobs of a few bytes.                                     *)
(***************************************************************************)
EXTENDS GraphicsDevice, TLC

CONSTANTS k1, k2

MCKeys == {k1, k2}
MCShape == (k1 :> "plain" @@ k2 :> "textured")
MCVs == [k \in MCKeys |-> "vs"]
MCFs == [k \in MCKeys |-> "fs"]
MCCs == {"fs"}

Both == [graphics |-> TRUE, present |-> TRUE]
Draws == [graphics |-> TRUE, present |-> FALSE]
Copies == [graphics |-> FALSE, present |-> TRUE]

Local == {"local"}
Seen == {"visible", "coherent"}

Gpu1 == [families |-> <<Both>>, memory |-> <<Local, Seen, Local \cup Seen>>,
         depth |-> {1, 3}, buffers |-> {2, 3}]

\* Its first memory type is for neither, and its first family cannot present.
Gpu2 == [families |-> <<Draws, Copies, Both>>, memory |-> <<{}, Seen, Local>>,
         depth |-> {3}, buffers |-> {2}]

Blind == [families |-> <<Draws>>, memory |-> <<Local, Seen>>, depth |-> {1}, buffers |-> {2}]

Host == [loader |-> TRUE, layers |-> TRUE, gpus |-> <<Gpu1>>, current |-> <<3, 2>>,
         least |-> <<1, 1>>, most |-> <<4, 4>>, minImages |-> 1, maxImages |-> 0, extra |-> 0,
         formats |-> <<"unorm", "srgb">>]

OffersOf ==
  [usual |-> Host,
   second |-> [Host EXCEPT !.layers = FALSE, !.gpus = <<Blind, Gpu2>>, !.current = "any",
                           !.most = <<2, 4>>, !.least = <<1, 4>>, !.extra = 1,
                           !.formats = <<"unorm">>],
   capped |-> [Host EXCEPT !.gpus = <<Gpu2, Gpu1>>, !.minImages = 2, !.maxImages = 2],
   blind |-> [Host EXCEPT !.gpus = <<Blind>>],
   formless |-> [Host EXCEPT !.formats = << >>],
   bare |-> [Host EXCEPT !.loader = FALSE]]

MCOffers == OffersOf
MCWindow == <<3, 3>>

JobInputsOf == {<< >>, <<1>>, <<9, 1, 2>>, <<1, 2, 1, 2, 1, 2>>}
MCJobInputs == JobInputsOf

StreamsOf == UNION {[1 .. n -> {1, 9}] : n \in 0 .. 2}
               \cup {<<9>> \o s : s \in UNION {[1 .. n -> 0 .. 3] : n \in 0 .. 4}}
MCStreams == StreamsOf

MCMagic == <<9>>

Symmetric == Permutations(Threads) \cup Permutations(Codes)
===============================================================================
