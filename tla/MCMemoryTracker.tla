--------------------------- MODULE MCMemoryTracker ----------------------------
(***************************************************************************)
(* Instances of MemoryTracker for TLC: the two pages are watched together. *)
(***************************************************************************)
EXTENDS MemoryTracker, TLC

CONSTANTS p1, p2

BothPages == {{p1, p2}}

Symmetry == Permutations(Guests)
===============================================================================
