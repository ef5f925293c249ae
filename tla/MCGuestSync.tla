------------------------------ MODULE MCGuestSync -----------------------------
(***************************************************************************)
(* Instances of GuestSync for TLC.                                         *)
(***************************************************************************)
EXTENDS GuestSync

Symmetry == Permutations(Threads)
===============================================================================
