------------------------------ MODULE MCEventFlag -----------------------------
(***************************************************************************)
(* Instance of EventFlag for TLC: requests for one bit, for either and for *)
(* both, that take the bits, the pattern or nothing.                       *)
(***************************************************************************)
EXTENDS EventFlag, TLC

CONSTANTS b1, b2

Request(bits, all, clear) == [bits |-> bits, all |-> all, clear |-> clear]

MixedRequests ==
  {Request({b1}, TRUE, "bits"), Request({b1, b2}, TRUE, "pattern"),
   Request({b1, b2}, FALSE, "no")}
===============================================================================
