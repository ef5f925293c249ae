------------------------------ MODULE MCGpuQueue ------------------------------
(***************************************************************************)
(* Instance of GpuQueue for TLC: one queue, rung, fed and shut down by     *)
(* several guest threads.                                                  *)
(***************************************************************************)
EXTENDS GpuQueue
===============================================================================
