---------------------------- MODULE MCRenderLoop ------------------------------
(***************************************************************************)
(* Instance of RenderLoop for TLC.                                         *)
(***************************************************************************)
EXTENDS RenderLoop
===============================================================================
