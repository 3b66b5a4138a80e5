----------------------------- MODULE MCDisplay -----------------------------
(***************************************************************************)
(* The display manager with a few commands.                                *)
(***************************************************************************)
EXTENDS Display
=============================================================================
