------------------------------- MODULE MCAir --------------------------------
(***************************************************************************)
(* Small instances of Air for TLC.                                         *)
(***************************************************************************)
EXTENDS Air, TLC
=============================================================================
