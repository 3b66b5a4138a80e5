--------------------------- MODULE MCCommandQueue ---------------------------
(***************************************************************************)
(* Small instances of CommandQueue for TLC.                                *)
(***************************************************************************)
EXTENDS CommandQueue, TLC

(* The slots are interchangeable.                                          *)
SlotSymmetry == Permutations(Slot)
=============================================================================
