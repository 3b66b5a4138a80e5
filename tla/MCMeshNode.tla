----------------------------- MODULE MCMeshNode -----------------------------
(***************************************************************************)
(* Small instances of MeshNode for TLC: one or two peers, a six-valued     *)
(* counter that wraps while it is in use, a 2-bit window.                  *)
(***************************************************************************)
EXTENDS MeshNode, TLC

(* The peers are interchangeable.                                          *)
Peers == Permutations(Src)
=============================================================================
