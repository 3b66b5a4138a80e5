-------------------------------- MODULE MCBoot --------------------------------
(***************************************************************************)
(* Three images of which one crashes, two keys, and few of every fault.    *)
(***************************************************************************)
EXTENDS Boot
=============================================================================
