-------------------------------- MODULE MCMM --------------------------------
(***************************************************************************)
(* The allocator on small regions, with the invariant of its proof.        *)
(***************************************************************************)
EXTENDS MMProofs
=============================================================================
