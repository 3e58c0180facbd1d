----------------------------- MODULE MCMDriver -----------------------------
(***************************************************************************)
(* The driver over the allocator, on every trace of at most five           *)
(* operations with two ids. The region is small enough for some traces to  *)
(* run out of memory.                                                      *)
(***************************************************************************)
EXTENDS MDriver
=============================================================================
