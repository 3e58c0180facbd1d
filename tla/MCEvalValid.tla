---------------------------- MODULE MCEvalValid ----------------------------
(***************************************************************************)
(* The correctness pass over short traces: under an honest allocator, and  *)
(* under one that may return anything. Hi - Lo leaves room for a few       *)
(* payloads only, so that they have to be packed, moved and refused.       *)
(***************************************************************************)
EXTENDS EvalValid
=============================================================================
