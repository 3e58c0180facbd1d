---------------------------- MODULE MCTraceFiles ----------------------------
(***************************************************************************)
(* Every file of a few lines over two ids, under right and wrong headers.  *)
(***************************************************************************)
EXTENDS TraceFiles
=============================================================================
