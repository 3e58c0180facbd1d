------------------------------- MODULE MCMain -------------------------------
(***************************************************************************)
(* Two default traces, command lines of up to three options, and a timer   *)
(* of a few units. The system clock may stand still while a pass runs, and *)
(* be set back by more than the pass takes.                                *)
(***************************************************************************)
EXTENDS Main

Dir(n, s) == [name |-> n, slash |-> s]

Traces == Dir("traces", TRUE)
DefaultFiles == <<"amptjp-bal.rep", "cccp-bal.rep">>
Given == {Dir("here", FALSE), Dir("there", TRUE)}
Settings == {0, -1, -4}
TeamsOfOneAndTwo == {{"teamname", "name1", "id1"},
                     {"teamname", "name1", "id1", "name2"}}
=============================================================================
