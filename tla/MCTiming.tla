------------------------------ MODULE MCTiming ------------------------------
(***************************************************************************)
(* The smallest one, two or three of up to three measurements, on machines *)
(* with both words of the counter, one whose timer interrupt takes long    *)
(* enough to be recorded and one whose interrupt does not, and on an       *)
(* Alpha. Words of 16 values: a measurement begins at 0, just before the   *)
(* low word goes around, or just before both do. The Alpha's calibration   *)
(* counts in fours, so that it comes back to where it began.               *)
(***************************************************************************)
EXTENDS Timing

AnAlpha == {[counter |-> "alpha", tick |-> 4]}
AllThree == [counter : {"i386"}, tick : {1, 5}] \union AnAlpha
=============================================================================
