--------------------------- MODULE MCControlCycle ---------------------------
(* ControlCycle with the shipped periods. *)
EXTENDS ControlCycle

MCGaps    == {5, 10, 15}   \* no, one, two missed cycles
MCOnTime  == {5}
=============================================================================
