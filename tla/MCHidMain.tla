----------------------------- MODULE MCHidMain -----------------------------
(***************************************************************************)
(* An instance of HidMain for TLC: frames of two bytes in a ring of four,  *)
(* with a packet of three, which stops the firmware.                       *)
(***************************************************************************)
EXTENDS HidMain

WholeOrNot == {2, 3}
=============================================================================
