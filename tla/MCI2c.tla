------------------------------- MODULE MCI2c -------------------------------
(***************************************************************************)
(* Instances of I2c for TLC: bits for data, and a device of three cells,   *)
(* addressed by two bytes of two values or by one byte of three.           *)
(***************************************************************************)
EXTENDS I2c

Bits == {0, 1}

OneOrTwo == {1, 2}
=============================================================================
