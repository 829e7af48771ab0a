----------------------------- MODULE MCDrivers -----------------------------
(***************************************************************************)
(* An instance of Drivers for TLC: EP0 packets of two bytes, transfers of  *)
(* up to three packets, the last one whole or not; the GPIF's counts lie   *)
(* on both sides of the limits of a byte and a word; seconds wrap after    *)
(* four, and a carry goes from digit to digit after two; delay has the     *)
(* numbers of the code.                                                    *)
(***************************************************************************)
EXTENDS Drivers

\* Digits that tell the bits of a byte apart.
Digits == {<<63, 6, 91, 79, 102, 109, 125, 255>>}
=============================================================================
