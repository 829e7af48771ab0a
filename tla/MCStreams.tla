----------------------------- MODULE MCStreams -----------------------------
(***************************************************************************)
(* An instance of Streams for TLC.  Bursts of four packets fill both       *)
(* endpoints of Loopback.  DEPTH is the least that is enough for DELAY     *)
(* (256 and 5 in the design).  A line of three bytes holds one word more   *)
(* than the shell has room for.                                            *)
(***************************************************************************)
EXTENDS Streams

\* The third packet of A finds no place, for nobody need read at B.
Crossing == [A |-> <<2, 1, 1>>, B |-> <<2>>]
=============================================================================
