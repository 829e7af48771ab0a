---------------------------- MODULE MCHidOutput ----------------------------
(***************************************************************************)
(* Instances of HidOutput for TLC.                                         *)
(***************************************************************************)
EXTENDS HidOutput

\* HID hosts send whole reports; an empty packet passes the count test too, one
\* of four bytes does not.  With frames of 3 bytes and a ring of 8, two frames
\* fill the ring up to two cells and every alignment of a frame to the ring's
\* end occurs.
Reports == {0, 3, 4, 6}

\* A packet of 15 nine-byte frames: 512-byte EP2 packets of the high-speed
\* descriptor allow it, and 135 % 9 = 0.
HighSpeedReports == {9, 135}
=============================================================================
