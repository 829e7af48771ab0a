---------------------------- MODULE FrameDisplay ----------------------------
(***************************************************************************)
(* What the output path of the HID firmware promises: a display that shows *)
(* the frames of the host's byte stream one after the other, each LED mask *)
(* followed by the digits of the same frame, none before the host has sent *)
(* all of it, and in the end the last one.  Bytes are named by their       *)
(* position in the stream; the cleared display is the frame before byte 0. *)
(***************************************************************************)
EXTENDS Integers

CONSTANT FRAME

VARIABLES
    sent,  \* bytes the host has sent
    leds,  \* first byte of the frame whose LED mask is lit
    segs   \* the digits shown

DisplayInit ==
    /\ sent = 0
    /\ leds = -FRAME
    /\ segs = [k \in 1 .. FRAME - 1 |-> k - FRAME]

\* The host sends more bytes.
Submit ==
    /\ sent' \in Nat /\ sent' > sent
    /\ UNCHANGED <<leds, segs>>

Whole == segs = [k \in 1 .. FRAME - 1 |-> leds + k]

\* The LED mask of the next frame, once all its bytes were sent.
LightNext ==
    /\ Whole
    /\ leds + 2 * FRAME <= sent
    /\ leds' = leds + FRAME
    /\ UNCHANGED <<sent, segs>>

\* The digits of the frame whose LED mask is lit.
ShowDigits ==
    /\ ~Whole
    /\ segs' = [k \in 1 .. FRAME - 1 |-> leds + k]
    /\ UNCHANGED <<sent, leds>>

DisplayNext == Submit \/ LightNext \/ ShowDigits

Spec == DisplayInit /\ [][DisplayNext]_<<sent, leds, segs>>

\* A display that goes on shows in the end all that was sent.
Goes == WF_<<sent, leds, segs>>(LightNext \/ ShowDigits)
=============================================================================
