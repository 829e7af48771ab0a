------------------------------- MODULE HidMain -------------------------------
(***************************************************************************)
(* main_loop of hid_tm1638 (device.c): each turn goes through the output   *)
(* path (HidOutput), then through the input path (HidInput).  The two have *)
(* the CPU in common and nothing else, but that is much: a packet of the   *)
(* host holds the reports up, and one that is no whole number of frames    *)
(* ends them.                                                              *)
(***************************************************************************)
EXTENDS HidInput, Sequences

CONSTANTS RING_BUFFER_SIZE, FRAME, EP2_BUFFERS, PacketLens, MaxSent

\* As in RingBuffer and HidOutput.
ASSUME HidMainAssumption ==
    /\ RING_BUFFER_SIZE \in Nat \ {0} /\ 256 % RING_BUFFER_SIZE = 0
    /\ FRAME \in Nat \ {0} /\ EP2_BUFFERS \in Nat \ {0}
    /\ PacketLens \subseteq Nat /\ MaxSent \in Nat

VARIABLES sent, ep2, armed, rb, stored, popped, at, count, i, frame, leds, segs

outVars == <<sent, ep2, armed, rb, stored, popped, at, count, i, frame, leds, segs>>

Out == INSTANCE HidOutput WITH pc <- at

MainInit == Init /\ Out!Init

\* Mutant: the output path is left before it is done.
OutputsAny ==
    /\ CheckOutputs
    /\ UNCHANGED outVars

\* check_control_outputs found nothing ...
NoOutputs ==
    /\ at = "main" /\ ep2 = <<>>
    /\ CheckOutputs
    /\ UNCHANGED outVars

\* ... or has shown all that was in its packet.
OutputsDone ==
    /\ Out!Drained
    /\ CheckOutputs

\* Any of its steps on the way there.
OutputStep ==
    /\ pc = "output"
    /\ Out!TakePacket \/ Out!HaltOnCount \/ Out!CopyByte \/ Out!Rearm \/ Out!PopFrame
          \/ Out!tm1638_set_leds \/ Out!tm1638_set_segments
    /\ UNCHANGED vars

InputStep ==
    /\ TestTick \/ ClearTick \/ TestBusy \/ ScanButton \/ ArmEp1 \/ Led
    /\ UNCHANGED outVars

main_loop == NoOutputs \/ OutputStep \/ OutputsDone \/ InputStep

Around ==
    \/ (Press \/ SettleDown \/ Poll \/ timer0_isr) /\ UNCHANGED outVars
    \/ Out!HostSend /\ UNCHANGED vars

mainVars == <<vars, outVars>>

MainSpec == MainInit /\ [][main_loop \/ Around]_mainVars

\* The CPU executes, the timer ticks and the host polls.
MainFairSpec ==
    /\ MainSpec
    /\ WF_mainVars(main_loop)
    /\ WF_mainVars(timer0_isr /\ UNCHANGED outVars)
    /\ WF_mainVars(Poll /\ UNCHANGED outVars)

-----------------------------------------------------------------------------
(* Properties.                                                             *)

\* Whenever the input path has the CPU, or a packet has stopped the firmware
\* for good, the display shows the last frame of all the packets released,
\* LEDs and digits of the same frame (device.c:343, 395-398).
DisplayCurrent ==
    pc # "output" \/ at = "halt" =>
        /\ leds = Out!Released - FRAME
        /\ segs = Out!DigitsAt(leds)

\* Once the user leaves the buttons alone the host comes to know how they are,
\* and what it has sent is shown, unless a bad packet stops the firmware: output
\* and input do not keep each other from the CPU (device.c:405-416).
BothServed ==
    (<>[]settled /\ []<>(at # "halt")) =>
        <>[](received = pressed) /\ <>[](leds = sent - FRAME)
=============================================================================
