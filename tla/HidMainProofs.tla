--------------------------- MODULE HidMainProofs ----------------------------
(***************************************************************************)
(* Proofs about HidInput, for every set of buttons and every interval, and *)
(* about HidMain, which runs it and HidOutput on one CPU.                  *)
(*                                                                         *)
(* ReportFresh is not inductive: a scan goes on while the buttons change   *)
(* and the report is armed only at its end.  ScanFresh says what a scan    *)
(* has found so far, and that EP1 is free meanwhile; UserSeen says that    *)
(* was and wasNot hold at least the present.                               *)
(*                                                                         *)
(* The composition is shown to implement either path; what is proved of    *)
(* HidOutput is then cited, and OneCpu tells when the input path runs.     *)
(***************************************************************************)
EXTENDS HidMain, TLAPS

UserSeen == pressed \subseteq was /\ Buttons \ pressed \subseteq wasNot

ScanFresh ==
    pc = "scan" => /\ ~busy
                   /\ keys \subseteq was
                   /\ (Buttons \ scan) \ keys \subseteq wasNot

IInv == TypeOK /\ UserSeen /\ ScanFresh /\ ReportFresh

-----------------------------------------------------------------------------
LEMMA LedsFlip ==
  ASSUME NEW p \in {0, 1} \X {0, 1}, NEW v \in {0, 1}
  PROVE  /\ [p EXCEPT ![1] = 1 - @] \in {0, 1} \X {0, 1}
         /\ [p EXCEPT ![2] = v] \in {0, 1} \X {0, 1}
  OBVIOUS

LEMMA InitIInv == ASSUME Init PROVE IInv
<1>1. ms_count \in 0 .. MS - 1 /\ t1 \in 0 .. T1_INTERVAL
  BY HidInputAssumption DEF Init
<1>2. ioa \in {0, 1} \X {0, 1}
  BY DEF Init
<1>3. /\ {d2_led, tick_1ms, busy, settled} \subseteq BOOLEAN
      /\ {scan, keys, report, pressed, received, was, wasNot} \subseteq SUBSET Buttons
  BY DEF Init
<1>4. UserSeen /\ ScanFresh /\ ReportFresh
  BY DEF Init, UserSeen, ScanFresh, ReportFresh
<1>5. QED
  BY <1>1, <1>2, <1>3, <1>4 DEF Init, IInv, TypeOK

LEMMA PressIInv == ASSUME IInv, Press PROVE IInv'
<1>1. PICK b \in Buttons :
        /\ pressed' = IF b \in pressed THEN pressed \ {b} ELSE pressed \cup {b}
        /\ was' = was \cup (pressed' \cap {b})
        /\ wasNot' = wasNot \cup ({b} \ pressed')
  BY DEF Press
<1>2. TypeOK'
  BY <1>1 DEF IInv, TypeOK, Press, timerVars
<1>3. UserSeen'
  BY <1>1 DEF IInv, TypeOK, UserSeen
<1>4. ScanFresh' /\ ReportFresh'
  BY <1>1 DEF IInv, ScanFresh, ReportFresh, Press
<1>5. QED
  BY <1>2, <1>3, <1>4 DEF IInv

LEMMA TimerIInv == ASSUME IInv, timer0_isr PROVE IInv'
<1>1. ms_count' \in 0 .. MS - 1 /\ t1' \in 0 .. T1_INTERVAL
  BY HidInputAssumption DEF IInv, TypeOK, timer0_isr
<1>2. ioa' \in {0, 1} \X {0, 1}
  BY LedsFlip DEF IInv, TypeOK, timer0_isr
<1>3. d2_led' \in BOOLEAN /\ tick_1ms' \in BOOLEAN
  BY DEF IInv, TypeOK, timer0_isr
<1>4. TypeOK'
  BY <1>1, <1>2, <1>3 DEF IInv, TypeOK, timer0_isr, userVars
<1>5. QED
  BY <1>4 DEF IInv, UserSeen, ScanFresh, ReportFresh, timer0_isr, userVars

LEMMA ScanButtonIInv == ASSUME IInv, ScanButton PROVE IInv'
<1>1. PICK b : /\ scan' = scan \ {b}
               /\ keys' = IF b \in pressed THEN keys \cup {b} ELSE keys
  BY DEF ScanButton
<1>2. TypeOK'
  BY <1>1 DEF IInv, TypeOK, ScanButton, Goto, timerVars, userVars
<1>3. ScanFresh'
  BY <1>1 DEF IInv, TypeOK, UserSeen, ScanFresh, ScanButton, Goto
<1>4. UserSeen' /\ ReportFresh'
  BY DEF IInv, UserSeen, ReportFresh, ScanButton, Goto, userVars
<1>5. QED
  BY <1>2, <1>3, <1>4 DEF IInv

LEMMA MainIInv == ASSUME IInv, Main PROVE IInv'
<1> USE DEF IInv, TypeOK, UserSeen, ScanFresh, ReportFresh, Goto, timerVars, userVars
<1>1. CASE CheckOutputs
  BY <1>1 DEF CheckOutputs
<1>2. CASE TestTick
  BY <1>2 DEF TestTick
<1>3. CASE ClearTick
  BY <1>3 DEF ClearTick
<1>4. CASE TestBusy
  BY <1>4 DEF TestBusy
<1>5. CASE ScanButton
  BY <1>5, ScanButtonIInv
<1>6. CASE ArmEp1
  BY <1>6 DEF ArmEp1
<1>7. CASE Led
  <2>1. ioa' \in {0, 1} \X {0, 1}
    BY <1>7, LedsFlip DEF Led
  <2>2. QED
    BY <1>7, <2>1 DEF Led
<1>8. QED
  BY <1>1, <1>2, <1>3, <1>4, <1>5, <1>6, <1>7 DEF Main

LEMMA NextIInv == ASSUME IInv, [Next]_vars PROVE IInv'
<1>1. CASE Press
  BY <1>1, PressIInv
<1>2. CASE SettleDown
  BY <1>2 DEF SettleDown, IInv, TypeOK, UserSeen, ScanFresh, ReportFresh, timerVars
<1>3. CASE Poll
  BY <1>3 DEF Poll, IInv, TypeOK, UserSeen, ScanFresh, ReportFresh, timerVars, userVars
<1>4. CASE timer0_isr
  BY <1>4, TimerIInv
<1>5. CASE Main
  BY <1>5, MainIInv
<1>6. CASE UNCHANGED vars
  BY <1>6 DEF vars, IInv, TypeOK, UserSeen, ScanFresh, ReportFresh, timerVars, userVars
<1>7. QED
  BY <1>1, <1>2, <1>3, <1>4, <1>5, <1>6 DEF Next

LEMMA SpecIInv == Spec => []IInv
  BY InitIInv, NextIInv, PTL DEF Spec

\* Every variable of the input path keeps its type.
THEOREM TypeCorrect == Spec => []TypeOK
<1>1. IInv => TypeOK
  BY DEF IInv
<1>2. QED
  BY <1>1, SpecIInv, PTL

\* A report that waits in EP1 tells of every button how it was at some time
\* after the host took the report before (device.c:295-301).
THEOREM Fresh == Spec => []ReportFresh
<1>1. IInv => ReportFresh
  BY DEF IInv
<1>2. QED
  BY <1>1, SpecIInv, PTL

\* A report is not overwritten while it waits for the host (device.c:295).
THEOREM Kept == Spec => ReportKept
<1>1. ASSUME IInv, [Next]_vars PROVE [busy /\ busy' => report' = report]_vars
  <2>1. CASE Press
    BY <2>1 DEF Press
  <2>2. CASE SettleDown
    BY <2>2 DEF SettleDown
  <2>3. CASE Poll
    BY <2>3 DEF Poll
  <2>4. CASE timer0_isr
    BY <2>4 DEF timer0_isr
  <2>5. CASE Main
    BY <1>1, <2>5 DEF Main, CheckOutputs, TestTick, ClearTick, TestBusy, ScanButton, ArmEp1, Led,
                      Goto, IInv, ScanFresh
  <2>6. CASE UNCHANGED vars
    BY <2>6
  <2>7. QED
    BY <1>1, <2>1, <2>2, <2>3, <2>4, <2>5, <2>6 DEF Next
<1>2. QED
  BY <1>1, SpecIInv, PTL DEF Spec, ReportKept

-----------------------------------------------------------------------------
(* The composition: main_loop through both paths.                          *)

OutP == INSTANCE HidOutputProofs WITH pc <- at

\* Every step of main_loop is a step of the input path, or leaves it alone.
LEMMA InputSteps ==
  ASSUME [main_loop \/ Around]_mainVars
  PROVE  [Next]_vars
<1>1. CASE main_loop
  BY <1>1 DEF main_loop, NoOutputs, OutputStep, OutputsDone, InputStep, Next, Main
<1>2. CASE Around
  BY <1>2 DEF Around, Next
<1>3. CASE UNCHANGED mainVars
  BY <1>3 DEF mainVars
<1>4. QED
  BY <1>1, <1>2, <1>3

LEMMA ImplementsInput == MainSpec => Spec
  BY InputSteps, PTL DEF MainSpec, MainInit, Spec

LEMMA InitOut == ASSUME MainInit PROVE OutP!Init
  BY DEF MainInit, Out!Init, OutP!Init, Out!EmptyRing, OutP!EmptyRing, Out!Index, OutP!Index,
         Out!FrameAt, OutP!FrameAt, Out!DigitsAt, OutP!DigitsAt

\* The names of HidOutput stand for the same under both of its instances.
LEMMA OutNext ==
  ASSUME Out!HostSend \/ Out!Firmware
  PROVE  OutP!Next
<1> USE DEF Out!ep2Vars, OutP!ep2Vars, Out!ringVars, OutP!ringVars, Out!dispVars, OutP!dispVars
<1>1. CASE Out!HostSend
  BY <1>1 DEF OutP!Next, Out!HostSend, OutP!HostSend
<1>2. CASE Out!TakePacket
  BY <1>2 DEF OutP!Next, OutP!Firmware, Out!TakePacket, OutP!TakePacket
<1>3. CASE Out!HaltOnCount
  BY <1>3 DEF OutP!Next, OutP!Firmware, Out!HaltOnCount, OutP!HaltOnCount
<1>4. CASE Out!CopyByte
  BY <1>4 DEF OutP!Next, OutP!Firmware, Out!CopyByte, OutP!CopyByte, Out!rb_push, OutP!rb_push
<1>5. CASE Out!Rearm
  BY <1>5 DEF OutP!Next, OutP!Firmware, Out!Rearm, OutP!Rearm
<1>6. CASE Out!PopFrame
  BY <1>6 DEF OutP!Next, OutP!Firmware, Out!PopFrame, OutP!PopFrame, Out!FrameStored,
              OutP!FrameStored, Out!rb_available, OutP!rb_available, Out!rb_pop, OutP!rb_pop,
              Out!rb_pop_data, OutP!rb_pop_data
<1>7. CASE Out!tm1638_set_leds
  BY <1>7 DEF OutP!Next, OutP!Firmware, Out!tm1638_set_leds, OutP!tm1638_set_leds
<1>8. CASE Out!tm1638_set_segments
  BY <1>8 DEF OutP!Next, OutP!Firmware, Out!tm1638_set_segments, OutP!tm1638_set_segments
<1>9. CASE Out!Drained
  BY <1>9 DEF OutP!Next, OutP!Firmware, Out!Drained, OutP!Drained, Out!FrameStored,
              OutP!FrameStored, Out!rb_available, OutP!rb_available
<1>10. QED
  BY <1>1, <1>2, <1>3, <1>4, <1>5, <1>6, <1>7, <1>8, <1>9 DEF Out!Firmware

\* Every step of main_loop is a step of the output path, or leaves it alone.
LEMMA OutputSteps ==
  ASSUME [main_loop \/ Around]_mainVars
  PROVE  [OutP!Next]_OutP!vars
<1>1. CASE UNCHANGED outVars
  BY <1>1 DEF outVars, OutP!vars
<1>2. CASE Out!HostSend \/ Out!Firmware
  BY <1>2, OutNext
<1>3. CASE main_loop
  BY <1>1, <1>2, <1>3
     DEF main_loop, NoOutputs, OutputStep, OutputsDone, InputStep, Out!Firmware
<1>4. CASE Around
  BY <1>1, <1>2, <1>4 DEF Around
<1>5. CASE UNCHANGED mainVars
  BY <1>1, <1>5 DEF mainVars
<1>6. QED
  BY <1>3, <1>4, <1>5

LEMMA ImplementsOutput == MainSpec => OutP!Spec
  BY InitOut, OutputSteps, PTL DEF MainSpec, OutP!Spec

\* The output path has the CPU, or it is done.
OneCpu == pc # "output" => at = "main"

LEMMA SpecOneCpu == MainSpec => []OneCpu
<1>1. MainInit => OneCpu
  BY DEF MainInit, Init, OneCpu
<1>2. ASSUME OneCpu, [main_loop \/ Around]_mainVars PROVE OneCpu'
  <2>1. CASE NoOutputs
    BY <2>1 DEF NoOutputs, OneCpu, outVars
  <2>2. CASE OutputStep
    BY <2>2 DEF OutputStep, OneCpu, vars
  <2>3. CASE OutputsDone
    BY <2>3 DEF OutputsDone, OneCpu, Out!Drained
  <2>4. CASE InputStep
    BY <1>2, <2>4 DEF InputStep, OneCpu, outVars, TestTick, ClearTick, TestBusy, ScanButton,
                      ArmEp1, Led, Goto
  <2>5. CASE Around
    BY <1>2, <2>5 DEF Around, OneCpu, outVars, vars, Press, SettleDown, Poll, timer0_isr,
                      Out!HostSend
  <2>6. CASE UNCHANGED mainVars
    BY <1>2, <2>6 DEF mainVars, outVars, vars, OneCpu
  <2>7. QED
    BY <1>2, <2>1, <2>2, <2>3, <2>4, <2>5, <2>6 DEF main_loop
<1>3. QED
  BY <1>1, <1>2, PTL DEF MainSpec

LEMMA OutAssumptions ==
  ASSUME Out!PacketsFitRing
  PROVE  OutP!RingBufferSizeAssumption /\ OutP!HidOutputAssumption /\ OutP!PacketsFitRing
  BY HidMainAssumption DEF OutP!RingBufferSizeAssumption, OutP!HidOutputAssumption,
                           Out!PacketsFitRing, OutP!PacketsFitRing

\* Whenever the input path has the CPU, or a packet has stopped the firmware
\* for good, the display shows the last frame of all the packets released.
THEOREM Current == ASSUME Out!PacketsFitRing PROVE MainSpec => []DisplayCurrent
<1>1. OutP!Spec => []OutP!IInv
  BY OutAssumptions, OutP!Invariance
<1>2. OneCpu /\ OutP!IInv => DisplayCurrent
  BY DEF OneCpu, OutP!IInv, OutP!ProgressInv, OutP!Shown, OutP!DigitsAt, OutP!Released,
         DisplayCurrent, Out!DigitsAt, Out!Released
<1>3. QED
  BY <1>1, <1>2, SpecOneCpu, ImplementsOutput, PTL

\* Nor does main_loop spoil the order of the frames: each write of the display
\* moves it to the very next frame of the host's stream (device.c:339-351).
THEOREM FramesKeepOrder == ASSUME Out!PacketsFitRing PROVE MainSpec => Out!FramesInOrder
<1>1. OutP!Spec => OutP!FramesInOrder
  BY OutAssumptions, OutP!InOrder
<1>2. OutP!FramesInOrder => Out!FramesInOrder
  BY DEF OutP!FramesInOrder, Out!FramesInOrder, OutP!DigitsAt, Out!DigitsAt
<1>3. QED
  BY <1>1, <1>2, ImplementsOutput, PTL

\* Nor does the output path cost the input path anything: its types, its
\* fresh reports and those that wait are as in a program of its own.
THEOREM InputKept == MainSpec => [](TypeOK /\ ReportFresh) /\ ReportKept
<1>1. MainSpec => []TypeOK /\ []ReportFresh /\ ReportKept
  BY ImplementsInput, TypeCorrect, Fresh, Kept, PTL
<1>2. QED
  BY <1>1, PTL
=============================================================================
