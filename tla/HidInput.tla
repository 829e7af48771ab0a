------------------------------ MODULE HidInput ------------------------------
(***************************************************************************)
(* The input path of hid_tm1638 (device.c): every millisecond the timer    *)
(* interrupt sets tick_1ms; main_loop clears it and, if EP1 IN is free,    *)
(* scans the eight buttons and arms EP1 with a report, which the host      *)
(* takes when it polls.  The output path takes some time in each turn, and *)
(* may stop the firmware for good (module HidOutput).  How the buttons are *)
(* scanned, bit by bit, is in module Tm1638Bus.                            *)
(***************************************************************************)
EXTENDS Naturals

CONSTANTS
    Buttons,      \* 0 .. 7 in the code
    MS,           \* 1000 in the code
    T1_INTERVAL,  \* 200 in the code
    Settle        \* the user may stop pressing buttons for good

ASSUME HidInputAssumption ==
    /\ Buttons \subseteq 0 .. 7 /\ MS \in Nat \ {0} /\ T1_INTERVAL \in Nat
    /\ Settle \in BOOLEAN

VARIABLES
    ms_count, d2_led, t1, ioa, tick_1ms,  \* timer0_isr
    pc, scan, keys,  \* main_loop; the buttons left to scan, those found pressed
    busy, report,    \* EP1INCS.BUSY, EP1INBUF[2]
    pressed, settled, \* the user
    received,        \* the report that the host took last
    was, wasNot      \* buttons that were, and were not, pressed since then

timerVars == <<ms_count, d2_led, t1>>
userVars  == <<pressed, settled>>
vars == <<timerVars, ioa, tick_1ms, pc, scan, keys, busy, report, userVars, received, was, wasNot>>

\* main_init: EP1INCS = 0.
Init ==
    /\ ms_count = 0 /\ d2_led = FALSE /\ t1 = 0 /\ ioa = <<0, 0>> /\ tick_1ms = FALSE
    /\ pc = "output" /\ scan = {} /\ keys = {} /\ busy = FALSE /\ report = {}
    /\ pressed = {} /\ settled = FALSE /\ received = {}
    /\ was = {} /\ wasNot = Buttons

-----------------------------------------------------------------------------
(* The user and the host.                                                  *)

Press ==
    /\ ~settled
    /\ \E b \in Buttons :
         /\ pressed' = IF b \in pressed THEN pressed \ {b} ELSE pressed \cup {b}
         /\ was' = was \cup (pressed' \cap {b})
         /\ wasNot' = wasNot \cup ({b} \ pressed')
    /\ UNCHANGED <<timerVars, ioa, tick_1ms, pc, scan, keys, busy, report, settled, received>>

SettleDown ==
    /\ Settle /\ ~settled /\ settled' = TRUE
    /\ UNCHANGED <<timerVars, ioa, tick_1ms, pc, scan, keys, busy, report, pressed, received, was, wasNot>>

\* An IN token on EP1 is NAKed unless the endpoint is armed.
Poll ==
    /\ busy
    /\ busy' = FALSE /\ received' = report
    /\ was' = pressed /\ wasNot' = Buttons \ pressed
    /\ UNCHANGED <<timerVars, ioa, tick_1ms, pc, scan, keys, report, userVars>>

-----------------------------------------------------------------------------
(* device.c                                                                *)

\* Mutant: t1 is tested before it is counted.
timer0_isr_late ==
    /\ LET second == ms_count + 1 >= MS
           blink  == t1 > T1_INTERVAL IN
       /\ ms_count' = IF second THEN 0 ELSE ms_count + 1
       /\ d2_led' = IF second THEN ~d2_led ELSE d2_led
       /\ t1' = IF blink THEN 0 ELSE t1 + 1
       /\ ioa' = IF blink THEN [ioa EXCEPT ![1] = 1 - @] ELSE ioa
    /\ tick_1ms' = TRUE
    /\ UNCHANGED <<pc, scan, keys, busy, report, userVars, received, was, wasNot>>

timer0_isr ==
    /\ LET second == ms_count + 1 >= MS
           blink  == t1 + 1 > T1_INTERVAL IN
       /\ ms_count' = IF second THEN 0 ELSE ms_count + 1
       /\ d2_led' = IF second THEN ~d2_led ELSE d2_led
       /\ t1' = IF blink THEN 0 ELSE t1 + 1
       /\ ioa' = IF blink THEN [ioa EXCEPT ![1] = 1 - @] ELSE ioa
    /\ tick_1ms' = TRUE
    /\ UNCHANGED <<pc, scan, keys, busy, report, userVars, received, was, wasNot>>

Goto(from, to) == pc = from /\ pc' = to /\ UNCHANGED <<timerVars, userVars, received, was, wasNot>>

\* check_control_outputs returns, or has met a packet it does not understand.
CheckOutputs ==
    /\ Goto("output", "tick")
    /\ UNCHANGED <<ioa, tick_1ms, scan, keys, busy, report>>

TestTick ==
    /\ Goto("tick", IF tick_1ms THEN "clear" ELSE "led")
    /\ UNCHANGED <<ioa, tick_1ms, scan, keys, busy, report>>

ClearTick ==
    /\ Goto("clear", "busy")
    /\ tick_1ms' = FALSE
    /\ UNCHANGED <<ioa, scan, keys, busy, report>>

\* Mutant: the test dropped.
TestBusyNot ==
    /\ Goto("busy", "scan") /\ scan' = Buttons /\ keys' = {}
    /\ UNCHANGED <<ioa, tick_1ms, busy, report>>

\* Mutant: the test reversed, the report waits for a busy endpoint.
TestBusyReversed ==
    /\ IF ~busy
       THEN Goto("busy", "led") /\ UNCHANGED <<scan, keys>>
       ELSE Goto("busy", "scan") /\ scan' = Buttons /\ keys' = {}
    /\ UNCHANGED <<ioa, tick_1ms, busy, report>>

\* report_button_inputs: nothing is done while EP1 is busy.
TestBusy ==
    /\ IF busy
       THEN Goto("busy", "led") /\ UNCHANGED <<scan, keys>>
       ELSE Goto("busy", "scan") /\ scan' = Buttons /\ keys' = {}
    /\ UNCHANGED <<ioa, tick_1ms, busy, report>>

\* Mutant: bits of the report before are not cleared.
ScanButtonKeep ==
    /\ scan # {} /\ Goto("scan", "scan")
    /\ LET b == CHOOSE c \in scan : \A d \in scan : c <= d IN
       /\ scan' = scan \ {b}
       /\ keys' = IF b \in pressed \cup report THEN keys \cup {b} ELSE keys
    /\ UNCHANGED <<ioa, tick_1ms, busy, report>>

\* tm1638_read_all_buttons: at any time in between a button may change.
ScanButton ==
    /\ scan # {} /\ Goto("scan", "scan")
    /\ LET b == CHOOSE c \in scan : \A d \in scan : c <= d IN
       /\ scan' = scan \ {b}
       /\ keys' = IF b \in pressed THEN keys \cup {b} ELSE keys
    /\ UNCHANGED <<ioa, tick_1ms, busy, report>>

\* EP1INBC = 3.
ArmEp1 ==
    /\ scan = {} /\ Goto("scan", "led")
    /\ report' = keys /\ busy' = TRUE
    /\ UNCHANGED <<ioa, tick_1ms, scan, keys>>

Led ==
    /\ Goto("led", "output")
    /\ ioa' = [ioa EXCEPT ![2] = IF d2_led THEN 0 ELSE 1]
    /\ UNCHANGED <<tick_1ms, scan, keys, busy, report>>

Main == CheckOutputs \/ TestTick \/ ClearTick \/ TestBusy \/ ScanButton \/ ArmEp1 \/ Led

Next == Press \/ SettleDown \/ Poll \/ timer0_isr \/ Main

Spec == Init /\ [][Next]_vars

-----------------------------------------------------------------------------
(* Properties.                                                             *)

\* Every variable holds a value of its type.
TypeOK ==
    /\ ms_count \in 0 .. MS - 1 /\ t1 \in 0 .. T1_INTERVAL /\ ioa \in {0, 1} \X {0, 1}
    /\ {d2_led, tick_1ms, busy, settled} \subseteq BOOLEAN
    /\ pc \in {"output", "tick", "clear", "busy", "scan", "led"}
    /\ {scan, keys, report, pressed, received, was, wasNot} \subseteq SUBSET Buttons

\* A report that waits in EP1 is fresh: every button in it was as it says at
\* some time after the host took the report before (device.c:295-301).
ReportFresh == busy => report \subseteq was /\ Buttons \ report \subseteq wasNot

\* A report is not overwritten while it waits for the host (device.c:295).
ReportKept == [][busy /\ busy' => report' = report]_vars
=============================================================================
