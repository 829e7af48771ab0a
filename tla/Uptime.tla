------------------------------- MODULE Uptime -------------------------------
(***************************************************************************)
(* The clock of blinky_fw: timer 0 overflows every millisecond, its        *)
(* interrupt routine counts milliseconds and seconds, and the shell's      *)
(* get_uptime copies the seconds byte by byte, with the interrupt masked.  *)
(* Every step of the CPU takes the same time, Period of them make up a     *)
(* millisecond.  The seconds are a number of two digits to the base BYTE   *)
(* (four digits to the base 256 in the code), and wrap around.             *)
(***************************************************************************)
EXTENDS Naturals

CONSTANTS
    BYTE,         \* see above
    MS,           \* milliseconds in a second, 1000 in the code
    T1_INTERVAL,  \* 200 in the code
    Period        \* steps of the CPU between two overflows

\* The longest time that the interrupt stays masked, ET0 = 0 to ET0 = 1, and
\* its routine fit twice into a millisecond (thousands of instructions).
UptimeAssumption ==
    /\ {BYTE, MS, T1_INTERVAL, Period} \subseteq Nat
    /\ BYTE > 1 /\ MS > 0 /\ Period >= 8

VARIABLES
    uptime_sec, ms_count, t1, d2_led, ioa,  \* ioa: bits 0 and 1 of port A
    TF0, ET0, clock,                        \* the timer
    pc, temp,                               \* main_loop, and get_uptime in it
    ticks,                                  \* overflows, modulo those that uptime_sec can count
    seen                                    \* values of uptime_sec during the call

timer == <<uptime_sec, ms_count, t1, d2_led>>
vars  == <<timer, ioa, TF0, ET0, clock, pc, temp, ticks, seen>>

Seconds == BYTE * BYTE
Low(n)  == n % BYTE
High(n) == n \div BYTE

\* main_init, and the EA = 1 that follows it.
Init ==
    /\ uptime_sec = 0 /\ ms_count = 0 /\ t1 = 0 /\ d2_led = FALSE /\ ioa = <<0, 0>>
    /\ TF0 = FALSE /\ ET0 = TRUE /\ clock = 0
    /\ pc = "led" /\ temp = 0 /\ ticks = 0 /\ seen = {}

\* A step of the CPU; the timer overflows at the end of every Period-th.  An
\* overflow while TF0 is still set is lost.  flag: TF0 as the step leaves it.
Elapse(flag) ==
    /\ clock' = (clock + 1) % Period
    /\ TF0' = (flag \/ clock' = 0)
    /\ ticks' = IF clock' = 0 THEN (ticks + 1) % (Seconds * MS) ELSE ticks

\* The interrupt is taken before the next instruction of the main loop.
timer0_isr ==
    /\ TF0 /\ ET0
    /\ LET second == ms_count + 1 >= MS
           blink  == t1 + 1 > T1_INTERVAL IN
       /\ ms_count' = IF second THEN 0 ELSE ms_count + 1
       /\ uptime_sec' = IF second THEN (uptime_sec + 1) % Seconds ELSE uptime_sec
       /\ d2_led' = IF second THEN ~d2_led ELSE d2_led
       /\ t1' = IF blink THEN 0 ELSE t1 + 1
       /\ ioa' = IF blink THEN [ioa EXCEPT ![1] = 1 - @] ELSE ioa
    /\ seen' = seen \cup {uptime_sec'}
    /\ Elapse(FALSE)
    /\ UNCHANGED <<ET0, pc, temp>>

Step(from, to) == pc = from /\ pc' = to /\ ~(TF0 /\ ET0) /\ Elapse(TF0) /\ UNCHANGED timer

\* main_loop's LED; the shell may or may not ask for the uptime next.
Led ==
    /\ \E to \in {"led", "mask"} : Step("led", to)
    /\ ioa' = [ioa EXCEPT ![2] = IF d2_led THEN 0 ELSE 1]
    /\ seen' = {uptime_sec}
    /\ UNCHANGED <<ET0, temp>>

\* Mutant: the interrupt stays enabled.
MaskNot == Step("mask", "low") /\ UNCHANGED <<ioa, ET0, temp, seen>>

Mask == Step("mask", "low") /\ ET0' = FALSE /\ UNCHANGED <<ioa, temp, seen>>

Copy ==
    \/ /\ Step("low", "high")
       /\ temp' = Low(uptime_sec)
       /\ UNCHANGED <<ioa, ET0, seen>>
    \/ /\ Step("high", "unmask")
       /\ temp' = temp + BYTE * High(uptime_sec)
       /\ UNCHANGED <<ioa, ET0, seen>>

Unmask == Step("unmask", "return") /\ ET0' = TRUE /\ UNCHANGED <<ioa, temp, seen>>

Return == Step("return", "led") /\ UNCHANGED <<ioa, ET0, temp, seen>>

Next == timer0_isr \/ Led \/ Mask \/ Copy \/ Unmask \/ Return

Spec == Init /\ [][Next]_vars

-----------------------------------------------------------------------------
(* Properties.                                                             *)

\* Every variable holds a value of its type.
TypeOK ==
    /\ uptime_sec \in 0 .. Seconds - 1 /\ ms_count \in 0 .. MS - 1 /\ t1 \in 0 .. T1_INTERVAL
    /\ {d2_led, TF0, ET0} \subseteq BOOLEAN /\ ioa \in [1 .. 2 -> {0, 1}]
    /\ clock \in 0 .. Period - 1 /\ pc \in {"led", "mask", "low", "high", "unmask", "return"}
    /\ temp \in 0 .. Seconds - 1 /\ ticks \in 0 .. Seconds * MS - 1
    /\ seen \subseteq 0 .. Seconds - 1

\* get_uptime returns a value that the counter had during the call, never the
\* bytes of two values (device.c:165-169).
ReadConsistent == pc \in {"unmask", "return"} => temp \in seen

\* Masking the interrupt loses no millisecond (device.c:165-167, 175-179).
NoTickLost == ticks = (uptime_sec * MS + ms_count + (IF TF0 THEN 1 ELSE 0)) % (Seconds * MS)
=============================================================================
