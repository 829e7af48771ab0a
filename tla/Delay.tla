-------------------------------- MODULE Delay --------------------------------
(***************************************************************************)
(* delay() of fx2lib (delay.c), by the instructions that its comment lists *)
(* and their cycles: the two bytes of count are decremented one after the  *)
(* other, and the instruction that decrements the high one is skipped      *)
(* unless the low one wrapped.  The few instructions of the outer loop are *)
(* left out.  A millisecond has 3000 * mult cycles.                        *)
(***************************************************************************)
EXTENDS Integers

CONSTANTS
    Mults,  \* subset of {1, 2, 4}: CPUFREQ is 12, 24 or 48 MHz
    Millis, \* arguments
    Cap     \* bound: milliseconds that are counted

WORD == 65536

DelayAssumption ==
    Mults \subseteq {1, 2, 4} /\ Millis \subseteq 0 .. WORD - 1 /\ Cap \in Nat

VARIABLES mult, told, millis, low, high, cycles, running

vars == <<mult, told, millis, low, high, cycles, running>>

loop_count(m) == IF m = 1 THEN 177 ELSE IF m = 2 THEN 353 ELSE 706

PerMilli(m) == 3000 * m

SetCount == low' = loop_count(mult) % 256 /\ high' = loop_count(mult) \div 256

Init ==
    /\ mult \in Mults /\ told \in Millis /\ millis = told
    /\ low = loop_count(mult) % 256 /\ high = loop_count(mult) \div 256
    /\ cycles = 0 /\ running = TRUE

\* do ... while (--millis), which wraps.
Outer ==
    /\ running /\ low = 0 /\ high = 0
    /\ millis' = (millis + WORD - 1) % WORD
    /\ running' = (millis' # 0)
    /\ IF running' THEN SetCount ELSE UNCHANGED <<low, high>>
    /\ UNCHANGED <<mult, told, cycles>>

\* cjne: the high byte is decremented when the low one became 0xFF.
Decrement(l) == IF l = 0 THEN (high + 255) % 256 ELSE high

\* One round of do {} while (--count): 15 cycles, or 17 with the high byte.
Inner ==
    /\ running /\ cycles < Cap * PerMilli(mult)
    /\ (low # 0 \/ high # 0)
    /\ low' = (low + 255) % 256
    /\ high' = Decrement(low)
    /\ cycles' = cycles + (IF low = 0 THEN 17 ELSE 15)
    /\ UNCHANGED <<mult, told, millis, running>>

Next == Inner \/ Outer

Spec == Init /\ [][Next]_vars

-----------------------------------------------------------------------------
(* Properties.                                                             *)

\* Every variable holds a value of its type, and count is never more than
\* what it was set to.
TypeOK ==
    /\ mult \in Mults /\ told \in Millis /\ millis \in 0 .. WORD - 1
    /\ {low, high} \subseteq 0 .. 255 /\ 256 * high + low <= loop_count(mult)
    /\ cycles \in Nat /\ running \in BOOLEAN

\* The caller waits no longer than it said, to one percent: the two halves of
\* count are decremented as one word, at every clock.
NotLonger == told > 0 => 100 * cycles <= 101 * told * PerMilli(mult)

\* ... and returns, no more than an eighth early.
NotEarly == told > 0 /\ ~running => 8 * cycles >= 7 * told * PerMilli(mult)
=============================================================================
