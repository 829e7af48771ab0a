----------------------------- MODULE Tm1638Bus -----------------------------
(***************************************************************************)
(* The driver of the TM1638 (tm1638.c), pin by pin, and the chip at the    *)
(* other end of the wires STB, CLK and DIO: 16 display registers, those of *)
(* the digits at even addresses and those of the LEDs at odd ones, and the *)
(* eight buttons, which may change at any time.  The chip is modelled from *)
(* how the driver uses it: the first byte after STB falls is a command, it *)
(* captures DIO when CLK rises, puts out the next bit when CLK falls, and  *)
(* its output is an open drain, which can only pull DIO low.               *)
(*                                                                         *)
(* A call is a sequence of frames, from STB low to STB high, and a frame   *)
(* the sequence of the bytes that are written in it; one action is one     *)
(* access of the port.                                                     *)
(***************************************************************************)
EXTENDS Naturals, Sequences

CONSTANTS
    LedMasks, SegmentSets,  \* arguments of set_leds and set_segments
    Pressable,              \* the buttons that may change, of 0 .. 7
    MaxOps                  \* bound: calls after tm1638_init

Tm1638Assumption ==
    /\ LedMasks \subseteq 0 .. 255 /\ SegmentSets \subseteq [1 .. 8 -> 0 .. 255]
    /\ Pressable \subseteq 0 .. 7 /\ MaxOps \in Nat

VARIABLES
    pc,                     \* the next access of the port
    op, frames, ops,        \* the running call, its frames, calls so far
    want,                   \* what the registers should be after the call
    frame, byte, bit, dat,  \* counters of the loops; the byte that is moved
    received, keys,         \* i and keys of tm1638_read_all_buttons
    STB, CLK, DIO, OEA,     \* the port's latches; OEA: DIO is an output
    ram, mode,              \* the chip: registers, latest data command
    phase, shift, bits, addr, reading, out, \* what goes on since STB fell
    pressed, was, wasNot    \* buttons, and how they were since the call began

call    == <<op, frames, ops, want>>
place   == <<frame, byte, bit, dat>>
scan    == <<received, keys>>
pins    == <<STB, CLK, DIO, OEA>>
chip    == <<ram, mode, phase, shift, bits, addr, reading, out>>
buttons == <<pressed, was, wasNot>>
vars    == <<pc, call, place, scan, pins, chip, buttons>>

Bit(n, k) == (n \div 2 ^ k) % 2

-----------------------------------------------------------------------------
(* The bytes that each call writes, frame by frame.                        *)

tm1638_init ==
    << <<64>>, [j \in 1 .. 17 |-> IF j = 1 THEN 192 ELSE 0], <<143>> >>

tm1638_set_leds(mask) ==
    [f \in 1 .. 9 |-> IF f = 1 THEN <<68>> ELSE <<193 + (f - 2) * 2, Bit(mask, f - 2)>>]

tm1638_set_segments(segs) ==
    [f \in 1 .. 9 |-> IF f = 1 THEN <<68>> ELSE <<192 + (f - 2) * 2, segs[f - 1]>>]

tm1638_read_all_buttons == << <<66>> >>

-----------------------------------------------------------------------------
(* The chip.                                                               *)

Off == 33

\* The level of DIO: the chip pulls it low, the port drives it, or neither.
Level == IF out = 0 THEN 0 ELSE IF OEA = 1 THEN DIO ELSE 1

\* Commands 01xxxxxx set the mode: bit 1 to read the keys, bit 2 for a fixed
\* address; 11xxaaaa an address; 10xxxxxx the brightness.
TakeCommand(b) ==
    /\ phase' = "data"
    /\ mode' = IF b \div 64 = 1 THEN b ELSE mode
    /\ addr' = IF b \div 64 = 3 THEN b % 16 ELSE addr
    /\ reading' = IF b \div 64 = 1 /\ Bit(b, 1) = 1 THEN 0 ELSE reading
    /\ UNCHANGED ram

TakeData(b) ==
    /\ ram' = IF Bit(mode, 1) = 0 THEN [ram EXCEPT ![addr] = b] ELSE ram
    /\ addr' = IF Bit(mode, 2) = 1 THEN addr ELSE (addr + 1) % 16
    /\ UNCHANGED <<phase, mode, reading>>

\* The bits that are read: bit 0 of byte b is button b, bit 4 button b + 4.
KeyBit(k) ==
    IF k % 4 = 0 /\ (k \div 8) + (k % 8) \in pressed THEN 1 ELSE 0

ClkFalls ==
    /\ CLK' = 0
    /\ IF STB = 0 /\ CLK = 1 /\ reading < 32
       THEN out' = KeyBit(reading) /\ reading' = reading + 1
       ELSE UNCHANGED <<out, reading>>
    /\ UNCHANGED <<STB, DIO, OEA, ram, mode, phase, shift, bits, addr>>

ClkRises ==
    /\ CLK' = 1
    /\ \/ /\ STB = 1 \/ CLK = 1 \/ reading # Off
          /\ UNCHANGED chip
       \/ /\ STB = 0 /\ CLK = 0 /\ reading = Off /\ bits < 7
          /\ bits' = bits + 1 /\ shift' = shift + 2 ^ bits * Level
          /\ UNCHANGED <<ram, mode, phase, addr, reading, out>>
       \/ /\ STB = 0 /\ CLK = 0 /\ reading = Off /\ bits = 7
          /\ bits' = 0 /\ shift' = 0
          /\ LET b == shift + 128 * Level IN
             \/ phase = "command" /\ TakeCommand(b)
             \/ phase = "data" /\ TakeData(b)
          /\ UNCHANGED out
    /\ UNCHANGED <<STB, DIO, OEA>>

\* An edge of STB ends a frame and begins one.
StbEdge ==
    /\ phase' = "command" /\ shift' = 0 /\ bits' = 0 /\ reading' = Off /\ out' = 1
    /\ UNCHANGED <<ram, mode, addr>>

-----------------------------------------------------------------------------
(* The driver.                                                             *)

Idle == pc = "idle"

Go(from, to) == pc = from /\ pc' = to /\ UNCHANGED <<call, buttons>>

\* After reset all latches are 0 and all pins inputs; the registers hold
\* whatever they held.
Init ==
    /\ pc = "configure" /\ op = "init" /\ frames = tm1638_init /\ ops = 0
    /\ frame = 1 /\ byte = 1 /\ bit = 0 /\ dat = 0 /\ received = 0 /\ keys = {}
    /\ STB = 0 /\ CLK = 0 /\ DIO = 0 /\ OEA = 0
    /\ ram \in {[a \in 0 .. 15 |-> v] : v \in {0, 255}} /\ mode \in {64, 66, 68}
    /\ phase = "command" /\ shift = 0 /\ bits = 0 /\ addr = 0 /\ reading = Off /\ out = 1
    /\ pressed = {} /\ was = {} /\ wasNot = 0 .. 7
    /\ want = [a \in 0 .. 15 |-> 0]

\* The pins in the order of the code: CLK rises when STB is high already, so
\* that the chip sees the edge of STB only.
Configure ==
    /\ Go("configure", "begin")
    /\ OEA' = 1 /\ STB' = 1 /\ CLK' = 1 /\ DIO' = 0 /\ StbEdge
    /\ UNCHANGED <<place, scan>>

Start(name, fs) ==
    /\ Idle /\ ops < MaxOps
    /\ pc' = "begin" /\ op' = name /\ frames' = fs /\ ops' = ops + 1
    /\ frame' = 1 /\ received' = 0 /\ keys' = {}
    /\ was' = pressed /\ wasNot' = 0 .. 7 \ pressed
    /\ UNCHANGED <<byte, bit, dat, pins, chip, pressed>>

Call ==
    \/ \E mask \in LedMasks :
         /\ Start("leds", tm1638_set_leds(mask))
         /\ want' = [a \in 0 .. 15 |-> IF a % 2 = 1 THEN Bit(mask, a \div 2) ELSE want[a]]
    \/ \E segs \in SegmentSets :
         /\ Start("segments", tm1638_set_segments(segs))
         /\ want' = [a \in 0 .. 15 |-> IF a % 2 = 0 THEN segs[a \div 2 + 1] ELSE want[a]]
    \/ Start("buttons", tm1638_read_all_buttons) /\ UNCHANGED want

\* The j-th byte of the frame is handed to tm1638_write_byte.
Hand(j) == byte' = j /\ bit' = 0 /\ dat' = frames[frame][j]

Begin ==
    /\ Go("begin", "low")
    /\ STB' = 0 /\ StbEdge /\ Hand(1)
    /\ UNCHANGED <<CLK, DIO, OEA, frame, scan>>

\* The loop of tm1638_write_byte.
WriteLow ==
    /\ Go("low", "put") /\ ClkFalls
    /\ UNCHANGED <<place, scan>>

WriteData ==
    /\ Go("put", "high")
    /\ DIO' = dat % 2
    /\ UNCHANGED <<STB, CLK, OEA, chip, place, scan>>

WriteHigh ==
    /\ Go("high", IF bit < 7 THEN "low" ELSE "next") /\ ClkRises
    /\ bit' = bit + 1 /\ dat' = dat \div 2
    /\ UNCHANGED <<frame, byte, scan>>

WritesLeft == byte < Len(frames[frame])
ReadsLeft  == op = "buttons" /\ received < 4

NextByte ==
    /\ Go("next", "low") /\ WritesLeft
    /\ Hand(byte + 1)
    /\ UNCHANGED <<frame, scan, pins, chip>>

\* Mutant: DIO stays an output.
ReadInputDriven ==
    /\ Go("next", "readlow") /\ ~WritesLeft /\ ReadsLeft
    /\ bit' = 0 /\ dat' = 0
    /\ UNCHANGED <<pins, chip, frame, byte, scan>>

\* tm1638_read_byte.
ReadInput ==
    /\ Go("next", "readlow") /\ ~WritesLeft /\ ReadsLeft
    /\ OEA' = 0 /\ bit' = 0 /\ dat' = 0
    /\ UNCHANGED <<STB, CLK, DIO, chip, frame, byte, scan>>

ReadLow ==
    /\ Go("readlow", "sample") /\ ClkFalls
    /\ dat' = dat \div 2
    /\ UNCHANGED <<frame, byte, bit, scan>>

Sample ==
    /\ Go("sample", "readhigh")
    /\ dat' = dat + 128 * Level
    /\ UNCHANGED <<frame, byte, bit, scan, pins, chip>>

ReadHigh ==
    /\ Go("readhigh", IF bit < 7 THEN "readlow" ELSE "output") /\ ClkRises
    /\ bit' = bit + 1
    /\ UNCHANGED <<frame, byte, dat, scan>>

ReadOutput ==
    /\ Go("output", "keep")
    /\ OEA' = 1
    /\ UNCHANGED <<STB, CLK, DIO, chip, place, scan>>

\* What tm1638_read_all_buttons does with a byte.
Keep ==
    /\ Go("keep", "next")
    /\ keys' = keys \cup {b \in {received} : Bit(dat, 0) = 1}
                    \cup {b \in {received + 4} : Bit(dat, 4) = 1}
    /\ received' = received + 1 /\ dat' = 0
    /\ UNCHANGED <<frame, byte, bit, pins, chip>>

End ==
    /\ Go("next", IF frame < Len(frames) THEN "begin" ELSE "return")
    /\ ~WritesLeft /\ ~ReadsLeft
    /\ STB' = 1 /\ StbEdge /\ frame' = frame + 1
    /\ UNCHANGED <<CLK, DIO, OEA, byte, bit, dat, scan>>

Return ==
    /\ Go("return", "idle")
    /\ UNCHANGED <<place, scan, pins, chip>>

Drive ==
    \/ Configure \/ Begin \/ WriteLow \/ WriteData \/ WriteHigh \/ NextByte \/ ReadInput
    \/ ReadLow \/ Sample \/ ReadHigh \/ ReadOutput \/ Keep \/ End \/ Return

Press ==
    /\ op = "buttons" /\ ~Idle
    /\ \E b \in Pressable :
         /\ pressed' = IF b \in pressed THEN pressed \ {b} ELSE pressed \cup {b}
         /\ was' = was \cup (pressed' \cap {b})
         /\ wasNot' = wasNot \cup ({b} \ pressed')
    /\ UNCHANGED <<pc, call, place, scan, pins, chip>>

Next == Press \/ Call \/ Drive

Spec == Init /\ [][Next]_vars

-----------------------------------------------------------------------------
(* Properties.                                                             *)

\* Every variable holds a value of its type, and between calls the bus is at
\* rest.
TypeOK ==
    /\ Idle => STB = 1 /\ CLK = 1 /\ OEA = 1
    /\ op \in {"init", "leds", "segments", "buttons"} /\ ops \in 0 .. MaxOps
    /\ {STB, CLK, DIO, OEA, out} \subseteq {0, 1}
    /\ dat \in 0 .. 255 /\ keys \subseteq 0 .. 7
    /\ ram \in [0 .. 15 -> 0 .. 255] /\ mode \in 64 .. 127 /\ phase \in {"command", "data"}
    /\ bits \in 0 .. 7 /\ shift \in 0 .. 127 /\ addr \in 0 .. 15 /\ reading \in 0 .. Off

\* After a call the registers are those that the calls so far asked for, the
\* digits untouched by set_leds and the LEDs by set_segments: what HidOutput
\* takes for one write of the display (tm1638.c:103-153).
RegistersAsTold == Idle => ram = want

\* On the way no register ever holds anything but its old and its new value.
NoGlitch == \A a \in 0 .. 15 : ram'[a] # ram[a] => ram'[a] = want[a]

\* Each button read is as it was at some time during the call
\* (tm1638.c:85-100), what HidInput takes for a scan one button at a time.
ButtonsSeen ==
    op = "buttons" /\ pc = "return" => keys \subseteq was /\ 0 .. 7 \ keys \subseteq wasNot

\* The port never drives DIO high while the chip pulls it low, though it
\* makes DIO an output again between the bytes that it reads
\* (tm1638.c:49, 70-71).
NoContention == ~(OEA = 1 /\ DIO = 1 /\ out = 0)
=============================================================================
