------------------------------ MODULE HidOutput ------------------------------
(***************************************************************************)
(* The output path of the HID/TM1638 firmware (hid_tm1638/device.c):       *)
(* packets of the EP2 OUT endpoint, the ring buffer, frames on the display.*)
(*                                                                         *)
(*   host --(HostSend)--> EP2 buffers --(check_control_outputs)--> ring    *)
(*        --(process_control_outputs)--> TM1638 LEDs and digits            *)
(*                                                                         *)
(* The serial interface engine fills endpoint buffers while the CPU copies *)
(* and displays, so the host's step interleaves with every firmware step.  *)
(* Bytes are not interpreted by this path, so a byte is named by its       *)
(* position in the stream the host sends: byte n is the n-th one.  With    *)
(* all bytes distinct, every loss, swap or duplicate is visible.           *)
(***************************************************************************)
EXTENDS Integers, Sequences, RingBuffer

CONSTANTS
    FRAME,       \* bytes of a frame: one LED mask, then the digits (9 in the code)
    EP2_BUFFERS, \* endpoint buffers: EP2CFG = 0xB2 selects double buffering
    PacketLens,  \* lengths of the packets the host may send
    MaxSent      \* bound on the host's stream, for model checking

ASSUME HidOutputAssumption ==
    /\ FRAME \in Nat \ {0}
    /\ EP2_BUFFERS \in Nat \ {0}
    /\ PacketLens \subseteq Nat
    /\ MaxSent \in Nat

\* What the ring is laid out for: a packet that passes the count test leaves
\* at least one cell free.  128 cells take the 64 bytes of a full-speed packet
\* and every HID report of 9 bytes; a 512-byte high-speed packet may exceed it.
PacketsFitRing == \A len \in PacketLens : len % FRAME = 0 => len < RING_BUFFER_SIZE

VARIABLES
    sent,    \* bytes the host has sent and EP2 has acknowledged
    ep2,     \* the packets waiting in EP2 buffers, oldest first
    armed,   \* EP2 buffers that can take a packet
    rb,      \* _rb
    stored,  \* history: bytes pushed so far
    popped,  \* history: bytes popped so far
    pc,      \* where main_loop() is
    count,   \* local of check_control_outputs
    i,       \* its loop index
    frame,   \* locals leds, segs[8] of process_control_outputs
    leds,    \* the LED mask in the TM1638
    segs     \* the digits in the TM1638

ep2Vars  == <<sent, ep2, armed>>
ringVars == <<rb, stored, popped>>
dispVars == <<leds, segs>>
vars == <<sent, ep2, armed, rb, stored, popped, pc, count, i, frame,
          leds, segs>>

\* A packet is a stretch of the host's stream.
Packet == [first : Nat, len : Nat]

\* The frame that starts with byte n of the stream.
FrameAt(n)  == [k \in 0 .. FRAME - 1 |-> n + k]
\* Its digits.
DigitsAt(n) == [k \in 1 .. FRAME - 1 |-> n + k]

(***************************************************************************)
(* main_init(): every EP2 buffer armed by a write to EP2BCL, the display   *)
(* cleared by tm1638_init().  The cleared display counts as the frame just *)
(* before byte 0.  No byte has been stored: ring cells hold byte -1.       *)
(***************************************************************************)
Init ==
    /\ sent = 0 /\ ep2 = <<>> /\ armed = EP2_BUFFERS
    /\ rb = EmptyRing(-1) /\ stored = 0 /\ popped = 0
    /\ pc = "main" /\ count = 0 /\ i = 0 /\ frame = FrameAt(-FRAME)
    /\ leds = -FRAME /\ segs = DigitsAt(-FRAME)

-----------------------------------------------------------------------------
(* The host and the serial interface engine.                               *)

\* An OUT packet is acknowledged only while a buffer is armed; it is NAKed
\* otherwise, and the host tries again.
HostSend ==
    /\ armed > 0
    /\ \E len \in PacketLens :
         /\ sent + len <= MaxSent
         /\ sent' = sent + len
         /\ ep2' = Append(ep2, [first |-> sent, len |-> len])
    /\ armed' = armed - 1
    /\ UNCHANGED <<pc, count, i, frame>>
    /\ UNCHANGED ringVars /\ UNCHANGED dispVars

-----------------------------------------------------------------------------
(* The firmware.                                                           *)

\* check_control_outputs: EP2 is not empty, and the byte count of its oldest
\* packet is a whole number of frames ...
TakePacket ==
    /\ pc = "main" /\ ep2 # <<>>
    /\ count' = Head(ep2).len
    /\ Head(ep2).len % FRAME = 0
    /\ i' = 0
    /\ pc' = "copy"
    /\ UNCHANGED frame
    /\ UNCHANGED ep2Vars /\ UNCHANGED ringVars /\ UNCHANGED dispVars

\* ... or is not: "something I don't understand happened", while(1).
HaltOnCount ==
    /\ pc = "main" /\ ep2 # <<>>
    /\ count' = Head(ep2).len
    /\ Head(ep2).len % FRAME # 0
    /\ pc' = "halt"
    /\ UNCHANGED <<i, frame>>
    /\ UNCHANGED ep2Vars /\ UNCHANGED ringVars /\ UNCHANGED dispVars

\* rb_push(&_rb, EP2FIFOBUF[i]): EP2FIFOBUF is the oldest packet.
CopyByte ==
    /\ pc = "copy" /\ i < count
    /\ rb' = rb_push(rb, Head(ep2).first + i)
    /\ stored' = stored + 1
    /\ i' = i + 1
    /\ UNCHANGED <<popped, pc, count, frame>>
    /\ UNCHANGED ep2Vars /\ UNCHANGED dispVars

\* Mutant: EP2BCL is written twice, as main_init does.
RearmTwice ==
    /\ pc = "copy" /\ i = count
    /\ ep2' = Tail(ep2)
    /\ armed' = armed + 2
    /\ pc' = "frames"
    /\ UNCHANGED <<sent, count, i, frame>>
    /\ UNCHANGED ringVars /\ UNCHANGED dispVars

\* EP2BCL = 0x80 releases the oldest buffer and arms it again.
Rearm ==
    /\ pc = "copy" /\ i = count
    /\ ep2' = Tail(ep2)
    /\ armed' = armed + 1
    /\ pc' = "frames"
    /\ UNCHANGED <<sent, count, i, frame>>
    /\ UNCHANGED ringVars /\ UNCHANGED dispVars

\* Mutant: the last frame is left in the ring.
MoreThanAFrame == rb_available(rb) > FRAME

\* The condition of the loop in process_control_outputs.
FrameStored == rb_available(rb) >= FRAME

\* The FRAME calls of rb_pop.
PopFrame ==
    /\ pc = "frames" /\ FrameStored
    /\ frame' = rb_pop_data(rb, FRAME)
    /\ rb' = rb_pop(rb, FRAME)
    /\ popped' = popped + FRAME
    /\ pc' = "leds"
    /\ UNCHANGED <<stored, count, i>>
    /\ UNCHANGED ep2Vars /\ UNCHANGED dispVars

tm1638_set_leds ==
    /\ pc = "leds"
    /\ leds' = frame[0]
    /\ pc' = "segs"
    /\ UNCHANGED <<segs, count, i, frame>>
    /\ UNCHANGED ep2Vars /\ UNCHANGED ringVars

tm1638_set_segments ==
    /\ pc = "segs"
    /\ segs' = [k \in 1 .. FRAME - 1 |-> frame[k]]
    /\ pc' = "frames"
    /\ UNCHANGED <<leds, count, i, frame>>
    /\ UNCHANGED ep2Vars /\ UNCHANGED ringVars

\* Mutant: an `if' in place of the `while'.
DrainedEarly ==
    /\ pc = "frames"
    /\ pc' = "main"
    /\ UNCHANGED <<count, i, frame>>
    /\ UNCHANGED ep2Vars /\ UNCHANGED ringVars /\ UNCHANGED dispVars

\* Less than a frame left: back to main_loop().
Drained ==
    /\ pc = "frames" /\ ~FrameStored
    /\ pc' = "main"
    /\ UNCHANGED <<count, i, frame>>
    /\ UNCHANGED ep2Vars /\ UNCHANGED ringVars /\ UNCHANGED dispVars

Firmware ==
    \/ TakePacket \/ HaltOnCount \/ CopyByte \/ Rearm
    \/ PopFrame \/ tm1638_set_leds \/ tm1638_set_segments \/ Drained

Next == HostSend \/ Firmware

Spec == Init /\ [][Next]_vars

\* The CPU always executes its next instruction; the host owes nothing.
FairSpec == Spec /\ WF_vars(Firmware)
-----------------------------------------------------------------------------
(* Properties.                                                             *)

\* The stream position up to which EP2 packets have been released.
Released == IF ep2 = <<>> THEN sent ELSE Head(ep2).first

\* Every variable has its type; in particular both ring indices stay inside
\* the array, which rb_push and rb_pop index without a test.
TypeOK ==
    /\ sent \in Nat /\ ep2 \in Seq(Packet) /\ armed \in Nat
    /\ rb \in Ring(Int) /\ stored \in Nat /\ popped \in Nat
    /\ pc \in {"main", "copy", "frames", "leds", "segs", "halt"}
    /\ count \in Nat /\ i \in Nat
    /\ frame \in [0 .. FRAME - 1 -> Int]
    /\ leds \in Int /\ segs \in [1 .. FRAME - 1 -> Int]

\* EP2 buffers are neither leaked nor armed twice: each is armed or holds a
\* packet (the EP2BCL writes of main_init and of check_control_outputs).
BuffersConserved == armed + Len(ep2) = EP2_BUFFERS

\* What ring_buffer.h says of rb_available: "Returns the number of bytes
\* currently stored".
AvailableIsStored == rb_available(rb) = stored - popped

\* No byte of the ring is overwritten before process_control_outputs pops
\* it: the next bytes to pop are the next bytes of the stream.
RingHoldsTheStream ==
    \A k \in 0 .. stored - popped - 1 :
        rb.buffer[(rb.tail + k) % RING_BUFFER_SIZE] = popped + k

\* Whenever main_loop() is outside check_control_outputs, or the firmware has
\* stopped on a bad byte count, the display shows the last frame of all the
\* packets released so far, LEDs and digits of one and the same frame.
DisplayCurrent ==
    pc \in {"main", "halt"} =>
        /\ leds = Released - FRAME
        /\ segs = DigitsAt(leds)

\* Each write of the display moves it to the very next frame of the stream:
\* no frame is skipped, repeated, reordered or mixed with another one.
FramesInOrder ==
    [][/\ leds' # leds => leds' = leds + FRAME /\ segs = DigitsAt(leds)
       /\ segs' # segs => segs' = DigitsAt(leds) /\ leds' = leds]_<<leds, segs>>

-----------------------------------------------------------------------------
(* The inductive invariant behind the properties.                          *)

\* The packets of EP2 are consecutive stretches that end where the host is.
PacketsContiguous ==
    \A j \in 1 .. Len(ep2) :
        /\ ep2[j].len \in PacketLens
        /\ ep2[j].first + ep2[j].len =
               IF j < Len(ep2) THEN ep2[j + 1].first ELSE sent
        /\ ep2[j].first + ep2[j].len <= sent

\* The cell that lies k cells after cell t.
Cell(t, k) == IF t + k < RING_BUFFER_SIZE THEN t + k ELSE t + k - RING_BUFFER_SIZE

\* The ring holds exactly the bytes popped .. stored - 1, and is not full.
RingInv ==
    /\ popped <= stored /\ stored - popped < RING_BUFFER_SIZE
    /\ rb.head = Cell(rb.tail, stored - popped)
    /\ \A k \in 0 .. stored - popped - 1 : rb.buffer[Cell(rb.tail, k)] = popped + k

\* The display shows the frame just before byte n.
Shown(n) == leds = n - FRAME /\ segs = DigitsAt(n - FRAME)

\* How far copying, popping and displaying have come at each place.
ProgressInv ==
    /\ pc \in {"main", "halt"} => popped = Released /\ stored = popped /\ Shown(popped)
    /\ pc = "copy" =>
         /\ ep2 # <<>> /\ count = Head(ep2).len /\ count % FRAME = 0 /\ i <= count
         /\ popped = Released /\ stored = popped + i /\ Shown(popped)
    /\ pc \in {"frames", "leds", "segs"} =>
         stored = Released /\ (stored - popped) % FRAME = 0
    /\ pc = "frames" => Shown(popped)
    /\ pc \in {"leds", "segs"} => frame = FrameAt(popped - FRAME)
    /\ pc = "leds" => Shown(popped - FRAME)
    /\ pc = "segs" => leds = popped - FRAME /\ segs = DigitsAt(popped - 2 * FRAME)

IInv == TypeOK /\ BuffersConserved /\ PacketsContiguous /\ RingInv /\ ProgressInv

-----------------------------------------------------------------------------
\* What the path promises to its user, in FrameDisplay.
Display == INSTANCE FrameDisplay
DisplaySpec == Display!Spec

\* And, unless a packet that is no whole number of frames stops it, it goes on
\* until the last frame is shown (device.c:316-331, 339-351).
DisplayFairSpec == DisplaySpec /\ ([]<>(pc # "halt") => Display!Goes)
=============================================================================
