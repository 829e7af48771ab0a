----------------------------- MODULE SlaveFifo -----------------------------
(***************************************************************************)
(* The way of a byte from fx2_led_test.c to the LEDs of the FPGA board:    *)
(* the EP2 OUT FIFO that main_init of fifo_slave sets up in AUTOOUT mode,  *)
(* the extractor (fx2_slave_fifo_if.vhd) at IFCLK, the dual-clock FIFO,    *)
(* and the capture process of blinky_top.vhd at 100 MHz.  Between two      *)
(* edges of IFCLK (48 MHz) there are two or three of the 100 MHz clock.    *)
(* Setup times within a clock period are not modelled.                     *)
(*                                                                         *)
(* A byte is named by its position in the host's stream; 0 is the byte of  *)
(* a register that was cleared.                                            *)
(***************************************************************************)
EXTENDS Naturals, Sequences, SequencesExt

CONSTANTS
    DEPTH,   \* lpm_numwords, 256
    DELAY,   \* stages that bring a pointer to the other clock
    MaxLen,  \* bound: bytes in a packet
    MaxSent, \* bound: bytes the host sends
    Resets   \* bound: resets after power-up

SlaveFifoAssumption ==
    /\ {DEPTH, DELAY} \subseteq Nat \ {0} /\ {MaxLen, MaxSent, Resets} \subseteq Nat

EP2_BUFFERS == 2

VARIABLES
    sent, ep2,          \* the host; packets in EP2, the oldest first
    tested, led,        \* main_loop: EP2's empty flag as read, IOA bit 1
    clear, resets,      \* w_master_clear
    edges,              \* of the 100 MHz clock since the last one of IFCLK
    mem, q,             \* the dual-clock FIFO: bytes and output,
    wptr, rptr,         \* bytes written and read since it was cleared,
    wsync, rsync,       \* and how the other clock sees that
    rdreq, r,           \* w_fifo_rdreq, r_data_register
    shown, dropped      \* latest byte in r; bytes that a reset destroyed

firmware == <<tested, led>>
bridge   == <<mem, q, wptr, rptr, wsync, rsync>>
capture  == <<rdreq, r, shown>>
vars == <<sent, ep2, firmware, clear, resets, edges, bridge, capture, dropped>>

None == [k \in 1 .. DELAY |-> 0]
Shift(pipe, v) == <<v>> \o Front(pipe)

\* main_init arms both buffers of EP2; the PLL has not locked yet.
Init ==
    /\ sent = 0 /\ ep2 = <<>> /\ tested = TRUE /\ led = 0
    /\ clear = TRUE /\ resets = 0 /\ edges = 0
    /\ mem = <<>> /\ q = 0 /\ wptr = 0 /\ rptr = 0 /\ wsync = None /\ rsync = None
    /\ rdreq = FALSE /\ r = 0 /\ shown = 0 /\ dropped = {}

-----------------------------------------------------------------------------
(* The host and the reset button.                                          *)

\* fx2_led_test sends one byte at a time, others may send more.
HostSend ==
    /\ Len(ep2) < EP2_BUFFERS
    /\ \E n \in 1 .. MaxLen :
         /\ sent + n <= MaxSent
         /\ ep2' = Append(ep2, [k \in 1 .. n |-> sent + k]) /\ sent' = sent + n
    /\ UNCHANGED <<firmware, clear, resets, edges, bridge, capture, dropped>>

\* Clears the FIFO at once, the capture process at its next edge.  What
\* becomes of q depends on how the FIFO is built.
PressReset ==
    /\ ~clear /\ resets < Resets
    /\ clear' = TRUE /\ resets' = resets + 1
    /\ q' \in {q, 0} /\ mem' = <<>> /\ wptr' = 0 /\ rptr' = 0 /\ wsync' = None /\ rsync' = None
    /\ dropped' = dropped \cup {mem[k] : k \in DOMAIN mem} \cup ({q} \ {0, shown})
    /\ UNCHANGED <<sent, ep2, firmware, edges, capture>>

ReleaseReset ==
    /\ clear
    /\ clear' = FALSE
    /\ UNCHANGED <<sent, ep2, firmware, resets, edges, bridge, capture, dropped>>

-----------------------------------------------------------------------------
(* The firmware's main loop: IOA bit 1 tells that EP2 is empty.            *)

TestFlags ==
    /\ tested' = (ep2 = <<>>)
    /\ UNCHANGED <<sent, ep2, led, clear, resets, edges, bridge, capture, dropped>>

Led ==
    /\ led' = IF tested THEN 1 ELSE 0
    /\ UNCHANGED <<sent, ep2, tested, clear, resets, edges, bridge, capture, dropped>>

-----------------------------------------------------------------------------
(* The FPGA.                                                               *)

\* The oldest packet without its first byte.
Taken == IF Len(Head(ep2)) = 1 THEN Tail(ep2) ELSE [ep2 EXCEPT ![1] = Tail(@)]

\* An edge of IFCLK.  SLRD and the write request are both FLAGA: EP2 gives a
\* byte up whether the FIFO can take it or not.
WrEdge ==
    /\ edges >= 2
    /\ edges' = 0
    /\ rsync' = Shift(rsync, rptr)
    /\ IF ep2 = <<>>
       THEN UNCHANGED <<ep2, mem, wptr, dropped>>
       ELSE LET byte == Head(Head(ep2))
                full == wptr - rsync[DELAY] >= DEPTH IN
            /\ ep2' = Taken
            /\ mem' = IF clear \/ full THEN mem ELSE Append(mem, byte)
            /\ wptr' = IF clear \/ full THEN wptr ELSE wptr + 1
            /\ dropped' = IF clear THEN dropped \cup {byte} ELSE dropped
    /\ UNCHANGED <<sent, firmware, clear, resets, q, rptr, wsync, capture>>

Rdreq(empty) == ~clear /\ ~empty

\* Mutant: only the last byte of a burst is taken over.
RegisterAtEnd(empty) == IF clear THEN 0 ELSE IF rdreq /\ empty THEN q ELSE r

Register(empty) == IF clear THEN 0 ELSE IF rdreq THEN q ELSE r

\* An edge of the 100 MHz clock.  The FIFO ignores a request while it is
\* empty.
RdEdge ==
    /\ edges < 3
    /\ edges' = edges + 1
    /\ wsync' = Shift(wsync, wptr)
    /\ LET empty == wsync[DELAY] = rptr
           read  == rdreq /\ ~empty IN
       /\ mem'  = IF read THEN Tail(mem) ELSE mem
       /\ q'    = IF read THEN Head(mem) ELSE q
       /\ rptr' = IF read THEN rptr + 1 ELSE rptr
       /\ rdreq' = Rdreq(empty)
       /\ r' = Register(empty)
    /\ shown' = IF r' > shown THEN r' ELSE shown
    /\ UNCHANGED <<sent, ep2, firmware, clear, resets, wptr, rsync, dropped>>

Next == HostSend \/ PressReset \/ ReleaseReset \/ TestFlags \/ Led \/ WrEdge \/ RdEdge

Spec == Init /\ [][Next]_vars

-----------------------------------------------------------------------------
(* Properties.                                                             *)

\* Every variable holds a value of its type, and the FIFO is never full,
\* though nothing in the design tests that it is not
\* (fx2_slave_fifo_if.vhd:28-30).
TypeOK ==
    /\ sent \in 0 .. MaxSent /\ Len(ep2) <= EP2_BUFFERS /\ edges \in 0 .. 3
    /\ \A k \in DOMAIN ep2 : ep2[k] # <<>>
    /\ {tested, clear, rdreq} \subseteq BOOLEAN /\ led \in {0, 1} /\ resets \in 0 .. Resets
    /\ Len(mem) = wptr - rptr /\ wptr - rsync[DELAY] < DEPTH /\ wsync[DELAY] >= rptr
    /\ {q, r, shown} \subseteq 0 .. MaxSent /\ dropped \subseteq 1 .. MaxSent

\* No byte is skipped or comes back, except by a reset, though the capture
\* process takes q over at the edge at which the FIFO is read
\* (blinky_top.vhd:125-133).
InOrder ==
    r' # r => /\ r' = 0 \/ r' >= shown
              /\ shown + 1 .. r' - 1 \subseteq dropped

\* The last byte has come to the LEDs unless a reset has destroyed it, and the
\* firmware's LED tells that EP2 is empty.
Settled == led = 1 /\ (shown = sent \/ sent \in dropped)
=============================================================================
