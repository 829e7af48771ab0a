----------------------------- MODULE SerialProm -----------------------------
(***************************************************************************)
(* An EEPROM on the I2C bus, the device that eeprom_read and eeprom_write  *)
(* of fx2lib's i2c.c are written for.  It is a chip, not code: a record    *)
(* with the cells, the address counter, the bytes received since it was    *)
(* addressed for writing, whether it is being read, and whether it is busy *)
(* with a write cycle, in which it acknowledges nothing.                   *)
(***************************************************************************)
EXTENDS Integers, Sequences

CONSTANTS
    BYTE_VALUES, \* values of a byte (256)
    TWO_BYTE,    \* I2CS says that the device takes two address bytes
    CELLS,       \* size of the device
    Contents     \* the bytes that may be written to a cell

ASSUME SerialPromAssumption ==
    /\ BYTE_VALUES \in Nat \ {0, 1} /\ TWO_BYTE \in BOOLEAN
    /\ CELLS \in Nat \ {0}
    /\ CELLS <= IF TWO_BYTE THEN BYTE_VALUES * BYTE_VALUES ELSE BYTE_VALUES
    /\ Contents \subseteq 0 .. BYTE_VALUES - 1

Address == 0 .. CELLS - 1

\* What a master reads while nobody drives the bus.
Floating == BYTE_VALUES - 1

Prom == [mem : [Address -> Contents], ptr : Address, latch : Seq(0 .. BYTE_VALUES - 1),
         sending : BOOLEAN, busy : BOOLEAN]

\* MSB(addr), LSB(addr), or the low byte alone.
AddressBytes(a) ==
    IF TWO_BYTE THEN <<a \div BYTE_VALUES, a % BYTE_VALUES>> ELSE <<a % BYTE_VALUES>>

AddressLen == IF TWO_BYTE THEN 2 ELSE 1

Decode(b) == (IF TWO_BYTE THEN b[1] * BYTE_VALUES + b[2] ELSE b[1]) % CELLS

\* The device sees its address after a START, and acknowledges it.
Addressed(p, reading) == [p EXCEPT !.latch = <<>>, !.sending = reading]

\* It receives a byte: part of the address, or of what to write.
Receive(p, b) ==
    LET latch == Append(p.latch, b) IN
    [p EXCEPT !.latch = latch,
              !.ptr = IF Len(latch) = AddressLen THEN Decode(latch) ELSE p.ptr]

\* It sends the cell under the counter, and goes on to the next if the master
\* acknowledges; it lets go of the bus if not.
Sent(p) == IF p.sending THEN p.mem[p.ptr] ELSE Floating
Send(p, last) ==
    IF p.sending THEN [p EXCEPT !.ptr = (p.ptr + 1) % CELLS, !.sending = ~last] ELSE p

\* STOP: what was received after the address is written, and a write cycle
\* begins.  Nothing else moves the cells.
Stopped(p) ==
    IF Len(p.latch) > AddressLen
    THEN [p EXCEPT !.mem = [a \in Address |->
                              LET k == AddressLen + 1 + a - p.ptr IN
                              IF k \in AddressLen + 1 .. Len(p.latch)
                              THEN p.latch[k] ELSE p.mem[a]],
                   !.latch = <<>>, !.sending = FALSE, !.busy = TRUE]
    ELSE [p EXCEPT !.latch = <<>>, !.sending = FALSE]
=============================================================================
