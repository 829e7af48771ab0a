----------------------------- MODULE RingBuffer -----------------------------
(***************************************************************************)
(* hid_tm1638/ring_buffer.h: the byte ring between the EP2 packets of the  *)
(* USB host and the nine-byte frames of the display.  A ring is a record   *)
(* with the array and its two indices; the three inline functions are      *)
(* operators on it.  RING_BUFFER_SIZE is a power of two that an 8-bit      *)
(* index can hold, so the mask (RING_BUFFER_SIZE - 1) is a remainder and   *)
(* the (uint8_t) cast under it changes nothing.                            *)
(***************************************************************************)
EXTENDS Integers

CONSTANT RING_BUFFER_SIZE

ASSUME RingBufferSizeAssumption ==
    /\ RING_BUFFER_SIZE \in Nat \ {0}
    /\ 256 % RING_BUFFER_SIZE = 0

Index == 0 .. RING_BUFFER_SIZE - 1

\* The rings whose array holds members of Data.
Ring(Data) == [buffer : [Index -> Data], head : Index, tail : Index]

\* A static object in __xdata: indices zero, array filled with `zero'.
EmptyRing(zero) == [buffer |-> [k \in Index |-> zero], head |-> 0, tail |-> 0]

\* Mutant: the mask dropped, the (uint8_t) cast kept.
rb_available_unmasked(rb) == (rb.head - rb.tail) % 256

rb_available(rb) == (rb.head - rb.tail) % RING_BUFFER_SIZE

\* Mutant: the write index is not wrapped.
rb_push_unwrapped(rb, data) ==
    [buffer |-> [rb.buffer EXCEPT ![rb.head] = data],
     head   |-> rb.head + 1,
     tail   |-> rb.tail]

\* Mutant: the index is moved before the byte is written.
rb_push_ahead(rb, data) ==
    LET next == (rb.head + 1) % RING_BUFFER_SIZE IN
    [buffer |-> [rb.buffer EXCEPT ![next] = data], head |-> next, tail |-> rb.tail]

\* No test for a full ring: the write index may run into the read index.
rb_push(rb, data) ==
    [buffer |-> [rb.buffer EXCEPT ![rb.head] = data],
     head   |-> (rb.head + 1) % RING_BUFFER_SIZE,
     tail   |-> rb.tail]

\* Mutant: the index is moved before the byte is read.
rb_pop_data_ahead(rb, n) ==
    [k \in 0 .. n - 1 |-> rb.buffer[(rb.tail + k + 1) % RING_BUFFER_SIZE]]

\* n calls of rb_pop in a row: what they return ...
rb_pop_data(rb, n) ==
    [k \in 0 .. n - 1 |-> rb.buffer[(rb.tail + k) % RING_BUFFER_SIZE]]

\* ... and the ring they leave.
rb_pop(rb, n) == [rb EXCEPT !.tail = (rb.tail + n) % RING_BUFFER_SIZE]
=============================================================================
