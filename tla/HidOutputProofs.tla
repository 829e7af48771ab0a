--------------------------- MODULE HidOutputProofs ---------------------------
(***************************************************************************)
(* Proofs about HidOutput, for every ring size, frame length, number of    *)
(* endpoint buffers and set of packet lengths that fits the ring.          *)
(***************************************************************************)
EXTENDS HidOutput, TLAPS

(***************************************************************************)
(* Remainders.  The ring's indices stay below RING_BUFFER_SIZE, so a mask  *)
(* subtracts the size at most once.                                        *)
(***************************************************************************)
LEMMA ModSmall == ASSUME NEW n \in Nat \ {0}, NEW a \in 0 .. n - 1
                  PROVE  a % n = a
  OBVIOUS

LEMMA ModOnce == ASSUME NEW n \in Nat \ {0}, NEW a \in n .. 2 * n - 1
                 PROVE  a % n = a - n
  OBVIOUS

LEMMA ModNegative == ASSUME NEW n \in Nat \ {0}, NEW a \in -n .. -1
                     PROVE  a % n = a + n
  OBVIOUS

LEMMA SizePositive == RING_BUFFER_SIZE \in Nat \ {0}
  BY RingBufferSizeAssumption

\* Taking one frame off a whole number of frames leaves a whole number.
LEMMA ModMinus == ASSUME NEW n \in Nat \ {0}, NEW a \in Nat, a >= n, a % n = 0
                  PROVE  (a - n) % n = 0
<1>1. PICK q \in Int : a = n * q
  <2>1. a \div n \in Int /\ a = n * (a \div n)
    OBVIOUS
  <2>2. QED
    BY <2>1
<1>2. ASSUME NEW m \in Int PROVE (n * m) % n = 0
  OBVIOUS
<1>3. PICK m \in Int : m = q - 1
  OBVIOUS
<1>4. a - n = n * m
  BY <1>1, <1>3
<1>5. QED
  BY <1>2, <1>4

\* The masked index of a cell k places further on.
LEMMA CellIsMod ==
  ASSUME NEW t \in Index, NEW k \in 0 .. RING_BUFFER_SIZE
  PROVE  (t + k) % RING_BUFFER_SIZE = Cell(t, k) /\ Cell(t, k) \in Index
<1>1. CASE t + k < RING_BUFFER_SIZE
  BY <1>1, ModSmall, SizePositive DEF Cell, Index
<1>2. CASE t + k >= RING_BUFFER_SIZE
  BY <1>2, ModOnce, SizePositive DEF Cell, Index
<1>3. QED
  BY <1>1, <1>2, SizePositive DEF Index

LEMMA CellStep ==
  ASSUME NEW t \in Index, NEW k \in 0 .. RING_BUFFER_SIZE, NEW m \in 0 .. RING_BUFFER_SIZE,
         k + m <= RING_BUFFER_SIZE
  PROVE  Cell(Cell(t, k), m) = Cell(t, k + m)
  BY SizePositive DEF Cell, Index

LEMMA CellInjective ==
  ASSUME NEW t \in Index, NEW j \in 0 .. RING_BUFFER_SIZE - 1,
         NEW k \in 0 .. RING_BUFFER_SIZE - 1, j # k
  PROVE  Cell(t, j) # Cell(t, k)
  BY SizePositive DEF Cell, Index

\* rb_available counts the stored bytes, as long as one cell is free.
LEMMA AvailableExact ==
  ASSUME TypeOK, RingInv
  PROVE  rb_available(rb) = stored - popped
<1> DEFINE a == stored - popped
<1>1. a \in 0 .. RING_BUFFER_SIZE - 1 /\ rb.tail \in Index /\ rb.head = Cell(rb.tail, a)
  BY SizePositive DEF TypeOK, RingInv, Ring
<1>2. CASE rb.tail + a < RING_BUFFER_SIZE
  <2>1. rb.head - rb.tail = a
    BY <1>1, <1>2 DEF Cell, Index
  <2>2. QED
    BY <1>1, <2>1, ModSmall, SizePositive DEF rb_available
<1>3. CASE rb.tail + a >= RING_BUFFER_SIZE
  <2>1. rb.head - rb.tail = a - RING_BUFFER_SIZE
    BY <1>1, <1>3, SizePositive DEF Cell, Index
  <2>2. rb.head - rb.tail \in -RING_BUFFER_SIZE .. -1
    BY <1>1, <2>1, SizePositive
  <2>3. QED
    BY <1>1, <2>1, <2>2, ModNegative, SizePositive DEF rb_available
<1>4. QED
  BY <1>1, <1>2, <1>3, SizePositive DEF Index

-----------------------------------------------------------------------------
LEMMA InitIInv == Init => IInv
<1> SUFFICES ASSUME Init PROVE IInv
  OBVIOUS
<1> USE HidOutputAssumption, SizePositive DEF Init
<1>1. TypeOK
  BY DEF TypeOK, Ring, EmptyRing, Index, Packet, FrameAt, DigitsAt
<1>2. BuffersConserved
  BY DEF BuffersConserved
<1>3. PacketsContiguous
  BY DEF PacketsContiguous
<1>4. RingInv
  BY DEF RingInv, EmptyRing, Cell
<1>5. ProgressInv
  BY DEF ProgressInv, Released, Shown, FrameAt, DigitsAt
<1>6. QED
  BY <1>1, <1>2, <1>3, <1>4, <1>5 DEF IInv

-----------------------------------------------------------------------------
(* Each action preserves the invariant.                                    *)

\* Steps that leave the ring alone keep what is said of it.
LEMMA RingUnchanged == RingInv /\ UNCHANGED ringVars => RingInv'
  BY DEF RingInv, ringVars, Cell

LEMMA StepHostSend == ASSUME IInv, HostSend PROVE IInv'
<1> USE HidOutputAssumption DEF HostSend, ringVars, dispVars
<1>. PICK len \in PacketLens : /\ sent' = sent + len
                              /\ ep2' = Append(ep2, [first |-> sent, len |-> len])
  OBVIOUS
<1>0. len \in Nat /\ ep2 \in Seq(Packet) /\ sent \in Nat /\ armed \in Nat
  BY DEF IInv, TypeOK
<1>a. ep2' \in Seq(Packet) /\ Len(ep2') = Len(ep2) + 1
  <2>1. [first |-> sent, len |-> len] \in Packet
    BY <1>0 DEF Packet
  <2>2. QED
    BY <1>0, <2>1
<1>1. TypeOK'
  BY <1>0, <1>a DEF IInv, TypeOK
<1>2. BuffersConserved'
  <2>1. armed + Len(ep2) = EP2_BUFFERS /\ Len(ep2) \in Nat
    BY <1>0 DEF IInv, BuffersConserved
  <2>2. armed' = armed - 1 /\ Len(ep2') = Len(ep2) + 1
    BY <1>a
  <2>3. armed' + Len(ep2') = EP2_BUFFERS
    BY <1>0, <2>1, <2>2 DEF HostSend
  <2>4. QED
    BY <2>3 DEF BuffersConserved
<1>3. PacketsContiguous'
  <2>1. /\ Len(ep2) \in Nat /\ sent' = sent + len
        /\ ep2'[Len(ep2) + 1] = [first |-> sent, len |-> len]
        /\ \A j \in 1 .. Len(ep2) : ep2'[j] = ep2[j] /\ ep2[j] \in Packet
    BY <1>0
  <2>2. ASSUME NEW j \in 1 .. Len(ep2')
        PROVE  /\ ep2'[j].len \in PacketLens
               /\ ep2'[j].first + ep2'[j].len =
                     IF j < Len(ep2') THEN ep2'[j + 1].first ELSE sent'
               /\ ep2'[j].first + ep2'[j].len <= sent'
    <3>1. CASE j = Len(ep2) + 1
      BY <1>0, <1>a, <2>1, <3>1
    <3>2. CASE j # Len(ep2) + 1
      <4>1. j \in 1 .. Len(ep2) /\ j < Len(ep2')
        BY <1>a, <2>1, <3>2
      <4>2. /\ ep2[j].len \in PacketLens
            /\ ep2[j].first + ep2[j].len =
                  IF j < Len(ep2) THEN ep2[j + 1].first ELSE sent
            /\ ep2[j].first + ep2[j].len <= sent
        BY <4>1 DEF IInv, PacketsContiguous
      <4>3. ep2'[j + 1].first = IF j < Len(ep2) THEN ep2[j + 1].first ELSE sent
        <5>1. CASE j < Len(ep2)
          BY <2>1, <4>1, <5>1
        <5>2. CASE j = Len(ep2)
          BY <2>1, <5>2
        <5>3. QED
          BY <2>1, <4>1, <5>1, <5>2
      <4>4. ep2'[j] = ep2[j] /\ ep2[j].first \in Nat /\ ep2[j].len \in Nat
        BY <2>1, <4>1 DEF Packet
      <4>5. ep2'[j].first + ep2'[j].len <= sent'
        BY <1>0, <2>1, <4>2, <4>4
      <4>6. QED
        BY <4>1, <4>2, <4>3, <4>4, <4>5
    <3>3. QED
      BY <3>1, <3>2
  <2>3. QED
    BY <2>2 DEF PacketsContiguous
<1>4. RingInv'
  BY RingUnchanged DEF IInv
<1>5. Released' = Released /\ (ep2 # <<>> => ep2' # <<>> /\ Head(ep2') = Head(ep2))
  BY <1>0 DEF Released
<1>6. ProgressInv'
  BY <1>5 DEF IInv, ProgressInv, Shown
<1>7. QED
  BY <1>1, <1>2, <1>3, <1>4, <1>6 DEF IInv

LEMMA StepTakePacket == ASSUME IInv, TakePacket PROVE IInv'
<1> USE DEF TakePacket, ep2Vars, ringVars, dispVars
<1>0. ep2 \in Seq(Packet) /\ Head(ep2) \in Packet
  BY DEF IInv, TypeOK
<1>1. TypeOK'
  BY <1>0 DEF IInv, TypeOK, Packet
<1>2. BuffersConserved'
  BY DEF IInv, BuffersConserved
<1>3. PacketsContiguous'
  BY DEF IInv, PacketsContiguous
<1>4. RingInv'
  BY RingUnchanged DEF IInv
<1>5. ProgressInv'
  BY <1>0 DEF IInv, TypeOK, ProgressInv, Shown, Released, Packet
<1>6. QED
  BY <1>1, <1>2, <1>3, <1>4, <1>5 DEF IInv

LEMMA StepHaltOnCount == ASSUME IInv, HaltOnCount PROVE IInv'
<1> USE DEF HaltOnCount, ep2Vars, ringVars, dispVars
<1>0. ep2 \in Seq(Packet) /\ Head(ep2) \in Packet
  BY DEF IInv, TypeOK
<1>1. TypeOK'
  BY <1>0 DEF IInv, TypeOK, Packet
<1>2. BuffersConserved'
  BY DEF IInv, BuffersConserved
<1>3. PacketsContiguous'
  BY DEF IInv, PacketsContiguous
<1>4. RingInv'
  BY RingUnchanged DEF IInv
<1>5. ProgressInv'
  BY DEF IInv, ProgressInv, Shown, Released
<1>6. QED
  BY <1>1, <1>2, <1>3, <1>4, <1>5 DEF IInv

\* The ring has room for the whole packet, so the cell that is written is
\* none of those still to be popped.
LEMMA StepCopyByte == ASSUME PacketsFitRing, IInv, CopyByte PROVE IInv'
<1> DEFINE a == stored - popped
<1> USE SizePositive
<1>0. /\ ep2 \in Seq(Packet) /\ ep2 # <<>> /\ Head(ep2) \in Packet
      /\ rb \in Ring(Int) /\ i \in Nat /\ count \in Nat
      /\ stored \in Nat /\ popped \in Nat
  BY DEF IInv, TypeOK, ProgressInv, CopyByte
<1>s. /\ i < count /\ pc = "copy" /\ i' = i + 1 /\ stored' = stored + 1
      /\ rb' = rb_push(rb, Head(ep2).first + i)
      /\ popped' = popped /\ pc' = pc /\ count' = count /\ frame' = frame
      /\ sent' = sent /\ ep2' = ep2 /\ armed' = armed /\ leds' = leds /\ segs' = segs
  BY DEF CopyByte, ep2Vars, dispVars
<1>a. /\ count = Head(ep2).len /\ count % FRAME = 0
      /\ popped = Head(ep2).first /\ stored = popped + i
  BY <1>0, <1>s DEF IInv, ProgressInv, Released
<1>b. a = i /\ i < count /\ count < RING_BUFFER_SIZE
  <2>1. Head(ep2).len \in PacketLens
    BY <1>0 DEF IInv, PacketsContiguous
  <2>2. count < RING_BUFFER_SIZE
    BY <1>a, <2>1 DEF PacketsFitRing
  <2>3. a = i
    BY <1>0, <1>a
  <2>4. QED
    BY <1>s, <2>2, <2>3
<1>c. /\ rb.tail \in Index /\ rb.head \in Index /\ rb.buffer \in [Index -> Int]
      /\ rb.head = Cell(rb.tail, a)
      /\ \A k \in 0 .. a - 1 : rb.buffer[Cell(rb.tail, k)] = popped + k
  BY <1>0 DEF IInv, RingInv, Ring
<1>d. /\ rb'.tail = rb.tail /\ rb'.head = (rb.head + 1) % RING_BUFFER_SIZE
      /\ rb'.buffer = [rb.buffer EXCEPT ![rb.head] = stored]
  BY <1>0, <1>a, <1>s DEF rb_push
<1>e. rb'.head = Cell(rb.head, 1) /\ rb'.head \in Index
  BY <1>c, <1>d, CellIsMod
<1>1. TypeOK'
  <2>1. rb' \in Ring(Int)
    <3>1. rb'.buffer \in [Index -> Int]
      BY <1>0, <1>c, <1>d
    <3>2. rb' = [buffer |-> rb'.buffer, head |-> rb'.head, tail |-> rb'.tail]
      BY <1>s DEF rb_push
    <3>3. QED
      BY <1>c, <1>d, <1>e, <3>1, <3>2 DEF Ring
  <2>2. QED
    BY <1>0, <1>s, <2>1 DEF IInv, TypeOK
<1>2. BuffersConserved'
  BY <1>s DEF IInv, BuffersConserved
<1>3. PacketsContiguous'
  BY <1>s DEF IInv, PacketsContiguous
<1>4. RingInv'
  <2>1. popped' <= stored' /\ stored' - popped' < RING_BUFFER_SIZE
    BY <1>0, <1>b, <1>s
  <2>2. rb'.head = Cell(rb'.tail, stored' - popped')
    <3>1. stored' - popped' = a + 1 /\ a \in 0 .. RING_BUFFER_SIZE - 2
      BY <1>0, <1>b, <1>s
    <3>2. Cell(rb.head, 1) = Cell(rb.tail, a + 1)
      BY <1>c, <3>1, CellStep
    <3>3. QED
      BY <1>d, <1>e, <3>1, <3>2
  <2>3. ASSUME NEW k \in 0 .. stored' - popped' - 1
        PROVE  rb'.buffer[Cell(rb'.tail, k)] = popped' + k
    <3>1. k \in 0 .. a /\ a < RING_BUFFER_SIZE
      BY <1>0, <1>b, <1>s
    <3>2. CASE k = a
      BY <3>2, <1>0, <1>c, <1>d, <1>s
    <3>3. CASE k # a
      <4>1. k \in 0 .. a - 1
        BY <1>0, <3>1, <3>3
      <4>2. Cell(rb.tail, k) # rb.head /\ Cell(rb.tail, k) \in Index
        <5>1. /\ k \in 0 .. RING_BUFFER_SIZE - 1 /\ a \in 0 .. RING_BUFFER_SIZE - 1
              /\ k \in 0 .. RING_BUFFER_SIZE
          BY <1>0, <3>1
        <5>2. QED
          BY <1>c, <3>3, <5>1, CellInjective, CellIsMod
      <4>3. QED
        BY <1>c, <1>d, <1>s, <4>1, <4>2
    <3>4. QED
      BY <3>2, <3>3
  <2>4. QED
    BY <2>1, <2>2, <2>3 DEF RingInv
<1>5. ProgressInv'
  <2>1. i' <= count' /\ stored' = popped' + i'
    BY <1>0, <1>b, <1>s
  <2>2. popped' = Released' /\ (Shown(popped))'
    BY <1>s DEF IInv, ProgressInv, Shown, Released
  <2>3. pc' = "copy" /\ ep2' # <<>> /\ count' = Head(ep2').len /\ count' % FRAME = 0
    BY <1>0, <1>a, <1>s
  <2>4. QED
    BY <2>1, <2>2, <2>3 DEF ProgressInv
<1>6. QED
  BY <1>1, <1>2, <1>3, <1>4, <1>5 DEF IInv

LEMMA StepRearm == ASSUME IInv, Rearm PROVE IInv'
<1>0. /\ ep2 \in Seq(Packet) /\ ep2 # <<>> /\ Head(ep2) \in Packet
      /\ count \in Nat /\ i \in Nat /\ popped \in Nat /\ stored \in Nat /\ armed \in Nat
      /\ sent \in Nat
  BY DEF IInv, TypeOK, ProgressInv, Rearm
<1>s. /\ pc = "copy" /\ i = count /\ ep2' = Tail(ep2) /\ armed' = armed + 1
      /\ pc' = "frames" /\ sent' = sent /\ count' = count /\ i' = i /\ frame' = frame
      /\ rb' = rb /\ stored' = stored /\ popped' = popped /\ leds' = leds /\ segs' = segs
  BY DEF Rearm, ringVars, dispVars
<1>a. /\ count = Head(ep2).len /\ count % FRAME = 0 /\ popped = Head(ep2).first
      /\ stored = popped + count /\ Shown(popped)
  BY <1>0, <1>s DEF IInv, ProgressInv, Released
<1>b. /\ ep2' \in Seq(Packet) /\ Len(ep2') = Len(ep2) - 1
      /\ \A j \in 1 .. Len(ep2') : ep2'[j] = ep2[j + 1]
  BY <1>0, <1>s
<1>1. TypeOK'
  BY <1>0, <1>s, <1>b DEF IInv, TypeOK
<1>2. BuffersConserved'
  BY <1>0, <1>s, <1>b DEF IInv, BuffersConserved
<1>3. PacketsContiguous'
  <2>1. Len(ep2) \in Nat
    BY <1>0
  <2>2. ASSUME NEW j \in 1 .. Len(ep2')
        PROVE  /\ ep2'[j].len \in PacketLens
               /\ ep2'[j].first + ep2'[j].len =
                     IF j < Len(ep2') THEN ep2'[j + 1].first ELSE sent'
               /\ ep2'[j].first + ep2'[j].len <= sent'
    <3>1. /\ j + 1 \in 1 .. Len(ep2)
          /\ j < Len(ep2') <=> j + 1 < Len(ep2)
          /\ j < Len(ep2') => ep2'[j + 1] = ep2[j + 2]
      BY <1>b, <2>1, <2>2
    <3>2. /\ ep2[j + 1].len \in PacketLens
          /\ ep2[j + 1].first + ep2[j + 1].len =
                IF j + 1 < Len(ep2) THEN ep2[j + 2].first ELSE sent
          /\ ep2[j + 1].first + ep2[j + 1].len <= sent
      BY <2>1, <3>1 DEF IInv, PacketsContiguous
    <3>3. QED
      BY <1>s, <1>b, <3>1, <3>2
  <2>3. QED
    BY <2>2 DEF PacketsContiguous
<1>4. RingInv'
  BY <1>s DEF IInv, RingInv, Cell
<1>5. Released' = stored
  <2>1. /\ Head(ep2) = ep2[1] /\ Len(ep2) \in Nat /\ 1 \in 1 .. Len(ep2)
    BY <1>0
  <2>2. stored = IF 1 < Len(ep2) THEN ep2[2].first ELSE sent
    BY <1>0, <1>a, <2>1 DEF IInv, PacketsContiguous
  <2>3. CASE Len(ep2) = 1
    BY <1>b, <1>s, <2>2, <2>3 DEF Released
  <2>4. CASE Len(ep2) > 1
    <3>1. ep2' # <<>> /\ Head(ep2') = ep2'[1] /\ 1 \in 1 .. Len(ep2')
      BY <1>b, <2>1, <2>4
    <3>2. ep2'[1] = ep2[2]
      BY <1>b, <3>1
    <3>3. Released' = ep2[2].first
      BY <3>1, <3>2 DEF Released
    <3>4. QED
      BY <2>1, <2>2, <2>4, <3>3
  <2>5. QED
    BY <2>1, <2>3, <2>4
<1>6. ProgressInv'
  <2>1. (stored' - popped') % FRAME = 0
    <3>1. stored' - popped' = count
      BY <1>0, <1>a, <1>s
    <3>2. QED
      BY <1>a, <3>1
  <2>2. (Shown(popped))'
    BY <1>a, <1>s DEF Shown
  <2>3. QED
    BY <1>s, <1>5, <2>1, <2>2 DEF ProgressInv
<1>7. QED
  BY <1>1, <1>2, <1>3, <1>4, <1>6 DEF IInv

\* The FRAME calls of rb_pop return the next FRAME bytes of the stream.
LEMMA StepPopFrame == ASSUME IInv, PopFrame PROVE IInv'
<1> USE SizePositive
<1> DEFINE a == stored - popped
<1>0. /\ rb \in Ring(Int) /\ popped \in Nat /\ stored \in Nat /\ FRAME \in Nat \ {0}
      /\ rb.tail \in Index /\ rb.buffer \in [Index -> Int] /\ rb.head \in Index
  BY HidOutputAssumption DEF IInv, TypeOK, Ring
<1>s. /\ pc = "frames" /\ rb_available(rb) >= FRAME
      /\ frame' = rb_pop_data(rb, FRAME) /\ rb' = rb_pop(rb, FRAME)
      /\ popped' = popped + FRAME /\ pc' = "leds" /\ stored' = stored
      /\ count' = count /\ i' = i /\ sent' = sent /\ ep2' = ep2 /\ armed' = armed
      /\ leds' = leds /\ segs' = segs
  BY DEF PopFrame, FrameStored, ep2Vars, dispVars
<1>a. /\ a \in FRAME .. RING_BUFFER_SIZE - 1
      /\ rb.head = Cell(rb.tail, a)
      /\ \A k \in 0 .. a - 1 : rb.buffer[Cell(rb.tail, k)] = popped + k
  BY <1>0, <1>s, AvailableExact DEF IInv, RingInv
<1>b. /\ rb'.tail = Cell(rb.tail, FRAME) /\ rb'.tail \in Index
      /\ rb'.head = rb.head /\ rb'.buffer = rb.buffer /\ rb' \in Ring(Int)
  <2>1. rb'.tail = (rb.tail + FRAME) % RING_BUFFER_SIZE
    BY <1>0, <1>s DEF rb_pop, Ring
  <2>2. FRAME \in 0 .. RING_BUFFER_SIZE
    BY <1>0, <1>a
  <2>3. rb'.tail = Cell(rb.tail, FRAME) /\ rb'.tail \in Index
    BY <1>0, <2>1, <2>2, CellIsMod
  <2>4. QED
    BY <1>0, <1>s, <2>3 DEF rb_pop, Ring
<1>c. frame' = FrameAt(popped)
  <2>1. ASSUME NEW k \in 0 .. FRAME - 1
        PROVE  rb.buffer[(rb.tail + k) % RING_BUFFER_SIZE] = popped + k
    <3>1. k \in 0 .. RING_BUFFER_SIZE /\ k \in 0 .. a - 1
      BY <1>0, <1>a
    <3>2. QED
      BY <1>0, <1>a, <3>1, CellIsMod
  <2>2. QED
    BY <1>s, <2>1 DEF rb_pop_data, FrameAt
<1>1. TypeOK'
  <2>1. FrameAt(popped) \in [0 .. FRAME - 1 -> Int]
    BY <1>0 DEF FrameAt
  <2>2. QED
    BY <1>0, <1>s, <1>b, <1>c, <2>1 DEF IInv, TypeOK
<1>2. BuffersConserved'
  BY <1>s DEF IInv, BuffersConserved
<1>3. PacketsContiguous'
  BY <1>s DEF IInv, PacketsContiguous
<1>4. RingInv'
  <2>1. stored' - popped' = a - FRAME /\ a - FRAME \in 0 .. RING_BUFFER_SIZE - 1
    BY <1>0, <1>a, <1>s
  <2>2. popped' <= stored' /\ stored' - popped' < RING_BUFFER_SIZE
    BY <1>0, <1>a, <1>s
  <2>3. rb'.head = Cell(rb'.tail, stored' - popped')
    <3>1. Cell(Cell(rb.tail, FRAME), a - FRAME) = Cell(rb.tail, FRAME + (a - FRAME))
      <4>1. /\ FRAME \in 0 .. RING_BUFFER_SIZE /\ a - FRAME \in 0 .. RING_BUFFER_SIZE
            /\ FRAME + (a - FRAME) <= RING_BUFFER_SIZE
        BY <1>0, <1>a, <2>1
      <4>2. QED
        BY <1>0, <4>1, CellStep
    <3>2. FRAME + (a - FRAME) = a
      BY <1>0, <1>a
    <3>3. QED
      BY <1>a, <1>b, <2>1, <3>1, <3>2
  <2>4. ASSUME NEW k \in 0 .. stored' - popped' - 1
        PROVE  rb'.buffer[Cell(rb'.tail, k)] = popped' + k
    <3>1. /\ k \in 0 .. RING_BUFFER_SIZE /\ FRAME \in 0 .. RING_BUFFER_SIZE
          /\ FRAME + k <= RING_BUFFER_SIZE /\ FRAME + k \in 0 .. a - 1
      BY <1>0, <1>a, <2>1
    <3>2. Cell(Cell(rb.tail, FRAME), k) = Cell(rb.tail, FRAME + k)
      BY <1>0, <3>1, CellStep
    <3>3. rb.buffer[Cell(rb.tail, FRAME + k)] = popped + (FRAME + k)
      BY <1>a, <3>1
    <3>4. popped + (FRAME + k) = popped' + k
      BY <1>0, <1>s, <3>1
    <3>5. QED
      BY <1>b, <3>2, <3>3, <3>4
  <2>5. QED
    BY <2>2, <2>3, <2>4 DEF RingInv
<1>5. ProgressInv'
  <2>1. stored = Released /\ a % FRAME = 0 /\ Shown(popped)
    BY <1>s DEF IInv, ProgressInv
  <2>2. (stored' - popped') % FRAME = 0
    <3>1. a \in Nat /\ a >= FRAME /\ stored' - popped' = a - FRAME
      BY <1>0, <1>a, <1>s
    <3>2. QED
      BY <1>0, <2>1, <3>1, ModMinus
  <2>3. popped' - FRAME = popped
    BY <1>0, <1>s
  <2>4. frame' = FrameAt(popped' - FRAME) /\ (Shown(popped - FRAME))'
    BY <1>c, <1>s, <2>1, <2>3 DEF Shown
  <2>5. stored' = Released'
    BY <1>s, <2>1 DEF Released
  <2>6. QED
    BY <1>s, <2>2, <2>4, <2>5 DEF ProgressInv
<1>6. QED
  BY <1>1, <1>2, <1>3, <1>4, <1>5 DEF IInv

LEMMA StepSetLeds == ASSUME IInv, tm1638_set_leds PROVE IInv'
<1>0. /\ popped \in Nat /\ FRAME \in Nat \ {0} /\ leds \in Int
  BY HidOutputAssumption DEF IInv, TypeOK
<1>s. /\ pc = "leds" /\ pc' = "segs" /\ leds' = frame[0] /\ segs' = segs
      /\ rb' = rb /\ stored' = stored /\ popped' = popped /\ frame' = frame
      /\ count' = count /\ i' = i /\ sent' = sent /\ ep2' = ep2 /\ armed' = armed
  BY DEF tm1638_set_leds, ep2Vars, ringVars
<1>a. /\ frame = FrameAt(popped - FRAME) /\ Shown(popped - FRAME)
      /\ stored = Released /\ (stored - popped) % FRAME = 0
  BY <1>s DEF IInv, ProgressInv
<1>b. leds' = popped - FRAME
  BY <1>0, <1>s, <1>a DEF FrameAt
<1>1. TypeOK'
  BY <1>0, <1>s, <1>b DEF IInv, TypeOK
<1>2. BuffersConserved'
  BY <1>s DEF IInv, BuffersConserved
<1>3. PacketsContiguous'
  BY <1>s DEF IInv, PacketsContiguous
<1>4. RingInv'
  BY <1>s, RingUnchanged DEF IInv, ringVars
<1>5. ProgressInv'
  <2>1. segs = DigitsAt(popped - 2 * FRAME)
    <3>1. popped - FRAME - FRAME = popped - 2 * FRAME
      BY <1>0
    <3>2. QED
      BY <1>a, <3>1 DEF Shown
  <2>2. Released' = Released
    BY <1>s DEF Released
  <2>3. QED
    BY <1>s, <1>a, <1>b, <2>1, <2>2 DEF ProgressInv
<1>6. QED
  BY <1>1, <1>2, <1>3, <1>4, <1>5 DEF IInv

LEMMA StepSetSegments == ASSUME IInv, tm1638_set_segments PROVE IInv'
<1>0. /\ popped \in Nat /\ FRAME \in Nat \ {0} /\ leds \in Int
  BY HidOutputAssumption DEF IInv, TypeOK
<1>s. /\ pc = "segs" /\ pc' = "frames" /\ leds' = leds
      /\ segs' = [k \in 1 .. FRAME - 1 |-> frame[k]]
      /\ rb' = rb /\ stored' = stored /\ popped' = popped /\ frame' = frame
      /\ count' = count /\ i' = i /\ sent' = sent /\ ep2' = ep2 /\ armed' = armed
  BY DEF tm1638_set_segments, ep2Vars, ringVars
<1>a. /\ frame = FrameAt(popped - FRAME) /\ leds = popped - FRAME
      /\ stored = Released /\ (stored - popped) % FRAME = 0
  BY <1>s DEF IInv, ProgressInv
<1>b. segs' = DigitsAt(popped - FRAME)
  BY <1>0, <1>s, <1>a DEF FrameAt, DigitsAt
<1>c. segs' \in [1 .. FRAME - 1 -> Int]
  BY <1>0, <1>b DEF DigitsAt
<1>1. TypeOK'
  BY <1>0, <1>s, <1>c DEF IInv, TypeOK
<1>2. BuffersConserved'
  BY <1>s DEF IInv, BuffersConserved
<1>3. PacketsContiguous'
  BY <1>s DEF IInv, PacketsContiguous
<1>4. RingInv'
  BY <1>s, RingUnchanged DEF IInv, ringVars
<1>5. ProgressInv'
  <2>1. Released' = Released
    BY <1>s DEF Released
  <2>2. (Shown(popped))'
    BY <1>s, <1>a, <1>b DEF Shown
  <2>3. QED
    BY <1>s, <1>a, <2>1, <2>2 DEF ProgressInv
<1>6. QED
  BY <1>1, <1>2, <1>3, <1>4, <1>5 DEF IInv

\* Fewer bytes than a frame, and whole frames only: the ring is empty.
LEMMA StepDrained == ASSUME IInv, Drained PROVE IInv'
<1>0. /\ popped \in Nat /\ stored \in Nat /\ FRAME \in Nat \ {0} /\ popped <= stored
  BY HidOutputAssumption DEF IInv, TypeOK, RingInv
<1>s. /\ pc = "frames" /\ pc' = "main" /\ ~(rb_available(rb) >= FRAME)
      /\ rb' = rb /\ stored' = stored /\ popped' = popped /\ frame' = frame
      /\ count' = count /\ i' = i /\ sent' = sent /\ ep2' = ep2 /\ armed' = armed
      /\ leds' = leds /\ segs' = segs
  BY DEF Drained, FrameStored, ep2Vars, ringVars, dispVars
<1>a. stored = Released /\ (stored - popped) % FRAME = 0 /\ Shown(popped)
  BY <1>s DEF IInv, ProgressInv
<1>b. stored = popped
  <2>1. rb_available(rb) = stored - popped
    BY AvailableExact DEF IInv
  <2>2. stored - popped \in 0 .. FRAME - 1
    BY <1>0, <1>s, <2>1
  <2>3. (stored - popped) % FRAME = stored - popped
    BY <1>0, <2>2, ModSmall
  <2>4. stored - popped = 0
    BY <1>a, <2>3
  <2>5. QED
    BY <1>0, <2>4
<1>1. TypeOK'
  BY <1>s DEF IInv, TypeOK
<1>2. BuffersConserved'
  BY <1>s DEF IInv, BuffersConserved
<1>3. PacketsContiguous'
  BY <1>s DEF IInv, PacketsContiguous
<1>4. RingInv'
  BY <1>s, RingUnchanged DEF IInv, ringVars
<1>5. ProgressInv'
  BY <1>s, <1>a, <1>b DEF ProgressInv, Shown, Released
<1>6. QED
  BY <1>1, <1>2, <1>3, <1>4, <1>5 DEF IInv

LEMMA StepStutter == ASSUME IInv, UNCHANGED vars PROVE IInv'
<1> USE DEF vars
<1>1. TypeOK'
  BY DEF IInv, TypeOK
<1>2. BuffersConserved'
  BY DEF IInv, BuffersConserved
<1>3. PacketsContiguous'
  BY DEF IInv, PacketsContiguous
<1>4. RingInv'
  BY RingUnchanged DEF IInv, ringVars
<1>5. ProgressInv'
  BY DEF IInv, ProgressInv, Shown, Released
<1>6. QED
  BY <1>1, <1>2, <1>3, <1>4, <1>5 DEF IInv

LEMMA StepNext == ASSUME PacketsFitRing, IInv, [Next]_vars PROVE IInv'
<1>1. CASE HostSend
  BY <1>1, StepHostSend
<1>2. CASE TakePacket
  BY <1>2, StepTakePacket
<1>3. CASE HaltOnCount
  BY <1>3, StepHaltOnCount
<1>4. CASE CopyByte
  BY <1>4, StepCopyByte
<1>5. CASE Rearm
  BY <1>5, StepRearm
<1>6. CASE PopFrame
  BY <1>6, StepPopFrame
<1>7. CASE tm1638_set_leds
  BY <1>7, StepSetLeds
<1>8. CASE tm1638_set_segments
  BY <1>8, StepSetSegments
<1>9. CASE Drained
  BY <1>9, StepDrained
<1>10. CASE UNCHANGED vars
  BY <1>10, StepStutter
<1>11. QED
  BY <1>1, <1>2, <1>3, <1>4, <1>5, <1>6, <1>7, <1>8, <1>9, <1>10
  DEF Next, Firmware


\* Nothing is popped before the host has sent it.
LEMMA PoppedBelowSent == ASSUME IInv PROVE popped <= sent
<1>0. /\ popped \in Nat /\ sent \in Nat /\ ep2 \in Seq(Packet) /\ stored \in Nat
      /\ popped <= stored
  BY DEF IInv, TypeOK, RingInv
<1>1. Released <= sent
  <2>1. CASE ep2 = <<>>
    BY <1>0, <2>1 DEF Released
  <2>2. CASE ep2 # <<>>
    <3>1. 1 \in 1 .. Len(ep2) /\ Head(ep2) = ep2[1] /\ ep2[1] \in Packet
      BY <1>0, <2>2
    <3>2. ep2[1].first + ep2[1].len <= sent
      BY <3>1 DEF IInv, PacketsContiguous
    <3>3. QED
      BY <1>0, <2>2, <3>1, <3>2 DEF Released, Packet
  <2>3. QED
    BY <2>1, <2>2
<1>2. popped <= Released
  <2>1. pc \in {"main", "copy", "frames", "leds", "segs", "halt"}
    BY DEF IInv, TypeOK
  <2>2. popped = Released \/ stored = Released
    BY <2>1 DEF IInv, ProgressInv
  <2>3. QED
    BY <1>0, <2>2
<1>3. Released \in Int
  <2>1. ep2 # <<>> => Head(ep2) \in Packet
    BY <1>0
  <2>2. QED
    BY <1>0, <2>1 DEF Released, Packet
<1>4. QED
  BY <1>0, <1>1, <1>2, <1>3

\* What the two display actions do, in terms of the frame already shown.
LEMMA LedsMoveOn ==
  ASSUME IInv, tm1638_set_leds
  PROVE  /\ leds' = leds + FRAME /\ segs' = segs /\ segs = DigitsAt(leds)
         /\ leds + 2 * FRAME <= sent /\ sent' = sent
<1>1. popped \in Nat /\ FRAME \in Nat \ {0} /\ leds \in Int /\ sent \in Nat
  BY HidOutputAssumption DEF IInv, TypeOK
<1>2. /\ frame = FrameAt(popped - FRAME) /\ leds = popped - FRAME - FRAME
      /\ segs = DigitsAt(leds)
  BY DEF IInv, ProgressInv, tm1638_set_leds, Shown
<1>3. frame[0] = popped - FRAME
  BY <1>1, <1>2 DEF FrameAt
<1>4. popped <= sent
  BY PoppedBelowSent
<1>5. leds' = frame[0] /\ segs' = segs /\ sent' = sent
  BY DEF tm1638_set_leds, ep2Vars
<1>6. leds + 2 * FRAME = popped /\ leds' = leds + FRAME
  BY <1>1, <1>2, <1>3, <1>5
<1>7. QED
  BY <1>2, <1>4, <1>5, <1>6

LEMMA DigitsFollow ==
  ASSUME IInv, tm1638_set_segments
  PROVE  segs' = DigitsAt(leds) /\ leds' = leds /\ sent' = sent
<1>1. popped \in Nat /\ FRAME \in Nat \ {0}
  BY HidOutputAssumption DEF IInv, TypeOK
<1>2. frame = FrameAt(popped - FRAME) /\ leds = popped - FRAME
  BY DEF IInv, ProgressInv, tm1638_set_segments
<1>3. [k \in 1 .. FRAME - 1 |-> frame[k]] = DigitsAt(leds)
  BY <1>1, <1>2 DEF FrameAt, DigitsAt
<1>4. QED
  BY <1>2, <1>3 DEF tm1638_set_segments, ep2Vars

-----------------------------------------------------------------------------
(* The theorems.                                                           *)

\* The inductive invariant: packets, ring, frame and display agree about how
\* far the host's stream has come, at every instruction modelled.
THEOREM Invariance == ASSUME PacketsFitRing PROVE Spec => []IInv
<1>1. IInv /\ [Next]_vars => IInv'
  BY PacketsFitRing, StepNext
<1>2. QED
  BY InitIInv, <1>1, PTL DEF Spec

\* Every variable keeps its type, the ring's indices stay inside its array.
THEOREM TypeCorrect == ASSUME PacketsFitRing PROVE Spec => []TypeOK
<1>1. IInv => TypeOK
  BY DEF IInv
<1>2. QED
  BY Invariance, PacketsFitRing, <1>1, PTL

\* No EP2 buffer is leaked or armed twice.
THEOREM Conservation == ASSUME PacketsFitRing PROVE Spec => []BuffersConserved
<1>1. IInv => BuffersConserved
  BY DEF IInv
<1>2. QED
  BY Invariance, PacketsFitRing, <1>1, PTL

\* rb_available is the number of bytes stored, as its comment says.
THEOREM Available == ASSUME PacketsFitRing PROVE Spec => []AvailableIsStored
<1>1. IInv => AvailableIsStored
  BY AvailableExact DEF IInv, AvailableIsStored
<1>2. QED
  BY Invariance, PacketsFitRing, <1>1, PTL

\* rb_push, which has no test for a full ring, overwrites no byte that is
\* still to be popped.
THEOREM NoOverwrite == ASSUME PacketsFitRing PROVE Spec => []RingHoldsTheStream
<1>1. IInv => RingHoldsTheStream
  <2> SUFFICES ASSUME IInv, NEW k \in 0 .. stored - popped - 1
               PROVE  rb.buffer[(rb.tail + k) % RING_BUFFER_SIZE] = popped + k
    BY DEF RingHoldsTheStream
  <2>1. /\ rb.tail \in Index /\ k \in 0 .. RING_BUFFER_SIZE
        /\ rb.buffer[Cell(rb.tail, k)] = popped + k
    BY SizePositive DEF IInv, TypeOK, RingInv, Ring
  <2>2. QED
    BY <2>1, CellIsMod
<1>2. QED
  BY Invariance, PacketsFitRing, <1>1, PTL

\* The display is up to date whenever main_loop() is between two packets.
THEOREM Current == ASSUME PacketsFitRing PROVE Spec => []DisplayCurrent
<1>1. IInv => DisplayCurrent
  BY DEF IInv, ProgressInv, DisplayCurrent, Shown
<1>2. QED
  BY Invariance, PacketsFitRing, <1>1, PTL

\* The display never skips, repeats, reorders or mixes frames.
THEOREM InOrder == ASSUME PacketsFitRing PROVE Spec => FramesInOrder
<1> DEFINE Move == /\ leds' # leds => leds' = leds + FRAME /\ segs = DigitsAt(leds)
                   /\ segs' # segs => segs' = DigitsAt(leds) /\ leds' = leds
<1>1. ASSUME IInv, [Next]_vars PROVE [Move]_<<leds, segs>>
  <2>1. CASE tm1638_set_leds
    BY <1>1, <2>1, LedsMoveOn
  <2>2. CASE tm1638_set_segments
    BY <1>1, <2>2, DigitsFollow
  <2>3. CASE UNCHANGED <<leds, segs>>
    BY <2>3
  <2>4. QED
    BY <1>1, <2>1, <2>2, <2>3
    DEF Next, Firmware, HostSend, TakePacket, HaltOnCount, CopyByte, Rearm, PopFrame,
        Drained, dispVars, vars
<1>2. QED
  BY Invariance, PacketsFitRing, <1>1, PTL DEF Spec, FramesInOrder

\* The firmware implements the frame display that FrameDisplay describes.
THEOREM Implements == ASSUME PacketsFitRing PROVE Spec => DisplaySpec
<1> USE DEF Display!DisplayNext
<1>1. Init => Display!DisplayInit
  <2>1. FRAME \in Nat \ {0}
    BY HidOutputAssumption
  <2>2. DigitsAt(-FRAME) = [k \in 1 .. FRAME - 1 |-> k - FRAME]
    BY <2>1 DEF DigitsAt
  <2>3. QED
    BY <2>2 DEF Init, Display!DisplayInit
<1>2. ASSUME IInv, [Next]_vars
      PROVE  [Display!DisplayNext]_<<sent, leds, segs>>
  <2>1. CASE HostSend
    <3>1. PICK len \in PacketLens : sent' = sent + len
      BY <2>1 DEF HostSend
    <3>2. sent \in Nat /\ len \in Nat
      BY <1>2, HidOutputAssumption DEF IInv, TypeOK
    <3>3. UNCHANGED <<leds, segs>>
      BY <2>1 DEF HostSend, dispVars
    <3>4. CASE len = 0
      BY <3>1, <3>2, <3>3, <3>4
    <3>5. CASE len # 0
      <4>1. sent' \in Nat /\ sent' > sent
        BY <3>1, <3>2, <3>5
      <4>2. QED
        BY <3>3, <4>1 DEF Display!Submit
    <3>6. QED
      BY <3>4, <3>5
  <2>2. CASE tm1638_set_leds
    BY <1>2, <2>2, LedsMoveOn DEF Display!LightNext, Display!Whole, DigitsAt
  <2>3. CASE tm1638_set_segments
    BY <1>2, <2>3, DigitsFollow DEF Display!ShowDigits, Display!Whole, DigitsAt
  <2>4. CASE UNCHANGED <<sent, leds, segs>>
    BY <2>4
  <2>5. QED
    BY <1>2, <2>1, <2>2, <2>3, <2>4
    DEF Next, Firmware, TakePacket, HaltOnCount, CopyByte, Rearm, PopFrame, Drained,
        ep2Vars, dispVars, vars
<1>3. QED
  BY Invariance, PacketsFitRing, <1>1, <1>2, PTL DEF Spec, DisplaySpec, Display!Spec
=============================================================================
