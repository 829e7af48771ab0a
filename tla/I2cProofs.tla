----------------------------- MODULE I2cProofs -----------------------------
(***************************************************************************)
(* Proofs about I2c, for every device and every length of buffer: the      *)
(* types, that eeprom_write writes what it should, why calls fail, and     *)
(* what eeprom_read returns.                                               *)
(*                                                                         *)
(* WrittenInOrder is not inductive: what STOP writes depends on the bytes  *)
(* the device has latched, those on the message, and this on the call.     *)
(* CallInv says what the message is, WireInv what the controller can be    *)
(* working on at each place, LatchInv how much of the message the device   *)
(* has received, also behind bus errors, refused bytes and a cancel, and   *)
(* MemInv what is in the cells at each place.                              *)
(***************************************************************************)
EXTENDS I2c, TLAPS

\* Inside i2c_write, and inside i2c_read.
InWrite == pc \in {"i2c_write", "write_start", "write_started", "write_addr",
                   "write_nak", "write_delay", "write_byte", "write_stop"}
InRead == pc \in {"i2c_read", "read_start", "read_started", "read_addr", "read_byte",
                  "read_stop"}

\* What i2c_write is given when n bytes of call c have been begun.
MessageOf(c, n) ==
    IF c.op = "write" THEN Append(AddressBytes(c.addr + n - 1), c.data[n])
    ELSE AddressBytes(c.addr)

\* The cells o with the first n bytes of call c written.
Cells(c, o, n) ==
    [a \in Address |-> IF a - c.addr \in 0 .. n - 1 THEN c.data[a - c.addr + 1] ELSE o[a]]

\* The call, the message and the place belong together.
CallInv ==
    /\ call.addr + call.len <= CELLS /\ cur <= call.len
    /\ pc # "idle" => result = "none"
    /\ pc = "next" => call.op = "write"
    /\ InRead => call.op = "read"
    /\ InWrite => message = MessageOf(call, cur)
    /\ call.op = "write" /\ (InWrite \/ pc = "stop_fail") => cur > 0

\* What the controller may be working on at each place.
WireInv ==
    /\ pc = "write_addr" => wire \in {"none", "addr_write"}
    /\ pc \in {"write_started", "write_addr"} => cur_byte = 0
    /\ pc = "write_byte" => wire \in {"none", "send"} /\ cur_byte \in 1 .. Len(message)
    /\ pc \in {"write_stop", "stop_fail", "write_nak", "read_stop"} =>
         wire \in {"none", "stop"}
    /\ pc \in {"write_started", "read_started"} => wire \in {"none", "start"}
    /\ pc = "read_addr" => wire \in {"none", "addr_read"}
    /\ pc = "read_byte" => wire \in {"none", "receive"}
    /\ wire = "stop" =>
         pc \in {"write_stop", "stop_fail", "write_nak", "read_stop", "idle"}

\* What the device has received: all of the message so far, but for a byte that
\* was refused or cut off; nothing, if it is being read.
LatchInv ==
    /\ prom.latch # <<>> \/ wire = "send" => present /\ ~prom.busy /\ ~prom.sending
    /\ Len(prom.latch) >= AddressLen => prom.ptr = Decode(prom.latch)
    /\ pc \in {"write_addr", "read_addr"} /\ wire = "none" /\ ~berr =>
         /\ prom.latch = <<>>
         /\ ack => present /\ ~prom.busy /\ (prom.sending <=> pc = "read_addr")
    /\ pc = "write_byte" /\ wire = "send" =>
         /\ prom.latch = SubSeq(message, 1, cur_byte - 1)
         /\ i2dat = message[cur_byte]
    /\ pc = "write_byte" /\ wire = "none" =>
         prom.latch = SubSeq(message, 1, IF ~berr /\ ack THEN cur_byte ELSE cur_byte - 1)
    /\ pc \in {"read_byte", "read_stop"} => prom.latch = <<>>
    /\ pc = "write_stop" /\ wire = "stop" => prom.latch = message
    /\ pc \in {"stop_fail", "write_nak"} /\ wire = "stop" => Len(prom.latch) <= AddressLen
    /\ pc = "idle" /\ wire = "stop" =>
         \/ Len(prom.latch) <= AddressLen
         \/ call.op = "write" /\ cur > 0 /\ prom.latch = MessageOf(call, cur)

\* Places before and behind the STOP that writes the byte.
Before == InWrite \/ pc = "stop_fail" \/ (pc = "idle" /\ wire = "stop")
Stored == pc = "next" \/ (pc = "write_stop" /\ wire = "none") \/ result = "true"

\* What is in the cells.
MemInv ==
    IF call.op = "write"
    THEN /\ Stored => prom.mem = Cells(call, old, cur)
         /\ Before /\ ~Stored => cur > 0 /\ prom.mem = Cells(call, old, cur - 1)
         /\ pc = "idle" => \/ prom.mem = Cells(call, old, cur)
                           \/ cur > 0 /\ prom.mem = Cells(call, old, cur - 1)
         /\ result = "true" => cur = call.len /\ wire # "stop"
    ELSE prom.mem = old

IInv == TypeOK /\ CallInv /\ WireInv /\ LatchInv /\ MemInv

-----------------------------------------------------------------------------
(* The device.                                                             *)

\* The address bytes of i2c.c are what the device decodes.
LEMMA AddressBytesType ==
  ASSUME NEW a \in Address
  PROVE  /\ AddressBytes(a) \in Seq(Bytes)
         /\ Len(AddressBytes(a)) = AddressLen
         /\ Decode(AddressBytes(a)) = a
<1>1. a \in Nat /\ a < CELLS /\ CELLS \in Nat /\ BYTE_VALUES \in Nat \ {0, 1}
  BY SerialPromAssumption DEF Address
<1>2. /\ a % BYTE_VALUES \in Bytes
      /\ a = (a \div BYTE_VALUES) * BYTE_VALUES + (a % BYTE_VALUES)
      /\ a \div BYTE_VALUES \in Nat
  BY <1>1 DEF Bytes
<1>3. CASE TWO_BYTE
  <2>1. a < BYTE_VALUES * BYTE_VALUES
    BY <1>1, <1>3, SerialPromAssumption
  <2>2. a \div BYTE_VALUES \in Bytes
    BY <1>1, <1>2, <2>1 DEF Bytes
  <2>3. QED
    BY <1>1, <1>2, <1>3, <2>2 DEF AddressBytes, AddressLen, Decode
<1>4. CASE ~TWO_BYTE
  <2>1. a < BYTE_VALUES
    BY <1>1, <1>4, SerialPromAssumption
  <2>2. a % BYTE_VALUES = a /\ a % CELLS = a
    BY <1>1, <2>1
  <2>3. QED
    BY <1>1, <1>2, <1>4, <2>2 DEF AddressBytes, AddressLen, Decode
<1>5. QED
  BY <1>3, <1>4

LEMMA DecodeRange == ASSUME NEW b \in Seq(Bytes), Len(b) >= AddressLen PROVE Decode(b) \in Address
<1>1. \A k \in 1 .. Len(b) : b[k] \in Nat
  BY SerialPromAssumption DEF Bytes
<1>2. AddressLen = IF TWO_BYTE THEN 2 ELSE 1
  BY DEF AddressLen
<1>3. (IF TWO_BYTE THEN b[1] * BYTE_VALUES + b[2] ELSE b[1]) \in Nat
  BY <1>1, <1>2, SerialPromAssumption
<1>4. \A n \in Nat : n % CELLS \in Address
  BY SerialPromAssumption DEF Address
<1>5. QED
  BY <1>3, <1>4 DEF Decode

LEMMA DecodeAppend ==
  ASSUME NEW b \in Seq(Bytes), NEW x, Len(b) >= AddressLen
  PROVE  Decode(Append(b, x)) = Decode(b)
BY DEF Decode, AddressLen

\* The parts of an EEPROM.
LEMMA PromParts ==
  ASSUME NEW p \in Prom
  PROVE  /\ p.mem \in [Address -> Contents] /\ p.ptr \in Address /\ p.latch \in Seq(Bytes)
         /\ p.sending \in BOOLEAN /\ p.busy \in BOOLEAN
BY DEF Prom, Bytes

\* What each operation of the device changes.
LEMMA AddressedParts ==
  ASSUME NEW p \in Prom, NEW r \in BOOLEAN
  PROVE  /\ Addressed(p, r) \in Prom
         /\ Addressed(p, r).latch = <<>> /\ Addressed(p, r).sending = r
         /\ Addressed(p, r).mem = p.mem /\ Addressed(p, r).busy = p.busy
         /\ Addressed(p, r).ptr = p.ptr
<1>1. <<>> \in Seq(0 .. BYTE_VALUES - 1)
  OBVIOUS
<1>2. QED
  BY <1>1 DEF Addressed, Prom

LEMMA ReceiveParts ==
  ASSUME NEW p \in Prom, NEW b \in Bytes
  PROVE  /\ Receive(p, b) \in Prom
         /\ Receive(p, b).latch = Append(p.latch, b)
         /\ Receive(p, b).mem = p.mem /\ Receive(p, b).busy = p.busy
         /\ Receive(p, b).sending = p.sending
         /\ (Len(p.latch) >= AddressLen => p.ptr = Decode(p.latch)) =>
              (Len(Append(p.latch, b)) >= AddressLen =>
                 Receive(p, b).ptr = Decode(Append(p.latch, b)))
<1> DEFINE latch == Append(p.latch, b)
<1>1. /\ latch \in Seq(Bytes) /\ Len(latch) = Len(p.latch) + 1
      /\ p.latch \in Seq(Bytes) /\ Len(p.latch) \in Nat /\ AddressLen \in Nat
  BY PromParts DEF AddressLen
<1>2. Len(latch) >= AddressLen => Decode(latch) \in Address
  BY <1>1, DecodeRange
<1> DEFINE ptr == IF Len(latch) = AddressLen THEN Decode(latch) ELSE p.ptr
<1>3. ptr \in Address
  BY <1>1, <1>2, PromParts
<1>4. Receive(p, b) = [p EXCEPT !.latch = latch, !.ptr = ptr]
  BY DEF Receive
<1>5. Len(p.latch) >= AddressLen => Decode(latch) = Decode(p.latch)
  BY <1>1, DecodeAppend
<1> HIDE DEF latch, ptr
<1>6. /\ Receive(p, b) \in Prom /\ Receive(p, b).latch = latch
      /\ Receive(p, b).mem = p.mem /\ Receive(p, b).busy = p.busy
      /\ Receive(p, b).sending = p.sending /\ Receive(p, b).ptr = ptr
  BY <1>1, <1>3, <1>4 DEF Prom, Bytes
<1>7. QED
  BY <1>1, <1>5, <1>6 DEF latch, ptr

LEMMA SendParts ==
  ASSUME NEW p \in Prom, NEW last \in BOOLEAN
  PROVE  /\ Send(p, last) \in Prom /\ Sent(p) \in Bytes
         /\ Send(p, last).latch = p.latch /\ Send(p, last).mem = p.mem
         /\ Send(p, last).busy = p.busy
         /\ Send(p, last).sending = (p.sending /\ ~last)
         /\ ~p.sending => Send(p, last) = p
         /\ p.sending => /\ Sent(p) = p.mem[p.ptr]
                         /\ Send(p, last).ptr = (p.ptr + 1) % CELLS
<1>1. (p.ptr + 1) % CELLS \in Address
  BY PromParts, SerialPromAssumption DEF Address
<1>2. Sent(p) \in Bytes
  <2>1. p.mem[p.ptr] \in Contents
    BY PromParts
  <2>2. Contents \subseteq Bytes /\ BYTE_VALUES - 1 \in Bytes
    BY SerialPromAssumption DEF Bytes
  <2>3. QED
    BY <2>1, <2>2 DEF Sent, Floating
<1>3. /\ p.sending => Send(p, last) = [p EXCEPT !.ptr = (p.ptr + 1) % CELLS, !.sending = ~last]
      /\ ~p.sending => Send(p, last) = p
      /\ p.sending => Sent(p) = p.mem[p.ptr]
      /\ p.sending \in BOOLEAN
  BY DEF Send, Sent, Prom
<1>4. CASE p.sending
  BY <1>1, <1>2, <1>3, <1>4 DEF Prom
<1>5. CASE ~p.sending
  BY <1>2, <1>3, <1>5
<1>6. QED
  BY <1>3, <1>4, <1>5

\* A STOP behind nothing but an address writes no cell.
LEMMA StoppedShort ==
  ASSUME NEW p \in Prom, Len(p.latch) <= AddressLen
  PROVE  /\ Stopped(p) \in Prom
         /\ Stopped(p).latch = <<>> /\ Stopped(p).mem = p.mem
         /\ Stopped(p).ptr = p.ptr /\ Stopped(p).busy = p.busy
         /\ Stopped(p).sending = FALSE
<1>1. ~(Len(p.latch) > AddressLen)
  BY PromParts DEF AddressLen
<1>2. Stopped(p) = [p EXCEPT !.latch = <<>>, !.sending = FALSE]
  BY <1>1 DEF Stopped
<1>3. <<>> \in Seq(0 .. BYTE_VALUES - 1)
  OBVIOUS
<1>4. QED
  BY <1>2, <1>3 DEF Prom

\* A STOP behind a message of eeprom_write writes its byte.
LEMMA StoppedWrites ==
  ASSUME NEW p \in Prom, NEW a \in Address, NEW d \in Contents,
         p.latch = Append(AddressBytes(a), d), p.ptr = Decode(p.latch)
  PROVE  /\ Stopped(p) \in Prom
         /\ Stopped(p).latch = <<>>
         /\ Stopped(p).mem = [p.mem EXCEPT ![a] = d]
<1> DEFINE b == AddressBytes(a)
<1>1. b \in Seq(Bytes) /\ Len(b) = AddressLen /\ Decode(b) = a
  BY AddressBytesType
<1>2. Decode(p.latch) = a
  BY <1>1, DecodeAppend DEF AddressLen
<1>3. Len(p.latch) = AddressLen + 1 /\ p.latch[AddressLen + 1] = d /\ AddressLen \in Nat
  BY <1>1 DEF AddressLen
<1> HIDE DEF b
<1> DEFINE m == [x \in Address |->
                   LET k == AddressLen + 1 + x - p.ptr IN
                   IF k \in AddressLen + 1 .. Len(p.latch) THEN p.latch[k] ELSE p.mem[x]]
<1>4. \A x \in Address : m[x] = IF x = a THEN d ELSE p.mem[x]
  BY <1>2, <1>3 DEF Address
<1>5. m = [p.mem EXCEPT ![a] = d] /\ m \in [Address -> Contents]
  <2>1. m = [x \in Address |-> m[x]]
    OBVIOUS
  <2> HIDE DEF m
  <2>2. p.mem \in [Address -> Contents]
    BY PromParts
  <2>3. QED
    BY <1>4, <2>1, <2>2
<1>6. Stopped(p) = [p EXCEPT !.mem = m, !.latch = <<>>, !.sending = FALSE, !.busy = TRUE]
  <2>1. Len(p.latch) > AddressLen
    BY <1>3
  <2>2. QED
    BY <2>1 DEF Stopped
<1> HIDE DEF m
<1>7. <<>> \in Seq(0 .. BYTE_VALUES - 1)
  OBVIOUS
<1>8. QED
  BY <1>5, <1>6, <1>7 DEF Prom

\* One byte more of a call.
LEMMA CellsNext ==
  ASSUME NEW c, c.addr \in Address, NEW o \in [Address -> Contents], NEW n \in Nat \ {0},
         c.addr + n - 1 \in Address
  PROVE  Cells(c, o, n) = [Cells(c, o, n - 1) EXCEPT ![c.addr + n - 1] = c.data[n]]
<1>1. \A a \in Address :
        Cells(c, o, n)[a] = IF a = c.addr + n - 1 THEN c.data[n] ELSE Cells(c, o, n - 1)[a]
  BY DEF Cells, Address
<1>2. QED
  BY <1>1 DEF Cells

LEMMA CellsNone ==
  ASSUME NEW c, c.addr \in Address, NEW o \in [Address -> Contents]
  PROVE  Cells(c, o, 0) = o
BY DEF Cells, Address

-----------------------------------------------------------------------------
(* The steps.                                                              *)

\* What TypeOK says of the call and of the device.
LEMMA TypeFacts ==
  ASSUME TypeOK
  PROVE  /\ call.addr \in Address /\ call.len \in 0 .. MaxLen
         /\ call.op \in {"read", "write"}
         /\ call.op = "write" => call.data \in [1 .. call.len -> Contents]
         /\ prom.latch \in Seq(Bytes)
         /\ Len(message) \in Nat
<1>1. call \in Calls \cup {[op |-> "read", addr |-> 0, data |-> <<>>, len |-> 0]}
  BY DEF TypeOK
<1>0. prom.latch \in Seq(Bytes) /\ Len(message) \in Nat
  BY PromParts DEF TypeOK
<1> SUFFICES /\ call.addr \in Address /\ call.len \in 0 .. MaxLen
             /\ call.op \in {"read", "write"}
             /\ call.op = "write" => call.data \in [1 .. call.len -> Contents]
  BY <1>0
<1>2. CASE call \in Calls
  <2>1. CASE \E a \in Address, d \in Blocks :
               call = [op |-> "write", addr |-> a, data |-> d, len |-> Len(d)]
    <3>1. PICK a \in Address, d \in Blocks :
            call = [op |-> "write", addr |-> a, data |-> d, len |-> Len(d)]
      BY <2>1
    <3>2. PICK n \in 0 .. MaxLen : d \in [1 .. n -> Contents]
      BY DEF Blocks
    <3>3. Len(d) = n
      BY <3>2, I2cAssumption
    <3>4. QED
      BY <3>1, <3>2, <3>3
  <2>2. CASE call \in [op : {"read"}, addr : Address, data : {<<>>}, len : ReadLens]
    BY <2>2, I2cAssumption
  <2>3. QED
    BY <1>2, <2>1, <2>2 DEF Calls
<1>3. CASE call = [op |-> "read", addr |-> 0, data |-> <<>>, len |-> 0]
  BY <1>3, I2cAssumption, SerialPromAssumption DEF Address
<1>4. QED
  BY <1>1, <1>2, <1>3

\* The message that eeprom_write or eeprom_read makes.
LEMMA MessageType ==
  ASSUME TypeOK, CallInv, call.op = "write" => cur > 0
  PROVE  LET m == MessageOf(call, cur) IN
         /\ m \in Seq(Bytes) /\ Len(m) \in 1 .. AddressLen + 1
         /\ call.op = "read" => Len(m) = AddressLen
         /\ call.op = "write" => /\ call.addr + cur - 1 \in Address
                                 /\ call.data[cur] \in Contents
                                 /\ Len(m) = AddressLen + 1
                                 /\ m = Append(AddressBytes(call.addr + cur - 1), call.data[cur])
<1>1. AddressLen \in {1, 2}
  BY DEF AddressLen
<1>2. CASE call.op = "write"
  <2>1. cur \in 1 .. call.len /\ call.addr \in Nat
    BY <1>2, TypeFacts, SerialPromAssumption, I2cAssumption DEF TypeOK, CallInv, Address
  <2>2. call.addr + cur - 1 \in Address
    BY <2>1, TypeFacts, SerialPromAssumption, I2cAssumption DEF CallInv, Address
  <2>3. call.data[cur] \in Contents /\ Contents \subseteq Bytes
    BY <1>2, <2>1, TypeFacts, SerialPromAssumption DEF Bytes
  <2> DEFINE b == AddressBytes(call.addr + cur - 1)
  <2>4. b \in Seq(Bytes) /\ Len(b) = AddressLen
    BY <2>2, AddressBytesType
  <2> HIDE DEF b
  <2>5. Append(b, call.data[cur]) \in Seq(Bytes) /\ Len(Append(b, call.data[cur])) = AddressLen + 1
    BY <2>3, <2>4, <1>1
  <2>6. QED
    BY <1>1, <1>2, <2>2, <2>3, <2>5 DEF MessageOf, b
<1>3. CASE call.op = "read"
  BY <1>1, <1>3, AddressBytesType, TypeFacts DEF MessageOf
<1>4. QED
  BY <1>2, <1>3, TypeFacts

LEMMA EmptyLatch == <<>> \in Seq(Bytes) /\ AddressLen \in {1, 2}
  BY DEF AddressLen

\* Where STOP is being sent the device has the address at most, or all of a
\* message of eeprom_write.
LEMMA EndOfMessage ==
  ASSUME IInv, wire = "stop"
  PROVE  \/ Len(prom.latch) <= AddressLen
         \/ call.op = "write" /\ cur > 0 /\ prom.latch = MessageOf(call, cur)
<1> USE DEF IInv, WireInv, LatchInv, CallInv, InWrite
<1>1. CASE pc = "write_stop"
  <2>1. prom.latch = MessageOf(call, cur)
    BY <1>1
  <2>2. CASE call.op = "write"
    BY <1>1, <2>1, <2>2
  <2>3. CASE call.op = "read"
    BY <2>1, <2>3, MessageType, EmptyLatch
  <2>4. QED
    BY <2>2, <2>3, TypeFacts
<1>2. CASE pc \in {"stop_fail", "write_nak", "idle"}
  BY <1>2
<1>3. CASE pc = "read_stop"
  BY <1>3, EmptyLatch
<1>4. QED
  BY <1>1, <1>2, <1>3

\* STOP writes the byte of a message that is complete, and nothing else.
LEMMA BusStopEffect ==
  ASSUME IInv, BusStop
  PROVE  /\ prom' \in Prom /\ prom'.latch = <<>>
         /\ \/ prom'.mem = prom.mem /\ Len(prom.latch) <= AddressLen
            \/ /\ call.op = "write" /\ cur > 0 /\ prom.latch = MessageOf(call, cur)
               /\ prom'.mem = Cells(call, old, cur)
<1>0. prom \in Prom /\ wire = "stop" /\ present \in BOOLEAN
  BY DEF IInv, TypeOK, BusStop
<1>1. CASE ~present
  BY <1>0, <1>1, EmptyLatch DEF BusStop, IInv, LatchInv
<1>2. CASE present /\ Len(prom.latch) <= AddressLen
  BY <1>0, <1>2, StoppedShort DEF BusStop
<1>3. CASE /\ present /\ call.op = "write" /\ cur > 0
           /\ prom.latch = MessageOf(call, cur)
  <2> DEFINE a == call.addr + cur - 1
  <2>1. /\ a \in Address /\ call.data[cur] \in Contents
        /\ Len(prom.latch) >= AddressLen
        /\ prom.latch = Append(AddressBytes(a), call.data[cur])
    BY <1>3, MessageType, EmptyLatch DEF IInv
  <2>2. prom.ptr = Decode(prom.latch)
    BY <2>1 DEF IInv, LatchInv
  <2>3. prom.mem = Cells(call, old, cur - 1)
    BY <1>0, <1>3 DEF IInv, MemInv, CallInv, WireInv, Before, Stored, InWrite, InRead
  <2> DEFINE d == call.data[cur]
  <2> HIDE DEF a, d
  <2>4. /\ Stopped(prom) \in Prom /\ Stopped(prom).latch = <<>>
        /\ Stopped(prom).mem = [prom.mem EXCEPT ![a] = d]
    <3>1. /\ prom \in Prom /\ a \in Address /\ d \in Contents
          /\ prom.latch = Append(AddressBytes(a), d) /\ prom.ptr = Decode(prom.latch)
      BY <1>0, <2>1, <2>2 DEF d
    <3>2. QED
      BY <3>1, StoppedWrites
  <2>5. cur \in Nat \ {0} /\ call.addr \in Address /\ old \in [Address -> Contents]
    BY <1>3, TypeFacts DEF IInv, TypeOK
  <2>6. Cells(call, old, cur) = [Cells(call, old, cur - 1) EXCEPT ![a] = call.data[cur]]
    BY <2>1, <2>5, CellsNext DEF a
  <2>7. QED
    BY <1>3, <2>3, <2>4, <2>6 DEF BusStop, d
<1>4. QED
  BY <1>0, <1>1, <1>2, <1>3, EndOfMessage

\* The calls that Call chooses from.
LEMMA FittingCallParts ==
  ASSUME NEW c \in FittingCalls
  PROVE  /\ c \in Calls /\ c.op \in {"read", "write"} /\ c.len \in Nat
         /\ c.addr \in Address /\ c.addr + c.len <= CELLS
<1>1. c \in Calls /\ c.addr + c.len <= CELLS
  BY DEF FittingCalls
<1>2. CASE \E a \in Address, d \in Blocks :
             c = [op |-> "write", addr |-> a, data |-> d, len |-> Len(d)]
  <2>1. PICK a \in Address, d \in Blocks :
          c = [op |-> "write", addr |-> a, data |-> d, len |-> Len(d)]
    BY <1>2
  <2>2. PICK n \in 0 .. MaxLen : d \in [1 .. n -> Contents]
    BY DEF Blocks
  <2>3. Len(d) = n
    BY <2>2, I2cAssumption
  <2>4. QED
    BY <1>1, <2>1, <2>2, <2>3
<1>3. CASE c \in [op : {"read"}, addr : Address, data : {<<>>}, len : ReadLens]
  <2>1. c.op = "read" /\ c.addr \in Address /\ c.len \in ReadLens
    BY <1>3
  <2>2. ReadLens \subseteq Nat
    BY I2cAssumption
  <2>3. QED
    BY <1>1, <2>1, <2>2
<1>4. QED
  BY <1>1, <1>2, <1>3 DEF Calls

\* Every step keeps the types.
LEMMA TypeOKStep == ASSUME IInv, Next PROVE TypeOK'
<1> USE DEF IInv, TypeOK, Step, Return, NoLocals, Finish, callVars, busVars
<1>1. CASE NextByte
  <2>1. /\ cur \in Nat /\ cur + 1 \in 1 .. call.len /\ cur' = cur + 1
        /\ call.addr + cur \in Address /\ call.op = "write"
    BY <1>1, TypeFacts, SerialPromAssumption DEF NextByte, CallInv, Address
  <2>2. AddressBytes(call.addr + cur) \in Seq(Bytes) /\ call.data[cur + 1] \in Bytes
    BY <2>1, AddressBytesType, TypeFacts, SerialPromAssumption DEF Bytes
  <2>3. message' \in Seq(Bytes) /\ cur' \in 0 .. MaxLen
    BY <1>1, <2>1, <2>2, TypeFacts, I2cAssumption DEF NextByte
  <2>4. QED
    BY <1>1, <2>3 DEF NextByte
<1>2. CASE AllWritten
  BY <1>2, TypeFacts, EmptyLatch, I2cAssumption DEF AllWritten
<1>3. CASE Cancelled
  BY <1>3, TypeFacts, EmptyLatch, I2cAssumption DEF Cancelled
<1>4. CASE EnterWrite
  <2>1. cancel' \in BOOLEAN
    BY <1>4 DEF EnterWrite
  <2>2. QED
    BY <1>4, <2>1 DEF EnterWrite
<1>5. CASE WriteStart
  BY <1>5, TypeFacts, EmptyLatch, I2cAssumption DEF WriteStart, Start
<1>6. CASE StartError
  <2>1. CASE Step("write_started", "write_start")
    BY <1>6, <2>1, TypeFacts DEF StartError
  <2>2. CASE Step("read_started", "read_start")
    BY <1>6, <2>2, TypeFacts DEF StartError
  <2>3. QED
    BY <1>6, <2>1, <2>2 DEF StartError
<1>7. CASE SendAddress
  BY <1>7, TypeFacts, EmptyLatch, I2cAssumption DEF SendAddress
<1>8. CASE RestartWrite
  BY <1>8, TypeFacts, EmptyLatch, I2cAssumption DEF RestartWrite
<1>9. CASE AddressNak
  BY <1>9, TypeFacts, EmptyLatch, I2cAssumption DEF AddressNak
<1>10. CASE Retry
  BY <1>10, TypeFacts, EmptyLatch, I2cAssumption DEF Retry
<1>11. CASE GiveUp
  BY <1>11, TypeFacts, EmptyLatch, I2cAssumption DEF GiveUp
<1>12. CASE Delay
  BY <1>12, TypeFacts, EmptyLatch, I2cAssumption DEF Delay
<1>13. CASE SendByte
  <2>1. Len(message) <= 3
    BY <1>13, MessageType, EmptyLatch DEF SendByte, CallInv, InWrite
  <2>2. i2dat' \in Bytes /\ cur_byte' \in 0 .. MaxLen + 3
    BY <1>13, <2>1, I2cAssumption DEF SendByte
  <2>3. QED
    BY <1>13, <2>2 DEF SendByte
<1>14. CASE Nak
  BY <1>14, TypeFacts, EmptyLatch, I2cAssumption DEF Nak
<1>15. CASE StopFail
  BY <1>15, TypeFacts, EmptyLatch, I2cAssumption DEF StopFail
<1>16. CASE WriteStop
  BY <1>16, TypeFacts, EmptyLatch, I2cAssumption DEF WriteStop
<1>17. CASE WriteReturns
  BY <1>17, TypeFacts, EmptyLatch, I2cAssumption DEF WriteReturns
<1>18. CASE EnterRead
  <2>1. cancel' \in BOOLEAN
    BY <1>18 DEF EnterRead
  <2>2. QED
    BY <1>18, <2>1 DEF EnterRead
<1>19. CASE ReadStart
  BY <1>19, TypeFacts, EmptyLatch, I2cAssumption DEF ReadStart, Start
<1>20. CASE RestartRead
  BY <1>20, TypeFacts, EmptyLatch, I2cAssumption DEF RestartRead
<1>21. CASE FirstRead
  BY <1>21, TypeFacts, EmptyLatch, I2cAssumption DEF FirstRead
<1>22. CASE ReadByte
  BY <1>22, TypeFacts, EmptyLatch, I2cAssumption DEF ReadByte
<1>23. CASE LastByte
  BY <1>23, TypeFacts, EmptyLatch, I2cAssumption DEF LastByte
<1>24. CASE ReadReturns
  BY <1>24, TypeFacts, EmptyLatch, I2cAssumption DEF ReadReturns
<1>25. CASE Call
  <2>1. PICK c \in FittingCalls :
           /\ call' = c
           /\ message' = IF c.op = "read" THEN AddressBytes(c.addr) ELSE <<>>
           /\ pc' = IF c.op = "read" THEN "i2c_write" ELSE "next"
    BY <1>25 DEF Call
  <2>2. message' \in Seq(Bytes) /\ call' \in Calls
    BY <2>1, FittingCallParts, AddressBytesType, EmptyLatch
  <2>3. /\ cur' \in 0 .. MaxLen /\ old' \in [Address -> Contents]
        /\ buf' \in [0 .. MaxLen -> Bytes \cup {NoByte}]
    BY <1>25, PromParts, I2cAssumption DEF Call, NoBytes
  <2>4. excuse' \in BOOLEAN /\ cut' \in BOOLEAN
    BY <1>25 DEF Call
  <2>5. QED
    BY <1>25, <2>1, <2>2, <2>3, <2>4 DEF Call
<1>26. CASE Cancel
  BY <1>26, TypeFacts, EmptyLatch, I2cAssumption DEF Cancel
<1>27. CASE BusStart
  BY <1>27, TypeFacts, EmptyLatch, I2cAssumption DEF BusStart
<1>28. CASE BusError
  BY <1>28, TypeFacts, EmptyLatch, I2cAssumption DEF BusError
<1>29. CASE BusAddress
  <2>1. prom' \in Prom /\ ack' \in BOOLEAN
    BY <1>29, AddressedParts DEF BusAddress
  <2>2. QED
    BY <1>29, <2>1 DEF BusAddress
<1>30. CASE BusSend
  <2>1. prom' \in Prom /\ ack' \in BOOLEAN
    BY <1>30, ReceiveParts DEF BusSend
  <2>2. QED
    BY <1>30, <2>1 DEF BusSend
<1>31. CASE BusReceive
  <2>1. prom' \in Prom /\ i2dat' \in Bytes
    BY <1>31, SendParts DEF BusReceive
  <2>2. berr' \in BOOLEAN
    BY <1>31 DEF BusReceive
  <2>3. QED
    BY <1>31, <2>1, <2>2 DEF BusReceive
<1>32. CASE BusStop
  <2>1. prom' \in Prom
    BY <1>32, BusStopEffect, StoppedShort, StoppedWrites
  <2>2. lastrd' \in BOOLEAN
    BY <1>32 DEF BusStop
  <2>3. QED
    BY <1>32, <2>1, <2>2 DEF BusStop
<1>33. CASE WriteCycleEnds
  <2>1. prom' \in Prom
    BY <1>33, PromParts DEF WriteCycleEnds, Prom
  <2>2. QED
    BY <1>33, <2>1 DEF WriteCycleEnds
<1>34. QED
  BY <1>1, <1>2, <1>3, <1>4, <1>5, <1>6, <1>7, <1>8, <1>9, <1>10, <1>11, <1>12, <1>13,
      <1>14, <1>15, <1>16, <1>17, <1>18, <1>19, <1>20, <1>21, <1>22, <1>23, <1>24, <1>25, <1>26, <1>27, <1>28, <1>29, <1>30, <1>31, <1>32, <1>33 DEF Next, Cpu, Bus

\* The call, its message and the place of main agree.
LEMMA CallInvStep == ASSUME IInv, Next PROVE CallInv'
<1> USE DEF IInv, CallInv, InWrite, InRead, Step, Return, NoLocals, Finish, callVars, busVars
<1>1. CASE NextByte
  <2>1. cur \in Nat /\ (cur + 1) - 1 = cur /\ call.addr + (cur + 1) - 1 = call.addr + cur
    BY TypeFacts DEF TypeOK, Address
  <2>2. message' = MessageOf(call, cur')
    BY <1>1, <2>1 DEF NextByte, MessageOf
  <2>3. QED
    BY <1>1, <2>1, <2>2, TypeFacts DEF NextByte, TypeOK
<1>2. CASE AllWritten
  BY <1>2, TypeFacts DEF AllWritten
<1>3. CASE Cancelled
  BY <1>3, TypeFacts DEF Cancelled
<1>4. CASE EnterWrite
  BY <1>4, TypeFacts DEF EnterWrite
<1>5. CASE WriteStart
  BY <1>5, TypeFacts DEF WriteStart, Start
<1>6. CASE StartError
  <2>1. CASE Step("write_started", "write_start")
    BY <1>6, <2>1 DEF StartError
  <2>2. CASE Step("read_started", "read_start")
    BY <1>6, <2>2 DEF StartError
  <2>3. QED
    BY <1>6, <2>1, <2>2 DEF StartError
<1>7. CASE SendAddress
  BY <1>7, TypeFacts DEF SendAddress
<1>8. CASE RestartWrite
  BY <1>8, TypeFacts DEF RestartWrite
<1>9. CASE AddressNak
  BY <1>9, TypeFacts DEF AddressNak
<1>10. CASE Retry
  BY <1>10, TypeFacts DEF Retry
<1>11. CASE GiveUp
  BY <1>11, TypeFacts DEF GiveUp
<1>12. CASE Delay
  BY <1>12, TypeFacts DEF Delay
<1>13. CASE SendByte
  BY <1>13, TypeFacts DEF SendByte
<1>14. CASE Nak
  BY <1>14, TypeFacts DEF Nak
<1>15. CASE StopFail
  BY <1>15, TypeFacts DEF StopFail
<1>16. CASE WriteStop
  BY <1>16, TypeFacts DEF WriteStop
<1>17. CASE WriteReturns
  BY <1>17, TypeFacts DEF WriteReturns
<1>18. CASE EnterRead
  BY <1>18, TypeFacts DEF EnterRead
<1>19. CASE ReadStart
  BY <1>19, TypeFacts DEF ReadStart, Start
<1>20. CASE RestartRead
  BY <1>20, TypeFacts DEF RestartRead
<1>21. CASE FirstRead
  BY <1>21, TypeFacts DEF FirstRead
<1>22. CASE ReadByte
  BY <1>22, TypeFacts DEF ReadByte
<1>23. CASE LastByte
  BY <1>23, TypeFacts DEF LastByte
<1>24. CASE ReadReturns
  BY <1>24, TypeFacts DEF ReadReturns
<1>25. CASE Call
  <2>1. PICK c \in FittingCalls :
           /\ call' = c
           /\ message' = IF c.op = "read" THEN AddressBytes(c.addr) ELSE <<>>
           /\ pc' = IF c.op = "read" THEN "i2c_write" ELSE "next"
    BY <1>25 DEF Call
  <2>2. c.op \in {"read", "write"} /\ c.len \in Nat /\ c.addr + c.len <= CELLS
    BY FittingCallParts
  <2>3. QED
    BY <1>25, <2>1, <2>2 DEF Call, MessageOf
<1>26. CASE Cancel
  BY <1>26, TypeFacts DEF Cancel
<1>27. CASE BusStart
  BY <1>27, TypeFacts DEF BusStart
<1>28. CASE BusError
  BY <1>28, TypeFacts DEF BusError
<1>29. CASE BusAddress
  BY <1>29, TypeFacts DEF BusAddress
<1>30. CASE BusSend
  BY <1>30, TypeFacts DEF BusSend
<1>31. CASE BusReceive
  BY <1>31, TypeFacts DEF BusReceive
<1>32. CASE BusStop
  BY <1>32, TypeFacts DEF BusStop
<1>33. CASE WriteCycleEnds
  BY <1>33, TypeFacts DEF WriteCycleEnds
<1>34. QED
  BY <1>1, <1>2, <1>3, <1>4, <1>5, <1>6, <1>7, <1>8, <1>9, <1>10, <1>11, <1>12, <1>13,
      <1>14, <1>15, <1>16, <1>17, <1>18, <1>19, <1>20, <1>21, <1>22, <1>23, <1>24, <1>25, <1>26, <1>27, <1>28, <1>29, <1>30, <1>31, <1>32, <1>33 DEF Next, Cpu, Bus

\* The controller works on what the place of main asked for.
LEMMA WireInvStep == ASSUME IInv, Next PROVE WireInv'
<1> USE DEF IInv, WireInv, Done, Step, Return, NoLocals, Finish, callVars, busVars
<1>1. CASE NextByte
  BY <1>1, TypeFacts DEF NextByte
<1>2. CASE AllWritten
  BY <1>2, TypeFacts DEF AllWritten
<1>3. CASE Cancelled
  BY <1>3, TypeFacts DEF Cancelled
<1>4. CASE EnterWrite
  BY <1>4, TypeFacts DEF EnterWrite
<1>5. CASE WriteStart
  BY <1>5, TypeFacts DEF WriteStart, Start
<1>6. CASE StartError
  <2>1. CASE Step("write_started", "write_start")
    BY <1>6, <2>1 DEF StartError
  <2>2. CASE Step("read_started", "read_start")
    BY <1>6, <2>2 DEF StartError
  <2>3. QED
    BY <1>6, <2>1, <2>2 DEF StartError
<1>7. CASE SendAddress
  <2>1. CASE Step("write_started", "write_addr") /\ wire' = "addr_write"
    BY <1>7, <2>1 DEF SendAddress
  <2>2. CASE Step("read_started", "read_addr") /\ wire' = "addr_read"
    BY <1>7, <2>2 DEF SendAddress
  <2>3. QED
    BY <1>7, <2>1, <2>2 DEF SendAddress
<1>8. CASE RestartWrite
  BY <1>8, TypeFacts DEF RestartWrite
<1>9. CASE AddressNak
  BY <1>9, TypeFacts DEF AddressNak
<1>10. CASE Retry
  BY <1>10, TypeFacts DEF Retry
<1>11. CASE GiveUp
  BY <1>11, TypeFacts DEF GiveUp
<1>12. CASE Delay
  BY <1>12, TypeFacts DEF Delay
<1>13. CASE SendByte
  BY <1>13, TypeFacts DEF SendByte
<1>14. CASE Nak
  BY <1>14, TypeFacts DEF Nak
<1>15. CASE StopFail
  BY <1>15, TypeFacts DEF StopFail
<1>16. CASE WriteStop
  BY <1>16, TypeFacts DEF WriteStop
<1>17. CASE WriteReturns
  BY <1>17, TypeFacts DEF WriteReturns
<1>18. CASE EnterRead
  BY <1>18, TypeFacts DEF EnterRead
<1>19. CASE ReadStart
  BY <1>19, TypeFacts DEF ReadStart, Start
<1>20. CASE RestartRead
  BY <1>20, TypeFacts DEF RestartRead
<1>21. CASE FirstRead
  BY <1>21, TypeFacts DEF FirstRead
<1>22. CASE ReadByte
  BY <1>22, TypeFacts DEF ReadByte
<1>23. CASE LastByte
  BY <1>23, TypeFacts DEF LastByte
<1>24. CASE ReadReturns
  BY <1>24, TypeFacts DEF ReadReturns
<1>25. CASE Call
  BY <1>25, TypeFacts DEF Call
<1>26. CASE Cancel
  BY <1>26, TypeFacts DEF Cancel
<1>27. CASE BusStart
  BY <1>27, TypeFacts DEF BusStart
<1>28. CASE BusError
  BY <1>28, TypeFacts DEF BusError
<1>29. CASE BusAddress
  BY <1>29, TypeFacts DEF BusAddress
<1>30. CASE BusSend
  BY <1>30, TypeFacts DEF BusSend
<1>31. CASE BusReceive
  BY <1>31, TypeFacts DEF BusReceive
<1>32. CASE BusStop
  BY <1>32, TypeFacts DEF BusStop
<1>33. CASE WriteCycleEnds
  BY <1>33, TypeFacts DEF WriteCycleEnds
<1>34. QED
  BY <1>1, <1>2, <1>3, <1>4, <1>5, <1>6, <1>7, <1>8, <1>9, <1>10, <1>11, <1>12, <1>13,
      <1>14, <1>15, <1>16, <1>17, <1>18, <1>19, <1>20, <1>21, <1>22, <1>23, <1>24, <1>25, <1>26, <1>27, <1>28, <1>29, <1>30, <1>31, <1>32, <1>33 DEF Next, Cpu, Bus

\* What the device has received of a message.
LEMMA LatchInvStep == ASSUME IInv, Next PROVE LatchInv'
<1> USE DEF IInv, LatchInv, WireInv, Done, Step, Return, NoLocals, Finish, callVars, busVars
<1>1. CASE NextByte
  BY <1>1, TypeFacts DEF NextByte
<1>2. CASE AllWritten
  BY <1>2, TypeFacts DEF AllWritten
<1>3. CASE Cancelled
  <2>1. UNCHANGED <<call, cur, prom, wire, present>> /\ pc' = "idle"
    BY <1>3 DEF Cancelled
  <2>2. /\ prom.latch # <<>> \/ wire = "send" => present /\ ~prom.busy /\ ~prom.sending
        /\ Len(prom.latch) >= AddressLen => prom.ptr = Decode(prom.latch)
    OBVIOUS
  <2>3. QED
    BY <2>1, <2>2, EndOfMessage
<1>4. CASE EnterWrite
  BY <1>4, TypeFacts DEF EnterWrite
<1>5. CASE WriteStart
  BY <1>5, TypeFacts DEF WriteStart, Start
<1>6. CASE StartError
  <2>1. CASE Step("write_started", "write_start")
    BY <1>6, <2>1 DEF StartError
  <2>2. CASE Step("read_started", "read_start")
    BY <1>6, <2>2 DEF StartError
  <2>3. QED
    BY <1>6, <2>1, <2>2 DEF StartError
<1>7. CASE SendAddress
  BY <1>7, TypeFacts DEF SendAddress
<1>8. CASE RestartWrite
  BY <1>8, TypeFacts DEF RestartWrite
<1>9. CASE AddressNak
  <2>1. prom.latch = <<>> /\ Len(prom.latch) <= AddressLen
    BY <1>9, EmptyLatch DEF AddressNak
  <2>2. QED
    BY <1>9, <2>1 DEF AddressNak
<1>10. CASE Retry
  BY <1>10, TypeFacts DEF Retry
<1>11. CASE GiveUp
  BY <1>11, TypeFacts DEF GiveUp
<1>12. CASE Delay
  BY <1>12, TypeFacts DEF Delay
<1>13. CASE SendByte
  <2>1. /\ message \in Seq(Bytes) /\ prom.latch \in Seq(Bytes)
        /\ message' = message /\ prom' = prom /\ present' = present
        /\ pc' = "write_byte" /\ wire' = "send" /\ cur_byte' = cur_byte + 1
        /\ cur_byte \in 0 .. Len(message) - 1 /\ i2dat' = message[cur_byte + 1]
    BY <1>13, TypeFacts DEF SendByte, TypeOK
  <2>2. prom.latch = SubSeq(message, 1, cur_byte)
    BY <1>13, <2>1 DEF SendByte
  <2>3. present /\ ~prom.busy /\ ~prom.sending
    <3>1. CASE pc = "write_addr"
      BY <1>13, <3>1 DEF SendByte
    <3>2. CASE pc = "write_byte"
      BY <1>13, <2>1, <2>2, <3>2 DEF SendByte
    <3>3. QED
      BY <1>13, <3>1, <3>2 DEF SendByte
  <2>4. cur_byte' - 1 = cur_byte
    BY <2>1
  <2>5. QED
    BY <2>1, <2>2, <2>3, <2>4
<1>14. CASE Nak
  <2>1. Len(prom.latch) <= AddressLen
    <3>1. CASE pc = "read_addr"
      BY <1>14, <3>1, EmptyLatch DEF Nak
    <3>2. CASE pc = "write_byte"
      <4>1. /\ message = MessageOf(call, cur) /\ cur_byte \in 1 .. Len(message)
            /\ prom.latch = SubSeq(message, 1, cur_byte - 1)
        BY <1>14, <3>2 DEF Nak, CallInv, InWrite, WireInv
      <4>2. message \in Seq(Bytes) /\ Len(message) <= AddressLen + 1
        BY <3>2, <4>1, MessageType, EmptyLatch DEF CallInv, InWrite
      <4>3. QED
        BY <4>1, <4>2, EmptyLatch
    <3>3. QED
      BY <1>14, <3>1, <3>2 DEF Nak
  <2>2. QED
    BY <1>14, <2>1 DEF Nak
<1>15. CASE StopFail
  BY <1>15, TypeFacts DEF StopFail
<1>16. CASE WriteStop
  <2>1. /\ message \in Seq(Bytes) /\ UNCHANGED <<message, prom, present, cur_byte>>
        /\ pc' = "write_stop" /\ wire' = "stop" /\ cur_byte = Len(message)
    BY <1>16 DEF WriteStop, TypeOK
  <2>2. prom.latch = SubSeq(message, 1, cur_byte)
    <3>1. CASE pc = "write_byte"
      BY <1>16, <3>1 DEF WriteStop
    <3>2. CASE pc = "write_addr"
      <4>1. prom.latch = <<>> /\ cur_byte = 0
        BY <1>16, <3>2 DEF WriteStop
      <4>2. QED
        BY <2>1, <4>1
    <3>3. QED
      BY <1>16, <3>1, <3>2 DEF WriteStop
  <2>3. prom.latch = message
    BY <2>1, <2>2
  <2>4. QED
    BY <2>1, <2>3
<1>17. CASE WriteReturns
  BY <1>17, TypeFacts DEF WriteReturns
<1>18. CASE EnterRead
  BY <1>18, TypeFacts DEF EnterRead
<1>19. CASE ReadStart
  BY <1>19, TypeFacts DEF ReadStart, Start
<1>20. CASE RestartRead
  BY <1>20, TypeFacts DEF RestartRead
<1>21. CASE FirstRead
  BY <1>21, TypeFacts DEF FirstRead
<1>22. CASE ReadByte
  BY <1>22, TypeFacts DEF ReadByte
<1>23. CASE LastByte
  BY <1>23, TypeFacts DEF LastByte
<1>24. CASE ReadReturns
  BY <1>24, TypeFacts DEF ReadReturns
<1>25. CASE Call
  BY <1>25, TypeFacts DEF Call
<1>26. CASE Cancel
  BY <1>26, TypeFacts DEF Cancel
<1>27. CASE BusStart
  BY <1>27, TypeFacts DEF BusStart
<1>28. CASE BusError
  BY <1>28, TypeFacts DEF BusError
<1>29. CASE BusAddress
  <2>1. /\ prom \in Prom /\ wire \in {"addr_write", "addr_read"} /\ wire' = "none"
        /\ pc \notin {"write_byte", "write_stop", "stop_fail", "write_nak"}
        /\ pc' = pc /\ present' = present
    BY <1>29 DEF BusAddress, TypeOK
  <2>0. ack' = (present /\ ~prom.busy)
    BY <1>29 DEF BusAddress
  <2>2. CASE ack'
    <3>0. present /\ ~prom.busy
      BY <2>0, <2>2
    <3> DEFINE reading == wire = "addr_read"
    <3>1. prom' = Addressed(prom, reading) /\ reading \in BOOLEAN
      BY <1>29, <2>2 DEF BusAddress
    <3>2. /\ prom'.latch = <<>> /\ prom'.sending = reading /\ prom'.busy = prom.busy
      BY <2>1, <3>1, AddressedParts
    <3>3. ~(Len(prom'.latch) >= AddressLen)
      BY <3>2, EmptyLatch
    <3>4. pc = "write_addr" => ~prom'.sending
      BY <3>2
    <3>5. pc = "read_addr" => prom'.sending
      BY <2>1, <3>2
    <3>6. pc \in {"write_addr", "read_addr"} => (prom'.sending <=> pc = "read_addr")
      BY <3>4, <3>5
    <3> HIDE DEF reading
    <3>7. present' /\ ~prom'.busy
      BY <2>1, <3>0, <3>2
    <3>8. QED
      BY <2>1, <3>2, <3>3, <3>6, <3>7
  <2>3. CASE ~ack'
    <3>0. ~(present /\ ~prom.busy)
      BY <2>0, <2>3
    <3>1. prom' = prom /\ prom.latch = <<>>
      BY <1>29, <2>3, <3>0 DEF BusAddress
    <3>2. ~(Len(prom'.latch) >= AddressLen)
      BY <3>1, EmptyLatch
    <3>3. QED
      BY <2>1, <2>3, <3>1, <3>2
  <2>4. QED
    BY <2>2, <2>3
<1>30. CASE BusSend
  <2>1. /\ prom \in Prom /\ i2dat \in Bytes /\ wire = "send" /\ wire' = "none"
        /\ prom.latch \in Seq(Bytes)
        /\ pc \notin {"write_addr", "read_addr", "write_stop", "read_byte", "read_stop"}
        /\ pc' = pc /\ UNCHANGED <<present, message, cur_byte>> /\ ~berr'
        /\ present /\ ~prom.busy /\ ~prom.sending
    BY <1>30, TypeFacts DEF BusSend, TypeOK, CallInv, InRead
  <2>2. CASE ack'
    <3>1. prom' = Receive(prom, i2dat)
      BY <1>30, <2>2 DEF BusSend
    <3>2. /\ prom'.latch = Append(prom.latch, i2dat) /\ prom'.busy = prom.busy
          /\ prom'.sending = prom.sending
          /\ Len(prom'.latch) >= AddressLen => prom'.ptr = Decode(prom'.latch)
      BY <2>1, <3>1, ReceiveParts
    <3>3. pc = "write_byte" => prom'.latch = SubSeq(message, 1, cur_byte)
      <4>1. SUFFICES ASSUME pc = "write_byte"
                     PROVE  prom'.latch = SubSeq(message, 1, cur_byte)
        OBVIOUS
      <4>2. /\ message \in Seq(Bytes) /\ cur_byte \in 1 .. Len(message)
            /\ prom.latch = SubSeq(message, 1, cur_byte - 1) /\ i2dat = message[cur_byte]
        BY <2>1, <4>1 DEF TypeOK, WireInv
      <4>3. QED
        BY <3>2, <4>2
    <3>4. present' /\ ~prom'.busy /\ ~prom'.sending
      BY <2>1, <3>2
    <3>5. QED
      BY <2>1, <2>2, <3>2, <3>3, <3>4
  <2>3. CASE ~ack'
    BY <1>30, <2>1, <2>3 DEF BusSend, WireInv
  <2>4. QED
    BY <2>2, <2>3
<1>31. CASE BusReceive
  <2>1. prom \in Prom /\ lastrd \in BOOLEAN /\ wire = "receive" /\ wire' = "none"
    BY <1>31 DEF BusReceive, TypeOK
  <2>2. /\ prom'.latch = prom.latch /\ prom'.busy = prom.busy
        /\ prom'.sending => prom.sending
        /\ ~prom.sending => prom' = prom
    BY <1>31, <2>1, SendParts DEF BusReceive
  <2>3. CASE prom.latch # <<>>
    BY <1>31, <2>1, <2>2, <2>3 DEF BusReceive, WireInv
  <2>4. CASE prom.latch = <<>>
    <3>1. Len(prom'.latch) < AddressLen
      BY <2>2, <2>4, EmptyLatch
    <3>2. QED
      BY <1>31, <2>1, <2>2, <2>4, <3>1, EmptyLatch DEF BusReceive, WireInv
  <2>5. QED
    BY <2>3, <2>4
<1>32. CASE BusStop
  <2>1. prom'.latch = <<>> /\ wire = "stop" /\ wire' = "none"
    BY <1>32, BusStopEffect DEF BusStop
  <2>2. Len(prom'.latch) < AddressLen
    BY <2>1, EmptyLatch
  <2>3. QED
    BY <1>32, <2>1, <2>2, EmptyLatch DEF BusStop, WireInv
<1>33. CASE WriteCycleEnds
  BY <1>33, TypeFacts DEF WriteCycleEnds
<1>34. QED
  BY <1>1, <1>2, <1>3, <1>4, <1>5, <1>6, <1>7, <1>8, <1>9, <1>10, <1>11, <1>12, <1>13,
      <1>14, <1>15, <1>16, <1>17, <1>18, <1>19, <1>20, <1>21, <1>22, <1>23, <1>24, <1>25,
      <1>26, <1>27, <1>28, <1>29, <1>30, <1>31, <1>32, <1>33 DEF Next, Cpu, Bus

\* What is in the cells.
LEMMA MemInvStep == ASSUME IInv, Next PROVE MemInv'
<1> USE DEF IInv, MemInv, Before, Stored, CallInv, WireInv, InWrite, InRead, Done, Step,
      Return, NoLocals, Finish, callVars, busVars
<1>1. CASE NextByte
  <2>1. cur \in Nat /\ (cur + 1) - 1 = cur /\ cur + 1 > 0
    BY DEF TypeOK
  <2>2. call.op = "write" /\ prom.mem = Cells(call, old, cur) /\ wire # "stop"
    BY <1>1 DEF NextByte
  <2>3. prom'.mem = Cells(call', old', cur' - 1) /\ cur' > 0
    BY <1>1, <2>1, <2>2 DEF NextByte
  <2>4. QED
    BY <1>1, <2>2, <2>3 DEF NextByte
<1>2. CASE AllWritten
  BY <1>2, TypeFacts DEF AllWritten
<1>3. CASE Cancelled
  BY <1>3, TypeFacts DEF Cancelled
<1>4. CASE EnterWrite
  BY <1>4, TypeFacts DEF EnterWrite
<1>5. CASE WriteStart
  BY <1>5, TypeFacts DEF WriteStart, Start
<1>6. CASE StartError
  <2>1. CASE Step("write_started", "write_start")
    BY <1>6, <2>1 DEF StartError
  <2>2. CASE Step("read_started", "read_start")
    BY <1>6, <2>2 DEF StartError
  <2>3. QED
    BY <1>6, <2>1, <2>2 DEF StartError
<1>7. CASE SendAddress
  BY <1>7, TypeFacts DEF SendAddress
<1>8. CASE RestartWrite
  BY <1>8, TypeFacts DEF RestartWrite
<1>9. CASE AddressNak
  BY <1>9, TypeFacts DEF AddressNak
<1>10. CASE Retry
  BY <1>10, TypeFacts DEF Retry
<1>11. CASE GiveUp
  BY <1>11, TypeFacts DEF GiveUp
<1>12. CASE Delay
  BY <1>12, TypeFacts DEF Delay
<1>13. CASE SendByte
  BY <1>13, TypeFacts DEF SendByte
<1>14. CASE Nak
  BY <1>14, TypeFacts DEF Nak
<1>15. CASE StopFail
  BY <1>15, TypeFacts DEF StopFail
<1>16. CASE WriteStop
  BY <1>16, TypeFacts DEF WriteStop
<1>17. CASE WriteReturns
  BY <1>17, TypeFacts DEF WriteReturns
<1>18. CASE EnterRead
  BY <1>18, TypeFacts DEF EnterRead
<1>19. CASE ReadStart
  BY <1>19, TypeFacts DEF ReadStart, Start
<1>20. CASE RestartRead
  BY <1>20, TypeFacts DEF RestartRead
<1>21. CASE FirstRead
  BY <1>21, TypeFacts DEF FirstRead
<1>22. CASE ReadByte
  BY <1>22, TypeFacts DEF ReadByte
<1>23. CASE LastByte
  BY <1>23, TypeFacts DEF LastByte
<1>24. CASE ReadReturns
  BY <1>24, TypeFacts DEF ReadReturns
<1>25. CASE Call
  <2>1. PICK c \in FittingCalls :
           /\ call' = c
           /\ pc' = IF c.op = "read" THEN "i2c_write" ELSE "next"
    BY <1>25 DEF Call
  <2>2. /\ c.addr \in Address /\ prom.mem \in [Address -> Contents]
        /\ c.op \in {"read", "write"}
    BY FittingCallParts, PromParts DEF TypeOK
  <2>3. Cells(c, prom.mem, 0) = prom.mem
    BY <2>2, CellsNone
  <2>4. QED
    BY <1>25, <2>1, <2>2, <2>3 DEF Call
<1>26. CASE Cancel
  BY <1>26, TypeFacts DEF Cancel
<1>27. CASE BusStart
  BY <1>27, TypeFacts DEF BusStart
<1>28. CASE BusError
  BY <1>28, TypeFacts DEF BusError
<1>29. CASE BusAddress
  <2>1. prom'.mem = prom.mem
    <3>1. prom \in Prom /\ (wire = "addr_read") \in BOOLEAN
      BY DEF TypeOK
    <3>2. Addressed(prom, wire = "addr_read").mem = prom.mem
      BY <3>1, AddressedParts
    <3>3. QED
      BY <1>29, <3>2 DEF BusAddress
  <2>2. QED
    BY <1>29, <2>1 DEF BusAddress, WireInv, InWrite
<1>30. CASE BusSend
  <2>1. prom'.mem = prom.mem
    BY <1>30, ReceiveParts DEF BusSend, TypeOK
  <2>2. QED
    BY <1>30, <2>1 DEF BusSend, WireInv, InWrite
<1>31. CASE BusReceive
  <2>1. prom'.mem = prom.mem
    <3>1. prom \in Prom /\ lastrd \in BOOLEAN
      BY DEF TypeOK
    <3>2. QED
      BY <1>31, <3>1, SendParts DEF BusReceive
  <2>2. QED
    BY <1>31, <2>1 DEF BusReceive
<1>32. CASE BusStop
  <2>1. /\ UNCHANGED <<call, cur, old, pc, result, message>>
        /\ wire = "stop" /\ wire' = "none"
    BY <1>32 DEF BusStop
  <2>2. CASE call.op = "write"
    <3>1. pc = "write_stop" => prom'.mem = Cells(call, old, cur)
      <4>1. SUFFICES ASSUME pc = "write_stop"
                     PROVE  ~(Len(prom.latch) <= AddressLen)
        BY <1>32, BusStopEffect
      <4>2. prom.latch = MessageOf(call, cur) /\ cur > 0
        BY <2>1, <2>2, <4>1 DEF LatchInv, CallInv, InWrite
      <4>3. QED
        BY <2>2, <4>2, MessageType, EmptyLatch
    <3>2. \/ prom'.mem = prom.mem
          \/ cur > 0 /\ prom'.mem = Cells(call, old, cur)
      BY <1>32, BusStopEffect
    <3>3. pc \in {"stop_fail", "write_nak"} => prom'.mem = prom.mem
      <4>1. SUFFICES ASSUME pc \in {"stop_fail", "write_nak"}, prom.latch = MessageOf(call, cur),
                            cur > 0
                     PROVE  FALSE
        BY <1>32, BusStopEffect
      <4>2. Len(prom.latch) <= AddressLen
        BY <2>1, <4>1 DEF LatchInv
      <4>3. QED
        BY <2>2, <4>1, <4>2, MessageType, EmptyLatch
    <3>4. QED
      BY <2>1, <2>2, <3>1, <3>2, <3>3 DEF WireInv, CallInv, InWrite, InRead
  <2>3. CASE call.op = "read"
    <3>1. prom'.mem = prom.mem
      BY <1>32, <2>3, BusStopEffect
    <3>2. QED
      BY <2>1, <2>3, <3>1
  <2>4. QED
    BY <2>2, <2>3, TypeFacts
<1>33. CASE WriteCycleEnds
  BY <1>33, TypeFacts DEF WriteCycleEnds
<1>34. QED
  BY <1>1, <1>2, <1>3, <1>4, <1>5, <1>6, <1>7, <1>8, <1>9, <1>10, <1>11, <1>12, <1>13,
      <1>14, <1>15, <1>16, <1>17, <1>18, <1>19, <1>20, <1>21, <1>22, <1>23, <1>24, <1>25,
      <1>26, <1>27, <1>28, <1>29, <1>30, <1>31, <1>32, <1>33 DEF Next, Cpu, Bus

LEMMA InitIInv == ASSUME Init PROVE IInv
<1> DEFINE c0 == [op |-> "read", addr |-> 0, data |-> <<>>, len |-> 0]
<1>1. PICK c \in Contents :
        prom = [mem |-> [a \in Address |-> c], ptr |-> 0, latch |-> <<>>,
                sending |-> FALSE, busy |-> FALSE]
  BY DEF Init
<1>2. 0 \in Address /\ CELLS \in Nat /\ 0 \in Bytes /\ MaxLen \in Nat
  BY SerialPromAssumption, I2cAssumption DEF Address, Bytes
<1>3. prom \in Prom /\ old \in [Address -> Contents]
  BY <1>1, <1>2, EmptyLatch DEF Init, Prom, Bytes
<1>4. buf \in [0 .. MaxLen -> Bytes \cup {NoByte}]
  BY DEF Init, NoBytes
<1>5. {berr, ack, lastrd, cancel, present, excuse, cut} \subseteq BOOLEAN
  BY DEF Init
<1>6. TypeOK
  BY <1>2, <1>3, <1>4, <1>5, EmptyLatch DEF Init, TypeOK
<1>7. CallInv /\ WireInv
  BY <1>2 DEF Init, CallInv, WireInv, InWrite, InRead
<1>8. LatchInv
  BY <1>1, EmptyLatch DEF Init, LatchInv
<1>9. MemInv
  BY DEF Init, MemInv
<1>10. QED
  BY <1>6, <1>7, <1>8, <1>9 DEF IInv

LEMMA NextIInv == ASSUME IInv, [Next]_vars PROVE IInv'
<1>1. CASE Next
  BY <1>1, TypeOKStep, CallInvStep, WireInvStep, LatchInvStep, MemInvStep DEF IInv
<1>2. CASE UNCHANGED vars
  BY <1>2 DEF vars, IInv, TypeOK, CallInv, WireInv, LatchInv, MemInv, InWrite, InRead,
     Before, Stored
<1>3. QED
  BY <1>1, <1>2

LEMMA SpecIInv == Spec => []IInv
  BY InitIInv, NextIInv, PTL DEF Spec

-----------------------------------------------------------------------------
\* Every variable keeps its type, for every device, message and buffer.
THEOREM TypeCorrect == Spec => []TypeOK
<1>1. IInv => TypeOK
  BY DEF IInv
<1>2. QED
  BY <1>1, SpecIInv, PTL

LEMMA MemInvSuffices == ASSUME IInv PROVE WrittenInOrder
<1> USE DEF IInv, MemInv, CallInv, Before, Stored, InWrite
<1>1. \A n : Written(n) = Cells(call, old, n)
  BY DEF Written, Cells
<1>2. cur \in Nat
  BY DEF TypeOK
<1>3. CASE call.op = "write"
  <2>1. \/ prom.mem = Cells(call, old, cur)
        \/ cur > 0 /\ prom.mem = Cells(call, old, cur - 1)
    BY <1>3 DEF TypeOK, InRead
  <2>2. prom.mem \in {Written(n) : n \in {cur, cur - 1} \cap Nat}
    BY <1>1, <1>2, <2>1
  <2>3. pc = "next" \/ result = "true" => prom.mem = Written(cur)
    BY <1>1, <1>3
  <2>4. QED
    BY <1>3, <2>2, <2>3 DEF WrittenInOrder
<1>4. CASE call.op # "write"
  BY <1>4 DEF WrittenInOrder
<1>5. QED
  BY <1>3, <1>4

\* Whatever the bus, the device or a cancel do, eeprom_write writes its bytes in
\* order, each at its own address and no other cell, and eeprom_read writes
\* none: for every size of device, addressed by one byte or by two, and every
\* length of buffer.
THEOREM WriteSafe == Spec => []WrittenInOrder
  BY SpecIInv, MemInvSuffices, PTL

-----------------------------------------------------------------------------
(* Why calls fail, and what eeprom_read returns.                           *)
(* Each of the three properties needs a strengthening of its own, on top   *)
(* of the invariant above.  The last two hold for reads of one byte or     *)
(* more: i2c_read with a length of 0 starts a byte, sets no LASTRD and     *)
(* stores the byte.                                                        *)

\* A failure has an excuse: a cancel is one, and so is a missing acknowledge but
\* that of the first try, which may fall into the write cycle before.
FailInv ==
    /\ cancel => excuse \/ pc \in {"idle", "next", "i2c_write", "i2c_read"}
    /\ pc \in {"write_start", "write_started", "write_addr", "write_nak", "write_delay",
               "write_byte"} => retry_count \in {1, 2}
    /\ retry_count = 1 /\ pc \in {"write_start", "write_started", "write_addr", "write_byte"} =>
         ~prom.busy
    /\ call.op = "read" /\ (pc = "write_stop" \/ InRead) => ~prom.busy
    /\ pc \in {"write_byte", "read_addr"} /\ wire = "none" /\ ~berr /\ ~ack => excuse
    /\ pc = "write_addr" /\ wire = "none" /\ ~berr /\ ~ack /\ retry_count = 1 => excuse
    /\ pc = "write_nak" /\ retry_count = 1 => excuse
    /\ pc = "stop_fail" => excuse
    /\ FailsForAReason

\* LASTRD is set while the last byte is received, and the device sends until then.
LastInv ==
    /\ pc # "idle" /\ call.op = "read" => call.len > 0
    /\ pc \in {"i2c_read", "read_start"} => wire = "none"
    /\ pc \in {"read_started", "read_addr"} => cur_byte = 0
    /\ (pc = "write_stop" /\ wire = "none")
         \/ pc \in {"i2c_read", "read_start", "read_started", "read_addr"} => ~lastrd
    /\ pc = "read_byte" => cur_byte < call.len
    /\ pc = "read_byte" /\ wire = "receive" => prom.sending
    /\ pc = "read_byte" /\ (wire = "receive" \/ ~berr) => (lastrd <=> cur_byte + 1 = call.len)
    /\ pc = "read_byte" /\ wire = "none" /\ ~berr => (prom.sending <=> cur_byte + 1 < call.len)
    /\ pc = "read_byte" /\ wire = "none" /\ berr => ~lastrd
    /\ ReleasedBeforeStop

\* The device's counter is at the byte that the read has come to.
CounterInv ==
    /\ call.op = "read" /\ (pc = "write_stop" \/ pc \in {"i2c_read", "read_start", "read_started",
                                                      "read_addr"}) => prom.ptr = call.addr
    /\ pc = "read_byte" /\ wire = "receive" => prom.ptr = call.addr + cur_byte
    /\ pc = "read_byte" /\ wire = "none" /\ ~berr =>
         /\ i2dat = old[call.addr + cur_byte]
         /\ cur_byte + 1 < call.len => prom.ptr = call.addr + cur_byte + 1
    /\ pc = "read_byte" /\ wire = "none" /\ berr => prom.ptr = call.addr

\* The buffer holds what was read so far.
StoredInv ==
    /\ pc = "read_byte" => \A k \in 0 .. cur_byte - 1 : buf[k] = old[call.addr + k]
    /\ pc = "read_stop" \/ (pc = "idle" /\ result = "true" /\ call.op = "read") =>
         \A k \in 0 .. call.len - 1 : buf[k] = old[call.addr + k]

\* All of it unless a bus error has cut off the read.
ReadInv == ~cut => CounterInv /\ StoredInv

-----------------------------------------------------------------------------
(* What the steps of the bus do to the device.                             *)

\* The address moves neither the cells nor the counter.
LEMMA BusAddressEffect ==
  ASSUME IInv, BusAddress
  PROVE  /\ UNCHANGED <<prom.mem, prom.ptr, prom.busy>>
         /\ ack' => present /\ ~prom.busy
         /\ ~ack' => ~present \/ prom.busy
<1>1. prom \in Prom /\ (wire = "addr_read") \in BOOLEAN
  BY DEF IInv, TypeOK
<1>2. /\ Addressed(prom, wire = "addr_read").mem = prom.mem
      /\ Addressed(prom, wire = "addr_read").ptr = prom.ptr
      /\ Addressed(prom, wire = "addr_read").busy = prom.busy
  BY <1>1, AddressedParts
<1>3. ack' = (present /\ ~prom.busy)
  BY DEF BusAddress
<1>4. prom' = IF ack' THEN Addressed(prom, wire = "addr_read") ELSE prom
  BY DEF BusAddress
<1>5. QED
  BY <1>2, <1>3, <1>4

\* A STOP of a read, or of a transaction that failed, moves neither the cells
\* nor the counter and starts no write cycle.
LEMMA BusStopShort ==
  ASSUME IInv, BusStop, call.op = "read" \/ pc \in {"stop_fail", "write_nak", "read_stop"}
  PROVE  /\ UNCHANGED <<prom.mem, prom.ptr, prom.busy>>
         /\ prom'.sending => prom.sending
<1>1. prom \in Prom /\ wire = "stop"
  BY DEF IInv, TypeOK, BusStop
<1>2. Len(prom.latch) <= AddressLen
  BY <1>1, EndOfMessage, EmptyLatch DEF IInv, LatchInv
<1>3. /\ Stopped(prom).mem = prom.mem /\ Stopped(prom).ptr = prom.ptr
      /\ Stopped(prom).busy = prom.busy /\ Stopped(prom).sending = FALSE
  BY <1>1, <1>2, StoppedShort
<1>4. prom' = IF present THEN Stopped(prom) ELSE prom
  BY DEF BusStop
<1>5. QED
  BY <1>3, <1>4

\* Every failure has an excuse.
LEMMA FailInvStep == ASSUME IInv, FailInv, Next PROVE FailInv'
<1> USE DEF IInv, FailInv, FailsForAReason, CallInv, WireInv, LatchInv, Done, InRead,
      Step, Return, NoLocals, Finish, callVars, busVars
<1>1. CASE NextByte
  BY <1>1, TypeFacts DEF NextByte
<1>2. CASE AllWritten
  BY <1>2, TypeFacts DEF AllWritten
<1>3. CASE Cancelled
  BY <1>3, TypeFacts DEF Cancelled
<1>4. CASE EnterWrite
  BY <1>4, TypeFacts DEF EnterWrite
<1>5. CASE WriteStart
  BY <1>5, TypeFacts DEF WriteStart, Start
<1>6. CASE StartError
  <2>1. CASE Step("write_started", "write_start")
    BY <1>6, <2>1 DEF StartError
  <2>2. CASE Step("read_started", "read_start")
    BY <1>6, <2>2 DEF StartError
  <2>3. QED
    BY <1>6, <2>1, <2>2 DEF StartError
<1>7. CASE SendAddress
  <2>1. CASE Step("write_started", "write_addr") /\ wire' = "addr_write"
    BY <1>7, <2>1 DEF SendAddress
  <2>2. CASE Step("read_started", "read_addr") /\ wire' = "addr_read"
    BY <1>7, <2>2 DEF SendAddress
  <2>3. QED
    BY <1>7, <2>1, <2>2 DEF SendAddress
<1>8. CASE RestartWrite
  BY <1>8, TypeFacts DEF RestartWrite
<1>9. CASE AddressNak
  BY <1>9, TypeFacts DEF AddressNak
<1>10. CASE Retry
  BY <1>10, TypeFacts DEF Retry
<1>11. CASE GiveUp
  BY <1>11, TypeFacts DEF GiveUp
<1>12. CASE Delay
  BY <1>12, TypeFacts DEF Delay
<1>13. CASE SendByte
  BY <1>13, TypeFacts DEF SendByte
<1>14. CASE Nak
  BY <1>14, TypeFacts DEF Nak
<1>15. CASE StopFail
  BY <1>15, TypeFacts DEF StopFail
<1>16. CASE WriteStop
  BY <1>16, TypeFacts DEF WriteStop
<1>17. CASE WriteReturns
  BY <1>17, TypeFacts DEF WriteReturns
<1>18. CASE EnterRead
  BY <1>18, TypeFacts DEF EnterRead
<1>19. CASE ReadStart
  BY <1>19, TypeFacts DEF ReadStart, Start
<1>20. CASE RestartRead
  BY <1>20, TypeFacts DEF RestartRead
<1>21. CASE FirstRead
  BY <1>21, TypeFacts DEF FirstRead
<1>22. CASE ReadByte
  BY <1>22, TypeFacts DEF ReadByte
<1>23. CASE LastByte
  BY <1>23, TypeFacts DEF LastByte
<1>24. CASE ReadReturns
  BY <1>24, TypeFacts DEF ReadReturns
<1>25. CASE Call
  <2>1. PICK c \in FittingCalls :
           /\ call' = c
           /\ pc' = IF c.op = "read" THEN "i2c_write" ELSE "next"
    BY <1>25 DEF Call
  <2>2. QED
    BY <1>25, <2>1 DEF Call
<1>26. CASE Cancel
  BY <1>26, TypeFacts DEF Cancel
<1>27. CASE BusStart
  BY <1>27, TypeFacts DEF BusStart
<1>28. CASE BusError
  BY <1>28, TypeFacts DEF BusError
<1>29. CASE BusAddress
  <2>1. /\ UNCHANGED <<pc, call, result, retry_count, cancel>> /\ wire' = "none"
        /\ wire \in {"addr_write", "addr_read"}
    BY <1>29 DEF BusAddress
  <2>2. excuse' = (excuse \/ ~present)
    BY <1>29 DEF BusAddress
  <2>3. (excuse => excuse') /\ (~present => excuse')
    BY <2>2
  <2>4. prom'.busy = prom.busy /\ (~ack' => ~present \/ prom.busy)
    BY <1>29, BusAddressEffect
  <2>5. QED
    BY <2>1, <2>3, <2>4
<1>30. CASE BusSend
  <2>1. prom'.busy = prom.busy
    BY <1>30, ReceiveParts DEF BusSend, TypeOK
  <2>2. excuse' = (excuse \/ ~ack')
    BY <1>30 DEF BusSend
  <2>3. (excuse => excuse') /\ (~ack' => excuse')
    BY <2>2
  <2>4. QED
    BY <1>30, <2>1, <2>3 DEF BusSend
<1>31. CASE BusReceive
  <2>1. prom'.busy = prom.busy
    <3>1. prom \in Prom /\ lastrd \in BOOLEAN
      BY DEF TypeOK
    <3>2. QED
      BY <1>31, <3>1, SendParts DEF BusReceive
  <2>2. QED
    BY <1>31, <2>1 DEF BusReceive
<1>32. CASE BusStop
  <2>1. UNCHANGED <<pc, call, result, retry_count, cancel, excuse>> /\ wire = "stop"
    BY <1>32 DEF BusStop
  <2>2. call.op = "read" => prom'.busy = prom.busy
    BY <1>32, BusStopShort
  <2>3. wire' = "none"
    BY <1>32 DEF BusStop
  <2>4. QED
    BY <2>1, <2>2, <2>3
<1>33. CASE WriteCycleEnds
  BY <1>33, TypeFacts DEF WriteCycleEnds
<1>34. QED
  BY <1>1, <1>2, <1>3, <1>4, <1>5, <1>6, <1>7, <1>8, <1>9, <1>10, <1>11, <1>12, <1>13,
      <1>14, <1>15, <1>16, <1>17, <1>18, <1>19, <1>20, <1>21, <1>22, <1>23, <1>24, <1>25,
      <1>26, <1>27, <1>28, <1>29, <1>30, <1>31, <1>32, <1>33 DEF Next, Cpu, Bus

\* No read of nothing.
LEMMA FittingReads ==
  ASSUME 0 \notin ReadLens, NEW c \in FittingCalls, c.op = "read"
  PROVE  c.len > 0
<1>1. c \in [op : {"read"}, addr : Address, data : {<<>>}, len : ReadLens]
  BY DEF FittingCalls, Calls
<1>2. c.len \in ReadLens /\ ReadLens \subseteq Nat
  BY <1>1, I2cAssumption
<1>3. c.len # 0 /\ c.len \in Nat
  BY <1>2
<1>4. QED
  BY <1>3

\* LASTRD and the device.
LEMMA LastInvStep == ASSUME IInv, LastInv, 0 \notin ReadLens, Next PROVE LastInv'
<1> USE DEF IInv, LastInv, ReleasedBeforeStop, CallInv, WireInv, LatchInv, Done, InRead,
      Step, Return, NoLocals, Finish, callVars, busVars
<1>1. CASE NextByte
  BY <1>1, TypeFacts DEF NextByte
<1>2. CASE AllWritten
  BY <1>2, TypeFacts DEF AllWritten
<1>3. CASE Cancelled
  BY <1>3, TypeFacts DEF Cancelled
<1>4. CASE EnterWrite
  BY <1>4, TypeFacts DEF EnterWrite
<1>5. CASE WriteStart
  BY <1>5, TypeFacts DEF WriteStart, Start
<1>6. CASE StartError
  <2>1. CASE Step("write_started", "write_start")
    BY <1>6, <2>1 DEF StartError
  <2>2. CASE Step("read_started", "read_start")
    BY <1>6, <2>2 DEF StartError
  <2>3. QED
    BY <1>6, <2>1, <2>2 DEF StartError
<1>7. CASE SendAddress
  <2>1. CASE Step("write_started", "write_addr") /\ wire' = "addr_write"
    BY <1>7, <2>1 DEF SendAddress
  <2>2. CASE Step("read_started", "read_addr") /\ wire' = "addr_read"
    BY <1>7, <2>2 DEF SendAddress
  <2>3. QED
    BY <1>7, <2>1, <2>2 DEF SendAddress
<1>8. CASE RestartWrite
  BY <1>8, TypeFacts DEF RestartWrite
<1>9. CASE AddressNak
  BY <1>9, TypeFacts DEF AddressNak
<1>10. CASE Retry
  BY <1>10, TypeFacts DEF Retry
<1>11. CASE GiveUp
  BY <1>11, TypeFacts DEF GiveUp
<1>12. CASE Delay
  BY <1>12, TypeFacts DEF Delay
<1>13. CASE SendByte
  BY <1>13, TypeFacts DEF SendByte
<1>14. CASE Nak
  BY <1>14, TypeFacts DEF Nak
<1>15. CASE StopFail
  BY <1>15, TypeFacts DEF StopFail
<1>16. CASE WriteStop
  BY <1>16, TypeFacts DEF WriteStop
<1>17. CASE WriteReturns
  BY <1>17, TypeFacts DEF WriteReturns
<1>18. CASE EnterRead
  BY <1>18, TypeFacts DEF EnterRead
<1>19. CASE ReadStart
  BY <1>19, TypeFacts DEF ReadStart, Start
<1>20. CASE RestartRead
  BY <1>20, TypeFacts DEF RestartRead
<1>21. CASE FirstRead
  <2>1. /\ pc = "read_addr" /\ pc' = "read_byte" /\ wire' = "receive"
        /\ UNCHANGED <<call, cur_byte, prom>> /\ cur_byte = 0 /\ call.len > 0
        /\ ~lastrd /\ prom.sending /\ call.len \in Nat
    BY <1>21, TypeFacts, I2cAssumption DEF FirstRead
  <2>2. lastrd' = (lastrd \/ call.len = 1)
    BY <1>21 DEF FirstRead
  <2>3. lastrd' <=> lastrd \/ call.len = 1
    BY <2>2
  <2>4. lastrd' <=> cur_byte + 1 = call.len
    BY <2>1, <2>3
  <2>5. QED
    BY <2>1, <2>4
<1>22. CASE ReadByte
  <2>1. /\ pc = "read_byte" /\ pc' = "read_byte" /\ wire = "none" /\ wire' = "receive"
        /\ UNCHANGED <<call, prom, berr>> /\ cur_byte' = cur_byte + 1 /\ ~berr
        /\ cur_byte + 1 < call.len /\ prom.sending /\ cur_byte \in Nat /\ call.len \in Nat
    BY <1>22, TypeFacts, I2cAssumption DEF ReadByte, TypeOK
  <2>2. lastrd' = (lastrd \/ call.len = cur_byte + 2)
    BY <1>22 DEF ReadByte
  <2>3. lastrd' <=> lastrd \/ call.len = cur_byte + 2
    BY <2>2
  <2>4. lastrd' <=> cur_byte' + 1 = call.len
    BY <2>1, <2>3
  <2>5. QED
    BY <2>1, <2>4
<1>23. CASE LastByte
  <2>1. /\ pc = "read_byte" /\ pc' = "read_stop" /\ wire = "none" /\ wire' = "stop"
        /\ UNCHANGED <<call, prom>> /\ cur_byte \in Nat /\ call.len \in Nat
        /\ call.len <= cur_byte + 1 /\ ~berr
    BY <1>23, TypeFacts, I2cAssumption DEF LastByte, TypeOK
  <2>2. ~prom.sending
    BY <2>1
  <2>3. QED
    BY <2>1, <2>2
<1>24. CASE ReadReturns
  BY <1>24, TypeFacts DEF ReadReturns
<1>25. CASE Call
  <2>1. PICK c \in FittingCalls :
           /\ call' = c
           /\ pc' = IF c.op = "read" THEN "i2c_write" ELSE "next"
    BY <1>25 DEF Call
  <2>2. c.op = "read" => c.len > 0
    BY FittingReads
  <2>3. QED
    BY <1>25, <2>1, <2>2 DEF Call
<1>26. CASE Cancel
  BY <1>26, TypeFacts DEF Cancel
<1>27. CASE BusStart
  BY <1>27, TypeFacts DEF BusStart
<1>28. CASE BusError
  BY <1>28, TypeFacts DEF BusError
<1>29. CASE BusAddress
  BY <1>29, TypeFacts DEF BusAddress
<1>30. CASE BusSend
  BY <1>30, TypeFacts DEF BusSend
<1>31. CASE BusReceive
  <2>1. prom \in Prom /\ lastrd \in BOOLEAN /\ wire = "receive" /\ wire' = "none"
    BY <1>31 DEF BusReceive, TypeOK
  <2>2. prom'.sending = (prom.sending /\ ~lastrd)
    BY <1>31, <2>1, SendParts DEF BusReceive
  <2>3. prom'.sending <=> prom.sending /\ ~lastrd
    BY <2>2
  <2>4. UNCHANGED <<pc, call, cur_byte, lastrd>> /\ ~berr'
    BY <1>31 DEF BusReceive
  <2>5. pc = "read_byte" => cur_byte \in Nat /\ call.len \in Nat
    BY TypeFacts, I2cAssumption DEF TypeOK
  <2>6. pc = "read_byte" => (prom'.sending <=> cur_byte + 1 < call.len)
    BY <2>1, <2>3, <2>5
  <2>7. QED
    BY <2>1, <2>3, <2>4, <2>6
<1>32. CASE BusStop
  <2>1. UNCHANGED <<pc, call, cur_byte>> /\ wire = "stop" /\ wire' = "none" /\ ~lastrd'
    BY <1>32 DEF BusStop
  <2>2. pc = "read_stop" /\ prom'.sending => prom.sending
    BY <1>32, BusStopShort
  <2>3. QED
    BY <2>1, <2>2
<1>33. CASE WriteCycleEnds
  BY <1>33, TypeFacts DEF WriteCycleEnds
<1>34. QED
  BY <1>1, <1>2, <1>3, <1>4, <1>5, <1>6, <1>7, <1>8, <1>9, <1>10, <1>11, <1>12, <1>13,
      <1>14, <1>15, <1>16, <1>17, <1>18, <1>19, <1>20, <1>21, <1>22, <1>23, <1>24, <1>25,
      <1>26, <1>27, <1>28, <1>29, <1>30, <1>31, <1>32, <1>33 DEF Next, Cpu, Bus

\* The counter does not wrap inside a call that fits the device.
LEMMA ModSmall == ASSUME NEW n \in Nat \ {0}, NEW x \in 0 .. n - 1 PROVE x % n = x
  OBVIOUS

LEMMA Numbers ==
  ASSUME IInv
  PROVE  /\ call.addr \in Nat /\ call.len \in Nat /\ cur_byte \in Nat
         /\ CELLS \in Nat /\ call.addr + call.len <= CELLS /\ call.len <= MaxLen
BY TypeFacts, SerialPromAssumption, I2cAssumption DEF IInv, TypeOK, CallInv, Address

\* The counter of the device.
LEMMA CounterInvStep == ASSUME IInv, LastInv, ~cut => CounterInv, ~cut', Next PROVE CounterInv'
<1> USE DEF IInv, CounterInv, LastInv, CallInv, WireInv, Done, InRead, Step, Return,
      NoLocals, Finish, callVars, busVars
<1>1. CASE NextByte
  BY <1>1, TypeFacts DEF NextByte
<1>2. CASE AllWritten
  BY <1>2, TypeFacts DEF AllWritten
<1>3. CASE Cancelled
  BY <1>3, TypeFacts DEF Cancelled
<1>4. CASE EnterWrite
  BY <1>4, TypeFacts DEF EnterWrite
<1>5. CASE WriteStart
  BY <1>5, TypeFacts DEF WriteStart, Start
<1>6. CASE StartError
  <2>1. CASE Step("write_started", "write_start")
    BY <1>6, <2>1 DEF StartError
  <2>2. CASE Step("read_started", "read_start")
    BY <1>6, <2>2 DEF StartError
  <2>3. QED
    BY <1>6, <2>1, <2>2 DEF StartError
<1>7. CASE SendAddress
  <2>1. CASE Step("write_started", "write_addr") /\ wire' = "addr_write"
    BY <1>7, <2>1 DEF SendAddress
  <2>2. CASE Step("read_started", "read_addr") /\ wire' = "addr_read"
    BY <1>7, <2>2 DEF SendAddress
  <2>3. QED
    BY <1>7, <2>1, <2>2 DEF SendAddress
<1>8. CASE RestartWrite
  BY <1>8, TypeFacts DEF RestartWrite
<1>9. CASE AddressNak
  BY <1>9, TypeFacts DEF AddressNak
<1>10. CASE Retry
  BY <1>10, TypeFacts DEF Retry
<1>11. CASE GiveUp
  BY <1>11, TypeFacts DEF GiveUp
<1>12. CASE Delay
  BY <1>12, TypeFacts DEF Delay
<1>13. CASE SendByte
  BY <1>13, TypeFacts DEF SendByte
<1>14. CASE Nak
  BY <1>14, TypeFacts DEF Nak
<1>15. CASE StopFail
  BY <1>15, TypeFacts DEF StopFail
<1>16. CASE WriteStop
  <2>1. /\ UNCHANGED <<call, prom, message, cut>> /\ pc' = "write_stop" /\ wire' = "stop"
        /\ pc \in {"write_addr", "write_byte"}
    BY <1>16 DEF WriteStop
  <2>2. SUFFICES ASSUME call.op = "read" PROVE prom.ptr = call.addr
    BY <2>1
  <2>3. prom.latch = AddressBytes(call.addr)
    BY <2>1, <2>2, LatchInvStep DEF Next, Cpu, LatchInv, CallInv, InWrite, MessageOf
  <2>4. QED
    BY <2>3, TypeFacts, AddressBytesType, EmptyLatch DEF LatchInv
<1>17. CASE WriteReturns
  BY <1>17, TypeFacts DEF WriteReturns
<1>18. CASE EnterRead
  BY <1>18, TypeFacts DEF EnterRead
<1>19. CASE ReadStart
  BY <1>19, TypeFacts DEF ReadStart, Start
<1>20. CASE RestartRead
  BY <1>20, TypeFacts DEF RestartRead
<1>21. CASE FirstRead
  <2>1. call.addr + cur_byte = call.addr
    BY <1>21, TypeFacts, SerialPromAssumption DEF FirstRead, Address
  <2>2. QED
    BY <1>21, <2>1, TypeFacts DEF FirstRead
<1>22. CASE ReadByte
  <2>1. /\ call.addr \in Nat /\ call.len \in Nat /\ cur_byte \in Nat
        /\ CELLS \in Nat /\ call.addr + call.len <= CELLS /\ call.len <= MaxLen
    BY Numbers
  <2>2. /\ pc' = "read_byte" /\ wire' = "receive" /\ cur_byte' = cur_byte + 1
        /\ UNCHANGED <<call, prom, old>> /\ prom.ptr = call.addr + cur_byte + 1
    BY <1>22, <2>1 DEF ReadByte
  <2>3. prom'.ptr = call'.addr + cur_byte'
    BY <2>1, <2>2
  <2>4. QED
    BY <2>2, <2>3
<1>23. CASE LastByte
  BY <1>23, TypeFacts DEF LastByte
<1>24. CASE ReadReturns
  BY <1>24, TypeFacts DEF ReadReturns
<1>25. CASE Call
  <2>1. PICK c \in FittingCalls :
           /\ call' = c
           /\ pc' = IF c.op = "read" THEN "i2c_write" ELSE "next"
    BY <1>25 DEF Call
  <2>2. QED
    BY <1>25, <2>1 DEF Call
<1>26. CASE Cancel
  BY <1>26, TypeFacts DEF Cancel
<1>27. CASE BusStart
  BY <1>27, TypeFacts DEF BusStart
<1>28. CASE BusError
  <2>1. call.addr + 0 = call.addr /\ cur_byte \in Nat
    BY Numbers
  <2>2. cut' = (cut \/ (wire = "receive" /\ cur_byte > 0))
    BY <1>28 DEF BusError
  <2>3. ~cut /\ ~(wire = "receive" /\ cur_byte > 0)
    BY <2>2
  <2>4. wire = "receive" => cur_byte = 0
    BY <2>1, <2>3
  <2>5. QED
    BY <1>28, <2>1, <2>3, <2>4 DEF BusError
<1>29. CASE BusAddress
  <2>1. prom'.ptr = prom.ptr
    BY <1>29, BusAddressEffect
  <2>2. QED
    BY <1>29, <2>1 DEF BusAddress
<1>30. CASE BusSend
  BY <1>30, TypeFacts DEF BusSend
<1>31. CASE BusReceive
  <2>1. /\ call.addr \in Nat /\ call.len \in Nat /\ cur_byte \in Nat
        /\ CELLS \in Nat /\ call.addr + call.len <= CELLS /\ call.len <= MaxLen
    BY Numbers
  <2>2. /\ UNCHANGED <<pc, call, old, cur_byte, cut>> /\ wire = "receive" /\ wire' = "none"
        /\ ~berr'
    BY <1>31 DEF BusReceive
  <2>3. CASE pc = "read_byte"
    <3>1. prom \in Prom /\ lastrd \in BOOLEAN /\ prom.sending
      BY <2>2, <2>3 DEF TypeOK
    <3>2. i2dat' = prom.mem[prom.ptr] /\ prom'.ptr = (prom.ptr + 1) % CELLS
      BY <1>31, <3>1, SendParts DEF BusReceive
    <3>3. prom.mem = old /\ prom.ptr = call.addr + cur_byte
      BY <2>2, <2>3 DEF MemInv, CallInv
    <3>4. cur_byte + 1 < call.len => prom'.ptr = call.addr + cur_byte + 1
      <4>1. SUFFICES ASSUME cur_byte + 1 < call.len
                     PROVE  (call.addr + cur_byte + 1) % CELLS = call.addr + cur_byte + 1
        BY <3>2, <3>3
      <4>2. /\ call.addr + cur_byte + 1 \in 0 .. CELLS - 1
            /\ CELLS \in Nat \ {0}
        BY <2>1, <4>1
      <4>3. QED
        BY <4>2, ModSmall
    <3>5. QED
      BY <2>2, <2>3, <3>2, <3>3, <3>4
  <2>4. CASE pc # "read_byte"
    BY <2>2, <2>4
  <2>5. QED
    BY <2>3, <2>4
<1>32. CASE BusStop
  <2>1. /\ UNCHANGED <<pc, call, old, cur_byte, cut, i2dat>> /\ wire = "stop" /\ wire' = "none"
        /\ pc # "read_byte"
    BY <1>32 DEF BusStop
  <2>2. call.op = "read" => prom'.ptr = prom.ptr
    BY <1>32, BusStopShort
  <2>3. QED
    BY <2>1, <2>2
<1>33. CASE WriteCycleEnds
  BY <1>33, TypeFacts DEF WriteCycleEnds
<1>34. QED
  BY <1>1, <1>2, <1>3, <1>4, <1>5, <1>6, <1>7, <1>8, <1>9, <1>10, <1>11, <1>12, <1>13,
      <1>14, <1>15, <1>16, <1>17, <1>18, <1>19, <1>20, <1>21, <1>22, <1>23, <1>24, <1>25,
      <1>26, <1>27, <1>28, <1>29, <1>30, <1>31, <1>32, <1>33 DEF Next, Cpu, Bus

\* The bytes in the buffer.
LEMMA StoredInvStep ==
  ASSUME IInv, LastInv, ~cut => CounterInv /\ StoredInv, ~cut', Next
  PROVE  StoredInv'
<1> USE DEF IInv, StoredInv, CounterInv, LastInv, CallInv, WireInv, Done, InRead, Step,
      Return, NoLocals, Finish, callVars, busVars
<1>1. CASE NextByte
  BY <1>1, TypeFacts DEF NextByte
<1>2. CASE AllWritten
  BY <1>2, TypeFacts DEF AllWritten
<1>3. CASE Cancelled
  BY <1>3, TypeFacts DEF Cancelled
<1>4. CASE EnterWrite
  BY <1>4, TypeFacts DEF EnterWrite
<1>5. CASE WriteStart
  BY <1>5, TypeFacts DEF WriteStart, Start
<1>6. CASE StartError
  <2>1. CASE Step("write_started", "write_start")
    BY <1>6, <2>1 DEF StartError
  <2>2. CASE Step("read_started", "read_start")
    BY <1>6, <2>2 DEF StartError
  <2>3. QED
    BY <1>6, <2>1, <2>2 DEF StartError
<1>7. CASE SendAddress
  <2>1. CASE Step("write_started", "write_addr") /\ wire' = "addr_write"
    BY <1>7, <2>1 DEF SendAddress
  <2>2. CASE Step("read_started", "read_addr") /\ wire' = "addr_read"
    BY <1>7, <2>2 DEF SendAddress
  <2>3. QED
    BY <1>7, <2>1, <2>2 DEF SendAddress
<1>8. CASE RestartWrite
  BY <1>8, TypeFacts DEF RestartWrite
<1>9. CASE AddressNak
  BY <1>9, TypeFacts DEF AddressNak
<1>10. CASE Retry
  BY <1>10, TypeFacts DEF Retry
<1>11. CASE GiveUp
  BY <1>11, TypeFacts DEF GiveUp
<1>12. CASE Delay
  BY <1>12, TypeFacts DEF Delay
<1>13. CASE SendByte
  BY <1>13, TypeFacts DEF SendByte
<1>14. CASE Nak
  BY <1>14, TypeFacts DEF Nak
<1>15. CASE StopFail
  BY <1>15, TypeFacts DEF StopFail
<1>16. CASE WriteStop
  BY <1>16, TypeFacts DEF WriteStop
<1>17. CASE WriteReturns
  BY <1>17, TypeFacts DEF WriteReturns
<1>18. CASE EnterRead
  BY <1>18, TypeFacts DEF EnterRead
<1>19. CASE ReadStart
  BY <1>19, TypeFacts DEF ReadStart, Start
<1>20. CASE RestartRead
  BY <1>20, TypeFacts DEF RestartRead
<1>21. CASE FirstRead
  BY <1>21, TypeFacts DEF FirstRead
<1>22. CASE ReadByte
  <2>1. /\ call.addr \in Nat /\ call.len \in Nat /\ cur_byte \in Nat
        /\ CELLS \in Nat /\ call.addr + call.len <= CELLS /\ call.len <= MaxLen
    BY Numbers
  <2>2. /\ pc' = "read_byte" /\ cur_byte' = cur_byte + 1 /\ UNCHANGED <<call, old>>
        /\ pc = "read_byte" /\ cur_byte < call.len
        /\ buf' = [buf EXCEPT ![cur_byte] = i2dat] /\ i2dat = old[call.addr + cur_byte]
        /\ buf \in [0 .. MaxLen -> Bytes \cup {NoByte}]
        /\ \A k \in 0 .. cur_byte - 1 : buf[k] = old[call.addr + k]
    BY <1>22, <2>1 DEF ReadByte, TypeOK
  <2>3. \A k \in 0 .. cur_byte : buf'[k] = old[call.addr + k]
    BY <2>1, <2>2, I2cAssumption
  <2>4. cur_byte' - 1 = cur_byte
    BY <2>1, <2>2
  <2>5. QED
    BY <2>2, <2>3, <2>4
<1>23. CASE LastByte
  <2>1. /\ call.addr \in Nat /\ call.len \in Nat /\ cur_byte \in Nat
        /\ CELLS \in Nat /\ call.addr + call.len <= CELLS /\ call.len <= MaxLen
    BY Numbers
  <2>2. /\ pc' = "read_stop" /\ UNCHANGED <<call, old>>
        /\ pc = "read_byte" /\ cur_byte < call.len /\ call.len <= cur_byte + 1
        /\ buf' = [buf EXCEPT ![cur_byte] = i2dat] /\ i2dat = old[call.addr + cur_byte]
        /\ buf \in [0 .. MaxLen -> Bytes \cup {NoByte}]
        /\ \A k \in 0 .. cur_byte - 1 : buf[k] = old[call.addr + k]
    BY <1>23, <2>1 DEF LastByte, TypeOK
  <2>3. \A k \in 0 .. cur_byte : buf'[k] = old[call.addr + k]
    BY <2>1, <2>2, I2cAssumption
  <2>4. call.len - 1 = cur_byte
    BY <2>1, <2>2
  <2>5. QED
    BY <2>2, <2>3, <2>4
<1>24. CASE ReadReturns
  BY <1>24, TypeFacts DEF ReadReturns
<1>25. CASE Call
  <2>1. PICK c \in FittingCalls :
           /\ call' = c
           /\ pc' = IF c.op = "read" THEN "i2c_write" ELSE "next"
    BY <1>25 DEF Call
  <2>2. QED
    BY <1>25, <2>1 DEF Call
<1>26. CASE Cancel
  BY <1>26, TypeFacts DEF Cancel
<1>27. CASE BusStart
  BY <1>27, TypeFacts DEF BusStart
<1>28. CASE BusError
  BY <1>28, TypeFacts DEF BusError
<1>29. CASE BusAddress
  BY <1>29, TypeFacts DEF BusAddress
<1>30. CASE BusSend
  BY <1>30, TypeFacts DEF BusSend
<1>31. CASE BusReceive
  BY <1>31, TypeFacts DEF BusReceive
<1>32. CASE BusStop
  BY <1>32, TypeFacts DEF BusStop
<1>33. CASE WriteCycleEnds
  BY <1>33, TypeFacts DEF WriteCycleEnds
<1>34. QED
  BY <1>1, <1>2, <1>3, <1>4, <1>5, <1>6, <1>7, <1>8, <1>9, <1>10, <1>11, <1>12, <1>13,
      <1>14, <1>15, <1>16, <1>17, <1>18, <1>19, <1>20, <1>21, <1>22, <1>23, <1>24, <1>25,
      <1>26, <1>27, <1>28, <1>29, <1>30, <1>31, <1>32, <1>33 DEF Next, Cpu, Bus

-----------------------------------------------------------------------------
LEMMA SpecFailInv == Spec => []FailInv
<1>1. Init => FailInv
  BY DEF Init, FailInv, FailsForAReason, InRead
<1>2. IInv /\ FailInv /\ [Next]_vars => FailInv'
  <2>1. ASSUME IInv, FailInv, Next PROVE FailInv'
    BY <2>1, FailInvStep
  <2>2. ASSUME FailInv, UNCHANGED vars PROVE FailInv'
    BY <2>2 DEF vars, FailInv, FailsForAReason, InRead
  <2>3. QED
    BY <2>1, <2>2
<1>3. QED
  BY <1>1, <1>2, SpecIInv, PTL DEF Spec

\* A call of eeprom_read or eeprom_write fails only if it was cancelled, a device
\* is missing or has refused a byte; never because of the write cycle of the
\* byte before, which the second try outlasts (retry_count, delay(10)).
THEOREM FailureExcused == Spec => []FailsForAReason
<1>1. FailInv => FailsForAReason
  BY DEF FailInv
<1>2. QED
  BY <1>1, SpecFailInv, PTL

LEMMA SpecLastInv == ASSUME 0 \notin ReadLens PROVE Spec => []LastInv
<1>1. Init => LastInv
  BY DEF Init, LastInv, ReleasedBeforeStop, InRead
<1>2. IInv /\ LastInv /\ [Next]_vars => LastInv'
  <2>1. ASSUME IInv, LastInv, Next PROVE LastInv'
    BY <2>1, LastInvStep
  <2>2. ASSUME LastInv, UNCHANGED vars PROVE LastInv'
    BY <2>2 DEF vars, LastInv, ReleasedBeforeStop, InRead
  <2>3. QED
    BY <2>1, <2>2
<1>3. QED
  BY <1>1, <1>2, SpecIInv, PTL DEF Spec

\* When i2c_read sends STOP the device has let go of the bus, for every length
\* of buffer but 0.
THEOREM DeviceReleased == ASSUME 0 \notin ReadLens PROVE Spec => []ReleasedBeforeStop
<1>1. LastInv => ReleasedBeforeStop
  BY DEF LastInv
<1>2. QED
  BY <1>1, SpecLastInv, PTL

LEMMA SpecReadInv == ASSUME 0 \notin ReadLens PROVE Spec => []ReadInv
<1>1. Init => ReadInv
  BY DEF Init, ReadInv, CounterInv, StoredInv
<1>2. IInv /\ LastInv /\ ReadInv /\ [Next]_vars => ReadInv'
  <2>1. ASSUME IInv, LastInv, ReadInv, Next PROVE ReadInv'
    BY <2>1, CounterInvStep, StoredInvStep DEF ReadInv
  <2>2. ASSUME ReadInv, UNCHANGED vars PROVE ReadInv'
    BY <2>2 DEF vars, ReadInv, CounterInv, StoredInv
  <2>3. QED
    BY <2>1, <2>2
<1>3. QED
  BY <1>1, <1>2, SpecIInv, SpecLastInv, PTL DEF Spec

\* If eeprom_read returns TRUE, and no bus error has cut off its read behind the
\* first byte, the buffer holds the cells that were asked for.
THEOREM ReadCorrect == ASSUME 0 \notin ReadLens PROVE Spec => []UncutReadIsMemory
<1>1. IInv /\ ReadInv => UncutReadIsMemory
  BY DEF IInv, TypeOK, MemInv, CallInv, ReadInv, StoredInv, UncutReadIsMemory,
     ReadIsMemory
<1>2. QED
  BY <1>1, SpecIInv, SpecReadInv, PTL
=============================================================================
