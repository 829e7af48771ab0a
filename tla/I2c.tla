-------------------------------- MODULE I2c --------------------------------
(***************************************************************************)
(* The I2C master of fx2lib (lib/i2c.c): i2c_write, i2c_read, and on top   *)
(* of them eeprom_write and eeprom_read, run against the I2C controller    *)
(* (I2CS, I2DAT), an EEPROM (SerialProm) and an interrupt routine that     *)
(* sets cancel_i2c_trans.  One caller calls eeprom_read and eeprom_write   *)
(* again and again.                                                        *)
(*                                                                         *)
(* The controller works on one thing at a time, named by `wire'; DONE = 1, *)
(* and STOP = 0, is wire = "none".  The functions poll it, and             *)
(* cancel_i2c_trans, in loops: a loop is a step that waits for either.     *)
(***************************************************************************)
EXTENDS SerialProm

CONSTANTS
    MaxLen,    \* longest buffer of a call
    ReadLens   \* lengths that eeprom_read is called with

ASSUME I2cAssumption ==
    MaxLen \in Nat /\ ReadLens \subseteq 0 .. MaxLen

VARIABLES
    \* the call of eeprom_read or eeprom_write
    call,    \* its arguments
    cur,     \* eeprom_write: cur_byte
    result,  \* what the last call returned, "none" during a call
    \* i2c_write and i2c_read
    pc,
    message, \* what i2c_write is to send
    cur_byte, retry_count,
    buf,     \* what i2c_read has stored, by index
    cancel,  \* cancel_i2c_trans
    \* the controller and the device
    wire,    \* what it is working on
    berr, ack, lastrd, i2dat,
    prom,
    present, \* is there a device?
    \* history
    old,     \* the cells at the start of the call
    excuse,  \* the call met a cancel or a device that did not acknowledge
    cut      \* a bus error cut off its read behind the first byte

callVars == <<call, cur, result, old>>
busVars  == <<wire, berr, ack, lastrd, i2dat, prom, present>>
vars == <<call, cur, result, pc, message, cur_byte, retry_count, buf, cancel,
          wire, berr, ack, lastrd, i2dat, prom, present, old, excuse, cut>>

Bytes  == 0 .. BYTE_VALUES - 1
NoByte == -1

Blocks == UNION {[1 .. n -> Contents] : n \in 0 .. MaxLen}

Calls ==
    {[op |-> "write", addr |-> a, data |-> d, len |-> Len(d)] :
        a \in Address, d \in Blocks}
    \cup [op : {"read"}, addr : Address, data : {<<>>}, len : ReadLens]

\* Calls that stay inside the device.
FittingCalls == {c \in Calls : c.addr + c.len <= CELLS}

NoBytes == [k \in 0 .. MaxLen |-> NoByte]

Init ==
    /\ call = [op |-> "read", addr |-> 0, data |-> <<>>, len |-> 0]
    /\ cur = 0 /\ result = "false" /\ pc = "idle"
    /\ message = <<>> /\ cur_byte = 0 /\ retry_count = 0
    /\ buf = NoBytes /\ cancel = FALSE
    /\ wire = "none" /\ berr = FALSE /\ ack = FALSE /\ lastrd = FALSE /\ i2dat = 0
    /\ \E c \in Contents :
         prom = [mem |-> [a \in Address |-> c], ptr |-> 0, latch |-> <<>>,
                 sending |-> FALSE, busy |-> FALSE]
    /\ present \in BOOLEAN
    /\ old = prom.mem /\ excuse = FALSE /\ cut = FALSE

-----------------------------------------------------------------------------
(* The controller and the device.                                          *)

\* START: the bus is taken, or BERR says that it could not be.
BusStart ==
    /\ wire = "start"
    /\ wire' = "none"
    /\ berr' \in BOOLEAN
    /\ UNCHANGED <<ack, lastrd, i2dat, prom, present>>
    /\ UNCHANGED callVars
    /\ UNCHANGED <<pc, message, cur_byte, retry_count, buf, cancel, excuse, cut>>

\* What the end of the work on a byte leaves alone.
Finish ==
    /\ wire' = "none"
    /\ UNCHANGED present /\ UNCHANGED callVars
    /\ UNCHANGED <<pc, message, cur_byte, retry_count, buf, cancel>>

\* BERR ends a transfer in the middle of a byte, which does not count.
BusError ==
    /\ wire \in {"addr_write", "addr_read", "send", "receive"}
    /\ Finish
    /\ berr' = TRUE /\ lastrd' = FALSE
    /\ cut' = (cut \/ (wire = "receive" /\ cur_byte > 0))
    /\ UNCHANGED <<ack, i2dat, prom, excuse>>

BusAddress ==
    /\ wire \in {"addr_write", "addr_read"}
    /\ Finish
    /\ berr' = FALSE
    /\ ack' = (present /\ ~prom.busy)
    /\ prom' = IF ack' THEN Addressed(prom, wire = "addr_read") ELSE prom
    /\ excuse' = (excuse \/ ~present)
    /\ UNCHANGED <<lastrd, i2dat, cut>>

\* The device may refuse a byte.
BusSend ==
    /\ wire = "send"
    /\ Finish
    /\ berr' = FALSE
    /\ ack' \in BOOLEAN
    /\ prom' = IF ack' THEN Receive(prom, i2dat) ELSE prom
    /\ excuse' = (excuse \/ ~ack')
    /\ UNCHANGED <<lastrd, i2dat, cut>>

\* The controller acknowledges the byte unless LASTRD is set.
BusReceive ==
    /\ wire = "receive"
    /\ Finish
    /\ berr' = FALSE
    /\ i2dat' = Sent(prom)
    /\ prom' = Send(prom, lastrd)
    /\ UNCHANGED <<ack, lastrd, excuse, cut>>

\* The controller clears LASTRD at the end of a transfer.
BusStop ==
    /\ wire = "stop"
    /\ Finish
    /\ lastrd' = FALSE
    /\ prom' = IF present THEN Stopped(prom) ELSE prom
    /\ UNCHANGED <<berr, ack, i2dat, excuse, cut>>

WriteCycleEnds ==
    /\ prom.busy
    /\ prom' = [prom EXCEPT !.busy = FALSE]
    /\ UNCHANGED <<wire, berr, ack, lastrd, i2dat, present>>
    /\ UNCHANGED callVars
    /\ UNCHANGED <<pc, message, cur_byte, retry_count, buf, cancel, excuse, cut>>

Bus == BusError \/ BusAddress \/ BusSend \/ BusReceive \/ BusStop

\* Somebody sets cancel_i2c_trans, in the middle of a call.
Cancel ==
    /\ pc # "idle" /\ ~cancel
    /\ cancel' = TRUE /\ excuse' = TRUE
    /\ UNCHANGED <<pc, message, cur_byte, retry_count, buf, cut>>
    /\ UNCHANGED callVars /\ UNCHANGED busVars

-----------------------------------------------------------------------------
(* eeprom_write and eeprom_read.                                           *)

\* A caller whose last call was cancelled does not call again while the STOP
\* of that call is still being sent.
Call ==
    /\ pc = "idle" /\ wire # "stop"
    /\ \E c \in FittingCalls :
         /\ call' = c
         /\ message' = IF c.op = "read" THEN AddressBytes(c.addr) ELSE <<>>
         /\ pc' = IF c.op = "read" THEN "i2c_write" ELSE "next"
    /\ cur' = 0 /\ result' = "none" /\ old' = prom.mem /\ excuse' = FALSE
    /\ cut' = FALSE /\ buf' = NoBytes
    /\ UNCHANGED <<cur_byte, retry_count, cancel>>
    /\ UNCHANGED busVars

\* Mutant: the address is not counted up.
NextByteSameAddress ==
    /\ pc = "next" /\ cur < call.len
    /\ message' = Append(AddressBytes(call.addr), call.data[cur + 1])
    /\ cur' = cur + 1
    /\ pc' = "i2c_write"
    /\ UNCHANGED <<call, result, old, cur_byte, retry_count, buf, cancel, excuse, cut>>
    /\ UNCHANGED busVars

\* eeprom_write, the loop: the address and one byte in a message ...
NextByte ==
    /\ pc = "next" /\ cur < call.len
    /\ message' = Append(AddressBytes(call.addr + cur), call.data[cur + 1])
    /\ cur' = cur + 1
    /\ pc' = "i2c_write"
    /\ UNCHANGED <<call, result, old, cur_byte, retry_count, buf, cancel, excuse, cut>>
    /\ UNCHANGED busVars

\* i2c_write and i2c_read have returned: their locals are gone.
NoLocals == message' = <<>> /\ cur_byte' = 0 /\ retry_count' = 0

Return(value) ==
    /\ pc' = "idle" /\ result' = value
    /\ NoLocals
    /\ UNCHANGED <<call, cur, old, buf, cancel, excuse, cut>>

\* ... until all are written.
AllWritten ==
    /\ pc = "next" /\ cur = call.len
    /\ Return("true")
    /\ UNCHANGED busVars

-----------------------------------------------------------------------------
(* i2c_write and i2c_read.                                                 *)

\* A step of theirs from one place to another.
Step(from, to) ==
    /\ pc = from /\ pc' = to
    /\ UNCHANGED callVars
    /\ UNCHANGED <<message, excuse, cut, berr, ack, i2dat, prom, present>>

\* Mutant: the loop of step 6 waits for DONE alone.
CancelledButInBytes ==
    /\ cancel
    /\ pc \in {"write_start", "write_addr", "write_nak", "write_stop",
               "read_start", "read_addr", "read_byte", "read_stop", "stop_fail"}
    /\ Return("false")
    /\ UNCHANGED busVars

\* CHECK_I2C_CANCEL(), also right behind the loops that wait for DONE or STOP.
\* Where it is missing, the function returns FALSE in any case.
Cancelled ==
    /\ cancel
    /\ pc \in {"write_start", "write_addr", "write_nak", "write_byte", "write_stop",
               "read_start", "read_addr", "read_byte", "read_stop", "stop_fail"}
    /\ Return("false")
    /\ UNCHANGED busVars

\* A wait is over with no cancel.
Done == wire = "none" /\ ~cancel

\* Mutant: one try.
EnterWriteOneTry ==
    /\ Step("i2c_write", "write_start")
    /\ retry_count' = 1 /\ cancel' = FALSE
    /\ UNCHANGED <<cur_byte, buf, wire, lastrd>>

EnterWrite ==
    /\ Step("i2c_write", "write_start")
    /\ retry_count' = 2 /\ cancel' = FALSE
    /\ UNCHANGED <<cur_byte, buf, wire, lastrd>>

EnterRead ==
    /\ Step("i2c_read", "read_start")
    /\ cancel' = FALSE
    /\ UNCHANGED <<retry_count, cur_byte, buf, wire, lastrd>>

\* 1. Set START=1.
Start(from, to) ==
    /\ ~cancel
    /\ Step(from, to)
    /\ cur_byte' = 0 /\ wire' = "start"
    /\ UNCHANGED <<retry_count, buf, cancel, lastrd>>

WriteStart == Start("write_start", "write_started")
ReadStart  == Start("read_start", "read_started")

\* If BERR=1, delay(10) and step 1 again.
StartError ==
    /\ wire = "none" /\ berr
    /\ \/ Step("write_started", "write_start")
       \/ Step("read_started", "read_start")
    /\ UNCHANGED <<retry_count, cur_byte, buf, cancel, wire, lastrd>>

\* 2. Write the address and the direction bit.
SendAddress ==
    /\ wire = "none" /\ ~berr
    /\ \/ Step("write_started", "write_addr") /\ wire' = "addr_write"
       \/ Step("read_started", "read_addr") /\ wire' = "addr_read"
    /\ UNCHANGED <<retry_count, cur_byte, buf, cancel, lastrd>>

\* If BERR=1, go to step 1.
RestartWrite ==
    /\ Done /\ berr
    /\ pc \in {"write_addr", "write_byte"} /\ Step(pc, "write_start")
    /\ UNCHANGED <<retry_count, cur_byte, buf, cancel, wire, lastrd>>

RestartRead ==
    /\ Done /\ berr
    /\ pc \in {"read_addr", "read_byte"} /\ Step(pc, "read_start")
    /\ UNCHANGED <<retry_count, cur_byte, buf, cancel, wire, lastrd>>

\* 4. If ACK=0, STOP: i2c_write tries the address again ...
AddressNak ==
    /\ Done /\ ~berr /\ ~ack
    /\ Step("write_addr", "write_nak")
    /\ wire' = "stop"
    /\ UNCHANGED <<retry_count, cur_byte, buf, cancel, lastrd>>

\* Mutant: the test for zero is left out.
RetryUnbounded ==
    /\ Done
    /\ Step("write_nak", "write_delay")
    /\ retry_count' = retry_count - 1
    /\ UNCHANGED <<cur_byte, buf, cancel, wire, lastrd>>

\* Mutant: the tries are not counted.
RetryUncounted ==
    /\ Done /\ retry_count > 1
    /\ Step("write_nak", "write_delay")
    /\ UNCHANGED <<retry_count, cur_byte, buf, cancel, wire, lastrd>>

Retry ==
    /\ Done /\ retry_count > 1
    /\ Step("write_nak", "write_delay")
    /\ retry_count' = retry_count - 1
    /\ UNCHANGED <<cur_byte, buf, cancel, wire, lastrd>>

GiveUp ==
    /\ Done /\ retry_count = 1 /\ pc = "write_nak"
    /\ Return("false")
    /\ UNCHANGED busVars

\* ... after delay(10), which outlasts the write cycle of an EEPROM.
Delay ==
    /\ ~prom.busy
    /\ Step("write_delay", "write_start")
    /\ UNCHANGED <<retry_count, cur_byte, buf, cancel, wire, lastrd>>

\* 5. Load I2DAT with a data byte.
SendByte ==
    /\ pc \in {"write_addr", "write_byte"} /\ Done /\ ~berr /\ ack
    /\ cur_byte < Len(message)
    /\ i2dat' = message[cur_byte + 1]
    /\ cur_byte' = cur_byte + 1
    /\ wire' = "send"
    /\ pc' = "write_byte"
    /\ UNCHANGED callVars
    /\ UNCHANGED <<message, retry_count, buf, cancel, excuse, cut, berr, ack, lastrd,
                   prom, present>>

\* 7. If ACK=0, STOP: anywhere but at i2c_write's address that is the end.
Nak ==
    /\ Done /\ ~berr /\ ~ack
    /\ pc \in {"write_byte", "read_addr"} /\ Step(pc, "stop_fail")
    /\ wire' = "stop"
    /\ UNCHANGED <<retry_count, cur_byte, buf, cancel, lastrd>>

StopFail ==
    /\ pc = "stop_fail" /\ Done
    /\ Return("false")
    /\ UNCHANGED busVars

\* 9. Set STOP=1.
WriteStop ==
    /\ pc \in {"write_addr", "write_byte"} /\ Done /\ ~berr /\ ack
    /\ cur_byte = Len(message)
    /\ Step(pc, "write_stop")
    /\ wire' = "stop"
    /\ UNCHANGED <<retry_count, cur_byte, buf, cancel, lastrd>>

\* i2c_write returns TRUE, to eeprom_write or to eeprom_read.
WriteReturns ==
    /\ Done
    /\ pc = "write_stop"
    /\ pc' = IF call.op = "write" THEN "next" ELSE "i2c_read"
    /\ NoLocals
    /\ UNCHANGED callVars /\ UNCHANGED busVars /\ UNCHANGED <<buf, cancel, excuse, cut>>

\* Mutant: LASTRD set a byte too early.
FirstReadEarly ==
    /\ Done /\ ~berr /\ ack
    /\ Step("read_addr", "read_byte")
    /\ lastrd' = (lastrd \/ call.len <= 2)
    /\ wire' = "receive"
    /\ UNCHANGED <<retry_count, cur_byte, buf, cancel>>

\* 5. Read I2DAT to start the first byte; LASTRD before if it is the only one.
FirstRead ==
    /\ Done /\ ~berr /\ ack
    /\ Step("read_addr", "read_byte")
    /\ lastrd' = (lastrd \/ call.len = 1)
    /\ wire' = "receive"
    /\ UNCHANGED <<retry_count, cur_byte, buf, cancel>>

\* Mutant: LASTRD is set only for reads of one byte.
ReadByteNoLast ==
    /\ Done /\ ~berr /\ call.len > cur_byte + 1
    /\ Step("read_byte", "read_byte")
    /\ buf' = [buf EXCEPT ![cur_byte] = i2dat]
    /\ cur_byte' = cur_byte + 1
    /\ wire' = "receive"
    /\ UNCHANGED <<retry_count, cancel, lastrd>>

\* 7., 10. Store a byte and start the next; LASTRD before the last one.
ReadByte ==
    /\ Done /\ ~berr /\ call.len > cur_byte + 1
    /\ Step("read_byte", "read_byte")
    /\ lastrd' = (lastrd \/ call.len = cur_byte + 2)
    /\ buf' = [buf EXCEPT ![cur_byte] = i2dat]
    /\ cur_byte' = cur_byte + 1
    /\ wire' = "receive"
    /\ UNCHANGED <<retry_count, cancel>>

\* 13., 14. Set STOP=1, and store the last byte.
LastByte ==
    /\ Done /\ ~berr /\ call.len <= cur_byte + 1
    /\ Step("read_byte", "read_stop")
    /\ buf' = [buf EXCEPT ![cur_byte] = i2dat]
    /\ wire' = "stop"
    /\ UNCHANGED <<retry_count, cur_byte, cancel, lastrd>>

ReadReturns ==
    /\ pc = "read_stop" /\ Done
    /\ Return("true")
    /\ UNCHANGED busVars

Cpu ==
    \/ NextByte \/ AllWritten \/ Cancelled
    \/ EnterWrite \/ WriteStart \/ StartError \/ SendAddress \/ RestartWrite
    \/ AddressNak \/ Retry \/ GiveUp \/ Delay \/ SendByte \/ Nak \/ StopFail
    \/ WriteStop \/ WriteReturns
    \/ EnterRead \/ ReadStart \/ RestartRead \/ FirstRead \/ ReadByte \/ LastByte
    \/ ReadReturns

Next == Call \/ Cancel \/ Cpu \/ BusStart \/ Bus \/ WriteCycleEnds

Spec == Init /\ [][Next]_vars

\* The CPU executes, and finds at once whether it has the bus; a write cycle
\* comes to its end.  The controller may hang for ever.
HangingSpec ==
    Spec /\ WF_vars(Cpu) /\ WF_vars(BusStart) /\ WF_vars(WriteCycleEnds)

-----------------------------------------------------------------------------
(* Properties.                                                             *)

\* Every variable has its type.
TypeOK ==
    /\ call \in Calls \cup {[op |-> "read", addr |-> 0, data |-> <<>>, len |-> 0]}
    /\ cur \in 0 .. MaxLen /\ result \in {"none", "true", "false"}
    /\ pc \in {"idle", "next", "i2c_write", "write_start", "write_started", "write_addr",
               "write_nak", "write_delay", "write_byte", "write_stop", "i2c_read",
               "read_start", "read_started", "read_addr", "read_byte", "read_stop",
               "stop_fail"}
    /\ message \in Seq(Bytes) /\ cur_byte \in 0 .. MaxLen + 3 /\ retry_count \in 0 .. 2
    /\ buf \in [0 .. MaxLen -> Bytes \cup {NoByte}] /\ cancel \in BOOLEAN
    /\ wire \in {"none", "start", "addr_write", "addr_read", "send", "receive", "stop"}
    /\ berr \in BOOLEAN /\ ack \in BOOLEAN /\ lastrd \in BOOLEAN /\ i2dat \in Bytes
    /\ prom \in Prom /\ present \in BOOLEAN
    /\ old \in [Address -> Contents] /\ excuse \in BOOLEAN /\ cut \in BOOLEAN

\* The cells once the first n bytes of the call are written.
Written(n) ==
    [a \in Address |-> IF a - call.addr \in 0 .. n - 1 THEN call.data[a - call.addr + 1]
                       ELSE old[a]]

\* Whatever goes wrong, eeprom_write writes its bytes in order, each at its
\* own address and no cell besides; when it returns TRUE all are written, and
\* back in its loop those before cur_byte are.  A byte is in doubt only while
\* its message is on the way, or if it was cut off.
WrittenInOrder ==
    IF call.op = "write"
    THEN /\ prom.mem \in {Written(n) : n \in {cur, cur - 1} \cap Nat}
         /\ pc = "next" \/ result = "true" => prom.mem = Written(cur)
         /\ result = "true" => cur = call.len
    ELSE prom.mem = old

\* If eeprom_read returns TRUE, the buffer holds the cells that were asked for
\* (i2c.h: "Writes the address of the data to read then reads len bytes into
\* buf", "addr address of bytes to start reading").
ReadIsMemory ==
    call.op = "read" /\ result = "true" =>
        \A k \in 0 .. call.len - 1 : buf[k] = prom.mem[call.addr + k]

\* So it does at least if no bus error cut off the read behind its first byte.
UncutReadIsMemory == ~cut => ReadIsMemory

\* A call fails only if it was cancelled or the device did not acknowledge:
\* the write cycle of the byte before, in which the EEPROM is deaf, does not
\* make eeprom_write or eeprom_read fail (retry_count and delay(10)).
FailsForAReason == pc = "idle" /\ result = "false" /\ call.len > 0 => excuse

\* When i2c_read sets STOP the device has let go of the bus: LASTRD was set
\* before the last byte, not later and not earlier.
ReleasedBeforeStop == pc = "read_stop" => ~prom.sending

\* Every call returns, if the controller does not hang and reports no errors
\* from some time on (i2c.c:66-109: only a missing acknowledge is counted, a
\* bus error goes back to step 1).
CallsEnd ==
    WF_vars(Bus) /\ <>[][~BusError /\ (BusStart => ~berr')]_vars =>
        (pc # "idle" ~> pc = "idle")

\* Places at which a transaction of i2c_write or i2c_read is under way.
InTransaction == pc \notin {"idle", "next", "i2c_write", "i2c_read"}

\* A cancel ends the transaction it falls into, even if the bus hangs
\* (i2c.h: "firmware can set this to TRUE to cause the routine to abort").
CancelEnds == cancel /\ InTransaction ~> ~InTransaction
=============================================================================
