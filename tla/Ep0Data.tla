------------------------------ MODULE Ep0Data ------------------------------
(***************************************************************************)
(* The data stages of control transfers that firmware moves by itself,     *)
(* packet by packet through the one buffer of EP0: readep0 and writeep0    *)
(* of eputils.c, the HID report descriptor of hid_tm1638, the line coding  *)
(* of blinky_fw and the EEPROM commands of the eeprom example.  When       *)
(* handle_setupdata runs is the matter of module Firmware (and, for the    *)
(* eeprom example, of Loopback): here the request is taken at once.        *)
(*                                                                         *)
(* A byte is <<id, n>>: the n-th of what the transfer id should move.      *)
(* SETUP clears EP0CS.BUSY, as the chip does.                              *)
(***************************************************************************)
EXTENDS Naturals, Sequences

CONSTANTS
    CHUNK,       \* 64: bytes in a packet
    HidLen,      \* the length that the HID descriptor tells, 72
    LineLen,     \* 7: bytes of a line coding
    MaxLen,      \* bound: length of the other transfers
    Transfers,   \* bound: transfers the host starts
    Troubles     \* what goes wrong: subset of {"none", "gives up", "faults"}

Ep0DataAssumption ==
    /\ {CHUNK, LineLen} \subseteq Nat \ {0} /\ LineLen <= CHUNK
    /\ {MaxLen, Transfers, HidLen} \subseteq Nat
    /\ Troubles \subseteq {"none", "gives up", "faults"}

VARIABLES
    fw,                    \* the firmware, by the kinds of transfer it knows
    trouble,               \* the host gives transfers up, or EEPROM accesses fail
    pc, h,                 \* the handler, and the request it works on
    moved,                 \* bytes it has sent or stored
    ep0,                   \* "free"; or BUSY, with data for the host or waiting for some
    buf,                   \* EP0BUF, as far as EP0BCL counts
    stored,                \* what an OUT transfer has stored
    open, id, kind, len,   \* the host's latest transfer
    out, got,              \* bytes it has sent, bytes it has got
    requested, result      \* the SETUP is not taken yet; how the transfer ended

dev  == <<pc, h, moved, stored>>
req  == <<fw, trouble, id, kind, len>>
vars == <<dev, ep0, buf, open, out, got, requested, result, req>>

InKinds  == {"report", "writeep0", "eeprom_in"}
OutKinds == {"readep0", "line_coding", "eeprom_out"}

\* hid_tm1638, blinky_fw, the eeprom example, users of the library.
Firmwares == {{"report"}, {"line_coding"}, {"eeprom_in", "eeprom_out"}, {"readep0", "writeep0"}}

Smaller(m, n) == IF m < n THEN m ELSE n

\* Bytes first + 1 to first + n of a transfer.
Bytes(t, first, n) == [k \in 1 .. n |-> <<t, first + k>>]

Init ==
    /\ fw \in Firmwares /\ trouble \in Troubles /\ pc = "idle" /\ h = [id |-> 0, kind |-> "", len |-> 0]
    /\ moved = 0 /\ ep0 = "free" /\ buf = <<>> /\ stored = <<>>
    /\ open = FALSE /\ id = 0 /\ kind = "" /\ len = 0
    /\ out = 0 /\ got = <<>> /\ requested = FALSE /\ result = "none"

-----------------------------------------------------------------------------
(* The host and the serial interface engine.                               *)

\* A HID driver asks for as many bytes as the HID descriptor told it.
Lengths(k) ==
    CASE k = "report"      -> {HidLen}
      [] k = "line_coding" -> {LineLen}
      [] OTHER             -> 1 .. MaxLen

Setup ==
    /\ ~open /\ id < Transfers
    /\ kind' \in fw /\ len' \in Lengths(kind')
    /\ open' = TRUE /\ id' = id + 1 /\ requested' = TRUE
    /\ ep0' = "free" /\ out' = 0 /\ got' = <<>> /\ result' = "none"
    /\ UNCHANGED <<dev, buf, fw, trouble>>

\* An IN packet is taken; a short one ends the data stage.
TakeIn ==
    /\ open /\ kind \in InKinds /\ Len(got) < len /\ ep0 = "in"
    /\ got' = got \o buf /\ ep0' = "free"
    /\ UNCHANGED <<dev, buf, open, out, requested, result, req>>

SendOut ==
    /\ open /\ kind \in OutKinds /\ out < len /\ ep0 = "out"
    /\ LET n == Smaller(CHUNK, len - out) IN
       /\ buf' = Bytes(id, out, n) /\ out' = out + n
    /\ ep0' = "free"
    /\ UNCHANGED <<dev, open, got, requested, result, req>>

\* The status stage, once the handler has answered.
Finish ==
    /\ open /\ result # "none"
    /\ result = "stall" \/ Len(got) = len \/ out = len
    /\ open' = FALSE
    /\ UNCHANGED <<dev, ep0, buf, out, got, requested, result, req>>

GiveUp ==
    /\ trouble = "gives up" /\ open
    /\ open' = FALSE
    /\ UNCHANGED <<dev, ep0, buf, out, got, requested, result, req>>

-----------------------------------------------------------------------------
(* The firmware.                                                           *)

Handler(from, to) ==
    /\ pc = from /\ pc' = to
    /\ UNCHANGED <<open, out, got, req>>

\* HSNAK is cleared, or EP0 stalled: whatever transfer is open now ends so.
Answer(how) == result' = IF open THEN how ELSE result

Dispatch ==
    /\ requested
    /\ Handler("idle", "loop")
    /\ h' = [id |-> id, kind |-> kind, len |-> len]
    /\ requested' = FALSE /\ moved' = 0 /\ stored' = <<>>
    /\ UNCHANGED <<ep0, buf, result>>

\* Mutant: an IN loop fills EP0BUF without waiting for it.
LoopUnwaited ==
    \/ /\ moved < h.len
       /\ Handler("loop", IF h.kind \in OutKinds THEN "armout" ELSE "fill")
       /\ UNCHANGED <<h, moved, stored, ep0, buf, requested, result>>
    \/ /\ moved >= h.len
       /\ Handler("loop", "idle") /\ Answer("ack")
       /\ UNCHANGED <<h, moved, stored, ep0, buf, requested>>

\* The head of each loop.  handle_get_descriptor waits after it has armed
\* EP0, the other IN loops before they fill it.
Loop ==
    \/ /\ moved < h.len
       /\ Handler("loop", IF h.kind \in OutKinds THEN "armout"
                          ELSE IF h.kind = "report" THEN "fill" ELSE "wait")
       /\ UNCHANGED <<h, moved, stored, ep0, buf, requested, result>>
    \/ /\ moved >= h.len
       /\ Handler("loop", "idle") /\ Answer("ack")
       /\ UNCHANGED <<h, moved, stored, ep0, buf, requested>>

\* while (EP0CS & bmEPBUSY);
Wait ==
    /\ ep0 = "free"
    /\ Handler("wait", IF h.kind \in OutKinds THEN "store"
                       ELSE IF h.kind = "report" THEN "loop" ELSE "fill")
    /\ UNCHANGED <<h, moved, stored, ep0, buf, requested, result>>

\* Mutant: the last packet is not cut to what is left.
FillUncut ==
    /\ buf' = Bytes(h.id, moved, CHUNK)
    /\ Handler("fill", "armin")
    /\ UNCHANGED <<h, moved, stored, ep0, requested, result>>

\* EP0BUF is filled with the next packet.  An eeprom_read that fails leaves
\* what was there; its result is not looked at.
Fill ==
    /\ LET n == Smaller(CHUNK, h.len - moved) IN
       \/ buf' = Bytes(h.id, moved, n)
       \/ trouble = "faults" /\ h.kind = "eeprom_in" /\ buf' = Bytes(0, 0, n)
    /\ Handler("fill", "armin")
    /\ UNCHANGED <<h, moved, stored, ep0, requested, result>>

\* EP0BCH = 0; EP0BCL = to_send;
ArmIn ==
    /\ Handler("armin", IF h.kind = "report" THEN "wait" ELSE "loop")
    /\ ep0' = "in" /\ moved' = moved + Len(buf)
    /\ UNCHANGED <<h, stored, buf, requested, result>>

\* EP0BCL = 0; for the line coding it is 7.
ArmOut ==
    /\ Handler("armout", "wait")
    /\ ep0' = "out"
    /\ UNCHANGED <<h, moved, stored, buf, requested, result>>

\* The packet is copied, or written to the EEPROM; if that fails EP0 is
\* stalled.
Store ==
    \/ /\ Handler("store", "loop")
       /\ stored' = stored \o buf /\ moved' = moved + Len(buf)
       /\ UNCHANGED <<h, ep0, buf, requested, result>>
    \/ /\ trouble = "faults" /\ h.kind = "eeprom_out"
       /\ Handler("store", "idle") /\ Answer("stall")
       /\ UNCHANGED <<h, moved, stored, ep0, buf, requested>>

Cpu == Dispatch \/ Loop \/ Wait \/ Fill \/ ArmIn \/ ArmOut \/ Store

Next == Setup \/ TakeIn \/ SendOut \/ Finish \/ GiveUp \/ Cpu

Spec == Init /\ [][Next]_vars

-----------------------------------------------------------------------------
(* Properties.                                                             *)

\* Every variable holds a value of its type.  No more bytes are moved than the
\* request has, unless the host gives up the one before: then the handler may
\* take the packets of the new transfer for those of the old one.
TypeOK ==
    /\ pc \in {"idle", "loop", "fill", "armin", "armout", "wait", "store"}
    /\ ep0 \in {"free", "in", "out"} /\ Len(buf) <= CHUNK
    /\ trouble = "gives up"
       \/ (moved <= h.len /\ Len(stored) <= h.len /\ Len(got) <= len /\ out <= len)
    /\ result \in {"none", "ack", "stall"}

\* An acknowledged transfer has moved exactly the bytes it was asked for, in
\* order, unless the EEPROM failed, which eeprom_read's caller does not tell, or
\* the host gave up the one before, which may answer in its place
\* (eputils.c:35-44, 51-57; hid device.c:150-167; eeprom.c:92-114).
DataExact ==
    (/\ trouble # "gives up" /\ ~(trouble = "faults" /\ kind = "eeprom_in")
     /\ ~open /\ result = "ack" /\ (Len(got) = len \/ out = len))
        => (IF kind \in InKinds THEN got ELSE stored) = Bytes(id, 0, len)

\* EP0BUF is not written while a packet in it waits for the host, though the
\* host may give a transfer up at any time and start another one.
BufferStable == ep0 = "in" /\ ep0' = "in" => UNCHANGED buf

\* No transfer waits for the handler, if the host goes on with those it opens
\* (hid device.c:166, eputils.c:35-39).
Ended == trouble = "gives up" \/ id = 0 \/ result # "none"
=============================================================================
