----------------------------- MODULE FullDuplex -----------------------------
(***************************************************************************)
(* The full-duplex debug device (debugdevice_full_duplex/debugdev.c): two  *)
(* boards, each with a host of its own, joined by two byte-wide links, one *)
(* for each direction.  A board's main loop serves SETUPs, then takes one  *)
(* step of tx_state (pins to EP6 IN), then one of rx_state (EP2 OUT to     *)
(* pins).  Every access to a pin is a step here, for the two CPUs share    *)
(* no clock.                                                               *)
(*                                                                         *)
(* The packets are fixed: Lens[b][n] is the length of the n-th packet that *)
(* the host of board b sends; its i-th byte is <<n, i>>.                   *)
(***************************************************************************)
EXTENDS Integers, Sequences

CONSTANTS
    Lens,     \* see above; its domain are the two boards
    Readers   \* boards whose host goes on reading EP6

Boards  == DOMAIN Lens
Peer(b) == CHOOSE c \in Boards : c # b

FullDuplexAssumption ==
    /\ \E b, c \in Boards : b # c /\ Boards = {b, c}
    /\ \A b \in Boards : Lens[b] \in Seq(0 .. 512)
    /\ Readers \subseteq Boards

BUFFERS == 2

VARIABLES
    at,                         \* where the main loop is
    got_sud,
    txs, tx_offset, last, buf6, \* tx_state, and what it has put in EP6FIFOBUF
    rxs, rx_offset, remaining,  \* rx_state
    dvalid, dlast, data, drdy,  \* the pins that a board drives
    full, free, ep6,            \* numbers of the packets in EP2; bytes of those in EP6
    sent, received, flushed     \* the hosts

tx    == <<txs, tx_offset, last, buf6, ep6>>
rx    == <<rxs, rx_offset, remaining, full, free>>
pins  == <<dvalid, dlast, data, drdy>>
hosts == <<sent, received, flushed>>
vars  == <<at, got_sud, tx, rx, pins, hosts>>

All(v) == [b \in Boards |-> v]

Packet(b, n) == [i \in 1 .. Lens[b][n] |-> <<n, i>>]

\* main() up to mainloop(), at both boards.
Init ==
    /\ at = All("sud") /\ got_sud = All(FALSE)
    /\ txs = All("IDLE") /\ tx_offset = All(0) /\ last = All(FALSE) /\ buf6 = All(<<>>)
    /\ rxs = All("IDLE") /\ rx_offset = All(0) /\ remaining = All(0)
    /\ dvalid = All(FALSE) /\ dlast = All(FALSE) /\ drdy = All(FALSE)
    /\ data = All(<<0, 0>>)
    /\ full = All(<<>>) /\ free = All(BUFFERS) /\ ep6 = All(<<>>)
    /\ sent = All(0) /\ received = All(0) /\ flushed = All(FALSE)

Set(f, b, v) == [f EXCEPT ![b] = v]

-----------------------------------------------------------------------------
(* The hosts.                                                              *)

HostSend(b) ==
    /\ free[b] > 0 /\ sent[b] < Len(Lens[b])
    /\ \A c \in Boards : ~got_sud[c]
    /\ sent' = Set(sent, b, sent[b] + 1)
    /\ free' = Set(free, b, free[b] - 1) /\ full' = Set(full, b, Append(full[b], sent[b] + 1))
    /\ UNCHANGED <<at, got_sud, tx, rxs, rx_offset, remaining, pins, received, flushed>>

HostRead(b) ==
    /\ ep6[b] # <<>>
    /\ ep6' = Set(ep6, b, Tail(ep6[b])) /\ received' = Set(received, b, received[b] + 1)
    /\ UNCHANGED <<at, got_sud, txs, tx_offset, last, buf6, rx, pins, sent, flushed>>

\* SET_INTERFACE(0, 0), once, and the interrupt it raises.  Both hosts send
\* it before any packet, as test.cpp does: while bytes are on the way it would
\* leave half a packet in one board or the other.
HostSetup(b) ==
    /\ ~flushed[b]
    /\ \A c \in Boards : sent[c] = 0
    /\ got_sud' = Set(got_sud, b, TRUE) /\ flushed' = Set(flushed, b, TRUE)
    /\ UNCHANGED <<at, tx, rx, pins, sent, received>>

-----------------------------------------------------------------------------
(* The main loop of a board.                                               *)

Goto(b, l) == at' = Set(at, b, l)

\* handle_setupdata, as far as the endpoints go: both FIFOs are reset, EP2 is
\* armed.  The states of the two machines stay what they are.
TestGotSud(b) ==
    /\ at[b] = "sud"
    /\ IF got_sud[b]
       THEN /\ full' = Set(full, b, <<>>) /\ free' = Set(free, b, BUFFERS)
            /\ ep6' = Set(ep6, b, <<>>) /\ got_sud' = Set(got_sud, b, FALSE)
       ELSE UNCHANGED <<full, free, ep6, got_sud>>
    /\ Goto(b, "tx")
    /\ UNCHANGED <<txs, tx_offset, last, buf6, rxs, rx_offset, remaining, pins, hosts>>

TxTest(b) ==
    /\ at[b] = "tx"
    /\ Goto(b, IF txs[b] = "ACK" THEN "tx_ack"
               ELSE IF Len(ep6[b]) = BUFFERS THEN "rx" ELSE "tx_ready")
    /\ UNCHANGED <<got_sud, tx, rx, pins, hosts>>

\* Mutant: tx_state waits for the byte in a loop of its own.
TxReadyWait(b) ==
    \/ /\ at[b] = "tx_ready"
       /\ drdy' = Set(drdy, b, TRUE)
       /\ Goto(b, "tx_valid")
       /\ UNCHANGED <<got_sud, tx, rx, dvalid, dlast, data, hosts>>
    \/ /\ at[b] = "tx_valid"
       /\ Goto(b, IF dvalid[Peer(b)] THEN "tx_last" ELSE "tx_valid")
       /\ UNCHANGED <<got_sud, tx, rx, pins, hosts>>

TxReady(b) ==
    \/ /\ at[b] = "tx_ready"
       /\ drdy' = Set(drdy, b, TRUE)
       /\ Goto(b, "tx_valid")
       /\ UNCHANGED <<got_sud, tx, rx, dvalid, dlast, data, hosts>>
    \/ /\ at[b] = "tx_valid"
       /\ Goto(b, IF dvalid[Peer(b)] THEN "tx_last" ELSE "rx")
       /\ UNCHANGED <<got_sud, tx, rx, pins, hosts>>

\* TX_STATE_DATA: DLAST_IN, then INPUTDATA, then DRDY_OUT.
TxByte(b) ==
    \/ /\ at[b] = "tx_last"
       /\ last' = Set(last, b, dlast[Peer(b)])
       /\ Goto(b, "tx_data")
       /\ UNCHANGED <<got_sud, txs, tx_offset, buf6, ep6, rx, pins, hosts>>
    \/ /\ at[b] = "tx_data"
       /\ buf6' = Set(buf6, b, SubSeq(buf6[b], 1, tx_offset[b]) \o <<data[Peer(b)]>>)
       /\ Goto(b, "tx_unready")
       /\ UNCHANGED <<got_sud, txs, tx_offset, last, ep6, rx, pins, hosts>>
    \/ /\ at[b] = "tx_unready"
       /\ drdy' = Set(drdy, b, FALSE) /\ txs' = Set(txs, b, "ACK")
       /\ Goto(b, "tx_ack")
       /\ UNCHANGED <<got_sud, tx_offset, last, buf6, ep6, rx, dvalid, dlast, data, hosts>>

\* Mutant: the state goes back to IDLE without waiting for DVALID_IN to fall.
TxAckEarly(b) ==
    /\ at[b] = "tx_ack"
    /\ txs' = Set(txs, b, "IDLE")
    /\ tx_offset' = Set(tx_offset, b, IF last[b] THEN 0 ELSE tx_offset[b] + 1)
    /\ ep6' = IF last[b] THEN Set(ep6, b, Append(ep6[b], buf6[b])) ELSE ep6
    /\ buf6' = IF last[b] THEN Set(buf6, b, <<>>) ELSE buf6
    /\ Goto(b, "rx")
    /\ UNCHANGED <<got_sud, last, rx, pins, hosts>>

TxAck(b) ==
    /\ at[b] = "tx_ack"
    /\ IF dvalid[Peer(b)]
       THEN UNCHANGED <<txs, tx_offset, buf6, ep6>>
       ELSE /\ txs' = Set(txs, b, "IDLE")
            /\ tx_offset' = Set(tx_offset, b, IF last[b] THEN 0 ELSE tx_offset[b] + 1)
            /\ ep6' = IF last[b] THEN Set(ep6, b, Append(ep6[b], buf6[b])) ELSE ep6
            /\ buf6' = IF last[b] THEN Set(buf6, b, <<>>) ELSE buf6
    /\ Goto(b, "rx")
    /\ UNCHANGED <<got_sud, last, rx, pins, hosts>>

RxTest(b) ==
    /\ at[b] = "rx"
    /\ IF rxs[b] = "IDLE" /\ full[b] # <<>>
       THEN /\ rxs' = Set(rxs, b, "DATA") /\ rx_offset' = Set(rx_offset, b, 0)
            /\ remaining' = Set(remaining, b, Lens[b][Head(full[b])])
       ELSE UNCHANGED <<rxs, rx_offset, remaining>>
    /\ Goto(b, CASE rxs[b] = "DATA" /\ drdy[Peer(b)] -> "rx_out"
                 [] rxs[b] = "ACK" /\ ~drdy[Peer(b)] -> "rx_unvalid"
                 [] OTHER                            -> "sud")
    /\ UNCHANGED <<got_sud, tx, full, free, pins, hosts>>

\* EP2FIFOBUF[i]; <<0, 0>> is what an earlier packet left.
EP2FIFOBUF(b, i) ==
    IF full[b] # <<>> /\ i < Lens[b][Head(full[b])] THEN <<Head(full[b]), i + 1>> ELSE <<0, 0>>

\* RX_STATE_DATA: OUTPUTDATA, then DLAST_OUT, then DVALID_OUT.
RxByte(b) ==
    \/ /\ at[b] = "rx_out"
       /\ data' = Set(data, b, EP2FIFOBUF(b, rx_offset[b]))
       /\ rx_offset' = Set(rx_offset, b, rx_offset[b] + 1)
       /\ Goto(b, "rx_last")
       /\ UNCHANGED <<got_sud, tx, rxs, remaining, full, free, dvalid, dlast, drdy, hosts>>
    \/ /\ at[b] = "rx_last"
       /\ remaining' = Set(remaining, b, (remaining[b] + 65535) % 65536)
       /\ dlast' = Set(dlast, b, remaining'[b] = 0)
       /\ Goto(b, "rx_valid")
       /\ UNCHANGED <<got_sud, tx, rxs, rx_offset, full, free, dvalid, data, drdy, hosts>>
    \/ /\ at[b] = "rx_valid"
       /\ dvalid' = Set(dvalid, b, TRUE) /\ rxs' = Set(rxs, b, "ACK")
       /\ Goto(b, "sud")
       /\ UNCHANGED <<got_sud, tx, rx_offset, remaining, full, free, dlast, data, drdy, hosts>>

\* RX_STATE_ACK: DVALID_OUT falls; after the last byte, REARM().
RxAck(b) ==
    \/ /\ at[b] = "rx_unvalid"
       /\ dvalid' = Set(dvalid, b, FALSE)
       /\ rxs' = Set(rxs, b, IF remaining[b] # 0 THEN "DATA" ELSE "IDLE")
       /\ Goto(b, IF remaining[b] # 0 THEN "sud" ELSE "rx_rearm")
       /\ UNCHANGED <<got_sud, tx, rx_offset, remaining, full, free, dlast, data, drdy, hosts>>
    \/ /\ at[b] = "rx_rearm"
       /\ full' = Set(full, b, IF full[b] = <<>> THEN <<>> ELSE Tail(full[b]))
       /\ free' = Set(free, b, IF full[b] = <<>> THEN free[b] ELSE free[b] + 1)
       /\ Goto(b, "sud")
       /\ UNCHANGED <<got_sud, tx, rxs, rx_offset, remaining, pins, hosts>>

Loop(b) ==
    \/ TestGotSud(b) \/ TxTest(b) \/ TxReady(b) \/ TxByte(b) \/ TxAck(b)
    \/ RxTest(b) \/ RxByte(b) \/ RxAck(b)

Next == \E b \in Boards : HostSend(b) \/ HostRead(b) \/ HostSetup(b) \/ Loop(b)

Spec == Init /\ [][Next]_vars

-----------------------------------------------------------------------------
(* Properties.                                                             *)

\* Every variable holds a value of its type.
TypeOK ==
    /\ \A b \in Boards :
         /\ txs[b] \in {"IDLE", "ACK"} /\ rxs[b] \in {"IDLE", "DATA", "ACK"}
         /\ {got_sud[b], last[b], dvalid[b], dlast[b], drdy[b]} \subseteq BOOLEAN
         /\ tx_offset[b] \in 0 .. 511 /\ rx_offset[b] \in 0 .. 512
         /\ remaining[b] \in 0 .. 512
         /\ Len(ep6[b]) <= BUFFERS /\ free[b] + Len(full[b]) = BUFFERS
         /\ sent[b] \in 0 .. Len(Lens[b]) /\ received[b] \in 0 .. Len(Lens[Peer(b)])

\* Packets come out of the other board as they were sent, with their bytes
\* and their boundaries, in order and each once (debugdev.c:75-94, 120-143).
PacketsIntact ==
    \A b \in Boards : \A k \in DOMAIN ep6[b] :
        /\ received[b] + k <= sent[Peer(b)]
        /\ ep6[b][k] = Packet(Peer(b), received[b] + k)

\* While a board has its byte on offer and the other one asks for it, data
\* and DLAST are those of the byte and do not change (debugdev.c:75-78,
\* 120-127).
OfferKept ==
    \A b \in Boards : dvalid[b] /\ drdy[Peer(b)] => UNCHANGED <<data[b], dlast[b], dvalid[b]>>

\* The hosts that read have got every packet, whatever becomes of the other
\* direction, which may be stuck because its host does not read: the link is
\* full duplex (NOTES:60).
Delivered == \A b \in Readers : received[b] = Len(Lens[Peer(b)])
=============================================================================
