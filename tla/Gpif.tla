-------------------------------- MODULE Gpif --------------------------------
(***************************************************************************)
(* The GPIF helpers of fx2lib (gpif.c): gpif_init, single words read and   *)
(* written through XGPIFSGLDATH/L, and FIFO transactions of a count set    *)
(* before.  The engine runs by itself once it is triggered; GPIFTRIG.7     *)
(* says that it is done.  The waveform memory can be written only in GPIF  *)
(* mode.  The last of a write's words may still be under way when the call *)
(* returns.  Words are named by their position; the two bytes of a word    *)
(* are moved one after the other.                                          *)
(***************************************************************************)
EXTENDS Integers, Sequences

CONSTANTS
    Lengths,  \* len of the single word calls
    Counts16, \* arguments of gpif_set_tc16
    Counts32, \* arguments of gpif_set_tc32
    MaxCalls  \* bound: calls

WORD == 65536

GpifAssumption ==
    /\ Lengths \subseteq 0 .. WORD - 1 /\ Counts16 \subseteq 0 .. WORD - 1
    /\ Counts32 \subseteq Nat /\ MaxCalls \in Nat

VARIABLES
    pc, calls, len, c,  \* c is a BYTE, len a WORD
    res,                \* the words stored, by their index
    start,              \* words the peripheral had given, or taken, before
    gpifMode, wave,     \* IFCFG[1:0] = 10; is the waveform loaded?
    busy,               \* the transaction that runs, or "no"
    latch, out,         \* XGPIFSGLDATH:L as read, and as written
    given, written,     \* the peripheral
    tc, told, moved     \* GPIFTCB3..0, the count asked for, the words moved

callVars  == <<calls, len, start>>
setupVars == <<gpifMode, wave>>
tcVars    == <<tc, told, moved>>
vars == <<pc, callVars, c, res, setupVars, busy, latch, out, given, written, tcVars>>

Init ==
    /\ pc = "reset" /\ calls = 0 /\ len = 0 /\ c = 0 /\ res = <<>> /\ start = 0
    /\ gpifMode = FALSE /\ wave = FALSE /\ busy = "no" /\ latch = 0 /\ out = <<0, 0>>
    /\ given = 0 /\ written = <<>> /\ tc = 1 /\ told = 0 /\ moved = -1

Goto(from, to) == pc = from /\ pc' = to

-----------------------------------------------------------------------------
(* The engine and the peripheral.                                          *)

ReadWord ==
    /\ busy = "read" /\ busy' = "no"
    /\ given' = given + 1 /\ latch' = given'
    /\ UNCHANGED <<pc, callVars, c, res, setupVars, out, written, tcVars>>

WriteWord ==
    /\ busy = "write" /\ busy' = "no"
    /\ written' = Append(written, out)
    /\ UNCHANGED <<pc, callVars, c, res, setupVars, latch, out, given, tcVars>>

MoveFifo ==
    /\ busy = "fifo" /\ busy' = "no"
    /\ moved' = tc /\ tc' = 0
    /\ UNCHANGED <<pc, callVars, c, res, setupVars, latch, out, given, written, told>>

-----------------------------------------------------------------------------
(* gpif_init.                                                              *)

\* A wave that is copied before the part is in GPIF mode is not stored.
WaveData ==
    /\ Goto("wave", "idle")
    /\ wave' = (wave \/ gpifMode)
    /\ UNCHANGED <<callVars, c, res, gpifMode, busy, latch, out, given, written, tcVars>>

MasterMode ==
    /\ Goto("mode", "abort")
    /\ gpifMode' = TRUE
    /\ UNCHANGED <<callVars, c, res, wave, busy, latch, out, given, written, tcVars>>

\* GPIFABORT: what is left of a FIFO transaction's count stays.
AbortWaves ==
    /\ Goto("abort", "wave")
    /\ busy' = "no" /\ tc' \in (IF busy = "fifo" THEN {n \in {0, 1, tc} : n <= tc} ELSE {tc})
    /\ told' = 0 /\ moved' = -1
    /\ UNCHANGED <<callVars, c, res, setupVars, latch, out, given, written>>

-----------------------------------------------------------------------------
(* The single word calls.                                                  *)

\* while (!(GPIFTRIG & 0x80)), then the statement behind it.
WhenDone(from, to) == busy = "no" /\ Goto(from, to)

\* An access of XGPIFSGLDATLX starts the next transaction.
Trigger(kind) == busy' = IF busy = "no" THEN kind ELSE busy

Put(w) == res' = IF c < Len(res) THEN [res EXCEPT ![c + 1] = w] ELSE Append(res, w)

\* "res[0] = XGPIFSGLDATLX".
DummyRead ==
    /\ WhenDone("read", "readloop")
    /\ Put(<<0, latch>>) /\ Trigger("read")
    /\ UNCHANGED <<callVars, c, setupVars, latch, out, given, written, tcVars>>

ReadLoop ==
    /\ Goto("readloop", IF c < len THEN "high" ELSE "idle")
    /\ UNCHANGED <<callVars, c, res, setupVars, busy, latch, out, given, written, tcVars>>

ReadHigh ==
    /\ WhenDone("high", "low")
    /\ Put(<<latch, 0>>)
    /\ UNCHANGED <<callVars, c, setupVars, busy, latch, out, given, written, tcVars>>

\* The last word's low byte is read without the start of another read.
ReadLow ==
    /\ Goto("low", "readloop")
    /\ res' = [res EXCEPT ![c + 1][2] = latch]
    /\ IF c = len - 1 THEN UNCHANGED busy ELSE Trigger("read")
    /\ c' = (c + 1) % 256
    /\ UNCHANGED <<callVars, setupVars, latch, out, given, written, tcVars>>

gpif_single_read16 == DummyRead \/ ReadLoop \/ ReadHigh \/ ReadLow

WriteHigh ==
    /\ c < len /\ WhenDone("writeloop", "writelow")
    /\ out' = <<start + c + 1, out[2]>>
    /\ UNCHANGED <<callVars, c, res, setupVars, busy, latch, given, written, tcVars>>

WriteLow ==
    /\ Goto("writelow", "writeloop")
    /\ out' = <<out[1], start + c + 1>> /\ Trigger("write")
    /\ c' = (c + 1) % 256
    /\ UNCHANGED <<callVars, res, setupVars, latch, given, written, tcVars>>

WriteReturn ==
    /\ c >= len /\ Goto("writeloop", "idle")
    /\ UNCHANGED <<callVars, c, res, setupVars, busy, latch, out, given, written, tcVars>>

gpif_single_write16 == WriteHigh \/ WriteLow \/ WriteReturn

-----------------------------------------------------------------------------
(* FIFO transactions.  The program sets the count when GPIFDONE says that  *)
(* the transaction before has ended, and one of 16 bits only if no larger  *)
(* one is left from before, of which the upper word would stay.            *)

Other == <<pc, len, start, c, res, setupVars, latch, out, given, written>>

gpif_set_tc32(n) == tc' = n

\* GPIFTCB1, GPIFTCB0: the upper word stays.
gpif_set_tc16(n) == tc' = WORD * (tc \div WORD) + n

SetCount ==
    /\ pc = "idle" /\ busy # "fifo" /\ calls < MaxCalls
    /\ \/ \E n \in Counts32 : gpif_set_tc32(n) /\ told' = n
       \/ tc < WORD /\ \E n \in Counts16 : gpif_set_tc16(n) /\ told' = n
    /\ moved' = -1 /\ calls' = calls + 1
    /\ UNCHANGED <<Other, busy>>

\* gpif_fifo_read, gpif_fifo_write.
FifoTransaction ==
    /\ pc = "idle" /\ calls < MaxCalls /\ busy = "no" /\ told > 0 /\ moved = -1
    /\ busy' = "fifo" /\ calls' = calls + 1
    /\ UNCHANGED <<Other, tcVars>>

-----------------------------------------------------------------------------
(* The program: gpif_init first, the calls in any order.                   *)

\* The words written, with the one that the engine has still to write.
Sent == IF busy = "write" THEN Append(written, out) ELSE written

CallInit ==
    /\ pc \in {"reset", "idle"} /\ busy \in {"no", "fifo"} /\ calls < MaxCalls
    /\ pc' = "mode" /\ calls' = calls + 1
    /\ UNCHANGED <<len, start, c, res, setupVars, busy, latch, out, given, written, tcVars>>

Call ==
    /\ pc = "idle" /\ busy # "fifo" /\ calls < MaxCalls
    /\ len' \in Lengths /\ pc' \in {"read", "writeloop"}
    /\ start' = IF pc' = "read" THEN given ELSE Len(Sent)
    /\ c' = 0 /\ res' = <<>> /\ calls' = calls + 1
    /\ UNCHANGED <<setupVars, busy, latch, out, given, written, tcVars>>

Engine  == ReadWord \/ WriteWord \/ MoveFifo
Library ==
    \/ MasterMode \/ AbortWaves \/ WaveData \/ gpif_single_read16 \/ gpif_single_write16

Next == Engine \/ Library \/ SetCount \/ FifoTransaction \/ CallInit \/ Call

Spec == Init /\ [][Next]_vars

-----------------------------------------------------------------------------
(* Properties.                                                             *)

\* Every variable holds a value of its type, and outside gpif_init the
\* waveforms are loaded (gpif.c:49-60).
TypeOK ==
    /\ pc \in {"reset", "mode", "abort", "wave", "idle", "read", "readloop", "high", "low",
               "writeloop", "writelow"}
    /\ pc \notin {"reset", "mode", "abort", "wave"} => gpifMode /\ wave
    /\ calls \in 0 .. MaxCalls /\ c \in 0 .. 255 /\ len \in {0} \cup Lengths
    /\ busy \in {"no", "read", "write", "fifo"} /\ tc \in Nat

\* "Read len words and store in res" (gpif.h:89): the next words of the
\* peripheral, none torn or lost, and no read is left that nobody takes.
WordsRead ==
    pc \in {"readloop", "high", "low"} =>
        /\ given <= start + len
        /\ c = len => /\ res = [k \in 1 .. len |-> <<start + k, start + k>>]
                      /\ busy = "no" /\ given = start + len

\* Words are written whole, in order, none twice and none lost, though the
\* engine is still at work when the next is stored (gpif.c:167-171).
WordsWritten ==
    /\ \A k \in DOMAIN Sent : Sent[k] = <<k, k>>
    /\ pc = "writeloop" => Len(Sent) = start + c

\* A FIFO transaction moves as many words as the count set for it.
CountMoved == moved # -1 => moved = told

\* No call of the library is under way.
Idle == pc \in {"reset", "idle"}
=============================================================================
