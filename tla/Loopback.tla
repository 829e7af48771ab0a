------------------------------ MODULE Loopback ------------------------------
(***************************************************************************)
(* Two example firmwares of fx2lib with the same main loop: bulkloop.c     *)
(* copies every packet of EP2 OUT to EP6 IN, debugdev.c prints it on the   *)
(* serial line.  Both have two buffers an endpoint.  The loop tests the    *)
(* flag of the SETUP interrupt, then EP2, then EP6; SET_INTERFACE(0, 0)    *)
(* resets both FIFOs and arms EP2 again.  The host sends a request only    *)
(* after the one before it was acknowledged.                               *)
(*                                                                         *)
(* A packet is named by its position in the host's stream.                 *)
(***************************************************************************)
EXTENDS Naturals, Sequences

CONSTANTS
    Firmwares,  \* subset of {"bulkloop", "debugdevice"}
    MaxSent,    \* bound: packets the host sends
    Requests,   \* bound: requests the host sends
    Bursts      \* how many packets the host writes before it reads

LoopbackAssumption ==
    /\ Firmwares \subseteq {"bulkloop", "debugdevice"}
    /\ {MaxSent, Requests} \subseteq Nat /\ Bursts \subseteq Nat \ {0}

BUFFERS == 2

VARIABLES
    fw, pc, got_sud,
    own, free, full,  \* EP2: buffers of the CPU, armed ones, received packets
    ep6,              \* EP6: committed packets
    sudav,            \* the interrupt is pending
    asked,            \* the host's open request
    requests, sent, mark, got,
    done,             \* history: packets sent when the latest flush was over
    burst             \* 1: the host writes and reads as it likes, and sends
                      \* requests; more: it alternates, as test.py and test.cpp do

ep2Vars  == <<own, free, full>>
hostVars == <<asked, requests, sent, mark>>
vars == <<fw, burst, pc, got_sud, ep2Vars, ep6, sudav, hostVars, got, done>>

\* EP2BCL = 0x80: the CPU's oldest buffer is armed, an empty one that is left
\* from a reset or else the one with the oldest packet.
Arm ==
    /\ free' = IF own = 0 /\ full = <<>> THEN free ELSE free + 1
    /\ own'  = IF own > 0 THEN own - 1 ELSE 0
    /\ full' = IF own > 0 \/ full = <<>> THEN full ELSE Tail(full)

\* main() up to its loop: EP2 armed twice.
Init ==
    /\ fw \in Firmwares /\ burst \in Bursts /\ pc = "got_sud" /\ got_sud = FALSE
    /\ own = 0 /\ free = BUFFERS /\ full = <<>> /\ ep6 = <<>>
    /\ sudav = FALSE /\ asked = "none" /\ requests = 0
    /\ sent = 0 /\ mark = 0 /\ got = 0 /\ done = 0

-----------------------------------------------------------------------------
(* The host and the serial interface engine.                               *)

HostSend ==
    /\ free > 0 /\ sent < MaxSent
    /\ burst = 1 \/ sent % burst # 0 \/ got = sent
    /\ sent' = sent + 1 /\ free' = free - 1 /\ full' = Append(full, sent + 1)
    /\ UNCHANGED <<fw, burst, pc, got_sud, own, ep6, sudav, asked, requests, mark, got, done>>

HostRead ==
    /\ ep6 # <<>> /\ sent % burst = 0
    /\ got' = Head(ep6) /\ ep6' = Tail(ep6)
    /\ UNCHANGED <<fw, burst, pc, got_sud, ep2Vars, sudav, hostVars, done>>

HostSetup ==
    /\ burst = 1 /\ asked = "none" /\ requests < Requests
    /\ asked' \in {"set_interface", "other"} /\ requests' = requests + 1
    /\ mark' = IF asked' = "set_interface" THEN sent ELSE mark
    /\ sudav' = TRUE
    /\ UNCHANGED <<fw, burst, pc, got_sud, ep2Vars, ep6, sent, got, done>>

sudav_isr ==
    /\ sudav
    /\ got_sud' = TRUE /\ sudav' = FALSE
    /\ UNCHANGED <<fw, burst, pc, ep2Vars, ep6, hostVars, got, done>>

-----------------------------------------------------------------------------
(* The main loop.                                                          *)

Goto(l) == pc' = l /\ UNCHANGED <<fw, burst, sudav, requests, sent, mark>>

TestGotSud ==
    /\ pc = "got_sud"
    /\ Goto(IF got_sud THEN "handle" ELSE "ep2")
    /\ UNCHANGED <<got_sud, ep2Vars, ep6, asked, got, done>>

\* handle_setupdata: what the request asks for.
HandleSetup ==
    /\ pc = "handle"
    /\ Goto(IF asked = "set_interface" THEN "reset2" ELSE "ack")
    /\ UNCHANGED <<got_sud, ep2Vars, ep6, asked, got, done>>

\* RESETFIFO(0x02).  The endpoints NAK meanwhile.
ResetEp2 ==
    /\ pc = "reset2"
    /\ own' = BUFFERS /\ free' = 0 /\ full' = <<>>
    /\ Goto("arm1")
    /\ UNCHANGED <<got_sud, ep6, asked, got, done>>

\* Mutant: EP2 is armed only once after the reset.
ArmAgainOnce ==
    /\ pc \in {"arm1", "arm2"}
    /\ Arm
    /\ Goto("reset6")
    /\ UNCHANGED <<got_sud, ep6, asked, got, done>>

ArmAgain ==
    /\ pc \in {"arm1", "arm2"}
    /\ Arm
    /\ Goto(IF pc = "arm1" THEN "arm2" ELSE "reset6")
    /\ UNCHANGED <<got_sud, ep6, asked, got, done>>

\* Mutant: EP6 is not reset.
ResetEp6Not ==
    /\ pc = "reset6"
    /\ Goto("ack")
    /\ UNCHANGED <<got_sud, ep2Vars, ep6, asked, got, done>>

\* RESETFIFO(0x86).
ResetEp6 ==
    /\ pc = "reset6"
    /\ ep6' = <<>>
    /\ Goto("ack")
    /\ UNCHANGED <<got_sud, ep2Vars, asked, got, done>>

\* EP0CS |= bmHSNAK, the last thing that handle_setupdata does.
Acknowledge ==
    /\ pc = "ack"
    /\ asked' = "none"
    /\ done' = IF asked = "set_interface" THEN sent ELSE done
    /\ Goto("clear")
    /\ UNCHANGED <<got_sud, ep2Vars, ep6, got>>

ClearGotSud ==
    /\ pc = "clear"
    /\ got_sud' = FALSE
    /\ Goto("ep2")
    /\ UNCHANGED <<ep2Vars, ep6, asked, got, done>>

TestEp2Empty ==
    /\ pc = "ep2"
    /\ Goto(IF full = <<>> THEN "got_sud" ELSE "ep6")
    /\ UNCHANGED <<got_sud, ep2Vars, ep6, asked, got, done>>

\* debugdev.c has the test too, though it never writes EP6.
TestEp6Full ==
    /\ pc = "ep6"
    /\ Goto(IF Len(ep6) = BUFFERS THEN "got_sud" ELSE "copy")
    /\ UNCHANGED <<got_sud, ep2Vars, ep6, asked, got, done>>

\* bulkloop: the bytes are copied to EP6FIFOBUF, the count to EP6BCH:L.
CommitPacket ==
    /\ pc = "copy" /\ fw = "bulkloop"
    /\ ep6' = Append(ep6, Head(full))
    /\ Goto("rearm")
    /\ UNCHANGED <<got_sud, ep2Vars, asked, got, done>>

\* debugdevice: _transchar of every byte.
PrintPacket ==
    /\ pc = "copy" /\ fw = "debugdevice"
    /\ got' = Head(full)
    /\ Goto("rearm")
    /\ UNCHANGED <<got_sud, ep2Vars, ep6, asked, done>>

\* REARM().
Rearm ==
    /\ pc = "rearm"
    /\ Arm
    /\ Goto("got_sud")
    /\ UNCHANGED <<got_sud, ep6, asked, got, done>>

Main ==
    \/ TestGotSud \/ HandleSetup \/ ResetEp2 \/ ArmAgain \/ ResetEp6 \/ Acknowledge
    \/ ClearGotSud \/ TestEp2Empty \/ TestEp6Full \/ CommitPacket \/ PrintPacket \/ Rearm

Next == HostSend \/ HostRead \/ HostSetup \/ sudav_isr \/ Main

Spec == Init /\ [][Next]_vars

\* The loop runs, an enabled interrupt is taken, and the host goes through
\* with its transfers.
FairSpec ==
    /\ Spec
    /\ WF_vars(Main) /\ WF_vars(sudav_isr) /\ WF_vars(HostSend) /\ WF_vars(HostRead)

-----------------------------------------------------------------------------
(* Properties.                                                             *)

\* Every variable holds a value of its type; the loop never commits a packet
\* to a full EP6 (bulkloop.c:111).
TypeOK ==
    /\ fw \in Firmwares /\ {got_sud, sudav} \subseteq BOOLEAN
    /\ asked \in {"none", "set_interface", "other"}
    /\ {own, free} \subseteq 0 .. BUFFERS /\ full \in Seq(1 .. MaxSent)
    /\ ep6 \in Seq(1 .. MaxSent) /\ Len(ep6) <= BUFFERS /\ {sent, mark, got} \subseteq 0 .. MaxSent

\* No buffer of EP2 is lost or armed twice, and outside SET_INTERFACE both
\* are in use (bulkloop.c:86-89, 127, 180-183).
BuffersConserved ==
    /\ own + free + Len(full) = BUFFERS
    /\ own > 0 => pc \in {"arm1", "arm2"}

\* The packet the loop forwards is in EP6, or on the line, before its EP2
\* buffer is released: until then it is both.
InTransit == ep6 \o (IF pc = "rearm" THEN Tail(full) ELSE full)

Forwarding == INSTANCE Pipe WITH
    Capacity <- 2 * BUFFERS, transit <- InTransit, flushing <- asked = "set_interface"

\* The firmwares implement Pipe: packets come back, or are printed, in order,
\* once each, and after an acknowledged SET_INTERFACE none that was sent
\* before it comes back.
ForwardSpec == Forwarding!Spec

\* Every packet has been forwarded, or was sent before a flush was over.
Forwarded == got = sent \/ done = sent

\* Every request of the host is answered (bulkloop.c:103-107).
SetupAnswered == asked # "none" ~> asked = "none"
=============================================================================
