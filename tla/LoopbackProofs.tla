--------------------------- MODULE LoopbackProofs ---------------------------
(***************************************************************************)
(* Proof that the forwarding firmwares implement Pipe, for every number of *)
(* packets and requests and every burst.                                   *)
(*                                                                         *)
(* A step that moves a packet moves it out of a sequence that is not empty *)
(* and into one that is not full; the tests of the loop say so, but steps  *)
(* earlier (FlowInv).  A flush that is acknowledged leaves nothing from    *)
(* before it, because the packets that EP2 receives between the resets and *)
(* the acknowledgement are new ones (FlushInv); and the request that the   *)
(* loop handles is the one that set the flag, not a later one (FlagInv).   *)
(***************************************************************************)
EXTENDS Loopback, SequenceTheorems, TLAPS

Packets == 1 .. MaxSent

\* Places inside handle_setupdata, and those of them only SET_INTERFACE reaches.
InSetup == pc \in {"handle", "reset2", "arm1", "arm2", "reset6", "ack"}
InFlush == pc \in {"reset2", "arm1", "arm2", "reset6"}

\* EP2 and EP6 at each place of the loop.
FlowInv ==
    /\ pc = "arm1" => own = 2
    /\ pc = "arm2" => own = 1
    /\ pc \notin {"arm1", "arm2"} => own = 0
    /\ pc \in {"ep6", "copy", "rearm"} => full # <<>>
    /\ pc = "copy" => Len(ep6) < BUFFERS
    /\ fw = "debugdevice" => ep6 = <<>>
    /\ mark <= sent

\* The flag is that of the open request, but where it is cleared too late.
FlagInv ==
    /\ sudav => asked # "none"
    /\ InSetup \/ (got_sud /\ pc # "clear") => asked # "none" /\ ~sudav

\* What is left when SET_INTERFACE is acknowledged was sent after the request.
FlushInv ==
    /\ InFlush => asked = "set_interface"
    /\ asked = "set_interface" /\ pc \in {"arm1", "arm2", "reset6", "ack"} =>
         \A k \in 1 .. Len(full) : full[k] > mark
    /\ asked = "set_interface" /\ pc = "ack" => ep6 = <<>>

IInv == TypeOK /\ BuffersConserved /\ FlowInv /\ FlagInv /\ FlushInv

-----------------------------------------------------------------------------
\* The invariant holds in the beginning and is kept by every step.
LEMMA InvInit == ASSUME LoopbackAssumption, Init PROVE IInv
<1> USE DEF LoopbackAssumption, Init, BUFFERS
<1>1. <<>> \in Seq(1 .. MaxSent) /\ Len(<<>>) = 0 /\ MaxSent \in Nat
  OBVIOUS
<1>2. TypeOK
  <2>1. fw \in Firmwares /\ {got_sud, sudav} \subseteq BOOLEAN
    OBVIOUS
  <2>2. /\ {own, free} \subseteq 0 .. BUFFERS /\ full \in Seq(1 .. MaxSent)
        /\ ep6 \in Seq(1 .. MaxSent) /\ Len(ep6) <= BUFFERS
        /\ {sent, mark, got} \subseteq 0 .. MaxSent
    BY <1>1
  <2>3. QED
    BY <2>1, <2>2 DEF TypeOK
<1>3. BuffersConserved /\ FlowInv
  BY <1>1 DEF BuffersConserved, FlowInv
<1>4. FlagInv /\ FlushInv
  BY DEF FlagInv, FlushInv, InSetup, InFlush
<1>5. QED
  BY <1>2, <1>3, <1>4 DEF IInv

\* Arming EP2 with a buffer that is left from a reset, or with the oldest packet.
LEMMA ArmEffect ==
  ASSUME IInv, Arm, own + free + Len(full) = 2
  PROVE  /\ own > 0 => own' = own - 1 /\ free' = free + 1 /\ full' = full
         /\ own = 0 /\ full # <<>> => own' = 0 /\ free' = free + 1 /\ full' = Tail(full)
  BY DEF IInv, TypeOK, Arm

LEMMA InvNext == ASSUME LoopbackAssumption, IInv, [Next]_vars PROVE IInv'
<1> USE DEF LoopbackAssumption, BUFFERS
<1>0. /\ full \in Seq(Packets) /\ ep6 \in Seq(Packets) /\ own \in 0 .. 2 /\ free \in 0 .. 2
      /\ sent \in 0 .. MaxSent /\ mark \in 0 .. MaxSent /\ got \in 0 .. MaxSent
      /\ MaxSent \in Nat /\ Len(full) \in Nat /\ Len(ep6) \in 0 .. 2
      /\ (Len(ep6) # 2 => Len(ep6) < 2)
      /\ own + free + Len(full) = 2 /\ Packets \subseteq Nat
  <2>1. MaxSent \in Nat
    OBVIOUS
  <2>2. full \in Seq(Packets) /\ ep6 \in Seq(Packets) /\ Len(ep6) <= 2
    BY DEF IInv, TypeOK, Packets
  <2>3. Len(full) \in Nat /\ Len(ep6) \in Nat /\ Packets \subseteq Nat
    BY <2>2 DEF Packets
  <2>4. /\ own \in 0 .. 2 /\ free \in 0 .. 2 /\ sent \in 0 .. MaxSent
        /\ mark \in 0 .. MaxSent /\ got \in 0 .. MaxSent
    BY DEF IInv, TypeOK
  <2>5. Len(ep6) \in 0 .. 2 /\ (Len(ep6) # 2 => Len(ep6) < 2)
    <3>1. ASSUME NEW n \in Nat, n <= 2
          PROVE  n \in 0 .. 2 /\ (n # 2 => n < 2)
      BY <3>1
    <3>2. QED
      BY <2>2, <2>3, <3>1
  <2>6. own + free + Len(full) = 2
    BY DEF IInv, BuffersConserved
  <2>7. QED
    BY <2>1, <2>2, <2>3, <2>4, <2>5, <2>6
<1>1. CASE HostSend
  <2>1. sent + 1 \in Packets
    BY <1>0, <1>1 DEF HostSend, Packets
  <2>2. /\ full' \in Seq(Packets) /\ full' # <<>> /\ Len(full') = Len(full) + 1
        /\ \A k \in 1 .. Len(full) : full'[k] = full[k]
        /\ full'[Len(full) + 1] = sent + 1
    BY <1>0, <1>1, <2>1, AppendProperties DEF HostSend
  <2>3. TypeOK' /\ BuffersConserved'
    BY <1>0, <1>1, <2>1, <2>2 DEF HostSend, IInv, TypeOK, BuffersConserved, Packets
  <2>4. FlowInv'
    BY <1>0, <1>1, <2>2 DEF HostSend, IInv, FlowInv
  <2>5. FlagInv'
    BY <1>1 DEF HostSend, IInv, FlagInv, InSetup
  <2>6. FlushInv'
    BY <1>0, <1>1, <2>2 DEF HostSend, IInv, FlowInv, FlushInv, InFlush
  <2>7. QED
    BY <2>3, <2>4, <2>5, <2>6 DEF IInv
<1>2. CASE HostRead
  <2>1. /\ Head(ep6) \in Packets /\ Tail(ep6) \in Seq(Packets)
        /\ Len(Tail(ep6)) = Len(ep6) - 1
    BY <1>0, <1>2, HeadTailProperties DEF HostRead
  <2>2. QED
    BY <1>0, <1>2, <2>1
    DEF HostRead, ep2Vars, hostVars, IInv, TypeOK, BuffersConserved, FlowInv, FlagInv,
        FlushInv, InSetup, InFlush, Packets
<1>3. CASE HostSetup
  BY <1>0, <1>3
  DEF HostSetup, ep2Vars, IInv, TypeOK, BuffersConserved, FlowInv, FlagInv, FlushInv,
      InSetup, InFlush
<1>4. CASE sudav_isr
  BY <1>0, <1>4
  DEF sudav_isr, ep2Vars, hostVars, IInv, TypeOK, BuffersConserved, FlowInv, FlagInv,
      FlushInv, InSetup, InFlush
<1>5. CASE TestGotSud
  BY <1>0, <1>5
  DEF TestGotSud, Goto, ep2Vars, IInv, TypeOK, BuffersConserved, FlowInv, FlagInv,
      FlushInv, InSetup, InFlush
<1>6. CASE HandleSetup
  BY <1>0, <1>6
  DEF HandleSetup, Goto, ep2Vars, IInv, TypeOK, BuffersConserved, FlowInv, FlagInv,
      FlushInv, InSetup, InFlush
<1>7. CASE ResetEp2
  BY <1>0, <1>7
  DEF ResetEp2, Goto, IInv, TypeOK, BuffersConserved, FlowInv, FlagInv, FlushInv,
      InSetup, InFlush
<1>8. CASE ArmAgain
  <2>1. own > 0 /\ own' = own - 1 /\ free' = free + 1 /\ full' = full
    BY <1>0, <1>8, ArmEffect DEF ArmAgain, IInv, FlowInv
  <2>2. QED
    BY <1>0, <1>8, <2>1
    DEF ArmAgain, Goto, IInv, TypeOK, BuffersConserved, FlowInv, FlagInv, FlushInv,
        InSetup, InFlush
<1>9. CASE ResetEp6
  BY <1>0, <1>9
  DEF ResetEp6, Goto, ep2Vars, IInv, TypeOK, BuffersConserved, FlowInv, FlagInv,
      FlushInv, InSetup, InFlush
<1>10. CASE Acknowledge
  BY <1>0, <1>10
  DEF Acknowledge, Goto, ep2Vars, IInv, TypeOK, BuffersConserved, FlowInv, FlagInv,
      FlushInv, InSetup, InFlush
<1>11. CASE ClearGotSud
  BY <1>0, <1>11
  DEF ClearGotSud, Goto, ep2Vars, IInv, TypeOK, BuffersConserved, FlowInv, FlagInv,
      FlushInv, InSetup, InFlush
<1>12. CASE TestEp2Empty
  BY <1>0, <1>12
  DEF TestEp2Empty, Goto, ep2Vars, IInv, TypeOK, BuffersConserved, FlowInv, FlagInv,
      FlushInv, InSetup, InFlush
<1>13. CASE TestEp6Full
  <2>1. TypeOK' /\ BuffersConserved'
    BY <1>0, <1>13
    DEF TestEp6Full, Goto, ep2Vars, IInv, TypeOK, BuffersConserved, FlowInv
  <2>2. FlowInv'
    <3>1. UNCHANGED <<fw, own, full, ep6, mark, sent>> /\ pc = "ep6"
      BY <1>13 DEF TestEp6Full, Goto, ep2Vars
    <3>2. pc' \in {"got_sud", "copy"} /\ (pc' = "copy" => Len(ep6) # 2)
      BY <1>13 DEF TestEp6Full, Goto
    <3>3. pc' = "copy" => Len(ep6) < 2
      BY <1>0, <3>2
    <3>4. QED
      BY <3>1, <3>2, <3>3 DEF IInv, FlowInv
  <2>3. FlagInv' /\ FlushInv'
    BY <1>0, <1>13
    DEF TestEp6Full, Goto, ep2Vars, IInv, FlagInv, FlushInv, InSetup, InFlush
  <2>4. QED
    BY <2>1, <2>2, <2>3 DEF IInv
<1>14. CASE CommitPacket
  <2>1. full # <<>> /\ Len(ep6) < 2
    BY <1>14 DEF CommitPacket, IInv, FlowInv
  <2>2. Head(full) \in Packets
    BY <1>0, <2>1, HeadTailProperties
  <2>3. ep6' \in Seq(Packets) /\ Len(ep6') = Len(ep6) + 1
    BY <1>0, <1>14, <2>2, AppendProperties DEF CommitPacket
  <2>4. QED
    BY <1>0, <1>14, <2>1, <2>3
    DEF CommitPacket, Goto, ep2Vars, IInv, TypeOK, BuffersConserved, FlowInv, FlagInv,
        FlushInv, InSetup, InFlush, Packets
<1>15. CASE PrintPacket
  <2>1. full # <<>> /\ Head(full) \in Packets
    BY <1>0, <1>15, HeadTailProperties DEF PrintPacket, IInv, FlowInv
  <2>2. QED
    BY <1>0, <1>15, <2>1
    DEF PrintPacket, Goto, ep2Vars, IInv, TypeOK, BuffersConserved, FlowInv, FlagInv,
        FlushInv, InSetup, InFlush, Packets
<1>16. CASE Rearm
  <2>1. full # <<>> /\ own = 0
    BY <1>16 DEF Rearm, IInv, FlowInv
  <2>2. own' = 0 /\ free' = free + 1 /\ full' = Tail(full)
    BY <1>0, <1>16, <2>1, ArmEffect DEF Rearm
  <2>3. Tail(full) \in Seq(Packets) /\ Len(Tail(full)) = Len(full) - 1
    BY <1>0, <2>1, HeadTailProperties
  <2>4. QED
    BY <1>0, <1>16, <2>1, <2>2, <2>3
    DEF Rearm, Goto, IInv, TypeOK, BuffersConserved, FlowInv, FlagInv, FlushInv, InSetup,
        InFlush, Packets
<1>17. CASE UNCHANGED vars
  BY <1>0, <1>17
  DEF vars, ep2Vars, hostVars, IInv, TypeOK, BuffersConserved, FlowInv, FlagInv, FlushInv,
      InSetup, InFlush
<1>18. QED
  BY <1>1, <1>2, <1>3, <1>4, <1>5, <1>6, <1>7, <1>8, <1>9, <1>10, <1>11, <1>12, <1>13,
     <1>14, <1>15, <1>16, <1>17 DEF Next, Main

LEMMA Invariance == ASSUME LoopbackAssumption PROVE Spec => []IInv
  BY InvInit, InvNext, PTL DEF Spec

-----------------------------------------------------------------------------
(* Sequences.                                                              *)

\* The first packet leaves, a last one comes, and one moves from the second
\* sequence to the first.
LEMMA HeadOfConcat ==
  ASSUME NEW S, NEW s \in Seq(S), NEW t \in Seq(S), s # <<>>
  PROVE  s \o t # <<>> /\ Head(s \o t) = Head(s) /\ Tail(s \o t) = Tail(s) \o t
<1>1. /\ s \o t \in Seq(S) /\ Len(s \o t) = Len(s) + Len(t)
      /\ \A i \in 1 .. Len(s) + Len(t) :
            (s \o t)[i] = IF i <= Len(s) THEN s[i] ELSE t[i - Len(s)]
  BY ConcatProperties
<1>2. Len(s) \in Nat \ {0} /\ Len(t) \in Nat
  BY EmptySeq
<1>3. s \o t # <<>>
  BY <1>1, <1>2
<1>4. Head(s \o t) = Head(s)
  BY <1>1, <1>2, <1>3
<1>5. /\ Tail(s) \in Seq(S) /\ Len(Tail(s)) = Len(s) - 1
      /\ \A i \in 1 .. Len(Tail(s)) : Tail(s)[i] = s[i + 1]
  BY HeadTailProperties
<1>6. /\ Tail(s \o t) \in Seq(S) /\ Len(Tail(s \o t)) = Len(s) + Len(t) - 1
      /\ \A i \in 1 .. Len(Tail(s \o t)) : Tail(s \o t)[i] = (s \o t)[i + 1]
  BY <1>1, <1>3, HeadTailProperties
<1>7. /\ Tail(s) \o t \in Seq(S) /\ Len(Tail(s) \o t) = Len(s) - 1 + Len(t)
      /\ \A i \in 1 .. Len(s) - 1 + Len(t) :
            (Tail(s) \o t)[i] = IF i <= Len(s) - 1 THEN Tail(s)[i] ELSE t[i - (Len(s) - 1)]
  BY <1>5, ConcatProperties
<1>8. ASSUME NEW i \in 1 .. Len(Tail(s \o t))
      PROVE  Tail(s \o t)[i] = (Tail(s) \o t)[i]
  BY <1>1, <1>2, <1>5, <1>6, <1>7
<1>9. Len(Tail(s \o t)) = Len(Tail(s) \o t)
  BY <1>2, <1>6, <1>7
<1>10. QED
  BY <1>3, <1>4, <1>6, <1>7, <1>8, <1>9, SeqEqual

LEMMA AppendToConcat ==
  ASSUME NEW S, NEW s \in Seq(S), NEW t \in Seq(S), NEW x \in S
  PROVE  s \o Append(t, x) = Append(s \o t, x)
<1>1. <<x>> \in Seq(S) /\ s \o t \in Seq(S)
  BY ConcatProperties
<1>2. s \o (t \o <<x>>) = (s \o t) \o <<x>>
  BY <1>1, ConcatAssociative
<1>3. QED
  BY <1>1, <1>2, AppendIsConcat

LEMMA MoveOver ==
  ASSUME NEW S, NEW s \in Seq(S), NEW t \in Seq(S), t # <<>>
  PROVE  Append(s, Head(t)) \o Tail(t) = s \o t
<1>1. Head(t) \in S /\ Tail(t) \in Seq(S) /\ <<Head(t)>> \in Seq(S)
  BY HeadTailProperties
<1>2. <<Head(t)>> \o Tail(t) = t
  <2>1. Len(t) \in Nat \ {0} /\ Len(t) = 1 + Len(Tail(t)) /\ Head(t) = t[1]
    BY EmptySeq, HeadTailProperties
  <2>2. \A i \in 1 .. Len(Tail(t)) : Tail(t)[i] = t[i + 1]
    BY HeadTailProperties
  <2>3. /\ <<Head(t)>> \o Tail(t) \in Seq(S)
        /\ Len(<<Head(t)>> \o Tail(t)) = 1 + Len(Tail(t))
        /\ \A i \in 1 .. 1 + Len(Tail(t)) : (<<Head(t)>> \o Tail(t))[i] =
              IF i <= 1 THEN <<Head(t)>>[i] ELSE Tail(t)[i - 1]
    BY <1>1, ConcatProperties
  <2>4. ASSUME NEW i \in 1 .. Len(t)
        PROVE  (<<Head(t)>> \o Tail(t))[i] = t[i]
    BY <2>1, <2>2, <2>3
  <2>5. QED
    BY <2>1, <2>3, <2>4, SeqEqual
<1>3. (s \o <<Head(t)>>) \o Tail(t) = s \o (<<Head(t)>> \o Tail(t))
  BY <1>1, ConcatAssociative
<1>4. QED
  BY <1>1, <1>2, <1>3, AppendIsConcat

\* The second of two sequences is dropped, or the first.
LEMMA DropSecond ==
  ASSUME NEW S, NEW s \in Seq(S), NEW t \in Seq(S)
  PROVE  s = SubSeq(s \o t, 1, Len(s)) \o SubSeq(s \o t, Len(s \o t) + 1, Len(s \o t))
<1>1. s \o t \in Seq(S) /\ Len(s \o t) \in Nat /\ Len(s) \in Nat
  BY ConcatProperties
<1>2. SubSeq(s \o t, Len(s \o t) + 1, Len(s \o t)) = <<>>
  BY <1>1, SubSeqEmpty
<1>3. SubSeq(s \o t, 1, Len(s)) = s
  <2>1. CASE Len(s) = 0
    BY <1>1, <2>1, SubSeqEmpty, EmptySeq
  <2>2. CASE Len(s) # 0
    BY <1>1, <2>2, SubSeqOfConcat1, SubSeqFull
  <2>3. QED
    BY <2>1, <2>2
<1>4. QED
  BY <1>2, <1>3, ConcatEmptySeq

LEMMA DropFirst ==
  ASSUME NEW S, NEW s \in Seq(S), NEW t \in Seq(S)
  PROVE  t = SubSeq(s \o t, 1, 0) \o SubSeq(s \o t, Len(s) + 1, Len(s \o t))
<1>1. /\ s \o t \in Seq(S) /\ Len(s \o t) = Len(s) + Len(t)
      /\ Len(t) \in Nat /\ Len(s) \in Nat
  BY ConcatProperties
<1>2. SubSeq(s \o t, 1, 0) = <<>>
  BY SubSeqEmpty
<1>3. SubSeq(s \o t, Len(s) + 1, Len(s \o t)) = t
  <2>1. CASE Len(t) = 0
    BY <1>1, <2>1, SubSeqEmpty, EmptySeq
  <2>2. CASE Len(t) # 0
    <3>1. SubSeq(s \o t, Len(s) + 1, Len(s \o t)) = SubSeq(t, 1, Len(t))
      BY <1>1, <2>2, SubSeqOfConcat2
    <3>2. QED
      BY <3>1, SubSeqFull
  <2>3. QED
    BY <2>1, <2>2
<1>4. QED
  BY <1>2, <1>3, ConcatEmptySeq

-----------------------------------------------------------------------------
(* The refinement.                                                         *)

\* What is on its way, at most four packets.
LEMMA TransitType ==
  ASSUME LoopbackAssumption, IInv
  PROVE  /\ full \in Seq(Packets) /\ ep6 \in Seq(Packets)
         /\ InTransit \in Seq(Packets) /\ Len(InTransit) <= Len(ep6) + Len(full)
         /\ pc # "rearm" => InTransit = ep6 \o full
         /\ pc = "rearm" => full # <<>> /\ Tail(full) \in Seq(Packets)
                            /\ InTransit = ep6 \o Tail(full)
<1>1. full \in Seq(Packets) /\ ep6 \in Seq(Packets)
  BY DEF IInv, TypeOK, Packets
<1>2. CASE pc = "rearm"
  <2>1. full # <<>>
    BY <1>2 DEF IInv, FlowInv
  <2>2. Tail(full) \in Seq(Packets) /\ Len(Tail(full)) = Len(full) - 1
    BY <1>1, <2>1, HeadTailProperties
  <2>3. InTransit = ep6 \o Tail(full)
    BY <1>2 DEF InTransit
  <2>4. /\ ep6 \o Tail(full) \in Seq(Packets)
        /\ Len(ep6 \o Tail(full)) = Len(ep6) + Len(Tail(full))
    BY <1>1, <2>2, ConcatProperties
  <2>5. Len(full) \in Nat /\ Len(ep6) \in Nat
    BY <1>1
  <2>6. QED
    BY <1>1, <1>2, <2>1, <2>2, <2>3, <2>4, <2>5
<1>3. CASE pc # "rearm"
  <2>1. InTransit = ep6 \o full
    BY <1>3 DEF InTransit
  <2>2. ep6 \o full \in Seq(Packets) /\ Len(ep6 \o full) = Len(ep6) + Len(full)
    BY <1>1, ConcatProperties
  <2>3. QED
    BY <1>1, <1>3, <2>1, <2>2
<1>4. QED
  BY <1>2, <1>3

\* The firmwares implement Pipe.
THEOREM Implements == ASSUME LoopbackAssumption PROVE Spec => ForwardSpec
<1> USE DEF LoopbackAssumption, BUFFERS
<1> DEFINE flushing == asked = "set_interface"
           pipe == <<sent, InTransit, got, flushing, mark>>
<1>1. Init => Forwarding!Init
  <2>1. <<>> \o <<>> = <<>>
    BY ConcatEmptySeq
  <2>2. QED
    BY <2>1 DEF Init, Forwarding!Init, InTransit
<1>2. ASSUME IInv, [Next]_vars
      PROVE  [Forwarding!Next]_pipe
  <2>0. /\ full \in Seq(Packets) /\ ep6 \in Seq(Packets) /\ InTransit \in Seq(Packets)
        /\ Len(InTransit) <= Len(ep6) + Len(full) /\ Len(ep6) <= 2
        /\ own + free + Len(full) = 2 /\ own \in 0 .. 2 /\ free \in 0 .. 2
        /\ sent \in 0 .. MaxSent /\ MaxSent \in Nat
        /\ Len(full) \in Nat /\ Len(ep6) \in Nat /\ Len(InTransit) \in Nat
    <3>1. full \in Seq(Packets) /\ ep6 \in Seq(Packets) /\ InTransit \in Seq(Packets)
      BY <1>2, TransitType
    <3>2. Len(full) \in Nat /\ Len(ep6) \in Nat /\ Len(InTransit) \in Nat
      BY <3>1
    <3>3. QED
      BY <1>2, <3>1, <3>2, TransitType DEF IInv, TypeOK, BuffersConserved
  <2>1. CASE HostSend
    <3>1. /\ free > 0 /\ sent + 1 \in Packets /\ sent' = sent + 1
          /\ full' = Append(full, sent + 1)
          /\ UNCHANGED <<pc, ep6, asked, mark, got>>
      BY <2>0, <2>1 DEF HostSend, Packets
    <3>2. Len(InTransit) < 4
      BY <2>0, <3>1
    <3>3. InTransit' = Append(InTransit, sent + 1)
      <4>1. CASE pc = "rearm"
        <5>1. /\ full # <<>> /\ Tail(full) \in Seq(Packets) /\ InTransit = ep6 \o Tail(full)
              /\ InTransit' = ep6 \o Tail(full')
          BY <1>2, <3>1, <4>1, TransitType DEF InTransit
        <5>2. Tail(full') = Append(Tail(full), sent + 1)
          BY <2>0, <3>1, <5>1, HeadTailAppend
        <5>3. QED
          BY <2>0, <3>1, <5>1, <5>2, AppendToConcat
      <4>2. CASE pc # "rearm"
        BY <2>0, <3>1, <4>2, AppendToConcat DEF InTransit
      <4>3. QED
        BY <4>1, <4>2
    <3>4. Forwarding!Send
      BY <3>1, <3>2, <3>3 DEF Forwarding!Send
    <3>5. QED
      BY <3>4 DEF Forwarding!Next
  <2>2. CASE HostRead
    <3> DEFINE second == IF pc = "rearm" THEN Tail(full) ELSE full
    <3>1. /\ ep6 # <<>> /\ got' = Head(ep6) /\ ep6' = Tail(ep6)
          /\ UNCHANGED <<pc, full, sent, asked, mark>>
      BY <2>2 DEF HostRead, ep2Vars, hostVars
    <3> HIDE DEF second
    <3>2. /\ second \in Seq(Packets)
          /\ InTransit = ep6 \o second /\ InTransit' = Tail(ep6) \o second
      BY <1>2, <3>1, TransitType DEF InTransit, second
    <3>3. /\ InTransit # <<>> /\ Head(InTransit) = Head(ep6)
          /\ Tail(InTransit) = Tail(ep6) \o second
      BY <2>0, <3>1, <3>2, HeadOfConcat
    <3>4. Forwarding!Receive
      BY <3>1, <3>2, <3>3 DEF Forwarding!Receive
    <3>5. QED
      BY <3>4 DEF Forwarding!Next
  <2>3. CASE HostSetup
    <3>1. /\ asked = "none" /\ asked' \in {"set_interface", "other"}
          /\ mark' = IF asked' = "set_interface" THEN sent ELSE mark
          /\ UNCHANGED <<sent, InTransit, got>>
      BY <2>3 DEF HostSetup, ep2Vars, InTransit
    <3>2. CASE asked' = "set_interface"
      <4>1. Forwarding!Ask
        BY <3>1, <3>2 DEF Forwarding!Ask
      <4>2. QED
        BY <4>1 DEF Forwarding!Next
    <3>3. CASE asked' = "other"
      BY <3>1, <3>3
    <3>4. QED
      BY <3>1, <3>2, <3>3
  <2>4. CASE ResetEp2
    <3>1. /\ pc = "reset2" /\ pc' = "arm1" /\ full' = <<>>
          /\ UNCHANGED <<ep6, sent, got, asked, mark>>
      BY <2>4 DEF ResetEp2, Goto
    <3>2. flushing
      BY <1>2, <3>1 DEF IInv, FlushInv, InFlush
    <3>3. InTransit = ep6 \o full /\ Len(InTransit) = Len(ep6) + Len(full)
      BY <2>0, <3>1, ConcatProperties DEF InTransit
    <3>4. InTransit' = ep6
      BY <2>0, <3>1, ConcatEmptySeq DEF InTransit
    <3>5. InTransit' = SubSeq(InTransit, 1, Len(ep6))
                         \o SubSeq(InTransit, Len(InTransit) + 1, Len(InTransit))
      BY <2>0, <3>3, <3>4, DropSecond
    <3>6. Len(ep6) \in 0 .. Len(InTransit) /\ Len(InTransit) \in Len(ep6) .. Len(InTransit)
      BY <2>0, <3>3
    <3>7. Forwarding!Lose
      BY <3>1, <3>2, <3>5, <3>6 DEF Forwarding!Lose
    <3>8. QED
      BY <3>7 DEF Forwarding!Next
  <2>5. CASE ArmAgain
    <3>1. /\ pc \in {"arm1", "arm2"} /\ pc' # "rearm"
          /\ UNCHANGED <<ep6, sent, got, asked, mark>>
      BY <2>5 DEF ArmAgain, Goto
    <3>2. own > 0
      BY <1>2, <3>1 DEF IInv, FlowInv
    <3>3. full' = full
      BY <1>2, <2>0, <2>5, <3>2, ArmEffect DEF ArmAgain
    <3>4. QED
      BY <3>1, <3>3 DEF InTransit
  <2>6. CASE ResetEp6
    <3>1. /\ pc = "reset6" /\ pc' = "ack" /\ ep6' = <<>>
          /\ UNCHANGED <<full, sent, got, asked, mark>>
      BY <2>6 DEF ResetEp6, Goto, ep2Vars
    <3>2. flushing
      BY <1>2, <3>1 DEF IInv, FlushInv, InFlush
    <3>3. InTransit = ep6 \o full /\ Len(InTransit) = Len(ep6) + Len(full)
      BY <2>0, <3>1, ConcatProperties DEF InTransit
    <3>4. InTransit' = full
      BY <2>0, <3>1, ConcatEmptySeq DEF InTransit
    <3>5. InTransit' = SubSeq(InTransit, 1, 0)
                         \o SubSeq(InTransit, Len(ep6) + 1, Len(InTransit))
      BY <2>0, <3>3, <3>4, DropFirst
    <3>6. 0 \in 0 .. Len(InTransit) /\ Len(ep6) \in 0 .. Len(InTransit)
      BY <2>0, <3>3
    <3>7. Forwarding!Lose
      BY <3>1, <3>2, <3>5, <3>6 DEF Forwarding!Lose
    <3>8. QED
      BY <3>7 DEF Forwarding!Next
  <2>7. CASE Acknowledge
    <3>1. /\ pc = "ack" /\ pc' = "clear" /\ asked' = "none"
          /\ UNCHANGED <<full, ep6, sent, got, mark>>
      BY <2>7 DEF Acknowledge, Goto, ep2Vars
    <3>2. UNCHANGED InTransit
      BY <3>1 DEF InTransit
    <3>3. CASE flushing
      <4>1. ep6 = <<>> /\ \A k \in 1 .. Len(full) : full[k] > mark
        BY <1>2, <3>1, <3>3 DEF IInv, FlushInv
      <4>2. InTransit = full
        BY <2>0, <3>1, <4>1, ConcatEmptySeq DEF InTransit
      <4>3. DOMAIN InTransit = 1 .. Len(full)
        BY <2>0, <4>2
      <4>4. Forwarding!Done
        BY <3>1, <3>2, <3>3, <4>1, <4>2, <4>3 DEF Forwarding!Done
      <4>5. QED
        BY <4>4 DEF Forwarding!Next
    <3>4. CASE ~flushing
      BY <3>1, <3>2, <3>4
    <3>5. QED
      BY <3>3, <3>4
  <2>8. CASE CommitPacket
    <3>1. /\ pc = "copy" /\ pc' = "rearm" /\ ep6' = Append(ep6, Head(full))
          /\ UNCHANGED <<full, sent, got, asked, mark>>
      BY <2>8 DEF CommitPacket, Goto, ep2Vars
    <3>2. full # <<>>
      BY <1>2, <3>1 DEF IInv, FlowInv
    <3>3. InTransit' = InTransit
      BY <2>0, <3>1, <3>2, MoveOver DEF InTransit
    <3>4. QED
      BY <3>1, <3>3
  <2>9. CASE PrintPacket
    <3>1. /\ pc = "copy" /\ pc' = "rearm" /\ fw = "debugdevice" /\ got' = Head(full)
          /\ UNCHANGED <<full, ep6, sent, asked, mark>>
      BY <2>9 DEF PrintPacket, Goto, ep2Vars
    <3>2. full # <<>> /\ ep6 = <<>>
      BY <1>2, <3>1 DEF IInv, FlowInv
    <3>3. InTransit = full
      BY <2>0, <3>1, <3>2, ConcatEmptySeq DEF InTransit
    <3>4. InTransit' = Tail(full)
      <4>1. Tail(full) \in Seq(Packets)
        BY <2>0, <3>2, HeadTailProperties
      <4>2. QED
        BY <3>1, <3>2, <4>1, ConcatEmptySeq DEF InTransit
    <3>5. Forwarding!Receive
      BY <3>1, <3>2, <3>3, <3>4 DEF Forwarding!Receive
    <3>6. QED
      BY <3>5 DEF Forwarding!Next
  <2>10. CASE Rearm
    <3>1. pc = "rearm" /\ pc' # "rearm" /\ UNCHANGED <<ep6, sent, got, asked, mark>>
      BY <2>10 DEF Rearm, Goto
    <3>2. full # <<>> /\ own = 0
      BY <1>2, <3>1 DEF IInv, FlowInv
    <3>3. full' = Tail(full)
      BY <1>2, <2>0, <2>10, <3>2, ArmEffect DEF Rearm
    <3>4. QED
      BY <3>1, <3>3 DEF InTransit
  <2>11. CASE \/ sudav_isr \/ UNCHANGED vars
    BY <2>11 DEF sudav_isr, vars, ep2Vars, hostVars, InTransit
  <2>12. CASE TestGotSud \/ HandleSetup \/ ClearGotSud \/ TestEp2Empty \/ TestEp6Full
    <3>1. pc # "rearm" /\ pc' # "rearm" /\ UNCHANGED <<full, ep6, sent, got, asked, mark>>
      BY <2>12
      DEF TestGotSud, HandleSetup, ClearGotSud, TestEp2Empty, TestEp6Full, Goto, ep2Vars
    <3>2. QED
      BY <3>1 DEF InTransit
  <2>13. QED
    BY <1>2, <2>1, <2>2, <2>3, <2>4, <2>5, <2>6, <2>7, <2>8, <2>9, <2>10, <2>11, <2>12
    DEF Next, Main
<1>3. QED
  BY Invariance, <1>1, <1>2, PTL DEF Spec, ForwardSpec, Forwarding!Spec, Forwarding!vars
=============================================================================
