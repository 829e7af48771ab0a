--------------------------- MODULE FirmwareProofs ---------------------------
(***************************************************************************)
(* Why the framework keeps its promises: the invariants behind             *)
(* SetupNotLost, SpeedKnown and SuspendNotMissed, and the proof that       *)
(* Firmware implements ControlTransfer.                                    *)
(*                                                                         *)
(* The state space is finite and TLC explores all of it.  What the proofs  *)
(* add is the argument, in particular how often a handler may run for a    *)
(* request (RunsInv) and what EP0 holds in the meantime (ReplyInv).        *)
(***************************************************************************)
EXTENDS Firmware, TLAPS

\* A handler is still to come, and one is on its way.
Pending == "SUDAV" \in usbirq \/ dosud
Ahead   == pc \in {"handle", "sudptrl"}

\* A request whose interrupt routine has begun has the flag.
FlagInv ==
    /\ isr # "none" => isr \in usbirq
    /\ isr = "SUDAV" => dosud
    /\ isr = "SUSPEND" => dosuspend
    /\ pc = "clear" => dosud

\* A handler runs once for a request, but for one that came inside a handler:
\* that of the request before may count for it.
RunsInv ==
    /\ Pending /\ Ahead => runs = 0 /\ spoilt
    /\ Pending \/ Ahead => runs \in {0, 1} /\ (~spoilt => runs = 0)
    /\ ~spoilt => runs \in {0, 1}
    /\ pc = "handshake" /\ ~spoilt => runs = 1

\* The speed, and who still has to record it.
SpeedInv ==
    /\ "USBRESET" \in usbirq => bus = "reset" /\ speed = "full"
    /\ "HISPEED" \in usbirq => speed = "high" /\ "USBRESET" \notin usbirq
    /\ isr = "USBRESET" => pDevConfig = "full"
    /\ isr = "HISPEED" => pDevConfig = "high"
    /\ SpeedKnown

\* A device that wakes on an idle bus was woken by the pin, or has been told of
\* the idle bus anew.
SuspendInv ==
    /\ pc = "awake" /\ bus = "idle" => wu \/ "SUSPEND" \in usbirq \/ dosuspend
    /\ SuspendNotMissed

\* The data a request deserves.
Deserved == CASE setup = "status" -> <<remote_wakeup_allowed>>
              [] setup = "config" -> <<speed, speed>>
              [] OTHER            -> NoData

\* What EP0 holds of an open request that came at a good time: nothing before its
\* handler has run, and then nothing but what it deserves.
ReplyInv ==
    /\ open => bus = "active"
    /\ ~spoilt /\ pc = "sudptrl" => setup = "config"
    /\ ~spoilt /\ open /\ pc = "sudptrl" => sudptrh = speed
    /\ ~spoilt /\ open /\ runs = 0 => hsnak /\ ~stall /\ ep0in = NoData /\ got = NoData
    /\ ~spoilt /\ open /\ runs = 1 =>
         /\ stall <=> setup = "unsupported"
         /\ ep0in \in {NoData, Deserved} /\ got \in {NoData, Deserved}

IInv == TypeOK /\ FlagInv /\ RunsInv /\ SpeedInv /\ SuspendInv /\ SetupNotLost /\ ReplyInv

-----------------------------------------------------------------------------
\* The invariant holds in the beginning.
LEMMA InvInit == ASSUME Init PROVE IInv
<1>1. TypeOK
  <2>1. /\ setup \in Kinds /\ reply \in [setup : Kinds, how : {"ack", "stall", "none"},
                                        data : Data \cup {NoData}]
        /\ ep0in = NoData /\ got = NoData
    BY DEF Init, NoReply
  <2>2. /\ open \in BOOLEAN /\ hsnak \in BOOLEAN /\ stall \in BOOLEAN
        /\ wu \in BOOLEAN /\ dosud \in BOOLEAN /\ dosuspend \in BOOLEAN
        /\ remote_wakeup_allowed \in BOOLEAN /\ spoilt \in BOOLEAN
    BY DEF Init
  <2>3. /\ speed \in Speeds /\ bus = "active" /\ usbirq \in SUBSET Irqs /\ isr = "none"
        /\ pc = "main" /\ pDevConfig \in Speeds /\ sudptrh \in Speeds /\ runs \in 0 .. 2
    BY DEF Init, Speeds
  <2>4. QED
    BY <2>1, <2>2, <2>3 DEF TypeOK
<1>2. FlagInv /\ RunsInv
  BY DEF Init, FlagInv, RunsInv, Pending, Ahead
<1>3. SpeedInv /\ SuspendInv
  BY DEF Init, SpeedInv, SpeedKnown, SuspendInv, SuspendNotMissed
<1>4. SetupNotLost /\ ReplyInv
  BY DEF Init, SetupNotLost, ReplyInv
<1>5. QED
  BY <1>1, <1>2, <1>3, <1>4 DEF IInv

\* A status word and the address of a descriptor are data.
LEMMA DataType ==
  /\ \A b \in BOOLEAN : <<b>> \in Data
  /\ \A s, t \in Speeds : <<s, t>> \in Data
  BY DEF Data

\* One lemma for each part of the invariant, in each one step per action.
LEMMA TypeOKStep == ASSUME IInv, Next PROVE TypeOK'
<1> DEFINE Reply == [setup : Kinds, how : {"ack", "stall", "none"},
                     data : Data \cup {NoData}]
<1> USE DEF epVars, busVars, flagVars, cfgVars
<1>0. TypeOK /\ reply \in Reply /\ setup \in Kinds /\ got \in Data \cup {NoData}
  BY DEF IInv, TypeOK
<1>1. /\ setup' \in Kinds /\ open' \in BOOLEAN /\ hsnak' \in BOOLEAN /\ stall' \in BOOLEAN
      /\ ep0in' \in Data \cup {NoData} /\ got' \in Data \cup {NoData}
  <2>1. CASE \/ HostResetEnd \/ HostIdle \/ HostResume \/ WakeupPin \/ sudav_isr
             \/ suspend_isr \/ usbreset_isr \/ hispeed_isr \/ ClearIrq \/ MainLoop
             \/ TestDosud \/ ClearDosud \/ HandleWakeFeature \/ HandleConfig
             \/ TestDosuspend \/ ClearWakeup \/ Sleep \/ Wake \/ TestLoop \/ TestResume
             \/ SignalResume
    <3>1. UNCHANGED <<setup, open, hsnak, stall, ep0in, got>>
      BY <2>1
      DEF HostResetEnd, HostIdle, HostResume, WakeupPin, sudav_isr, suspend_isr,
          usbreset_isr, hispeed_isr, ClearIrq, MainLoop, TestDosud, ClearDosud,
          HandleWakeFeature, HandleConfig, TestDosuspend, ClearWakeup, Sleep, Wake,
          TestLoop, TestResume, SignalResume, StartIsr, Step
    <3>2. QED
      BY <1>0, <3>1 DEF TypeOK
  <2>2. CASE HostSetup
    BY <1>0, <2>2 DEF HostSetup, InHandler, TypeOK
  <2>3. CASE HostData
    BY <1>0, <2>3 DEF HostData, TypeOK
  <2>4. CASE HostAck
    BY <1>0, <2>4 DEF HostAck, EndTransfer, TypeOK
  <2>5. CASE HostStall
    BY <1>0, <2>5 DEF HostStall, EndTransfer, TypeOK
  <2>6. CASE HostReset
    BY <1>0, <2>6 DEF HostReset, TypeOK
  <2>7. CASE HandleStatus
    BY <1>0, <2>7, DataType DEF HandleStatus, Step, TypeOK
  <2>8. CASE WriteSudptrl
    BY <1>0, <2>8, DataType DEF WriteSudptrl, Step, TypeOK
  <2>9. CASE HandleUnsupported
    BY <1>0, <2>9 DEF HandleUnsupported, Step, TypeOK
  <2>10. CASE Handshake
    BY <1>0, <2>10 DEF Handshake, Step, TypeOK
  <2>11. QED
    BY <2>1, <2>2, <2>3, <2>4, <2>5, <2>6, <2>7, <2>8, <2>9, <2>10 DEF Next, Host,
       Interrupts, Main
<1>2. /\ speed' \in Speeds /\ bus' \in {"active", "idle", "reset"} /\ wu' \in BOOLEAN
      /\ usbirq' \in SUBSET Irqs /\ isr' \in Irqs \cup {"none"}
  <2>1. CASE \/ HostData \/ HostAck \/ HostStall \/ MainLoop \/ TestDosud \/ ClearDosud
             \/ HandleWakeFeature \/ HandleStatus \/ HandleConfig \/ WriteSudptrl
             \/ HandleUnsupported \/ Handshake \/ TestDosuspend \/ Sleep \/ Wake
             \/ TestLoop \/ TestResume
    <3>1. UNCHANGED <<speed, bus, wu, usbirq, isr>>
      BY <2>1
      DEF HostData, HostAck, HostStall, MainLoop, TestDosud, ClearDosud,
          HandleWakeFeature, HandleStatus, HandleConfig, WriteSudptrl,
          HandleUnsupported, Handshake, TestDosuspend, Sleep, Wake, TestLoop,
          TestResume, EndTransfer, Step
    <3>2. QED
      BY <1>0, <3>1 DEF TypeOK
  <2>2. CASE HostSetup
    BY <1>0, <2>2 DEF HostSetup, InHandler, Irqs, Speeds, TypeOK
  <2>3. CASE HostReset
    BY <1>0, <2>3 DEF HostReset, Irqs, Speeds, TypeOK
  <2>4. CASE HostResetEnd
    BY <1>0, <2>4 DEF HostResetEnd, InHandler, Irqs, Speeds, TypeOK
  <2>5. CASE HostIdle
    BY <1>0, <2>5 DEF HostIdle, Irqs, Speeds, TypeOK
  <2>6. CASE HostResume
    BY <1>0, <2>6 DEF HostResume, Irqs, Speeds, TypeOK
  <2>7. CASE WakeupPin
    BY <1>0, <2>7 DEF WakeupPin, Irqs, Speeds, TypeOK
  <2>8. CASE sudav_isr
    BY <1>0, <2>8 DEF sudav_isr, StartIsr, Irqs, Speeds, TypeOK
  <2>9. CASE suspend_isr
    BY <1>0, <2>9 DEF suspend_isr, StartIsr, Irqs, Speeds, TypeOK
  <2>10. CASE usbreset_isr
    BY <1>0, <2>10 DEF usbreset_isr, StartIsr, Irqs, Speeds, TypeOK
  <2>11. CASE hispeed_isr
    BY <1>0, <2>11 DEF hispeed_isr, StartIsr, Irqs, Speeds, TypeOK
  <2>12. CASE ClearIrq
    BY <1>0, <2>12 DEF ClearIrq, Irqs, Speeds, TypeOK
  <2>13. CASE ClearWakeup
    BY <1>0, <2>13 DEF ClearWakeup, Step, Irqs, Speeds, TypeOK
  <2>14. CASE SignalResume
    BY <1>0, <2>14 DEF SignalResume, Step, Irqs, Speeds, TypeOK
  <2>15. QED
    BY <2>1, <2>2, <2>3, <2>4, <2>5, <2>6, <2>7, <2>8, <2>9, <2>10, <2>11, <2>12,
       <2>13, <2>14 DEF Next, Host, Interrupts, Main
<1>3. /\ pc' \in {"main", "test", "clear", "handle", "sudptrl", "handshake", "suspend",
                 "wucs", "sleep", "asleep", "awake", "resume", "signal"}
      /\ dosud' \in BOOLEAN /\ dosuspend' \in BOOLEAN
      /\ remote_wakeup_allowed' \in BOOLEAN /\ pDevConfig' \in Speeds /\ sudptrh' \in Speeds
  <2>1. CASE \/ HostSetup \/ HostData \/ HostAck \/ HostStall \/ HostReset
             \/ HostResetEnd \/ HostIdle \/ HostResume \/ WakeupPin
    <3>1. UNCHANGED <<pc, dosud, dosuspend, remote_wakeup_allowed, pDevConfig, sudptrh>>
      BY <2>1
      DEF HostSetup, HostData, HostAck, HostStall, HostReset, HostResetEnd, HostIdle,
          HostResume, WakeupPin, EndTransfer
    <3>2. QED
      BY <1>0, <3>1 DEF TypeOK
  <2>2. CASE sudav_isr
    BY <1>0, <2>2 DEF sudav_isr, StartIsr, Speeds, TypeOK
  <2>3. CASE suspend_isr
    BY <1>0, <2>3 DEF suspend_isr, StartIsr, Speeds, TypeOK
  <2>4. CASE usbreset_isr
    BY <1>0, <2>4 DEF usbreset_isr, StartIsr, Speeds, TypeOK
  <2>5. CASE hispeed_isr
    BY <1>0, <2>5 DEF hispeed_isr, StartIsr, Speeds, TypeOK
  <2>6. CASE ClearIrq
    BY <1>0, <2>6 DEF ClearIrq, Speeds, TypeOK
  <2>7. CASE MainLoop
    BY <1>0, <2>7 DEF MainLoop, Step, Speeds, TypeOK
  <2>8. CASE TestDosud
    BY <1>0, <2>8 DEF TestDosud, Step, Speeds, TypeOK
  <2>9. CASE ClearDosud
    BY <1>0, <2>9 DEF ClearDosud, Step, Speeds, TypeOK
  <2>10. CASE HandleWakeFeature
    BY <1>0, <2>10 DEF HandleWakeFeature, Step, Speeds, TypeOK
  <2>11. CASE HandleStatus
    BY <1>0, <2>11 DEF HandleStatus, Step, Speeds, TypeOK
  <2>12. CASE HandleConfig
    BY <1>0, <2>12 DEF HandleConfig, Step, Speeds, TypeOK
  <2>13. CASE WriteSudptrl
    BY <1>0, <2>13 DEF WriteSudptrl, Step, Speeds, TypeOK
  <2>14. CASE HandleUnsupported
    BY <1>0, <2>14 DEF HandleUnsupported, Step, Speeds, TypeOK
  <2>15. CASE Handshake
    BY <1>0, <2>15 DEF Handshake, Step, Speeds, TypeOK
  <2>16. CASE TestDosuspend
    BY <1>0, <2>16 DEF TestDosuspend, Step, Speeds, TypeOK
  <2>17. CASE ClearWakeup
    BY <1>0, <2>17 DEF ClearWakeup, Step, Speeds, TypeOK
  <2>18. CASE Sleep
    BY <1>0, <2>18 DEF Sleep, Step, Speeds, TypeOK
  <2>19. CASE Wake
    BY <1>0, <2>19 DEF Wake, Speeds, TypeOK
  <2>20. CASE TestLoop
    BY <1>0, <2>20 DEF TestLoop, Step, Speeds, TypeOK
  <2>21. CASE TestResume
    BY <1>0, <2>21 DEF TestResume, Step, Speeds, TypeOK
  <2>22. CASE SignalResume
    BY <1>0, <2>22 DEF SignalResume, Step, Speeds, TypeOK
  <2>23. QED
    BY <2>1, <2>2, <2>3, <2>4, <2>5, <2>6, <2>7, <2>8, <2>9, <2>10, <2>11, <2>12,
       <2>13, <2>14, <2>15, <2>16, <2>17, <2>18, <2>19, <2>20, <2>21, <2>22
    DEF Next, Host, Interrupts, Main
<1>4. /\ runs' \in 0 .. 2 /\ spoilt' \in BOOLEAN
      /\ reply' \in Reply
  <2>1. CASE \/ HostData \/ HostReset \/ HostResetEnd \/ HostIdle \/ HostResume
             \/ WakeupPin \/ sudav_isr \/ suspend_isr \/ usbreset_isr \/ hispeed_isr
             \/ ClearIrq \/ MainLoop \/ TestDosud \/ ClearDosud \/ HandleConfig
             \/ Handshake \/ TestDosuspend \/ ClearWakeup \/ Sleep \/ Wake \/ TestLoop
             \/ TestResume \/ SignalResume
    <3>1. UNCHANGED <<runs, spoilt, reply>>
      BY <2>1
      DEF HostData, HostReset, HostResetEnd, HostIdle, HostResume, WakeupPin, sudav_isr,
          suspend_isr, usbreset_isr, hispeed_isr, ClearIrq, MainLoop, TestDosud,
          ClearDosud, HandleConfig, Handshake, TestDosuspend, ClearWakeup, Sleep, Wake,
          TestLoop, TestResume, SignalResume, StartIsr, Step
    <3>2. QED
      BY <1>0, <3>1 DEF TypeOK
  <2>2. CASE HostSetup
    BY <1>0, <2>2 DEF HostSetup, InHandler, NoReply, TypeOK
  <2>3. CASE HostAck
    BY <1>0, <2>3 DEF HostAck, EndTransfer, TypeOK
  <2>4. CASE HostStall
    BY <1>0, <2>4 DEF HostStall, EndTransfer, TypeOK
  <2>5. CASE HandleWakeFeature
    BY <1>0, <2>5 DEF HandleWakeFeature, Step, IInv, RunsInv, Ahead, TypeOK
  <2>6. CASE HandleStatus
    BY <1>0, <2>6 DEF HandleStatus, Step, IInv, RunsInv, Ahead, TypeOK
  <2>7. CASE WriteSudptrl
    BY <1>0, <2>7 DEF WriteSudptrl, Step, IInv, RunsInv, Ahead, TypeOK
  <2>8. CASE HandleUnsupported
    BY <1>0, <2>8 DEF HandleUnsupported, Step, IInv, RunsInv, Ahead, TypeOK
  <2>9. QED
    BY <2>1, <2>2, <2>3, <2>4, <2>5, <2>6, <2>7, <2>8 DEF Next, Host, Interrupts,
       Main
<1>5. QED
  BY <1>1, <1>2, <1>3, <1>4 DEF TypeOK

\* The flag is set when the routine begins, and its request cleared when it ends.
LEMMA FlagInvStep == ASSUME IInv, Next PROVE FlagInv'
<1> USE DEF IInv, TypeOK, FlagInv, epVars, busVars, flagVars, cfgVars
<1>1. CASE HostData \/ HostAck \/ HostStall \/ HostResume \/ WakeupPin
  <2>1. UNCHANGED <<isr, usbirq, dosud, dosuspend, pc>>
    BY <1>1 DEF HostData, HostAck, HostStall, HostResume, WakeupPin, EndTransfer
  <2>2. QED
    BY <2>1
<1>2. CASE \/ HandleWakeFeature \/ HandleStatus \/ HandleConfig \/ WriteSudptrl
           \/ HandleUnsupported \/ Handshake \/ ClearWakeup \/ Sleep \/ MainLoop \/ Wake
           \/ TestLoop \/ TestResume \/ SignalResume
  BY <1>2
  DEF HandleWakeFeature, HandleStatus, HandleConfig, WriteSudptrl, HandleUnsupported,
      Handshake, ClearWakeup, Sleep, MainLoop, Wake, TestLoop, TestResume, SignalResume,
      Step
<1>3. CASE HostSetup
  BY <1>3 DEF HostSetup, InHandler
<1>4. CASE HostReset
  BY <1>4 DEF HostReset
<1>5. CASE HostResetEnd
  BY <1>5 DEF HostResetEnd, InHandler
<1>6. CASE HostIdle
  BY <1>6 DEF HostIdle
<1>7. CASE sudav_isr
  BY <1>7 DEF sudav_isr, StartIsr
<1>8. CASE suspend_isr
  BY <1>8 DEF suspend_isr, StartIsr
<1>9. CASE usbreset_isr
  BY <1>9 DEF usbreset_isr, StartIsr
<1>10. CASE hispeed_isr
  BY <1>10 DEF hispeed_isr, StartIsr
<1>11. CASE ClearIrq
  BY <1>11 DEF ClearIrq
<1>12. CASE TestDosud
  BY <1>12 DEF TestDosud, Step
<1>13. CASE ClearDosud
  BY <1>13 DEF ClearDosud, Step
<1>14. CASE TestDosuspend
  BY <1>14 DEF TestDosuspend, Step
<1>15. QED
  BY <1>1, <1>2, <1>3, <1>4, <1>5, <1>6, <1>7, <1>8, <1>9, <1>10, <1>11, <1>12, <1>13,
     <1>14 DEF Next, Host, Interrupts, Main

\* A SETUP inside a handler finds one Ahead and makes one Pending; any other finds
\* none Ahead.
LEMMA RunsInvStep == ASSUME IInv, Next PROVE RunsInv'
<1> USE DEF IInv, TypeOK, FlagInv, RunsInv, Pending, Ahead, epVars, busVars, flagVars,
            cfgVars
<1>1. CASE HostData \/ HostAck \/ HostStall \/ HostResume \/ WakeupPin
  <2>1. UNCHANGED <<runs, spoilt, usbirq, dosud, pc>>
    BY <1>1 DEF HostData, HostAck, HostStall, HostResume, WakeupPin, EndTransfer
  <2>2. QED
    BY <2>1
<1>2. CASE HostSetup
  BY <1>2 DEF HostSetup, InHandler
<1>3. CASE HostReset
  BY <1>3 DEF HostReset
<1>4. CASE HostResetEnd
  BY <1>4 DEF HostResetEnd, InHandler
<1>5. CASE HostIdle
  BY <1>5 DEF HostIdle
<1>6. CASE sudav_isr
  BY <1>6 DEF sudav_isr, StartIsr
<1>7. CASE suspend_isr
  BY <1>7 DEF suspend_isr, StartIsr
<1>8. CASE usbreset_isr
  BY <1>8 DEF usbreset_isr, StartIsr
<1>9. CASE hispeed_isr
  BY <1>9 DEF hispeed_isr, StartIsr
<1>10. CASE ClearIrq
  BY <1>10 DEF ClearIrq
<1>11. CASE MainLoop
  BY <1>11 DEF MainLoop, Step
<1>12. CASE TestDosud
  BY <1>12 DEF TestDosud, Step
<1>13. CASE ClearDosud
  BY <1>13 DEF ClearDosud, Step
<1>14. CASE HandleWakeFeature
  BY <1>14 DEF HandleWakeFeature, Step
<1>15. CASE HandleStatus
  BY <1>15 DEF HandleStatus, Step
<1>16. CASE HandleConfig
  BY <1>16 DEF HandleConfig, Step
<1>17. CASE WriteSudptrl
  BY <1>17 DEF WriteSudptrl, Step
<1>18. CASE HandleUnsupported
  BY <1>18 DEF HandleUnsupported, Step
<1>19. CASE Handshake
  BY <1>19 DEF Handshake, Step
<1>20. CASE TestDosuspend
  BY <1>20 DEF TestDosuspend, Step
<1>21. CASE ClearWakeup
  BY <1>21 DEF ClearWakeup, Step
<1>22. CASE Sleep
  BY <1>22 DEF Sleep, Step
<1>23. CASE Wake
  BY <1>23 DEF Wake
<1>24. CASE TestLoop
  BY <1>24 DEF TestLoop, Step
<1>25. CASE TestResume
  BY <1>25 DEF TestResume, Step
<1>26. CASE SignalResume
  BY <1>26 DEF SignalResume, Step
<1>27. QED
  BY <1>1, <1>2, <1>3, <1>4, <1>5, <1>6, <1>7, <1>8, <1>9, <1>10, <1>11, <1>12, <1>13,
     <1>14, <1>15, <1>16, <1>17, <1>18, <1>19, <1>20, <1>21, <1>22, <1>23, <1>24,
     <1>25, <1>26 DEF Next, Host, Interrupts, Main

\* The speed changes only while no routine that records it runs.
LEMMA SpeedInvStep == ASSUME IInv, Next PROVE SpeedInv'
<1> USE DEF IInv, TypeOK, FlagInv, SpeedInv, SpeedKnown, epVars, busVars, flagVars,
            cfgVars
<1>1. CASE HostData \/ HostAck \/ HostStall \/ WakeupPin
  <2>1. UNCHANGED <<speed, bus, usbirq, isr, pDevConfig>>
    BY <1>1 DEF HostData, HostAck, HostStall, WakeupPin, EndTransfer
  <2>2. QED
    BY <2>1
<1>2. CASE \/ MainLoop \/ TestDosud \/ ClearDosud \/ HandleWakeFeature \/ HandleStatus
           \/ HandleConfig \/ WriteSudptrl \/ HandleUnsupported \/ Handshake
           \/ TestDosuspend \/ ClearWakeup \/ Sleep \/ Wake \/ TestLoop \/ TestResume
  <2>1. UNCHANGED <<speed, bus, usbirq, isr, pDevConfig>>
    BY <1>2
    DEF MainLoop, TestDosud, ClearDosud, HandleWakeFeature, HandleStatus, HandleConfig,
        WriteSudptrl, HandleUnsupported, Handshake, TestDosuspend, ClearWakeup, Sleep,
        Wake, TestLoop, TestResume, Step
  <2>2. QED
    BY <2>1
<1>3. CASE HostSetup
  BY <1>3 DEF HostSetup, InHandler
<1>4. CASE HostReset
  BY <1>4 DEF HostReset
<1>5. CASE HostResetEnd
  BY <1>5 DEF HostResetEnd, InHandler
<1>6. CASE HostIdle
  BY <1>6 DEF HostIdle
<1>7. CASE HostResume
  BY <1>7 DEF HostResume
<1>8. CASE sudav_isr
  BY <1>8 DEF sudav_isr, StartIsr
<1>9. CASE suspend_isr
  BY <1>9 DEF suspend_isr, StartIsr
<1>10. CASE usbreset_isr
  BY <1>10 DEF usbreset_isr, StartIsr
<1>11. CASE hispeed_isr
  BY <1>11 DEF hispeed_isr, StartIsr
<1>12. CASE ClearIrq
  BY <1>12 DEF ClearIrq
<1>13. CASE SignalResume
  BY <1>13 DEF SignalResume, Step
<1>14. QED
  BY <1>1, <1>2, <1>3, <1>4, <1>5, <1>6, <1>7, <1>8, <1>9, <1>10, <1>11, <1>12, <1>13
     DEF Next, Host, Interrupts, Main

\* The device goes to sleep as long as one of the four reasons holds.
LEMMA SuspendInvStep == ASSUME IInv, Next PROVE SuspendInv'
<1> USE DEF IInv, TypeOK, FlagInv, SuspendInv, SuspendNotMissed, epVars, busVars,
            flagVars, cfgVars
<1>1. CASE HostData \/ HostAck \/ HostStall
  <2>1. UNCHANGED <<bus, usbirq, dosuspend, pc, wu, remote_wakeup_allowed>>
    BY <1>1 DEF HostData, HostAck, HostStall, EndTransfer
  <2>2. QED
    BY <2>1
<1>2. CASE HostSetup
  BY <1>2 DEF HostSetup, InHandler
<1>3. CASE HostReset
  BY <1>3 DEF HostReset
<1>4. CASE HostResetEnd
  BY <1>4 DEF HostResetEnd, InHandler
<1>5. CASE HostIdle
  BY <1>5 DEF HostIdle
<1>6. CASE HostResume
  BY <1>6 DEF HostResume
<1>7. CASE WakeupPin
  BY <1>7 DEF WakeupPin
<1>8. CASE sudav_isr
  BY <1>8 DEF sudav_isr, StartIsr
<1>9. CASE suspend_isr
  BY <1>9 DEF suspend_isr, StartIsr
<1>10. CASE usbreset_isr
  BY <1>10 DEF usbreset_isr, StartIsr
<1>11. CASE hispeed_isr
  BY <1>11 DEF hispeed_isr, StartIsr
<1>12. CASE ClearIrq
  BY <1>12 DEF ClearIrq
<1>13. CASE MainLoop
  BY <1>13 DEF MainLoop, Step
<1>14. CASE TestDosud
  BY <1>14 DEF TestDosud, Step
<1>15. CASE ClearDosud
  BY <1>15 DEF ClearDosud, Step
<1>16. CASE HandleWakeFeature
  BY <1>16 DEF HandleWakeFeature, Step
<1>17. CASE HandleStatus
  BY <1>17 DEF HandleStatus, Step
<1>18. CASE HandleConfig
  BY <1>18 DEF HandleConfig, Step
<1>19. CASE WriteSudptrl
  BY <1>19 DEF WriteSudptrl, Step
<1>20. CASE HandleUnsupported
  BY <1>20 DEF HandleUnsupported, Step
<1>21. CASE Handshake
  BY <1>21 DEF Handshake, Step
<1>22. CASE TestDosuspend
  BY <1>22 DEF TestDosuspend, Step
<1>23. CASE ClearWakeup
  BY <1>23 DEF ClearWakeup, Step
<1>24. CASE Sleep
  BY <1>24 DEF Sleep, Step
<1>25. CASE Wake
  BY <1>25 DEF Wake
<1>26. CASE TestLoop
  BY <1>26 DEF TestLoop, Step
<1>27. CASE TestResume
  BY <1>27 DEF TestResume, Step
<1>28. CASE SignalResume
  BY <1>28 DEF SignalResume, Step
<1>29. QED
  BY <1>1, <1>2, <1>3, <1>4, <1>5, <1>6, <1>7, <1>8, <1>9, <1>10, <1>11, <1>12, <1>13,
     <1>14, <1>15, <1>16, <1>17, <1>18, <1>19, <1>20, <1>21, <1>22, <1>23, <1>24,
     <1>25, <1>26, <1>27, <1>28 DEF Next, Host, Interrupts, Main

\* SUDAV hands a request on to the flag, and the flag to the handler.
LEMMA SetupNotLostStep == ASSUME IInv, Next PROVE SetupNotLost'
<1> USE DEF IInv, TypeOK, FlagInv, SetupNotLost, BeforeHandler, epVars, busVars,
            flagVars, cfgVars
<1>1. CASE HostData \/ HostResume \/ WakeupPin
  <2>1. UNCHANGED <<open, runs, usbirq, dosud, pc>>
    BY <1>1 DEF HostData, HostResume, WakeupPin
  <2>2. QED
    BY <2>1
<1>2. CASE HostSetup
  BY <1>2 DEF HostSetup, InHandler
<1>3. CASE HostAck
  BY <1>3 DEF HostAck, EndTransfer
<1>4. CASE HostStall
  BY <1>4 DEF HostStall, EndTransfer
<1>5. CASE HostReset
  BY <1>5 DEF HostReset
<1>6. CASE HostResetEnd
  BY <1>6 DEF HostResetEnd, InHandler
<1>7. CASE HostIdle
  BY <1>7 DEF HostIdle
<1>8. CASE sudav_isr
  BY <1>8 DEF sudav_isr, StartIsr
<1>9. CASE suspend_isr
  BY <1>9 DEF suspend_isr, StartIsr
<1>10. CASE usbreset_isr
  BY <1>10 DEF usbreset_isr, StartIsr
<1>11. CASE hispeed_isr
  BY <1>11 DEF hispeed_isr, StartIsr
<1>12. CASE ClearIrq
  BY <1>12 DEF ClearIrq
<1>13. CASE MainLoop
  BY <1>13 DEF MainLoop, Step
<1>14. CASE TestDosud
  BY <1>14 DEF TestDosud, Step
<1>15. CASE ClearDosud
  BY <1>15 DEF ClearDosud, Step
<1>16. CASE HandleWakeFeature
  BY <1>16 DEF HandleWakeFeature, Step
<1>17. CASE HandleStatus
  BY <1>17 DEF HandleStatus, Step
<1>18. CASE HandleConfig
  BY <1>18 DEF HandleConfig, Step
<1>19. CASE WriteSudptrl
  BY <1>19 DEF WriteSudptrl, Step
<1>20. CASE HandleUnsupported
  BY <1>20 DEF HandleUnsupported, Step
<1>21. CASE Handshake
  BY <1>21 DEF Handshake, Step
<1>22. CASE TestDosuspend
  BY <1>22 DEF TestDosuspend, Step
<1>23. CASE ClearWakeup
  BY <1>23 DEF ClearWakeup, Step
<1>24. CASE Sleep
  BY <1>24 DEF Sleep, Step
<1>25. CASE Wake
  BY <1>25 DEF Wake
<1>26. CASE TestLoop
  BY <1>26 DEF TestLoop, Step
<1>27. CASE TestResume
  BY <1>27 DEF TestResume, Step
<1>28. CASE SignalResume
  BY <1>28 DEF SignalResume, Step
<1>29. QED
  BY <1>1, <1>2, <1>3, <1>4, <1>5, <1>6, <1>7, <1>8, <1>9, <1>10, <1>11, <1>12, <1>13,
     <1>14, <1>15, <1>16, <1>17, <1>18, <1>19, <1>20, <1>21, <1>22, <1>23, <1>24,
     <1>25, <1>26, <1>27, <1>28 DEF Next, Host, Interrupts, Main

\* EP0 is changed by the handler, whose request is the open one unless it is spoilt.
LEMMA ReplyInvStep == ASSUME IInv, Next PROVE ReplyInv'
<1> USE DEF IInv, TypeOK, FlagInv, RunsInv, SpeedInv, SpeedKnown, ReplyInv, Deserved,
            Pending, Ahead, NoData, epVars, busVars, flagVars, cfgVars
<1>1. CASE sudav_isr \/ suspend_isr \/ usbreset_isr \/ hispeed_isr \/ ClearIrq
  <2>1. UNCHANGED <<open, bus, spoilt, pc, setup, sudptrh, speed, runs, hsnak, stall,
                    ep0in, got, remote_wakeup_allowed>>
    BY <1>1 DEF sudav_isr, suspend_isr, usbreset_isr, hispeed_isr, ClearIrq, StartIsr
  <2>2. QED
    BY <2>1
<1>2. CASE HostSetup
  <2>1. /\ bus = "active" /\ bus' = bus /\ runs' = 0 /\ hsnak' /\ ~stall' /\ ep0in' = <<>>
        /\ got' = <<>> /\ pc' = pc /\ (pc = "sudptrl" => spoilt')
    BY <1>2 DEF HostSetup, InHandler
  <2>2. QED
    BY <2>1
<1>3. CASE HostData
  BY <1>3 DEF HostData
<1>4. CASE HostAck
  BY <1>4 DEF HostAck, EndTransfer
<1>5. CASE HostStall
  BY <1>5 DEF HostStall, EndTransfer
<1>6. CASE HostReset
  BY <1>6 DEF HostReset
<1>7. CASE HostResetEnd
  BY <1>7 DEF HostResetEnd, InHandler
<1>8. CASE HostIdle
  BY <1>8 DEF HostIdle
<1>9. CASE HostResume
  BY <1>9 DEF HostResume
<1>10. CASE WakeupPin
  BY <1>10 DEF WakeupPin
<1>11. CASE MainLoop
  BY <1>11 DEF MainLoop, Step
<1>12. CASE TestDosud
  BY <1>12 DEF TestDosud, Step
<1>13. CASE ClearDosud
  BY <1>13 DEF ClearDosud, Step
<1>14. CASE HandleWakeFeature
  BY <1>14 DEF HandleWakeFeature, Step
<1>15. CASE HandleStatus
  BY <1>15 DEF HandleStatus, Step
<1>16. CASE HandleConfig
  BY <1>16 DEF HandleConfig, Step
<1>17. CASE WriteSudptrl
  BY <1>17 DEF WriteSudptrl, Step
<1>18. CASE HandleUnsupported
  BY <1>18 DEF HandleUnsupported, Step
<1>19. CASE Handshake
  BY <1>19 DEF Handshake, Step
<1>20. CASE TestDosuspend
  BY <1>20 DEF TestDosuspend, Step
<1>21. CASE ClearWakeup
  BY <1>21 DEF ClearWakeup, Step
<1>22. CASE Sleep
  BY <1>22 DEF Sleep, Step
<1>23. CASE Wake
  BY <1>23 DEF Wake
<1>24. CASE TestLoop
  BY <1>24 DEF TestLoop, Step
<1>25. CASE TestResume
  BY <1>25 DEF TestResume, Step
<1>26. CASE SignalResume
  BY <1>26 DEF SignalResume, Step
<1>27. QED
  BY <1>1, <1>2, <1>3, <1>4, <1>5, <1>6, <1>7, <1>8, <1>9, <1>10, <1>11, <1>12, <1>13,
     <1>14, <1>15, <1>16, <1>17, <1>18, <1>19, <1>20, <1>21, <1>22, <1>23, <1>24,
     <1>25, <1>26 DEF Next, Host, Interrupts, Main

\* The invariant, of every reachable state.
LEMMA Invariance == Spec => []IInv
<1>1. ASSUME IInv, [Next]_vars PROVE IInv'
  <2>1. CASE Next
    BY <1>1, <2>1, TypeOKStep, FlagInvStep, RunsInvStep, SpeedInvStep, SuspendInvStep,
       SetupNotLostStep, ReplyInvStep DEF IInv
  <2>2. CASE UNCHANGED vars
    BY <1>1, <2>2
    DEF vars, IInv, TypeOK, FlagInv, RunsInv, SpeedInv, SpeedKnown, SuspendInv,
        SuspendNotMissed, SetupNotLost, ReplyInv, Pending, Ahead, Deserved, BeforeHandler
  <2>3. QED
    BY <1>1, <2>1, <2>2
<1>2. QED
  BY InvInit, <1>1, PTL DEF Spec

-----------------------------------------------------------------------------
\* Every variable keeps its type; no handler runs more than twice for a request.
THEOREM TypeCorrect == Spec => []TypeOK
<1>1. IInv => TypeOK
  BY DEF IInv
<1>2. QED
  BY Invariance, <1>1, PTL

\* The interrupt routine, the flag and the main loop lose no SETUP.
THEOREM NoSetupLost == Spec => []SetupNotLost
<1>1. IInv => SetupNotLost
  BY DEF IInv
<1>2. QED
  BY Invariance, <1>1, PTL

\* The interrupt routines know the speed of the bus.
THEOREM SpeedTracked == Spec => []SpeedKnown
<1>1. IInv => SpeedKnown
  BY DEF IInv, SpeedInv
<1>2. QED
  BY Invariance, <1>1, PTL

\* The main loop misses no suspend.
THEOREM SuspendSeen == Spec => []SuspendNotMissed
<1>1. IInv => SuspendNotMissed
  BY DEF IInv, SuspendInv
<1>2. QED
  BY Invariance, <1>1, PTL

-----------------------------------------------------------------------------
(* The refinement.                                                         *)

\* The two modules speak of the same data.
LEMMA SameData ==
  /\ Transfer!NoData = NoData /\ Transfer!Data = Data /\ Transfer!Kinds = Kinds
  /\ Transfer!Speeds = Speeds
  /\ Transfer!Reply = [setup : Kinds, how : {"ack", "stall", "none"},
                       data : Data \cup {NoData}]
  BY DEF Transfer!NoData, NoData, Transfer!Data, Data, Transfer!Kinds, Kinds,
         Transfer!Speeds, Speeds, Transfer!Reply

\* An answer is the one the request deserves, unless the request is spoilt.
LEMMA AnswerStep ==
  ASSUME IInv, HostAck \/ HostStall
  PROVE  Transfer!Answer \/ Transfer!AnswerSpoilt
<1> DEFINE how == IF HostAck THEN "ack" ELSE "stall"
<1>1. /\ open /\ open' = FALSE /\ how \in {"ack", "stall"}
      /\ reply' = [setup |-> setup, how |-> how, data |-> got]
      /\ UNCHANGED <<setup, runs, remote_wakeup_allowed, speed, spoilt>>
  BY DEF HostAck, HostStall, EndTransfer, busVars, cfgVars
<1>2. setup \in Kinds /\ got \in Data \cup {NoData} /\ spoilt \in BOOLEAN
  BY DEF IInv, TypeOK
<1>3. CASE spoilt
  <2>1. reply' \in Transfer!Reply /\ reply'.setup = setup /\ reply'.how # "none"
    BY <1>1, <1>2, SameData
  <2>2. QED
    BY <1>1, <1>3, <2>1 DEF Transfer!AnswerSpoilt
<1>4. CASE ~spoilt
  <2>1. runs = 1
    BY <1>1, <1>4 DEF HostAck, HostStall, IInv, RunsInv, ReplyInv
  <2>2. /\ stall <=> setup = "unsupported"
        /\ got \in {NoData, Deserved}
    BY <1>1, <1>4, <2>1 DEF IInv, ReplyInv
  <2>3. how = (IF setup = "unsupported" THEN "stall" ELSE "ack")
    BY <2>2 DEF HostAck, HostStall
  <2>4. got = Deserved
    <3>1. CASE setup \in {"status", "config"}
      <4>1. HostAck
        BY <2>2, <3>1 DEF HostStall
      <4>2. got # NoData
        BY <3>1, <4>1 DEF HostAck
      <4>3. QED
        BY <2>2, <4>2
    <3>2. CASE setup \notin {"status", "config"}
      BY <2>2, <3>2 DEF Deserved
    <3>3. QED
      BY <3>1, <3>2
  <2>5. reply' = Transfer!Expected(setup, remote_wakeup_allowed, speed)
    BY <1>1, <2>3, <2>4 DEF Transfer!Expected, Deserved, NoData, Transfer!NoData
  <2>6. QED
    BY <1>1, <1>4, <2>1, <2>5 DEF Transfer!Answer
<1>5. QED
  BY <1>2, <1>3, <1>4

\* A handler makes its request take effect, for the first time unless spoilt.
LEMMA HandlerStep ==
  ASSUME IInv, HandleWakeFeature \/ HandleStatus \/ WriteSudptrl \/ HandleUnsupported
  PROVE  Transfer!Perform \/ Transfer!PerformSpoilt
<1>1. Ahead /\ spoilt \in BOOLEAN
  BY DEF HandleWakeFeature, HandleStatus, WriteSudptrl, HandleUnsupported, Step, Ahead,
         IInv, TypeOK
<1>2. runs \in {0, 1} /\ (~spoilt => runs = 0)
  BY <1>1 DEF IInv, RunsInv
<1>3. /\ runs' = runs + 1
      /\ UNCHANGED <<setup, open, speed, reply, spoilt>>
  <2>1. UNCHANGED <<setup, open, speed, reply, spoilt>>
    BY DEF HandleWakeFeature, HandleStatus, WriteSudptrl, HandleUnsupported, Step
  <2>2. runs' = runs + 1
    BY DEF HandleWakeFeature, HandleStatus, WriteSudptrl, HandleUnsupported
  <2>3. QED
    BY <2>1, <2>2
<1>4. Transfer!Effect \/ (spoilt /\ UNCHANGED remote_wakeup_allowed)
  <2>1. CASE HandleWakeFeature
    BY <2>1 DEF HandleWakeFeature, Transfer!Effect
  <2>2. CASE HandleStatus \/ HandleUnsupported
    BY <2>2 DEF HandleStatus, HandleUnsupported, Transfer!Effect
  <2>3. CASE WriteSudptrl
    <3>1. pc = "sudptrl" /\ UNCHANGED remote_wakeup_allowed
      BY <2>3 DEF WriteSudptrl, Step
    <3>2. CASE spoilt
      BY <3>1, <3>2
    <3>3. CASE ~spoilt
      <4>1. setup = "config"
        BY <3>1, <3>3 DEF IInv, ReplyInv
      <4>2. QED
        BY <3>1, <4>1 DEF Transfer!Effect
    <3>4. QED
      BY <3>2, <3>3
  <2>4. QED
    BY <2>1, <2>2, <2>3
<1>5. CASE spoilt
  BY <1>2, <1>3, <1>4, <1>5 DEF Transfer!PerformSpoilt
<1>6. CASE ~spoilt
  BY <1>2, <1>3, <1>4, <1>6 DEF Transfer!Perform
<1>7. QED
  BY <1>1, <1>5, <1>6

\* The framework implements ControlTransfer.
THEOREM Implements == Spec => TransferSpec
<1> DEFINE seen == <<setup, open, runs, remote_wakeup_allowed, speed, reply, spoilt>>
<1>1. Init => Transfer!Init
  BY SameData DEF Init, Transfer!Init, NoReply, Transfer!NoReply, Speeds
<1>2. ASSUME IInv, [Next]_vars PROVE [Transfer!Next]_seen
  <2>1. CASE HostSetup
    <3>1. Transfer!Request
      BY <2>1, SameData
      DEF HostSetup, InHandler, busVars, cfgVars, Transfer!Request, NoReply,
          Transfer!NoReply
    <3>2. QED
      BY <3>1 DEF Transfer!Next
  <2>2. CASE HostAck \/ HostStall
    BY <1>2, <2>2, AnswerStep DEF Transfer!Next
  <2>3. CASE HostReset
    <3>1. Transfer!Reset
      BY <2>3, SameData DEF HostReset, cfgVars, Speeds, Transfer!Reset
    <3>2. QED
      BY <3>1 DEF Transfer!Next
  <2>4. CASE HostResetEnd
    <3>1. ~open /\ open \in BOOLEAN /\ speed \in Speeds
      BY <1>2, <2>4 DEF HostResetEnd, IInv, TypeOK, ReplyInv
    <3>2. /\ speed' \in Speeds
          /\ UNCHANGED <<setup, open, runs, remote_wakeup_allowed, reply, spoilt>>
      BY <2>4, <3>1 DEF HostResetEnd, epVars, cfgVars, Speeds
    <3>3. Transfer!Reset
      BY <3>1, <3>2, SameData DEF Transfer!Reset
    <3>4. QED
      BY <3>3 DEF Transfer!Next
  <2>5. CASE HandleWakeFeature \/ HandleStatus \/ WriteSudptrl \/ HandleUnsupported
    BY <1>2, <2>5, HandlerStep DEF Transfer!Next
  <2>6. CASE HostData \/ HostIdle \/ HostResume \/ WakeupPin
    BY <2>6
    DEF HostData, HostIdle, HostResume, WakeupPin, epVars, busVars, cfgVars
  <2>7. CASE Interrupts
    BY <2>7
    DEF Interrupts, sudav_isr, suspend_isr, usbreset_isr, hispeed_isr, ClearIrq, StartIsr,
        epVars, busVars, cfgVars
  <2>8. CASE \/ MainLoop \/ TestDosud \/ ClearDosud \/ HandleConfig \/ Handshake
             \/ TestDosuspend \/ ClearWakeup \/ Sleep \/ Wake \/ TestLoop \/ TestResume
             \/ SignalResume
    BY <2>8
    DEF MainLoop, TestDosud, ClearDosud, HandleConfig, Handshake, TestDosuspend,
        ClearWakeup, Sleep, Wake, TestLoop, TestResume, SignalResume, Step, epVars,
        busVars, cfgVars
  <2>9. CASE UNCHANGED vars
    BY <2>9 DEF vars
  <2>10. QED
    BY <1>2, <2>1, <2>2, <2>3, <2>4, <2>5, <2>6, <2>7, <2>8, <2>9 DEF Next, Host, Main
<1>3. QED
  BY Invariance, <1>1, <1>2, PTL DEF Spec, TransferSpec, Transfer!Spec
=============================================================================
