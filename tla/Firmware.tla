------------------------------ MODULE Firmware ------------------------------
(***************************************************************************)
(* The firmware framework: fw.c (main loop, USB interrupt routines, USB    *)
(* suspend) with the skeleton of handle_setupdata of fx2lib's setupdat.c,  *)
(* run against the EZ-USB serial interface engine (SIE), the host and the  *)
(* WAKEUP pin.  The same fw.c serves hid_tm1638, blinky_fw, fifo_slave and *)
(* fx2lib/fw.                                                              *)
(*                                                                         *)
(* The CPU runs the interrupt routines and the main loop; a pending USB    *)
(* interrupt is taken before the next instruction of the main loop.  Host, *)
(* SIE and pin act at any time, also inside an interrupt routine.          *)
(***************************************************************************)
EXTENDS Naturals

VARIABLES
    \* the SIE and the host
    setup,     \* SETUPDAT, by what handle_setupdata makes of it
    open,      \* the host waits for the end of the control transfer
    hsnak,     \* EP0CS.HSNAK: the status stage is NAKed
    stall,     \* EP0CS.STALL
    ep0in,     \* data armed for the data stage (EP0CS.BUSY)
    got,       \* data the host has received in this transfer
    speed,     \* speed of the bus
    bus,       \* "active", "idle" (suspended) or "reset"
    wu,        \* WAKEUPCS.WU, the latch of the WAKEUP pin
    usbirq,    \* USBIRQ, pending USB interrupts
    \* the CPU
    isr,       \* the interrupt routine that is executing, or "none"
    pc,        \* where main() is
    dosud, dosuspend,
    remote_wakeup_allowed,
    pDevConfig, \* the speed of the descriptor it points to
    sudptrh,    \* SUDPTRH: the descriptor whose high byte it holds
    \* history
    runs,      \* how often a handler has run for the latest SETUP
    reply,     \* how the transfer of the latest SETUP ended
    spoilt     \* it came while handle_setupdata executed for the one before

epVars   == <<setup, open, hsnak, stall, ep0in, got>>
busVars  == <<speed, bus>>
flagVars == <<dosud, dosuspend>>
cfgVars  == <<remote_wakeup_allowed, pDevConfig, sudptrh>>
vars == <<setup, open, hsnak, stall, ep0in, got, speed, bus, wu, usbirq, isr, pc,
          dosud, dosuspend, remote_wakeup_allowed, pDevConfig, sudptrh, runs, reply,
          spoilt>>

Kinds  == {"wake_on", "wake_off", "status", "config", "unsupported"}
Speeds == {"full", "high"}
NoData == <<>>
Data   == {<<b>> : b \in BOOLEAN} \cup (Speeds \X Speeds)
Irqs   == {"SUDAV", "SUSPEND", "USBRESET", "HISPEED"}

NoReply(k) == [setup |-> k, how |-> "none", data |-> NoData]

\* The instructions of main() inside handle_setupdata.
InHandler == pc \in {"handle", "sudptrl", "handshake"}

Init ==
    /\ setup \in Kinds /\ open = FALSE /\ hsnak = FALSE /\ stall = FALSE
    /\ ep0in = NoData /\ got = NoData
    /\ speed = "full" /\ bus = "active" /\ wu = FALSE /\ usbirq = {}
    /\ isr = "none" /\ pc = "main"
    /\ dosud = FALSE /\ dosuspend = FALSE
    /\ remote_wakeup_allowed = FALSE /\ pDevConfig = "full" /\ sudptrh = "full"
    /\ runs = 0 /\ reply = NoReply(setup) /\ spoilt = FALSE

-----------------------------------------------------------------------------
(* The host and the SIE.                                                   *)

\* A SETUP packet: it opens a transfer and gives up the one that is open, also
\* in the middle of its handler.
\* The SIE sets HSNAK, clears STALL and BUSY, and raises SUDAV.
HostSetup ==
    /\ bus = "active"
    /\ setup' \in Kinds
    /\ open' = TRUE /\ hsnak' = TRUE /\ stall' = FALSE
    /\ ep0in' = NoData /\ got' = NoData /\ runs' = 0
    /\ usbirq' = usbirq \cup {"SUDAV"}
    /\ reply' = NoReply(setup') /\ spoilt' = InHandler
    /\ UNCHANGED <<wu, isr, pc>>
    /\ UNCHANGED busVars /\ UNCHANGED flagVars /\ UNCHANGED cfgVars

\* Data stage: the armed packet goes to the host.
HostData ==
    /\ open /\ bus = "active" /\ ep0in # NoData /\ ~stall
    /\ got' = ep0in
    /\ ep0in' = NoData
    /\ UNCHANGED <<setup, open, hsnak, stall, wu, usbirq, isr, pc, runs, reply, spoilt>>
    /\ UNCHANGED busVars /\ UNCHANGED flagVars /\ UNCHANGED cfgVars

EndTransfer(how) ==
    /\ open' = FALSE
    /\ reply' = [setup |-> setup, how |-> how, data |-> got]
    /\ got' = NoData
    /\ UNCHANGED <<setup, hsnak, stall, ep0in, wu, usbirq, isr, pc, runs, spoilt>>
    /\ UNCHANGED busVars /\ UNCHANGED flagVars /\ UNCHANGED cfgVars

\* Status stage: acknowledged once HSNAK is clear; a host that asked for data
\* waits for them first.
HostAck ==
    /\ open /\ bus = "active" /\ ~hsnak /\ ~stall
    /\ setup \in {"status", "config"} => got # NoData
    /\ EndTransfer("ack")

HostStall ==
    /\ open /\ bus = "active" /\ stall
    /\ EndTransfer("stall")

\* A bus reset, at full speed.  It takes milliseconds to recognise and as many
\* to end: an earlier grant of high speed has been served by then, and so is
\* this reset's interrupt and a running handle_setupdata before it ends.
HostReset ==
    /\ bus # "reset" /\ isr = "none" /\ "HISPEED" \notin usbirq
    /\ bus' = "reset" /\ speed' = "full" /\ open' = FALSE
    /\ usbirq' = usbirq \cup {"USBRESET"}
    /\ UNCHANGED <<setup, hsnak, stall, ep0in, got, wu, isr, pc, runs, reply, spoilt>>
    /\ UNCHANGED flagVars /\ UNCHANGED cfgVars

\* The end of the reset, with or without a grant of high speed.
HostResetEnd ==
    /\ bus = "reset" /\ "USBRESET" \notin usbirq /\ isr = "none" /\ ~InHandler
    /\ bus' = "active"
    /\ \/ UNCHANGED <<speed, usbirq>>
       \/ speed' = "high" /\ usbirq' = usbirq \cup {"HISPEED"}
    /\ UNCHANGED <<wu, isr, pc, runs, reply, spoilt>>
    /\ UNCHANGED epVars /\ UNCHANGED flagVars /\ UNCHANGED cfgVars

\* Three milliseconds without traffic.
HostIdle ==
    /\ bus = "active" /\ ~open
    /\ bus' = "idle"
    /\ usbirq' = usbirq \cup {"SUSPEND"}
    /\ UNCHANGED <<speed, wu, isr, pc, runs, reply, spoilt>>
    /\ UNCHANGED epVars /\ UNCHANGED flagVars /\ UNCHANGED cfgVars

HostResume ==
    /\ bus = "idle"
    /\ bus' = "active"
    /\ UNCHANGED <<speed, wu, usbirq, isr, pc, runs, reply, spoilt>>
    /\ UNCHANGED epVars /\ UNCHANGED flagVars /\ UNCHANGED cfgVars

\* The WAKEUP pin is asserted; WU keeps it, awake or asleep.
WakeupPin ==
    /\ ~wu
    /\ wu' = TRUE
    /\ UNCHANGED <<usbirq, isr, pc, runs, reply, spoilt>>
    /\ UNCHANGED epVars /\ UNCHANGED busVars /\ UNCHANGED flagVars
    /\ UNCHANGED cfgVars

Supersede == HostSetup /\ open

Host ==
    \/ HostSetup \/ HostData \/ HostAck \/ HostStall \/ HostReset
    \/ HostResetEnd \/ HostIdle \/ HostResume \/ WakeupPin
-----------------------------------------------------------------------------
(* The interrupt routines, each in two steps: its body, then the write that *)
(* clears the request (CLEAR_SUDAV and the like).  USB interrupts share one *)
(* level, so a routine runs to its end before the next one starts; a CPU    *)
(* stopped by PCON takes none of them.                                      *)

StartIsr(irq) ==
    /\ isr = "none" /\ irq \in usbirq /\ pc # "asleep"
    /\ isr' = irq
    /\ UNCHANGED <<wu, usbirq, pc, remote_wakeup_allowed, sudptrh, runs, reply,
                   spoilt>>
    /\ UNCHANGED epVars /\ UNCHANGED busVars

sudav_isr ==
    /\ StartIsr("SUDAV")
    /\ dosud' = TRUE
    /\ UNCHANGED <<dosuspend, pDevConfig>>

suspend_isr ==
    /\ "SUDAV" \notin usbirq
    /\ StartIsr("SUSPEND")
    /\ dosuspend' = TRUE
    /\ UNCHANGED <<dosud, pDevConfig>>

\* Mutant: handle_hispeed is not called.
usbreset_isr_no_speed ==
    /\ usbirq \cap {"SUDAV", "SUSPEND"} = {}
    /\ StartIsr("USBRESET")
    /\ UNCHANGED <<dosud, dosuspend, pDevConfig>>

\* handle_hispeed(FALSE)
usbreset_isr ==
    /\ usbirq \cap {"SUDAV", "SUSPEND"} = {}
    /\ StartIsr("USBRESET")
    /\ pDevConfig' = "full"
    /\ UNCHANGED flagVars

\* handle_hispeed(TRUE)
hispeed_isr ==
    /\ usbirq = {"HISPEED"}
    /\ StartIsr("HISPEED")
    /\ pDevConfig' = "high"
    /\ UNCHANGED flagVars

ClearIrq ==
    /\ isr # "none"
    /\ usbirq' = usbirq \ {isr}
    /\ isr' = "none"
    /\ UNCHANGED <<wu, pc, runs, reply, spoilt>>
    /\ UNCHANGED epVars /\ UNCHANGED busVars /\ UNCHANGED flagVars
    /\ UNCHANGED cfgVars

Interrupts == sudav_isr \/ suspend_isr \/ usbreset_isr \/ hispeed_isr \/ ClearIrq

-----------------------------------------------------------------------------
(* main(), after its initialisation.                                       *)

\* One step of main() from one place to another: no interrupt is pending.
Step(from, to) ==
    /\ isr = "none" /\ usbirq = {}
    /\ pc = from /\ pc' = to
    /\ UNCHANGED <<setup, open, got, speed, usbirq, isr, pDevConfig, reply, spoilt>>

\* main_loop(), which returns.
MainLoop ==
    /\ Step("main", "test")
    /\ UNCHANGED <<hsnak, stall, ep0in, bus, wu, remote_wakeup_allowed, sudptrh, runs>>
    /\ UNCHANGED flagVars

TestDosud ==
    /\ Step("test", IF dosud THEN "clear" ELSE "suspend")
    /\ UNCHANGED <<hsnak, stall, ep0in, bus, wu, remote_wakeup_allowed, sudptrh, runs>>
    /\ UNCHANGED flagVars

\* Mutant: the flag is not cleared.
KeepDosud ==
    /\ Step("clear", "handle")
    /\ UNCHANGED <<hsnak, stall, ep0in, bus, wu, remote_wakeup_allowed, sudptrh, runs>>
    /\ UNCHANGED flagVars

\* The flag is cleared before the request is handled.
ClearDosud ==
    /\ Step("clear", "handle")
    /\ dosud' = FALSE
    /\ UNCHANGED <<hsnak, stall, ep0in, bus, wu, dosuspend, remote_wakeup_allowed,
                   sudptrh, runs>>

\* SET_FEATURE and CLEAR_FEATURE of the device's remote wakeup.
HandleWakeFeature ==
    /\ setup \in {"wake_on", "wake_off"}
    /\ Step("handle", "handshake")
    /\ remote_wakeup_allowed' = (setup = "wake_on")
    /\ runs' = runs + 1
    /\ UNCHANGED <<hsnak, stall, ep0in, bus, wu, sudptrh>>
    /\ UNCHANGED flagVars

\* GET_STATUS of the device.
HandleStatus ==
    /\ setup = "status"
    /\ Step("handle", "handshake")
    /\ ep0in' = <<remote_wakeup_allowed>>
    /\ runs' = runs + 1
    /\ UNCHANGED <<hsnak, stall, bus, wu, remote_wakeup_allowed, sudptrh>>
    /\ UNCHANGED flagVars

\* GET_DESCRIPTOR of the configuration: the two bytes of pDevConfig are read
\* one after the other, and the second write starts the data stage.
HandleConfig ==
    /\ setup = "config"
    /\ Step("handle", "sudptrl")
    /\ sudptrh' = pDevConfig
    /\ UNCHANGED <<hsnak, stall, ep0in, bus, wu, remote_wakeup_allowed, runs>>
    /\ UNCHANGED flagVars

\* Mutant: the low byte is always that of the full-speed descriptor.
WriteSudptrlFull ==
    /\ Step("sudptrl", "handshake")
    /\ ep0in' = <<sudptrh, "full">>
    /\ runs' = runs + 1
    /\ UNCHANGED <<hsnak, stall, bus, wu, remote_wakeup_allowed, sudptrh>>
    /\ UNCHANGED flagVars

WriteSudptrl ==
    /\ Step("sudptrl", "handshake")
    /\ ep0in' = <<sudptrh, pDevConfig>>
    /\ runs' = runs + 1
    /\ UNCHANGED <<hsnak, stall, bus, wu, remote_wakeup_allowed, sudptrh>>
    /\ UNCHANGED flagVars

\* STALLEP0 reads EP0CS and writes it back with STALL set; HSNAK, read as 1,
\* is cleared by the same write.
HandleUnsupported ==
    /\ setup = "unsupported"
    /\ Step("handle", "handshake")
    /\ stall' = TRUE /\ hsnak' = FALSE
    /\ runs' = runs + 1
    /\ UNCHANGED <<ep0in, bus, wu, remote_wakeup_allowed, sudptrh>>
    /\ UNCHANGED flagVars

\* Mutant: the handshake bit is not written.
NoHandshake ==
    /\ Step("handshake", "suspend")
    /\ UNCHANGED <<hsnak, stall, ep0in, bus, wu, remote_wakeup_allowed, sudptrh, runs>>
    /\ UNCHANGED flagVars

\* EP0CS |= bmHSNAK: writing 1 clears HSNAK; STALL keeps its value.
Handshake ==
    /\ Step("handshake", "suspend")
    /\ hsnak' = FALSE
    /\ UNCHANGED <<stall, ep0in, bus, wu, remote_wakeup_allowed, sudptrh, runs>>
    /\ UNCHANGED flagVars

\* Mutant: the flag of the SETUP is cleared after the request was handled, as
\* several of fx2lib's examples do (examples/bulkloop/bulkloop.c:103-107).
ClearDosudLate ==
    /\ Step("suspend", IF dosuspend THEN "wucs" ELSE "main")
    /\ dosuspend' = FALSE /\ dosud' = FALSE
    /\ UNCHANGED <<hsnak, stall, ep0in, bus, wu, remote_wakeup_allowed, sudptrh, runs>>

TestDosuspend ==
    /\ Step("suspend", IF dosuspend THEN "wucs" ELSE "main")
    /\ dosuspend' = FALSE
    /\ UNCHANGED <<hsnak, stall, ep0in, bus, wu, dosud, remote_wakeup_allowed,
                   sudptrh, runs>>

\* WAKEUPCS |= bmWU|bmWU2: writing 1 clears the latch.
ClearWakeup ==
    /\ Step("wucs", "sleep")
    /\ wu' = FALSE
    /\ UNCHANGED <<hsnak, stall, ep0in, bus, remote_wakeup_allowed, sudptrh, runs>>
    /\ UNCHANGED flagVars

\* SUSPEND = 1; PCON |= 1
Sleep ==
    /\ Step("sleep", "asleep")
    /\ UNCHANGED <<hsnak, stall, ep0in, bus, wu, remote_wakeup_allowed, sudptrh, runs>>
    /\ UNCHANGED flagVars

\* A wakeup source is true, the pin or traffic on the bus: the RESUME
\* interrupt, which resume_isr clears, restarts the CPU.
Wake ==
    /\ pc = "asleep"
    /\ wu \/ bus # "idle"
    /\ pc' = "awake"
    /\ UNCHANGED <<wu, usbirq, isr, runs, reply, spoilt>>
    /\ UNCHANGED epVars /\ UNCHANGED busVars /\ UNCHANGED flagVars
    /\ UNCHANGED cfgVars

\* Mutant: the loop around the sleep is left out.
TestNoLoop ==
    /\ Step("awake", "main")
    /\ UNCHANGED <<hsnak, stall, ep0in, bus, wu, remote_wakeup_allowed, sudptrh, runs>>
    /\ UNCHANGED flagVars

\* while (!remote_wakeup_allowed && REMOTE_WAKEUP())
TestLoop ==
    /\ Step("awake", IF ~remote_wakeup_allowed /\ wu THEN "wucs" ELSE "resume")
    /\ UNCHANGED <<hsnak, stall, ep0in, bus, wu, remote_wakeup_allowed, sudptrh, runs>>
    /\ UNCHANGED flagVars

\* if (REMOTE_WAKEUP())
TestResume ==
    /\ Step("resume", IF wu THEN "signal" ELSE "main")
    /\ UNCHANGED <<hsnak, stall, ep0in, bus, wu, remote_wakeup_allowed, sudptrh, runs>>
    /\ UNCHANGED flagVars

\* SIGRESUME for 15 ms: an idle bus comes back to life.
SignalResume ==
    /\ Step("signal", "main")
    /\ bus' = IF bus = "idle" THEN "active" ELSE bus
    /\ UNCHANGED <<hsnak, stall, ep0in, wu, remote_wakeup_allowed, sudptrh, runs>>
    /\ UNCHANGED flagVars

Main ==
    \/ MainLoop \/ TestDosud \/ ClearDosud
    \/ HandleWakeFeature \/ HandleStatus \/ HandleConfig \/ WriteSudptrl
    \/ HandleUnsupported \/ Handshake
    \/ TestDosuspend \/ ClearWakeup \/ Sleep \/ Wake \/ TestLoop \/ TestResume
    \/ SignalResume

Next == Host \/ Interrupts \/ Main

Spec == Init /\ [][Next]_vars

(***************************************************************************)
(* The CPU executes; the host polls the transfer it waits for and ends a   *)
(* reset it started.  Nothing makes it send a SETUP, suspend or resume.    *)
(***************************************************************************)
FairSpec ==
    /\ Spec
    /\ WF_vars(Interrupts) /\ WF_vars(Main)
    /\ WF_vars(HostData) /\ WF_vars(HostAck) /\ WF_vars(HostStall)
    /\ WF_vars(HostResetEnd)

-----------------------------------------------------------------------------
(* Properties.                                                             *)

\* Every variable has its type.
TypeOK ==
    /\ setup \in Kinds /\ open \in BOOLEAN /\ hsnak \in BOOLEAN /\ stall \in BOOLEAN
    /\ ep0in \in Data \cup {NoData} /\ got \in Data \cup {NoData}
    /\ speed \in Speeds /\ bus \in {"active", "idle", "reset"} /\ wu \in BOOLEAN
    /\ usbirq \in SUBSET Irqs /\ isr \in Irqs \cup {"none"}
    /\ pc \in {"main", "test", "clear", "handle", "sudptrl", "handshake", "suspend",
               "wucs", "sleep", "asleep", "awake", "resume", "signal"}
    /\ dosud \in BOOLEAN /\ dosuspend \in BOOLEAN
    /\ remote_wakeup_allowed \in BOOLEAN /\ pDevConfig \in Speeds /\ sudptrh \in Speeds
    /\ runs \in 0 .. 2 /\ spoilt \in BOOLEAN
    /\ reply \in [setup : Kinds, how : {"ack", "stall", "none"},
                  data : Data \cup {NoData}]

\* Places of main() at which the body of handle_setupdata is still ahead.
BeforeHandler == {"clear", "handle", "sudptrl"}

\* No SETUP is lost between the interrupt, the flag and the main loop: as
\* long as its handler has not run, something will still make it run.
SetupNotLost ==
    open /\ runs = 0 =>
        "SUDAV" \in usbirq \/ dosud \/ pc \in BeforeHandler

\* The speed the interrupt routines have recorded is that of the bus, but
\* for the moment in which the routine is still pending.
SpeedKnown ==
    usbirq \cap {"USBRESET", "HISPEED"} = {} => pDevConfig = speed

\* A device on an idle bus is asleep or on its way there, unless it is
\* allowed to wake the host and is about to: stale flags, a wakeup pin or a
\* short resume never leave it running on a suspended bus.
SuspendNotMissed ==
    bus = "idle" =>
        \/ "SUSPEND" \in usbirq \/ dosuspend
        \/ pc \in {"wucs", "sleep", "asleep", "awake"}
        \/ remote_wakeup_allowed /\ wu /\ pc \in {"resume", "signal"}

\* Resume is signalled only to a host that has allowed remote wakeup
\* (setupdat.h: remote_wakeup_allowed "defaults to FALSE but can be set to
\* TRUE with SET_FEATURE from the host"; fw.c sleeps on without it).
ResumeOnlyIfAllowed == pc = "signal" => remote_wakeup_allowed

\* Every control transfer comes to its end, unless the host keeps giving up
\* requests for new ones or the WAKEUP pin never comes to rest.
TransfersEnd ==
    (<>[][~Supersede]_vars /\ <>[][~WakeupPin]_vars) => [](open => <>~open)

\* What the host may rely on, in ControlTransfer.
Transfer == INSTANCE ControlTransfer WITH wakeup <- remote_wakeup_allowed
TransferSpec == Transfer!Spec
=============================================================================
