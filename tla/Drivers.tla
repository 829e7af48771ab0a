------------------------------- MODULE Drivers -------------------------------
(***************************************************************************)
(* The six drivers of a piece of hardware that runs by itself: Ep0Data,    *)
(* Serial, Gpif, Tm1638Bus, Uptime and Delay.                              *)
(* They have nothing in common, so a behaviour chooses one (which) and     *)
(* leaves the variables of the others alone: the states are those of the   *)
(* six, one after another.  The variables of Tm1638Bus have their own      *)
(* names, those of the others a letter before them.                        *)
(***************************************************************************)
EXTENDS Tm1638Bus

CONSTANTS
    CHUNK, HidLen, LineLen, MaxLen, Transfers, Troubles,  \* of Ep0Data
    Rates, Chars, MaxTyped, Patience,                     \* of Serial
    WordCounts, Counts16, Counts32, MaxCalls,             \* of Gpif
    BYTE, MS, T1_INTERVAL, Period,                        \* of Uptime
    Mults, Millis, Cap                                    \* of Delay

VARIABLES
    which,
    efw, etrouble, epc, eh, emoved, eep0, ebuf, estored, eopen, eid, ekind, elen, eout, egot,
    erequested, eresult,
    spatient, srate, sRCAP2, spc, stodo, sRI, sTI, sSBUF0, stx, styped, sheard, staken, swire,
    gpc, gcalls, glen, gc, gres, gstart, ggpifMode, gwave, gbusy, glatch, gout, ggiven, gwritten,
    gtc, gtold, gmoved,
    uuptime_sec, ums_count, ut1, ud2_led, uioa, uTF0, uET0, uclock, upc, utemp, uticks, useen,
    dmult, dtold, dmillis, dlow, dhigh, dcycles, drunning

ep0Vars == <<efw, etrouble, epc, eh, emoved, eep0, ebuf, estored, eopen, eid, ekind, elen, eout, egot,
             erequested, eresult>>
serialVars == <<spatient, srate, sRCAP2, spc, stodo, sRI, sTI, sSBUF0, stx, styped, sheard, staken,
                swire>>
gpifVars == <<gpc, gcalls, glen, gc, gres, gstart, ggpifMode, gwave, gbusy, glatch, gout, ggiven,
              gwritten, gtc, gtold, gmoved>>
uptimeVars == <<uuptime_sec, ums_count, ut1, ud2_led, uioa, uTF0, uET0, uclock, upc, utemp, uticks,
                useen>>
delayVars == <<dmult, dtold, dmillis, dlow, dhigh, dcycles, drunning>>

Ep0 == INSTANCE Ep0Data WITH
    fw <- efw, trouble <- etrouble, pc <- epc, h <- eh, moved <- emoved, ep0 <- eep0, buf <- ebuf,
    stored <- estored, open <- eopen, id <- eid, kind <- ekind, len <- elen, out <- eout,
    got <- egot, requested <- erequested, result <- eresult

Line == INSTANCE Serial WITH
    Bytes <- Chars,
    patient <- spatient, rate <- srate, RCAP2 <- sRCAP2, pc <- spc, todo <- stodo, RI <- sRI,
    TI <- sTI, SBUF0 <- sSBUF0, tx <- stx, typed <- styped, heard <- sheard, taken <- staken,
    wire <- swire

Waves == INSTANCE Gpif WITH
    Lengths <- WordCounts,
    pc <- gpc, calls <- gcalls, len <- glen, c <- gc, res <- gres, start <- gstart,
    gpifMode <- ggpifMode, wave <- gwave, busy <- gbusy, latch <- glatch, out <- gout,
    given <- ggiven, written <- gwritten, tc <- gtc, told <- gtold, moved <- gmoved

Clock == INSTANCE Uptime WITH
    uptime_sec <- uuptime_sec, ms_count <- ums_count, t1 <- ut1, d2_led <- ud2_led, ioa <- uioa,
    TF0 <- uTF0, ET0 <- uET0, clock <- uclock, pc <- upc, temp <- utemp, ticks <- uticks,
    seen <- useen

Pause == INSTANCE Delay WITH
    mult <- dmult, told <- dtold, millis <- dmillis, low <- dlow, high <- dhigh,
    cycles <- dcycles, running <- drunning

ASSUME DriversAssumption ==
    /\ Ep0!Ep0DataAssumption /\ Line!SerialAssumption /\ Waves!GpifAssumption
    /\ Tm1638Assumption /\ Clock!UptimeAssumption /\ Pause!DelayAssumption

\* The rates of serial.h, at every clock.
RatesOfHeader == {1, 2, 4} \X {2400, 4800, 9600, 19200, 28800, 38400, 57600}

\* The five that are not chosen start in one way only.
DriversInit ==
    /\ which \in {"ep0", "serial", "gpif", "tm1638", "uptime", "delay"}
    /\ Ep0!Init /\ Line!Init /\ Waves!Init /\ Init /\ Clock!Init /\ Pause!Init
    /\ which # "ep0" => efw = {"report"} /\ etrouble = CHOOSE t \in Troubles : TRUE
    /\ which # "serial" => srate = (CHOOSE r \in Rates : TRUE) /\ spatient = (CHOOSE p \in Patience : TRUE)
    /\ which # "tm1638" => mode = 64 /\ ram[0] = 0
    /\ which # "delay" => dmult = (CHOOSE m \in Mults : TRUE) /\ dtold = (CHOOSE n \in Millis : TRUE)

DriversNext ==
    \/ /\ which = "ep0" /\ Ep0!Next
       /\ UNCHANGED <<which, serialVars, gpifVars, vars, uptimeVars, delayVars>>
    \/ /\ which = "serial" /\ Line!Next
       /\ UNCHANGED <<which, ep0Vars, gpifVars, vars, uptimeVars, delayVars>>
    \/ /\ which = "gpif" /\ Waves!Next
       /\ UNCHANGED <<which, ep0Vars, serialVars, vars, uptimeVars, delayVars>>
    \/ /\ which = "tm1638" /\ Next
       /\ UNCHANGED <<which, ep0Vars, serialVars, gpifVars, uptimeVars, delayVars>>
    \/ /\ which = "uptime" /\ Clock!Next
       /\ UNCHANGED <<which, ep0Vars, serialVars, gpifVars, vars, delayVars>>
    \/ /\ which = "delay" /\ Pause!Next
       /\ UNCHANGED <<which, ep0Vars, serialVars, gpifVars, vars, uptimeVars>>

allVars == <<which, ep0Vars, serialVars, gpifVars, vars, uptimeVars, delayVars>>

DriversSpec == DriversInit /\ [][DriversNext]_allVars

\* The CPU and the hardware run, and the host goes on with the transfer it has
\* opened.
DriversFairSpec ==
    /\ DriversSpec
    /\ WF_ep0Vars(which = "ep0" /\ Ep0!Cpu) /\ WF_ep0Vars(which = "ep0" /\ Ep0!TakeIn)
    /\ WF_ep0Vars(which = "ep0" /\ Ep0!SendOut) /\ WF_ep0Vars(which = "ep0" /\ Ep0!Finish)
    /\ WF_serialVars(which = "serial" /\ Line!Cpu) /\ WF_serialVars(which = "serial" /\ Line!ByteSent)
    /\ WF_gpifVars(which = "gpif" /\ Waves!Engine) /\ WF_gpifVars(which = "gpif" /\ Waves!Library)
    /\ WF_delayVars(which = "delay" /\ Pause!Next)

-----------------------------------------------------------------------------
(* Properties.                                                             *)

\* What is moved byte by byte arrives whole and in order: the data stage of an
\* acknowledged transfer (eputils.c:35-57, hid device.c:150-167), the bytes
\* that getchar returns and their echo (serial.c:76-92), the words of the GPIF
\* (gpif.c:140-171); the types of the variables say that no buffer, index or
\* count leaves its range, and that no byte is written over one being sent.
MovedWhole ==
    /\ Ep0!TypeOK /\ Ep0!DataExact
    /\ Line!TypeOK /\ Line!TakenAsHeard /\ Line!EchoExact /\ Line!NoneLost
    /\ Waves!TypeOK /\ Waves!WordsRead /\ Waves!WordsWritten /\ Waves!CountMoved

\* The TM1638 shows what it was told and the buttons read are those pressed
\* during the call, and no two outputs ever drive its data line against each
\* other (tm1638.c:42-153).
ChipAsTold ==
    TypeOK /\ RegistersAsTold /\ ButtonsSeen /\ NoContention

\* Time is counted and waited for as told: get_uptime returns a value that the
\* counter had, no millisecond is lost while the interrupt is masked
\* (blinky_fw device.c:165-179), a delay lasts as long as said to an eighth
\* (delay.c:42-71), the baud rate is as near as serial.h tells (serial.c:45).
TimeAsTold ==
    /\ Clock!TypeOK /\ Clock!ReadConsistent /\ Clock!NoTickLost
    /\ Pause!TypeOK /\ Pause!NotLonger /\ Pause!NotEarly
    /\ Line!BaudAsTold

\* What the other side is looking at does not change under its eyes: EP0BUF
\* while a packet in it waits for the host, whatever the host gives up; a
\* display register on its way from the old value to the new.
StableInView == [][Ep0!BufferStable /\ NoGlitch]_allVars

\* No call waits for ever: a control transfer ends if the host goes on with
\* it, what was typed is echoed, the GPIF's calls and delay return
\* (eputils.c:35-57, serial.c:76-92, gpif.c:140-171, delay.c:66-71).
CallsEnd ==
    /\ []<>Ep0!Ended /\ []<>Waves!Idle
    /\ <>[](which = "serial" => Line!EchoComplete)
    /\ <>[](which = "delay" => ~drunning)
=============================================================================
