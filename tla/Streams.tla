------------------------------- MODULE Streams -------------------------------
(***************************************************************************)
(* The four programs that pass a stream on: Loopback, FullDuplex,          *)
(* SlaveFifo and CdcShell.  They have nothing in common, so a behaviour    *)
(* chooses one (which) and leaves the variables of the others alone: the   *)
(* states are those of the four, one after another.                        *)
(***************************************************************************)
EXTENDS Naturals, Sequences

CONSTANTS
    Firmwares, LoopSent, Requests, Bursts,       \* of Loopback; bound on packets
    Lens, Readers,                               \* of FullDuplex
    DEPTH, DELAY, MaxLen, SlaveSent, Resets,     \* of SlaveFifo; bound on bytes
    SHELL_MAX_LINE_LEN, SHELL_MAX_ARGS, Keys, LineLimit, MaxTyped  \* of CdcShell

VARIABLES
    which,
    lfw, lburst, lpc, lgot_sud, lown, lfree, lfull, lep6, lsudav, lasked, lrequests, lsent, lmark, lgot, ldone,
    dat, dgot_sud, dtxs, dtx_offset, dlast, dbuf6, drxs, drx_offset, dremaining, ddvalid, ddlast, ddata,
    ddrdy, dfull, dfree, dep6, dsent, dreceived, dflushed,
    ssent, sep2, stested, sled, sclear, sresets, sedges, smem, sq, swptr, srptr, swsync, srsync, srdreq,
    sr, sshown, sdropped,
    cep2, cep6, cpc, ci, ccmd_buffer, ctodo, cafter, coverrun, casked, ctyped, cline, cscreen, ccrs,
    cprompts

loop == <<lfw, lburst, lpc, lgot_sud, lown, lfree, lfull, lep6, lsudav, lasked, lrequests, lsent,
          lmark, lgot, ldone>>
duplex == <<dat, dgot_sud, dtxs, dtx_offset, dlast, dbuf6, drxs, drx_offset, dremaining, ddvalid,
            ddlast, ddata, ddrdy, dfull, dfree, dep6, dsent, dreceived, dflushed>>
slave == <<ssent, sep2, stested, sled, sclear, sresets, sedges, smem, sq, swptr, srptr, swsync, srsync,
           srdreq, sr, sshown, sdropped>>
shell == <<cep2, cep6, cpc, ci, ccmd_buffer, ctodo, cafter, coverrun, casked, ctyped, cline, cscreen,
           ccrs, cprompts>>

Loop == INSTANCE Loopback WITH
    MaxSent <- LoopSent,
    fw <- lfw, burst <- lburst, pc <- lpc, got_sud <- lgot_sud, own <- lown, free <- lfree,
    full <- lfull, ep6 <- lep6, sudav <- lsudav, asked <- lasked, requests <- lrequests,
    sent <- lsent, mark <- lmark, got <- lgot, done <- ldone

Duplex == INSTANCE FullDuplex WITH
    at <- dat, got_sud <- dgot_sud, txs <- dtxs, tx_offset <- dtx_offset, last <- dlast,
    buf6 <- dbuf6, rxs <- drxs, rx_offset <- drx_offset, remaining <- dremaining,
    dvalid <- ddvalid, dlast <- ddlast, data <- ddata, drdy <- ddrdy, full <- dfull,
    free <- dfree, ep6 <- dep6, sent <- dsent, received <- dreceived, flushed <- dflushed

Slave == INSTANCE SlaveFifo WITH
    MaxSent <- SlaveSent,
    sent <- ssent, ep2 <- sep2, tested <- stested, led <- sled, clear <- sclear,
    resets <- sresets, edges <- sedges, mem <- smem, q <- sq, wptr <- swptr, rptr <- srptr,
    wsync <- swsync, rsync <- srsync, rdreq <- srdreq, r <- sr, shown <- sshown, dropped <- sdropped

Shell == INSTANCE CdcShell WITH
    ep2 <- cep2, ep6 <- cep6, pc <- cpc, i <- ci, cmd_buffer <- ccmd_buffer, todo <- ctodo,
    after <- cafter, overrun <- coverrun, asked <- casked, typed <- ctyped, line <- cline,
    screen <- cscreen, crs <- ccrs, prompts <- cprompts

ASSUME StreamsAssumption ==
    /\ Loop!LoopbackAssumption /\ Duplex!FullDuplexAssumption
    /\ Slave!SlaveFifoAssumption /\ Shell!CdcShellAssumption

Init ==
    /\ which \in {"loop", "duplex", "slave", "shell"}
    /\ Loop!Init /\ Duplex!Init /\ Slave!Init /\ Shell!Init
    /\ which # "loop" => lfw = "bulkloop" /\ lburst = 1  \* one state is enough

Next ==
    \/ which = "loop"   /\ Loop!Next   /\ UNCHANGED <<which, duplex, slave, shell>>
    \/ which = "duplex" /\ Duplex!Next /\ UNCHANGED <<which, loop, slave, shell>>
    \/ which = "slave"  /\ Slave!Next  /\ UNCHANGED <<which, loop, duplex, shell>>
    \/ which = "shell"  /\ Shell!Next  /\ UNCHANGED <<which, loop, duplex, slave>>

vars == <<which, loop, duplex, slave, shell>>

Spec == Init /\ [][Next]_vars

\* The CPUs and the clocks run, the interrupt is taken, the hosts send; they
\* read, at board B of FullDuplex perhaps not; the reset button is released.
\* The framework's loop tests the SETUP flag and EP2 in every turn.
FairSpec ==
    /\ Spec
    /\ WF_loop(which = "loop" /\ Loop!Main) /\ WF_loop(which = "loop" /\ Loop!sudav_isr)
    /\ WF_loop(which = "loop" /\ Loop!HostSend) /\ WF_loop(which = "loop" /\ Loop!HostRead)
    /\ \A b \in Duplex!Boards : /\ WF_duplex(which = "duplex" /\ Duplex!Loop(b))
                             /\ WF_duplex(which = "duplex" /\ Duplex!HostSend(b))
    /\ \A b \in Readers : WF_duplex(which = "duplex" /\ Duplex!HostRead(b))
    /\ WF_slave(which = "slave" /\ Slave!WrEdge) /\ WF_slave(which = "slave" /\ Slave!RdEdge)
    /\ WF_slave(which = "slave" /\ Slave!TestFlags) /\ WF_slave(which = "slave" /\ Slave!Led)
    /\ WF_slave(which = "slave" /\ Slave!ReleaseReset)
    /\ WF_shell(which = "shell" /\ Shell!Cpu) /\ WF_shell(which = "shell" /\ Shell!Read)
    /\ SF_shell(which = "shell" /\ Shell!HandleSetup)
    /\ SF_shell(which = "shell" /\ Shell!cdc_handle_rx)

-----------------------------------------------------------------------------
(* Properties.                                                             *)

\* Every variable holds a value of its type, and no endpoint buffer is lost or
\* armed twice (bulkloop.c:86-89, 127, 180-183).
TypeOK ==
    Loop!TypeOK /\ Loop!BuffersConserved /\ Duplex!TypeOK /\ Slave!TypeOK /\ Shell!TypeOK

\* Packets come back, or are printed, in order, once each, and after an
\* acknowledged SET_INTERFACE none that was sent before it (bulkloop.c:109-127,
\* 173-187).
ForwardSpec == Loop!ForwardSpec

\* Packets come out of the other board as they were sent (debugdev.c:75-94,
\* 120-143).
PacketsIntact == Duplex!PacketsIntact

\* Where a byte goes from one clock to another it neither changes while it is
\* taken nor is skipped or taken twice (debugdev.c:75-78, 120-127;
\* blinky_top.vhd:125-133).
CrossesWhole == [][Duplex!OfferKept /\ Slave!InOrder]_vars

\* What the user sees is the line that the shell has (shell.c:143-172).
EchoIsLine == Shell!EchoIsLine

\* When the senders have come to their end all has arrived: packets came back,
\* or were printed, unless flushed; they crossed to the board whose host reads,
\* though the other direction is stuck; the last byte is on the FPGA's LEDs
\* unless a reset destroyed it; each line typed was answered with a prompt.  A
\* SETUP that comes during a command of the shell is answered after it
\* (bulkloop.c:109-127, debugdev.c:60-150, blinky_top.vhd:115-135,
\* shell.c:159-167, device.c:85).
Arrives ==
    /\ <>[](CASE which = "loop"   -> Loop!Forwarded
              [] which = "duplex" -> Duplex!Delivered
              [] which = "slave"  -> Slave!Settled
              [] which = "shell"  -> Shell!Prompted)
    /\ []<>(~casked)
=============================================================================
