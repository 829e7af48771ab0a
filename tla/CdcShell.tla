------------------------------ MODULE CdcShell ------------------------------
(***************************************************************************)
(* The serial shell of blinky_fw (shell.c and the CDC part of device.c)    *)
(* and the terminal at the other end.  Bytes come in packets through the   *)
(* two buffers of EP2; the shell echoes each in a packet of its own, and   *)
(* cdc_print_string waits, inside the main loop, until EP6 is empty.       *)
(*                                                                         *)
(* A packet to the host is named by what it does to the line on the        *)
(* screen: [kind |-> "char"] appends its byte, "erase" (BS, SP, BS) takes  *)
(* one away, "prompt" and the texts begin a new line.  The commands' names *)
(* are one byte long: "h", "v" and "u".                                    *)
(***************************************************************************)
EXTENDS Naturals, Sequences, FiniteSets, SequencesExt

CONSTANTS
    SHELL_MAX_LINE_LEN, SHELL_MAX_ARGS,  \* 256 and 4 in the code
    Keys,       \* printable bytes, "BS" and "CR": what the host types
    LineLimit,  \* the host ends its line at this length
    MaxTyped    \* bound: bytes the host types

CdcShellAssumption ==
    /\ SHELL_MAX_LINE_LEN \in Nat \ {0} /\ SHELL_MAX_ARGS \in Nat
    /\ {LineLimit, MaxTyped} \subseteq Nat

EP2_BUFFERS == 2

VARIABLES
    ep2, ep6,             \* packets received and committed, the oldest first
    pc, i,                \* i: index in EP2FIFOBUF
    cmd_buffer,           \* its first cmd_buffer_ndx bytes
    todo, after,          \* packets left to print, and what comes then
    overrun,              \* a byte was written behind cmd_buffer
    asked,                \* the host's SETUP is not answered yet
    typed, line,          \* the host: bytes typed, length of its line
    screen, crs, prompts  \* the line on the screen; CRs typed, prompts shown

shell == <<cmd_buffer, overrun>>
host  == <<asked, typed, line, screen, crs, prompts>>
vars  == <<ep2, ep6, pc, i, shell, todo, after, host>>

Init ==
    /\ ep2 = <<>> /\ ep6 = <<>> /\ pc = "main" /\ i = 1
    /\ cmd_buffer = <<>> /\ overrun = FALSE /\ todo = <<>> /\ after = "next"
    /\ asked = FALSE /\ typed = 0 /\ line = 0 /\ screen = <<>> /\ crs = 0 /\ prompts = 0

Put(kind)  == [kind |-> kind, byte |-> ""]
PutChar(b) == [kind |-> "char", byte |-> b]

-----------------------------------------------------------------------------
(* The host.                                                               *)

\* A packet of one or two bytes; a line that is full can only be ended.
Type ==
    /\ Len(ep2) < EP2_BUFFERS
    /\ \E bytes \in {<<b>> : b \in Keys} \cup {<<b, "CR">> : b \in Keys \ {"CR"}} :
         /\ typed + Len(bytes) <= MaxTyped
         /\ line < LineLimit \/ bytes = <<"CR">>
         /\ typed' = typed + Len(bytes)
         /\ line' = CASE Last(bytes) = "CR" -> 0
                      [] Last(bytes) = "BS" -> IF line = 0 THEN 0 ELSE line - 1
                      [] OTHER              -> line + 1
         /\ crs' = IF Last(bytes) = "CR" THEN crs + 1 ELSE crs
         /\ ep2' = Append(ep2, bytes)
    /\ UNCHANGED <<ep6, pc, i, shell, todo, after, asked, screen, prompts>>

\* What a packet does to the line on the screen.  Nothing is left of the
\* prompt once it has been erased.
Shown(s, p) ==
    CASE p.kind = "char"  -> Append(s, p.byte)
      [] p.kind = "erase" -> IF s = <<>> THEN <<"damage">> ELSE Front(s)
      [] OTHER            -> <<>>

Read ==
    /\ ep6 # <<>>
    /\ screen' = Shown(screen, Head(ep6))
    /\ prompts' = IF Head(ep6).kind = "prompt" THEN prompts + 1 ELSE prompts
    /\ ep6' = Tail(ep6)
    /\ UNCHANGED <<ep2, pc, i, shell, todo, after, asked, typed, line, crs>>

\* A control request, such as the state of DTR and RTS.
Ask ==
    /\ ~asked /\ asked' = TRUE
    /\ UNCHANGED <<ep2, ep6, pc, i, shell, todo, after, typed, line, screen, crs, prompts>>

-----------------------------------------------------------------------------
(* device.c                                                                *)

\* Between two calls of main_loop the framework handles the SETUP.
HandleSetup ==
    /\ pc = "main" /\ asked
    /\ asked' = FALSE
    /\ UNCHANGED <<ep2, ep6, pc, i, shell, todo, after, typed, line, screen, crs, prompts>>

\* cdc_handle_rx, as far as its loop over the bytes.
cdc_handle_rx ==
    /\ pc = "main" /\ ep2 # <<>>
    /\ i' = 1 /\ pc' = "byte"
    /\ UNCHANGED <<ep2, ep6, shell, todo, after, host>>

Rearm ==
    /\ pc = "byte" /\ i > Len(Head(ep2))
    /\ ep2' = Tail(ep2) /\ pc' = "main"
    /\ UNCHANGED <<ep6, i, shell, todo, after, host>>

\* cdc_print_string: waits until EP6 is empty and ships the string.
cdc_print_string ==
    /\ pc = "print" /\ todo # <<>> /\ ep6 = <<>>
    /\ ep6' = <<Head(todo)>> /\ todo' = Tail(todo)
    /\ UNCHANGED <<ep2, pc, i, shell, after, host>>

-----------------------------------------------------------------------------
(* shell.c                                                                 *)

\* shell_execute_command: what a line is answered with, one packet a
\* shell_printf; strtok cuts it into words at the spaces.
shell_execute_command(cmd) ==
    LET starts == {k \in DOMAIN cmd : cmd[k] # " " /\ (k = 1 \/ cmd[k - 1] = " ")}
        first  == CHOOSE k \in starts : \A j \in starts : k <= j
        alone  == first = Len(cmd) \/ cmd[first + 1] = " "
        name   == IF alone THEN cmd[first] ELSE "none"
        Texts(n) == [k \in 1 .. n |-> Put("text")]
    IN  CASE starts = {}                           -> <<>>
          [] Cardinality(starts) > SHELL_MAX_ARGS  -> Texts(1)
          [] OTHER -> Texts(CASE name = "h"        -> 1 + 1 + 2 * 3
                              [] name \in {"v", "u"} -> 1 + 2
                              [] OTHER             -> 3)

Say(packets, then) == pc' = "print" /\ todo' = packets /\ after' = then

\* Mutant: the test of the index dropped.
EraseAlways(b) ==
    /\ b = "BS" /\ Len(cmd_buffer) < SHELL_MAX_LINE_LEN
    /\ Say(<<Put("erase")>>, "erase")
    /\ UNCHANGED shell

Erase(b) ==
    /\ b = "BS" /\ Len(cmd_buffer) < SHELL_MAX_LINE_LEN
    /\ IF cmd_buffer # <<>> THEN Say(<<Put("erase")>>, "erase") ELSE Say(<<>>, "next")
    /\ UNCHANGED shell

Echo(b) ==
    /\ b \notin {"BS", "CR"} /\ Len(cmd_buffer) < SHELL_MAX_LINE_LEN
    /\ Say(<<PutChar(b)>>, "store")
    /\ UNCHANGED shell

\* The terminator goes to cmd_buffer[cmd_buffer_ndx].
EndLine(b) ==
    /\ b = "CR"
    /\ overrun' = (overrun \/ Len(cmd_buffer) >= SHELL_MAX_LINE_LEN)
    /\ Say(shell_execute_command(cmd_buffer), "reset")
    /\ UNCHANGED cmd_buffer

\* The line was full: it is dropped, and the byte with it.
DropLine(b) ==
    /\ b # "CR" /\ Len(cmd_buffer) >= SHELL_MAX_LINE_LEN
    /\ cmd_buffer' = <<>>
    /\ Say(<<>>, "next")
    /\ UNCHANGED overrun

shell_handle_rx ==
    /\ pc = "byte" /\ i <= Len(Head(ep2))
    /\ LET b == Head(ep2)[i] IN Erase(b) \/ Echo(b) \/ EndLine(b) \/ DropLine(b)
    /\ UNCHANGED <<ep2, ep6, i, host>>

\* What follows the printing: the index moves, and after a command comes the
\* prompt.
Printed ==
    /\ pc = "print" /\ todo = <<>>
    /\ cmd_buffer' = CASE after = "store" -> Append(cmd_buffer, Head(ep2)[i])
                       [] after = "erase" -> Front(cmd_buffer)
                       [] after = "reset" -> <<>>
                       [] OTHER           -> cmd_buffer
    /\ IF after = "reset"
       THEN Say(<<Put("prompt")>>, "next") /\ UNCHANGED i
       ELSE pc' = "byte" /\ i' = i + 1 /\ UNCHANGED <<todo, after>>
    /\ UNCHANGED <<ep2, ep6, overrun, host>>

Cpu == HandleSetup \/ cdc_handle_rx \/ Rearm \/ cdc_print_string \/ shell_handle_rx \/ Printed

Next == Type \/ Read \/ Ask \/ Cpu

Spec == Init /\ [][Next]_vars

-----------------------------------------------------------------------------
(* Properties.                                                             *)

\* Every variable holds a value of its type.
TypeOK ==
    /\ Len(ep2) <= EP2_BUFFERS /\ Len(ep6) <= 1 /\ pc \in {"main", "byte", "print"}
    /\ cmd_buffer \in Seq(Keys \ {"BS", "CR"}) /\ Len(cmd_buffer) <= SHELL_MAX_LINE_LEN
    /\ after \in {"next", "store", "erase", "reset"} /\ asked \in BOOLEAN

\* What the user sees is what the shell has: between two bytes the line on
\* the screen, once EP6 is read, is the line in cmd_buffer (shell.c:143-172).
EchoIsLine ==
    pc \in {"main", "byte"} =>
        cmd_buffer = IF ep6 = <<>> THEN screen ELSE Shown(screen, Head(ep6))

\* Every line typed has been answered with a prompt (shell.c:159-167).
Prompted == prompts = crs

\* "shell max line is 256, which should be enough" (device.c:75): nothing is
\* written behind cmd_buffer (shell.c:143, 161).
NoOverrun == ~overrun
=============================================================================
