------------------------------- MODULE Serial -------------------------------
(***************************************************************************)
(* The serial line of fx2lib (serial.c) with the echo loop of the serial   *)
(* example: sio0_init, getchar and putchar against the two halves of the   *)
(* UART, which run by themselves.  A byte that comes while RI is set is    *)
(* lost; a byte written to SBUF0 while one is being sent destroys it.      *)
(*                                                                         *)
(* Timer 2 counts mult * 12 MHz / 32 from RCAP2 to 65536.                  *)
(***************************************************************************)
EXTENDS Integers, Sequences, SequencesExt

CONSTANTS
    Rates,    \* <<mult, baud_rate>>; mult is 1, 2, 4 at 12, 24, 48 MHz
    Bytes,    \* what the other end types; "LF" and "CR" are expanded
    MaxTyped, \* bound: bytes it types
    Patience  \* subset of BOOLEAN: may it, must it wait for the echo?

SerialAssumption ==
    /\ Rates \subseteq {1, 2, 4} \X (Nat \ {0}) /\ MaxTyped \in Nat /\ Patience \subseteq BOOLEAN
    /\ "" \notin Bytes  \* stands for no byte

VARIABLES
    patient,            \* the other end waits for the echo before it types on
    rate, RCAP2,        \* -1 until sio0_init has set it
    pc, todo,           \* bytes that putchar has still to send
    RI, TI, SBUF0, tx,  \* SBUF0: received byte; tx: byte being sent
    typed, heard, taken, wire  \* typed, received, returned by getchar, sent

uart == <<RI, TI, SBUF0, tx>>
vars == <<patient, rate, RCAP2, pc, todo, uart, typed, heard, taken, wire>>

\* putchar: both "\n" and "\r" become "\r\n".
Sent(c)     == IF c \in {"LF", "CR"} THEN <<"CR", "LF">> ELSE <<c>>
Expanded(s) == FlattenSeq([k \in DOMAIN s |-> Sent(s[k])])

Init ==
    /\ patient \in Patience /\ rate \in Rates /\ RCAP2 = -1 /\ pc = "init" /\ todo = <<>>
    /\ RI = FALSE /\ TI = FALSE /\ SBUF0 = "" /\ tx = ""
    /\ typed = <<>> /\ heard = <<>> /\ taken = <<>> /\ wire = <<>>

-----------------------------------------------------------------------------
(* The UART and the other end of the line.                                 *)

Type ==
    /\ RCAP2 # -1 /\ Len(typed) < MaxTyped
    /\ patient => wire = Expanded(typed)
    /\ \E b \in Bytes :
         /\ typed' = Append(typed, b)
         /\ heard' = IF RI THEN heard ELSE Append(heard, b)
         /\ SBUF0' = IF RI THEN SBUF0 ELSE b
    /\ RI' = TRUE
    /\ UNCHANGED <<patient, rate, RCAP2, pc, todo, TI, tx, taken, wire>>

ByteSent ==
    /\ tx # ""
    /\ wire' = Append(wire, tx) /\ tx' = "" /\ TI' = TRUE
    /\ UNCHANGED <<patient, rate, RCAP2, pc, todo, RI, SBUF0, typed, heard, taken>>

-----------------------------------------------------------------------------
(* serial.c.                                                               *)

WORD == 65536

\* tmp: mult * 375000 / baud_rate, rounded, in a WORD.
Divisor(mult, baud) == (((mult * 375000 * 2) \div baud + 1) \div 2) % WORD

\* hl = 0xFFFF - tmp; RCAP2L is a byte and carries nothing to RCAP2H.
Reload(mult, baud) ==
    LET hl == WORD - 1 - Divisor(mult, baud) IN
    (hl \div 256) * 256 + (((hl % 256) + 1) % 256)

sio0_init ==
    /\ pc = "init" /\ pc' = "getchar"
    /\ RCAP2' = Reload(rate[1], rate[2]) /\ TI' = TRUE
    /\ UNCHANGED <<patient, rate, todo, RI, SBUF0, tx, typed, heard, taken, wire>>

Goto(from, to) == pc = from /\ pc' = to /\ UNCHANGED <<patient, rate, RCAP2, typed, heard, wire>>

\* Mutant: RI is cleared after the echo.
getcharClearLate ==
    \/ /\ RI /\ Goto("getchar", "putchar") /\ taken' = Append(taken, SBUF0) /\ todo' = Sent(SBUF0)
       /\ UNCHANGED uart
    \/ /\ todo = <<>> /\ Goto("putchar", "getchar") /\ RI' = FALSE
       /\ UNCHANGED <<todo, TI, SBUF0, tx, taken>>

getchar ==
    \/ /\ RI /\ Goto("getchar", "clear") /\ taken' = Append(taken, SBUF0) /\ todo' = Sent(SBUF0)
       /\ UNCHANGED uart
    \/ /\ Goto("clear", "putchar") /\ RI' = FALSE
       /\ UNCHANGED <<todo, TI, SBUF0, tx, taken>>

transchar ==
    \/ /\ TI /\ todo # <<>> /\ Goto("putchar", "write") /\ TI' = FALSE
       /\ UNCHANGED <<todo, RI, SBUF0, tx, taken>>
    \/ /\ Goto("write", "putchar") /\ tx' = Head(todo) /\ todo' = Tail(todo)
       /\ UNCHANGED <<RI, TI, SBUF0, taken>>

Echoed == todo = <<>> /\ Goto("putchar", "getchar") /\ UNCHANGED <<todo, uart, taken>>

Cpu == sio0_init \/ getchar \/ transchar \/ Echoed

Next == Type \/ ByteSent \/ Cpu

Spec == Init /\ [][Next]_vars

-----------------------------------------------------------------------------
(* Properties.                                                             *)

\* Every variable holds a value of its type; the two steps of _transchar
\* never meet a byte that is still being sent (serial.c:82-84).
TypeOK ==
    /\ patient \in Patience /\ rate \in Rates /\ RCAP2 \in -1 .. WORD - 1
    /\ pc \in {"init", "getchar", "clear", "putchar", "write"}
    /\ {RI, TI} \subseteq BOOLEAN /\ tx # "" => ~TI /\ pc # "write"
    /\ Len(typed) <= MaxTyped /\ Len(todo) <= 2

\* getchar returns the bytes that were received, each once and in order,
\* even if one comes between its two accesses (serial.c:76-77).
TakenAsHeard == IsPrefix(taken, heard) /\ Len(heard) <= Len(taken) + 1

\* What goes out is the expansion of what came in: no byte is destroyed,
\* repeated or sent out of order (serial.c:81-92).
EchoExact == wire \o (IF tx = "" THEN <<>> ELSE <<tx>>) \o todo = Expanded(taken)

\* All that was received has been echoed.
EchoComplete == taken = heard /\ wire = Expanded(taken)

\* An other end that waits for the echo loses nothing.
NoneLost == patient => heard = typed

Distance(m, n) == IF m < n THEN n - m ELSE m - n

\* The error of the rate in tenths of a percent, at most: serial.h:27-33.
ErrorTold(mult, baud) ==
    IF mult = 1 /\ baud = 57600 THEN 70
    ELSE IF mult * 19200 = baud \/ (mult = 1 /\ baud = 38400) THEN 24 ELSE 2

BaudAsTold ==
    RCAP2 # -1 =>
        LET counted == (WORD - RCAP2) * rate[2] IN
        1000 * Distance(rate[1] * 375000, counted) <= ErrorTold(rate[1], rate[2]) * counted
=============================================================================
