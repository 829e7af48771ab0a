--------------------------- MODULE StreamsProofs ----------------------------
(***************************************************************************)
(* Proofs about the programs that pass a stream on, for every value of     *)
(* their constants: what TLC checks of Streams with small ones.  The four  *)
(* have nothing in common, so each has an inductive invariant of its own,  *)
(* and the theorems at the end put them together.                          *)
(*                                                                         *)
(* CdcShell.  The line on the screen is not that of cmd_buffer at every    *)
(* moment; EchoInv says how they differ at each place where the shell      *)
(* prints.  LineInv follows the host's account of the line through the     *)
(* packets on the way, for the shell has no test of its own against the    *)
(* end of its buffer (shell.c:161-163).                                    *)
(*                                                                         *)
(* SlaveFifo.  The capture process takes q over at the very edge at which  *)
(* the FIFO is read.  That is right because it sees at most one byte at a  *)
(* time: WriteInv follows the write pointer through the stages that bring  *)
(* it to the other clock, where two writes stay two edges apart, ReadInv   *)
(* says that a byte is read before the next is seen, BackInv how far the   *)
(* writer's view of the read pointer lags, so that a FIFO that is deep     *)
(* enough is never full.                                                   *)
(*                                                                         *)
(* FullDuplex.  Two boards, two directions, and a board's main loop        *)
(* interleaves the receiving half of one with the sending half of the      *)
(* other.  Direction(s, r) is the invariant of the direction from s to r;  *)
(* a step of a board moves one half of one direction and leaves the other  *)
(* one as it was (DKept).  Linked relates the two halves: they are at the  *)
(* same byte, or a byte or the end of a packet apart.                      *)
(***************************************************************************)
EXTENDS Streams, Integers, SequenceTheorems, TLAPS

(***************************************************************************)
(* CdcShell.                                                               *)
(***************************************************************************)

\* What the host's packets are.
CPackets == {<<b>> : b \in Keys} \cup {<<b, "CR">> : b \in Keys \ {"CR"}}

\* What the shell prints.
CPrints == [kind : {"char", "erase", "prompt", "text"}, byte : Keys \cup {""}]

CText == {b \in Keys : b \notin {"BS", "CR"}}

\* The line on the screen once EP6 is read.
OnScreen == IF cep6 = <<>> THEN cscreen ELSE Shell!Shown(cscreen, cep6[1])

\* The line of the shell, at each place where it prints, against the screen.
EchoInv ==
    /\ cpc \in {"main", "byte"} => ccmd_buffer = OnScreen
    /\ cpc = "print" /\ cafter = "next" =>
         \/ ctodo = <<>> /\ ccmd_buffer = OnScreen
         \/ ctodo = <<Shell!Put("prompt")>> /\ ccmd_buffer = <<>>
    /\ cpc = "print" /\ cafter = "store" =>
         \/ ctodo = <<Shell!PutChar(cep2[1][ci])>> /\ ccmd_buffer = OnScreen
         \/ ctodo = <<>> /\ Append(ccmd_buffer, cep2[1][ci]) = OnScreen
    /\ cpc = "print" /\ cafter = "erase" =>
         /\ ccmd_buffer # <<>>
         /\ \/ ctodo = <<Shell!Put("erase")>> /\ ccmd_buffer = OnScreen
            \/ ctodo = <<>> /\ Shell!Front(ccmd_buffer) = OnScreen

CTypes ==
    /\ cep2 \in Seq(CPackets) /\ Len(cep2) <= 2
    /\ cep6 \in Seq(CPrints) /\ Len(cep6) <= 1
    /\ ctodo \in Seq(CPrints)
    /\ cpc \in {"main", "byte", "print"} /\ cafter \in {"next", "store", "erase", "reset"}
    /\ ccmd_buffer \in Seq(CText)
    /\ ci \in Nat \ {0} /\ cline \in Nat
    /\ cpc = "byte" => cep2 # <<>> /\ ci <= Len(cep2[1]) + 1
    /\ cpc = "print" => cep2 # <<>> /\ ci <= Len(cep2[1])
    /\ cpc = "print" /\ cafter = "store" => cep2[1][ci] \in CText

\* How long the line is once the byte that is being handled is.
LineNow ==
    IF cpc = "print"
    THEN CASE cafter = "store" -> Len(ccmd_buffer) + 1
           [] cafter = "erase" -> Len(ccmd_buffer) - 1
           [] cafter = "reset" -> 0
           [] OTHER            -> Len(ccmd_buffer)
    ELSE Len(ccmd_buffer)

\* How a packet changes the length of a line, in the host's account.
LineAfter(n, p) ==
    CASE p[Len(p)] = "CR" -> 0
      [] p[Len(p)] = "BS" -> IF n = 0 THEN 0 ELSE n - 1
      [] OTHER            -> n + 1

Room(n, p) == n < LineLimit \/ p = <<"CR">>

\* The packet in EP2FIFOBUF has not been begun; a byte of it is left.
AtStart == cpc = "main" \/ (cpc = "byte" /\ ci = 1)
BytesLeft ==
    \/ cpc = "byte" /\ ci = 2 /\ Len(cep2[1]) = 2
    \/ cpc = "print" /\ ci < Len(cep2[1])

\* How long the line is once the packet is handled.
LineThen ==
    IF AtStart THEN LineAfter(Len(ccmd_buffer), cep2[1])
    ELSE IF BytesLeft THEN 0 ELSE LineNow

\* The host's account of the line is that of the shell, once the packets on
\* the way are handled; so the line of the shell does not outgrow the limit.
LineInv ==
    /\ LineNow <= LineLimit /\ Len(ccmd_buffer) <= LineLimit
    /\ cep2 = <<>> => cline = LineNow
    /\ Len(cep2) = 1 => cline = LineThen
    /\ Len(cep2) = 2 => cline = LineAfter(LineThen, cep2[2]) /\ Room(LineThen, cep2[2])
    /\ cep2 # <<>> /\ AtStart => Room(Len(ccmd_buffer), cep2[1])

CFlags == casked \in BOOLEAN /\ coverrun = FALSE

ShellInv == CTypes /\ EchoInv /\ LineInv

LineFits == LineLimit < SHELL_MAX_LINE_LEN

-----------------------------------------------------------------------------
LEMMA TailOfOne ==
  ASSUME NEW S, NEW s \in Seq(S), Len(s) = 1
  PROVE  Tail(s) = <<>>
<1>1. Tail(s) \in Seq(S) /\ Len(Tail(s)) = 0
  OBVIOUS
<1>2. QED
  BY <1>1, EmptySeq

LEMMA NotEmpty ==
  ASSUME NEW S, NEW s \in Seq(S)
  PROVE  Len(s) \in Nat /\ (s = <<>> <=> Len(s) = 0)
  BY EmptySeq

\* Arithmetic of small numbers.
LEMMA OneOfTwo ==
  ASSUME NEW i \in Nat \ {0}, NEW n, n = 1 \/ n = 2, i <= n
  PROVE  /\ i = 1 \/ (i = 2 /\ n = 2)
         /\ (i + 1 = 2 <=> i = 1) /\ i + 1 # 1
         /\ (i < n <=> i = 1 /\ n = 2)
         /\ (1 < n <=> n = 2)
  OBVIOUS

LEMMA OnlyOne == ASSUME NEW n \in Nat, n # 0, n < 2 PROVE n = 1
  OBVIOUS

LEMMA FrontLen ==
  ASSUME NEW S, NEW s \in Seq(S), Len(s) \in Nat, Len(s) # 0
  PROVE  /\ SubSeq(s, 1, Len(s) - 1) \in Seq(S)
         /\ Len(SubSeq(s, 1, Len(s) - 1)) = Len(s) - 1
<1> DEFINE n == Len(s) - 1
<1>1. n \in Nat
  OBVIOUS
<1>2. \A k \in 1 .. n : s[k] \in S
  <2>1. \A k \in 1 .. Len(s) : s[k] \in S
    BY ElementOfSeq
  <2>2. QED
    BY <2>1
<1>3. SubSeq(s, 1, n) \in Seq(S) /\ Len(SubSeq(s, 1, n)) = n
  <2> HIDE DEF n
  <2>1. n \in Int /\ 1 \in Int /\ (n < 1 => n = 0)
    BY <1>1
  <2>2. Len(SubSeq(s, 1, n)) = (IF 1 <= n THEN n - 1 + 1 ELSE 0) /\ SubSeq(s, 1, n) \in Seq(S)
    BY <1>2, <2>1, SubSeqProperties
  <2>3. QED
    BY <1>1, <2>2
<1>4. QED
  BY <1>3

LEMMA Single ==
  ASSUME NEW S, NEW x \in S
  PROVE  <<x>> \in Seq(S) /\ <<x>> # <<>> /\ <<x>>[1] = x /\ Len(<<x>>) = 1 /\ Tail(<<x>>) = <<>>
  OBVIOUS

LEMMA CPut ==
  /\ \A k \in {"erase", "prompt", "text"} : Shell!Put(k) \in CPrints
  /\ \A b \in Keys : Shell!PutChar(b) \in CPrints
  BY DEF Shell!Put, Shell!PutChar, CPrints

LEMMA CShown ==
  /\ Shell!Shown(cscreen, Shell!Put("prompt")) = <<>>
  /\ cscreen # <<>> => Shell!Shown(cscreen, Shell!Put("erase")) = Shell!Front(cscreen)
  /\ \A b : Shell!Shown(cscreen, Shell!PutChar(b)) = Append(cscreen, b)
  BY DEF Shell!Put, Shell!PutChar, Shell!Shown

LEMMA CPacket ==
  ASSUME NEW p \in CPackets
  PROVE  /\ p \in Seq(Keys \cup {"CR"})
         /\ Len(p) = 1 \/ (Len(p) = 2 /\ p[2] = "CR" /\ p[1] # "CR")
         /\ p[1] \in Keys
         /\ Len(p) = 1 /\ p[1] = "CR" => p = <<"CR">>
         /\ p = <<"CR">> => Len(p) = 1 /\ p[1] = "CR"
<1>1. CASE \E b \in Keys : p = <<b>>
  <2>1. PICK b \in Keys : p = <<b>>
    BY <1>1
  <2>2. p \in Seq(Keys \cup {"CR"}) /\ Len(p) = 1 /\ p[1] = b
    BY <2>1
  <2>3. p[1] = "CR" => p = <<"CR">>
    BY <2>1, <2>2
  <2>4. p = <<"CR">> => p[1] = "CR"
    OBVIOUS
  <2>5. QED
    BY <2>2, <2>3, <2>4
<1>2. CASE \E b \in Keys \ {"CR"} : p = <<b, "CR">>
  BY <1>2
<1>3. QED
  BY <1>1, <1>2 DEF CPackets

LEMMA CLimits == LineLimit \in Nat /\ SHELL_MAX_LINE_LEN \in Nat
  BY StreamsAssumption DEF Shell!CdcShellAssumption

\* What a command is answered with: texts.
LEMMA CAnswers ==
  ASSUME NEW cmd
  PROVE  Shell!shell_execute_command(cmd) \in Seq(CPrints)
<1> DEFINE Texts(n) == [k \in 1 .. n |-> Shell!Put("text")]
<1>1. ASSUME NEW n \in Nat PROVE Texts(n) \in Seq(CPrints)
  BY CPut
<1>2. <<>> \in Seq(CPrints)
  OBVIOUS
<1>3. /\ Texts(1) \in Seq(CPrints) /\ Texts(1 + 1 + 2 * 3) \in Seq(CPrints)
      /\ Texts(1 + 2) \in Seq(CPrints) /\ Texts(3) \in Seq(CPrints)
  <2> HIDE DEF Texts
  <2>1. QED
    BY <1>1
<1>4. QED
  BY <1>2, <1>3 DEF Shell!shell_execute_command

LEMMA InitShell == ASSUME Shell!Init PROVE ShellInv
<1>1. CTypes
  <2>1. cep2 \in Seq(CPackets) /\ cep6 \in Seq(CPrints) /\ ctodo \in Seq(CPrints)
        /\ Len(cep2) <= 2 /\ Len(cep6) <= 1 /\ ccmd_buffer \in Seq(CText)
    BY EmptySeq DEF Shell!Init
  <2>2. /\ cpc = "main" /\ cafter = "next" /\ ci \in Nat \ {0} /\ cline \in Nat
    BY DEF Shell!Init
  <2>3. QED
    BY <2>1, <2>2 DEF CTypes
<1>2. EchoInv
  BY DEF Shell!Init, EchoInv, OnScreen
<1>3. LineInv
  <2>1. LineNow = 0
    BY DEF Shell!Init, LineNow
  <2>2. QED
    BY <2>1, CLimits DEF Shell!Init, LineInv
<1>4. QED
  BY <1>1, <1>2, <1>3 DEF ShellInv

\* What the line depends on.
LEMMA CLineKept ==
  ASSUME UNCHANGED <<cpc, ci, ccmd_buffer, cafter>>, cep2 # <<>> => cep2'[1] = cep2[1]
  PROVE  /\ LineNow' = LineNow /\ (AtStart' <=> AtStart)
         /\ cep2 # <<>> => LineThen' = LineThen
<1>1. LineNow' = LineNow /\ (AtStart' <=> AtStart)
  BY DEF LineNow, AtStart
<1>2. cep2 # <<>> => (BytesLeft' <=> BytesLeft)
  BY DEF BytesLeft
<1>3. QED
  BY <1>1, <1>2 DEF LineThen

LEMMA CLineSame ==
  ASSUME LineInv, UNCHANGED <<cpc, ci, ccmd_buffer, cafter, cep2, cline>>
  PROVE  LineInv'
<1>1. LineNow' = LineNow /\ (AtStart' <=> AtStart) /\ (BytesLeft' <=> BytesLeft)
  BY DEF LineNow, AtStart, BytesLeft
<1>2. LineThen' = LineThen
  BY <1>1 DEF LineThen
<1>3. QED
  BY <1>1, <1>2 DEF LineInv

LEMMA CType == ASSUME LineFits, ShellInv, Shell!Type PROVE ShellInv'
<1>1. PICK p \in CPackets :
        /\ cline < LineLimit \/ p = <<"CR">>
        /\ cline' = CASE Shell!Last(p) = "CR" -> 0
                      [] Shell!Last(p) = "BS" -> IF cline = 0 THEN 0 ELSE cline - 1
                      [] OTHER                -> cline + 1
        /\ cep2' = Append(cep2, p)
  BY DEF Shell!Type, CPackets
<1>2. /\ cline' = LineAfter(cline, p) /\ Room(cline, p) /\ cline' \in Nat
  <2>1. Shell!Last(p) = p[Len(p)]
    BY DEF Shell!Last
  <2>2. cline \in Nat
    BY DEF ShellInv, CTypes
  <2>3. QED
    BY <1>1, <2>1, <2>2 DEF LineAfter, Room
<1>3. /\ Len(cep2) < 2 /\ UNCHANGED <<cep6, cpc, ci, ccmd_buffer, ctodo, cafter, cscreen>>
  BY DEF Shell!Type, Shell!EP2_BUFFERS, Shell!shell
<1>4. /\ cep2 # <<>> => cep2'[1] = cep2[1]
      /\ cep2 = <<>> => cep2'[1] = p /\ cpc = "main" /\ Len(cep2') = 1
      /\ cep2'[Len(cep2) + 1] = p /\ Len(cep2') = Len(cep2) + 1
      /\ cep2' \in Seq(CPackets) /\ cep2' # <<>>
  BY <1>1, <1>3, EmptySeq DEF ShellInv, CTypes
<1>5. CTypes'
  BY <1>2, <1>3, <1>4 DEF ShellInv, CTypes
<1>6. EchoInv'
  BY <1>3, <1>4 DEF ShellInv, CTypes, EchoInv, OnScreen
<1>7. LineInv'
  <2>1. CASE cep2 = <<>>
    <3>1. cpc = "main" /\ cline = Len(ccmd_buffer) /\ LineNow <= LineLimit /\ LineNow' = LineNow
          /\ Len(ccmd_buffer) <= LineLimit
      BY <1>3, <1>4, <2>1, CLineKept DEF ShellInv, LineInv, LineNow
    <3>2. LineThen' = LineAfter(cline, p)
      BY <1>3, <1>4, <2>1, <3>1 DEF LineThen, AtStart
    <3>3. QED
      BY <1>2, <1>3, <1>4, <2>1, <3>1, <3>2 DEF LineInv
  <2>2. CASE cep2 # <<>>
    <3>1. Len(cep2) = 1 /\ Len(cep2') = 2
      <4>1. Len(cep2) \in Nat /\ Len(cep2) # 0
        BY <2>2, NotEmpty DEF ShellInv, CTypes
      <4>2. Len(cep2) < 2 /\ Len(cep2') = Len(cep2) + 1
        BY <1>3, <1>4
      <4>3. Len(cep2) = 1
        BY <4>1, <4>2, OnlyOne
      <4>4. QED
        BY <4>2, <4>3
    <3>2. LineThen' = LineThen /\ LineNow' = LineNow /\ (AtStart' <=> AtStart)
      BY <1>3, <1>4, <2>2, CLineKept
    <3>3. QED
      BY <1>2, <1>3, <1>4, <2>2, <3>1, <3>2 DEF ShellInv, LineInv
  <2>3. QED
    BY <2>1, <2>2
<1>8. QED
  BY <1>5, <1>6, <1>7 DEF ShellInv

\* Reading EP6 shows what was to be shown.
LEMMA CRead == ASSUME ShellInv, Shell!Read PROVE ShellInv'
<1>1. /\ cep6 # <<>> /\ cscreen' = Shell!Shown(cscreen, cep6[1]) /\ cep6' = Tail(cep6)
      /\ UNCHANGED <<cep2, cpc, ci, ccmd_buffer, ctodo, cafter, cline>>
  BY DEF Shell!Read, Shell!shell, ShellInv, CTypes
<1>2. cep6' = <<>> /\ OnScreen' = OnScreen
  BY <1>1 DEF ShellInv, CTypes, OnScreen
<1>3. CTypes' /\ EchoInv'
  BY <1>1, <1>2 DEF ShellInv, CTypes, EchoInv
<1>4. LineInv'
  BY <1>1, CLineSame DEF ShellInv
<1>5. QED
  BY <1>3, <1>4 DEF ShellInv

LEMMA CAsk == ASSUME ShellInv, Shell!Ask \/ Shell!HandleSetup \/ UNCHANGED shell PROVE ShellInv'
<1>1. /\ UNCHANGED <<cep2, cep6, cpc, ci, ccmd_buffer, ctodo, cafter, cline, cscreen>>
  BY DEF Shell!Ask, Shell!HandleSetup, Shell!shell, ShellInv, CTypes, shell
<1>2. CTypes' /\ EchoInv'
  BY <1>1 DEF ShellInv, CTypes, EchoInv, OnScreen
<1>3. LineInv'
  BY <1>1, CLineSame DEF ShellInv
<1>4. QED
  BY <1>2, <1>3 DEF ShellInv

LEMMA CHandleRx == ASSUME ShellInv, Shell!cdc_handle_rx PROVE ShellInv'
<1>1. /\ cpc = "main" /\ cep2 # <<>> /\ ci' = 1 /\ cpc' = "byte"
      /\ UNCHANGED <<cep2, cep6, ccmd_buffer, ctodo, cafter, cline, cscreen>>
  BY DEF Shell!cdc_handle_rx, Shell!shell, Shell!host
<1>2. CTypes' /\ EchoInv'
  BY <1>1, CPacket DEF ShellInv, CTypes, EchoInv, OnScreen
<1>3. LineInv'
  BY <1>1 DEF ShellInv, LineInv, LineNow, LineThen, AtStart, BytesLeft
<1>4. QED
  BY <1>2, <1>3 DEF ShellInv

\* The next packet takes the place of the one that is done.
LEMMA CRearm == ASSUME ShellInv, Shell!Rearm PROVE ShellInv'
<1>1. /\ cpc = "byte" /\ ci > Len(cep2[1]) /\ cep2' = Tail(cep2) /\ cpc' = "main"
      /\ UNCHANGED <<ci, cep6, ccmd_buffer, ctodo, cafter, cline, cscreen>>
  BY DEF Shell!Rearm, Shell!shell, Shell!host, ShellInv, CTypes
<1>2. /\ cep2 # <<>> /\ cep2[1] \in CPackets /\ Len(cep2') = Len(cep2) - 1
      /\ cep2' \in Seq(CPackets) /\ (cep2' # <<>> => cep2'[1] = cep2[2])
  BY <1>1 DEF ShellInv, CTypes
<1>3. CTypes' /\ EchoInv'
  BY <1>1, <1>2 DEF ShellInv, CTypes, EchoInv, OnScreen
<1>4. LineThen = LineNow /\ LineNow' = LineNow /\ LineNow = Len(ccmd_buffer)
  <2>1. LineNow' = LineNow /\ LineNow = Len(ccmd_buffer)
    BY <1>1 DEF LineNow
  <2>2. /\ cpc # "main" /\ cpc # "print" /\ Len(cep2[1]) \in 1 .. 2 /\ ci \in Nat
        /\ ci > Len(cep2[1])
    BY <1>1, <1>2, CPacket DEF ShellInv, CTypes
  <2>3. ~AtStart /\ ~BytesLeft
    BY <2>2 DEF AtStart, BytesLeft
  <2>4. QED
    BY <2>1, <2>3 DEF LineThen
<1>5. CASE Len(cep2) = 1
  <2>1. cep2' = <<>> /\ cline = LineNow
    BY <1>1, <1>4, <1>5, TailOfOne DEF ShellInv, CTypes, LineInv
  <2>2. Len(cep2') = 0
    BY <2>1
  <2>3. LineInv'
    BY <1>1, <1>4, <2>1, <2>2 DEF ShellInv, LineInv
  <2>4. QED
    BY <1>3, <2>3 DEF ShellInv
<1>6. CASE Len(cep2) = 2
  <2>1. Len(cep2') = 1 /\ cep2' # <<>> /\ cep2'[1] = cep2[2]
    <3>1. Len(cep2') = 1
      BY <1>2, <1>6
    <3>2. cep2' # <<>>
      BY <3>1
    <3>3. QED
      BY <1>2, <3>1, <3>2
  <2>2. LineThen' = LineAfter(Len(ccmd_buffer), cep2[2])
    BY <1>1, <2>1 DEF LineThen, AtStart
  <2>3. QED
    BY <1>1, <1>3, <1>4, <1>6, <2>1, <2>2 DEF ShellInv, LineInv
<1>7. QED
  BY <1>2, <1>5, <1>6 DEF ShellInv, CTypes

\* A string is shipped to an empty EP6, so the screen is ahead by it alone.
LEMMA CPrint == ASSUME ShellInv, Shell!cdc_print_string PROVE ShellInv'
<1>1. /\ cpc = "print" /\ ctodo # <<>> /\ cep6 = <<>> /\ cep6' = <<ctodo[1]>>
      /\ ctodo' = Tail(ctodo)
      /\ UNCHANGED <<cep2, cpc, ci, ccmd_buffer, cafter, cline, cscreen>>
  BY DEF Shell!cdc_print_string, Shell!shell, Shell!host, ShellInv, CTypes
<1>2. CTypes'
  BY <1>1 DEF ShellInv, CTypes
<1>3. OnScreen = cscreen /\ OnScreen' = Shell!Shown(cscreen, ctodo[1])
  BY <1>1 DEF OnScreen
<1>4. EchoInv'
  <2>1. cafter = "next" => ccmd_buffer' = <<>> /\ ctodo' = <<>> /\ OnScreen' = <<>>
    <3>1. ASSUME cafter = "next"
          PROVE  ctodo = <<Shell!Put("prompt")>> /\ ccmd_buffer = <<>>
      BY <1>1, <3>1 DEF ShellInv, EchoInv
    <3>2. ASSUME cafter = "next"
          PROVE  ctodo[1] = Shell!Put("prompt") /\ Tail(ctodo) = <<>>
      BY <3>1, <3>2, CPut, Single
    <3>3. QED
      BY <1>1, <1>3, <3>1, <3>2, CShown
  <2>2. cafter = "store" => ctodo' = <<>> /\ Append(ccmd_buffer, cep2[1][ci]) = OnScreen'
    <3>1. ASSUME cafter = "store"
          PROVE  /\ ctodo = <<Shell!PutChar(cep2[1][ci])>> /\ ccmd_buffer = OnScreen
                 /\ cep2[1][ci] \in Keys
      BY <1>1, <3>1 DEF ShellInv, EchoInv, CTypes, CText
    <3>2. ASSUME cafter = "store"
          PROVE  ctodo[1] = Shell!PutChar(cep2[1][ci]) /\ Tail(ctodo) = <<>>
      BY <3>1, <3>2, CPut, Single
    <3>3. QED
      BY <1>1, <1>3, <3>1, <3>2, CShown
  <2>3. cafter = "erase" => ctodo' = <<>> /\ Shell!Front(ccmd_buffer) = OnScreen' /\ ccmd_buffer # <<>>
    <3>1. ASSUME cafter = "erase"
          PROVE  /\ ctodo = <<Shell!Put("erase")>> /\ ccmd_buffer = OnScreen /\ ccmd_buffer # <<>>
      BY <1>1, <3>1 DEF ShellInv, EchoInv
    <3>2. ASSUME cafter = "erase"
          PROVE  ctodo[1] = Shell!Put("erase") /\ Tail(ctodo) = <<>>
      BY <3>1, <3>2, CPut, Single
    <3>3. QED
      BY <1>1, <1>3, <3>1, <3>2, CShown
  <2>4. QED
    BY <1>1, <2>1, <2>2, <2>3 DEF EchoInv
<1>5. LineInv'
  BY <1>1, CLineSame DEF ShellInv
<1>6. QED
  BY <1>2, <1>4, <1>5 DEF ShellInv

\* The byte in hand, and what is known of the line when it is taken.
LEMMA CByte ==
  ASSUME ShellInv, cpc = "byte", ci <= Len(cep2[1])
  PROVE  /\ cep2 # <<>> /\ cep2[1] \in CPackets /\ cep2[1][ci] \in Keys \cup {"CR"}
         /\ ci = 1 \/ (ci = 2 /\ Len(cep2[1]) = 2 /\ cep2[1][2] = "CR")
         /\ Len(ccmd_buffer) \in Nat /\ Len(ccmd_buffer) <= LineLimit
         /\ cep2[1][ci] # "CR" => ci = 1 /\ Len(ccmd_buffer) < LineLimit
         /\ ccmd_buffer = OnScreen
<1>1. /\ cep2 # <<>> /\ cep2[1] \in CPackets /\ ci \in Nat \ {0} /\ ccmd_buffer \in Seq(CText)
  BY DEF ShellInv, CTypes
<1>2. ci = 1 \/ (ci = 2 /\ Len(cep2[1]) = 2 /\ cep2[1][2] = "CR")
  <2>1. Len(cep2[1]) = 1 \/ (Len(cep2[1]) = 2 /\ cep2[1][2] = "CR")
    BY <1>1, CPacket
  <2>2. QED
    BY <1>1, <2>1, OneOfTwo
<1>3. Len(ccmd_buffer) <= LineLimit
  BY DEF ShellInv, LineInv, LineNow
<1>4. cep2[1][ci] # "CR" => ci = 1 /\ Len(ccmd_buffer) < LineLimit
  BY <1>1, <1>2, CPacket DEF ShellInv, LineInv, AtStart, Room
<1>5. QED
  BY <1>1, <1>2, <1>3, <1>4, CPacket DEF ShellInv, EchoInv

LEMMA CHandleByte == ASSUME LineFits, ShellInv, Shell!shell_handle_rx PROVE ShellInv'
<1> DEFINE b == cep2[1][ci]
<1>1. /\ cpc = "byte" /\ ci <= Len(cep2[1])
      /\ Shell!Erase(b) \/ Shell!Echo(b) \/ Shell!EndLine(b) \/ Shell!DropLine(b)
      /\ UNCHANGED <<cep2, cep6, ci, cline, cscreen>>
  BY DEF Shell!shell_handle_rx, Shell!host, ShellInv, CTypes
<1>2. /\ cep2 # <<>> /\ cep2[1] \in CPackets /\ b \in Keys \cup {"CR"}
      /\ ci = 1 \/ (ci = 2 /\ Len(cep2[1]) = 2 /\ cep2[1][2] = "CR")
      /\ Len(ccmd_buffer) \in Nat /\ Len(ccmd_buffer) <= LineLimit
      /\ b # "CR" => ci = 1 /\ Len(ccmd_buffer) < LineLimit
      /\ ccmd_buffer = OnScreen /\ OnScreen' = OnScreen
  BY <1>1, CByte DEF OnScreen
<1>3. ~Shell!DropLine(b)
  BY <1>2, CLimits DEF Shell!DropLine, LineFits
<1>4. CASE Shell!Erase(b)
  <2>1. /\ b = "BS" /\ cpc' = "print" /\ UNCHANGED ccmd_buffer
        /\ \/ ccmd_buffer # <<>> /\ ctodo' = <<Shell!Put("erase")>> /\ cafter' = "erase"
           \/ ccmd_buffer = <<>> /\ ctodo' = <<>> /\ cafter' = "next"
    BY <1>4 DEF Shell!Erase, Shell!Say, Shell!shell
  <2>2. CTypes'
    <3>1. ctodo' \in Seq(CPrints)
      BY <2>1, CPut, Single, EmptySeq
    <3>2. QED
      BY <1>1, <1>2, <2>1, <3>1 DEF ShellInv, CTypes
  <2>3. EchoInv'
    BY <1>2, <2>1 DEF EchoInv
  <2>4. LineInv'
    <3>1. LineNow' = IF ccmd_buffer = <<>> THEN 0 ELSE Len(ccmd_buffer) - 1
      BY <1>2, <2>1 DEF LineNow
    <3>2. ci = 1 /\ AtStart /\ ~AtStart' /\ (BytesLeft' <=> Len(cep2[1]) = 2)
      <4>1. ci = 1 /\ cpc = "byte" /\ cpc' = "print" /\ ci' = 1 /\ cep2' = cep2
        BY <1>1, <1>2, <2>1
      <4>2. 1 < Len(cep2[1]) <=> Len(cep2[1]) = 2
        <5>1. (Len(cep2[1]) = 1 \/ Len(cep2[1]) = 2) /\ 1 <= Len(cep2[1])
          BY <1>2, CPacket
        <5>2. QED
          BY <5>1, OneOfTwo
      <4>3. QED
        BY <4>1, <4>2 DEF AtStart, BytesLeft
    <3>3. LineThen' = LineThen
      <4>1. CASE Len(cep2[1]) = 1
        BY <1>2, <2>1, <3>1, <3>2, <4>1, NotEmpty DEF LineThen, LineAfter, ShellInv, CTypes
      <4>2. CASE Len(cep2[1]) = 2
        BY <1>1, <1>2, <3>2, <4>2, CPacket DEF LineThen, LineAfter
      <4>3. QED
        BY <1>2, <4>1, <4>2, CPacket
    <3>4. LineNow' <= LineLimit
      BY <1>2, <3>1, CLimits
    <3>5. QED
      BY <1>1, <1>2, <2>1, <3>1, <3>2, <3>3, <3>4 DEF ShellInv, LineInv, AtStart
  <2>5. QED
    BY <2>2, <2>3, <2>4 DEF ShellInv
<1>5. CASE Shell!Echo(b)
  <2>1. /\ b \notin {"BS", "CR"} /\ cpc' = "print" /\ UNCHANGED ccmd_buffer
        /\ ctodo' = <<Shell!PutChar(b)>> /\ cafter' = "store"
    BY <1>5 DEF Shell!Echo, Shell!Say, Shell!shell
  <2>2. b \in CText
    BY <1>2, <2>1 DEF CText
  <2>3. CTypes'
    <3>1. ctodo' \in Seq(CPrints) /\ b \in Keys
      BY <2>1, <2>2, CPut, Single DEF CText
    <3>2. QED
      BY <1>1, <1>2, <2>1, <2>2, <3>1 DEF ShellInv, CTypes
  <2>4. EchoInv'
    BY <1>1, <1>2, <2>1 DEF EchoInv
  <2>5. LineInv'
    <3>1. LineNow' = Len(ccmd_buffer) + 1
      BY <2>1 DEF LineNow
    <3>2. LineThen' = LineThen /\ LineNow' <= LineLimit
      BY <1>1, <1>2, <2>1, <3>1, CPacket, CLimits
         DEF ShellInv, CTypes, LineThen, AtStart, BytesLeft, LineAfter
    <3>3. QED
      BY <1>1, <1>2, <2>1, <3>1, <3>2 DEF ShellInv, LineInv, AtStart
  <2>6. QED
    BY <2>3, <2>4, <2>5 DEF ShellInv
<1>6. CASE Shell!EndLine(b)
  <2>1. /\ b = "CR" /\ cpc' = "print" /\ UNCHANGED ccmd_buffer
        /\ ctodo' = Shell!shell_execute_command(ccmd_buffer) /\ cafter' = "reset"
    BY <1>2, <1>6, CLimits DEF Shell!EndLine, Shell!Say, LineFits, ShellInv, LineInv
  <2>2. ctodo' \in Seq(CPrints)
    BY <2>1, CAnswers
  <2>3. CTypes'
    BY <1>1, <1>2, <2>1, <2>2 DEF ShellInv, CTypes
  <2>4. EchoInv'
    BY <1>2, <2>1 DEF EchoInv
  <2>5. LineInv'
    <3>1. LineNow' = 0
      BY <2>1 DEF LineNow
    <3>2. LineThen' = LineThen /\ LineNow' <= LineLimit
      BY <1>1, <1>2, <2>1, <3>1, CPacket, CLimits
         DEF ShellInv, CTypes, LineThen, AtStart, BytesLeft, LineAfter
    <3>3. QED
      BY <1>1, <1>2, <2>1, <3>1, <3>2 DEF ShellInv, LineInv, AtStart
  <2>6. QED
    BY <2>3, <2>4, <2>5 DEF ShellInv
<1>7. QED
  BY <1>1, <1>3, <1>4, <1>5, <1>6

\* What follows the printing makes the line of the shell that of the screen.
LEMMA CPrinted == ASSUME ShellInv, Shell!Printed PROVE ShellInv'
<1>1. /\ cpc = "print" /\ ctodo = <<>>
      /\ UNCHANGED <<cep2, cep6, cline, cscreen>> /\ OnScreen' = OnScreen
      /\ cep2 # <<>> /\ cep2[1] \in CPackets /\ ci \in 1 .. Len(cep2[1]) /\ Len(cep2[1]) \in 1 .. 2
      /\ ccmd_buffer \in Seq(CText)
  BY CPacket DEF Shell!Printed, Shell!host, OnScreen, ShellInv, CTypes
<1>2. CASE cafter = "reset"
  <2>1. /\ ccmd_buffer' = <<>> /\ cpc' = "print" /\ ctodo' = <<Shell!Put("prompt")>>
        /\ cafter' = "next" /\ ci' = ci
    BY <1>2 DEF Shell!Printed, Shell!Say
  <2>2. CTypes'
    <3>1. ctodo' \in Seq(CPrints) /\ ccmd_buffer' \in Seq(CText)
      BY <2>1, CPut, Single, EmptySeq
    <3>2. QED
      BY <1>1, <2>1, <3>1 DEF ShellInv, CTypes
  <2>3. EchoInv'
    BY <2>1 DEF EchoInv
  <2>4. LineNow' = 0 /\ LineNow = 0
    BY <1>1, <1>2, <2>1 DEF LineNow
  <2>5. LineThen' = LineThen
    BY <1>1, <2>1, <2>4 DEF LineThen, AtStart, BytesLeft
  <2>6. LineInv'
    BY <1>1, <2>1, <2>4, <2>5 DEF ShellInv, LineInv, AtStart
  <2>7. QED
    BY <2>2, <2>3, <2>6 DEF ShellInv
<1>3. CASE cafter # "reset"
  <2>1. cpc' = "byte" /\ ci' = ci + 1 /\ UNCHANGED <<ctodo, cafter>>
    BY <1>3 DEF Shell!Printed
  <2>2. ccmd_buffer' \in Seq(CText) /\ Len(ccmd_buffer') = LineNow /\ ccmd_buffer' = OnScreen
    <3>1. CASE cafter = "store"
      <4>1. ccmd_buffer' = Append(ccmd_buffer, cep2[1][ci]) /\ cep2[1][ci] \in CText
        BY <1>1, <3>1 DEF Shell!Printed, ShellInv, CTypes
      <4>2. ccmd_buffer' = OnScreen
        BY <1>1, <3>1, <4>1 DEF ShellInv, EchoInv
      <4>3. QED
        <5>1. LineNow = Len(ccmd_buffer) + 1
          BY <1>1, <3>1 DEF LineNow
        <5>2. ccmd_buffer' \in Seq(CText) /\ Len(ccmd_buffer') = Len(ccmd_buffer) + 1
          BY <1>1, <4>1, AppendProperties
        <5>3. QED
          BY <4>2, <5>1, <5>2
    <3>2. CASE cafter = "erase"
      <4>1. ccmd_buffer' = Shell!Front(ccmd_buffer) /\ ccmd_buffer # <<>>
        BY <1>1, <3>2 DEF Shell!Printed, ShellInv, EchoInv
      <4>2. ccmd_buffer' = OnScreen
        BY <1>1, <3>2, <4>1 DEF ShellInv, EchoInv
      <4>3. QED
        <5>1. LineNow = Len(ccmd_buffer) - 1
          BY <1>1, <3>2 DEF LineNow
        <5>2. ccmd_buffer' \in Seq(CText) /\ Len(ccmd_buffer') = Len(ccmd_buffer) - 1
          <6>1. Len(ccmd_buffer) \in Nat /\ Len(ccmd_buffer) # 0
            BY <1>1, <4>1, NotEmpty
          <6>2. QED
            BY <1>1, <4>1, <6>1, FrontLen DEF Shell!Front
        <5>3. QED
          BY <4>2, <5>1, <5>2
    <3>3. CASE cafter = "next"
      <4>1. ccmd_buffer' = ccmd_buffer
        BY <3>3 DEF Shell!Printed
      <4>2. ccmd_buffer = OnScreen
        BY <1>1, <3>3 DEF ShellInv, EchoInv
      <4>3. QED
        BY <1>1, <3>3, <4>1, <4>2 DEF LineNow
    <3>4. QED
      BY <1>3, <3>1, <3>2, <3>3 DEF ShellInv, CTypes
  <2>3. CTypes'
    BY <1>1, <2>1, <2>2 DEF ShellInv, CTypes
  <2>4. EchoInv'
    BY <1>1, <2>1, <2>2 DEF EchoInv
  <2>5. LineNow' = LineNow
    BY <2>1, <2>2 DEF LineNow
  <2>6. ~AtStart /\ ~AtStart' /\ (BytesLeft' <=> BytesLeft)
    <3>1. ci \in 1 .. 2 /\ (ci + 1 = 2 <=> ci = 1) /\ ci + 1 # 1
          /\ (ci < Len(cep2[1]) <=> ci = 1 /\ Len(cep2[1]) = 2)
      <4>1. ci \in Nat \ {0} /\ ci <= Len(cep2[1]) /\ (Len(cep2[1]) = 1 \/ Len(cep2[1]) = 2)
        BY <1>1
      <4>2. QED
        BY <1>1, <4>1, OneOfTwo
    <3>2. QED
      BY <1>1, <2>1, <3>1 DEF AtStart, BytesLeft
  <2>9. LineThen' = LineThen
    BY <2>5, <2>6 DEF LineThen
  <2>7. LineInv'
    <3>1. Len(ccmd_buffer') <= LineLimit /\ LineNow' <= LineLimit
      BY <2>2, <2>5 DEF ShellInv, LineInv
    <3>2. QED
      BY <1>1, <2>5, <2>6, <2>9, <3>1 DEF ShellInv, LineInv
  <2>8. QED
    BY <2>3, <2>4, <2>7 DEF ShellInv
<1>4. QED
  BY <1>2, <1>3

\* A line that fits leaves room for its terminator.
LEMMA CFlagsKept ==
  ASSUME LineFits, ShellInv, CFlags, Shell!Next \/ UNCHANGED shell
  PROVE  CFlags'
<1>1. Len(ccmd_buffer) \in Nat /\ Len(ccmd_buffer) < SHELL_MAX_LINE_LEN
  BY CLimits DEF ShellInv, CTypes, LineInv, LineFits
<1>2. (Len(ccmd_buffer) >= SHELL_MAX_LINE_LEN) <=> FALSE
  BY <1>1, CLimits
<1>3. CASE Shell!Type \/ Shell!Read \/ Shell!Ask \/ UNCHANGED shell
  BY <1>3 DEF CFlags, Shell!Type, Shell!Read, Shell!Ask, Shell!shell, shell
<1>4. CASE Shell!HandleSetup \/ Shell!cdc_handle_rx \/ Shell!Rearm \/ Shell!cdc_print_string \/ Shell!Printed
  BY <1>4 DEF CFlags, Shell!HandleSetup, Shell!cdc_handle_rx, Shell!Rearm, Shell!cdc_print_string,
     Shell!Printed, Shell!shell, Shell!host
<1>5. CASE Shell!shell_handle_rx
  BY <1>2, <1>5 DEF CFlags, Shell!shell_handle_rx, Shell!Erase, Shell!Echo, Shell!EndLine, Shell!DropLine,
     Shell!shell, Shell!host
<1>6. QED
  BY <1>3, <1>4, <1>5 DEF Shell!Next, Shell!Cpu

LEMMA NextShell == ASSUME LineFits, ShellInv, Shell!Next \/ UNCHANGED shell PROVE ShellInv'
<1>1. CASE Shell!Type
  BY <1>1, CType
<1>2. CASE Shell!Read
  BY <1>2, CRead
<1>3. CASE Shell!Ask \/ Shell!HandleSetup \/ UNCHANGED shell
  BY <1>3, CAsk
<1>4. CASE Shell!cdc_handle_rx
  BY <1>4, CHandleRx
<1>5. CASE Shell!Rearm
  BY <1>5, CRearm
<1>6. CASE Shell!cdc_print_string
  BY <1>6, CPrint
<1>7. CASE Shell!shell_handle_rx
  BY <1>7, CHandleByte
<1>8. CASE Shell!Printed
  BY <1>8, CPrinted
<1>9. QED
  BY <1>1, <1>2, <1>3, <1>4, <1>5, <1>6, <1>7, <1>8 DEF Shell!Next, Shell!Cpu

LEMMA ShellTypes == ASSUME LineFits, ShellInv, CFlags PROVE Shell!TypeOK /\ Shell!EchoIsLine
<1>1. Shell!EchoIsLine
  BY DEF ShellInv, EchoInv, CTypes, OnScreen, Shell!EchoIsLine
<1>2. Len(ccmd_buffer) <= SHELL_MAX_LINE_LEN
  BY CLimits DEF LineFits, ShellInv, CTypes, LineInv
<1>3. CText = Keys \ {"BS", "CR"}
  BY DEF CText
<1>4. casked \in BOOLEAN
  BY DEF CFlags
<1>5. Shell!TypeOK
  BY <1>2, <1>3, <1>4 DEF ShellInv, CTypes, Shell!TypeOK, Shell!EP2_BUFFERS
<1>6. QED
  BY <1>1, <1>5

-----------------------------------------------------------------------------
(***************************************************************************)
(* SlaveFifo.                                                              *)
(***************************************************************************)

STypes ==
    /\ ssent \in 0 .. SlaveSent /\ sep2 \in Seq(Seq(Nat)) /\ Len(sep2) <= 2
    /\ sled \in {0, 1} /\ sresets \in 0 .. Resets
    /\ sedges \in 0 .. 3 /\ smem \in Seq(Nat) /\ swptr \in Nat /\ srptr \in Nat
    /\ swsync \in [1 .. DELAY -> Nat] /\ srsync \in [1 .. DELAY -> Nat]
    /\ sq \in Nat /\ sr \in Nat /\ sshown \in Nat

SFlags == stested \in BOOLEAN /\ sclear \in BOOLEAN /\ srdreq \in BOOLEAN

\* The write pointer as it was seen k stages ago.
W(k) == IF k = 0 THEN swptr ELSE swsync[k]

\* Two writes are two edges of the 100 MHz clock apart or more, at every stage.
WriteInv ==
    /\ \A k \in 1 .. DELAY : W(k) <= W(k - 1) /\ swsync[k] <= swptr
    /\ \A k \in 1 .. DELAY : swptr = swsync[k] \/ 2 * (swptr - swsync[k]) <= k + 1 - sedges
    /\ \A k \in 0 .. DELAY - 2 : W(k) - W(k + 2) <= 1

\* So the reader, which sees at most one byte at a time, has taken it before
\* it sees the next.
ReadInv ==
    /\ srptr <= swsync[DELAY] /\ swsync[DELAY] <= srptr + 1
    /\ swsync[DELAY] # srptr /\ ~srdreq =>
         W(DELAY - 1) = swsync[DELAY] /\ (DELAY = 1 => sedges <= 1)
    /\ sclear => swptr = 0 /\ srptr = 0 /\ \A k \in 1 .. DELAY : swsync[k] = 0
    /\ Len(smem) = swptr - srptr

\* And what the writer sees of the read pointer is not far behind.
BackInv ==
    \A k \in 1 .. DELAY :
        srsync[k] <= srptr /\ 2 * (swptr - srsync[k]) <= DELAY + 1 + 2 * k

\* The bytes that EP2 has given up.
Given == IF sep2 = <<>> THEN ssent ELSE sep2[1][1] - 1

\* Consecutive bytes, from the first of them on; packets of them, up to last.
Run(p) == p # <<>> /\ p[1] >= 1 /\ \A k \in 1 .. Len(p) : p[k] = p[1] + k - 1

RunsTo(packets, last) ==
    \A j \in 1 .. Len(packets) :
        /\ Run(packets[j])
        /\ packets[j][1] + Len(packets[j]) =
             IF j < Len(packets) THEN packets[j + 1][1] ELSE last + 1

\* EP2 holds what is left of the host's stream, the FIFO what comes before it.
SStreamInv ==
    /\ RunsTo(sep2, ssent)
    /\ Given \in 0 .. ssent
    /\ \A k \in 1 .. Len(smem) : smem[k] = Given - Len(smem) + k

\* The bytes that the FIFO has given up.
Out == Given - Len(smem)

\* All of them have been shown or destroyed, but for the one in q.
SShownInv ==
    /\ Out >= 0 /\ sq <= Out /\ sshown <= Out /\ sr <= sshown
    /\ sq = 0 \/ sq >= sshown
    /\ (sshown + 1 .. Out) \ {sq} \subseteq sdropped
    /\ sdropped \subseteq 1 .. Given

SlaveInv == STypes /\ WriteInv /\ ReadInv /\ BackInv /\ SStreamInv /\ SShownInv

\* What the depth is to be for the delay.
DepthFits == 2 * DEPTH > 3 * DELAY + 1

-----------------------------------------------------------------------------
LEMMA SConstants ==
  /\ DEPTH \in Nat /\ DEPTH >= 1 /\ DELAY \in Nat /\ DELAY >= 1
  /\ MaxLen \in Nat /\ SlaveSent \in Nat /\ Resets \in Nat
  BY StreamsAssumption DEF Slave!SlaveFifoAssumption

LEMMA SShift ==
  ASSUME NEW pipe \in [1 .. DELAY -> Nat], NEW v \in Nat
  PROVE  /\ Slave!Shift(pipe, v) \in [1 .. DELAY -> Nat]
         /\ Slave!Shift(pipe, v)[1] = v
         /\ \A k \in 2 .. DELAY : Slave!Shift(pipe, v)[k] = pipe[k - 1]
<1>1. pipe \in Seq(Nat) /\ Len(pipe) = DELAY
  BY SConstants
<1>2. Slave!Front(pipe) \in Seq(Nat) /\ Len(Slave!Front(pipe)) = DELAY - 1
      /\ \A k \in 1 .. DELAY - 1 : Slave!Front(pipe)[k] = pipe[k]
  BY <1>1, SConstants DEF Slave!Front
<1>3. Slave!Shift(pipe, v) \in Seq(Nat) /\ Len(Slave!Shift(pipe, v)) = DELAY
  BY <1>2, SConstants DEF Slave!Shift
<1>4. /\ Slave!Shift(pipe, v)[1] = v
      /\ \A k \in 2 .. DELAY : Slave!Shift(pipe, v)[k] = pipe[k - 1]
  BY <1>2, SConstants DEF Slave!Shift
<1>5. QED
  BY <1>3, <1>4, SConstants

LEMMA SNone == /\ Slave!None \in [1 .. DELAY -> Nat]
               /\ \A k \in 1 .. DELAY : Slave!None[k] = 0
  BY DEF Slave!None

LEMMA Small ==
  ASSUME NEW n \in Nat
  PROVE  /\ n # 0 => n >= 1
         /\ n >= 1 /\ n # 1 => n >= 2
         /\ n >= 1 /\ n <= 2 => n = 1 \/ n = 2
         /\ n < 2 => n = 0 \/ n = 1
         /\ n >= 1 => n \in 1 .. n /\ 1 \in 1 .. n
  OBVIOUS

LEMMA AtMostTwo == ASSUME NEW n, n = 1 \/ n = 2 PROVE n <= 2
  OBVIOUS

LEMMA SameSum ==
  ASSUME NEW a \in Nat, NEW b \in Nat, NEW c, NEW d, c = a + 1, d = b - 1
  PROVE  c + d = a + b
  OBVIOUS

LEMMA Within ==
  ASSUME NEW a \in Nat, NEW b \in Nat, NEW c \in Nat, a <= b, NEW d \in Nat, d = c \/ d = c + 1,
         NEW x \in b + 1 .. d, d = c + 1 => x # d
  PROVE  x \in a + 1 .. c /\ x > b
  OBVIOUS

LEMMA HeadIs ==
  ASSUME NEW S, NEW s \in Seq(S), s # <<>>
  PROVE  Head(s) = s[1] /\ s[1] \in S /\ Len(s) \in Nat /\ Len(s) >= 1 /\ 1 \in 1 .. Len(s)
<1>1. Len(s) \in Nat /\ Len(s) >= 1
  BY NotEmpty, Small
<1>2. 1 \in 1 .. Len(s)
  BY <1>1
<1>3. QED
  BY <1>1, <1>2, ElementOfSeq, HeadTailProperties

LEMMA TailIs ==
  ASSUME NEW S, NEW s \in Seq(S), s # <<>>
  PROVE  /\ Tail(s) \in Seq(S) /\ Len(Tail(s)) = Len(s) - 1
         /\ \A k \in 1 .. Len(s) - 1 : Tail(s)[k] = s[k + 1]
  BY HeadTailProperties

\* What the packets are, for as many as there can be.
LEMMA RunsCases ==
  ASSUME NEW s \in Seq(Seq(Nat)), NEW last
  PROVE  /\ Len(s) = 0 => RunsTo(s, last)
         /\ Len(s) = 1 => (RunsTo(s, last) <=> Run(s[1]) /\ s[1][1] + Len(s[1]) = last + 1)
         /\ Len(s) = 2 => (RunsTo(s, last) <=> /\ Run(s[1]) /\ s[1][1] + Len(s[1]) = s[2][1]
                                             /\ Run(s[2]) /\ s[2][1] + Len(s[2]) = last + 1)
<1>1. CASE Len(s) = 0
  BY <1>1 DEF RunsTo
<1>2. CASE Len(s) = 1
  <2>1. \A j \in 1 .. Len(s) : j = 1 /\ ~(j < Len(s))
    BY <1>2
  <2>2. 1 \in 1 .. Len(s)
    BY <1>2
  <2>3. QED
    BY <1>2, <2>1, <2>2 DEF RunsTo
<1>3. CASE Len(s) = 2
  <2>1. \A j \in 1 .. Len(s) : j = 1 \/ j = 2
    BY <1>3
  <2>2. /\ 1 \in 1 .. Len(s) /\ 2 \in 1 .. Len(s) /\ 1 < Len(s) /\ ~(2 < Len(s)) /\ 1 + 1 = 2
    BY <1>3
  <2>3. QED
    BY <1>3, <2>1, <2>2 DEF RunsTo
<1>4. QED
  BY <1>1, <1>2, <1>3

LEMMA RunTail ==
  ASSUME NEW p \in Seq(Nat), Run(p)
  PROVE  /\ Len(p) \in Nat /\ Len(p) >= 1 /\ p[1] \in Nat /\ p[1] >= 1 /\ Head(p) = p[1]
         /\ Len(p) # 1 => Run(Tail(p)) /\ Tail(p)[1] = p[1] + 1
         /\ Tail(p) \in Seq(Nat) /\ Len(Tail(p)) = Len(p) - 1
<1> DEFINE t == Tail(p)
<1>1. p # <<>> /\ p[1] >= 1 /\ \A k \in 1 .. Len(p) : p[k] = p[1] + k - 1
  BY DEF Run
<1>2. Len(p) \in Nat /\ Len(p) >= 1 /\ p[1] \in Nat /\ p[1] >= 1 /\ Head(p) = p[1]
  BY <1>1, HeadIs
<1>3. /\ t \in Seq(Nat) /\ Len(t) = Len(p) - 1
      /\ \A k \in 1 .. Len(p) - 1 : t[k] = p[k + 1]
  BY <1>1, TailIs
<1> HIDE DEF t
<1>4. ASSUME Len(p) # 1 PROVE Run(t) /\ t[1] = p[1] + 1
  <2>1. t # <<>>
    BY <1>2, <1>3, <1>4, NotEmpty
  <2>2. ASSUME NEW k \in 1 .. Len(p) - 1 PROVE t[k] = p[1] + k
    <3>1. k + 1 \in 1 .. Len(p) /\ t[k] = p[k + 1]
      BY <1>2, <1>3
    <3>2. p[k + 1] = p[1] + (k + 1) - 1
      BY <1>1, <3>1
    <3>3. QED
      BY <1>2, <3>1, <3>2
  <2>3. t[1] = p[1] + 1
    <3>1. 1 \in 1 .. Len(p) - 1
      <4>1. Len(p) >= 2
        BY <1>2, <1>4, Small
      <4>2. QED
        BY <1>2, <4>1
    <3>2. QED
      BY <2>2, <3>1
  <2>4. ASSUME NEW k \in 1 .. Len(t) PROVE t[k] = t[1] + k - 1
    <3>1. k \in 1 .. Len(p) - 1 /\ k \in Int
      BY <1>3
    <3>2. t[k] = p[1] + k
      BY <2>2, <3>1
    <3>3. QED
      BY <1>2, <2>3, <3>1, <3>2
  <2>5. t[1] >= 1
    BY <1>2, <2>3
  <2>6. QED
    BY <2>1, <2>3, <2>4, <2>5 DEF Run
<1>5. QED
  BY <1>2, <1>3, <1>4 DEF t

LEMMA InitSlave == ASSUME Slave!Init PROVE SlaveInv
<1> USE SConstants, SNone
<1>1. STypes
  BY DEF Slave!Init, STypes
<1>2. WriteInv /\ ReadInv /\ BackInv
  BY DEF Slave!Init, WriteInv, ReadInv, BackInv, W
<1>3. SStreamInv /\ SShownInv
  <2>1. /\ ssent = 0 /\ sep2 = <<>> /\ smem = <<>> /\ sq = 0 /\ sr = 0 /\ sshown = 0 /\ sdropped = {}
        /\ Len(sep2) = 0 /\ Len(smem) = 0
    BY DEF Slave!Init
  <2>0. Given = 0
    BY <2>1 DEF Given
  <2>2. Given = 0 /\ Out = 0
    <3>1. Out = 0 - 0
      BY <2>0, <2>1 DEF Out
    <3>2. QED
      BY <2>0, <3>1
  <2>3. RunsTo(sep2, ssent)
    BY <2>1 DEF RunsTo
  <2>4. QED
    BY <2>1, <2>2, <2>3 DEF SStreamInv, SShownInv
<1>4. QED
  BY <1>1, <1>2, <1>3 DEF SlaveInv

LEMMA SHostSend == ASSUME SlaveInv, Slave!HostSend PROVE SlaveInv'
<1>1. PICK n \in 1 .. MaxLen :
        /\ ssent + n <= SlaveSent
        /\ sep2' = Append(sep2, [k \in 1 .. n |-> ssent + k]) /\ ssent' = ssent + n
  BY DEF Slave!HostSend
<1>2. /\ Len(sep2) < 2
      /\ UNCHANGED <<sled, sclear, sresets, sedges, smem, sq, swptr, srptr, swsync, srsync,
                     srdreq, sr, sshown, sdropped>>
  BY DEF Slave!HostSend, Slave!EP2_BUFFERS, Slave!firmware, Slave!bridge, Slave!capture
<1> DEFINE p == [k \in 1 .. n |-> ssent + k]
<1>3. n \in Nat /\ n >= 1 /\ ssent \in Nat /\ sep2 \in Seq(Seq(Nat))
  BY SConstants DEF SlaveInv, STypes
<1>4. p \in Seq(Nat) /\ Len(p) = n /\ p # <<>> /\ \A k \in 1 .. n : p[k] = ssent + k
  BY <1>3
<1> HIDE DEF p
<1>5. STypes'
  BY <1>1, <1>2, <1>3, <1>4, SConstants DEF SlaveInv, STypes, p
<1>6. WriteInv' /\ ReadInv' /\ BackInv'
  BY <1>2 DEF SlaveInv, WriteInv, ReadInv, BackInv, W
<1>7. /\ Len(sep2') = Len(sep2) + 1 /\ sep2'[Len(sep2) + 1] = p
      /\ \A j \in 1 .. Len(sep2) : sep2'[j] = sep2[j]
      /\ sep2' # <<>>
  BY <1>1, <1>3, <1>4 DEF p
<1>8. Given' = Given
  <2>1. CASE sep2 = <<>>
    BY <1>3, <1>4, <1>7, <2>1 DEF Given
  <2>2. CASE sep2 # <<>>
    <3>1. 1 \in 1 .. Len(sep2)
      BY <1>3, <2>2, HeadIs
    <3>2. sep2'[1] = sep2[1]
      BY <1>7, <3>1
    <3>3. QED
      BY <1>7, <2>2, <3>2 DEF Given
  <2>3. QED
    BY <2>1, <2>2
<1>9. SStreamInv'
  <2>1. RunsTo(sep2', ssent')
    <3>1. 1 \in 1 .. n
      BY <1>3
    <3>2. p[1] = ssent + 1
      BY <1>4, <3>1
    <3>3. p[1] + Len(p) = ssent' + 1 /\ p[1] >= 1
      BY <1>1, <1>3, <1>4, <3>2
    <3>4. \A k \in 1 .. Len(p) : p[k] = p[1] + k - 1
      BY <1>3, <1>4, <3>2
    <3>5. Run(p)
      BY <1>4, <3>3, <3>4 DEF Run
    <3>6. sep2' \in Seq(Seq(Nat))
      BY <1>5 DEF STypes
    <3>7. CASE Len(sep2) = 0
      <4>1. Len(sep2') = 1 /\ sep2'[1] = p
        BY <1>7, <3>7
      <4>2. QED
        BY <3>3, <3>5, <3>6, <4>1, RunsCases
    <3>8. CASE Len(sep2) = 1
      <4>1. Len(sep2') = 2 /\ sep2'[2] = p /\ sep2'[1] = sep2[1]
        BY <1>7, <3>8
      <4>2. Run(sep2[1]) /\ sep2[1][1] + Len(sep2[1]) = ssent + 1
        BY <1>3, <3>8, RunsCases DEF SlaveInv, SStreamInv
      <4>3. QED
        BY <3>2, <3>3, <3>5, <3>6, <4>1, <4>2, RunsCases
    <3>9. QED
      <4>1. Len(sep2) \in Nat
        BY <1>3
      <4>2. QED
        BY <1>2, <3>7, <3>8, <4>1, OnlyOne
  <2>2. Given' \in 0 .. ssent'
    BY <1>1, <1>3, <1>8 DEF SlaveInv, SStreamInv
  <2>3. QED
    BY <1>2, <1>8, <2>1, <2>2 DEF SlaveInv, SStreamInv
<1>10. SShownInv'
  BY <1>2, <1>8 DEF SlaveInv, SShownInv, Out
<1>11. QED
  BY <1>5, <1>6, <1>9, <1>10 DEF SlaveInv

LEMMA SPressReset == ASSUME SlaveInv, Slave!PressReset PROVE SlaveInv'
<1>1. /\ ~sclear /\ sresets < Resets /\ sclear' = TRUE /\ sresets' = sresets + 1
      /\ sq' \in {sq, 0} /\ smem' = <<>> /\ swptr' = 0 /\ srptr' = 0
      /\ swsync' = Slave!None /\ srsync' = Slave!None
      /\ sdropped' = sdropped \cup {smem[k] : k \in DOMAIN smem} \cup ({sq} \ {0, sshown})
      /\ UNCHANGED <<ssent, sep2, sled, sedges, srdreq, sr, sshown>>
  BY DEF Slave!PressReset, Slave!firmware, Slave!capture
<1>2. STypes'
  BY <1>1, SConstants, SNone DEF SlaveInv, STypes
<1>3. WriteInv' /\ ReadInv' /\ BackInv'
  <2>1. /\ DELAY \in Nat /\ DELAY >= 1 /\ swptr' = 0 /\ srptr' = 0 /\ Len(smem') = 0
        /\ \A k \in 1 .. DELAY : swsync'[k] = 0 /\ srsync'[k] = 0
    BY <1>1, SConstants, SNone
  <2>2. \A k \in 0 .. DELAY : W(k)' = 0
    BY <2>1 DEF W
  <2>3. /\ \A k \in 1 .. DELAY : k \in 0 .. DELAY /\ k - 1 \in 0 .. DELAY
        /\ \A k \in 0 .. DELAY - 2 : k \in 0 .. DELAY /\ k + 2 \in 0 .. DELAY
        /\ DELAY \in 1 .. DELAY
    BY <2>1
  <2>4. WriteInv'
    BY <2>1, <2>2, <2>3 DEF WriteInv
  <2>5. ReadInv'
    BY <2>1, <2>3 DEF ReadInv
  <2>6. BackInv'
    <3>1. \A k \in 1 .. DELAY : 2 * (0 - 0) <= DELAY + 1 + 2 * k
      BY <2>1
    <3>2. QED
      BY <2>1, <3>1 DEF BackInv
  <2>7. QED
    BY <2>4, <2>5, <2>6
<1>4. Given' = Given /\ Given \in Nat /\ Len(smem) \in Nat /\ smem \in Seq(Nat)
  BY <1>1 DEF Given, SlaveInv, SStreamInv, STypes
<1>5. SStreamInv'
  BY <1>1, <1>4 DEF SlaveInv, SStreamInv
<1>6. Out' = Given
  BY <1>1, <1>4 DEF Out
<1>7. (sshown + 1 .. Given) \ {sq'} \subseteq sdropped'
  <2> SUFFICES ASSUME NEW x \in sshown + 1 .. Given PROVE x \in sdropped'
    OBVIOUS
  <2>0. sshown \in Nat /\ sq \in Nat
    BY DEF SlaveInv, STypes
  <2>1. CASE x = sq
    BY <1>1, <2>0, <2>1
  <2>2. CASE x # sq /\ x <= Out
    BY <1>1, <1>4, <2>2, <2>0 DEF SlaveInv, SShownInv, Out
  <2>3. CASE x > Out
    <3>1. x - Out \in 1 .. Len(smem) /\ smem[x - Out] = x
      BY <1>4, <2>0, <2>3 DEF SlaveInv, SStreamInv, Out, SShownInv
    <3>2. QED
      BY <1>1, <1>4, <3>1
  <2>4. QED
    BY <1>4, <2>0, <2>1, <2>2, <2>3 DEF Out
<1>8. sdropped' \subseteq 1 .. Given
  <2> SUFFICES ASSUME NEW x \in sdropped' PROVE x \in 1 .. Given
    OBVIOUS
  <2>1. CASE x \in sdropped
    BY <2>1 DEF SlaveInv, SShownInv
  <2>2. CASE \E k \in 1 .. Len(smem) : x = smem[k]
    BY <1>4, <2>2 DEF SlaveInv, SShownInv, SStreamInv, Out
  <2>3. CASE x = sq /\ sq # 0
    BY <1>4, <2>3 DEF SlaveInv, STypes, SShownInv, Out
  <2>4. QED
    BY <1>1, <1>4, <2>1, <2>2, <2>3
<1>9. SShownInv'
  <2>1. sq \in Nat /\ sshown \in Nat /\ sq <= Given /\ sshown <= Given
    BY <1>4 DEF SlaveInv, STypes, SShownInv, Out
  <2>2. QED
    BY <1>1, <1>4, <1>6, <1>7, <1>8, <2>1 DEF SlaveInv, SShownInv
<1>10. QED
  BY <1>2, <1>3, <1>5, <1>9 DEF SlaveInv

LEMMA SQuiet ==
  ASSUME SlaveInv, Slave!ReleaseReset \/ Slave!TestFlags \/ Slave!Led \/ UNCHANGED slave
  PROVE  SlaveInv'
<1>1. /\ sclear' => sclear
      /\ UNCHANGED <<ssent, sep2, sresets, sedges, smem, sq, swptr, srptr, swsync, srsync, srdreq,
                     sr, sshown, sdropped>>
  BY DEF Slave!ReleaseReset, Slave!TestFlags, Slave!Led, slave, Slave!firmware, Slave!bridge,
         Slave!capture
<1>2. sled' \in {0, 1}
  BY DEF Slave!ReleaseReset, Slave!TestFlags, Slave!Led, slave, Slave!firmware, SlaveInv, STypes
<1>3. STypes'
  BY <1>1, <1>2 DEF SlaveInv, STypes
<1>4. WriteInv' /\ ReadInv' /\ BackInv'
  BY <1>1, <1>2 DEF SlaveInv, STypes, WriteInv, ReadInv, BackInv, W
<1>5. SStreamInv' /\ SShownInv'
  BY <1>1 DEF SlaveInv, SStreamInv, SShownInv, Given, Out
<1>6. QED
  BY <1>3, <1>4, <1>5 DEF SlaveInv

\* The FIFO always has room for the byte that EP2 gives up.
LEMMA SNotFull ==
  ASSUME DepthFits, SlaveInv
  PROVE  swptr - srsync[DELAY] < DEPTH /\ swptr >= srptr /\ srptr >= srsync[DELAY]
<1>1. DELAY \in 1 .. DELAY /\ swptr \in Nat /\ srsync[DELAY] \in Nat /\ srptr \in Nat
  BY SConstants DEF SlaveInv, STypes
<1>2. 2 * (swptr - srsync[DELAY]) <= DELAY + 1 + 2 * DELAY /\ srsync[DELAY] <= srptr
  BY <1>1 DEF SlaveInv, BackInv
<1>3. swptr >= srptr
  BY <1>1 DEF SlaveInv, ReadInv, STypes
<1>4. QED
  BY <1>1, <1>2, <1>3, SConstants DEF DepthFits

\* The pointers after an edge of IFCLK at which n bytes are written.
LEMMA SWrite ==
  ASSUME SlaveInv, NEW n \in {0, 1}, sclear => n = 0, sedges >= 2, sedges' = 0,
         srsync' = Slave!Shift(srsync, srptr), swptr' = swptr + n,
         UNCHANGED <<srptr, swsync, srdreq, sclear>>
  PROVE  /\ srsync' \in [1 .. DELAY -> Nat]
         /\ WriteInv' /\ BackInv'
         /\ Len(smem') = Len(smem) + n => ReadInv'
<1>1. /\ swptr \in Nat /\ srptr \in Nat /\ sedges \in 2 .. 3
      /\ swsync \in [1 .. DELAY -> Nat] /\ srsync \in [1 .. DELAY -> Nat]
      /\ DELAY \in 1 .. DELAY
  BY SConstants DEF SlaveInv, STypes
<1>2. /\ srsync' \in [1 .. DELAY -> Nat] /\ srsync'[1] = srptr
      /\ \A k \in 2 .. DELAY : srsync'[k] = srsync[k - 1]
  BY <1>1, SShift
<1>8. ASSUME NEW k \in 1 .. DELAY PROVE swptr = swsync[k] \/ 2 * (swptr - swsync[k]) <= k - 1
  <2>1. swptr = swsync[k] \/ 2 * (swptr - swsync[k]) <= k + 1 - sedges
    BY DEF SlaveInv, WriteInv
  <2>2. k \in Int /\ k + 1 - sedges <= k - 1 /\ swsync[k] \in Nat
    BY <1>1
  <2>3. QED
    BY <1>1, <2>1, <2>2
<1>3. /\ swsync[1] = swptr
      /\ DELAY >= 2 => swsync[2] = swptr
      /\ 2 * (swptr - swsync[DELAY]) <= DELAY - 1 \/ swptr = swsync[DELAY]
  <2>1. ASSUME NEW k \in 1 .. DELAY PROVE swptr = swsync[k] \/ 2 * (swptr - swsync[k]) <= k - 1
    BY <1>8
  <2>2. ASSUME NEW k \in 1 .. DELAY PROVE swsync[k] <= W(k - 1)
    BY DEF SlaveInv, WriteInv, W
  <2>3. swsync[1] = swptr
    <3>1. 1 \in 1 .. DELAY /\ swsync[1] \in Nat
      BY <1>1, SConstants
    <3>2. QED
      BY <1>1, <2>1, <2>2, <3>1 DEF W
  <2>4. DELAY >= 2 => swsync[2] = swptr
    <3>1. SUFFICES ASSUME DELAY >= 2 PROVE swsync[2] = swptr
      OBVIOUS
    <3>2. 2 \in 1 .. DELAY /\ swsync[2] \in Nat
      BY <1>1, <3>1, SConstants
    <3>3. swptr = swsync[2] \/ 2 * (swptr - swsync[2]) <= 2 - 1
      BY <2>1, <3>2
    <3>4. swsync[2] <= swsync[1]
      BY <2>2, <3>2 DEF W
    <3>5. QED
      BY <1>1, <2>3, <3>2, <3>3, <3>4
  <2>5. QED
    BY <1>1, <2>1, <2>3, <2>4
<1>4. WriteInv'
  <2>1. ASSUME NEW k \in 1 .. DELAY PROVE (W(k) <= W(k - 1) /\ swsync[k] <= swptr)'
    <3>1. /\ k \in Nat /\ swsync[k] \in Nat /\ swsync[k] <= swptr /\ swptr <= swptr + n
          /\ W(k)' = swsync[k] /\ W(0)' = swptr + n
      BY <1>1 DEF SlaveInv, WriteInv, W
    <3>2. CASE k = 1
      BY <1>1, <3>1, <3>2
    <3>3. CASE k # 1
      <4>1. k - 1 # 0 /\ k # 0
        BY <3>1, <3>3
      <4>2. W(k - 1)' = swsync[k - 1] /\ W(k - 1) = swsync[k - 1] /\ W(k) = swsync[k]
        BY <1>1, <4>1 DEF W
      <4>3. W(k) <= W(k - 1)
        BY DEF SlaveInv, WriteInv
      <4>4. QED
        BY <1>1, <3>1, <4>2, <4>3
    <3>4. QED
      BY <3>2, <3>3
  <2>2. ASSUME NEW k \in 1 .. DELAY
        PROVE  swptr' = swsync'[k] \/ 2 * (swptr' - swsync'[k]) <= k + 1 - sedges'
    <3>1. swptr = swsync[k] \/ 2 * (swptr - swsync[k]) <= k - 1
      BY <1>8
    <3>2. swsync[k] \in Nat /\ k \in Nat /\ k >= 1
      BY <1>1
    <3>3. 2 * ((swptr + n) - swsync[k]) <= k + 1 - 0
      BY <1>1, <3>1, <3>2
    <3>4. QED
      BY <3>3
  <2>3. ASSUME NEW k \in 0 .. DELAY - 2 PROVE (W(k) - W(k + 2) <= 1)'
    BY <1>1, <1>3 DEF SlaveInv, WriteInv, W
  <2>4. QED
    BY <2>1, <2>2, <2>3 DEF WriteInv
<1>5. BackInv'
  <2> SUFFICES ASSUME NEW k \in 1 .. DELAY
               PROVE  srsync'[k] <= srptr /\ 2 * (swptr' - srsync'[k]) <= DELAY + 1 + 2 * k
    BY DEF BackInv
  <2>1. CASE k = 1
    <3>1. swsync[DELAY] <= srptr + 1 /\ srsync'[k] = srptr /\ swsync[DELAY] \in Nat
      BY <1>1, <1>2, <2>1 DEF SlaveInv, ReadInv
    <3>2. 2 * (swptr - swsync[DELAY]) <= DELAY - 1
      BY <1>1, <1>3
    <3>3. 2 * ((swptr + n) - srptr) <= DELAY + 1 + 2 * 1
      BY <1>1, <3>1, <3>2
    <3>4. QED
      BY <1>1, <2>1, <3>1, <3>3
  <2>2. CASE k # 1
    <3>1. k - 1 \in 1 .. DELAY /\ srsync'[k] = srsync[k - 1] /\ srsync[k - 1] \in Nat
      BY <1>1, <1>2, <2>2, SConstants
    <3>2. srsync[k - 1] <= srptr /\ 2 * (swptr - srsync[k - 1]) <= DELAY + 1 + 2 * (k - 1)
      BY <3>1 DEF SlaveInv, BackInv
    <3>3. k \in Int /\ 2 * (swptr - srsync[k - 1]) <= DELAY + 2 * k - 1
      BY <1>1, <3>1, <3>2
    <3>4. 2 * ((swptr + n) - srsync[k - 1]) <= DELAY + 1 + 2 * k
      BY <1>1, <3>1, <3>3
    <3>5. QED
      BY <3>1, <3>2, <3>4
  <2>3. QED
    BY <2>1, <2>2
<1>6. ASSUME Len(smem') = Len(smem) + n PROVE ReadInv'
  <2>1. /\ srptr' <= swsync'[DELAY] /\ swsync'[DELAY] <= srptr' + 1
        /\ Len(smem') = swptr' - srptr'
    BY <1>1, <1>6 DEF SlaveInv, ReadInv
  <2>2. swsync'[DELAY] # srptr' /\ ~srdreq' =>
          W(DELAY - 1)' = swsync'[DELAY] /\ (DELAY = 1 => sedges' <= 1)
    BY <1>1, <1>3, SConstants DEF SlaveInv, ReadInv, W
  <2>3. sclear' => swptr' = 0 /\ srptr' = 0 /\ \A k \in 1 .. DELAY : swsync'[k] = 0
    BY <1>1 DEF SlaveInv, ReadInv
  <2>4. QED
    BY <2>1, <2>2, <2>3 DEF ReadInv
<1>7. QED
  BY <1>2, <1>4, <1>5, <1>6

\* EP2 gives one byte up.
LEMMA STaken ==
  ASSUME SlaveInv, sep2 # <<>>, sep2' = Slave!Taken, ssent' = ssent
  PROVE  /\ Head(Head(sep2)) = Given + 1 /\ Given' = Given + 1 /\ Given' <= ssent
         /\ sep2' \in Seq(Seq(Nat)) /\ Len(sep2') <= 2 /\ RunsTo(sep2', ssent)
<1> DEFINE p == sep2[1]
<1> DEFINE t == Tail(p)
<1>1. /\ sep2 \in Seq(Seq(Nat)) /\ p \in Seq(Nat) /\ Head(sep2) = p
      /\ Len(sep2) = 1 \/ Len(sep2) = 2
  <2>1. sep2 \in Seq(Seq(Nat)) /\ Len(sep2) <= 2
    BY DEF SlaveInv, STypes
  <2>2. Head(sep2) = p /\ p \in Seq(Nat) /\ Len(sep2) \in Nat /\ Len(sep2) >= 1
    BY <2>1, HeadIs
  <2>3. Len(sep2) = 1 \/ Len(sep2) = 2
    BY <2>1, <2>2, Small
  <2>4. QED
    BY <2>1, <2>2, <2>3
<1>2. ssent \in Nat /\ RunsTo(sep2, ssent)
  BY SConstants DEF SlaveInv, STypes, SStreamInv
<1>3. Run(p) /\ p[1] + Len(p) = (IF Len(sep2) = 1 THEN ssent + 1 ELSE sep2[2][1])
  BY <1>1, <1>2, RunsCases
<1>4. Len(sep2) = 2 => sep2[2] \in Seq(Nat) /\ Run(sep2[2]) /\ sep2[2][1] + Len(sep2[2]) = ssent + 1
  <2>1. SUFFICES ASSUME Len(sep2) = 2
                 PROVE  sep2[2] \in Seq(Nat) /\ Run(sep2[2]) /\ sep2[2][1] + Len(sep2[2]) = ssent + 1
    OBVIOUS
  <2>2. 2 \in 1 .. Len(sep2)
    BY <2>1
  <2>3. sep2[2] \in Seq(Nat)
    BY <1>1, <2>2, ElementOfSeq
  <2>4. QED
    BY <1>1, <1>2, <2>1, <2>3, RunsCases
<1>5. /\ Len(p) \in Nat /\ Len(p) >= 1 /\ p[1] \in Nat /\ p[1] >= 1 /\ Head(p) = p[1]
      /\ Len(p) # 1 => Run(t) /\ t[1] = p[1] + 1
      /\ t \in Seq(Nat) /\ Len(t) = Len(p) - 1
  BY <1>1, <1>3, RunTail
<1> HIDE DEF t
<1>6. Given = p[1] - 1
  BY DEF Given
<1>7. Len(sep2) = 2 => sep2[2][1] \in Nat /\ sep2[2][1] <= ssent
  <2>1. SUFFICES ASSUME Len(sep2) = 2 PROVE sep2[2][1] \in Nat /\ sep2[2][1] <= ssent
    OBVIOUS
  <2>2. sep2[2][1] \in Nat /\ sep2[2][1] >= 1 /\ Len(sep2[2]) \in Nat /\ Len(sep2[2]) >= 1
    BY <1>4, <2>1, RunTail
  <2>3. sep2[2][1] + Len(sep2[2]) = ssent + 1
    BY <1>4, <2>1
  <2>4. QED
    BY <1>2, <2>2, <2>3
<1>8. p[1] <= ssent
  <2>1. CASE Len(sep2) = 1
    <3>1. p[1] + Len(p) = ssent + 1
      BY <1>3, <2>1
    <3>2. QED
      BY <1>2, <1>5, <3>1
  <2>2. CASE Len(sep2) = 2
    <3>1. p[1] + Len(p) = sep2[2][1]
      BY <1>3, <2>2
    <3>2. QED
      BY <1>2, <1>5, <1>7, <2>2, <3>1
  <2>3. QED
    BY <1>1, <2>1, <2>2
<1>9. Given' = Given + 1 /\ sep2' \in Seq(Seq(Nat)) /\ Len(sep2') <= 2 /\ RunsTo(sep2', ssent)
  <2>1. CASE Len(p) = 1 /\ Len(sep2) = 1
    <3>1. sep2' = <<>>
      BY <1>1, <2>1, TailOfOne DEF Slave!Taken
    <3>2. p[1] = ssent /\ Given' = ssent
      BY <1>2, <1>3, <1>5, <2>1, <3>1 DEF Given
    <3>3. sep2' \in Seq(Seq(Nat)) /\ Len(sep2') = 0
      BY <3>1
    <3>4. RunsTo(sep2', ssent)
      BY <3>3, RunsCases
    <3>5. QED
      BY <1>5, <1>6, <3>2, <3>3, <3>4
  <2>2. CASE Len(p) = 1 /\ Len(sep2) = 2
    <3>1. sep2' = Tail(sep2) /\ sep2 # <<>>
      BY <1>1, <2>2 DEF Slave!Taken
    <3>2. sep2' \in Seq(Seq(Nat)) /\ Len(sep2') = 1 /\ sep2'[1] = sep2[2]
      <4>1. sep2' \in Seq(Seq(Nat)) /\ Len(sep2') = Len(sep2) - 1
            /\ \A k \in 1 .. Len(sep2) - 1 : sep2'[k] = sep2[k + 1]
        BY <1>1, <3>1, TailIs
      <4>2. 1 \in 1 .. Len(sep2) - 1 /\ Len(sep2) - 1 = 1 /\ 1 + 1 = 2
        BY <2>2
      <4>3. QED
        BY <4>1, <4>2
    <3>3. sep2' # <<>>
      BY <3>2, NotEmpty
    <3>4. Given' = sep2[2][1] - 1 /\ sep2[2][1] = p[1] + 1
      BY <1>3, <2>2, <3>2, <3>3 DEF Given
    <3>5. RunsTo(sep2', ssent)
      BY <1>4, <2>2, <3>2, RunsCases
    <3>6. QED
      BY <1>5, <1>6, <3>2, <3>4, <3>5
  <2>3. CASE Len(p) # 1
    <3>1. sep2' = [sep2 EXCEPT ![1] = t]
      BY <1>1, <2>3 DEF Slave!Taken, t
    <3>2. /\ sep2' \in Seq(Seq(Nat)) /\ Len(sep2') = Len(sep2) /\ sep2'[1] = t
          /\ Len(sep2) = 2 => sep2'[2] = sep2[2]
      <4>1. 1 \in 1 .. Len(sep2) /\ (Len(sep2) = 2 => 2 \in 1 .. Len(sep2))
        <5>1. CASE Len(sep2) = 1
          BY <5>1
        <5>2. CASE Len(sep2) = 2
          BY <5>2
        <5>3. QED
          BY <1>1, <5>1, <5>2
      <4>2. sep2' \in Seq(Seq(Nat)) /\ Len(sep2') = Len(sep2) /\ sep2'[1] = t
            /\ \A k \in 1 .. Len(sep2) : k # 1 => sep2'[k] = sep2[k]
        BY <1>1, <1>5, <3>1, <4>1, ExceptSeq
      <4>3. QED
        BY <4>1, <4>2
    <3>3. sep2' # <<>> /\ Given' = Given + 1
      <4>1. Len(sep2') # 0
        BY <1>1, <3>2
      <4>2. sep2' # <<>>
        BY <3>2, <4>1, NotEmpty
      <4>3. Given' = t[1] - 1
        BY <3>2, <4>2 DEF Given
      <4>4. QED
        BY <1>5, <1>6, <2>3, <4>2, <4>3
    <3>4. t[1] + Len(t) = p[1] + Len(p)
      <4>1. t[1] = p[1] + 1 /\ Len(t) = Len(p) - 1 /\ p[1] \in Nat /\ Len(p) \in Nat
        BY <1>5, <2>3
      <4>2. QED
        BY <4>1, SameSum
    <3>5. RunsTo(sep2', ssent)
      <4>1. Run(t)
        BY <1>5, <2>3
      <4>2. CASE Len(sep2) = 1
        BY <1>3, <3>2, <3>4, <4>1, <4>2, RunsCases
      <4>3. CASE Len(sep2) = 2
        BY <1>3, <1>4, <3>2, <3>4, <4>1, <4>3, RunsCases
      <4>4. QED
        BY <1>1, <4>2, <4>3
    <3>6. Len(sep2') <= 2
      <4>1. Len(sep2') = 1 \/ Len(sep2') = 2
        BY <1>1, <3>2
      <4>2. QED
        BY <4>1, AtMostTwo
    <3>7. QED
      BY <3>2, <3>3, <3>5, <3>6
  <2>4. QED
    BY <1>1, <2>1, <2>2, <2>3
<1>10. QED
  BY <1>1, <1>5, <1>6, <1>8, <1>9

LEMMA SWrEdge == ASSUME DepthFits, SlaveInv, Slave!WrEdge PROVE SlaveInv'
<1>1. /\ sedges >= 2 /\ sedges' = 0 /\ srsync' = Slave!Shift(srsync, srptr)
      /\ UNCHANGED <<ssent, sled, sclear, sresets, sq, srptr, swsync, srdreq, sr, sshown>>
  BY DEF Slave!WrEdge, Slave!firmware, Slave!capture
<1>2. CASE sep2 = <<>>
  <2>1. UNCHANGED <<sep2, smem, swptr, sdropped>>
    BY <1>2 DEF Slave!WrEdge
  <2>2. srsync' \in [1 .. DELAY -> Nat] /\ WriteInv' /\ BackInv' /\ ReadInv'
    <3>1. swptr' = swptr + 0 /\ Len(smem') = Len(smem) + 0
      BY <2>1 DEF SlaveInv, STypes
    <3>2. QED
      BY <1>1, <3>1, SWrite
  <2>3. STypes' /\ SStreamInv' /\ SShownInv'
    BY <1>1, <2>1, <2>2 DEF SlaveInv, STypes, SStreamInv, SShownInv, Given, Out
  <2>4. QED
    BY <2>2, <2>3 DEF SlaveInv
<1>3. CASE sep2 # <<>>
  <2>1. ~(swptr - srsync[DELAY] >= DEPTH)
    BY SNotFull, SConstants DEF SlaveInv, STypes
  <2>2. /\ sep2' = Slave!Taken
        /\ smem' = IF sclear THEN smem ELSE Append(smem, Head(Head(sep2)))
        /\ swptr' = IF sclear THEN swptr ELSE swptr + 1
        /\ sdropped' = IF sclear THEN sdropped \cup {Head(Head(sep2))} ELSE sdropped
    BY <1>3, <2>1 DEF Slave!WrEdge
  <2>3. /\ Head(Head(sep2)) = Given + 1 /\ Given' = Given + 1 /\ Given' <= ssent
        /\ sep2' \in Seq(Seq(Nat)) /\ Len(sep2') <= 2 /\ RunsTo(sep2', ssent)
    BY <1>1, <1>3, <2>2, STaken
  <2>4. Given \in Nat /\ smem \in Seq(Nat) /\ ssent \in Nat /\ swptr \in Nat
    BY DEF SlaveInv, STypes, SStreamInv
  <2>5. CASE sclear
    <3>1. swptr' = swptr + 0 /\ Len(smem') = Len(smem) + 0 /\ smem' = smem
      BY <2>2, <2>4, <2>5
    <3>2. srsync' \in [1 .. DELAY -> Nat] /\ WriteInv' /\ BackInv' /\ ReadInv'
      BY <1>1, <3>1, SWrite
    <3>3. STypes'
      BY <1>1, <2>3, <2>4, <3>1, <3>2 DEF SlaveInv, STypes
    <3>4. Len(smem) = 0
      BY <2>5 DEF SlaveInv, ReadInv
    <3>5. SStreamInv'
      BY <1>1, <2>3, <2>4, <3>1, <3>4 DEF SStreamInv
    <3>6. SShownInv'
      <4>1. sdropped' = sdropped \cup {Given + 1} /\ Out' = Out + 1 /\ Out = Given
        BY <2>2, <2>3, <2>4, <2>5, <3>1, <3>4 DEF Out
      <4>2. sq \in Nat /\ sshown \in Nat
        BY DEF SlaveInv, STypes
      <4>3. QED
        BY <1>1, <2>3, <2>4, <4>1, <4>2 DEF SlaveInv, SShownInv
    <3>7. QED
      BY <3>2, <3>3, <3>5, <3>6 DEF SlaveInv
  <2>6. CASE ~sclear
    <3>1. swptr' = swptr + 1 /\ smem' = Append(smem, Given + 1) /\ sdropped' = sdropped
      BY <2>2, <2>3, <2>6
    <3>2. Len(smem') = Len(smem) + 1 /\ smem' \in Seq(Nat)
      BY <2>4, <3>1
    <3>3. srsync' \in [1 .. DELAY -> Nat] /\ WriteInv' /\ BackInv' /\ ReadInv'
      BY <1>1, <2>6, <3>1, <3>2, SWrite
    <3>4. STypes'
      BY <1>1, <2>3, <2>4, <3>1, <3>2, <3>3 DEF SlaveInv, STypes
    <3>5. ASSUME NEW k \in 1 .. Len(smem') PROVE smem'[k] = Given' - Len(smem') + k
      <4>1. CASE k = Len(smem) + 1
        BY <2>3, <2>4, <3>1, <3>2, <4>1
      <4>2. CASE k # Len(smem) + 1
        <5>1. k \in 1 .. Len(smem) /\ smem'[k] = smem[k]
          BY <2>4, <3>1, <3>2, <4>2
        <5>2. smem[k] = Given - Len(smem) + k
          BY <5>1 DEF SlaveInv, SStreamInv
        <5>3. QED
          BY <2>3, <2>4, <3>2, <5>1, <5>2
      <4>3. QED
        BY <4>1, <4>2
    <3>6. SStreamInv'
      BY <1>1, <2>3, <2>4, <3>5 DEF SStreamInv
    <3>7. Out' = Out
      BY <2>3, <2>4, <3>2 DEF Out
    <3>8. SShownInv'
      BY <1>1, <2>3, <2>4, <3>1, <3>7 DEF SlaveInv, SShownInv
    <3>9. QED
      BY <3>3, <3>4, <3>6, <3>8 DEF SlaveInv
  <2>7. QED
    BY <2>4, <2>5, <2>6
<1>4. QED
  BY <1>2, <1>3

\* The pointers after an edge of the 100 MHz clock at which n bytes are read.
LEMMA SReadStep ==
  ASSUME SlaveInv, NEW n \in {0, 1}, sedges < 3, sedges' = sedges + 1,
         swsync' = Slave!Shift(swsync, swptr), srptr' = srptr + n,
         n = IF srdreq /\ swsync[DELAY] # srptr THEN 1 ELSE 0,
         (srdreq' <=> ~sclear /\ swsync[DELAY] # srptr),
         Len(smem') = Len(smem) - n, UNCHANGED <<sclear, swptr, srsync>>
  PROVE  swsync' \in [1 .. DELAY -> Nat] /\ WriteInv' /\ BackInv' /\ ReadInv'
<1>1. /\ swptr \in Nat /\ srptr \in Nat /\ sedges \in 0 .. 2
      /\ swsync \in [1 .. DELAY -> Nat] /\ srsync \in [1 .. DELAY -> Nat]
      /\ DELAY \in 1 .. DELAY /\ DELAY \in Nat /\ DELAY >= 1 /\ 1 \in 1 .. DELAY
  BY SConstants DEF SlaveInv, STypes
<1>2. /\ swsync' \in [1 .. DELAY -> Nat] /\ swsync'[1] = swptr
      /\ \A k \in 2 .. DELAY : swsync'[k] = swsync[k - 1]
  BY <1>1, SShift
<1>3. ASSUME NEW k \in 1 .. DELAY PROVE swsync'[k] = W(k - 1) /\ W(k - 1) \in Nat /\ W(k)' = W(k - 1)
  BY <1>1, <1>2 DEF W
<1>4. W(0)' = W(0) /\ W(0) = swptr
  BY DEF W
<1>5. \A k \in 1 .. DELAY : W(k) <= W(k - 1) /\ W(k) \in Nat
  BY <1>1 DEF SlaveInv, WriteInv, W
<1>6. \A k \in 0 .. DELAY - 2 : W(k) - W(k + 2) <= 1
  BY DEF SlaveInv, WriteInv
<1>7. \A k \in 1 .. DELAY : swptr = swsync[k] \/ 2 * (swptr - swsync[k]) <= k + 1 - sedges
  BY DEF SlaveInv, WriteInv
<1>8. W(0) - W(1) <= 1
  <2>1. swptr = swsync[1] \/ 2 * (swptr - swsync[1]) <= 1 + 1 - sedges
    BY <1>1, <1>7
  <2>2. QED
    BY <1>1, <2>1 DEF W
<1>9. WriteInv'
  <2>1. ASSUME NEW k \in 1 .. DELAY PROVE (W(k) <= W(k - 1) /\ swsync[k] <= swptr)'
    <3>1. CASE k = 1
      BY <1>1, <1>3, <1>4, <3>1
    <3>2. CASE k # 1
      <4>1. k - 1 \in 1 .. DELAY
        BY <1>1, <3>2
      <4>2. W(k)' = W(k - 1) /\ W(k - 1)' = W((k - 1) - 1)
        BY <1>3, <4>1
      <4>3. W(k - 1) <= W((k - 1) - 1) /\ swsync[k - 1] <= swptr
        BY <1>5, <4>1 DEF SlaveInv, WriteInv
      <4>4. swsync'[k] = swsync[k - 1]
        BY <1>1, <1>2, <3>2
      <4>5. QED
        BY <4>2, <4>3, <4>4
    <3>3. QED
      BY <3>1, <3>2
  <2>2. ASSUME NEW k \in 1 .. DELAY
        PROVE  swptr' = swsync'[k] \/ 2 * (swptr' - swsync'[k]) <= k + 1 - sedges'
    <3>1. CASE k = 1
      BY <1>2, <3>1
    <3>2. CASE k # 1
      <4>1. k - 1 \in 1 .. DELAY /\ swsync'[k] = swsync[k - 1]
        BY <1>1, <1>2, <3>2
      <4>2. swptr = swsync[k - 1] \/ 2 * (swptr - swsync[k - 1]) <= (k - 1) + 1 - sedges
        BY <1>7, <4>1
      <4>3. swsync[k - 1] \in Nat /\ k \in Int /\ (k - 1) + 1 - sedges = k + 1 - sedges'
        BY <1>1, <4>1
      <4>4. QED
        BY <4>1, <4>2, <4>3
    <3>3. QED
      BY <3>1, <3>2
  <2>3. ASSUME NEW k \in 0 .. DELAY - 2 PROVE (W(k) - W(k + 2) <= 1)'
    <3>1. k + 2 \in 1 .. DELAY /\ W(k + 2)' = W(k + 1)
      <4>1. k + 2 \in 1 .. DELAY /\ (k + 2) - 1 = k + 1
        BY <1>1
      <4>2. QED
        BY <1>3, <4>1
    <3>2. CASE k = 0
      BY <1>4, <1>8, <3>1, <3>2
    <3>3. CASE k # 0
      <4>1. k \in 1 .. DELAY /\ k - 1 \in 0 .. DELAY - 2 /\ (k - 1) + 2 = k + 1
        BY <1>1, <3>3
      <4>2. W(k)' = W(k - 1)
        BY <1>3, <4>1
      <4>3. W(k - 1) - W(k + 1) <= 1
        BY <1>6, <4>1
      <4>4. QED
        BY <3>1, <4>2, <4>3
    <3>4. QED
      BY <3>2, <3>3
  <2>4. QED
    BY <2>1, <2>2, <2>3 DEF WriteInv
<1>10. BackInv'
  <2> SUFFICES ASSUME NEW k \in 1 .. DELAY
               PROVE  srsync[k] <= srptr + n /\ 2 * (swptr - srsync[k]) <= DELAY + 1 + 2 * k
    BY DEF BackInv
  <2>1. QED
    BY <1>1 DEF SlaveInv, BackInv
<1>11. ReadInv'
  <2>1. /\ srptr <= swsync[DELAY] /\ swsync[DELAY] <= srptr + 1 /\ swsync[DELAY] \in Nat
        /\ swsync[DELAY] # srptr /\ ~srdreq =>
             W(DELAY - 1) = swsync[DELAY] /\ (DELAY = 1 => sedges <= 1)
        /\ sclear => swptr = 0 /\ srptr = 0 /\ \A k \in 1 .. DELAY : swsync[k] = 0
        /\ Len(smem) = swptr - srptr
    BY <1>1 DEF SlaveInv, ReadInv
  <2>2. swsync'[DELAY] = W(DELAY - 1) /\ W(DELAY - 1) \in Nat
    BY <1>1, <1>3
  <2>3. swsync[DELAY] <= W(DELAY - 1) /\ W(DELAY - 1) - swsync[DELAY] <= 1
    <3>1. swsync[DELAY] = W(DELAY)
      BY <1>1 DEF W
    <3>2. W(DELAY) <= W(DELAY - 1)
      BY <1>1, <1>5
    <3>3. W(DELAY - 1) - W(DELAY) <= 1
      <4>1. CASE DELAY = 1
        BY <1>1, <1>8, <4>1
      <4>2. CASE DELAY # 1
        <5>1. DELAY - 2 \in 0 .. DELAY - 2 /\ (DELAY - 2) + 2 = DELAY
              /\ DELAY - 1 \in 1 .. DELAY /\ (DELAY - 1) - 1 = DELAY - 2
          BY <1>1, <4>2
        <5>2. W(DELAY - 2) - W(DELAY) <= 1
          BY <1>6, <5>1
        <5>3. W(DELAY - 1) <= W(DELAY - 2) /\ W(DELAY - 1) \in Nat
          BY <1>5, <5>1
        <5>4. W(DELAY - 2) \in Nat /\ W(DELAY) \in Nat
          <6>1. CASE DELAY = 2
            BY <1>1, <1>4, <1>5, <6>1
          <6>2. CASE DELAY # 2
            <7>1. DELAY - 2 \in 1 .. DELAY
              BY <1>1, <4>2, <6>2
            <7>2. QED
              BY <1>1, <1>5, <7>1
          <6>3. QED
            BY <6>1, <6>2
        <5>5. QED
          BY <5>2, <5>3, <5>4
      <4>3. QED
        BY <4>1, <4>2
    <3>4. QED
      BY <3>1, <3>2, <3>3
  <2>4. srptr' <= swsync'[DELAY] /\ swsync'[DELAY] <= srptr' + 1
    BY <1>1, <2>1, <2>2, <2>3
  <2>5. ASSUME swsync'[DELAY] # srptr', ~srdreq'
        PROVE  W(DELAY - 1)' = swsync'[DELAY] /\ (DELAY = 1 => sedges' <= 1)
    <3>1. swsync[DELAY] = srptr /\ n = 0 /\ W(DELAY - 1) = swsync[DELAY] + 1
      BY <1>1, <2>1, <2>2, <2>3, <2>4, <2>5
    <3>2. CASE DELAY = 1
      <4>1. W(0)' = swsync'[DELAY]
        BY <1>2, <1>4, <3>2
      <4>2. sedges = 0
        <5>1. swptr = swsync[1] \/ 2 * (swptr - swsync[1]) <= 1 + 1 - sedges
          BY <1>1, <1>7
        <5>2. swptr = swsync[1] + 1
          BY <1>4, <3>1, <3>2
        <5>3. QED
          BY <1>1, <5>1, <5>2
      <4>3. QED
        BY <3>2, <4>1, <4>2
    <3>3. CASE DELAY # 1
      <4>1. DELAY - 2 \in 0 .. DELAY - 2 /\ (DELAY - 2) + 2 = DELAY
            /\ DELAY - 1 \in 1 .. DELAY /\ (DELAY - 1) - 1 = DELAY - 2
        BY <1>1, <3>3
      <4>2. W(DELAY - 2) - W(DELAY) <= 1 /\ W(DELAY - 1) <= W(DELAY - 2) /\ W(DELAY) = swsync[DELAY]
        BY <1>1, <1>5, <1>6, <4>1 DEF W
      <4>3. W(DELAY - 1)' = W(DELAY - 2) /\ W(DELAY - 2) \in Nat
        BY <1>3, <4>1
      <4>4. QED
        BY <2>1, <2>2, <3>1, <3>3, <4>2, <4>3
    <3>4. QED
      BY <3>2, <3>3
  <2>6. sclear' => swptr' = 0 /\ srptr' = 0 /\ \A k \in 1 .. DELAY : swsync'[k] = 0
    <3> SUFFICES ASSUME sclear
                 PROVE  swptr = 0 /\ srptr' = 0 /\ \A k \in 1 .. DELAY : swsync'[k] = 0
      OBVIOUS
    <3>1. swsync[DELAY] = srptr /\ swptr = 0 /\ srptr = 0 /\ \A k \in 1 .. DELAY : swsync[k] = 0
      BY <1>1, <2>1
    <3>2. n = 0
      BY <3>1
    <3>3. ASSUME NEW k \in 1 .. DELAY PROVE swsync'[k] = 0
      <4>1. CASE k = 1
        BY <1>2, <3>1, <4>1
      <4>2. CASE k # 1
        <5>1. k - 1 \in 1 .. DELAY /\ k \in 2 .. DELAY
          BY <1>1, <4>2
        <5>2. QED
          BY <1>2, <3>1, <5>1
      <4>3. QED
        BY <4>1, <4>2
    <3>4. QED
      BY <1>1, <3>1, <3>2, <3>3
  <2>7. Len(smem') = swptr' - srptr'
    BY <1>1, <2>1
  <2>8. QED
    BY <2>4, <2>5, <2>6, <2>7 DEF ReadInv
<1>12. QED
  BY <1>2, <1>9, <1>10, <1>11

\* What the register takes over is the byte that comes next.
LEMMA SRegister ==
  ASSUME SlaveInv, Slave!RdEdge
  PROVE  /\ sr' \in Nat /\ (sr' # sr => sr' = 0 \/ sr' = sq)
         /\ sshown' = IF sr' > sshown THEN sr' ELSE sshown
         /\ sr' <= sshown' /\ sshown' <= Out /\ sshown' \in Nat
         /\ ~sclear /\ srdreq => sr' = sq
         /\ sq = 0 \/ sq >= sshown'
         /\ sr' > sshown => sr' = sq
<1>1. /\ sq \in Nat /\ sr \in Nat /\ sshown \in Nat
      /\ sr <= sshown /\ sq <= Out /\ sshown <= Out /\ (sq = 0 \/ sq >= sshown)
  BY DEF SlaveInv, STypes, SShownInv
<1>2. /\ sr' = IF sclear THEN 0 ELSE IF srdreq THEN sq ELSE sr
      /\ sshown' = IF sr' > sshown THEN sr' ELSE sshown
  BY DEF Slave!RdEdge, Slave!Register
<1>3. QED
  BY <1>1, <1>2

LEMMA SRdEdge == ASSUME SlaveInv, Slave!RdEdge PROVE SlaveInv'
<1> DEFINE read == srdreq /\ swsync[DELAY] # srptr
<1>1. /\ sedges < 3 /\ sedges' = sedges + 1 /\ swsync' = Slave!Shift(swsync, swptr)
      /\ smem' = IF read THEN Tail(smem) ELSE smem
      /\ sq' = IF read THEN Head(smem) ELSE sq
      /\ srptr' = IF read THEN srptr + 1 ELSE srptr
      /\ (srdreq' <=> ~sclear /\ swsync[DELAY] # srptr)
      /\ UNCHANGED <<ssent, sep2, sled, sclear, sresets, swptr, srsync, sdropped>>
  BY DEF Slave!RdEdge, Slave!Rdreq, Slave!firmware
<1>2. /\ swptr \in Nat /\ srptr \in Nat /\ sedges \in 0 .. 2
      /\ swsync \in [1 .. DELAY -> Nat] /\ DELAY \in 1 .. DELAY /\ swsync[DELAY] \in Nat
      /\ smem \in Seq(Nat) /\ sq \in Nat /\ sshown \in Nat
  BY <1>1, SConstants DEF SlaveInv, STypes
<1>3. read => ~sclear /\ smem # <<>>
  <2>1. SUFFICES ASSUME read PROVE ~sclear /\ Len(smem) >= 1
    BY <1>2
  <2>2. ~sclear
    BY <1>2, <2>1 DEF SlaveInv, ReadInv
  <2>3. swsync[DELAY] <= swptr
    BY <1>2 DEF SlaveInv, WriteInv
  <2>4. QED
    BY <1>2, <2>1, <2>2, <2>3 DEF SlaveInv, ReadInv
<1>4. smem' \in Seq(Nat) /\ Len(smem') = Len(smem) - (IF read THEN 1 ELSE 0)
  BY <1>1, <1>2, <1>3
<1>5. swsync' \in [1 .. DELAY -> Nat] /\ WriteInv' /\ BackInv' /\ ReadInv'
  <2>1. PICK n \in {0, 1} : n = IF read THEN 1 ELSE 0
    OBVIOUS
  <2>2. srptr' = srptr + n /\ Len(smem') = Len(smem) - n
    BY <1>1, <1>2, <1>4, <2>1
  <2>3. QED
    BY <1>1, <2>1, <2>2, SReadStep
<1>6. /\ sr' \in Nat /\ sshown' = IF sr' > sshown THEN sr' ELSE sshown
      /\ sr' <= sshown' /\ sshown' <= Out /\ sshown' \in Nat
      /\ (~sclear /\ srdreq => sr' = sq) /\ (sq = 0 \/ sq >= sshown')
      /\ (sr' > sshown => sr' = sq)
  BY SRegister
<1>7. Given' = Given /\ Given \in Nat
  BY <1>1 DEF Given, SlaveInv, SStreamInv
<1>8. Out \in Nat /\ Out <= Given
  BY <1>2, <1>7 DEF SlaveInv, SShownInv, Out
<1>9. read => Head(smem) = Out + 1
  BY <1>2, <1>3, <1>7 DEF SlaveInv, SStreamInv, Out
<1>10. STypes'
  BY <1>1, <1>2, <1>3, <1>4, <1>5, <1>6 DEF SlaveInv, STypes
<1>11. SStreamInv'
  <2>1. ASSUME NEW k \in 1 .. Len(smem') PROVE smem'[k] = Given - Len(smem') + k
    <3>1. CASE read
      <4>1. k + 1 \in 1 .. Len(smem) /\ smem'[k] = smem[k + 1]
        BY <1>1, <1>2, <1>3, <1>4, <3>1
      <4>2. smem[k + 1] = Given - Len(smem) + (k + 1)
        BY <4>1 DEF SlaveInv, SStreamInv
      <4>3. QED
        BY <1>2, <1>4, <1>7, <3>1, <4>1, <4>2
    <3>2. CASE ~read
      BY <1>1, <3>2 DEF SlaveInv, SStreamInv
    <3>3. QED
      BY <3>1, <3>2
  <2>2. QED
    BY <1>1, <1>7, <2>1 DEF SlaveInv, SStreamInv
<1>12. SShownInv'
  <2>1. Out' = IF read THEN Out + 1 ELSE Out
    BY <1>2, <1>4, <1>7 DEF Out
  <2>2. sq' = IF read THEN Out + 1 ELSE sq
    BY <1>1, <1>9
  <2>0. /\ sq \in Nat /\ sshown \in Nat /\ sq <= Out /\ sshown <= sshown'
        /\ sdropped \subseteq 1 .. Given /\ (sshown + 1 .. Out) \ {sq} \subseteq sdropped
    BY <1>2, <1>6 DEF SlaveInv, SShownInv
  <2>3. sq' <= Out' /\ sshown' <= Out' /\ (sq' = 0 \/ sq' >= sshown') /\ Out' >= 0
    <3>1. CASE read
      <4>1. sq' = Out + 1 /\ Out' = Out + 1
        BY <2>1, <2>2, <3>1
      <4>2. QED
        <5>1. sshown' <= Out /\ sshown' \in Nat /\ Out \in Nat
          BY <1>6, <1>8
        <5>2. QED
          BY <4>1, <5>1
    <3>2. CASE ~read
      BY <1>6, <1>8, <2>0, <2>1, <2>2, <3>2
    <3>3. QED
      BY <3>1, <3>2
  <2>5. sdropped' = sdropped /\ sr' <= sshown'
    BY <1>1, <1>6
  <2>8. sshown \in Nat /\ sshown' \in Nat /\ Out \in Nat /\ Out' \in Nat
        /\ sshown <= sshown' /\ (Out' = Out \/ Out' = Out + 1)
    BY <1>6, <1>8, <2>0, <2>1
  <2>4. (sshown' + 1 .. Out') \ {sq'} \subseteq sdropped
    <3> SUFFICES ASSUME NEW x \in sshown' + 1 .. Out', x # sq' PROVE x \in sdropped
      OBVIOUS
    <3>1. CASE read
      <4>1. sq' = Out + 1 /\ Out' = Out + 1
        BY <2>1, <2>2, <3>1
      <4>2. Out' = Out + 1 /\ x # Out + 1
        BY <4>1
      <4>3. x \in sshown + 1 .. Out /\ x > sshown'
        BY <2>8, <4>2, Within
      <4>4. sr' = sq
        BY <1>3, <1>6, <3>1
      <4>5. x # sq
        <5>1. sq <= sshown' /\ sshown' \in Nat /\ sq \in Nat
          BY <2>0, <2>5, <2>8, <4>4
        <5>2. QED
          BY <4>3, <5>1
      <4>6. QED
        BY <2>0, <4>3, <4>5
    <3>2. CASE ~read
      <4>1. sq' = sq /\ Out' = Out
        BY <2>1, <2>2, <3>2
      <4>2. x \in sshown + 1 .. Out /\ x # sq
        <5>1. Out' # Out + 1
          BY <2>8, <4>1
        <5>2. QED
          BY <2>8, <4>1, <5>1, Within
      <4>3. QED
        BY <2>0, <4>2
    <3>3. QED
      BY <3>1, <3>2
  <2>6. QED
    BY <1>7, <2>0, <2>3, <2>4, <2>5 DEF SShownInv
<1>13. QED
  BY <1>5, <1>10, <1>11, <1>12 DEF SlaveInv

LEMMA SFlagsKept == ASSUME SFlags, Slave!Next \/ UNCHANGED slave PROVE SFlags'
<1>1. CASE Slave!HostSend \/ Slave!PressReset \/ Slave!ReleaseReset \/ UNCHANGED slave
  BY <1>1 DEF SFlags, Slave!HostSend, Slave!PressReset, Slave!ReleaseReset, slave, Slave!firmware, Slave!capture
<1>2. CASE Slave!TestFlags \/ Slave!Led \/ Slave!WrEdge
  BY <1>2 DEF SFlags, Slave!TestFlags, Slave!Led, Slave!WrEdge, Slave!firmware, Slave!capture
<1>3. CASE Slave!RdEdge
  BY <1>3 DEF SFlags, Slave!RdEdge, Slave!Rdreq, Slave!firmware
<1>4. QED
  BY <1>1, <1>2, <1>3 DEF Slave!Next

LEMMA NextSlave == ASSUME DepthFits, SlaveInv, Slave!Next \/ UNCHANGED slave PROVE SlaveInv'
<1>1. CASE Slave!HostSend
  BY <1>1, SHostSend
<1>2. CASE Slave!PressReset
  BY <1>2, SPressReset
<1>3. CASE Slave!ReleaseReset \/ Slave!TestFlags \/ Slave!Led \/ UNCHANGED slave
  BY <1>3, SQuiet
<1>4. CASE Slave!WrEdge
  BY <1>4, SWrEdge
<1>5. CASE Slave!RdEdge
  BY <1>5, SRdEdge
<1>6. QED
  BY <1>1, <1>2, <1>3, <1>4, <1>5 DEF Slave!Next

LEMMA SlaveTypes == ASSUME DepthFits, SlaveInv, SFlags PROVE Slave!TypeOK
<1>0. {stested, sclear, srdreq} \subseteq BOOLEAN
  BY DEF SFlags
<1>1. \A k \in DOMAIN sep2 : sep2[k] # <<>>
  <2>1. DOMAIN sep2 = 1 .. Len(sep2)
    BY DEF SlaveInv, STypes
  <2>2. QED
    BY <2>1 DEF SlaveInv, SStreamInv, RunsTo, Run
<1>2. Len(smem) = swptr - srptr /\ swptr - srsync[DELAY] < DEPTH /\ swsync[DELAY] >= srptr
  BY SNotFull, SConstants DEF SlaveInv, ReadInv, STypes
<1>3. {sq, sr, sshown} \subseteq 0 .. SlaveSent /\ sdropped \subseteq 1 .. SlaveSent
  <2>1. /\ Given \in Nat /\ Given <= SlaveSent /\ Len(smem) \in Nat /\ SlaveSent \in Nat
        /\ sq \in Nat /\ sr \in Nat /\ sshown \in Nat
    BY SConstants DEF SlaveInv, STypes, SStreamInv
  <2>2. QED
    BY <2>1 DEF SlaveInv, SShownInv, Out
<1>4. QED
  BY <1>0, <1>1, <1>2, <1>3 DEF SlaveInv, STypes, Slave!TypeOK, Slave!EP2_BUFFERS

LEMMA SlaveSteps == ASSUME SlaveInv, Slave!Next \/ UNCHANGED slave PROVE Slave!InOrder
<1>1. CASE Slave!RdEdge
  <2>1. sr' # sr => sr' = 0 \/ sr' = sq
    BY <1>1, SRegister
  <2>2. sr' = sq => sshown + 1 .. sr' - 1 \subseteq sdropped
    <3> SUFFICES ASSUME NEW x \in sshown + 1 .. sq - 1 PROVE x \in sdropped
      OBVIOUS
    <3>1. /\ sq \in Nat /\ sshown \in Nat /\ sq <= Out /\ Out \in Int
          /\ (sshown + 1 .. Out) \ {sq} \subseteq sdropped
      BY DEF SlaveInv, STypes, SShownInv, SStreamInv, Out
    <3>2. x \in sshown + 1 .. Out /\ x # sq
      BY <3>1
    <3>3. QED
      BY <3>1, <3>2
  <2>3. sq = 0 \/ sq >= sshown
    BY DEF SlaveInv, SShownInv
  <2>4. sr' = 0 => sshown + 1 .. sr' - 1 = {}
    BY DEF SlaveInv, STypes
  <2>5. QED
    BY <2>1, <2>2, <2>3, <2>4 DEF Slave!InOrder
<1>2. CASE UNCHANGED sr
  BY <1>2 DEF Slave!InOrder
<1>3. QED
  BY <1>1, <1>2 DEF Slave!Next, Slave!HostSend, Slave!PressReset, Slave!ReleaseReset,
     Slave!TestFlags, Slave!Led, Slave!WrEdge, Slave!capture, slave

-----------------------------------------------------------------------------
(***************************************************************************)
(* FullDuplex.  Board s sends to board Peer(s); each direction is a        *)
(* four-phase handshake, DRDY up, DVALID up, DRDY down, DVALID down, that  *)
(* moves one byte.                                                         *)
(***************************************************************************)

\* Where the main loop is in its work for a direction.
RxPlaces == {"rx_out", "rx_last", "rx_valid", "rx_unvalid", "rx_rearm"}
TxPlaces == {"tx_ready", "tx_valid", "tx_last", "tx_data", "tx_unready", "tx_ack"}
RxAt(b) == IF dat[b] \in RxPlaces THEN dat[b] ELSE "none"
TxAt(b) == IF dat[b] \in TxPlaces THEN dat[b] ELSE "none"

\* The phases of the handshake, a and c being the places of sender and receiver.
Control(rxs, a, dv, txs, c, rdy) ==
    /\ rxs \in {"IDLE", "DATA", "ACK"} /\ txs \in {"IDLE", "ACK"}
    /\ dv <=> rxs = "ACK"
    /\ txs = "ACK" => ~rdy
    /\ dv /\ txs = "IDLE" => rdy
    /\ a \in {"rx_out", "rx_last", "rx_valid"} => rxs = "DATA" /\ rdy
    /\ a = "rx_unvalid" => rxs = "ACK" /\ ~rdy
    /\ a = "rx_rearm" => rxs = "IDLE"
    /\ c \in {"tx_valid", "tx_last", "tx_data", "tx_unready"} => rdy
    /\ c \in {"tx_last", "tx_data", "tx_unready"} => dv
    /\ c = "tx_ack" => txs = "ACK"
    /\ c = "tx_ready" => txs = "IDLE"

\* EP2 holds the packets that the host sent last.
Stock(full, free, sent, len) ==
    /\ full \in Seq(Nat) /\ free \in Nat /\ Len(full) + free = 2
    /\ sent \in Nat /\ sent <= Len(len) /\ Len(full) <= sent
    /\ \A k \in 1 .. Len(full) : full[k] = sent - Len(full) + k

\* The sender is in packet h + 1, of whose bytes o are out; n packets are left.
Sending(rxs, a, o, rem, h, n, data, dl, len) ==
    /\ o \in Nat /\ rem \in Nat
    /\ rxs # "IDLE" \/ a = "rx_rearm" => n >= 1
    /\ rxs = "DATA" /\ a \notin {"rx_last", "rx_valid"} => o < len[h + 1] /\ rem = len[h + 1] - o
    /\ a \in {"rx_last", "rx_valid"} \/ rxs = "ACK" =>
         1 <= o /\ o <= len[h + 1] /\ data = <<h + 1, o>>
    /\ a = "rx_last" => rem = len[h + 1] - o + 1
    /\ a = "rx_valid" \/ rxs = "ACK" => rem = len[h + 1] - o /\ (dl <=> o = len[h + 1])
    /\ a = "rx_rearm" => o = len[h + 1]

\* The first k bytes of packet n.
Bytes(n, k) == [i \in 1 .. k |-> <<n, i>>]

\* EP6 holds the packets that came last.
Arrived(ep6, received, s) ==
    /\ ep6 \in Seq(Seq(Nat \X Nat)) /\ received \in Nat
    /\ \A k \in 1 .. Len(ep6) : ep6[k] = Duplex!Packet(s, received + k)

\* The receiver is in packet m + 1, of whose bytes it has t, or one more; e
\* packets are in EP6.
Receiving(txs, c, t, last, buf6, m, e, rdy, len) ==
    /\ t \in Nat /\ e <= 2
    /\ rdy \/ txs = "ACK" \/ c = "tx_ready" => e < 2
    /\ buf6 = Bytes(m + 1, IF txs = "ACK" \/ c = "tx_unready" THEN t + 1 ELSE t)
    /\ txs = "ACK" \/ c \in {"tx_data", "tx_unready"} => (last <=> t + 1 = len[m + 1])

\* The two are in the same packet, at the same byte, or at most one byte or
\* the end of the packet apart.
Linked(txs, rxs, a, t, o, h, m, len) ==
    /\ txs = "IDLE" =>
         \/ rxs = "IDLE" /\ a # "rx_rearm" /\ h = m /\ t = 0
         \/ a = "rx_rearm" /\ h + 1 = m /\ t = 0
         \/ rxs = "DATA" /\ a \notin {"rx_last", "rx_valid"} /\ h = m /\ t = o
         \/ (a \in {"rx_last", "rx_valid"} \/ rxs = "ACK") /\ h = m /\ t + 1 = o
    /\ txs = "ACK" =>
         \/ (rxs = "ACK" \/ a = "rx_rearm" \/ rxs = "DATA") /\ h = m /\ t + 1 = o
         \/ /\ \/ rxs = "IDLE" /\ a # "rx_rearm"
               \/ rxs = "DATA" /\ o = 0
            /\ h = m + 1 /\ t + 1 = len[m + 1]

\* Packets that the sender has done with, and that the receiver has committed.
Done(s) == dsent[s] - Len(dfull[s])
Committed(r) == dreceived[r] + Len(dep6[r])

\* The state of the direction from s to r.
DControl(s, r) == Control(drxs[s], RxAt(s), ddvalid[s], dtxs[r], TxAt(r), ddrdy[r])
DStock(s) == Stock(dfull[s], dfree[s], dsent[s], Lens[s])
DSending(s) ==
    Sending(drxs[s], RxAt(s), drx_offset[s], dremaining[s], Done(s), Len(dfull[s]), ddata[s],
            ddlast[s], Lens[s])
DArrived(s, r) == Arrived(dep6[r], dreceived[r], s)
DReceiving(s, r) ==
    Receiving(dtxs[r], TxAt(r), dtx_offset[r], dlast[r], dbuf6[r], Committed(r), Len(dep6[r]),
              ddrdy[r], Lens[s])
DLinked(s, r) ==
    Linked(dtxs[r], drxs[s], RxAt(s), dtx_offset[r], drx_offset[s], Done(s), Committed(r), Lens[s])

\* A flush comes before the first packet.
DSetup == \A b \in Duplex!Boards : dgot_sud[b] => \A c \in Duplex!Boards : dsent[c] = 0

DDomains ==
    /\ DOMAIN dat = Duplex!Boards /\ DOMAIN dgot_sud = Duplex!Boards
    /\ DOMAIN dtxs = Duplex!Boards /\ DOMAIN dtx_offset = Duplex!Boards
    /\ DOMAIN dlast = Duplex!Boards /\ DOMAIN dbuf6 = Duplex!Boards
    /\ DOMAIN drxs = Duplex!Boards /\ DOMAIN drx_offset = Duplex!Boards
    /\ DOMAIN dremaining = Duplex!Boards /\ DOMAIN ddvalid = Duplex!Boards
    /\ DOMAIN ddlast = Duplex!Boards /\ DOMAIN ddata = Duplex!Boards
    /\ DOMAIN ddrdy = Duplex!Boards /\ DOMAIN dfull = Duplex!Boards
    /\ DOMAIN dfree = Duplex!Boards /\ DOMAIN dep6 = Duplex!Boards
    /\ DOMAIN dsent = Duplex!Boards /\ DOMAIN dreceived = Duplex!Boards

Direction(s, r) ==
    DControl(s, r) /\ DStock(s) /\ DSending(s) /\ DArrived(s, r) /\ DReceiving(s, r) /\ DLinked(s, r)

DuplexInv ==
    /\ DDomains /\ DSetup
    /\ \A s \in Duplex!Boards : Direction(s, Duplex!Peer(s))

\* A packet of no bytes would make remaining wrap around.
NoEmptyPackets == \A s \in Duplex!Boards : \A n \in 1 .. Len(Lens[s]) : Lens[s][n] \in 1 .. 512

-----------------------------------------------------------------------------
LEMMA DBoards ==
  /\ \A b \in Duplex!Boards : Duplex!Peer(b) \in Duplex!Boards /\ Duplex!Peer(b) # b
                              /\ Duplex!Peer(Duplex!Peer(b)) = b
  /\ \A b, c \in Duplex!Boards : c = b \/ c = Duplex!Peer(b)
<1>1. PICK b, c \in Duplex!Boards : b # c /\ Duplex!Boards = {b, c}
  BY StreamsAssumption DEF Duplex!FullDuplexAssumption
<1>2. Duplex!Peer(b) = c /\ Duplex!Peer(c) = b
  BY <1>1 DEF Duplex!Peer
<1>3. QED
  BY <1>1, <1>2

LEMMA DLens ==
  ASSUME NoEmptyPackets, NEW s \in Duplex!Boards
  PROVE  /\ Len(Lens[s]) \in Nat
         /\ \A n \in Nat : n + 1 <= Len(Lens[s]) =>
              Lens[s][n + 1] \in Nat /\ Lens[s][n + 1] >= 1 /\ Lens[s][n + 1] <= 512
<1>1. Lens[s] \in Seq(0 .. 512)
  BY StreamsAssumption DEF Duplex!FullDuplexAssumption
<1>2. ASSUME NEW n \in Nat, n + 1 <= Len(Lens[s]) PROVE Lens[s][n + 1] \in 1 .. 512
  <2>1. n + 1 \in 1 .. Len(Lens[s])
    BY <1>1, <1>2
  <2>2. QED
    BY <2>1 DEF NoEmptyPackets
<1>3. Len(Lens[s]) \in Nat
  BY <1>1
<1>4. ASSUME NEW n \in Nat, n + 1 <= Len(Lens[s])
      PROVE  Lens[s][n + 1] \in Nat /\ Lens[s][n + 1] >= 1 /\ Lens[s][n + 1] <= 512
  <2>1. Lens[s][n + 1] \in 1 .. 512
    BY <1>2, <1>4
  <2>2. QED
    BY <2>1
<1>5. QED
  BY <1>3, <1>4

-----------------------------------------------------------------------------
(* The steps of the sender, for the numbers alone.                         *)

LEMMA SendPlace ==
  ASSUME NEW rxs, NEW a, NEW a2, NEW o, NEW rem, NEW h, NEW n, NEW data, NEW dl, NEW len, NEW txs,
         NEW t, NEW m,
         a \notin {"rx_last", "rx_valid", "rx_rearm"}, a2 \notin {"rx_last", "rx_valid", "rx_rearm"}
  PROVE  /\ Sending(rxs, a, o, rem, h, n, data, dl, len) => Sending(rxs, a2, o, rem, h, n, data, dl, len)
         /\ Linked(txs, rxs, a, t, o, h, m, len) => Linked(txs, rxs, a2, t, o, h, m, len)
  BY DEF Sending, Linked

LEMMA SendMore ==
  ASSUME NEW rxs, NEW a, NEW o, NEW rem, NEW h, NEW n \in Nat, NEW data, NEW dl, NEW len,
         Sending(rxs, a, o, rem, h, n, data, dl, len)
  PROVE  Sending(rxs, a, o, rem, h, n + 1, data, dl, len)
  BY DEF Sending

LEMMA SendStart ==
  ASSUME NEW o, NEW rem, NEW h, NEW n \in Nat, NEW data, NEW dl, NEW len, NEW txs, NEW t, NEW m,
         n >= 1, len[h + 1] \in Nat, len[h + 1] >= 1
  PROVE  /\ Sending("DATA", "none", 0, len[h + 1], h, n, data, dl, len)
         /\ Linked(txs, "IDLE", "none", t, o, h, m, len) => Linked(txs, "DATA", "none", t, 0, h, m, len)
<1>1. Sending("DATA", "none", 0, len[h + 1], h, n, data, dl, len)
  BY DEF Sending
<1>2. Linked(txs, "IDLE", "none", t, o, h, m, len) => Linked(txs, "DATA", "none", t, 0, h, m, len)
  BY DEF Linked
<1>3. QED
  BY <1>1, <1>2

LEMMA OneLess ==
  ASSUME NEW o \in Nat, NEW l \in Nat, NEW rem \in Nat, 1 <= o, o <= l, l <= 512, rem = l - o + 1
  PROVE  (rem + 65535) % 65536 = l - o /\ l - o \in Nat
<1>1. rem \in 1 .. 512
  OBVIOUS
<1>2. (rem + 65535) % 65536 = rem - 1
  BY <1>1
<1>3. QED
  BY <1>2

LEMMA OneMore ==
  ASSUME NEW o \in Nat, NEW l \in Nat, o < l
  PROVE  1 <= o + 1 /\ o + 1 <= l /\ l - o = l - (o + 1) + 1
  OBVIOUS

LEMMA SendOut ==
  ASSUME NEW o, NEW rem, NEW h, NEW n, NEW data, NEW dl, NEW len, NEW t, NEW m,
         len[h + 1] \in Nat, t \in Nat,
         Sending("DATA", "rx_out", o, rem, h, n, data, dl, len)
  PROVE  /\ Sending("DATA", "rx_last", o + 1, rem, h, n, <<h + 1, o + 1>>, dl, len) /\ o < len[h + 1]
         /\ Linked("IDLE", "DATA", "rx_out", t, o, h, m, len) =>
              Linked("IDLE", "DATA", "rx_last", t, o + 1, h, m, len)
<1>1. o \in Nat /\ o + 1 \in Nat /\ rem \in Nat /\ n >= 1 /\ o < len[h + 1] /\ rem = len[h + 1] - o
  BY DEF Sending
<1>2. 1 <= o + 1 /\ o + 1 <= len[h + 1] /\ rem = len[h + 1] - (o + 1) + 1
  BY <1>1, OneMore
<1>3. Sending("DATA", "rx_last", o + 1, rem, h, n, <<h + 1, o + 1>>, dl, len)
  BY <1>1, <1>2 DEF Sending
<1>4. Linked("IDLE", "DATA", "rx_out", t, o, h, m, len) =>
        Linked("IDLE", "DATA", "rx_last", t, o + 1, h, m, len)
  BY DEF Linked
<1>5. QED
  BY <1>1, <1>3, <1>4

LEMMA SendLast ==
  ASSUME NEW o, NEW rem, NEW h, NEW n, NEW data, NEW dl, NEW len, NEW rem2,
         len[h + 1] \in Nat, len[h + 1] <= 512,
         Sending("DATA", "rx_last", o, rem, h, n, data, dl, len), rem2 = (rem + 65535) % 65536
  PROVE  rem2 \in Nat /\ rem2 = len[h + 1] - o /\ (rem2 = 0 <=> o = len[h + 1])
<1>1. PICK l \in Nat : l = len[h + 1]
  OBVIOUS
<1>2. o \in Nat /\ rem \in Nat /\ 1 <= o /\ o <= l /\ l <= 512 /\ rem = l - o + 1
  BY <1>1 DEF Sending
<1>3. rem2 = l - o /\ l - o \in Nat
  BY <1>2, OneLess
<1>4. rem2 = 0 <=> o = l
  BY <1>2, <1>3
<1>5. QED
  BY <1>1, <1>3, <1>4

LEMMA SendValid ==
  ASSUME NEW o, NEW rem, NEW h, NEW n, NEW data, NEW dl, NEW len, NEW t, NEW m,
         Sending("DATA", "rx_valid", o, rem, h, n, data, dl, len)
  PROVE  /\ Sending("ACK", "none", o, rem, h, n, data, dl, len)
         /\ Linked("IDLE", "DATA", "rx_valid", t, o, h, m, len) => Linked("IDLE", "ACK", "none", t, o, h, m, len)
  BY DEF Sending, Linked

LEMMA SendUnvalid ==
  ASSUME NEW o, NEW rem, NEW h, NEW n, NEW data, NEW dl, NEW len, NEW t, NEW m,
         len[h + 1] \in Nat, Sending("ACK", "rx_unvalid", o, rem, h, n, data, dl, len)
  PROVE  /\ rem # 0 => Sending("DATA", "none", o, rem, h, n, data, dl, len)
         /\ rem = 0 => Sending("IDLE", "rx_rearm", o, rem, h, n, data, dl, len)
         /\ Linked("ACK", "ACK", "rx_unvalid", t, o, h, m, len) =>
              /\ Linked("ACK", "DATA", "none", t, o, h, m, len)
              /\ Linked("ACK", "IDLE", "rx_rearm", t, o, h, m, len)
<1>1. /\ o \in Nat /\ rem \in Nat /\ n >= 1 /\ o <= len[h + 1] /\ rem = len[h + 1] - o
  BY DEF Sending
<1>2. rem # 0 => o < len[h + 1]
  BY <1>1
<1>3. rem = 0 => o = len[h + 1]
  BY <1>1
<1>4. rem # 0 => Sending("DATA", "none", o, rem, h, n, data, dl, len)
  BY <1>1, <1>2 DEF Sending
<1>5. rem = 0 => Sending("IDLE", "rx_rearm", o, rem, h, n, data, dl, len)
  BY <1>1, <1>3 DEF Sending
<1>6. Linked("ACK", "ACK", "rx_unvalid", t, o, h, m, len) =>
              /\ Linked("ACK", "DATA", "none", t, o, h, m, len)
              /\ Linked("ACK", "IDLE", "rx_rearm", t, o, h, m, len)
  BY DEF Linked
<1>7. QED
  BY <1>4, <1>5, <1>6

LEMMA SendRearm ==
  ASSUME NEW o, NEW rem, NEW h \in Nat, NEW n, NEW data, NEW dl, NEW len, NEW txs, NEW t, NEW m \in Nat,
         Sending("IDLE", "rx_rearm", o, rem, h, n, data, dl, len), NEW n2
  PROVE  /\ Sending("IDLE", "none", o, rem, h + 1, n2, data, dl, len)
         /\ Linked(txs, "IDLE", "rx_rearm", t, o, h, m, len) => Linked(txs, "IDLE", "none", t, o, h + 1, m, len)
<1>1. o \in Nat /\ rem \in Nat /\ o = len[h + 1]
  BY DEF Sending
<1>2. Sending("IDLE", "none", o, rem, h + 1, n2, data, dl, len)
  BY <1>1 DEF Sending
<1>3. Linked(txs, "IDLE", "rx_rearm", t, o, h, m, len) => Linked(txs, "IDLE", "none", t, o, h + 1, m, len)
  BY <1>1 DEF Linked
<1>4. QED
  BY <1>2, <1>3

-----------------------------------------------------------------------------
(* The steps of the receiver.                                              *)

LEMMA ReceivePlace ==
  ASSUME NEW txs, NEW c, NEW c2, NEW t, NEW last, NEW buf6, NEW m, NEW e \in Nat, NEW rdy, NEW rdy2, NEW len,
         c \notin {"tx_data", "tx_unready"}, c2 \notin {"tx_data", "tx_unready"},
         rdy2 \/ c2 = "tx_ready" => e < 2,
         Receiving(txs, c, t, last, buf6, m, e, rdy, len)
  PROVE  Receiving(txs, c2, t, last, buf6, m, e, rdy2, len)
  BY DEF Receiving

LEMMA ReceiveLast ==
  ASSUME NEW t, NEW last, NEW last2, NEW buf6, NEW m, NEW e, NEW rdy, NEW len,
         last2 <=> t + 1 = len[m + 1],
         Receiving("IDLE", "tx_last", t, last, buf6, m, e, rdy, len)
  PROVE  Receiving("IDLE", "tx_data", t, last2, buf6, m, e, rdy, len)
  BY DEF Receiving

LEMMA BytesMore ==
  ASSUME NEW n, NEW t \in Nat
  PROVE  SubSeq(Bytes(n, t), 1, t) \o <<<<n, t + 1>>>> = Bytes(n, t + 1)
<1> DEFINE S == {<<n, i>> : i \in 1 .. t + 1}
           b == Bytes(n, t)
<1>1. b \in Seq(S) /\ Len(b) = t /\ \A i \in 1 .. t : b[i] = <<n, i>>
  BY DEF Bytes
<1>2. <<n, t + 1>> \in S
  OBVIOUS
<1>3. Bytes(n, t + 1) \in Seq(S) /\ Len(Bytes(n, t + 1)) = t + 1
      /\ \A i \in 1 .. t + 1 : Bytes(n, t + 1)[i] = <<n, i>>
  BY DEF Bytes
<1> HIDE DEF b, S
<1>4. SubSeq(b, 1, t) = b
  BY <1>1
<1>5. b \o <<<<n, t + 1>>>> \in Seq(S) /\ Len(b \o <<<<n, t + 1>>>>) = t + 1
      /\ \A i \in 1 .. t + 1 : (b \o <<<<n, t + 1>>>>)[i] = <<n, i>>
  BY <1>1, <1>2
<1>6. b \o <<<<n, t + 1>>>> = Bytes(n, t + 1)
  BY <1>3, <1>5, SeqEqual
<1>7. QED
  BY <1>4, <1>6 DEF b

LEMMA ReceiveData ==
  ASSUME NEW t, NEW last, NEW buf6, NEW m, NEW e, NEW rdy, NEW len,
         Receiving("IDLE", "tx_data", t, last, buf6, m, e, rdy, len)
  PROVE  Receiving("IDLE", "tx_unready", t, last, SubSeq(buf6, 1, t) \o <<<<m + 1, t + 1>>>>, m, e, rdy, len)
<1>1. buf6 = Bytes(m + 1, t) /\ t \in Nat
  BY DEF Receiving
<1>2. SubSeq(buf6, 1, t) \o <<<<m + 1, t + 1>>>> = Bytes(m + 1, t + 1)
  BY <1>1, BytesMore
<1>3. QED
  BY <1>2 DEF Receiving

LEMMA ReceiveUnready ==
  ASSUME NEW t, NEW last, NEW buf6, NEW m, NEW e, NEW len, NEW a, NEW o, NEW h,
         Receiving("IDLE", "tx_unready", t, last, buf6, m, e, TRUE, len)
  PROVE  /\ Receiving("ACK", "tx_ack", t, last, buf6, m, e, FALSE, len)
         /\ Linked("IDLE", "ACK", a, t, o, h, m, len) => a = "rx_rearm" \/ Linked("ACK", "ACK", a, t, o, h, m, len)
<1>1. Receiving("ACK", "tx_ack", t, last, buf6, m, e, FALSE, len)
  BY DEF Receiving
<1>2. Linked("IDLE", "ACK", a, t, o, h, m, len) => a = "rx_rearm" \/ Linked("ACK", "ACK", a, t, o, h, m, len)
  BY DEF Linked
<1>3. QED
  BY <1>1, <1>2

LEMMA ReceiveEnd ==
  ASSUME NEW t, NEW last, NEW buf6, NEW m \in Nat, NEW e \in Nat, NEW rdy, ~rdy, NEW len,
         Receiving("ACK", "tx_ack", t, last, buf6, m, e, rdy, len)
  PROVE  /\ ~last => Receiving("IDLE", "none", t + 1, last, buf6, m, e, rdy, len)
         /\ last => /\ Receiving("IDLE", "none", 0, last, <<>>, m + 1, e + 1, rdy, len)
                    /\ buf6 = Bytes(m + 1, len[m + 1])
<1>1. t \in Nat /\ e < 2 /\ buf6 = Bytes(m + 1, t + 1) /\ (last <=> t + 1 = len[m + 1])
  BY DEF Receiving
<1>2. ~last => Receiving("IDLE", "none", t + 1, last, buf6, m, e, rdy, len)
  BY <1>1 DEF Receiving
<1>3. Bytes((m + 1) + 1, 0) = <<>>
  BY DEF Bytes
<1>4. Receiving("IDLE", "none", 0, last, <<>>, m + 1, e + 1, rdy, len)
  BY <1>1, <1>3 DEF Receiving
<1>5. QED
  BY <1>1, <1>2, <1>4

LEMMA LinkEnd ==
  ASSUME NEW rxs, NEW a, NEW t \in Nat, NEW o \in Nat, NEW h \in Nat, NEW m \in Nat, NEW len,
         Linked("ACK", rxs, a, t, o, h, m, len),
         rxs \in {"IDLE", "DATA"}, a \notin {"rx_last", "rx_valid"},
         a = "rx_rearm" => rxs = "IDLE" /\ o = len[h + 1],
         rxs = "DATA" => o < len[h + 1]
  PROVE  /\ t + 1 # len[m + 1] => Linked("IDLE", rxs, a, t + 1, o, h, m, len)
         /\ t + 1 = len[m + 1] => Linked("IDLE", rxs, a, 0, o, h, m + 1, len)
<1>1. CASE (a = "rx_rearm" \/ rxs = "DATA") /\ h = m /\ t + 1 = o
  <2>1. CASE a = "rx_rearm"
    BY <1>1, <2>1 DEF Linked
  <2>2. CASE a # "rx_rearm"
    BY <1>1, <2>2 DEF Linked
  <2>3. QED
    BY <2>1, <2>2
<1>2. CASE /\ \/ rxs = "IDLE" /\ a # "rx_rearm"
              \/ rxs = "DATA" /\ a # "rx_rearm" /\ o = 0
           /\ h = m + 1 /\ t + 1 = len[m + 1]
  BY <1>2 DEF Linked
<1>3. QED
  BY <1>1, <1>2 DEF Linked

-----------------------------------------------------------------------------
(* The steps of the handshake.                                             *)

LEMMA ControlTx ==
  ASSUME NEW rxs, NEW a, NEW dv, NEW txs, NEW c, NEW rdy, Control(rxs, a, dv, txs, c, rdy)
  PROVE  /\ Control(rxs, a, dv, txs, "none", rdy)
         /\ txs = "ACK" => Control(rxs, a, dv, txs, "tx_ack", rdy)
         /\ txs # "ACK" => Control(rxs, a, dv, txs, "tx_ready", rdy)
         /\ c = "tx_ready" => Control(rxs, a, dv, txs, "tx_valid", TRUE)
         /\ c = "tx_valid" /\ dv => Control(rxs, a, dv, txs, "tx_last", rdy)
         /\ c = "tx_last" => Control(rxs, a, dv, txs, "tx_data", rdy)
         /\ c = "tx_data" => Control(rxs, a, dv, txs, "tx_unready", rdy)
         /\ c = "tx_unready" => Control(rxs, a, dv, "ACK", "tx_ack", FALSE)
         /\ c = "tx_ack" /\ ~dv => Control(rxs, a, dv, "IDLE", "none", rdy)
  BY DEF Control

LEMMA ControlRx ==
  ASSUME NEW rxs, NEW a, NEW dv, NEW txs, NEW c, NEW rdy, Control(rxs, a, dv, txs, c, rdy)
  PROVE  /\ Control(rxs, "none", dv, txs, c, rdy)
         /\ rxs = "IDLE" /\ a = "none" => Control("DATA", "none", dv, txs, c, rdy)
         /\ rxs = "DATA" /\ rdy => Control(rxs, "rx_out", dv, txs, c, rdy)
         /\ rxs = "ACK" /\ ~rdy => Control(rxs, "rx_unvalid", dv, txs, c, rdy)
         /\ a = "rx_out" => Control(rxs, "rx_last", dv, txs, c, rdy)
         /\ a = "rx_last" => Control(rxs, "rx_valid", dv, txs, c, rdy)
         /\ a = "rx_valid" => Control("ACK", "none", TRUE, txs, c, rdy)
         /\ a = "rx_unvalid" => /\ Control("DATA", "none", FALSE, txs, c, rdy)
                                /\ Control("IDLE", "rx_rearm", FALSE, txs, c, rdy)
  BY DEF Control

-----------------------------------------------------------------------------
(* What a step leaves alone.                                               *)

Pair(b, c) ==
    /\ b \in Duplex!Boards /\ c \in Duplex!Boards /\ b # c
    /\ Duplex!Peer(b) = c /\ Duplex!Peer(c) = b

RxData(s) ==
    /\ drxs'[s] = drxs[s] /\ drx_offset'[s] = drx_offset[s] /\ dremaining'[s] = dremaining[s]
    /\ dfull'[s] = dfull[s] /\ dfree'[s] = dfree[s] /\ dsent'[s] = dsent[s]
    /\ ddata'[s] = ddata[s] /\ ddlast'[s] = ddlast[s] /\ ddvalid'[s] = ddvalid[s]

TxData(r) ==
    /\ dtxs'[r] = dtxs[r] /\ dtx_offset'[r] = dtx_offset[r] /\ dlast'[r] = dlast[r]
    /\ dbuf6'[r] = dbuf6[r] /\ dep6'[r] = dep6[r] /\ dreceived'[r] = dreceived[r]
    /\ ddrdy'[r] = ddrdy[r]

RxSame(s) == RxAt(s)' = RxAt(s) /\ RxData(s)
TxSame(r) == TxAt(r)' = TxAt(r) /\ TxData(r)

LEMMA SenderKept ==
  ASSUME NEW s, RxSame(s)
  PROVE  /\ Done(s)' = Done(s)
         /\ DStock(s) => DStock(s)'
         /\ DSending(s) => DSending(s)'
  BY DEF RxSame, RxData, Done, DStock, DSending

LEMMA ReceiverKept ==
  ASSUME NEW s, NEW r, TxSame(r)
  PROVE  /\ Committed(r)' = Committed(r)
         /\ DArrived(s, r) => DArrived(s, r)'
         /\ DReceiving(s, r) => DReceiving(s, r)'
  BY DEF TxSame, TxData, Committed, DArrived, DReceiving

LEMMA DKept ==
  ASSUME NEW s, NEW r, RxSame(s), TxSame(r), Direction(s, r)
  PROVE  Direction(s, r)'
<1>1. DStock(s)' /\ DSending(s)' /\ DArrived(s, r)' /\ DReceiving(s, r)'
  BY SenderKept, ReceiverKept DEF Direction
<1>2. Done(s)' = Done(s) /\ Committed(r)' = Committed(r)
  BY SenderKept, ReceiverKept
<1>3. DControl(s, r)'
  BY DEF Direction, DControl, RxSame, RxData, TxSame, TxData
<1>4. DLinked(s, r)'
  BY <1>2 DEF Direction, DLinked, RxSame, RxData, TxSame, TxData
<1>5. QED
  BY <1>1, <1>3, <1>4 DEF Direction

LEMMA SetAt ==
  ASSUME NEW f, DOMAIN f = Duplex!Boards, NEW b \in Duplex!Boards, NEW v
  PROVE  /\ DOMAIN Duplex!Set(f, b, v) = Duplex!Boards
         /\ Duplex!Set(f, b, v)[b] = v
         /\ \A x \in Duplex!Boards : x # b => Duplex!Set(f, b, v)[x] = f[x]
  BY DEF Duplex!Set

LEMMA Places ==
  ASSUME NEW b, NEW c, Pair(b, c), DDomains, NEW v, Duplex!Goto(b, v)
  PROVE  /\ dat'[b] = v /\ RxAt(c)' = RxAt(c) /\ TxAt(c)' = TxAt(c)
         /\ RxAt(b)' = (IF v \in RxPlaces THEN v ELSE "none")
         /\ TxAt(b)' = (IF v \in TxPlaces THEN v ELSE "none")
<1>1. dat'[b] = v /\ dat'[c] = dat[c]
  BY SetAt DEF Pair, DDomains, Duplex!Goto
<1>2. QED
  BY <1>1 DEF RxAt, TxAt

LEMMA DomainsKept ==
  ASSUME DDomains, NEW b \in Duplex!Boards,
         Duplex!HostSend(b) \/ Duplex!HostRead(b) \/ Duplex!HostSetup(b) \/ Duplex!Loop(b)
  PROVE  DDomains'
<1> USE DEF DDomains, Duplex!Set, Duplex!Goto, Duplex!tx, Duplex!rx, Duplex!pins, Duplex!hosts
<1>1. CASE Duplex!HostSend(b)
  BY <1>1 DEF Duplex!HostSend
<1>2. CASE Duplex!HostRead(b)
  BY <1>2 DEF Duplex!HostRead
<1>3. CASE Duplex!HostSetup(b)
  BY <1>3 DEF Duplex!HostSetup
<1>4. CASE Duplex!TestGotSud(b)
  BY <1>4 DEF Duplex!TestGotSud
<1>5. CASE Duplex!TxTest(b)
  BY <1>5 DEF Duplex!TxTest
<1>6. CASE Duplex!TxReady(b)
  BY <1>6 DEF Duplex!TxReady
<1>7. CASE Duplex!TxByte(b)
  BY <1>7 DEF Duplex!TxByte
<1>8. CASE Duplex!TxAck(b)
  BY <1>8 DEF Duplex!TxAck
<1>9. CASE Duplex!RxTest(b)
  BY <1>9 DEF Duplex!RxTest
<1>10. CASE Duplex!RxByte(b)
  BY <1>10 DEF Duplex!RxByte
<1>11. CASE Duplex!RxAck(b)
  BY <1>11 DEF Duplex!RxAck
<1>12. QED
  BY <1>1, <1>2, <1>3, <1>4, <1>5, <1>6, <1>7, <1>8, <1>9, <1>10, <1>11 DEF Duplex!Loop

-----------------------------------------------------------------------------
(* The receiver of a direction takes a step.                               *)

LEMMA DNumbers ==
  ASSUME NEW s, NEW r, Direction(s, r)
  PROVE  /\ Len(dfull[s]) \in Nat /\ dfree[s] \in Nat /\ Len(dfull[s]) + dfree[s] = 2 /\ dsent[s] \in Nat
         /\ Done(s) \in Nat /\ Done(s) + Len(dfull[s]) = dsent[s] /\ dsent[s] <= Len(Lens[s])
         /\ Len(dep6[r]) \in Nat /\ dreceived[r] \in Nat /\ Committed(r) \in Nat
         /\ drx_offset[s] \in Nat /\ dremaining[s] \in Nat /\ dtx_offset[r] \in Nat
<1>1. /\ dfull[s] \in Seq(Nat) /\ dfree[s] \in Nat /\ Len(dfull[s]) + dfree[s] = 2
      /\ dsent[s] \in Nat /\ dsent[s] <= Len(Lens[s]) /\ Len(dfull[s]) <= dsent[s]
  BY DEF Direction, DStock, Stock
<1>2. dep6[r] \in Seq(Seq(Nat \X Nat)) /\ dreceived[r] \in Nat
  BY DEF Direction, DArrived, Arrived
<1>3. drx_offset[s] \in Nat /\ dremaining[s] \in Nat
  BY DEF Direction, DSending, Sending
<1>4. dtx_offset[r] \in Nat
  BY DEF Direction, DReceiving, Receiving
<1>5. Len(dfull[s]) \in Nat /\ Len(dep6[r]) \in Nat
  BY <1>1, <1>2
<1>6. Done(s) \in Nat /\ Done(s) + Len(dfull[s]) = dsent[s]
  BY <1>1, <1>5 DEF Done
<1>7. Committed(r) \in Nat
  BY <1>2, <1>5 DEF Committed
<1>8. QED
  BY <1>1, <1>2, <1>3, <1>4, <1>5, <1>6, <1>7

LEMMA TxSide ==
  ASSUME NEW b, NEW c, Pair(b, c), DDomains, Direction(b, c), NEW v, v \notin RxPlaces,
         RxAt(b) = "none", Duplex!Goto(b, v),
         RxData(b), RxData(c), TxData(c)
  PROVE  RxSame(c) /\ Direction(b, c)' /\ TxAt(b)' = (IF v \in TxPlaces THEN v ELSE "none")
<1>1. /\ RxAt(c)' = RxAt(c) /\ TxAt(c)' = TxAt(c) /\ RxAt(b)' = "none"
      /\ TxAt(b)' = (IF v \in TxPlaces THEN v ELSE "none")
  BY Places
<1>2. RxSame(b) /\ RxSame(c) /\ TxSame(c)
  BY <1>1 DEF RxSame, TxSame
<1>3. QED
  BY <1>1, <1>2, DKept

LEMMA TxMoves ==
  ASSUME NEW b, NEW c, Direction(c, b), RxSame(c),
         dtxs'[b] = dtxs[b], dtx_offset'[b] = dtx_offset[b], dep6'[b] = dep6[b],
         dreceived'[b] = dreceived[b], DControl(c, b)', DReceiving(c, b)'
  PROVE  Direction(c, b)'
<1>1. DStock(c)' /\ DSending(c)' /\ Done(c)' = Done(c)
  BY SenderKept DEF Direction
<1>2. DArrived(c, b)' /\ Committed(b)' = Committed(b)
  BY DEF Direction, DArrived, Committed
<1>3. DLinked(c, b)'
  BY <1>1, <1>2 DEF Direction, DLinked, RxSame, RxData
<1>4. QED
  BY <1>1, <1>2, <1>3 DEF Direction

\* Only the place changes, and perhaps DRDY rises.
LEMMA TxGoes ==
  ASSUME NEW b, NEW c, Pair(b, c), DDomains, Direction(b, c), Direction(c, b),
         NEW v, v \notin RxPlaces, RxAt(b) = "none", Duplex!Goto(b, v),
         RxData(b), RxData(c), TxData(c),
         dtxs'[b] = dtxs[b], dtx_offset'[b] = dtx_offset[b], dep6'[b] = dep6[b],
         dreceived'[b] = dreceived[b], dlast'[b] = dlast[b], dbuf6'[b] = dbuf6[b],
         TxAt(b) \notin {"tx_data", "tx_unready"}, v \notin {"tx_data", "tx_unready"},
         ddrdy'[b] \/ v = "tx_ready" => Len(dep6[b]) < 2,
         Control(drxs[c], RxAt(c), ddvalid[c], dtxs[b], IF v \in TxPlaces THEN v ELSE "none", ddrdy'[b])
  PROVE  Direction(b, c)' /\ Direction(c, b)'
<1>1. RxSame(c) /\ Direction(b, c)' /\ TxAt(b)' = (IF v \in TxPlaces THEN v ELSE "none")
  BY TxSide
<1>2. DControl(c, b)'
  BY <1>1 DEF DControl, RxSame, RxData
<1>3. Committed(b)' = Committed(b) /\ Len(dep6[b]) \in Nat
  BY DNumbers DEF Committed
<1>4. DReceiving(c, b)'
  <2>1. Receiving(dtxs[b], TxAt(b), dtx_offset[b], dlast[b], dbuf6[b], Committed(b), Len(dep6[b]),
                  ddrdy[b], Lens[c])
    BY DEF Direction, DReceiving
  <2>2. TxAt(b)' \notin {"tx_data", "tx_unready"}
    BY <1>1
  <2>3. ddrdy'[b] \/ TxAt(b)' = "tx_ready" => Len(dep6[b]) < 2
    BY <1>1
  <2>4. Receiving(dtxs[b], TxAt(b)', dtx_offset[b], dlast[b], dbuf6[b], Committed(b), Len(dep6[b]),
                  ddrdy'[b], Lens[c])
    BY <1>3, <2>1, <2>2, <2>3, ReceivePlace
  <2>5. QED
    BY <1>3, <2>4 DEF DReceiving
<1>5. QED
  BY <1>1, <1>2, <1>4, TxMoves

-----------------------------------------------------------------------------
LEMMA NotTwo == ASSUME NEW n \in Nat, n <= 2, n # 2 PROVE n < 2
  OBVIOUS

LEMMA TxTestKeeps ==
  ASSUME NEW b, NEW c, Pair(b, c), DDomains, Direction(b, c), Direction(c, b), Duplex!TxTest(b)
  PROVE  Direction(b, c)' /\ Direction(c, b)'
<1> DEFINE v == IF dtxs[b] = "ACK" THEN "tx_ack" ELSE IF Len(dep6[b]) = 2 THEN "rx" ELSE "tx_ready"
<1>1. /\ dat[b] = "tx" /\ Duplex!Goto(b, v)
      /\ RxData(b) /\ RxData(c) /\ TxData(b) /\ TxData(c)
  BY DEF Duplex!TxTest, Duplex!tx, Duplex!rx, Duplex!pins, Duplex!hosts, Duplex!BUFFERS, RxData, TxData
<1>2. RxAt(b) = "none" /\ TxAt(b) = "none"
  BY <1>1 DEF RxAt, TxAt, RxPlaces, TxPlaces
<1>3. Control(drxs[c], RxAt(c), ddvalid[c], dtxs[b], "none", ddrdy[b])
  BY <1>2 DEF Direction, DControl
<1>4. Control(drxs[c], RxAt(c), ddvalid[c], dtxs[b], IF v \in TxPlaces THEN v ELSE "none", ddrdy[b])
  BY <1>3, ControlTx DEF TxPlaces
<1>5. Len(dep6[b]) \in Nat /\ Len(dep6[b]) <= 2 /\ (ddrdy[b] => Len(dep6[b]) < 2)
  BY DNumbers DEF Direction, DReceiving, Receiving
<1>6. v \notin RxPlaces /\ v \notin {"tx_data", "tx_unready"}
      /\ (v = "tx_ready" => Len(dep6[b]) # 2)
  BY DEF RxPlaces
<1> HIDE DEF v
<1>7. (ddrdy[b] \/ v = "tx_ready") => Len(dep6[b]) < 2
  BY <1>5, <1>6, NotTwo
<1>8. QED
  BY <1>1, <1>2, <1>4, <1>6, <1>7, TxGoes DEF TxData

LEMMA TxReadyKeeps ==
  ASSUME NEW b, NEW c, Pair(b, c), DDomains, Direction(b, c), Direction(c, b), Duplex!TxReady(b)
  PROVE  Direction(b, c)' /\ Direction(c, b)'
<1>0. /\ Control(drxs[c], RxAt(c), ddvalid[c], dtxs[b], TxAt(b), ddrdy[b])
      /\ Len(dep6[b]) \in Nat /\ (ddrdy[b] \/ TxAt(b) = "tx_ready" => Len(dep6[b]) < 2)
  BY DNumbers DEF Direction, DControl, DReceiving, Receiving
<1>1. CASE dat[b] = "tx_ready"
  <2>1. /\ Duplex!Goto(b, "tx_valid") /\ ddrdy'[b] = TRUE
        /\ RxData(b) /\ RxData(c) /\ TxData(c)
        /\ dtxs'[b] = dtxs[b] /\ dtx_offset'[b] = dtx_offset[b] /\ dep6'[b] = dep6[b]
        /\ dreceived'[b] = dreceived[b] /\ dlast'[b] = dlast[b] /\ dbuf6'[b] = dbuf6[b]
    BY <1>1 DEF Duplex!TxReady, Duplex!Set, Pair, DDomains, Duplex!tx, Duplex!rx, Duplex!pins, Duplex!hosts,
                RxData, TxData
  <2>2. RxAt(b) = "none" /\ TxAt(b) = "tx_ready"
    BY <1>1 DEF RxAt, TxAt, RxPlaces, TxPlaces
  <2>3. Control(drxs[c], RxAt(c), ddvalid[c], dtxs[b], "tx_valid", TRUE)
    BY <1>0, <2>2, ControlTx
  <2>4. QED
    BY <1>0, <2>1, <2>2, <2>3, TxGoes DEF RxPlaces, TxPlaces
<1>2. CASE dat[b] = "tx_valid"
  <2> DEFINE v == IF ddvalid[c] THEN "tx_last" ELSE "rx"
  <2>1. /\ Duplex!Goto(b, v)
        /\ RxData(b) /\ RxData(c) /\ TxData(b) /\ TxData(c)
    BY <1>2 DEF Duplex!TxReady, Pair, Duplex!tx, Duplex!rx, Duplex!pins, Duplex!hosts, RxData, TxData
  <2>2. RxAt(b) = "none" /\ TxAt(b) = "tx_valid"
    BY <1>2 DEF RxAt, TxAt, RxPlaces, TxPlaces
  <2>3. Control(drxs[c], RxAt(c), ddvalid[c], dtxs[b], IF v \in TxPlaces THEN v ELSE "none", ddrdy[b])
    BY <1>0, <2>2, ControlTx DEF TxPlaces
  <2>4. v \notin RxPlaces /\ v \notin {"tx_data", "tx_unready"} /\ v # "tx_ready"
    BY DEF RxPlaces
  <2> HIDE DEF v
  <2>5. QED
    BY <1>0, <2>1, <2>2, <2>3, <2>4, TxGoes DEF TxData
<1>3. QED
  BY <1>1, <1>2 DEF Duplex!TxReady

LEMMA BytesSeq == ASSUME NEW n \in Nat, NEW k \in Nat PROVE Bytes(n, k) \in Seq(Nat \X Nat)
<1>1. \A i \in 1 .. k : <<n, i>> \in Nat \X Nat
  OBVIOUS
<1>2. QED
  BY <1>1 DEF Bytes

\* A packet goes into EP6, another comes out.
LEMMA ArrivedMore ==
  ASSUME NEW ep6, NEW received, NEW s, Arrived(ep6, received, s),
         NEW m, m = received + Len(ep6), Lens[s][m + 1] \in Nat,
         NEW buf, buf = Bytes(m + 1, Lens[s][m + 1])
  PROVE  Arrived(Append(ep6, buf), received, s) /\ Len(Append(ep6, buf)) = Len(ep6) + 1
         /\ received + (Len(ep6) + 1) = m + 1
<1> DEFINE P == Nat \X Nat
           e == Append(ep6, buf)
<1>1. ep6 \in Seq(Seq(P)) /\ received \in Nat /\ Len(ep6) \in Nat /\ m \in Nat
  BY DEF Arrived
<1>2. buf \in Seq(P)
  <2>1. m + 1 \in Nat
    BY <1>1
  <2>2. Bytes(m + 1, Lens[s][m + 1]) \in Seq(P)
    BY <2>1, BytesSeq
  <2>3. QED
    BY <2>2
<1>3. buf = Duplex!Packet(s, m + 1)
  BY DEF Bytes, Duplex!Packet
<1> HIDE DEF P
<1>4. /\ e \in Seq(Seq(P)) /\ Len(e) = Len(ep6) + 1 /\ e[Len(ep6) + 1] = buf
      /\ \A k \in 1 .. Len(ep6) : e[k] = ep6[k]
  BY <1>1, <1>2
<1> HIDE DEF e
<1>5. received + (Len(ep6) + 1) = m + 1
  BY <1>1
<1>6. \A k \in 1 .. Len(ep6) : e[k] = Duplex!Packet(s, received + k)
  BY <1>4 DEF Arrived
<1>7. \A k \in 1 .. Len(e) : k \in 1 .. Len(ep6) \/ k = Len(ep6) + 1
  BY <1>1, <1>4
<1>8. \A k \in 1 .. Len(e) : e[k] = Duplex!Packet(s, received + k)
  BY <1>3, <1>4, <1>5, <1>6, <1>7
<1>9. Arrived(e, received, s)
  BY <1>1, <1>4, <1>8 DEF Arrived, P
<1>10. QED
  BY <1>4, <1>5, <1>9 DEF e

\* The byte on the pins is the one that the receiver is to take.
LEMMA Offered ==
  ASSUME NEW b, NEW c, Direction(c, b), TxAt(b) \in {"tx_last", "tx_data", "tx_unready"}
  PROVE  /\ dtxs[b] = "IDLE" /\ ddrdy[b] /\ drxs[c] = "ACK" /\ RxAt(c) # "rx_rearm"
         /\ ddata[c] = <<Committed(b) + 1, dtx_offset[b] + 1>>
         /\ ddlast[c] <=> dtx_offset[b] + 1 = Lens[c][Committed(b) + 1]
<1>1. dtxs[b] = "IDLE" /\ ddrdy[b] /\ drxs[c] = "ACK" /\ RxAt(c) # "rx_rearm"
  BY DEF Direction, DControl, Control
<1>2. /\ ddata[c] = <<Done(c) + 1, drx_offset[c]>>
      /\ ddlast[c] <=> drx_offset[c] = Lens[c][Done(c) + 1]
  BY <1>1 DEF Direction, DSending, Sending
<1>3. Done(c) = Committed(b) /\ dtx_offset[b] + 1 = drx_offset[c]
  BY <1>1 DEF Direction, DLinked, Linked
<1>4. QED
  BY <1>1, <1>2, <1>3

LEMMA TxByteKeeps ==
  ASSUME NEW b, NEW c, Pair(b, c), DDomains, Direction(b, c), Direction(c, b), Duplex!TxByte(b)
  PROVE  Direction(b, c)' /\ Direction(c, b)'
<1>0. /\ Control(drxs[c], RxAt(c), ddvalid[c], dtxs[b], TxAt(b), ddrdy[b])
      /\ Receiving(dtxs[b], TxAt(b), dtx_offset[b], dlast[b], dbuf6[b], Committed(b), Len(dep6[b]),
                   ddrdy[b], Lens[c])
  BY DEF Direction, DControl, DReceiving
<1>1. CASE dat[b] = "tx_last"
  <2>1. /\ Duplex!Goto(b, "tx_data") /\ (dlast'[b] <=> ddlast[c])
        /\ RxData(b) /\ RxData(c) /\ TxData(c)
        /\ dtxs'[b] = dtxs[b] /\ dtx_offset'[b] = dtx_offset[b] /\ dep6'[b] = dep6[b]
        /\ dreceived'[b] = dreceived[b] /\ dbuf6'[b] = dbuf6[b] /\ ddrdy'[b] = ddrdy[b]
    BY <1>1 DEF Duplex!TxByte, Duplex!Set, Pair, DDomains, Duplex!tx, Duplex!rx, Duplex!pins, Duplex!hosts,
                RxData, TxData
  <2>2. RxAt(b) = "none" /\ TxAt(b) = "tx_last"
    BY <1>1 DEF RxAt, TxAt, RxPlaces, TxPlaces
  <2>3. RxSame(c) /\ Direction(b, c)' /\ TxAt(b)' = "tx_data"
    BY <2>1, <2>2, TxSide DEF RxPlaces, TxPlaces
  <2>4. DControl(c, b)'
    <3>1. Control(drxs[c], RxAt(c), ddvalid[c], dtxs[b], "tx_data", ddrdy[b])
      BY <1>0, <2>2, ControlTx
    <3>2. QED
      BY <2>1, <2>3, <3>1 DEF DControl, RxSame, RxData
  <2>5. DReceiving(c, b)'
    <3>1. dtxs[b] = "IDLE" /\ (dlast'[b] <=> dtx_offset[b] + 1 = Lens[c][Committed(b) + 1])
      BY <2>1, <2>2, Offered
    <3>2. Receiving("IDLE", "tx_data", dtx_offset[b], dlast'[b], dbuf6[b], Committed(b), Len(dep6[b]),
                    ddrdy[b], Lens[c])
      BY <1>0, <2>2, <3>1, ReceiveLast
    <3>3. QED
      BY <2>1, <2>3, <3>1, <3>2 DEF DReceiving, Committed
  <2>6. QED
    BY <2>1, <2>3, <2>4, <2>5, TxMoves
<1>2. CASE dat[b] = "tx_data"
  <2> DEFINE buf == SubSeq(dbuf6[b], 1, dtx_offset[b]) \o <<ddata[c]>>
  <2>1. /\ Duplex!Goto(b, "tx_unready") /\ dbuf6'[b] = buf
        /\ RxData(b) /\ RxData(c) /\ TxData(c)
        /\ dtxs'[b] = dtxs[b] /\ dtx_offset'[b] = dtx_offset[b] /\ dep6'[b] = dep6[b]
        /\ dreceived'[b] = dreceived[b] /\ dlast'[b] = dlast[b] /\ ddrdy'[b] = ddrdy[b]
    BY <1>2 DEF Duplex!TxByte, Duplex!Set, Pair, DDomains, Duplex!tx, Duplex!rx, Duplex!pins, Duplex!hosts,
                RxData, TxData
  <2>2. RxAt(b) = "none" /\ TxAt(b) = "tx_data"
    BY <1>2 DEF RxAt, TxAt, RxPlaces, TxPlaces
  <2>3. RxSame(c) /\ Direction(b, c)' /\ TxAt(b)' = "tx_unready"
    BY <2>1, <2>2, TxSide DEF RxPlaces, TxPlaces
  <2>4. DControl(c, b)'
    <3>1. Control(drxs[c], RxAt(c), ddvalid[c], dtxs[b], "tx_unready", ddrdy[b])
      BY <1>0, <2>2, ControlTx
    <3>2. QED
      BY <2>1, <2>3, <3>1 DEF DControl, RxSame, RxData
  <2>5. DReceiving(c, b)'
    <3>1. dtxs[b] = "IDLE" /\ ddata[c] = <<Committed(b) + 1, dtx_offset[b] + 1>>
      BY <2>2, Offered
    <3>2. Receiving("IDLE", "tx_unready", dtx_offset[b], dlast[b], buf, Committed(b), Len(dep6[b]),
                    ddrdy[b], Lens[c])
      BY <1>0, <2>2, <3>1, ReceiveData
    <3> HIDE DEF buf
    <3>3. QED
      BY <2>1, <2>3, <3>1, <3>2 DEF DReceiving, Committed
  <2>6. QED
    BY <2>1, <2>3, <2>4, <2>5, TxMoves
<1>3. CASE dat[b] = "tx_unready"
  <2>1. /\ Duplex!Goto(b, "tx_ack") /\ ddrdy'[b] = FALSE /\ dtxs'[b] = "ACK"
        /\ RxData(b) /\ RxData(c) /\ TxData(c)
        /\ dtx_offset'[b] = dtx_offset[b] /\ dep6'[b] = dep6[b] /\ dbuf6'[b] = dbuf6[b]
        /\ dreceived'[b] = dreceived[b] /\ dlast'[b] = dlast[b]
    BY <1>3 DEF Duplex!TxByte, Duplex!Set, Pair, DDomains, Duplex!tx, Duplex!rx, Duplex!pins, Duplex!hosts,
                RxData, TxData
  <2>2. RxAt(b) = "none" /\ TxAt(b) = "tx_unready"
    BY <1>3 DEF RxAt, TxAt, RxPlaces, TxPlaces
  <2>3. RxSame(c) /\ Direction(b, c)' /\ TxAt(b)' = "tx_ack"
    BY <2>1, <2>2, TxSide DEF RxPlaces, TxPlaces
  <2>4. DControl(c, b)'
    <3>1. Control(drxs[c], RxAt(c), ddvalid[c], "ACK", "tx_ack", FALSE)
      BY <1>0, <2>2, ControlTx
    <3>2. QED
      BY <2>1, <2>3, <3>1 DEF DControl, RxSame, RxData
  <2>5. /\ dtxs[b] = "IDLE" /\ (ddrdy[b] <=> TRUE) /\ drxs[c] = "ACK" /\ RxAt(c) # "rx_rearm"
    BY <2>2, Offered
  <2>6. Committed(b)' = Committed(b) /\ Done(c)' = Done(c) /\ DArrived(c, b)'
    BY <2>1, <2>3, SenderKept DEF Committed, Direction, DArrived
  <2>7. DReceiving(c, b)'
    <3>1. Receiving("IDLE", "tx_unready", dtx_offset[b], dlast[b], dbuf6[b], Committed(b), Len(dep6[b]),
                    ddrdy[b], Lens[c])
      BY <1>0, <2>2, <2>5
    <3>2. Receiving("ACK", "tx_ack", dtx_offset[b], dlast[b], dbuf6[b], Committed(b), Len(dep6[b]), FALSE,
                    Lens[c])
      BY <2>5, <3>1, ReceiveUnready
    <3>3. QED
      BY <2>1, <2>3, <2>6, <3>2 DEF DReceiving
  <2>8. DLinked(c, b)'
    <3>1. Linked("IDLE", "ACK", RxAt(c), dtx_offset[b], drx_offset[c], Done(c), Committed(b), Lens[c])
      BY <2>5 DEF Direction, DLinked
    <3>2. Linked("ACK", "ACK", RxAt(c), dtx_offset[b], drx_offset[c], Done(c), Committed(b), Lens[c])
      BY <2>5, <3>1 DEF Linked
    <3>3. QED
      BY <2>1, <2>3, <2>5, <2>6, <3>2 DEF DLinked, RxSame, RxData
  <2>9. QED
    BY <2>3, <2>4, <2>6, <2>7, <2>8, SenderKept DEF Direction
<1>4. QED
  BY <1>1, <1>2, <1>3 DEF Duplex!TxByte

LEMMA TxAckKeeps ==
  ASSUME NEW b, NEW c, Pair(b, c), DDomains, Direction(b, c), Direction(c, b), Duplex!TxAck(b)
  PROVE  Direction(b, c)' /\ Direction(c, b)'
<1>0. /\ Control(drxs[c], RxAt(c), ddvalid[c], dtxs[b], TxAt(b), ddrdy[b])
      /\ Receiving(dtxs[b], TxAt(b), dtx_offset[b], dlast[b], dbuf6[b], Committed(b), Len(dep6[b]),
                   ddrdy[b], Lens[c])
      /\ Linked(dtxs[b], drxs[c], RxAt(c), dtx_offset[b], drx_offset[c], Done(c), Committed(b), Lens[c])
  BY DEF Direction, DControl, DReceiving, DLinked
<1>1. /\ dat[b] = "tx_ack" /\ Duplex!Goto(b, "rx")
      /\ RxData(b) /\ RxData(c) /\ dreceived'[b] = dreceived[b] /\ dlast'[b] = dlast[b] /\ ddrdy' = ddrdy
  BY DEF Duplex!TxAck, Duplex!rx, Duplex!pins, Duplex!hosts, RxData
<1>2. RxAt(b) = "none" /\ TxAt(b) = "tx_ack"
  BY <1>1 DEF RxAt, TxAt, RxPlaces, TxPlaces
<1>3. CASE ddvalid[c]
  <2>1. RxData(b) /\ RxData(c) /\ TxData(b) /\ TxData(c)
    BY <1>3 DEF Duplex!TxAck, Pair, Duplex!rx, Duplex!pins, Duplex!hosts, RxData, TxData
  <2>2. Control(drxs[c], RxAt(c), ddvalid[c], dtxs[b], "none", ddrdy[b])
    BY <1>0, ControlTx
  <2>3. ddrdy[b] => Len(dep6[b]) < 2
    BY DEF Direction, DReceiving, Receiving
  <2>4. QED
    BY <1>1, <1>2, <2>1, <2>2, <2>3, TxGoes DEF TxData, RxPlaces, TxPlaces
<1>4. CASE ~ddvalid[c]
  <2>1. /\ TxData(c) /\ dtxs'[b] = "IDLE"
        /\ ~dlast[b] => dtx_offset'[b] = dtx_offset[b] + 1 /\ dep6'[b] = dep6[b] /\ dbuf6'[b] = dbuf6[b]
        /\ dlast[b] => /\ dtx_offset'[b] = 0 /\ dep6'[b] = Append(dep6[b], dbuf6[b])
                       /\ dbuf6'[b] = <<>>
    BY <1>4 DEF Duplex!TxAck, Duplex!Set, Pair, DDomains, Duplex!rx, Duplex!pins, Duplex!hosts, TxData
  <2>2. RxSame(c) /\ Direction(b, c)' /\ TxAt(b)' = "none"
    BY <1>1, <1>2, <2>1, TxSide DEF RxPlaces, TxPlaces
  <2>3. /\ dtxs[b] = "ACK" /\ (ddrdy[b] <=> FALSE) /\ drxs[c] \in {"IDLE", "DATA"}
        /\ RxAt(c) \notin {"rx_last", "rx_valid"} /\ (RxAt(c) = "rx_rearm" => drxs[c] = "IDLE")
    BY <1>0, <1>2, <1>4 DEF Control
  <2>4. DControl(c, b)'
    <3>1. Control(drxs[c], RxAt(c), ddvalid[c], "IDLE", "none", ddrdy[b])
      BY <1>0, <1>2, <1>4, ControlTx
    <3>2. QED
      BY <1>1, <2>1, <2>2, <3>1 DEF DControl, RxSame, RxData
  <2>5. /\ ~dlast[b] => Receiving("IDLE", "none", dtx_offset[b] + 1, dlast[b], dbuf6[b], Committed(b),
                                  Len(dep6[b]), ddrdy[b], Lens[c])
        /\ dlast[b] => /\ Receiving("IDLE", "none", 0, dlast[b], <<>>, Committed(b) + 1,
                                     Len(dep6[b]) + 1, ddrdy[b], Lens[c])
                       /\ dbuf6[b] = Bytes(Committed(b) + 1, Lens[c][Committed(b) + 1])
    <3>1. Receiving("ACK", "tx_ack", dtx_offset[b], dlast[b], dbuf6[b], Committed(b), Len(dep6[b]),
                    ddrdy[b], Lens[c])
      BY <1>0, <1>2, <2>3
    <3>2. Committed(b) \in Nat /\ Len(dep6[b]) \in Nat /\ ~ddrdy[b]
      BY <2>3, DNumbers
    <3>3. QED
      BY <3>1, <3>2, ReceiveEnd
  <2>6. /\ dlast[b] <=> dtx_offset[b] + 1 = Lens[c][Committed(b) + 1]
    BY <1>0, <2>3 DEF Receiving
  <2>7. /\ RxAt(c) = "rx_rearm" => drx_offset[c] = Lens[c][Done(c) + 1]
        /\ drxs[c] = "DATA" => drx_offset[c] < Lens[c][Done(c) + 1]
    BY <2>3 DEF Direction, DSending, Sending
  <2>8. /\ ~dlast[b] => Linked("IDLE", drxs[c], RxAt(c), dtx_offset[b] + 1, drx_offset[c], Done(c),
                               Committed(b), Lens[c])
        /\ dlast[b] => Linked("IDLE", drxs[c], RxAt(c), 0, drx_offset[c], Done(c), Committed(b) + 1, Lens[c])
    <3>1. Linked("ACK", drxs[c], RxAt(c), dtx_offset[b], drx_offset[c], Done(c), Committed(b), Lens[c])
      BY <1>0, <2>3
    <3>2. /\ Committed(b) \in Nat /\ Done(c) \in Nat /\ dtx_offset[b] \in Nat /\ drx_offset[c] \in Nat
      BY DNumbers
    <3>3. RxAt(c) = "rx_rearm" => drxs[c] = "IDLE" /\ drx_offset[c] = Lens[c][Done(c) + 1]
      BY <2>3, <2>7
    <3>4. QED
      BY <2>3, <2>6, <2>7, <3>1, <3>2, <3>3, LinkEnd
  <2>9. Done(c)' = Done(c) /\ DStock(c)' /\ DSending(c)'
    BY <2>2, SenderKept DEF Direction
  <2>10. CASE ~dlast[b]
    <3>1. Committed(b)' = Committed(b) /\ DArrived(c, b)'
      BY <1>1, <2>1, <2>10 DEF Committed, Direction, DArrived
    <3>2. DReceiving(c, b)'
      BY <1>1, <2>1, <2>2, <2>5, <2>10, <3>1 DEF DReceiving
    <3>3. DLinked(c, b)'
      BY <2>1, <2>2, <2>8, <2>9, <2>10, <3>1 DEF DLinked, RxSame, RxData
    <3>4. QED
      BY <2>2, <2>4, <2>9, <3>1, <3>2, <3>3 DEF Direction
  <2>11. CASE dlast[b]
    <3>1. /\ Len(dep6'[b]) = Len(dep6[b]) + 1 /\ Committed(b)' = Committed(b) + 1 /\ DArrived(c, b)'
      <4>1. dep6'[b] = Append(dep6[b], dbuf6[b]) /\ dreceived'[b] = dreceived[b]
        BY <1>1, <2>1, <2>11
      <4>2. dbuf6[b] = Bytes(Committed(b) + 1, Lens[c][Committed(b) + 1])
        BY <2>5, <2>11
      <4>3. Lens[c][Committed(b) + 1] \in Nat
        <5>1. dtx_offset[b] + 1 = Lens[c][Committed(b) + 1] /\ dtx_offset[b] \in Nat
          BY <2>6, <2>11, DNumbers
        <5>2. QED
          BY <5>1
      <4>4. Arrived(dep6[b], dreceived[b], c) /\ Committed(b) = dreceived[b] + Len(dep6[b])
        BY DEF Direction, DArrived, Committed
      <4>5. /\ Arrived(dep6'[b], dreceived[b], c) /\ Len(dep6'[b]) = Len(dep6[b]) + 1
            /\ dreceived[b] + (Len(dep6[b]) + 1) = Committed(b) + 1
        BY <4>1, <4>2, <4>3, <4>4, ArrivedMore
      <4>6. QED
        BY <4>1, <4>5 DEF Committed, DArrived
    <3>2. DReceiving(c, b)'
      BY <1>1, <2>1, <2>2, <2>5, <2>11, <3>1 DEF DReceiving
    <3>3. DLinked(c, b)'
      BY <2>1, <2>2, <2>8, <2>9, <2>11, <3>1 DEF DLinked, RxSame, RxData
    <3>4. QED
      BY <2>2, <2>4, <2>9, <3>1, <3>2, <3>3 DEF Direction
  <2>12. QED
    BY <2>10, <2>11
<1>5. QED
  BY <1>3, <1>4

-----------------------------------------------------------------------------
(* The sender of a direction takes a step.                                 *)

LEMMA RxSide ==
  ASSUME NEW b, NEW c, Pair(b, c), DDomains, Direction(c, b), NEW v, v \notin TxPlaces,
         TxAt(b) = "none", Duplex!Goto(b, v),
         TxData(b), TxData(c), RxData(c)
  PROVE  TxSame(c) /\ Direction(c, b)' /\ RxAt(b)' = (IF v \in RxPlaces THEN v ELSE "none")
<1>1. /\ RxAt(c)' = RxAt(c) /\ TxAt(c)' = TxAt(c) /\ TxAt(b)' = "none"
      /\ RxAt(b)' = (IF v \in RxPlaces THEN v ELSE "none")
  BY Places
<1>2. TxSame(b) /\ TxSame(c) /\ RxSame(c)
  BY <1>1 DEF RxSame, TxSame
<1>3. QED
  BY <1>1, <1>2, DKept

LEMMA RxMoves ==
  ASSUME NEW b, NEW c, Direction(b, c), TxSame(c), NEW h, Done(b)' = h,
         DStock(b)',
         Control(drxs'[b], RxAt(b)', ddvalid'[b], dtxs[c], TxAt(c), ddrdy[c]),
         Sending(drxs'[b], RxAt(b)', drx_offset'[b], dremaining'[b], h, Len(dfull'[b]), ddata'[b],
                 ddlast'[b], Lens[b]),
         Linked(dtxs[c], drxs'[b], RxAt(b)', dtx_offset[c], drx_offset'[b], h, Committed(c), Lens[b])
  PROVE  Direction(b, c)'
<1>1. DArrived(b, c)' /\ DReceiving(b, c)' /\ Committed(c)' = Committed(c)
  BY ReceiverKept DEF Direction
<1>2. DControl(b, c)'
  BY DEF DControl, TxSame, TxData
<1>3. DSending(b)'
  BY DEF DSending
<1>4. DLinked(b, c)'
  BY <1>1 DEF DLinked, TxSame, TxData
<1>5. QED
  BY <1>1, <1>2, <1>3, <1>4 DEF Direction

LEMMA Scalars ==
  ASSUME NEW s, NEW r, Direction(s, r)
  PROVE  /\ Control(drxs[s], RxAt(s), ddvalid[s], dtxs[r], TxAt(r), ddrdy[r])
         /\ Sending(drxs[s], RxAt(s), drx_offset[s], dremaining[s], Done(s), Len(dfull[s]), ddata[s],
                    ddlast[s], Lens[s])
         /\ Linked(dtxs[r], drxs[s], RxAt(s), dtx_offset[r], drx_offset[s], Done(s), Committed(r),
                   Lens[s])
         /\ DStock(s)
  BY DEF Direction, DControl, DSending, DLinked

\* The packet that the sender is in is the first one in EP2.
LEMMA FirstInStock ==
  ASSUME NEW full, NEW free, NEW sent, NEW len, Stock(full, free, sent, len), full # <<>>
  PROVE  Head(full) = (sent - Len(full)) + 1 /\ Len(full) >= 1
<1>1. full \in Seq(Nat) /\ Len(full) \in Nat /\ Len(full) # 0 /\ sent \in Nat
  BY EmptySeq DEF Stock
<1>2. Len(full) >= 1 /\ Head(full) = full[1] /\ 1 \in 1 .. Len(full)
  BY <1>1
<1>3. full[1] = sent - Len(full) + 1
  BY <1>2 DEF Stock
<1>4. QED
  BY <1>2, <1>3

LEMMA AtLeastOne ==
  ASSUME NEW d \in Nat, NEW n \in Nat, NEW m, NEW l \in Nat, n >= 1, d + n = m, m <= l
  PROVE  d + 1 <= l
  OBVIOUS

LEMMA InStock ==
  ASSUME NoEmptyPackets, NEW b, NEW c, Pair(b, c), Direction(b, c), dfull[b] # <<>> \/ Len(dfull[b]) >= 1
  PROVE  /\ dfull[b] # <<>> /\ Head(dfull[b]) = Done(b) + 1 /\ Len(dfull[b]) >= 1
         /\ Lens[b][Done(b) + 1] \in Nat /\ Lens[b][Done(b) + 1] >= 1 /\ Lens[b][Done(b) + 1] <= 512
<1>1. dfull[b] # <<>>
  OBVIOUS
<1>2. Head(dfull[b]) = Done(b) + 1 /\ Len(dfull[b]) >= 1
  <2>1. Stock(dfull[b], dfree[b], dsent[b], Lens[b])
    BY DEF Direction, DStock
  <2>2. QED
    BY <1>1, <2>1, FirstInStock DEF Done
<1>3. Done(b) \in Nat /\ Done(b) + 1 <= Len(Lens[b])
  <2>1. /\ Done(b) \in Nat /\ Len(dfull[b]) \in Nat /\ Done(b) + Len(dfull[b]) = dsent[b]
        /\ dsent[b] <= Len(Lens[b])
    BY DNumbers
  <2>2. Len(Lens[b]) \in Nat
    BY DLens DEF Pair
  <2>3. QED
    BY <1>2, <2>1, <2>2, AtLeastOne
<1>4. QED
  BY <1>1, <1>2, <1>3, DLens DEF Pair

-----------------------------------------------------------------------------
LEMMA RxTestKeeps ==
  ASSUME NoEmptyPackets, NEW b, NEW c, Pair(b, c), DDomains, Direction(b, c), Direction(c, b),
         Duplex!RxTest(b)
  PROVE  Direction(b, c)' /\ Direction(c, b)'
<1> DEFINE v == CASE drxs[b] = "DATA" /\ ddrdy[c] -> "rx_out"
                  [] drxs[b] = "ACK" /\ ~ddrdy[c] -> "rx_unvalid"
                  [] OTHER                        -> "sud"
<1>1. /\ dat[b] = "rx" /\ Duplex!Goto(b, v)
      /\ TxData(b) /\ TxData(c) /\ dfull' = dfull /\ dfree' = dfree /\ dsent' = dsent
      /\ ddata' = ddata /\ ddlast' = ddlast /\ ddvalid' = ddvalid
  BY DEF Duplex!RxTest, Pair, Duplex!tx, Duplex!rx, Duplex!pins, Duplex!hosts, TxData
<1>2. RxAt(b) = "none" /\ TxAt(b) = "none"
  BY <1>1 DEF RxAt, TxAt, RxPlaces, TxPlaces
<1>3. RxData(c)
  BY DEF Duplex!RxTest, Duplex!Set, Pair, Duplex!tx, Duplex!pins, Duplex!hosts, RxData, DDomains
<1>4. v \notin TxPlaces
  BY DEF TxPlaces
<1>5. TxSame(c) /\ Direction(c, b)' /\ RxAt(b)' = (IF v \in RxPlaces THEN v ELSE "none")
  <2> HIDE DEF v
  <2>1. QED
    BY <1>1, <1>2, <1>3, <1>4, RxSide
<1>6. DStock(b)' /\ Done(b)' = Done(b) /\ Len(dfull'[b]) = Len(dfull[b])
  BY <1>1 DEF Direction, DStock, Done
<1>7. CASE drxs[b] = "IDLE" /\ dfull[b] # <<>>
  <2>1. /\ drxs'[b] = "DATA" /\ drx_offset'[b] = 0 /\ dremaining'[b] = Lens[b][Head(dfull[b])]
    BY <1>7 DEF Duplex!RxTest, Duplex!Set, Pair, DDomains
  <2>2. RxAt(b)' = "none"
    <3>1. v = "sud"
      BY <1>7
    <3> HIDE DEF v
    <3>2. QED
      BY <1>5, <3>1 DEF RxPlaces
  <2>3. dremaining'[b] = Lens[b][Done(b) + 1] /\ Len(dfull[b]) \in Nat /\ Len(dfull[b]) >= 1
    BY <1>7, <2>1, InStock, DNumbers
  <2>4. Control("DATA", "none", ddvalid[b], dtxs[c], TxAt(c), ddrdy[c])
    BY <1>2, <1>7, Scalars, ControlRx
  <2>5. Lens[b][Done(b) + 1] \in Nat /\ Lens[b][Done(b) + 1] >= 1
    BY <1>7, InStock
  <2>6. Linked(dtxs[c], "IDLE", "none", dtx_offset[c], drx_offset[b], Done(b), Committed(c), Lens[b])
    BY <1>2, <1>7, Scalars
  <2>7. Sending("DATA", "none", 0, Lens[b][Done(b) + 1], Done(b), Len(dfull[b]), ddata[b], ddlast[b], Lens[b])
    BY <2>3, <2>5, SendStart
  <2>8. Linked(dtxs[c], "DATA", "none", dtx_offset[c], 0, Done(b), Committed(c), Lens[b])
    BY <2>3, <2>5, <2>6, SendStart
  <2> HIDE DEF v
  <2>9. QED
    BY <1>1, <1>5, <1>6, <2>1, <2>2, <2>3, <2>4, <2>7, <2>8, RxMoves
<1>8. CASE ~(drxs[b] = "IDLE" /\ dfull[b] # <<>>)
  <2>1. /\ drxs'[b] = drxs[b] /\ drx_offset'[b] = drx_offset[b] /\ dremaining'[b] = dremaining[b]
    BY <1>8 DEF Duplex!RxTest
  <2> DEFINE a == IF v \in RxPlaces THEN v ELSE "none"
  <2>2. Control(drxs[b], a, ddvalid[b], dtxs[c], TxAt(c), ddrdy[c])
    BY Scalars, ControlRx DEF RxPlaces
  <2>3. a \notin {"rx_last", "rx_valid", "rx_rearm"}
    OBVIOUS
  <2> HIDE DEF a
  <2>4. Sending(drxs[b], "none", drx_offset[b], dremaining[b], Done(b), Len(dfull[b]), ddata[b], ddlast[b],
                Lens[b])
        /\ Linked(dtxs[c], drxs[b], "none", dtx_offset[c], drx_offset[b], Done(b), Committed(c), Lens[b])
    BY <1>2, Scalars
  <2>5. Sending(drxs[b], a, drx_offset[b], dremaining[b], Done(b), Len(dfull[b]), ddata[b], ddlast[b],
                Lens[b])
        /\ Linked(dtxs[c], drxs[b], a, dtx_offset[c], drx_offset[b], Done(b), Committed(c), Lens[b])
    BY <2>3, <2>4, SendPlace
  <2>6. RxAt(b)' = a
    BY <1>5 DEF a
  <2> HIDE DEF v
  <2>7. QED
    BY <1>1, <1>5, <1>6, <2>1, <2>2, <2>5, <2>6, RxMoves
<1>9. QED
  BY <1>7, <1>8

LEMMA ZeroAt ==
  ASSUME NEW f, NEW b \in DOMAIN f, NEW v, NEW g, g = [f EXCEPT ![b] = (v = 0)]
  PROVE  g[b] <=> v = 0
  OBVIOUS

LEMMA RxByteKeeps ==
  ASSUME NoEmptyPackets, NEW b, NEW c, Pair(b, c), DDomains, Direction(b, c), Direction(c, b),
         Duplex!RxByte(b)
  PROVE  Direction(b, c)' /\ Direction(c, b)'
<1>1. CASE dat[b] = "rx_out"
  <2>1. /\ Duplex!Goto(b, "rx_last") /\ TxData(b) /\ TxData(c) /\ RxData(c)
        /\ drxs'[b] = drxs[b] /\ dremaining'[b] = dremaining[b] /\ dfull'[b] = dfull[b]
        /\ dfree'[b] = dfree[b] /\ dsent'[b] = dsent[b] /\ ddlast'[b] = ddlast[b]
        /\ ddvalid'[b] = ddvalid[b] /\ drx_offset'[b] = drx_offset[b] + 1
        /\ ddata'[b] = Duplex!EP2FIFOBUF(b, drx_offset[b])
    BY <1>1 DEF Duplex!RxByte, Duplex!Set, Pair, DDomains, Duplex!tx, Duplex!rx, Duplex!pins, Duplex!hosts,
                TxData, RxData
  <2>2. RxAt(b) = "rx_out" /\ TxAt(b) = "none"
    BY <1>1 DEF RxAt, TxAt, RxPlaces, TxPlaces
  <2>3. TxSame(c) /\ Direction(c, b)' /\ RxAt(b)' = "rx_last"
    BY <2>1, <2>2, RxSide DEF RxPlaces, TxPlaces
  <2>4. DStock(b)' /\ Done(b)' = Done(b)
    BY <2>1 DEF Direction, DStock, Done
  <2>5. drxs[b] = "DATA" /\ dtxs[c] = "IDLE"
    BY <2>2, Scalars DEF Control
  <2>6. Len(dfull[b]) >= 1
    BY <2>2, <2>5, Scalars DEF Sending
  <2>7. Lens[b][Done(b) + 1] \in Nat /\ dfull[b] # <<>> /\ Head(dfull[b]) = Done(b) + 1
    BY <2>6, InStock
  <2>8. Sending("DATA", "rx_out", drx_offset[b], dremaining[b], Done(b), Len(dfull[b]), ddata[b],
                ddlast[b], Lens[b])
        /\ Linked("IDLE", "DATA", "rx_out", dtx_offset[c], drx_offset[b], Done(b), Committed(c), Lens[b])
    BY <2>2, <2>5, Scalars
  <2>9. dtx_offset[c] \in Nat
    BY DNumbers
  <2>10. /\ Sending("DATA", "rx_last", drx_offset[b] + 1, dremaining[b], Done(b), Len(dfull[b]),
                    <<Done(b) + 1, drx_offset[b] + 1>>, ddlast[b], Lens[b])
         /\ drx_offset[b] < Lens[b][Done(b) + 1]
         /\ Linked("IDLE", "DATA", "rx_last", dtx_offset[c], drx_offset[b] + 1, Done(b), Committed(c),
                   Lens[b])
    BY <2>7, <2>8, <2>9, SendOut
  <2>11. ddata'[b] = <<Done(b) + 1, drx_offset[b] + 1>>
    BY <2>1, <2>7, <2>10 DEF Duplex!EP2FIFOBUF
  <2>12. Control(drxs[b], "rx_last", ddvalid[b], dtxs[c], TxAt(c), ddrdy[c])
    BY <2>2, Scalars, ControlRx
  <2>13. QED
    BY <2>1, <2>3, <2>4, <2>5, <2>10, <2>11, <2>12, RxMoves
<1>2. CASE dat[b] = "rx_last"
  <2> DEFINE rem == (dremaining[b] + 65535) % 65536
  <2>0. /\ Duplex!Goto(b, "rx_valid") /\ TxData(b) /\ TxData(c) /\ RxData(c)
        /\ drxs'[b] = drxs[b] /\ dremaining'[b] = rem /\ dfull'[b] = dfull[b]
        /\ dfree'[b] = dfree[b] /\ dsent'[b] = dsent[b]
        /\ ddvalid'[b] = ddvalid[b] /\ drx_offset'[b] = drx_offset[b]
        /\ ddata'[b] = ddata[b] /\ ddlast' = [ddlast EXCEPT ![b] = (dremaining'[b] = 0)]
    BY <1>2 DEF Duplex!RxByte, Duplex!Set, Pair, DDomains, Duplex!tx, Duplex!rx, Duplex!pins, Duplex!hosts,
                TxData, RxData
  <2> HIDE DEF rem
  <2>1. ddlast'[b] <=> rem = 0
    BY <2>0, ZeroAt DEF Pair, DDomains
  <2>2. RxAt(b) = "rx_last" /\ TxAt(b) = "none"
    BY <1>2 DEF RxAt, TxAt, RxPlaces, TxPlaces
  <2>3. TxSame(c) /\ Direction(c, b)' /\ RxAt(b)' = "rx_valid"
    BY <2>0, <2>1, <2>2, RxSide DEF RxPlaces, TxPlaces
  <2>4. DStock(b)' /\ Done(b)' = Done(b)
    BY <2>0 DEF Direction, DStock, Done
  <2>5. drxs[b] = "DATA"
    BY <2>2, Scalars DEF Control
  <2>6. Len(dfull[b]) >= 1
    BY <2>2, <2>5, Scalars DEF Sending
  <2>7. Lens[b][Done(b) + 1] \in Nat /\ Lens[b][Done(b) + 1] <= 512
    BY <2>6, InStock
  <2>8. Sending("DATA", "rx_last", drx_offset[b], dremaining[b], Done(b), Len(dfull[b]), ddata[b],
                ddlast[b], Lens[b])
        /\ Linked(dtxs[c], "DATA", "rx_last", dtx_offset[c], drx_offset[b], Done(b), Committed(c), Lens[b])
    BY <2>2, <2>5, Scalars
  <2>9. Sending("DATA", "rx_valid", drx_offset[b], rem, Done(b), Len(dfull[b]), ddata[b], ddlast'[b],
                Lens[b])
        /\ Linked(dtxs[c], "DATA", "rx_valid", dtx_offset[c], drx_offset[b], Done(b), Committed(c), Lens[b])
    <3>1. rem = (dremaining[b] + 65535) % 65536
      BY DEF rem
    <3>2. /\ rem \in Nat /\ rem = Lens[b][Done(b) + 1] - drx_offset[b]
          /\ rem = 0 <=> drx_offset[b] = Lens[b][Done(b) + 1]
      BY <2>7, <2>8, <3>1, SendLast
    <3>3. Sending("DATA", "rx_valid", drx_offset[b], rem, Done(b), Len(dfull[b]), ddata[b], ddlast'[b], Lens[b])
      BY <2>1, <2>8, <3>2 DEF Sending
    <3>4. Linked(dtxs[c], "DATA", "rx_valid", dtx_offset[c], drx_offset[b], Done(b), Committed(c), Lens[b])
      BY <2>8 DEF Linked
    <3>5. QED
      BY <3>3, <3>4
  <2>10. Control(drxs[b], "rx_valid", ddvalid[b], dtxs[c], TxAt(c), ddrdy[c])
    BY <2>2, Scalars, ControlRx
  <2>11. QED
    BY <2>0, <2>3, <2>4, <2>5, <2>9, <2>10, RxMoves
<1>3. CASE dat[b] = "rx_valid"
  <2>1. /\ Duplex!Goto(b, "sud") /\ TxData(b) /\ TxData(c) /\ RxData(c)
        /\ drxs'[b] = "ACK" /\ dremaining'[b] = dremaining[b] /\ dfull'[b] = dfull[b]
        /\ dfree'[b] = dfree[b] /\ dsent'[b] = dsent[b] /\ ddlast'[b] = ddlast[b]
        /\ ddvalid'[b] = TRUE /\ drx_offset'[b] = drx_offset[b]
        /\ ddata'[b] = ddata[b]
    BY <1>3 DEF Duplex!RxByte, Duplex!Set, Pair, DDomains, Duplex!tx, Duplex!rx, Duplex!pins, Duplex!hosts,
                TxData, RxData
  <2>2. RxAt(b) = "rx_valid" /\ TxAt(b) = "none"
    BY <1>3 DEF RxAt, TxAt, RxPlaces, TxPlaces
  <2>3. TxSame(c) /\ Direction(c, b)' /\ RxAt(b)' = "none"
    BY <2>1, <2>2, RxSide DEF RxPlaces, TxPlaces
  <2>4. DStock(b)' /\ Done(b)' = Done(b)
    BY <2>1 DEF Direction, DStock, Done
  <2>5. drxs[b] = "DATA" /\ dtxs[c] = "IDLE"
    BY <2>2, Scalars DEF Control
  <2>6. Sending("DATA", "rx_valid", drx_offset[b], dremaining[b], Done(b), Len(dfull[b]), ddata[b],
                ddlast[b], Lens[b])
        /\ Linked("IDLE", "DATA", "rx_valid", dtx_offset[c], drx_offset[b], Done(b), Committed(c), Lens[b])
    BY <2>2, <2>5, Scalars
  <2>7. Sending("ACK", "none", drx_offset[b], dremaining[b], Done(b), Len(dfull[b]), ddata[b],
                ddlast[b], Lens[b])
        /\ Linked("IDLE", "ACK", "none", dtx_offset[c], drx_offset[b], Done(b), Committed(c), Lens[b])
    BY <2>6, SendValid
  <2>8. Control("ACK", "none", TRUE, dtxs[c], TxAt(c), ddrdy[c])
    BY <2>2, Scalars, ControlRx
  <2>9. QED
    BY <2>1, <2>3, <2>4, <2>5, <2>7, <2>8, RxMoves
<1>4. dat[b] = "rx_out" \/ dat[b] = "rx_last" \/ dat[b] = "rx_valid"
  BY DEF Duplex!RxByte, Duplex!Set
<1>5. QED
  BY <1>1, <1>2, <1>3, <1>4

\* The first packet goes out of EP2.
LEMMA StockLess ==
  ASSUME NEW full, NEW free, NEW sent, NEW len, Stock(full, free, sent, len), full # <<>>
  PROVE  /\ Stock(Tail(full), free + 1, sent, len)
         /\ sent - Len(Tail(full)) = (sent - Len(full)) + 1
<1> DEFINE t == Tail(full)
           n == Len(full)
<1>1. full \in Seq(Nat) /\ n \in Nat /\ n # 0 /\ sent \in Nat /\ free \in Nat /\ n + free = 2
      /\ n <= sent /\ sent <= Len(len)
  BY EmptySeq DEF Stock
<1>2. t \in Seq(Nat) /\ Len(t) = n - 1 /\ \A k \in 1 .. n - 1 : t[k] = full[k + 1]
  BY <1>1
<1> HIDE DEF t, n
<1>3. \A k \in 1 .. n - 1 : k + 1 \in 1 .. n /\ sent - n + (k + 1) = sent - (n - 1) + k
  BY <1>1
<1>4. \A k \in 1 .. n - 1 : t[k] = sent - (n - 1) + k
  BY <1>2, <1>3 DEF Stock, n
<1>5. n - 1 \in Nat /\ (n - 1) + (free + 1) = 2 /\ n - 1 <= sent /\ sent - (n - 1) = (sent - n) + 1
      /\ free + 1 \in Nat
  BY <1>1
<1>6. Stock(t, free + 1, sent, len)
  BY <1>1, <1>2, <1>4, <1>5 DEF Stock
<1>7. QED
  BY <1>2, <1>5, <1>6 DEF t, n

LEMMA RxAckKeeps ==
  ASSUME NoEmptyPackets, NEW b, NEW c, Pair(b, c), DDomains, Direction(b, c), Direction(c, b),
         Duplex!RxAck(b)
  PROVE  Direction(b, c)' /\ Direction(c, b)'
<1>1. CASE dat[b] = "rx_unvalid"
  <2> DEFINE v == IF dremaining[b] # 0 THEN "sud" ELSE "rx_rearm"
  <2>1. /\ Duplex!Goto(b, v) /\ TxData(b) /\ TxData(c) /\ RxData(c)
        /\ drxs'[b] = (IF dremaining[b] # 0 THEN "DATA" ELSE "IDLE")
        /\ dremaining'[b] = dremaining[b] /\ dfull'[b] = dfull[b]
        /\ dfree'[b] = dfree[b] /\ dsent'[b] = dsent[b] /\ ddlast'[b] = ddlast[b]
        /\ ddvalid'[b] = FALSE /\ drx_offset'[b] = drx_offset[b]
        /\ ddata'[b] = ddata[b]
    BY <1>1 DEF Duplex!RxAck, Duplex!Set, Pair, DDomains, Duplex!tx, Duplex!rx, Duplex!pins, Duplex!hosts,
                TxData, RxData
  <2>2. RxAt(b) = "rx_unvalid" /\ TxAt(b) = "none"
    BY <1>1 DEF RxAt, TxAt, RxPlaces, TxPlaces
  <2>3. v \notin TxPlaces /\ (IF v \in RxPlaces THEN v ELSE "none") =
                               (IF dremaining[b] # 0 THEN "none" ELSE "rx_rearm")
    BY DEF TxPlaces, RxPlaces
  <2> HIDE DEF v
  <2>4. TxSame(c) /\ Direction(c, b)' /\ RxAt(b)' = (IF dremaining[b] # 0 THEN "none" ELSE "rx_rearm")
    BY <2>1, <2>2, <2>3, RxSide
  <2>5. DStock(b)' /\ Done(b)' = Done(b)
    BY <2>1 DEF Direction, DStock, Done
  <2>6. drxs[b] = "ACK" /\ dtxs[c] = "ACK"
    BY <2>2, Scalars DEF Control
  <2>7. Len(dfull[b]) >= 1
    BY <2>6, Scalars DEF Sending
  <2>8. Lens[b][Done(b) + 1] \in Nat
    BY <2>7, InStock
  <2>9. Sending("ACK", "rx_unvalid", drx_offset[b], dremaining[b], Done(b), Len(dfull[b]), ddata[b],
                ddlast[b], Lens[b])
        /\ Linked("ACK", "ACK", "rx_unvalid", dtx_offset[c], drx_offset[b], Done(b), Committed(c), Lens[b])
    BY <2>2, <2>6, Scalars
  <2>10. /\ dremaining[b] # 0 =>
              Sending("DATA", "none", drx_offset[b], dremaining[b], Done(b), Len(dfull[b]), ddata[b],
                      ddlast[b], Lens[b])
         /\ dremaining[b] = 0 =>
              Sending("IDLE", "rx_rearm", drx_offset[b], dremaining[b], Done(b), Len(dfull[b]), ddata[b],
                      ddlast[b], Lens[b])
         /\ Linked("ACK", "DATA", "none", dtx_offset[c], drx_offset[b], Done(b), Committed(c), Lens[b])
         /\ Linked("ACK", "IDLE", "rx_rearm", dtx_offset[c], drx_offset[b], Done(b), Committed(c), Lens[b])
    BY <2>8, <2>9, SendUnvalid
  <2>11. /\ Control("DATA", "none", FALSE, dtxs[c], TxAt(c), ddrdy[c])
         /\ Control("IDLE", "rx_rearm", FALSE, dtxs[c], TxAt(c), ddrdy[c])
    BY <2>2, Scalars, ControlRx
  <2>12. CASE dremaining[b] # 0
    BY <2>1, <2>4, <2>5, <2>6, <2>10, <2>11, <2>12, RxMoves
  <2>13. CASE dremaining[b] = 0
    BY <2>1, <2>4, <2>5, <2>6, <2>10, <2>11, <2>13, RxMoves
  <2>14. QED
    BY <2>12, <2>13
<1>2. CASE dat[b] = "rx_rearm"
  <2>1. RxAt(b) = "rx_rearm" /\ TxAt(b) = "none"
    BY <1>2 DEF RxAt, TxAt, RxPlaces, TxPlaces
  <2>2. drxs[b] = "IDLE"
    BY <2>1, Scalars DEF Control
  <2>3. Len(dfull[b]) >= 1
    BY <2>1, Scalars DEF Sending
  <2>4. dfull[b] # <<>>
    BY <2>3, InStock
  <2>5. /\ Duplex!Goto(b, "sud") /\ TxData(b) /\ TxData(c) /\ RxData(c)
        /\ drxs'[b] = drxs[b] /\ dremaining'[b] = dremaining[b] /\ dfull'[b] = Tail(dfull[b])
        /\ dfree'[b] = dfree[b] + 1 /\ dsent'[b] = dsent[b] /\ ddlast'[b] = ddlast[b]
        /\ ddvalid'[b] = ddvalid[b] /\ drx_offset'[b] = drx_offset[b]
        /\ ddata'[b] = ddata[b]
    BY <1>2, <2>4 DEF Duplex!RxAck, Duplex!Set, Pair, DDomains, Duplex!tx, Duplex!rx, Duplex!pins, Duplex!hosts,
                TxData, RxData
  <2>6. TxSame(c) /\ Direction(c, b)' /\ RxAt(b)' = "none"
    BY <2>1, <2>5, RxSide DEF RxPlaces, TxPlaces
  <2>7. Stock(dfull'[b], dfree'[b], dsent'[b], Lens[b]) /\ Done(b)' = Done(b) + 1
    <3>1. Stock(dfull[b], dfree[b], dsent[b], Lens[b])
      BY DEF Direction, DStock
    <3>2. /\ Stock(Tail(dfull[b]), dfree[b] + 1, dsent[b], Lens[b])
          /\ dsent[b] - Len(Tail(dfull[b])) = (dsent[b] - Len(dfull[b])) + 1
      BY <2>4, <3>1, StockLess
    <3>3. QED
      BY <2>5, <3>2 DEF Done
  <2>8. Sending("IDLE", "rx_rearm", drx_offset[b], dremaining[b], Done(b), Len(dfull[b]), ddata[b],
                ddlast[b], Lens[b])
        /\ Linked(dtxs[c], "IDLE", "rx_rearm", dtx_offset[c], drx_offset[b], Done(b), Committed(c), Lens[b])
    BY <2>1, <2>2, Scalars
  <2>9. Done(b) \in Nat /\ Committed(c) \in Nat
    BY DNumbers
  <2>10. Sending("IDLE", "none", drx_offset[b], dremaining[b], Done(b) + 1, Len(dfull'[b]), ddata[b],
                 ddlast[b], Lens[b])
         /\ Linked(dtxs[c], "IDLE", "none", dtx_offset[c], drx_offset[b], Done(b) + 1, Committed(c),
                   Lens[b])
    BY <2>8, <2>9, SendRearm
  <2>11. Control(drxs[b], "none", ddvalid[b], dtxs[c], TxAt(c), ddrdy[c])
    BY Scalars, ControlRx
  <2>12. QED
    BY <2>2, <2>5, <2>6, <2>7, <2>10, <2>11, RxMoves DEF DStock
<1>3. QED
  BY <1>1, <1>2 DEF Duplex!RxAck

-----------------------------------------------------------------------------
(* The hosts and the flush.                                                *)

LEMMA SamePlaces ==
  ASSUME NEW b, dat'[b] = dat[b]
  PROVE  RxAt(b)' = RxAt(b) /\ TxAt(b)' = TxAt(b)
  BY DEF RxAt, TxAt

LEMMA StockMore ==
  ASSUME NEW full, NEW free, NEW sent, NEW len, Len(len) \in Nat, Stock(full, free, sent, len),
         free > 0, sent < Len(len)
  PROVE  /\ Stock(Append(full, sent + 1), free - 1, sent + 1, len)
         /\ Len(Append(full, sent + 1)) = Len(full) + 1
         /\ (sent + 1) - Len(Append(full, sent + 1)) = sent - Len(full)
<1> DEFINE t == Append(full, sent + 1)
           n == Len(full)
           L == Len(len)
<1>1. full \in Seq(Nat) /\ n \in Nat /\ sent \in Nat /\ free \in Nat /\ n + free = 2
      /\ n <= sent /\ sent < L /\ L \in Nat /\ free > 0
  BY DEF Stock
<1>2. sent + 1 \in Nat
  BY <1>1
<1>3. t \in Seq(Nat) /\ Len(t) = n + 1 /\ t[n + 1] = sent + 1 /\ \A k \in 1 .. n : t[k] = full[k]
  BY <1>1, <1>2
<1>4. \A k \in 1 .. n : full[k] = sent - n + k
  BY DEF Stock
<1> HIDE DEF t, n, L
<1>5. /\ \A k \in 1 .. n + 1 : k \in 1 .. n \/ k = n + 1
      /\ (sent + 1) - (n + 1) = sent - n /\ sent - n + (n + 1) = sent + 1
  BY <1>1
<1>6. \A k \in 1 .. n + 1 : t[k] = (sent + 1) - (n + 1) + k
  BY <1>3, <1>4, <1>5
<1>7. /\ n + 1 \in Nat /\ (n + 1) + (free - 1) = 2 /\ free - 1 \in Nat /\ n + 1 <= sent + 1 /\ sent + 1 <= L
  BY <1>1
<1>8. Stock(t, free - 1, sent + 1, len)
  BY <1>2, <1>3, <1>6, <1>7 DEF Stock, L
<1>9. QED
  BY <1>3, <1>5, <1>8 DEF t, n

LEMMA HostSendKeeps ==
  ASSUME NoEmptyPackets, NEW b, NEW c, Pair(b, c), DDomains, Direction(b, c), Direction(c, b),
         Duplex!HostSend(b)
  PROVE  Direction(b, c)' /\ Direction(c, b)'
<1>1. /\ dat' = dat /\ TxData(b) /\ TxData(c) /\ RxData(c)
      /\ drxs'[b] = drxs[b] /\ dremaining'[b] = dremaining[b] /\ drx_offset'[b] = drx_offset[b]
      /\ ddlast'[b] = ddlast[b] /\ ddvalid'[b] = ddvalid[b] /\ ddata'[b] = ddata[b]
      /\ dfull'[b] = Append(dfull[b], dsent[b] + 1) /\ dfree'[b] = dfree[b] - 1
      /\ dsent'[b] = dsent[b] + 1 /\ dfree[b] > 0 /\ dsent[b] < Len(Lens[b])
  BY DEF Duplex!HostSend, Duplex!Set, Pair, DDomains, Duplex!tx, Duplex!pins, TxData, RxData
<1>2. RxAt(b)' = RxAt(b) /\ TxSame(b) /\ TxSame(c) /\ RxSame(c)
  BY <1>1, SamePlaces DEF TxSame, RxSame
<1>3. Direction(c, b)'
  BY <1>2, DKept
<1>4. /\ Stock(dfull'[b], dfree'[b], dsent'[b], Lens[b]) /\ Len(dfull'[b]) = Len(dfull[b]) + 1
      /\ Done(b)' = Done(b)
  <2>1. Stock(dfull[b], dfree[b], dsent[b], Lens[b]) /\ Len(Lens[b]) \in Nat
    BY Scalars, DLens DEF DStock, Pair
  <2>2. /\ Stock(Append(dfull[b], dsent[b] + 1), dfree[b] - 1, dsent[b] + 1, Lens[b])
        /\ Len(Append(dfull[b], dsent[b] + 1)) = Len(dfull[b]) + 1
        /\ (dsent[b] + 1) - Len(Append(dfull[b], dsent[b] + 1)) = dsent[b] - Len(dfull[b])
    BY <1>1, <2>1, StockMore
  <2>3. QED
    BY <1>1, <2>2 DEF Done
<1>5. Sending(drxs[b], RxAt(b), drx_offset[b], dremaining[b], Done(b), Len(dfull'[b]), ddata[b],
              ddlast[b], Lens[b])
  <2>1. Len(dfull[b]) \in Nat
    BY DNumbers
  <2>2. Sending(drxs[b], RxAt(b), drx_offset[b], dremaining[b], Done(b), Len(dfull[b]) + 1, ddata[b],
                ddlast[b], Lens[b])
    BY <2>1, Scalars, SendMore
  <2>3. QED
    BY <1>4, <2>2
<1>6. QED
  BY <1>1, <1>2, <1>3, <1>4, <1>5, Scalars, RxMoves DEF DStock

\* A packet comes out of EP6.
LEMMA ArrivedLess ==
  ASSUME NEW ep6, NEW received, NEW s, Arrived(ep6, received, s), ep6 # <<>>
  PROVE  /\ Arrived(Tail(ep6), received + 1, s) /\ Len(ep6) \in Nat /\ Len(ep6) >= 1
         /\ Len(Tail(ep6)) = Len(ep6) - 1
         /\ (received + 1) + Len(Tail(ep6)) = received + Len(ep6)
<1> DEFINE P == Seq(Nat \X Nat)
           t == Tail(ep6)
           n == Len(ep6)
<1>1. ep6 \in Seq(P) /\ n \in Nat /\ n # 0 /\ received \in Nat
  BY EmptySeq DEF Arrived
<1> HIDE DEF P
<1>2. t \in Seq(P) /\ Len(t) = n - 1 /\ \A k \in 1 .. n - 1 : t[k] = ep6[k + 1]
  BY <1>1
<1> HIDE DEF t
<1>3. \A k \in 1 .. n : ep6[k] = Duplex!Packet(s, received + k)
  BY DEF Arrived
<1> HIDE DEF n
<1>4. \A k \in 1 .. n - 1 : k + 1 \in 1 .. n /\ received + (k + 1) = (received + 1) + k
  BY <1>1
<1>5. \A k \in 1 .. n - 1 : t[k] = Duplex!Packet(s, (received + 1) + k)
  BY <1>2, <1>3, <1>4
<1>6. received + 1 \in Nat /\ n >= 1 /\ (received + 1) + (n - 1) = received + n
  BY <1>1
<1>7. Arrived(t, received + 1, s)
  BY <1>2, <1>5, <1>6 DEF Arrived, P
<1>8. QED
  BY <1>1, <1>2, <1>6, <1>7 DEF t, n

LEMMA ReceiveLess ==
  ASSUME NEW txs, NEW c, NEW t, NEW last, NEW buf6, NEW m, NEW e \in Nat, NEW rdy, NEW len, e >= 1,
         Receiving(txs, c, t, last, buf6, m, e, rdy, len)
  PROVE  Receiving(txs, c, t, last, buf6, m, e - 1, rdy, len)
<1>1. e <= 2 /\ e - 1 <= 2 /\ e - 1 < 2
  BY DEF Receiving
<1>2. QED
  BY <1>1 DEF Receiving

LEMMA HostReadKeeps ==
  ASSUME NEW b, NEW c, Pair(b, c), DDomains, Direction(b, c), Direction(c, b), Duplex!HostRead(b)
  PROVE  Direction(b, c)' /\ Direction(c, b)'
<1>1. /\ dat' = dat /\ RxData(b) /\ RxData(c) /\ TxData(c)
      /\ dtxs'[b] = dtxs[b] /\ dtx_offset'[b] = dtx_offset[b] /\ dlast'[b] = dlast[b]
      /\ dbuf6'[b] = dbuf6[b] /\ ddrdy'[b] = ddrdy[b]
      /\ dep6[b] # <<>> /\ dep6'[b] = Tail(dep6[b]) /\ dreceived'[b] = dreceived[b] + 1
  BY DEF Duplex!HostRead, Duplex!Set, Pair, DDomains, Duplex!rx, Duplex!pins, TxData, RxData
<1>2. TxAt(b)' = TxAt(b) /\ RxSame(b) /\ TxSame(c) /\ RxSame(c)
  BY <1>1, SamePlaces DEF TxSame, RxSame
<1>3. Direction(b, c)'
  BY <1>2, DKept
<1>4. /\ DArrived(c, b)' /\ Len(dep6[b]) \in Nat /\ Len(dep6[b]) >= 1 /\ Len(dep6'[b]) = Len(dep6[b]) - 1
      /\ Committed(b)' = Committed(b)
  <2>1. Arrived(dep6[b], dreceived[b], c)
    BY DEF Direction, DArrived
  <2>2. /\ Arrived(Tail(dep6[b]), dreceived[b] + 1, c) /\ Len(dep6[b]) \in Nat /\ Len(dep6[b]) >= 1
        /\ Len(Tail(dep6[b])) = Len(dep6[b]) - 1
        /\ (dreceived[b] + 1) + Len(Tail(dep6[b])) = dreceived[b] + Len(dep6[b])
    BY <1>1, <2>1, ArrivedLess
  <2>3. QED
    BY <1>1, <2>2 DEF DArrived, Committed
<1>5. DReceiving(c, b)'
  <2>1. Receiving(dtxs[b], TxAt(b), dtx_offset[b], dlast[b], dbuf6[b], Committed(b), Len(dep6[b]),
                  ddrdy[b], Lens[c])
    BY DEF Direction, DReceiving
  <2>2. Receiving(dtxs[b], TxAt(b), dtx_offset[b], dlast[b], dbuf6[b], Committed(b), Len(dep6[b]) - 1,
                  ddrdy[b], Lens[c])
    BY <1>4, <2>1, ReceiveLess
  <2>3. QED
    BY <1>1, <1>2, <1>4, <2>2 DEF DReceiving
<1>6. DControl(c, b)'
  BY <1>1, <1>2 DEF Direction, DControl, RxSame, RxData
<1>7. DStock(c)' /\ DSending(c)' /\ Done(c)' = Done(c)
  BY <1>2, SenderKept DEF Direction
<1>8. DLinked(c, b)'
  BY <1>1, <1>2, <1>4, <1>7 DEF Direction, DLinked, RxSame, RxData
<1>9. QED
  BY <1>3, <1>4, <1>5, <1>6, <1>7, <1>8 DEF Direction

LEMMA NotAhead ==
  ASSUME NEW h \in Nat, NEW m \in Nat, NEW n \in Nat, NEW sent, h + n = sent,
         h = m \/ h = m + 1 \/ (h + 1 = m /\ n >= 1)
  PROVE  m <= sent
  OBVIOUS

\* No packet is committed that was not sent.
LEMMA CommittedSent ==
  ASSUME NEW s, NEW r, Direction(s, r)
  PROVE  Committed(r) <= dsent[s]
<1>1. /\ Done(s) \in Nat /\ Committed(r) \in Nat /\ Len(dfull[s]) \in Nat
      /\ Done(s) + Len(dfull[s]) = dsent[s]
  BY DNumbers
<1>2. RxAt(s) = "rx_rearm" => Len(dfull[s]) >= 1
  BY Scalars DEF Sending
<1>3. /\ Control(drxs[s], RxAt(s), ddvalid[s], dtxs[r], TxAt(r), ddrdy[r])
      /\ Linked(dtxs[r], drxs[s], RxAt(s), dtx_offset[r], drx_offset[s], Done(s), Committed(r), Lens[s])
  BY Scalars
<1>4. \/ Done(s) = Committed(r) \/ Done(s) = Committed(r) + 1
      \/ Done(s) + 1 = Committed(r) /\ RxAt(s) = "rx_rearm"
  BY <1>3 DEF Control, Linked
<1>5. QED
  BY <1>1, <1>2, <1>4, NotAhead

LEMMA TestGotSudKeeps ==
  ASSUME NEW b, NEW c, Pair(b, c), DDomains, Direction(b, c), Direction(c, b),
         dgot_sud[b] => dsent[b] = 0 /\ dsent[c] = 0, Duplex!TestGotSud(b)
  PROVE  Direction(b, c)' /\ Direction(c, b)'
<1>1. /\ dat[b] = "sud" /\ Duplex!Goto(b, "tx")
  BY DEF Duplex!TestGotSud
<1>2. RxAt(b)' = RxAt(b) /\ TxAt(b)' = TxAt(b) /\ RxAt(c)' = RxAt(c) /\ TxAt(c)' = TxAt(c)
  <2>1. RxAt(b) = "none" /\ TxAt(b) = "none"
    BY <1>1 DEF RxAt, TxAt, RxPlaces, TxPlaces
  <2>2. QED
    BY <1>1, <2>1, Places DEF RxPlaces, TxPlaces
<1>3. RxData(c) /\ TxData(c)
  BY DEF Duplex!TestGotSud, Duplex!Set, Pair, DDomains, Duplex!pins, Duplex!hosts, TxData, RxData
<1>4. RxData(b) /\ TxData(b)
  <2>1. CASE dgot_sud[b]
    <3>1. dfull[b] = <<>> /\ dfree[b] = 2
      <4>1. dfull[b] \in Seq(Nat) /\ Len(dfull[b]) <= dsent[b] /\ Len(dfull[b]) + dfree[b] = 2
            /\ dfree[b] \in Nat
        BY Scalars DEF DStock, Stock
      <4>2. Len(dfull[b]) = 0
        BY <2>1, <4>1
      <4>3. QED
        BY <4>1, <4>2, EmptySeq
    <3>2. dep6[b] = <<>>
      <4>1. dep6[b] \in Seq(Seq(Nat \X Nat)) /\ dreceived[b] \in Nat
        BY DEF Direction, DArrived, Arrived
      <4>2. dreceived[b] + Len(dep6[b]) <= 0
        BY <2>1, CommittedSent DEF Committed
      <4>3. Len(dep6[b]) \in Nat
        BY <4>1
      <4>4. Len(dep6[b]) = 0
        BY <4>1, <4>2, <4>3
      <4>5. QED
        BY <4>1, <4>4, EmptySeq
    <3>3. dfull'[b] = <<>> /\ dfree'[b] = 2 /\ dep6'[b] = <<>>
      BY <2>1 DEF Duplex!TestGotSud, Duplex!Set, Pair, DDomains, Duplex!BUFFERS
    <3>4. QED
      BY <3>1, <3>2, <3>3 DEF Duplex!TestGotSud, Duplex!pins, Duplex!hosts, TxData, RxData
  <2>2. CASE ~dgot_sud[b]
    BY <2>2 DEF Duplex!TestGotSud, Duplex!pins, Duplex!hosts, TxData, RxData
  <2>3. QED
    BY <2>1, <2>2
<1>5. RxSame(b) /\ RxSame(c) /\ TxSame(b) /\ TxSame(c)
  BY <1>2, <1>3, <1>4 DEF RxSame, TxSame
<1>6. QED
  BY <1>5, DKept

LEMMA HostSetupKeeps ==
  ASSUME NEW b, NEW c, Pair(b, c), Direction(b, c), Direction(c, b), Duplex!HostSetup(b)
  PROVE  Direction(b, c)' /\ Direction(c, b)'
<1>1. dat' = dat /\ RxData(b) /\ TxData(b) /\ RxData(c) /\ TxData(c)
  BY DEF Duplex!HostSetup, Duplex!tx, Duplex!rx, Duplex!pins, TxData, RxData
<1>2. RxSame(b) /\ RxSame(c) /\ TxSame(b) /\ TxSame(c)
  BY <1>1, SamePlaces DEF RxSame, TxSame
<1>3. QED
  BY <1>2, DKept

-----------------------------------------------------------------------------
LEMMA SetupKept ==
  ASSUME DDomains, DSetup, NEW b \in Duplex!Boards,
         Duplex!HostSend(b) \/ Duplex!HostRead(b) \/ Duplex!HostSetup(b) \/ Duplex!Loop(b)
  PROVE  DSetup'
<1>1. CASE Duplex!HostSend(b)
  <2>1. \A x \in Duplex!Boards : ~dgot_sud'[x]
    BY <1>1 DEF Duplex!HostSend
  <2>2. QED
    BY <2>1 DEF DSetup
<1>2. CASE Duplex!HostSetup(b)
  <2>1. dsent' = dsent /\ \A x \in Duplex!Boards : dsent[x] = 0
    BY <1>2 DEF Duplex!HostSetup
  <2>2. QED
    BY <2>1 DEF DSetup
<1>3. CASE Duplex!TestGotSud(b)
  <2>1. dsent' = dsent /\ \A x \in Duplex!Boards : dgot_sud'[x] => dgot_sud[x]
    BY <1>3 DEF Duplex!TestGotSud, Duplex!Set, DDomains, Duplex!hosts
  <2>2. QED
    BY <2>1 DEF DSetup
<1>4. CASE Duplex!HostRead(b) \/ (Duplex!Loop(b) /\ ~Duplex!TestGotSud(b))
  <2>1. dsent' = dsent /\ dgot_sud' = dgot_sud
    <3>1. CASE Duplex!RxByte(b)
      BY <3>1 DEF Duplex!RxByte, Duplex!Set, Duplex!hosts
    <3>2. CASE Duplex!HostRead(b) \/ Duplex!TxTest(b) \/ Duplex!TxReady(b)
      BY <3>2 DEF Duplex!HostRead, Duplex!TxTest, Duplex!TxReady, Duplex!hosts
    <3>3. CASE Duplex!TxByte(b) \/ Duplex!TxAck(b)
      BY <3>3 DEF Duplex!TxByte, Duplex!TxAck, Duplex!hosts
    <3>4. CASE Duplex!RxTest(b) \/ Duplex!RxAck(b)
      BY <3>4 DEF Duplex!RxTest, Duplex!RxAck, Duplex!hosts
    <3>5. QED
      BY <1>4, <3>1, <3>2, <3>3, <3>4 DEF Duplex!Loop
  <2>2. QED
    BY <2>1 DEF DSetup
<1>5. QED
  BY <1>1, <1>2, <1>3, <1>4 DEF Duplex!Loop

LEMMA NextDuplex ==
  ASSUME NoEmptyPackets, DuplexInv, Duplex!Next \/ UNCHANGED duplex
  PROVE  DuplexInv'
<1>1. CASE UNCHANGED duplex
  <2>1. DDomains' /\ DSetup'
    BY <1>1 DEF DuplexInv, DDomains, DSetup, duplex
  <2>2. ASSUME NEW s \in Duplex!Boards PROVE Direction(s, Duplex!Peer(s))'
    <3>1. RxSame(s) /\ TxSame(Duplex!Peer(s))
      BY <1>1 DEF duplex, RxSame, TxSame, RxAt, TxAt, RxData, TxData
    <3>2. QED
      BY <3>1, DKept DEF DuplexInv
  <2>3. QED
    BY <2>1, <2>2 DEF DuplexInv
<1>2. CASE Duplex!Next
  <2>1. PICK b \in Duplex!Boards :
          Duplex!HostSend(b) \/ Duplex!HostRead(b) \/ Duplex!HostSetup(b) \/ Duplex!Loop(b)
    BY <1>2 DEF Duplex!Next
  <2>2. PICK c : c = Duplex!Peer(b)
    OBVIOUS
  <2>3. Pair(b, c)
    BY <2>2, DBoards DEF Pair
  <2>4. DDomains /\ DDomains' /\ Direction(b, c) /\ Direction(c, b)
    BY <2>1, <2>2, <2>3, DomainsKept DEF DuplexInv, Pair
  <2>5. dgot_sud[b] => dsent[b] = 0 /\ dsent[c] = 0
    BY <2>3 DEF DuplexInv, DSetup, Pair
  <2>6. Direction(b, c)' /\ Direction(c, b)'
    BY <2>1, <2>3, <2>4, <2>5, HostSendKeeps, HostReadKeeps, HostSetupKeeps, TestGotSudKeeps, TxTestKeeps,
       TxReadyKeeps, TxByteKeeps, TxAckKeeps, RxTestKeeps, RxByteKeeps, RxAckKeeps DEF Duplex!Loop
  <2>7. \A s \in Duplex!Boards : Direction(s, Duplex!Peer(s))'
    <3>1. \A s \in Duplex!Boards : s = b \/ s = c
      BY <2>2, DBoards
    <3>2. QED
      BY <2>3, <2>6, <3>1 DEF Pair
  <2>8. DSetup'
    BY <2>1, SetupKept DEF DuplexInv
  <2>9. QED
    BY <2>4, <2>7, <2>8 DEF DuplexInv
<1>3. QED
  BY <1>1, <1>2

-----------------------------------------------------------------------------
(* Ranges and flags.                                                       *)

DRanges == \A b \in Duplex!Boards : drx_offset[b] \in 0 .. 512 /\ dremaining[b] \in 0 .. 512

Flags == [Duplex!Boards -> BOOLEAN]
DFlags ==
    dgot_sud \in Flags /\ dlast \in Flags /\ ddvalid \in Flags /\ ddlast \in Flags /\ ddrdy \in Flags

LEMMA InitDuplex ==
  ASSUME Duplex!Init
  PROVE  DuplexInv /\ DRanges /\ DFlags
<1> USE DEF Duplex!Init, Duplex!All
<1>1. DDomains
  BY DEF DDomains
<1>2. DSetup
  BY DEF DSetup
<1>3. DRanges
  BY DEF DRanges
<1>4. DFlags
  BY DEF DFlags, Flags
<1>5. ASSUME NEW s \in Duplex!Boards, NEW r \in Duplex!Boards PROVE Direction(s, r)
  <2>1. RxAt(s) = "none" /\ TxAt(r) = "none"
    BY DEF RxAt, TxAt, RxPlaces, TxPlaces
  <2>2. Lens[s] \in Seq(0 .. 512) /\ Len(Lens[s]) \in Nat
    BY StreamsAssumption DEF Duplex!FullDuplexAssumption
  <2>3. Done(s) = 0 /\ Committed(r) = 0
    BY DEF Done, Committed
  <2>4. /\ dtxs[r] = "IDLE" /\ dtx_offset[r] = 0 /\ dbuf6[r] = <<>> /\ ddrdy[r] = FALSE
        /\ dep6[r] = <<>> /\ dreceived[r] = 0
        /\ drxs[s] = "IDLE" /\ drx_offset[s] = 0 /\ dremaining[s] = 0 /\ ddvalid[s] = FALSE
        /\ dfull[s] = <<>> /\ dfree[s] = 2 /\ dsent[s] = 0
    BY DEF Duplex!BUFFERS
  <2> HIDE DEF Duplex!Init
  <2>5. DControl(s, r)
    BY <2>1, <2>4 DEF DControl, Control
  <2>6. DStock(s)
    BY <2>2, <2>4 DEF DStock, Stock
  <2>7. DSending(s)
    BY <2>1, <2>4 DEF DSending, Sending
  <2>8. DArrived(s, r)
    BY <2>4 DEF DArrived, Arrived
  <2>9. DReceiving(s, r)
    BY <2>1, <2>3, <2>4 DEF DReceiving, Receiving, Bytes
  <2>10. DLinked(s, r)
    BY <2>1, <2>3, <2>4 DEF DLinked, Linked
  <2>11. QED
    BY <2>5, <2>6, <2>7, <2>8, <2>9, <2>10 DEF Direction
<1>6. QED
  BY <1>1, <1>2, <1>3, <1>4, <1>5, DBoards DEF DuplexInv

LEMMA RangesKept ==
  ASSUME NoEmptyPackets, DuplexInv, DRanges, Duplex!Next \/ UNCHANGED duplex
  PROVE  DRanges'
<1>1. CASE UNCHANGED duplex
  BY <1>1 DEF DRanges, duplex
<1>2. CASE Duplex!Next
  <2>1. PICK b \in Duplex!Boards :
          Duplex!HostSend(b) \/ Duplex!HostRead(b) \/ Duplex!HostSetup(b) \/ Duplex!Loop(b)
    BY <1>2 DEF Duplex!Next
  <2>2. PICK c : c = Duplex!Peer(b)
    OBVIOUS
  <2>3. Pair(b, c) /\ DDomains /\ Direction(b, c)
    BY <2>2, DBoards DEF Pair, DuplexInv
  <2>4. CASE UNCHANGED <<drx_offset, dremaining>>
    BY <2>4 DEF DRanges
  <2>5. CASE Duplex!RxTest(b) /\ drxs[b] = "IDLE" /\ dfull[b] # <<>>
    <3>1. /\ drx_offset' = [drx_offset EXCEPT ![b] = 0]
          /\ dremaining' = [dremaining EXCEPT ![b] = Lens[b][Head(dfull[b])]]
      BY <2>5 DEF Duplex!RxTest, Duplex!Set
    <3>2. Lens[b][Head(dfull[b])] \in 0 .. 512
      <4>1. /\ Head(dfull[b]) = Done(b) + 1
            /\ Lens[b][Done(b) + 1] \in Nat /\ Lens[b][Done(b) + 1] <= 512
        BY <2>3, <2>5, InStock
      <4>2. Lens[b][Done(b) + 1] \in 0 .. 512
        BY <4>1
      <4>3. QED
        BY <4>1, <4>2
    <3>3. QED
      <4>1. /\ \A x \in Duplex!Boards : drx_offset[x] \in 0 .. 512 /\ dremaining[x] \in 0 .. 512
            /\ DOMAIN drx_offset = Duplex!Boards /\ DOMAIN dremaining = Duplex!Boards
        BY <2>3 DEF DRanges, DDomains
      <4>2. \A x \in Duplex!Boards : dremaining'[x] \in 0 .. 512
        <5>1. \A x \in Duplex!Boards : dremaining'[x] = (IF x = b THEN Lens[b][Head(dfull[b])] ELSE dremaining[x])
          BY <3>1, <4>1
        <5>2. QED
          BY <3>2, <4>1, <5>1
      <4>3. \A x \in Duplex!Boards : drx_offset'[x] \in 0 .. 512
        BY <3>1, <4>1
      <4>4. QED
        BY <4>2, <4>3 DEF DRanges
  <2>6. CASE Duplex!RxByte(b) /\ dat[b] = "rx_out"
    <3>1. drx_offset' = [drx_offset EXCEPT ![b] = drx_offset[b] + 1] /\ dremaining' = dremaining
      BY <2>6 DEF Duplex!RxByte, Duplex!Set
    <3>2. RxAt(b) = "rx_out"
      BY <2>6 DEF RxAt, RxPlaces
    <3>3. drxs[b] = "DATA"
      BY <2>3, <3>2, Scalars DEF Control
    <3>4. Len(dfull[b]) >= 1 /\ drx_offset[b] < Lens[b][Done(b) + 1]
      BY <2>3, <3>2, <3>3, Scalars DEF Sending
    <3>5. Lens[b][Done(b) + 1] \in Nat /\ Lens[b][Done(b) + 1] <= 512 /\ drx_offset[b] \in Nat
      BY <2>3, <3>4, InStock, DNumbers
    <3>6. drx_offset[b] + 1 \in 0 .. 512
      <4>1. PICK l : l = Lens[b][Done(b) + 1]
        OBVIOUS
      <4>2. l \in Nat /\ l <= 512 /\ drx_offset[b] \in Nat /\ drx_offset[b] < l
        BY <3>4, <3>5, <4>1
      <4>3. QED
        BY <4>2
    <3>7. QED
      BY <2>3, <3>1, <3>6 DEF DRanges, DDomains
  <2>7. CASE Duplex!RxByte(b) /\ dat[b] = "rx_last"
    <3> DEFINE rem == (dremaining[b] + 65535) % 65536
    <3>1. dremaining' = [dremaining EXCEPT ![b] = rem] /\ drx_offset' = drx_offset
      BY <2>7 DEF Duplex!RxByte, Duplex!Set
    <3> HIDE DEF rem
    <3>2. RxAt(b) = "rx_last"
      BY <2>7 DEF RxAt, RxPlaces
    <3>3. drxs[b] = "DATA"
      BY <2>3, <3>2, Scalars DEF Control
    <3>4. Len(dfull[b]) >= 1
      BY <2>3, <3>3, Scalars DEF Sending
    <3>5. Lens[b][Done(b) + 1] \in Nat /\ Lens[b][Done(b) + 1] <= 512 /\ drx_offset[b] \in Nat
      BY <2>3, <3>4, InStock, DNumbers
    <3>6. Sending("DATA", "rx_last", drx_offset[b], dremaining[b], Done(b), Len(dfull[b]), ddata[b],
                  ddlast[b], Lens[b])
      BY <2>3, <3>2, <3>3, Scalars
    <3>7. rem = (dremaining[b] + 65535) % 65536
      BY DEF rem
    <3>8. rem \in Nat /\ rem = Lens[b][Done(b) + 1] - drx_offset[b]
      BY <3>5, <3>6, <3>7, SendLast
    <3>9. rem \in 0 .. 512
      BY <3>5, <3>8
    <3>10. QED
      BY <2>3, <3>1, <3>9 DEF DRanges, DDomains
  <2>8. CASE /\ ~(Duplex!RxTest(b) /\ drxs[b] = "IDLE" /\ dfull[b] # <<>>)
             /\ ~(Duplex!RxByte(b) /\ dat[b] \in {"rx_out", "rx_last"})
    <3>1. CASE Duplex!RxTest(b)
      BY <2>4, <2>8, <3>1 DEF Duplex!RxTest
    <3>2. CASE Duplex!RxByte(b)
      BY <2>4, <2>8, <3>2 DEF Duplex!RxByte, Duplex!Set
    <3>3. CASE Duplex!RxAck(b)
      BY <2>4, <3>3 DEF Duplex!RxAck
    <3>4. CASE Duplex!TxTest(b) \/ Duplex!TxReady(b)
      BY <2>4, <3>4 DEF Duplex!TxTest, Duplex!TxReady, Duplex!rx
    <3>5. CASE Duplex!TxByte(b) \/ Duplex!TxAck(b)
      BY <2>4, <3>5 DEF Duplex!TxByte, Duplex!TxAck, Duplex!rx
    <3>6. CASE Duplex!HostSend(b) \/ Duplex!HostRead(b) \/ Duplex!HostSetup(b) \/ Duplex!TestGotSud(b)
      BY <2>4, <3>6 DEF Duplex!HostSend, Duplex!HostRead, Duplex!HostSetup, Duplex!TestGotSud, Duplex!rx
    <3>7. QED
      BY <2>1, <3>1, <3>2, <3>3, <3>4, <3>5, <3>6 DEF Duplex!Loop
  <2>9. QED
    BY <2>5, <2>6, <2>7, <2>8
<1>3. QED
  BY <1>1, <1>2

LEMMA SetFlag ==
  ASSUME NEW f \in Flags, NEW b, NEW v \in BOOLEAN
  PROVE  Duplex!Set(f, b, v) \in Flags
  BY DEF Duplex!Set, Flags

LEMMA FlagsKept ==
  ASSUME DFlags, Duplex!Next \/ UNCHANGED duplex
  PROVE  DFlags'
<1>1. CASE UNCHANGED duplex
  BY <1>1 DEF DFlags, duplex
<1>2. CASE Duplex!Next
  <2>1. PICK b \in Duplex!Boards :
          Duplex!HostSend(b) \/ Duplex!HostRead(b) \/ Duplex!HostSetup(b) \/ Duplex!Loop(b)
    BY <1>2 DEF Duplex!Next
  <2>2. Duplex!Peer(b) \in Duplex!Boards
    BY DBoards
  <2>3. CASE Duplex!HostSend(b) \/ Duplex!HostRead(b)
    BY <2>3 DEF DFlags, Duplex!HostSend, Duplex!HostRead, Duplex!tx, Duplex!pins
  <2>4. CASE Duplex!HostSetup(b)
    BY <2>4, SetFlag DEF DFlags, Duplex!HostSetup, Duplex!tx, Duplex!pins
  <2>5. CASE Duplex!TestGotSud(b)
    BY <2>5, SetFlag DEF DFlags, Duplex!TestGotSud, Duplex!pins
  <2>6. CASE Duplex!TxTest(b) \/ Duplex!TxAck(b)
    BY <2>6 DEF DFlags, Duplex!TxTest, Duplex!TxAck, Duplex!tx, Duplex!pins
  <2>7. CASE Duplex!TxReady(b)
    BY <2>7, SetFlag DEF DFlags, Duplex!TxReady, Duplex!tx, Duplex!pins
  <2>8. CASE Duplex!TxByte(b)
    <3>1. ddlast[Duplex!Peer(b)] \in BOOLEAN
      BY <2>2 DEF DFlags, Flags
    <3>2. CASE dat[b] = "tx_last"
      BY <2>8, <3>1, <3>2, SetFlag DEF DFlags, Duplex!TxByte, Duplex!pins
    <3>3. CASE dat[b] = "tx_data"
      BY <2>8, <3>3 DEF DFlags, Duplex!TxByte, Duplex!pins
    <3>4. CASE dat[b] = "tx_unready"
      BY <2>8, <3>4, SetFlag DEF DFlags, Duplex!TxByte
    <3>5. QED
      BY <2>8, <3>2, <3>3, <3>4 DEF Duplex!TxByte
  <2>9. CASE Duplex!RxTest(b)
    BY <2>9 DEF DFlags, Duplex!RxTest, Duplex!tx, Duplex!pins
  <2>10. CASE Duplex!RxByte(b)
    <3>1. CASE dat[b] = "rx_out"
      BY <2>10, <3>1 DEF DFlags, Duplex!RxByte, Duplex!tx, Duplex!Set
    <3>2. CASE dat[b] = "rx_last"
      <4>1. /\ ddlast' = [ddlast EXCEPT ![b] = (dremaining'[b] = 0)]
            /\ dgot_sud' = dgot_sud /\ dlast' = dlast /\ ddvalid' = ddvalid /\ ddrdy' = ddrdy
        BY <2>10, <3>2 DEF Duplex!RxByte, Duplex!tx, Duplex!Set
      <4>2. (dremaining'[b] = 0) \in BOOLEAN
        OBVIOUS
      <4>3. ddlast' \in Flags
        BY <4>1, <4>2 DEF DFlags, Flags
      <4>4. QED
        BY <4>1, <4>3 DEF DFlags
    <3>3. CASE dat[b] = "rx_valid"
      <4>1. /\ ddvalid' = [ddvalid EXCEPT ![b] = TRUE]
            /\ dgot_sud' = dgot_sud /\ dlast' = dlast /\ ddlast' = ddlast /\ ddrdy' = ddrdy
        BY <2>10, <3>3 DEF Duplex!RxByte, Duplex!tx, Duplex!Set
      <4>2. ddvalid' \in Flags
        BY <4>1 DEF DFlags, Flags
      <4>3. QED
        BY <4>1, <4>2 DEF DFlags
    <3>4. dat[b] = "rx_out" \/ dat[b] = "rx_last" \/ dat[b] = "rx_valid"
      BY <2>10 DEF Duplex!RxByte, Duplex!Set
    <3>5. QED
      BY <3>1, <3>2, <3>3, <3>4
  <2>11. CASE Duplex!RxAck(b)
    BY <2>11, SetFlag DEF DFlags, Duplex!RxAck, Duplex!tx, Duplex!pins
  <2>12. QED
    BY <2>1, <2>3, <2>4, <2>5, <2>6, <2>7, <2>8, <2>9, <2>10, <2>11 DEF Duplex!Loop
<1>3. QED
  BY <1>1, <1>2

-----------------------------------------------------------------------------
(* What the invariant says.                                                *)

LEMMA Under512 ==
  ASSUME NEW t \in Nat, NEW o \in Nat, NEW l \in Nat, l <= 512,
         (t = o /\ o < l) \/ (t + 1 = o /\ o <= l)
  PROVE  t \in 0 .. 511
  OBVIOUS

\* The receiver has taken no more bytes than the packet has.
LEMMA TakenFits ==
  ASSUME NoEmptyPackets, NEW s, NEW r, Pair(s, r), Direction(s, r)
  PROVE  dtx_offset[r] \in 0 .. 511
<1> DEFINE L == Lens[s][Done(s) + 1]
<1>1. /\ dtx_offset[r] \in Nat /\ drx_offset[s] \in Nat
      /\ Done(s) \in Nat /\ Committed(r) \in Nat /\ Len(dfull[s]) \in Nat
      /\ Done(s) + Len(dfull[s]) = dsent[s] /\ dsent[s] <= Len(Lens[s])
  BY DNumbers
<1>2. ASSUME Len(dfull[s]) >= 1 PROVE L \in Nat /\ L <= 512
  BY <1>2, InStock
<1>3. ASSUME drxs[s] # "IDLE" \/ RxAt(s) = "rx_rearm"
      PROVE  /\ L \in Nat /\ L <= 512
             /\ drxs[s] = "DATA" /\ RxAt(s) \notin {"rx_last", "rx_valid"} => drx_offset[s] < L
             /\ drx_offset[s] <= L
  <2>1. Len(dfull[s]) >= 1
    BY <1>3, Scalars DEF Sending
  <2>2. L \in Nat /\ L <= 512
    BY <1>2, <2>1
  <2>3. /\ drxs[s] = "DATA" /\ RxAt(s) \notin {"rx_last", "rx_valid"} => drx_offset[s] < L
        /\ RxAt(s) \in {"rx_last", "rx_valid"} \/ drxs[s] = "ACK" => drx_offset[s] <= L
        /\ RxAt(s) = "rx_rearm" => drx_offset[s] = L
    BY Scalars DEF Sending
  <2>4. drxs[s] \in {"IDLE", "DATA", "ACK"}
    BY Scalars DEF Control
  <2> HIDE DEF L
  <2>5. QED
    BY <1>1, <1>3, <2>2, <2>3, <2>4
<1> HIDE DEF L
<1>4. Control(drxs[s], RxAt(s), ddvalid[s], dtxs[r], TxAt(r), ddrdy[r])
      /\ Linked(dtxs[r], drxs[s], RxAt(s), dtx_offset[r], drx_offset[s], Done(s), Committed(r), Lens[s])
  BY Scalars
<1>5. \/ dtx_offset[r] = 0
      \/ /\ drxs[s] # "IDLE" \/ RxAt(s) = "rx_rearm"
         /\ \/ drxs[s] = "DATA" /\ RxAt(s) \notin {"rx_last", "rx_valid"} /\ dtx_offset[r] = drx_offset[s]
            \/ dtx_offset[r] + 1 = drx_offset[s]
      \/ Done(s) = Committed(r) + 1 /\ dtx_offset[r] + 1 = Lens[s][Committed(r) + 1]
  BY <1>4 DEF Control, Linked
<1>6. CASE dtx_offset[r] = 0
  BY <1>6
<1>7. ASSUME Done(s) = Committed(r) + 1, dtx_offset[r] + 1 = Lens[s][Committed(r) + 1]
      PROVE  dtx_offset[r] \in 0 .. 511
  <2>1. Committed(r) + 1 <= Len(Lens[s])
    <3>1. Len(Lens[s]) \in Nat
      BY DLens DEF Pair
    <3>2. QED
      BY <1>1, <1>7, <3>1
  <2>2. Lens[s][Committed(r) + 1] \in Nat /\ Lens[s][Committed(r) + 1] <= 512
    BY <1>1, <2>1, DLens DEF Pair
  <2>3. PICK l : l = Lens[s][Committed(r) + 1]
    OBVIOUS
  <2>4. QED
    <3>1. l \in Nat /\ l <= 512 /\ dtx_offset[r] \in Nat /\ dtx_offset[r] + 1 = l
      BY <1>1, <1>7, <2>2, <2>3
    <3>2. QED
      BY <3>1, Under512
<1>8. CASE drxs[s] # "IDLE" \/ RxAt(s) = "rx_rearm"
  <2>1. CASE drxs[s] = "DATA" /\ RxAt(s) \notin {"rx_last", "rx_valid"} /\ dtx_offset[r] = drx_offset[s]
    BY <1>1, <1>3, <1>8, <2>1, Under512
  <2>2. CASE dtx_offset[r] + 1 = drx_offset[s]
    BY <1>1, <1>3, <1>8, <2>2, Under512
  <2>3. CASE dtx_offset[r] = 0
    BY <2>3
  <2>4. CASE Done(s) = Committed(r) + 1 /\ dtx_offset[r] + 1 = Lens[s][Committed(r) + 1]
    BY <1>7, <2>4
  <2>5. QED
    BY <1>5, <2>1, <2>2, <2>3, <2>4
<1>9. QED
  BY <1>5, <1>6, <1>7, <1>8

LEMMA DuplexTypes ==
  ASSUME NoEmptyPackets, DuplexInv, DRanges, DFlags
  PROVE  Duplex!TypeOK
<1>1. SUFFICES ASSUME NEW b \in Duplex!Boards, NEW c, c = Duplex!Peer(b)
               PROVE  /\ dtxs[b] \in {"IDLE", "ACK"} /\ drxs[b] \in {"IDLE", "DATA", "ACK"}
                      /\ {dgot_sud[b], dlast[b], ddvalid[b], ddlast[b], ddrdy[b]} \subseteq BOOLEAN
                      /\ dtx_offset[b] \in 0 .. 511 /\ drx_offset[b] \in 0 .. 512
                      /\ dremaining[b] \in 0 .. 512
                      /\ Len(dep6[b]) <= 2 /\ dfree[b] + Len(dfull[b]) = 2
                      /\ dsent[b] \in 0 .. Len(Lens[b]) /\ dreceived[b] \in 0 .. Len(Lens[c])
  BY DEF Duplex!TypeOK, Duplex!BUFFERS
<1>2. Pair(b, c) /\ Pair(c, b) /\ Direction(b, c) /\ Direction(c, b)
  BY <1>1, DBoards DEF Pair, DuplexInv
<1>3. dtxs[b] \in {"IDLE", "ACK"} /\ drxs[b] \in {"IDLE", "DATA", "ACK"}
  BY <1>2, Scalars DEF Control
<1>4. {dgot_sud[b], dlast[b], ddvalid[b], ddlast[b], ddrdy[b]} \subseteq BOOLEAN
  BY DEF DFlags, Flags
<1>5. dtx_offset[b] \in 0 .. 511
  BY <1>2, TakenFits
<1>6. drx_offset[b] \in 0 .. 512 /\ dremaining[b] \in 0 .. 512
  BY DEF DRanges
<1>7. Len(dep6[b]) <= 2
  BY <1>2 DEF Direction, DReceiving, Receiving
<1>8. dfree[b] + Len(dfull[b]) = 2
  BY <1>2, DNumbers
<1>9. dsent[b] \in 0 .. Len(Lens[b])
  BY <1>2, DNumbers, DLens
<1>10. dreceived[b] \in 0 .. Len(Lens[c])
  <2>1. /\ dreceived[b] \in Nat /\ Len(dep6[b]) \in Nat /\ dsent[c] \in Nat /\ dsent[c] <= Len(Lens[c])
    BY <1>2, DNumbers
  <2>2. dreceived[b] + Len(dep6[b]) <= dsent[c]
    BY <1>2, CommittedSent DEF Committed
  <2>3. Len(Lens[c]) \in Nat
    BY <1>2, DLens DEF Pair
  <2>4. QED
    BY <2>1, <2>2, <2>3
<1>11. QED
  BY <1>3, <1>4, <1>5, <1>6, <1>7, <1>8, <1>9, <1>10

LEMMA DuplexPackets ==
  ASSUME DuplexInv
  PROVE  Duplex!PacketsIntact
<1>1. SUFFICES ASSUME NEW b \in Duplex!Boards, NEW c, c = Duplex!Peer(b), NEW k \in DOMAIN dep6[b]
               PROVE  dreceived[b] + k <= dsent[c] /\ dep6[b][k] = Duplex!Packet(c, dreceived[b] + k)
  BY DEF Duplex!PacketsIntact
<1>2. Direction(c, b)
  BY <1>1, DBoards DEF DuplexInv
<1>3. Arrived(dep6[b], dreceived[b], c)
  BY <1>2 DEF Direction, DArrived
<1>4. Len(dep6[b]) \in Nat /\ dreceived[b] \in Nat /\ k \in 1 .. Len(dep6[b]) /\ dsent[c] \in Nat
  BY <1>2, <1>3, DNumbers DEF Arrived
<1>5. dreceived[b] + Len(dep6[b]) <= dsent[c]
  BY <1>2, CommittedSent DEF Committed
<1>6. dreceived[b] + k <= dsent[c]
  BY <1>4, <1>5
<1>7. QED
  BY <1>3, <1>4, <1>6 DEF Arrived

\* The pins of an offer are its sender's to change, and it does so elsewhere.
LEMMA DuplexSteps ==
  ASSUME DuplexInv, Duplex!Next \/ UNCHANGED duplex
  PROVE  Duplex!OfferKept
<1>1. CASE UNCHANGED duplex
  BY <1>1 DEF duplex, Duplex!OfferKept
<1>2. CASE Duplex!Next
  <2>1. PICK x \in Duplex!Boards :
          Duplex!HostSend(x) \/ Duplex!HostRead(x) \/ Duplex!HostSetup(x) \/ Duplex!Loop(x)
    BY <1>2 DEF Duplex!Next
  <2>2. CASE UNCHANGED <<ddata, ddlast, ddvalid>>
    BY <2>2 DEF Duplex!OfferKept
  <2>3. CASE Duplex!RxByte(x) \/ (Duplex!RxAck(x) /\ dat[x] = "rx_unvalid")
    <3>1. ASSUME NEW b \in Duplex!Boards, b # x
          PROVE  ddata'[b] = ddata[b] /\ ddlast'[b] = ddlast[b] /\ ddvalid'[b] = ddvalid[b]
      <4>1. DDomains
        BY DEF DuplexInv
      <4>2. CASE Duplex!RxByte(x)
        BY <2>1, <3>1, <4>1, <4>2 DEF Duplex!RxByte, Duplex!Set, DDomains
      <4>3. CASE Duplex!RxAck(x) /\ dat[x] = "rx_unvalid"
        BY <2>1, <3>1, <4>1, <4>3 DEF Duplex!RxAck, Duplex!Set, DDomains
      <4>4. QED
        BY <2>3, <4>2, <4>3
    <3>2. ~(ddvalid[x] /\ ddrdy[Duplex!Peer(x)])
      <4>1. Control(drxs[x], RxAt(x), ddvalid[x], dtxs[Duplex!Peer(x)], TxAt(Duplex!Peer(x)),
                    ddrdy[Duplex!Peer(x)])
        BY <2>1, Scalars DEF DuplexInv
      <4>2. dat[x] \in {"rx_out", "rx_last", "rx_valid", "rx_unvalid"}
        BY <2>3 DEF Duplex!RxByte, Duplex!RxAck, Duplex!Set
      <4>3. RxAt(x) \in {"rx_out", "rx_last", "rx_valid", "rx_unvalid"}
        BY <4>2 DEF RxAt, RxPlaces
      <4>4. QED
        BY <4>1, <4>3 DEF Control
    <3>3. QED
      BY <3>1, <3>2 DEF Duplex!OfferKept
  <2>4. CASE ~Duplex!RxByte(x) /\ ~(Duplex!RxAck(x) /\ dat[x] = "rx_unvalid")
    <3>1. CASE Duplex!RxTest(x)
      BY <2>2, <3>1 DEF Duplex!RxTest, Duplex!pins
    <3>2. CASE Duplex!RxAck(x)
      BY <2>2, <2>4, <3>2 DEF Duplex!RxAck, Duplex!pins
    <3>3. CASE Duplex!TxTest(x) \/ Duplex!TxReady(x)
      BY <2>2, <3>3 DEF Duplex!TxTest, Duplex!TxReady, Duplex!pins
    <3>4. CASE Duplex!TxByte(x) \/ Duplex!TxAck(x)
      BY <2>2, <3>4 DEF Duplex!TxByte, Duplex!TxAck, Duplex!pins
    <3>5. CASE Duplex!HostSend(x) \/ Duplex!HostRead(x) \/ Duplex!HostSetup(x) \/ Duplex!TestGotSud(x)
      BY <2>2, <3>5 DEF Duplex!HostSend, Duplex!HostRead, Duplex!HostSetup, Duplex!TestGotSud, Duplex!pins
    <3>6. QED
      BY <2>1, <2>4, <3>1, <3>2, <3>3, <3>4, <3>5 DEF Duplex!Loop
  <2>5. QED
    BY <2>3, <2>4
<1>3. QED
  BY <1>1, <1>2

-----------------------------------------------------------------------------
(***************************************************************************)
(* The theorems.                                                           *)
(***************************************************************************)

LoopP == INSTANCE LoopbackProofs WITH
    MaxSent <- LoopSent,
    fw <- lfw, burst <- lburst, pc <- lpc, got_sud <- lgot_sud, own <- lown, free <- lfree,
    full <- lfull, ep6 <- lep6, sudav <- lsudav, asked <- lasked, requests <- lrequests,
    sent <- lsent, mark <- lmark, got <- lgot, done <- ldone

\* What is proved of Loopback is proved of LoopP, which is the same as Loop.
LEMMA SameLoop == Loop!Next => LoopP!Next
<1> USE DEF Loop!Goto, LoopP!Goto, Loop!ep2Vars, LoopP!ep2Vars, Loop!hostVars, LoopP!hostVars,
            Loop!Arm, LoopP!Arm, Loop!BUFFERS, LoopP!BUFFERS
<1>1. Loop!HostSend => LoopP!HostSend
  BY DEF Loop!HostSend, LoopP!HostSend
<1>2. Loop!HostRead => LoopP!HostRead
  BY DEF Loop!HostRead, LoopP!HostRead
<1>3. Loop!HostSetup => LoopP!HostSetup
  BY DEF Loop!HostSetup, LoopP!HostSetup
<1>4. Loop!sudav_isr => LoopP!sudav_isr
  BY DEF Loop!sudav_isr, LoopP!sudav_isr
<1>5. Loop!Main => LoopP!Main
  <2>1. (Loop!TestGotSud => LoopP!TestGotSud) /\ (Loop!HandleSetup => LoopP!HandleSetup)
    BY DEF Loop!TestGotSud, LoopP!TestGotSud, Loop!HandleSetup, LoopP!HandleSetup
  <2>2. (Loop!ResetEp2 => LoopP!ResetEp2) /\ (Loop!ArmAgain => LoopP!ArmAgain)
    BY DEF Loop!ResetEp2, LoopP!ResetEp2, Loop!ArmAgain, LoopP!ArmAgain
  <2>3. (Loop!ResetEp6 => LoopP!ResetEp6) /\ (Loop!Acknowledge => LoopP!Acknowledge)
    BY DEF Loop!ResetEp6, LoopP!ResetEp6, Loop!Acknowledge, LoopP!Acknowledge
  <2>4. (Loop!ClearGotSud => LoopP!ClearGotSud) /\ (Loop!TestEp2Empty => LoopP!TestEp2Empty)
    BY DEF Loop!ClearGotSud, LoopP!ClearGotSud, Loop!TestEp2Empty, LoopP!TestEp2Empty
  <2>5. (Loop!TestEp6Full => LoopP!TestEp6Full) /\ (Loop!CommitPacket => LoopP!CommitPacket)
    BY DEF Loop!TestEp6Full, LoopP!TestEp6Full, Loop!CommitPacket, LoopP!CommitPacket
  <2>6. (Loop!PrintPacket => LoopP!PrintPacket) /\ (Loop!Rearm => LoopP!Rearm)
    BY DEF Loop!PrintPacket, LoopP!PrintPacket, Loop!Rearm, LoopP!Rearm
  <2>7. QED
    BY <2>1, <2>2, <2>3, <2>4, <2>5, <2>6 DEF Loop!Main, LoopP!Main
<1>6. QED
  BY <1>1, <1>2, <1>3, <1>4, <1>5 DEF Loop!Next, LoopP!Next

LEMMA ImplementsLoop == Spec => LoopP!Spec
<1>1. Init => LoopP!Init
  BY DEF Init, Loop!Init, LoopP!Init, Loop!BUFFERS, LoopP!BUFFERS
<1>2. [Next]_vars => [LoopP!Next]_LoopP!vars
  <2>1. [Next]_vars => Loop!Next \/ UNCHANGED loop
    BY DEF Next, vars
  <2>2. UNCHANGED loop => UNCHANGED LoopP!vars
    BY DEF loop, LoopP!vars, LoopP!ep2Vars, LoopP!hostVars
  <2>3. QED
    BY <2>1, <2>2, SameLoop
<1>3. QED
  BY <1>1, <1>2, PTL DEF Spec, LoopP!Spec

LEMMA LoopAssumptions == LoopP!LoopbackAssumption
  BY StreamsAssumption DEF Loop!LoopbackAssumption, LoopP!LoopbackAssumption

\* What either instance of Loopback takes for the pipe is the same.
LEMMA SamePipe == LoopP!Forwarding!Spec => Loop!Forwarding!Spec
<1>1. /\ LoopP!InTransit = Loop!InTransit /\ LoopP!InTransit' = Loop!InTransit'
      /\ LoopP!BUFFERS = Loop!BUFFERS
  BY DEF LoopP!InTransit, Loop!InTransit, LoopP!BUFFERS, Loop!BUFFERS
<1>2. LoopP!Forwarding!Init => Loop!Forwarding!Init
  BY <1>1 DEF LoopP!Forwarding!Init, Loop!Forwarding!Init
<1>3. LoopP!Forwarding!Next => Loop!Forwarding!Next
  <2>1. LoopP!Forwarding!Send => Loop!Forwarding!Send
    BY <1>1 DEF LoopP!Forwarding!Send, Loop!Forwarding!Send
  <2>2. LoopP!Forwarding!Receive => Loop!Forwarding!Receive
    BY <1>1 DEF LoopP!Forwarding!Receive, Loop!Forwarding!Receive
  <2>3. LoopP!Forwarding!Ask => Loop!Forwarding!Ask
    BY <1>1 DEF LoopP!Forwarding!Ask, Loop!Forwarding!Ask
  <2>4. LoopP!Forwarding!Lose => Loop!Forwarding!Lose
    BY <1>1 DEF LoopP!Forwarding!Lose, Loop!Forwarding!Lose
  <2>5. LoopP!Forwarding!Done => Loop!Forwarding!Done
    BY <1>1 DEF LoopP!Forwarding!Done, Loop!Forwarding!Done
  <2>6. QED
    BY <2>1, <2>2, <2>3, <2>4, <2>5 DEF LoopP!Forwarding!Next, Loop!Forwarding!Next
<1>4. UNCHANGED LoopP!Forwarding!vars => UNCHANGED Loop!Forwarding!vars
  BY <1>1 DEF LoopP!Forwarding!vars, Loop!Forwarding!vars
<1>5. [LoopP!Forwarding!Next]_(LoopP!Forwarding!vars) => [Loop!Forwarding!Next]_(Loop!Forwarding!vars)
  BY <1>3, <1>4
<1>6. QED
  BY <1>2, <1>5, PTL DEF LoopP!Forwarding!Spec, Loop!Forwarding!Spec

\* The step of a component, in a step of the whole.
LEMMA StepOf ==
  ASSUME [Next]_vars
  PROVE  /\ Duplex!Next \/ UNCHANGED duplex
         /\ Slave!Next \/ UNCHANGED slave
         /\ Shell!Next \/ UNCHANGED shell
  BY DEF Next, vars

LEMMA ShellHolds == ASSUME LineFits PROVE Spec => [](ShellInv /\ CFlags)
<1>1. Init => ShellInv /\ CFlags
  BY InitShell DEF Init, CFlags, Shell!Init
<1>2. ShellInv /\ CFlags /\ [Next]_vars => ShellInv' /\ CFlags'
  BY StepOf, NextShell, CFlagsKept
<1>3. QED
  BY <1>1, <1>2, PTL DEF Spec

LEMMA SlaveHolds == ASSUME DepthFits PROVE Spec => [](SlaveInv /\ SFlags)
<1>1. Init => SlaveInv /\ SFlags
  BY InitSlave DEF Init, SFlags, Slave!Init
<1>2. SlaveInv /\ SFlags /\ [Next]_vars => SlaveInv' /\ SFlags'
  BY StepOf, NextSlave, SFlagsKept
<1>3. QED
  BY <1>1, <1>2, PTL DEF Spec

LEMMA DuplexHolds == ASSUME NoEmptyPackets PROVE Spec => [](DuplexInv /\ DRanges /\ DFlags)
<1>1. Init => DuplexInv /\ DRanges /\ DFlags
  BY InitDuplex DEF Init
<1>2. DuplexInv /\ DRanges /\ DFlags /\ [Next]_vars => DuplexInv' /\ DRanges' /\ DFlags'
  BY StepOf, NextDuplex, RangesKept, FlagsKept
<1>3. QED
  BY <1>1, <1>2, PTL DEF Spec

\* Every variable of the four programs keeps its type, for every length of
\* the streams, depth of the FIFO and set of keys: no endpoint holds more
\* packets than it has buffers, remaining never wraps around
\* (debugdev.c:75-94), the FIFO is never full though nothing tests it
\* (fx2_slave_fifo_if.vhd:28-30), the line never outgrows cmd_buffer
\* (shell.c:161-163), and no buffer of EP2 is lost (bulkloop.c:86-89, 127).
THEOREM Types == ASSUME LineFits, DepthFits, NoEmptyPackets PROVE Spec => []TypeOK
<1>1. /\ DuplexInv /\ DRanges /\ DFlags => Duplex!TypeOK
      /\ SlaveInv /\ SFlags => Slave!TypeOK
      /\ ShellInv /\ CFlags => Shell!TypeOK
  BY DuplexTypes, SlaveTypes, ShellTypes
<1>2. LoopP!Spec => []LoopP!IInv
  BY LoopAssumptions, LoopP!Invariance
<1>3. LoopP!IInv => Loop!TypeOK /\ Loop!BuffersConserved
  BY DEF LoopP!IInv, LoopP!TypeOK, LoopP!BuffersConserved, Loop!TypeOK, Loop!BuffersConserved,
         LoopP!BUFFERS, Loop!BUFFERS
<1>4. Loop!TypeOK /\ Loop!BuffersConserved /\ Duplex!TypeOK /\ Slave!TypeOK /\ Shell!TypeOK => TypeOK
  BY DEF TypeOK
<1>5. QED
  BY <1>1, <1>2, <1>3, <1>4, DuplexHolds, SlaveHolds, ShellHolds, ImplementsLoop, PTL

\* Packets come back, or are printed, as Pipe says, whatever the number of
\* packets and of requests and however long the bursts (bulkloop.c:109-127,
\* 173-187).
THEOREM Forwards == Spec => ForwardSpec
<1>1. LoopP!Spec => LoopP!ForwardSpec
  BY LoopAssumptions, LoopP!Implements
<1>2. LoopP!ForwardSpec => ForwardSpec
  BY SamePipe, PTL DEF ForwardSpec, Loop!ForwardSpec, LoopP!ForwardSpec
<1>3. QED
  BY <1>1, <1>2, ImplementsLoop, PTL

\* Packets of any length but none come out of the other board as they were
\* sent, with their boundaries, in order and each once, in both directions
\* at a time (debugdev.c:75-94, 120-143).
THEOREM Intact == ASSUME NoEmptyPackets PROVE Spec => []PacketsIntact
<1>1. DuplexInv => PacketsIntact
  BY DuplexPackets DEF PacketsIntact
<1>2. QED
  BY <1>1, DuplexHolds, PTL

\* Between two bytes the line on the user's screen is the line that the shell
\* has, for lines of any length that fits (shell.c:143-172).
THEOREM Echoes == ASSUME LineFits PROVE Spec => []EchoIsLine
<1>1. ShellInv /\ CFlags => EchoIsLine
  BY ShellTypes DEF EchoIsLine
<1>2. QED
  BY <1>1, ShellHolds, PTL

\* Nothing is written behind cmd_buffer as long as the user ends the line in
\* time; the shell itself does not see to it (shell.c:143, 161).
THEOREM StaysInLine == ASSUME LineFits PROVE Spec => []Shell!NoOverrun
<1>1. ShellInv /\ CFlags => Shell!NoOverrun
  BY DEF CFlags, Shell!NoOverrun
<1>2. QED
  BY <1>1, ShellHolds, PTL

\* A byte on offer does not change while it is taken (debugdev.c:75-78,
\* 120-127), and the LEDs skip none and show none twice, for every depth and
\* delay of the FIFO that go together (blinky_top.vhd:125-133).
THEOREM Crosses == ASSUME DepthFits, NoEmptyPackets PROVE Spec => CrossesWhole
<1>1. DuplexInv /\ SlaveInv /\ [Next]_vars => [Duplex!OfferKept /\ Slave!InOrder]_vars
  <2>1. ASSUME DuplexInv, SlaveInv, [Next]_vars PROVE Duplex!OfferKept /\ Slave!InOrder
    BY <2>1, StepOf, DuplexSteps, SlaveSteps
  <2>2. QED
    BY <2>1
<1>2. QED
  BY <1>1, DuplexHolds, SlaveHolds, PTL DEF Spec, CrossesWhole
=============================================================================
