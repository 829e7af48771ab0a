--------------------------- MODULE DriversProofs ---------------------------
(***************************************************************************)
(* Proofs about Drivers, one component after another: the EP0 helpers, the *)
(* serial line, the GPIF, the uptime counter, the delay and the TM1638 bus *)
(* bit by bit, and at the end the theorems about a behaviour of the whole. *)
(* Each component has its types, its inductive invariant in named parts,   *)
(* one lemma for an action, and a lemma that the invariant suffices.       *)
(***************************************************************************)
EXTENDS Drivers, Integers, SequencesExt, SequenceTheorems, WellFoundedInduction, TLAPS

-----------------------------------------------------------------------------
(* Sequences of sequences laid end to end.                                 *)

LEMMA NatSets ==
  ASSUME NEW S, 0 \in S, \A n \in Nat : n \in S => n + 1 \in S
  PROVE  Nat \subseteq S
<1> DEFINE T == {n \in Nat : n \notin S}
<1>1. SUFFICES ASSUME T # {} PROVE FALSE
  OBVIOUS
<1>2. PICK x \in T : \A y \in T : ~(<<y, x>> \in OpToRel(<, Nat))
  BY <1>1, NatLessThanWellFounded, WFMin, T \subseteq Nat
<1>3. x \in Nat /\ x # 0 /\ x - 1 \in Nat /\ x - 1 < x
  OBVIOUS
<1>4. x - 1 \notin T
  BY <1>2, <1>3 DEF OpToRel
<1>5. QED
  BY <1>3, <1>4

IsFlat(g, s) == g = [i \in 1 .. Len(s) |-> IF i = 1 THEN s[i] ELSE g[i - 1] \o s[i]]

LEMMA FlatChosen ==
  ASSUME NEW s, Len(s) # 0
  PROVE  FlattenSeq(s) = (CHOOSE g : IsFlat(g, s))[Len(s)]
  BY Zenon DEF FlattenSeq, IsFlat

\* At most one function is as FlattenSeq demands.
LEMMA FlatUnique ==
  ASSUME NEW s, NEW n \in Nat, Len(s) = n, NEW g, NEW h, IsFlat(g, s), IsFlat(h, s)
  PROVE  g = h
<1> DEFINE S == {k \in Nat : \A i \in 1 .. n : i <= k => g[i] = h[i]}
<1>1. 0 \in S
  OBVIOUS
<1>2. ASSUME NEW k \in Nat, k \in S PROVE k + 1 \in S
  <2>1. SUFFICES ASSUME k + 1 \in 1 .. n PROVE g[k + 1] = h[k + 1]
    BY <1>2
  <2>2. /\ g[k + 1] = IF k + 1 = 1 THEN s[k + 1] ELSE g[k] \o s[k + 1]
        /\ h[k + 1] = IF k + 1 = 1 THEN s[k + 1] ELSE h[k] \o s[k + 1]
    <3>1. \A i \in 1 .. n : /\ g[i] = IF i = 1 THEN s[i] ELSE g[i - 1] \o s[i]
                            /\ h[i] = IF i = 1 THEN s[i] ELSE h[i - 1] \o s[i]
      BY DEF IsFlat
    <3>2. (k + 1) - 1 = k
      OBVIOUS
    <3>3. QED
      BY <2>1, <3>1, <3>2
  <2>3. k # 0 => g[k] = h[k]
    BY <1>2, <2>1
  <2>4. QED
    BY <2>2, <2>3
<1>3. n \in S
  <2> HIDE DEF S
  <2> QED
    BY <1>1, <1>2, NatSets
<1>4. QED
  BY <1>3 DEF IsFlat

LEMMA FlatIs ==
  ASSUME NEW s, NEW n \in Nat, n # 0, Len(s) = n, NEW g, IsFlat(g, s)
  PROVE  FlattenSeq(s) = g[n]
<1>1. IsFlat(CHOOSE h : IsFlat(h, s), s)
  OBVIOUS
<1>2. (CHOOSE h : IsFlat(h, s)) = g
  BY <1>1, FlatUnique
<1>3. QED
  BY <1>2, FlatChosen

\* One sequence more.
LEMMA FlatMore ==
  ASSUME NEW U, NEW s \in Seq(U), NEW e \in U, NEW g, IsFlat(g, s)
  PROVE  LET h == [i \in 1 .. Len(s) + 1 |-> IF i <= Len(s) THEN g[i]
                                               ELSE IF i = 1 THEN e ELSE g[Len(s)] \o e]
         IN  IsFlat(h, Append(s, e))
<1> DEFINE t == Append(s, e)
           h == [i \in 1 .. Len(s) + 1 |-> IF i <= Len(s) THEN g[i]
                                           ELSE IF i = 1 THEN e ELSE g[Len(s)] \o e]
<1>1. Len(s) \in Nat /\ Len(t) = Len(s) + 1 /\ t[Len(s) + 1] = e /\ \A i \in 1 .. Len(s) : t[i] = s[i]
  OBVIOUS
<1>2. ASSUME NEW i \in 1 .. Len(s) + 1
      PROVE  h[i] = IF i = 1 THEN t[i] ELSE h[i - 1] \o t[i]
  <2>1. CASE i <= Len(s)
    <3>1. i \in 1 .. Len(s) /\ (i # 1 => i - 1 \in 1 .. Len(s))
      BY <1>1, <2>1
    <3>2. g[i] = IF i = 1 THEN s[i] ELSE g[i - 1] \o s[i]
      BY <3>1 DEF IsFlat
    <3>3. h[i] = g[i] /\ (i # 1 => h[i - 1] = g[i - 1]) /\ t[i] = s[i]
      BY <1>1, <2>1, <3>1
    <3>4. QED
      BY <3>2, <3>3
  <2>2. CASE i = Len(s) + 1
    <3>1. i # 1 => Len(s) \in 1 .. Len(s) + 1 /\ h[Len(s)] = g[Len(s)] /\ i - 1 = Len(s)
      BY <1>1, <2>2
    <3>2. h[i] = IF i = 1 THEN e ELSE g[Len(s)] \o e
      BY <1>1, <2>2
    <3>3. QED
      BY <1>1, <2>2, <3>1, <3>2
  <2>3. QED
    BY <1>1, <2>1, <2>2
<1>3. QED
  BY <1>1, <1>2 DEF IsFlat

LEMMA FlatExists ==
  ASSUME NEW U, NEW s \in Seq(U)
  PROVE  \E g : IsFlat(g, s)
<1> DEFINE S == {n \in Nat : \A t \in Seq(U) : Len(t) = n => \E g : IsFlat(g, t)}
<1>1. 0 \in S
  <2>1. ASSUME NEW t \in Seq(U), Len(t) = 0 PROVE IsFlat(<<>>, t)
    BY <2>1 DEF IsFlat
  <2>2. QED
    BY <2>1
<1>2. ASSUME NEW n \in Nat, n \in S PROVE n + 1 \in S
  <2>1. SUFFICES ASSUME NEW t \in Seq(U), Len(t) = n + 1 PROVE \E g : IsFlat(g, t)
    OBVIOUS
  <2>2. t # <<>>
    BY <2>1
  <2>3. \E r \in Seq(U), e \in U : t = Append(r, e)
    BY Zenon, <2>2, SequenceEmptyOrAppend
  <2>4. PICK r \in Seq(U), e \in U : t = Append(r, e)
    BY <2>3
  <2>5. PICK g : IsFlat(g, r)
    BY <1>2, <2>1, <2>4
  <2>6. QED
    BY <2>4, <2>5, FlatMore
<1>3. Len(s) \in S
  <2> HIDE DEF S
  <2> QED
    BY <1>1, <1>2, NatSets
<1>4. QED
  BY <1>3

\* What FlattenSeq makes of one sequence more.
LEMMA FlattenAppend ==
  ASSUME NEW T, NEW s \in Seq(Seq(T)), NEW e \in Seq(T)
  PROVE  FlattenSeq(Append(s, e)) = (IF s = <<>> THEN e ELSE FlattenSeq(s) \o e)
<1>1. PICK g : IsFlat(g, s)
  BY FlatExists
<1> DEFINE h == [i \in 1 .. Len(s) + 1 |-> IF i <= Len(s) THEN g[i]
                                           ELSE IF i = 1 THEN e ELSE g[Len(s)] \o e]
<1>2. IsFlat(h, Append(s, e))
  BY <1>1, FlatMore
<1>3. Len(s) \in Nat /\ Len(Append(s, e)) = Len(s) + 1
  OBVIOUS
<1>4. FlattenSeq(Append(s, e)) = h[Len(s) + 1]
  <2> HIDE DEF h
  <2>1. Len(s) + 1 \in Nat /\ Len(s) + 1 # 0
    BY <1>3
  <2> QED
    BY <1>2, <1>3, <2>1, FlatIs
<1>5. h[Len(s) + 1] = IF s = <<>> THEN e ELSE g[Len(s)] \o e
  BY <1>3
<1>6. s # <<>> => FlattenSeq(s) = g[Len(s)]
  <2>1. s # <<>> => Len(s) # 0
    BY EmptySeq
  <2>2. QED
    BY <1>1, <1>3, <2>1, FlatIs
<1>7. QED
  BY <1>4, <1>5, <1>6

LEMMA FlattenEmpty == FlattenSeq(<<>>) = <<>>
  BY DEF FlattenSeq

LEMMA FlattenIsSeq ==
  ASSUME NEW T, NEW s \in Seq(Seq(T))
  PROVE  FlattenSeq(s) \in Seq(T)
<1> DEFINE S == {n \in Nat : \A t \in Seq(Seq(T)) : Len(t) = n => FlattenSeq(t) \in Seq(T)}
<1>1. 0 \in S
  <2>1. ASSUME NEW t \in Seq(Seq(T)), Len(t) = 0 PROVE t = <<>>
    BY <2>1, EmptySeq
  <2>2. QED
    BY <2>1, FlattenEmpty
<1>2. ASSUME NEW n \in Nat, n \in S PROVE n + 1 \in S
  <2>1. SUFFICES ASSUME NEW t \in Seq(Seq(T)), Len(t) = n + 1 PROVE FlattenSeq(t) \in Seq(T)
    OBVIOUS
  <2>2. PICK r \in Seq(Seq(T)), e \in Seq(T) : t = Append(r, e)
    <3>1. t # <<>>
      BY <2>1
    <3> DEFINE U == Seq(T)
    <3>4. t \in Seq(U)
      OBVIOUS
    <3>2. \E r \in Seq(U), e \in U : t = Append(r, e)
      <4> HIDE DEF U
      <4> QED
        BY <3>1, <3>4, SequenceEmptyOrAppend
    <3>3. QED
      BY <3>2
  <2>3. FlattenSeq(r) \in Seq(T)
    BY <1>2, <2>1, <2>2
  <2>4. FlattenSeq(r) \o e \in Seq(T)
    BY <2>3, ConcatProperties
  <2>5. QED
    BY <2>2, <2>4, FlattenAppend
<1>3. Len(s) \in S
  <2> HIDE DEF S
  <2> QED
    BY <1>1, <1>2, NatSets
<1>4. QED
  BY <1>3

-----------------------------------------------------------------------------
(* The serial line (Serial).                                               *)

\* What goes out.
Outs == Chars \cup {"CR", "LF"}

OnTheWay == IF stx = "" THEN <<>> ELSE <<stx>>

LTypes ==
    /\ spatient \in Patience /\ srate \in Rates
    /\ spc \in {"init", "getchar", "clear", "putchar", "write"}
    /\ sSBUF0 \in Chars \cup {""} /\ stx \in Outs \cup {""}
    /\ stodo \in Seq(Outs) /\ Len(stodo) <= 2 /\ swire \in Seq(Outs)
    /\ styped \in Seq(Chars) /\ sheard \in Seq(Chars) /\ staken \in Seq(Chars)
    /\ Len(styped) <= MaxTyped

LFlags == sRI \in BOOLEAN /\ sTI \in BOOLEAN

RateInv == sRCAP2 = IF spc = "init" THEN -1 ELSE Line!Reload(srate[1], srate[2])

\* What the flags say of the two buffers, at each place.
UartInv ==
    /\ spc = "init" => stx = "" /\ ~sRI
    /\ stx # "" => ~sTI /\ spc # "write"
    /\ spc \in {"init", "getchar"} => stodo = <<>>
    /\ spc \in {"clear", "write"} => stodo # <<>>
    /\ spc = "write" => ~sTI
    /\ spc = "clear" => sRI /\ sheard = staken
    /\ ~sRI => sheard = staken
    /\ sRI /\ spc # "clear" => sSBUF0 # "" /\ sheard = Append(staken, sSBUF0)

LineInv == LTypes /\ RateInv /\ UartInv /\ Line!EchoExact /\ Line!NoneLost

LEMMA LConstants ==
  /\ Rates \subseteq {1, 2, 4} \X (Nat \ {0}) /\ MaxTyped \in Nat /\ Patience \subseteq BOOLEAN
  /\ "" \notin Chars /\ "" \notin Outs
  BY DriversAssumption DEF Line!SerialAssumption, Outs

LEMMA SentIs ==
  ASSUME NEW b \in Chars
  PROVE  Line!Sent(b) \in Seq(Outs) /\ Len(Line!Sent(b)) \in 1 .. 2 /\ Line!Sent(b) # <<>>
<1>1. CASE b \in {"LF", "CR"}
  <2>1. Line!Sent(b) = <<"CR", "LF">>
    BY <1>1 DEF Line!Sent
  <2>2. QED
    BY <2>1 DEF Outs
<1>2. CASE b \notin {"LF", "CR"}
  <2>1. Line!Sent(b) = <<b>>
    BY <1>2 DEF Line!Sent
  <2>2. QED
    BY <2>1 DEF Outs
<1>3. QED
  BY <1>1, <1>2

\* The serial module's operators on sequences are the library's.
LEMMA FlatSame == ASSUME NEW s PROVE Line!FlattenSeq(s) = FlattenSeq(s)
  BY Zenon DEF Line!FlattenSeq, FlattenSeq

LEMMA PrefixSame == ASSUME NEW s, NEW t PROVE Line!IsPrefix(s, t) = IsPrefix(s, t)
  BY Zenon DEF Line!IsPrefix, IsPrefix

LEMMA ExpandedSeq ==
  ASSUME NEW s \in Seq(Chars)
  PROVE  Line!Expanded(s) \in Seq(Outs)
<1> DEFINE f == [k \in DOMAIN s |-> Line!Sent(s[k])]
<1>1. f \in Seq(Seq(Outs))
  <2>1. Len(s) \in Nat /\ DOMAIN s = 1 .. Len(s) /\ \A k \in 1 .. Len(s) : s[k] \in Chars
    OBVIOUS
  <2>2. \A k \in 1 .. Len(s) : f[k] \in Seq(Outs)
    BY <2>1, SentIs
  <2>3. QED
    BY <2>1, <2>2
<1>2. FlattenSeq(f) \in Seq(Outs)
  <2> HIDE DEF f
  <2> QED
    BY <1>1, FlattenIsSeq
<1>3. QED
  BY <1>2, FlatSame DEF Line!Expanded

LEMMA ExpandedAppend ==
  ASSUME NEW s \in Seq(Chars), NEW b \in Chars
  PROVE  Line!Expanded(Append(s, b)) = Line!Expanded(s) \o Line!Sent(b)
<1> DEFINE f(t) == [k \in DOMAIN t |-> Line!Sent(t[k])]
<1>1. f(s) \in Seq(Seq(Outs)) /\ Line!Sent(b) \in Seq(Outs)
  <2>1. Len(s) \in Nat /\ DOMAIN s = 1 .. Len(s) /\ \A k \in 1 .. Len(s) : s[k] \in Chars
    OBVIOUS
  <2>2. \A k \in 1 .. Len(s) : f(s)[k] \in Seq(Outs)
    BY <2>1, SentIs
  <2>3. QED
    BY <2>1, <2>2, SentIs
<1>2. f(Append(s, b)) = Append(f(s), Line!Sent(b))
  <2>1. Len(s) \in Nat /\ DOMAIN s = 1 .. Len(s)
    OBVIOUS
  <2>2. /\ DOMAIN Append(s, b) = 1 .. Len(s) + 1
        /\ \A k \in 1 .. Len(s) + 1 : Append(s, b)[k] = IF k = Len(s) + 1 THEN b ELSE s[k]
    BY <2>1
  <2>3. Append(f(s), Line!Sent(b)) = [k \in 1 .. Len(s) + 1 |-> IF k = Len(s) + 1 THEN Line!Sent(b) ELSE Line!Sent(s[k])]
    BY <1>1, <2>1
  <2>4. QED
    BY <2>2, <2>3
<1>3. FlattenSeq(Append(f(s), Line!Sent(b))) = IF f(s) = <<>> THEN Line!Sent(b) ELSE FlattenSeq(f(s)) \o Line!Sent(b)
  <2> HIDE DEF f
  <2> QED
    BY <1>1, FlattenAppend
<1>4. FlattenSeq(f(s)) \in Seq(Outs)
  <2> HIDE DEF f
  <2> QED
    BY <1>1, FlattenIsSeq
<1>5. f(s) = <<>> => FlattenSeq(f(s)) \o Line!Sent(b) = Line!Sent(b)
  <2> HIDE DEF f
  <2> QED
    BY <1>1, FlattenEmpty, ConcatEmptySeq
<1>6. QED
  BY <1>2, <1>3, <1>5, FlatSame DEF Line!Expanded

LEMMA ExpandedEmpty == Line!Expanded(<<>>) = <<>>
<1>1. [k \in DOMAIN <<>> |-> Line!Sent(<<>>[k])] = <<>>
  OBVIOUS
<1>2. QED
  BY <1>1, FlattenEmpty, FlatSame DEF Line!Expanded

LEMMA OneIsSeq == ASSUME NEW T, NEW x \in T PROVE <<x>> \in Seq(T)
  OBVIOUS

LEMMA HeadThenTail ==
  ASSUME NEW T, NEW u \in Seq(T), NEW s \in Seq(T), s # <<>>
  PROVE  /\ (u \o <<Head(s)>>) \o Tail(s) = u \o s
         /\ Head(s) \in T /\ Tail(s) \in Seq(T) /\ Len(Tail(s)) = Len(s) - 1
<1>1. Head(s) \in T /\ Tail(s) \in Seq(T) /\ Len(Tail(s)) = Len(s) - 1 /\ Len(s) \in Nat /\ Len(s) # 0
  BY HeadTailProperties, EmptySeq
<1>2. <<Head(s)>> \in Seq(T)
  BY <1>1, OneIsSeq
<1>3. <<Head(s)>> \o Tail(s) = s
  <2> DEFINE t == <<Head(s)>> \o Tail(s)
  <2>1. t \in Seq(T) /\ Len(t) = Len(s)
    BY <1>1, <1>2, ConcatProperties, Len(<<Head(s)>>) = 1
  <2>2. ASSUME NEW i \in 1 .. Len(t) PROVE t[i] = s[i]
    <3>1. t[i] = IF i <= 1 THEN <<Head(s)>>[i] ELSE Tail(s)[i - 1]
      BY <1>1, <1>2, <2>1, ConcatProperties, Len(<<Head(s)>>) = 1
    <3>2. i > 1 => Tail(s)[i - 1] = s[i]
      BY <1>1, <2>1
    <3>3. QED
      BY <3>1, <3>2, <1>1, <2>1
  <2>3. QED
    <3> HIDE DEF t
    <3> QED
      BY <2>1, <2>2, SeqEqual
<1>4. QED
  BY <1>1, <1>2, <1>3, ConcatAssociative

LEMMA LineSeqs ==
  ASSUME LineInv
  PROVE  /\ OnTheWay \in Seq(Outs) /\ Line!Expanded(staken) \in Seq(Outs)
         /\ swire \o OnTheWay \in Seq(Outs)
         /\ swire \o OnTheWay \o stodo = Line!Expanded(staken)
<1>1. OnTheWay \in Seq(Outs)
  <2>1. stx \in Outs \cup {""}
    BY DEF LineInv, LTypes
  <2>2. stx # "" => <<stx>> \in Seq(Outs)
    BY <2>1, OneIsSeq
  <2>3. QED
    BY <2>2, EmptySeq DEF OnTheWay
<1>2. Line!Expanded(staken) \in Seq(Outs)
  BY ExpandedSeq DEF LineInv, LTypes
<1>3. swire \o OnTheWay \in Seq(Outs)
  BY <1>1, ConcatProperties DEF LineInv, LTypes
<1>4. swire \o OnTheWay \o stodo = Line!Expanded(staken)
  BY DEF LineInv, Line!EchoExact, OnTheWay
<1>5. QED
  BY <1>1, <1>2, <1>3, <1>4

LEMMA InitLine == ASSUME Line!Init PROVE LineInv
<1>1. LTypes
  <2>1. /\ stodo = <<>> /\ swire = <<>> /\ styped = <<>> /\ sheard = <<>> /\ staken = <<>>
        /\ spatient \in Patience /\ srate \in Rates /\ spc = "init" /\ sSBUF0 = "" /\ stx = ""
    BY DEF Line!Init
  <2>2. <<>> \in Seq(Outs) /\ <<>> \in Seq(Chars) /\ Len(<<>>) = 0
    OBVIOUS
  <2>3. Len(styped) <= MaxTyped /\ Len(stodo) <= 2
    <3>1. MaxTyped \in Nat
      BY LConstants
    <3>2. Len(styped) = 0 /\ Len(stodo) = 0
      BY Zenon, <2>1, <2>2
    <3>3. QED
      BY <3>1, <3>2
  <2>4. QED
    BY <2>1, <2>2, <2>3 DEF LTypes
<1>6. UartInv
  BY DEF UartInv, Line!Init
<1>2. RateInv
  BY DEF RateInv, Line!Init
<1>3. Line!EchoExact
  <2>1. swire = <<>> /\ stx = "" /\ stodo = <<>> /\ staken = <<>>
    BY DEF Line!Init
  <2>2. <<>> \o <<>> \o <<>> = <<>>
    OBVIOUS
  <2>3. QED
    BY <2>1, <2>2, ExpandedEmpty DEF Line!EchoExact
<1>4. Line!NoneLost
  BY DEF Line!NoneLost, Line!Init
<1>5. QED
  BY <1>1, <1>2, <1>3, <1>4, <1>6 DEF LineInv

\* While the other end has its echo, RI is clear.
LEMMA EchoedClear ==
  ASSUME LineInv, LFlags, spatient, swire = Line!Expanded(styped)
  PROVE  ~sRI
<1>1. SUFFICES ASSUME sRI PROVE FALSE
  OBVIOUS
<1>2. /\ sheard = styped /\ spatient \in Patience /\ styped \in Seq(Chars) /\ staken \in Seq(Chars)
      /\ stodo \in Seq(Outs) /\ swire \in Seq(Outs)
  BY DEF LineInv, Line!NoneLost, LTypes
<1>3. Len(Line!Expanded(staken)) = Len(swire) + Len(OnTheWay) + Len(stodo)
  <2>1. Len(swire \o OnTheWay) = Len(swire) + Len(OnTheWay)
    BY <1>2, LineSeqs, ConcatProperties
  <2>2. Len((swire \o OnTheWay) \o stodo) = Len(swire \o OnTheWay) + Len(stodo)
    BY <1>2, LineSeqs, ConcatProperties
  <2>3. QED
    BY <2>1, <2>2, LineSeqs
<1>4. Len(OnTheWay) \in Nat /\ Len(stodo) \in Nat /\ Len(swire) \in Nat
  BY <1>2, LineSeqs, LenProperties
<1>5. CASE spc = "clear"
  <2>1. staken = styped /\ stodo # <<>>
    BY <1>2, <1>5 DEF LineInv, UartInv
  <2>2. Len(stodo) # 0
    BY <1>2, <2>1, EmptySeq
  <2>3. QED
    BY <1>3, <1>4, <2>1, <2>2
<1>6. CASE spc # "clear"
  <2>1. sSBUF0 \in Chars /\ styped = Append(staken, sSBUF0)
    BY <1>1, <1>2, <1>6 DEF LineInv, UartInv, LTypes
  <2>2. swire = Line!Expanded(staken) \o Line!Sent(sSBUF0)
    BY <1>2, <2>1, ExpandedAppend
  <2>3. Len(swire) = Len(Line!Expanded(staken)) + Len(Line!Sent(sSBUF0))
    BY <2>1, <2>2, SentIs, LineSeqs, ConcatProperties
  <2>4. Len(Line!Sent(sSBUF0)) > 0
    BY <2>1, SentIs
  <2>5. QED
    BY <1>3, <1>4, <2>3, <2>4
<1>7. QED
  BY <1>5, <1>6

LEMMA LineType == ASSUME LineInv, LFlags, Line!Type PROVE LineInv'
<1>1. PICK b \in Chars :
         /\ styped' = Append(styped, b)
         /\ sheard' = IF sRI THEN sheard ELSE Append(sheard, b)
         /\ sSBUF0' = IF sRI THEN sSBUF0 ELSE b
  BY DEF Line!Type
<1>2. /\ sRI' = TRUE
      /\ UNCHANGED <<spatient, srate, sRCAP2, spc, stodo, sTI, stx, staken, swire>>
      /\ sRCAP2 # -1 /\ Len(styped) < MaxTyped /\ (spatient => swire = Line!Expanded(styped))
  BY DEF Line!Type
<1>3. styped \in Seq(Chars) /\ sheard \in Seq(Chars) /\ b # ""
  BY LConstants DEF LineInv, LTypes
<1>4. LTypes'
  <2>1. styped' \in Seq(Chars) /\ sheard' \in Seq(Chars) /\ Len(styped') <= MaxTyped
    <3>1. /\ Append(styped, b) \in Seq(Chars) /\ Append(sheard, b) \in Seq(Chars)
          /\ Len(Append(styped, b)) = Len(styped) + 1 /\ Len(styped) \in Nat
      BY <1>3, AppendProperties, LenProperties
    <3>2. MaxTyped \in Nat
      BY LConstants
    <3>3. styped' \in Seq(Chars) /\ sheard' \in Seq(Chars)
      BY Zenon, <1>1, <1>3, <3>1
    <3>4. Len(styped) + 1 <= MaxTyped
      <4>1. Len(styped) < MaxTyped
        BY <1>2
      <4>2. QED
        BY <3>1, <3>2, <4>1
    <3>5. Len(styped') = Len(styped) + 1
      BY Zenon, <1>1, <3>1
    <3>6. QED
      BY <3>3, <3>4, <3>5
  <2>2. QED
    BY <1>1, <1>2, <2>1 DEF LineInv, LTypes
<1>5. RateInv'
  BY <1>2 DEF LineInv, RateInv
<1>6. spc # "init"
  BY <1>2 DEF LineInv, RateInv
<1>7. UartInv'
  BY <1>1, <1>2, <1>3, <1>6 DEF LineInv, UartInv
<1>8. Line!EchoExact'
  BY <1>2 DEF LineInv, Line!EchoExact
<1>9. Line!NoneLost'
  <2>1. SUFFICES ASSUME spatient PROVE sheard' = styped'
    BY <1>2 DEF Line!NoneLost
  <2>2. ~sRI
    BY <1>2, <2>1, EchoedClear
  <2>3. QED
    BY <1>1, <2>1, <2>2 DEF LineInv, Line!NoneLost
<1>10. QED
  BY <1>4, <1>5, <1>7, <1>8, <1>9 DEF LineInv

LEMMA LineByteSent == ASSUME LineInv, LFlags, Line!ByteSent PROVE LineInv'
<1>1. /\ stx # "" /\ swire' = Append(swire, stx) /\ stx' = "" /\ sTI' = TRUE
      /\ UNCHANGED <<spatient, srate, sRCAP2, spc, stodo, sRI, sSBUF0, styped, sheard, staken>>
  BY DEF Line!ByteSent
<1>2. stx \in Outs /\ swire \in Seq(Outs) /\ swire' \in Seq(Outs)
  <2>1. stx \in Outs /\ swire \in Seq(Outs)
    BY <1>1 DEF LineInv, LTypes
  <2>2. QED
    BY <1>1, <2>1, AppendProperties
<1>3. LTypes'
  BY <1>1, <1>2 DEF LineInv, LTypes
<1>4. UartInv' /\ RateInv' /\ Line!NoneLost'
  BY <1>1 DEF LineInv, UartInv, RateInv, Line!NoneLost
<1>5. swire' \o <<>> = swire \o <<stx>>
  <2>1. Append(swire, stx) = swire \o <<stx>>
    BY <1>2
  <2>2. swire' \o <<>> = swire'
    BY <1>2, ConcatEmptySeq
  <2>3. QED
    BY <1>1, <2>1, <2>2
<1>6. Line!EchoExact'
  BY <1>1, <1>5 DEF LineInv, Line!EchoExact
<1>7. QED
  BY <1>3, <1>4, <1>6 DEF LineInv

LEMMA LineStart == ASSUME LineInv, LFlags, Line!sio0_init PROVE LineInv'
<1>1. /\ spc = "init" /\ spc' = "getchar" /\ sTI' = TRUE
      /\ sRCAP2' = Line!Reload(srate[1], srate[2])
      /\ UNCHANGED <<spatient, srate, stodo, sRI, sSBUF0, stx, styped, sheard, staken, swire>>
  BY DEF Line!sio0_init
<1>2. LTypes' /\ RateInv' /\ Line!NoneLost' /\ Line!EchoExact'
  BY <1>1 DEF LineInv, LTypes, RateInv, Line!NoneLost, Line!EchoExact
<1>3. UartInv'
  BY <1>1 DEF LineInv, UartInv
<1>4. QED
  BY <1>2, <1>3 DEF LineInv

LEMMA LineGetchar == ASSUME LineInv, LFlags, Line!getchar PROVE LineInv'
<1>1. CASE /\ sRI /\ Line!Goto("getchar", "clear") /\ staken' = Append(staken, sSBUF0)
           /\ stodo' = Line!Sent(sSBUF0) /\ UNCHANGED Line!uart
  <2>1. /\ spc = "getchar" /\ spc' = "clear" /\ sRI
        /\ staken' = Append(staken, sSBUF0) /\ stodo' = Line!Sent(sSBUF0)
        /\ UNCHANGED <<spatient, srate, sRCAP2, sRI, sTI, sSBUF0, stx, styped, sheard, swire>>
    BY <1>1 DEF Line!Goto, Line!uart
  <2>2. /\ stodo = <<>> /\ sSBUF0 \in Chars /\ staken \in Seq(Chars) /\ sheard = Append(staken, sSBUF0)
        /\ swire \in Seq(Outs)
    BY <2>1 DEF LineInv, UartInv, LTypes
  <2>3. /\ Line!Sent(sSBUF0) \in Seq(Outs) /\ Len(Line!Sent(sSBUF0)) \in 1 .. 2 /\ Line!Sent(sSBUF0) # <<>>
        /\ Append(staken, sSBUF0) \in Seq(Chars)
    BY <2>2, SentIs, AppendProperties
  <2>4. staken' \in Seq(Chars) /\ stodo' \in Seq(Outs) /\ Len(stodo') <= 2 /\ stodo' # <<>>
    <3>1. Len(Line!Sent(sSBUF0)) <= 2
      <4>1. \A n \in 1 .. 2 : n <= 2
        OBVIOUS
      <4>2. QED
        BY Zenon, <2>3, <4>1
    <3>2. QED
      BY Zenon, <2>1, <2>3, <3>1
  <2>5. LTypes'
    BY <2>1, <2>4 DEF LineInv, LTypes
  <2>6. UartInv'
    BY <2>1, <2>2, <2>4 DEF LineInv, UartInv
  <2>7. Line!EchoExact'
    <3>1. swire \o OnTheWay = Line!Expanded(staken)
      BY <2>2, LineSeqs, ConcatEmptySeq
    <3>2. swire \o OnTheWay \o Line!Sent(sSBUF0) = Line!Expanded(Append(staken, sSBUF0))
      BY <2>2, <3>1, ExpandedAppend
    <3>3. QED
      BY <2>1, <3>2 DEF Line!EchoExact, OnTheWay
  <2>8. RateInv' /\ Line!NoneLost'
    BY <2>1 DEF LineInv, RateInv, Line!NoneLost
  <2>9. QED
    BY <2>5, <2>6, <2>7, <2>8 DEF LineInv
<1>2. CASE Line!Goto("clear", "putchar") /\ sRI' = FALSE /\ UNCHANGED <<stodo, sTI, sSBUF0, stx, staken>>
  <2>1. /\ spc = "clear" /\ spc' = "putchar" /\ sRI' = FALSE
        /\ UNCHANGED <<spatient, srate, sRCAP2, stodo, sTI, sSBUF0, stx, styped, sheard, staken, swire>>
    BY <1>2 DEF Line!Goto
  <2>2. LTypes' /\ RateInv' /\ Line!NoneLost' /\ Line!EchoExact'
    BY <2>1 DEF LineInv, LTypes, RateInv, Line!NoneLost, Line!EchoExact
  <2>3. UartInv'
    BY <2>1 DEF LineInv, UartInv
  <2>4. QED
    BY <2>2, <2>3 DEF LineInv
<1>3. QED
  BY <1>1, <1>2 DEF Line!getchar

LEMMA LineTranschar == ASSUME LineInv, LFlags, Line!transchar PROVE LineInv'
<1>1. CASE /\ sTI /\ stodo # <<>> /\ Line!Goto("putchar", "write") /\ sTI' = FALSE
           /\ UNCHANGED <<stodo, sRI, sSBUF0, stx, staken>>
  <2>1. /\ sTI /\ stodo # <<>> /\ spc = "putchar" /\ spc' = "write" /\ sTI' = FALSE
        /\ UNCHANGED <<spatient, srate, sRCAP2, stodo, sRI, sSBUF0, stx, styped, sheard, staken, swire>>
    BY <1>1 DEF Line!Goto
  <2>2. LTypes' /\ RateInv' /\ Line!NoneLost' /\ Line!EchoExact'
    BY <2>1 DEF LineInv, LTypes, RateInv, Line!NoneLost, Line!EchoExact
  <2>3. UartInv'
    BY <2>1 DEF LineInv, UartInv
  <2>4. QED
    BY <2>2, <2>3 DEF LineInv
<1>2. CASE /\ Line!Goto("write", "putchar") /\ stx' = Head(stodo) /\ stodo' = Tail(stodo)
           /\ UNCHANGED <<sRI, sTI, sSBUF0, staken>>
  <2>1. /\ spc = "write" /\ spc' = "putchar" /\ stx' = Head(stodo) /\ stodo' = Tail(stodo)
        /\ UNCHANGED <<spatient, srate, sRCAP2, sRI, sTI, sSBUF0, styped, sheard, staken, swire>>
    BY <1>2 DEF Line!Goto
  <2>2. /\ stx = "" /\ ~sTI /\ stodo # <<>> /\ stodo \in Seq(Outs) /\ Len(stodo) <= 2 /\ swire \in Seq(Outs)
    BY <2>1 DEF LineInv, UartInv, LTypes
  <2>3. Head(stodo) \in Outs /\ Tail(stodo) \in Seq(Outs) /\ Len(Tail(stodo)) = Len(stodo) - 1
    BY <2>2, HeadTailProperties
  <2>4. Len(stodo') <= 2 /\ stx' # ""
    <3>1. Len(Tail(stodo)) <= 2
      <4>1. Len(stodo) \in Nat /\ Len(stodo) <= 2
        BY Zenon, <2>2, LenProperties
      <4>2. Len(Tail(stodo)) = Len(stodo) - 1
        BY <2>3
      <4>3. QED
        BY <4>1, <4>2
    <3>2. QED
      BY Zenon, <2>1, <2>3, <3>1, LConstants
  <2>5. LTypes'
    BY <2>1, <2>3, <2>4 DEF LineInv, LTypes
  <2>6. UartInv'
    BY <2>1, <2>2 DEF LineInv, UartInv
  <2>7. Line!EchoExact'
    <3>1. (swire \o <<Head(stodo)>>) \o Tail(stodo) = swire \o stodo
      BY <2>2, HeadThenTail
    <3>4. OnTheWay = <<>> /\ swire \o <<>> = swire
      BY <2>2, ConcatEmptySeq DEF OnTheWay
    <3>5. swire \o stodo = Line!Expanded(staken)
      BY <3>4, LineSeqs
    <3>6. QED
      BY <2>1, <2>4, <3>1, <3>5 DEF Line!EchoExact
  <2>8. RateInv' /\ Line!NoneLost'
    BY <2>1 DEF LineInv, RateInv, Line!NoneLost
  <2>9. QED
    BY <2>5, <2>6, <2>7, <2>8 DEF LineInv
<1>3. QED
  BY <1>1, <1>2 DEF Line!transchar

LEMMA LineEchoed == ASSUME LineInv, LFlags, Line!Echoed PROVE LineInv'
<1>1. /\ spc = "putchar" /\ spc' = "getchar" /\ stodo = <<>>
      /\ UNCHANGED <<spatient, srate, sRCAP2, stodo, sRI, sTI, sSBUF0, stx, styped, sheard, staken, swire>>
  BY DEF Line!Echoed, Line!Goto, Line!uart
<1>2. LTypes' /\ RateInv' /\ Line!NoneLost' /\ Line!EchoExact'
  BY <1>1 DEF LineInv, LTypes, RateInv, Line!NoneLost, Line!EchoExact
<1>3. UartInv'
  BY <1>1 DEF LineInv, UartInv
<1>4. QED
  BY <1>2, <1>3 DEF LineInv

LEMMA LineFlags == ASSUME LFlags, Line!Next \/ UNCHANGED serialVars PROVE LFlags'
  BY DEF LFlags, serialVars, Line!Next, Line!Type, Line!ByteSent, Line!Cpu, Line!sio0_init, Line!getchar,
         Line!transchar, Line!Echoed, Line!Goto, Line!uart

LEMMA NextLine == ASSUME LineInv, LFlags, Line!Next \/ UNCHANGED serialVars PROVE LineInv'
<1>1. CASE UNCHANGED serialVars
  BY <1>1 DEF serialVars, LineInv, LTypes, RateInv, UartInv, Line!EchoExact, Line!NoneLost
<1>2. CASE Line!Next
  BY <1>2, LineType, LineByteSent, LineStart, LineGetchar, LineTranschar, LineEchoed
     DEF Line!Next, Line!Cpu
<1>3. QED
  BY <1>1, <1>2

LEMMA LWord == Line!WORD = 65536
  BY DEF Line!WORD

LEMMA InRange ==
  ASSUME NEW w \in Nat, NEW k \in Nat, k < w
  PROVE  k \in -1 .. w - 1 /\ -1 \in -1 .. w - 1
  OBVIOUS

LEMMA ReloadRange ==
  ASSUME NEW m \in {1, 2, 4}, NEW b \in Nat \ {0}
  PROVE  Line!Reload(m, b) \in -1 .. Line!WORD - 1 /\ Line!Reload(m, b) >= 0
<1>1. Line!Divisor(m, b) \in Nat /\ Line!Divisor(m, b) < 65536
  <2> DEFINE q == (m * 375000 * 2) \div b
  <2>1. q \in Int
    BY SMT
  <2>2. (((q + 1) \div 2) % 65536) \in Nat /\ (((q + 1) \div 2) % 65536) < 65536
    <3> HIDE DEF q
    <3>2. (q + 1) \div 2 \in Int
      BY SMT, <2>1
    <3>3. QED
      BY SMT, <3>2
  <2>3. QED
    BY SMT, <2>2, LWord DEF Line!Divisor
<1> DEFINE hl == 65535 - Line!Divisor(m, b)
           r  == (hl \div 256) * 256 + (((hl % 256) + 1) % 256)
<1>2. Line!Reload(m, b) = r
  BY SMT, LWord DEF Line!Reload
<1>3. hl \in Nat /\ hl <= 65535
  BY SMT, <1>1
<1>4. r \in Nat /\ r <= 65535
  <2> HIDE DEF hl
  <2>1. /\ hl \div 256 \in Nat /\ hl \div 256 <= 255
        /\ ((hl % 256) + 1) % 256 \in Nat /\ ((hl % 256) + 1) % 256 <= 255
    BY SMT, <1>3
  <2>2. QED
    BY SMT, <2>1
<1>5. QED
  <2> HIDE DEF r, hl
  <2>1. r \in -1 .. Line!WORD - 1
    <3>1. Line!WORD \in Nat /\ r < Line!WORD
      BY SMT, <1>4, LWord
    <3>2. QED
      BY <1>4, <3>1, InRange
  <2>2. QED
    BY SMT, <1>2, <1>4, <2>1

\* A reload value for which the rate is as near as serial.h tells.
Near(m, b) ==
    LET counted == (Line!WORD - Line!Reload(m, b)) * b IN
    1000 * Line!Distance(m * 375000, counted) <= Line!ErrorTold(m, b) * counted

LEMMA Near1 ==
  ASSUME NEW b \in {2400, 4800, 9600, 19200, 28800, 38400, 57600}
  PROVE  Near(1, b)
<1>1. Near(1, 2400)
  BY SMT, LWord DEF Near, Line!Reload, Line!Divisor, Line!Distance, Line!ErrorTold
<1>2. Near(1, 4800)
  BY SMT, LWord DEF Near, Line!Reload, Line!Divisor, Line!Distance, Line!ErrorTold
<1>3. Near(1, 9600)
  BY SMT, LWord DEF Near, Line!Reload, Line!Divisor, Line!Distance, Line!ErrorTold
<1>4. Near(1, 19200)
  BY SMT, LWord DEF Near, Line!Reload, Line!Divisor, Line!Distance, Line!ErrorTold
<1>5. Near(1, 28800)
  BY SMT, LWord DEF Near, Line!Reload, Line!Divisor, Line!Distance, Line!ErrorTold
<1>6. Near(1, 38400)
  BY SMT, LWord DEF Near, Line!Reload, Line!Divisor, Line!Distance, Line!ErrorTold
<1>7. Near(1, 57600)
  BY SMT, LWord DEF Near, Line!Reload, Line!Divisor, Line!Distance, Line!ErrorTold
<1>8. QED
  BY SMT, <1>1, <1>2, <1>3, <1>4, <1>5, <1>6, <1>7

LEMMA Near2 ==
  ASSUME NEW b \in {2400, 4800, 9600, 19200, 28800, 38400, 57600}
  PROVE  Near(2, b)
<1>1. Near(2, 2400)
  BY SMT, LWord DEF Near, Line!Reload, Line!Divisor, Line!Distance, Line!ErrorTold
<1>2. Near(2, 4800)
  BY SMT, LWord DEF Near, Line!Reload, Line!Divisor, Line!Distance, Line!ErrorTold
<1>3. Near(2, 9600)
  BY SMT, LWord DEF Near, Line!Reload, Line!Divisor, Line!Distance, Line!ErrorTold
<1>4. Near(2, 19200)
  BY SMT, LWord DEF Near, Line!Reload, Line!Divisor, Line!Distance, Line!ErrorTold
<1>5. Near(2, 28800)
  BY SMT, LWord DEF Near, Line!Reload, Line!Divisor, Line!Distance, Line!ErrorTold
<1>6. Near(2, 38400)
  BY SMT, LWord DEF Near, Line!Reload, Line!Divisor, Line!Distance, Line!ErrorTold
<1>7. Near(2, 57600)
  BY SMT, LWord DEF Near, Line!Reload, Line!Divisor, Line!Distance, Line!ErrorTold
<1>8. QED
  BY SMT, <1>1, <1>2, <1>3, <1>4, <1>5, <1>6, <1>7

LEMMA Near4 ==
  ASSUME NEW b \in {2400, 4800, 9600, 19200, 28800, 38400, 57600}
  PROVE  Near(4, b)
<1>1. Near(4, 2400)
  BY SMT, LWord DEF Near, Line!Reload, Line!Divisor, Line!Distance, Line!ErrorTold
<1>2. Near(4, 4800)
  BY SMT, LWord DEF Near, Line!Reload, Line!Divisor, Line!Distance, Line!ErrorTold
<1>3. Near(4, 9600)
  BY SMT, LWord DEF Near, Line!Reload, Line!Divisor, Line!Distance, Line!ErrorTold
<1>4. Near(4, 19200)
  BY SMT, LWord DEF Near, Line!Reload, Line!Divisor, Line!Distance, Line!ErrorTold
<1>5. Near(4, 28800)
  BY SMT, LWord DEF Near, Line!Reload, Line!Divisor, Line!Distance, Line!ErrorTold
<1>6. Near(4, 38400)
  BY SMT, LWord DEF Near, Line!Reload, Line!Divisor, Line!Distance, Line!ErrorTold
<1>7. Near(4, 57600)
  BY SMT, LWord DEF Near, Line!Reload, Line!Divisor, Line!Distance, Line!ErrorTold
<1>8. QED
  BY SMT, <1>1, <1>2, <1>3, <1>4, <1>5, <1>6, <1>7

LEMMA LineSuffices ==
  ASSUME LineInv, LFlags
  PROVE  Line!TypeOK /\ Line!TakenAsHeard /\ Line!EchoExact /\ Line!NoneLost
<1>1. /\ spatient \in Patience /\ srate \in Rates /\ srate[1] \in {1, 2, 4} /\ srate[2] \in Nat \ {0}
      /\ staken \in Seq(Chars) /\ sheard \in Seq(Chars) /\ sSBUF0 \in Chars \cup {""}
  <2>1. /\ spatient \in Patience /\ srate \in Rates
        /\ staken \in Seq(Chars) /\ sheard \in Seq(Chars) /\ sSBUF0 \in Chars \cup {""}
    BY DEF LineInv, LTypes
  <2>2. srate \in {1, 2, 4} \X (Nat \ {0})
    BY <2>1, LConstants
  <2>3. QED
    BY <2>1, <2>2
<1>2. sRCAP2 \in -1 .. Line!WORD - 1
  <2>1. CASE spc = "init"
    <3>1. sRCAP2 = -1
      BY <2>1 DEF LineInv, RateInv
    <3>2. Line!WORD \in Nat /\ 0 < Line!WORD
      BY SMT, LWord
    <3>3. QED
      BY <3>1, <3>2, InRange
  <2>2. CASE spc # "init"
    BY <2>2, <1>1, ReloadRange DEF LineInv, RateInv
  <2>3. QED
    BY <2>1, <2>2
<1>3. Line!TypeOK
  BY <1>1, <1>2 DEF LineInv, LTypes, UartInv, LFlags, Line!TypeOK
<1>4. Line!TakenAsHeard
  <2>1. Len(staken) \in Nat
    BY Zenon, <1>1, LenProperties
  <2>2. CASE sheard = staken
    <3>1. Len(staken) <= Len(staken) /\ Len(staken) <= Len(staken) + 1
      BY <2>1
    <3>2. QED
      BY Zenon, <2>2, <3>1 DEF Line!TakenAsHeard, Line!IsPrefix
  <2>3. CASE sSBUF0 \in Chars /\ sheard = Append(staken, sSBUF0)
    <3>1. /\ Len(sheard) = Len(staken) + 1
          /\ \A i \in 1 .. Len(staken) : sheard[i] = staken[i]
      <4>1. /\ Len(Append(staken, sSBUF0)) = Len(staken) + 1
            /\ \A i \in 1 .. Len(staken) : Append(staken, sSBUF0)[i] = staken[i]
        <5>1. staken \in Seq(Chars) /\ sSBUF0 \in Chars
          BY Zenon, <1>1, <2>3
        <5>2. QED
          BY <5>1, AppendProperties
      <4>2. QED
        BY Zenon, <2>3, <4>1
    <3>2. SubSeq(staken, 1, Len(staken)) = SubSeq(sheard, 1, Len(staken))
      <4>1. \A i \in 1 .. Len(staken) : staken[i] \in Chars /\ sheard[i] \in Chars
        BY <1>1, <3>1, ElementOfSeq
      <4>2. /\ SubSeq(staken, 1, Len(staken)) \in Seq(Chars)
            /\ SubSeq(sheard, 1, Len(staken)) \in Seq(Chars)
            /\ Len(SubSeq(staken, 1, Len(staken))) = Len(staken)
            /\ Len(SubSeq(sheard, 1, Len(staken))) = Len(staken)
            /\ \A i \in 1 .. Len(staken) : /\ SubSeq(staken, 1, Len(staken))[i] = staken[i]
                                          /\ SubSeq(sheard, 1, Len(staken))[i] = sheard[i]
        BY <2>1, <4>1, SubSeqProperties
      <4>3. QED
        BY <2>1, <3>1, <4>2, SeqEqual
    <3>3. Len(staken) <= Len(sheard) /\ Len(sheard) <= Len(staken) + 1
      BY <2>1, <3>1
    <3>4. QED
      BY <3>2, <3>3 DEF Line!TakenAsHeard, Line!IsPrefix
  <2>4. sheard = staken \/ (sSBUF0 \in Chars /\ sheard = Append(staken, sSBUF0))
    BY <1>1 DEF LineInv, UartInv, LFlags
  <2>5. QED
    BY <2>2, <2>3, <2>4
<1>5. QED
  BY <1>3, <1>4 DEF LineInv

LEMMA LineRate == ASSUME LineInv, Rates \subseteq RatesOfHeader PROVE Line!BaudAsTold
<1>1. /\ srate[1] \in {1, 2, 4} /\ srate[2] \in {2400, 4800, 9600, 19200, 28800, 38400, 57600}
  <2>1. srate \in RatesOfHeader
    BY Zenon DEF LineInv, LTypes
  <2>2. QED
    BY SMT, <2>1 DEF RatesOfHeader
<1>2. sRCAP2 # -1 => sRCAP2 = Line!Reload(srate[1], srate[2])
  BY DEF LineInv, RateInv
<1>3. Near(srate[1], srate[2])
  BY SMT, <1>1, Near1, Near2, Near4
<1>4. QED
  BY SMT, <1>2, <1>3 DEF Line!BaudAsTold, Near

-----------------------------------------------------------------------------
(* The EP0 helpers (Ep0Data).                                              *)

Kinds  == Ep0!InKinds \cup Ep0!OutKinds
Moves  == Seq(Nat \X Nat)

\* The packet that waits in EP0BUF for the host.
Packet == IF eep0 = "in" THEN ebuf ELSE <<>>

ETypes ==
    /\ efw \in Ep0!Firmwares /\ etrouble \in Troubles
    /\ epc \in {"idle", "loop", "fill", "armin", "armout", "wait", "store"}
    /\ eep0 \in {"free", "in", "out"} /\ eresult \in {"none", "ack", "stall"}
    /\ ekind \in efw \cup {""} /\ eh.kind \in efw \cup {""}
    /\ eh.len \in Nat /\ emoved \in Nat /\ eid \in Nat /\ eh.id \in Nat /\ elen \in Nat /\ eout \in Nat
    /\ ebuf \in Moves /\ egot \in Moves /\ estored \in Moves /\ Len(ebuf) <= CHUNK

EFlags == eopen \in BOOLEAN /\ erequested \in BOOLEAN

\* Where the handler is and what it has found there, whatever the host does.
PlaceInv ==
    /\ erequested => ekind # ""
    /\ epc # "idle" => eh.kind # ""
    /\ epc \in {"fill", "armin"} => eh.kind \in Ep0!InKinds /\ eep0 = "free" /\ emoved < eh.len
    /\ epc \in {"armout", "store"} => eh.kind \in Ep0!OutKinds /\ emoved < eh.len
    /\ epc = "wait" /\ eh.kind # "report" => emoved < eh.len
    /\ epc # "wait" /\ "report" \in efw => eep0 = "free"

Faulty == etrouble = "faults" /\ ekind = "eeprom_in"

\* The request that the handler works on is the host's latest.
TurnInv ==
    /\ ~eopen => epc = "idle" /\ ~erequested
    /\ erequested => epc = "idle" /\ eresult = "none" /\ eep0 = "free" /\ eout = 0 /\ egot = <<>>
    /\ epc # "idle" => eresult = "none"
    /\ ~erequested => eh.id = eid /\ eh.kind = ekind /\ eh.len = elen
    /\ ~erequested /\ eresult = "ack" => emoved = elen
    /\ ekind \notin Ep0!InKinds => egot = <<>>
    /\ eresult = "ack" => ekind # ""
    /\ emoved <= eh.len /\ Len(estored) <= eh.len /\ eout <= elen

\* What has been sent and what waits in EP0BUF are the bytes moved.
InInv ==
    ~erequested /\ ekind \in Ep0!InKinds =>
        /\ eout = 0 /\ Len(egot) + Len(Packet) = emoved
        /\ epc = "armin" => emoved + Len(ebuf) <= elen
        /\ ~Faulty => /\ egot \o Packet = Ep0!Bytes(eid, 0, emoved)
                      /\ epc = "armin" => ebuf = Ep0!Bytes(eid, emoved, Len(ebuf))

\* What has been stored and what waits in EP0BUF are the bytes that came.
OutInv ==
    ~erequested /\ ekind \in Ep0!OutKinds =>
        /\ estored = Ep0!Bytes(eid, 0, emoved)
        /\ eep0 = "out" => epc = "wait"
        /\ epc = "store" \/ (epc = "wait" /\ eep0 = "free") =>
              eout = emoved + Len(ebuf) /\ ebuf = Ep0!Bytes(eid, emoved, Len(ebuf))
        /\ epc \in {"loop", "armout"} \/ (epc = "wait" /\ eep0 # "free") => eout = emoved

DataInv == etrouble # "gives up" => TurnInv /\ InInv /\ OutInv

Ep0Inv == ETypes /\ PlaceInv /\ DataInv

LEMMA EConstants ==
  /\ CHUNK \in Nat \ {0} /\ LineLen \in Nat \ {0} /\ LineLen <= CHUNK /\ MaxLen \in Nat
  /\ HidLen \in Nat
  BY DriversAssumption DEF Ep0!Ep0DataAssumption

LEMMA EKinds ==
  /\ \A f \in Ep0!Firmwares : f \subseteq Kinds /\ ("report" \in f => f = {"report"})
  /\ "" \notin Kinds /\ Ep0!InKinds \cap Ep0!OutKinds = {} /\ "report" \in Ep0!InKinds
  BY DEF Ep0!Firmwares, Kinds, Ep0!InKinds, Ep0!OutKinds

LEMMA BytesAre ==
  ASSUME NEW t \in Nat, NEW m \in Nat, NEW n \in Nat
  PROVE  Ep0!Bytes(t, m, n) \in Moves /\ Len(Ep0!Bytes(t, m, n)) = n
<1>1. Ep0!Bytes(t, m, n) \in [1 .. n -> Nat \X Nat]
  BY DEF Ep0!Bytes
<1> DEFINE P == Nat \X Nat
           b == Ep0!Bytes(t, m, n)
<1>2. b \in [1 .. n -> P]
  BY <1>1
<1>3. b \in Seq(P) /\ Len(b) = n
  <2> HIDE DEF b, P
  <2> QED
    BY <1>2
<1>4. QED
  BY <1>3 DEF Moves

LEMMA NoBytes == ASSUME NEW t \in Nat, NEW m \in Nat PROVE Ep0!Bytes(t, m, 0) = <<>>
  BY BytesAre, EmptySeq DEF Moves

LEMMA BytesConcat ==
  ASSUME NEW t \in Nat, NEW m \in Nat, NEW n \in Nat
  PROVE  Ep0!Bytes(t, 0, m) \o Ep0!Bytes(t, m, n) = Ep0!Bytes(t, 0, m + n)
<1> DEFINE a == Ep0!Bytes(t, 0, m)
           b == Ep0!Bytes(t, m, n)
           c == Ep0!Bytes(t, 0, m + n)
           P == Nat \X Nat
<1>1. a \in Seq(P) /\ b \in Seq(P) /\ c \in Seq(P) /\ Len(a) = m /\ Len(b) = n /\ Len(c) = m + n
  <2>1. /\ Ep0!Bytes(t, 0, m) \in Moves /\ Len(Ep0!Bytes(t, 0, m)) = m
        /\ Ep0!Bytes(t, m, n) \in Moves /\ Len(Ep0!Bytes(t, m, n)) = n
    BY BytesAre, 0 \in Nat
  <2>2. Ep0!Bytes(t, 0, m + n) \in Moves /\ Len(Ep0!Bytes(t, 0, m + n)) = m + n
    BY BytesAre, 0 \in Nat, m + n \in Nat
  <2>3. QED
    BY Zenon, <2>1, <2>2 DEF Moves
<1>2. /\ \A k \in 1 .. m : a[k] = <<t, 0 + k>>
      /\ \A k \in 1 .. n : b[k] = <<t, m + k>>
      /\ \A k \in 1 .. m + n : c[k] = <<t, 0 + k>>
  BY DEF Ep0!Bytes
<1> HIDE DEF a, b, c, P
<1>3. /\ a \o b \in Seq(P) /\ Len(a \o b) = m + n
      /\ \A i \in 1 .. m + n : (a \o b)[i] = IF i <= m THEN a[i] ELSE b[i - m]
  BY <1>1, ConcatProperties
<1>4. ASSUME NEW i \in 1 .. m + n PROVE (a \o b)[i] = c[i]
  <2>1. CASE i <= m
    <3>1. (a \o b)[i] = a[i] /\ i \in 1 .. m
      BY <1>3, <2>1
    <3>2. QED
      BY <1>2, <3>1
  <2>2. CASE ~(i <= m)
    <3>1. (a \o b)[i] = b[i - m] /\ i - m \in 1 .. n
      BY <1>3, <2>2
    <3>2. b[i - m] = <<t, m + (i - m)>> /\ m + (i - m) = 0 + i
      BY <1>2, <3>1
    <3>3. QED
      BY <1>2, <3>1, <3>2
  <2>3. QED
    BY <2>1, <2>2
<1>5. a \o b = c
  BY <1>1, <1>3, <1>4, SeqEqual
<1>6. QED
  BY <1>5 DEF a, b, c

LEMMA SmallerIs ==
  ASSUME NEW k \in Nat, NEW m \in Nat, m < k
  PROVE  LET n == Ep0!Smaller(CHUNK, k - m) IN n \in Nat /\ n <= CHUNK /\ n > 0 /\ m + n <= k
  BY EConstants DEF Ep0!Smaller

LEMMA InitEp0 == ASSUME Ep0!Init PROVE Ep0Inv
<1>1. <<>> \in Moves /\ Len(<<>>) = 0 /\ 0 <= CHUNK
  BY EConstants DEF Moves
<1>7. 0 <= 0
  BY SMT
<1>2. ETypes
  <2>1. /\ efw \in Ep0!Firmwares /\ etrouble \in Troubles /\ epc = "idle" /\ eep0 = "free" /\ eresult = "none"
        /\ ekind = "" /\ eh.kind = "" /\ eh.len = 0 /\ emoved = 0 /\ eid = 0 /\ eh.id = 0 /\ elen = 0
        /\ eout = 0 /\ ebuf = <<>> /\ egot = <<>> /\ estored = <<>>
    BY DEF Ep0!Init
  <2>2. Len(ebuf) <= CHUNK
    BY Zenon, <1>1, <2>1
  <2>3. 0 \in Nat /\ ebuf \in Moves /\ egot \in Moves /\ estored \in Moves
    BY <1>1, <2>1
  <2>4. QED
    BY <2>1, <2>2, <2>3 DEF ETypes
<1>3. PlaceInv
  BY DEF Ep0!Init, PlaceInv
<1>4. TurnInv
  <2>1. /\ epc = "idle" /\ ~erequested /\ eresult = "none" /\ eh.id = eid /\ eh.kind = ekind /\ eh.len = elen
        /\ emoved = 0 /\ eh.len = 0 /\ eout = 0 /\ elen = 0 /\ estored = <<>> /\ egot = <<>>
    BY DEF Ep0!Init
  <2>2. Len(estored) <= eh.len
    BY Zenon, <1>1, <1>7, <2>1
  <2>3. QED
    BY <2>1, <2>2 DEF TurnInv
<1>5. InInv /\ OutInv
  BY DEF Ep0!Init, InInv, OutInv, Ep0!InKinds, Ep0!OutKinds
<1>6. QED
  BY <1>2, <1>3, <1>4, <1>5 DEF Ep0Inv, DataInv

LEMMA LengthsNat ==
  ASSUME NEW k, NEW n \in Ep0!Lengths(k)
  PROVE  n \in Nat
<1>1. CASE k = "report"
  <2>1. Ep0!Lengths(k) = {HidLen}
    BY Zenon, <1>1 DEF Ep0!Lengths
  <2>2. QED
    BY <2>1, EConstants
<1>2. CASE k = "line_coding"
  <2>1. Ep0!Lengths(k) = {LineLen}
    BY Zenon, <1>2 DEF Ep0!Lengths
  <2>2. QED
    BY <2>1, EConstants
<1>3. CASE k # "report" /\ k # "line_coding"
  <2>1. Ep0!Lengths(k) = 1 .. MaxLen
    BY Zenon, <1>3 DEF Ep0!Lengths
  <2>2. QED
    BY <2>1, EConstants
<1>4. QED
  BY <1>1, <1>2, <1>3

LEMMA EpSetup == ASSUME Ep0Inv, EFlags, Ep0!Setup PROVE Ep0Inv'
<1>1. /\ ~eopen /\ ekind' \in efw /\ elen' \in Ep0!Lengths(ekind') /\ eopen' = TRUE /\ eid' = eid + 1
      /\ erequested' = TRUE /\ eep0' = "free" /\ eout' = 0 /\ egot' = <<>> /\ eresult' = "none"
      /\ UNCHANGED <<epc, eh, emoved, estored, ebuf, efw, etrouble>>
  BY DEF Ep0!Setup, Ep0!dev
<1>2. elen' \in Nat /\ eid' \in Nat /\ <<>> \in Moves
  <2>1. elen' \in Nat
    BY Zenon, <1>1, LengthsNat
  <2>2. eid \in Nat
    BY DEF Ep0Inv, ETypes
  <2>3. eid' \in Nat
    BY <1>1, <2>2
  <2>4. <<>> \in Moves
    BY DEF Moves
  <2>5. QED
    BY <2>1, <2>3, <2>4
<1>3. ETypes'
  BY <1>1, <1>2 DEF Ep0Inv, ETypes
<1>4. PlaceInv'
  <2>1. ekind' # ""
    BY <1>1, EKinds DEF Ep0Inv, ETypes
  <2>2. QED
    BY <1>1, <2>1 DEF Ep0Inv, PlaceInv
<1>5. ASSUME etrouble # "gives up" PROVE TurnInv' /\ InInv' /\ OutInv'
  <2>1. TurnInv'
    <3>1. epc = "idle" /\ emoved <= eh.len /\ Len(estored) <= eh.len
      BY <1>1, <1>5 DEF Ep0Inv, DataInv, TurnInv
    <3>2. eout' <= elen'
      BY <1>1, <1>2
    <3>3. QED
      BY Zenon, <1>1, <3>1, <3>2 DEF TurnInv
  <2>2. InInv' /\ OutInv'
    BY Zenon, <1>1 DEF InInv, OutInv
  <2>3. QED
    BY <2>1, <2>2
<1>6. QED
  BY <1>1, <1>3, <1>4, <1>5 DEF Ep0Inv, DataInv

LEMMA EpTakeIn == ASSUME Ep0Inv, EFlags, Ep0!TakeIn PROVE Ep0Inv'
<1>1. /\ eopen /\ ekind \in Ep0!InKinds /\ Len(egot) < elen /\ eep0 = "in"
      /\ egot' = egot \o ebuf /\ eep0' = "free"
      /\ UNCHANGED <<epc, eh, emoved, estored, ebuf, eopen, eout, erequested, eresult, efw, etrouble, eid, ekind, elen>>
  BY DEF Ep0!TakeIn, Ep0!dev, Ep0!req
<1>2. egot \in Moves /\ ebuf \in Moves /\ egot' \in Moves /\ egot' \o <<>> = egot'
      /\ Len(egot') = Len(egot) + Len(ebuf) /\ Len(<<>>) = 0
  <2>1. egot \in Moves /\ ebuf \in Moves
    BY DEF Ep0Inv, ETypes
  <2>2. egot \o ebuf \in Moves /\ Len(egot \o ebuf) = Len(egot) + Len(ebuf)
    BY <2>1, ConcatProperties DEF Moves
  <2>3. egot' \o <<>> = egot'
    BY <1>1, <2>2, ConcatEmptySeq DEF Moves
  <2>4. QED
    BY <1>1, <2>1, <2>2, <2>3
<1>3. ETypes'
  BY <1>1, <1>2 DEF Ep0Inv, ETypes
<1>4. PlaceInv'
  BY <1>1 DEF Ep0Inv, PlaceInv
<1>5. ASSUME etrouble # "gives up" PROVE TurnInv' /\ InInv' /\ OutInv'
  <2>0. TurnInv /\ InInv
    BY <1>5 DEF Ep0Inv, DataInv
  <2>1. ~erequested
    BY <1>1, <2>0 DEF TurnInv, EFlags
  <2>2. TurnInv'
    BY <1>1, <2>0, <2>1 DEF TurnInv
  <2>3. OutInv'
    BY <1>1, EKinds DEF OutInv
  <2>4. Packet = ebuf /\ Packet' = <<>>
    BY <1>1 DEF Packet
  <2>5. egot' \o Packet' = egot \o Packet
    BY <1>1, <1>2, <2>4
  <2>6. Len(egot') + Len(Packet') = Len(egot) + Len(Packet)
    <3>1. Len(egot') \in Nat
      BY <1>2, LenProperties DEF Moves
    <3>2. QED
      BY <3>1, <1>2, <2>4
  <2>7. Faulty' = Faulty
    BY <1>1 DEF Faulty
  <2>8. InInv'
    BY <1>1, <2>0, <2>1, <2>5, <2>6, <2>7 DEF InInv
  <2>9. QED
    BY <2>2, <2>3, <2>8
<1>6. QED
  BY <1>1, <1>3, <1>4, <1>5 DEF Ep0Inv, DataInv

LEMMA EpSendOut == ASSUME Ep0Inv, EFlags, Ep0!SendOut PROVE Ep0Inv'
<1> DEFINE n == Ep0!Smaller(CHUNK, elen - eout)
<1>1. /\ eopen /\ ekind \in Ep0!OutKinds /\ eout < elen /\ eep0 = "out"
      /\ ebuf' = Ep0!Bytes(eid, eout, n) /\ eout' = eout + n /\ eep0' = "free"
      /\ UNCHANGED <<epc, eh, emoved, estored, eopen, egot, erequested, eresult, efw, etrouble, eid, ekind, elen>>
  BY DEF Ep0!SendOut, Ep0!dev, Ep0!req
<1>2. eout \in Nat /\ elen \in Nat /\ eid \in Nat
  BY DEF Ep0Inv, ETypes
<1>3. n \in Nat /\ n <= CHUNK /\ eout + n <= elen
  BY <1>1, <1>2, SmallerIs
<1> HIDE DEF n
<1>4. ebuf' \in Moves /\ Len(ebuf') = n
  BY <1>1, <1>2, <1>3, BytesAre
<1>5. ETypes'
  <2>1. eout' \in Nat /\ Len(ebuf') <= CHUNK
    BY <1>1, <1>2, <1>3, <1>4
  <2>2. QED
    BY <1>1, <1>4, <2>1 DEF Ep0Inv, ETypes
<1>6. PlaceInv'
  BY <1>1 DEF Ep0Inv, PlaceInv
<1>7. ASSUME etrouble # "gives up" PROVE TurnInv' /\ InInv' /\ OutInv'
  <2>0. TurnInv /\ OutInv
    BY <1>7 DEF Ep0Inv, DataInv
  <2>1. ~erequested
    BY <1>1, <2>0 DEF TurnInv, EFlags
  <2>2. TurnInv'
    BY <1>1, <1>3, <2>0, <2>1 DEF TurnInv
  <2>3. InInv'
    BY <1>1, EKinds DEF InInv
  <2>4. epc = "wait" /\ eout = emoved
    BY <1>1, <2>0, <2>1 DEF OutInv
  <2>5. eout' = emoved' + Len(ebuf') /\ ebuf' = Ep0!Bytes(eid', emoved', Len(ebuf'))
    BY <1>1, <1>4, <2>4
  <2>6. OutInv'
    BY <1>1, <2>0, <2>1, <2>4, <2>5 DEF OutInv
  <2>7. QED
    BY <2>2, <2>3, <2>6
<1>8. QED
  BY <1>1, <1>5, <1>6, <1>7 DEF Ep0Inv, DataInv

LEMMA EpFinish == ASSUME Ep0Inv, EFlags, Ep0!Finish PROVE Ep0Inv'
<1>1. /\ eopen /\ eresult # "none" /\ eopen' = FALSE
      /\ UNCHANGED <<epc, eh, emoved, estored, eep0, ebuf, eout, egot, erequested, eresult, efw, etrouble, eid, ekind, elen>>
  BY DEF Ep0!Finish, Ep0!dev, Ep0!req
<1>2. ETypes' /\ PlaceInv'
  BY <1>1 DEF Ep0Inv, ETypes, PlaceInv
<1>3. ASSUME etrouble # "gives up" PROVE TurnInv' /\ InInv' /\ OutInv'
  <2>1. TurnInv'
    BY <1>1, <1>3 DEF Ep0Inv, DataInv, TurnInv, EFlags
  <2>2. InInv' /\ OutInv'
    BY <1>1, <1>3 DEF Ep0Inv, DataInv, InInv, OutInv, Packet, Faulty
  <2>3. QED
    BY <2>1, <2>2
<1>4. QED
  BY <1>1, <1>2, <1>3 DEF Ep0Inv, DataInv

LEMMA EpGiveUp == ASSUME Ep0Inv, EFlags, Ep0!GiveUp PROVE Ep0Inv'
<1>1. /\ etrouble = "gives up" /\ eopen' = FALSE
      /\ UNCHANGED <<epc, eh, emoved, estored, eep0, ebuf, eout, egot, erequested, eresult, efw, etrouble, eid, ekind, elen>>
  BY DEF Ep0!GiveUp, Ep0!dev, Ep0!req
<1>2. QED
  BY <1>1 DEF Ep0Inv, ETypes, PlaceInv, DataInv

LEMMA EpDispatch == ASSUME Ep0Inv, EFlags, Ep0!Dispatch PROVE Ep0Inv'
<1>1. /\ erequested /\ epc = "idle" /\ epc' = "loop"
      /\ eh' = [id |-> eid, kind |-> ekind, len |-> elen]
      /\ erequested' = FALSE /\ emoved' = 0 /\ estored' = <<>>
      /\ UNCHANGED <<eep0, ebuf, eopen, eout, egot, eresult, efw, etrouble, eid, ekind, elen>>
  BY DEF Ep0!Dispatch, Ep0!Handler, Ep0!req
<1>2. eh'.id = eid /\ eh'.kind = ekind /\ eh'.len = elen
  BY <1>1
<1>3. eid \in Nat /\ elen \in Nat /\ <<>> \in Moves /\ ekind \in efw \cup {""}
  <2>1. eid \in Nat /\ elen \in Nat /\ ekind \in efw \cup {""}
    BY DEF Ep0Inv, ETypes
  <2>2. <<>> \in Moves
    BY DEF Moves
  <2>3. QED
    BY <2>1, <2>2
<1>4. ETypes'
  BY <1>1, <1>2, <1>3 DEF Ep0Inv, ETypes
<1>5. PlaceInv'
  BY <1>1, <1>2 DEF Ep0Inv, PlaceInv
<1>6. ASSUME etrouble # "gives up" PROVE TurnInv' /\ InInv' /\ OutInv'
  <2>1. eopen /\ eresult = "none" /\ eep0 = "free" /\ eout = 0 /\ egot = <<>> /\ eout <= elen
    BY <1>1, <1>6 DEF Ep0Inv, DataInv, TurnInv, EFlags
  <2>2. Len(<<>>) = 0 /\ Len(<<>>) <= elen /\ 0 <= elen
    <3>1. Len(<<>>) = 0
      OBVIOUS
    <3>2. 0 <= elen
      <4>1. elen \in Nat
        BY Zenon, <1>3
      <4>2. QED
        BY <4>1
    <3>3. QED
      BY Zenon, <3>1, <3>2
  <2>3. TurnInv'
    BY Zenon, <1>1, <1>2, <2>1, <2>2 DEF TurnInv
  <2>4. Packet' = <<>> /\ <<>> \o <<>> = <<>> /\ 0 + 0 = 0
    BY <1>1, <2>1 DEF Packet
  <2>5. Ep0!Bytes(eid, 0, 0) = <<>>
    BY <1>3, NoBytes, 0 \in Nat
  <2>6. epc' # "armin" /\ epc' # "store" /\ epc' # "wait" /\ eep0' # "out"
    BY <1>1, <2>1
  <2>7. InInv'
    BY Zenon, <1>1, <2>1, <2>2, <2>4, <2>5, <2>6 DEF InInv
  <2>8. OutInv'
    BY Zenon, <1>1, <2>1, <2>5, <2>6 DEF OutInv
  <2>9. QED
    BY <2>3, <2>7, <2>8
<1>7. QED
  BY <1>1, <1>4, <1>5, <1>6 DEF Ep0Inv, DataInv

\* An answer ends a transfer that is open.
LEMMA EpAck ==
  ASSUME Ep0Inv, EFlags, epc = "loop", epc' = "idle", eresult' = IF eopen THEN "ack" ELSE eresult,
         emoved >= eh.len,
         UNCHANGED <<eh, emoved, estored, eep0, ebuf, erequested, eopen, eout, egot, efw, etrouble, eid, ekind, elen>>
  PROVE  Ep0Inv'
<1>1. ETypes'
  BY DEF Ep0Inv, ETypes
<1>2. PlaceInv'
  BY DEF Ep0Inv, PlaceInv
<1>3. ASSUME etrouble # "gives up" PROVE TurnInv' /\ InInv' /\ OutInv'
  <2>1. TurnInv /\ InInv /\ OutInv
    BY <1>3 DEF Ep0Inv, DataInv
  <2>0. ekind # ""
    BY <2>1 DEF TurnInv, EFlags, Ep0Inv, PlaceInv
  <2>2. eopen /\ ~erequested /\ eh.len = elen /\ emoved <= eh.len
    BY <2>1 DEF TurnInv, EFlags
  <2>3. emoved = elen
    <3>1. emoved \in Nat /\ elen \in Nat
      BY DEF Ep0Inv, ETypes
    <3>2. QED
      BY <2>2, <3>1
  <2>4. TurnInv'
    BY <2>0, <2>1, <2>2, <2>3 DEF TurnInv
  <2>5. Packet' = Packet /\ Faulty' = Faulty
    BY DEF Packet, Faulty
  <2>6. InInv'
    BY <2>1, <2>2, <2>5 DEF InInv
  <2>7. OutInv'
    BY <2>1, <2>2 DEF OutInv
  <2>8. QED
    BY <2>4, <2>6, <2>7
<1>4. QED
  BY <1>1, <1>2, <1>3 DEF Ep0Inv, DataInv

LEMMA EpLoop == ASSUME Ep0Inv, EFlags, Ep0!Loop PROVE Ep0Inv'
<1>1. CASE /\ emoved < eh.len
           /\ Ep0!Handler("loop", IF eh.kind \in Ep0!OutKinds THEN "armout"
                                  ELSE IF eh.kind = "report" THEN "fill" ELSE "wait")
           /\ UNCHANGED <<eh, emoved, estored, eep0, ebuf, erequested, eresult>>
  <2>1. /\ epc = "loop" /\ epc' = IF eh.kind \in Ep0!OutKinds THEN "armout"
                                  ELSE IF eh.kind = "report" THEN "fill" ELSE "wait"
        /\ UNCHANGED <<eh, emoved, estored, eep0, ebuf, eopen, eout, egot, erequested, eresult, efw, etrouble, eid, ekind, elen>>
    BY <1>1 DEF Ep0!Handler, Ep0!req
  <2>2. epc' \in {"armout", "fill", "wait"}
    BY <2>1
  <2>3. ETypes'
    BY <2>1, <2>2 DEF Ep0Inv, ETypes
  <2>4. eh.kind = "report" => "report" \in efw
    BY DEF Ep0Inv, ETypes
  <2>5. PlaceInv'
    <3>1. PlaceInv
      BY DEF Ep0Inv
    <3>2. eh.kind = "report" => eep0 = "free" /\ eh.kind \in Ep0!InKinds
      BY <2>1, <2>4, <3>1, EKinds DEF PlaceInv
    <3>3. "report" \in efw => eep0 = "free"
      BY <2>1, <3>1 DEF PlaceInv
    <3>4. QED
      <4>1. /\ epc' = "armout" => eh.kind \in Ep0!OutKinds
            /\ epc' = "fill" => eh.kind = "report"
            /\ epc' = "wait" => eh.kind # "report"
            /\ epc' # "idle" /\ epc' # "armin" /\ epc' # "store"
        <5>1. CASE eh.kind \in Ep0!OutKinds
          BY <2>1, <5>1, EKinds
        <5>2. CASE eh.kind \notin Ep0!OutKinds /\ eh.kind = "report"
          BY <2>1, <5>2
        <5>3. CASE eh.kind \notin Ep0!OutKinds /\ eh.kind # "report"
          BY <2>1, <5>3
        <5>4. QED
          BY <5>1, <5>2, <5>3
      <4>2. (erequested => ekind # "") /\ eh.kind # ""
        BY <2>1, <3>1 DEF PlaceInv
      <4>3. UNCHANGED <<eh, emoved, eep0, erequested, ekind, efw>> /\ emoved < eh.len
        BY <1>1, <2>1
      <4>4. QED
        BY Zenon, <3>2, <3>3, <4>1, <4>2, <4>3 DEF PlaceInv
  <2>6. ASSUME etrouble # "gives up" PROVE TurnInv' /\ InInv' /\ OutInv'
    <3>1. TurnInv /\ InInv /\ OutInv
      BY <2>6 DEF Ep0Inv, DataInv
    <3>2. TurnInv'
      BY <2>1, <2>2, <3>1 DEF TurnInv, EFlags
    <3>3. InInv'
      BY <2>1, <2>2, <3>1 DEF InInv, Packet, Faulty
    <3>4. ~erequested => ekind = eh.kind
      BY <3>1 DEF TurnInv
    <3>5. OutInv'
      BY <2>1, <2>2, <3>1, <3>4 DEF OutInv
    <3>6. QED
      BY <3>2, <3>3, <3>5
  <2>7. QED
    BY <2>1, <2>3, <2>5, <2>6 DEF Ep0Inv, DataInv
<1>2. CASE /\ emoved >= eh.len
           /\ Ep0!Handler("loop", "idle") /\ Ep0!Answer("ack")
           /\ UNCHANGED <<eh, emoved, estored, eep0, ebuf, erequested>>
  BY <1>2, EpAck DEF Ep0!Handler, Ep0!req, Ep0!Answer
<1>3. QED
  BY <1>1, <1>2 DEF Ep0!Loop

LEMMA EpWait == ASSUME Ep0Inv, EFlags, Ep0!Wait PROVE Ep0Inv'
<1>1. /\ epc = "wait" /\ eep0 = "free"
      /\ epc' = IF eh.kind \in Ep0!OutKinds THEN "store"
                ELSE IF eh.kind = "report" THEN "loop" ELSE "fill"
      /\ UNCHANGED <<eh, emoved, estored, eep0, ebuf, eopen, eout, egot, erequested, eresult, efw, etrouble, eid, ekind, elen>>
  BY DEF Ep0!Wait, Ep0!Handler, Ep0!req
<1>2. epc' \in {"store", "loop", "fill"}
  BY <1>1
<1>3. ETypes'
  BY <1>1, <1>2 DEF Ep0Inv, ETypes
<1>4. efw \subseteq Kinds /\ eh.kind \in Kinds
  BY <1>1, EKinds DEF Ep0Inv, ETypes, PlaceInv
<1>5. PlaceInv'
  BY <1>1, <1>4, EKinds DEF Ep0Inv, PlaceInv, Kinds
<1>6. ASSUME etrouble # "gives up" PROVE TurnInv' /\ InInv' /\ OutInv'
  <2>1. TurnInv /\ InInv /\ OutInv
    BY <1>6 DEF Ep0Inv, DataInv
  <2>2. TurnInv'
    BY <1>1, <1>2, <2>1 DEF TurnInv, EFlags
  <2>3. InInv'
    BY <1>1, <1>2, <2>1 DEF InInv, Packet, Faulty
  <2>4. ~erequested => ekind = eh.kind
    BY <2>1 DEF TurnInv
  <2>5. OutInv'
    BY <1>1, <1>2, <2>1, <2>4 DEF OutInv
  <2>6. QED
    BY <2>2, <2>3, <2>5
<1>7. QED
  BY <1>1, <1>3, <1>5, <1>6 DEF Ep0Inv, DataInv

LEMMA EpFill == ASSUME Ep0Inv, EFlags, Ep0!Fill PROVE Ep0Inv'
<1> DEFINE n == Ep0!Smaller(CHUNK, eh.len - emoved)
<1>1. /\ epc = "fill" /\ epc' = "armin"
      /\ ebuf' = Ep0!Bytes(eh.id, emoved, n)
         \/ (etrouble = "faults" /\ eh.kind = "eeprom_in" /\ ebuf' = Ep0!Bytes(0, 0, n))
      /\ UNCHANGED <<eh, emoved, estored, eep0, eopen, eout, egot, erequested, eresult, efw, etrouble, eid, ekind, elen>>
  <2>1. /\ ebuf' = Ep0!Bytes(eh.id, emoved, n)
           \/ (etrouble = "faults" /\ eh.kind = "eeprom_in" /\ ebuf' = Ep0!Bytes(0, 0, n))
        /\ epc = "fill" /\ epc' = "armin"
        /\ UNCHANGED <<eh, emoved, estored, eep0, erequested, eresult>>
        /\ UNCHANGED <<eopen, eout, egot, <<efw, etrouble, eid, ekind, elen>>>>
    BY Zenon DEF Ep0!Fill, Ep0!Handler, Ep0!req
  <2>2. /\ epc = "fill" /\ epc' = "armin"
        /\ UNCHANGED <<eh, emoved, estored, eep0, eopen, eout, egot, erequested, eresult, efw, etrouble, eid, ekind, elen>>
    BY <2>1
  <2>3. QED
    BY Zenon, <2>1, <2>2
<1>2. eh.id \in Nat /\ emoved \in Nat /\ eh.len \in Nat /\ emoved < eh.len
  BY <1>1 DEF Ep0Inv, ETypes, PlaceInv
<1>3. n \in Nat /\ n <= CHUNK /\ emoved + n <= eh.len
  BY <1>2, SmallerIs
<1> HIDE DEF n
<1>4. ebuf' \in Moves /\ Len(ebuf') = n
  BY <1>1, <1>2, <1>3, BytesAre, 0 \in Nat
<1>5. ETypes'
  <2>1. Len(ebuf') <= CHUNK
    BY <1>3, <1>4
  <2>2. QED
    BY <1>1, <1>4, <2>1 DEF Ep0Inv, ETypes
<1>6. PlaceInv'
  BY <1>1 DEF Ep0Inv, PlaceInv
<1>7. ASSUME etrouble # "gives up" PROVE TurnInv' /\ InInv' /\ OutInv'
  <2>1. TurnInv /\ InInv /\ OutInv
    BY <1>7 DEF Ep0Inv, DataInv
  <2>2. TurnInv'
    BY <1>1, <2>1 DEF TurnInv, EFlags
  <2>3. eep0 = "free" /\ eh.kind \in Ep0!InKinds /\ Packet = <<>> /\ Packet' = <<>>
    BY <1>1 DEF Ep0Inv, PlaceInv, Packet
  <2>4. ~erequested => eh.id = eid /\ eh.kind = ekind /\ eh.len = elen
    BY <2>1 DEF TurnInv
  <2>5. emoved' + Len(ebuf') <= eh.len
    BY <1>1, <1>3, <1>4
  <2>6. ~Faulty' /\ ~erequested => ebuf' = Ep0!Bytes(eid', emoved', Len(ebuf'))
    BY <1>1, <1>4, <2>4 DEF Faulty
  <2>7. InInv'
    BY <1>1, <2>1, <2>3, <2>4, <2>5, <2>6 DEF InInv, Faulty
  <2>8. OutInv'
    BY <1>1, <2>3, <2>4, EKinds DEF OutInv
  <2>9. QED
    BY <2>2, <2>7, <2>8
<1>8. QED
  BY <1>1, <1>5, <1>6, <1>7 DEF Ep0Inv, DataInv

LEMMA EpArmIn == ASSUME Ep0Inv, EFlags, Ep0!ArmIn PROVE Ep0Inv'
<1>1. /\ epc = "armin" /\ epc' = IF eh.kind = "report" THEN "wait" ELSE "loop"
      /\ eep0' = "in" /\ emoved' = emoved + Len(ebuf)
      /\ UNCHANGED <<eh, estored, ebuf, eopen, eout, egot, erequested, eresult, efw, etrouble, eid, ekind, elen>>
  BY DEF Ep0!ArmIn, Ep0!Handler, Ep0!req
<1>2. ebuf \in Moves /\ emoved \in Nat /\ eid \in Nat /\ elen \in Nat
  BY DEF Ep0Inv, ETypes
<1>3. Len(ebuf) \in Nat
  BY <1>2, LenProperties DEF Moves
<1>4. emoved' \in Nat
  BY <1>1, <1>2, <1>3
<1>5. epc' \in {"wait", "loop"}
  BY <1>1
<1>6. ETypes'
  BY <1>1, <1>4, <1>5 DEF Ep0Inv, ETypes
<1>7. eh.kind \in Ep0!InKinds /\ eep0 = "free" /\ eh.kind \in efw /\ efw \in Ep0!Firmwares
      /\ (erequested => ekind # "") /\ eh.kind # ""
  BY <1>1 DEF Ep0Inv, ETypes, PlaceInv
<1>8. eh.kind # "report" => "report" \notin efw
  BY <1>7, EKinds
<1>9. PlaceInv'
  <2>1. CASE eh.kind = "report"
    BY <1>1, <1>7, <2>1 DEF PlaceInv
  <2>2. CASE eh.kind # "report"
    BY <1>1, <1>7, <1>8, <2>2 DEF PlaceInv
  <2>3. QED
    BY <2>1, <2>2
<1>10. ASSUME etrouble # "gives up" PROVE TurnInv' /\ InInv' /\ OutInv'
  <2>1. TurnInv /\ InInv
    BY <1>10 DEF Ep0Inv, DataInv
  <2>2. ~erequested /\ eh.id = eid /\ eh.kind = ekind /\ eh.len = elen /\ eresult = "none"
    BY <1>1, <2>1 DEF TurnInv, EFlags
  <2>3. emoved + Len(ebuf) <= elen /\ eout = 0 /\ Len(egot) + Len(Packet) = emoved
    BY <1>1, <1>7, <2>1, <2>2 DEF InInv
  <2>4. TurnInv'
    BY <1>1, <1>5, <2>1, <2>2, <2>3 DEF TurnInv, EFlags
  <2>5. OutInv'
    BY <1>1, <1>7, <2>2, EKinds DEF OutInv
  <2>6. Packet = <<>> /\ Packet' = ebuf
    BY <1>1, <1>7 DEF Packet
  <2>7. Len(egot') + Len(Packet') = emoved'
    <3>1. Len(egot) \in Nat
      BY LenProperties DEF Ep0Inv, ETypes, Moves
    <3>2. Len(<<>>) = 0
      OBVIOUS
    <3>3. Len(egot) = emoved
      BY <2>3, <2>6, <3>1, <3>2
    <3>4. QED
      BY <1>1, <2>6, <3>3
  <2>8. ASSUME ~Faulty PROVE egot' \o Packet' = Ep0!Bytes(eid', 0, emoved')
    <3>1. egot \o <<>> = Ep0!Bytes(eid, 0, emoved) /\ ebuf = Ep0!Bytes(eid, emoved, Len(ebuf))
      BY <1>1, <1>7, <2>1, <2>2, <2>6, <2>8 DEF InInv
    <3>2. egot \o <<>> = egot
      BY ConcatEmptySeq DEF Ep0Inv, ETypes, Moves
    <3>3. Ep0!Bytes(eid, 0, emoved) \o Ep0!Bytes(eid, emoved, Len(ebuf)) = Ep0!Bytes(eid, 0, emoved + Len(ebuf))
      BY <1>2, <1>3, BytesConcat
    <3>4. QED
      BY Zenon, <1>1, <2>6, <3>1, <3>2, <3>3
  <2>9. Faulty' = Faulty /\ epc' # "armin"
    BY <1>1, <1>5 DEF Faulty
  <2>10. InInv'
    BY <1>1, <2>3, <2>7, <2>8, <2>9 DEF InInv
  <2>11. QED
    BY <2>4, <2>5, <2>10
<1>11. QED
  BY <1>1, <1>6, <1>9, <1>10 DEF Ep0Inv, DataInv

LEMMA EpArmOut == ASSUME Ep0Inv, EFlags, Ep0!ArmOut PROVE Ep0Inv'
<1>1. /\ epc = "armout" /\ epc' = "wait" /\ eep0' = "out"
      /\ UNCHANGED <<eh, emoved, estored, ebuf, eopen, eout, egot, erequested, eresult, efw, etrouble, eid, ekind, elen>>
  BY DEF Ep0!ArmOut, Ep0!Handler, Ep0!req
<1>2. ETypes'
  BY <1>1 DEF Ep0Inv, ETypes
<1>3. PlaceInv'
  BY <1>1 DEF Ep0Inv, PlaceInv
<1>4. ASSUME etrouble # "gives up" PROVE TurnInv' /\ InInv' /\ OutInv'
  <2>1. TurnInv /\ OutInv
    BY <1>4 DEF Ep0Inv, DataInv
  <2>2. TurnInv'
    BY <1>1, <2>1 DEF TurnInv, EFlags
  <2>3. ~erequested /\ ekind = eh.kind /\ eh.kind \in Ep0!OutKinds
    BY <1>1, <2>1 DEF TurnInv, Ep0Inv, PlaceInv, EFlags
  <2>4. InInv'
    BY <1>1, <2>3, EKinds DEF InInv
  <2>5. OutInv'
    BY <1>1, <2>1, <2>3 DEF OutInv
  <2>6. QED
    BY <2>2, <2>4, <2>5
<1>5. QED
  BY <1>1, <1>2, <1>3, <1>4 DEF Ep0Inv, DataInv

LEMMA EpStore == ASSUME Ep0Inv, EFlags, Ep0!Store PROVE Ep0Inv'
<1>1. epc = "store" => eh.kind \in Ep0!OutKinds /\ eh.kind \in efw /\ efw \in Ep0!Firmwares
      /\ (erequested => ekind # "") /\ eh.kind # ""
  BY DEF Ep0Inv, ETypes, PlaceInv
<1>2. epc = "store" => "report" \notin efw
  BY <1>1, EKinds
<1>3. CASE /\ Ep0!Handler("store", "loop")
           /\ estored' = estored \o ebuf /\ emoved' = emoved + Len(ebuf)
           /\ UNCHANGED <<eh, eep0, ebuf, erequested, eresult>>
  <2>1. /\ epc = "store" /\ epc' = "loop"
        /\ estored' = estored \o ebuf /\ emoved' = emoved + Len(ebuf)
        /\ UNCHANGED <<eh, eep0, ebuf, eopen, eout, egot, erequested, eresult, efw, etrouble, eid, ekind, elen>>
    BY <1>3 DEF Ep0!Handler, Ep0!req
  <2>2. estored \in Moves /\ ebuf \in Moves /\ emoved \in Nat /\ eid \in Nat /\ elen \in Nat
    BY DEF Ep0Inv, ETypes
  <2>3. Len(ebuf) \in Nat /\ estored \o ebuf \in Moves
    BY <2>2, LenProperties, ConcatProperties DEF Moves
  <2>4. emoved' \in Nat /\ estored' \in Moves
    BY <2>1, <2>2, <2>3
  <2>5. ETypes'
    BY <2>1, <2>4 DEF Ep0Inv, ETypes
  <2>6. PlaceInv'
    BY <1>1, <1>2, <2>1 DEF PlaceInv
  <2>7. ASSUME etrouble # "gives up" PROVE TurnInv' /\ InInv' /\ OutInv'
    <3>1. TurnInv /\ OutInv
      BY <2>7 DEF Ep0Inv, DataInv
    <3>2. ~erequested /\ eh.id = eid /\ eh.kind = ekind /\ eh.len = elen /\ eresult = "none" /\ eout <= elen
      BY <2>1, <3>1 DEF TurnInv, EFlags
    <3>3. /\ estored = Ep0!Bytes(eid, 0, emoved) /\ eep0 # "out"
          /\ eout = emoved + Len(ebuf) /\ ebuf = Ep0!Bytes(eid, emoved, Len(ebuf))
      BY <1>1, <2>1, <3>1, <3>2 DEF OutInv
    <3>4. Ep0!Bytes(eid, 0, emoved) \o Ep0!Bytes(eid, emoved, Len(ebuf)) = Ep0!Bytes(eid, 0, emoved + Len(ebuf))
      BY <2>2, <2>3, BytesConcat
    <3>5. estored' = Ep0!Bytes(eid', 0, emoved')
      BY Zenon, <2>1, <3>3, <3>4
    <3>6. Len(estored') <= eh.len /\ emoved' <= eh.len
      <4>1. Len(Ep0!Bytes(eid, 0, emoved')) = emoved'
        BY <2>2, <2>4, BytesAre, 0 \in Nat
      <4>2. emoved' <= eh.len
        BY <2>1, <3>2, <3>3
      <4>3. Len(estored') = emoved'
        BY Zenon, <2>1, <3>5, <4>1
      <4>4. QED
        BY <4>2, <4>3
    <3>7. TurnInv'
      BY <2>1, <3>1, <3>2, <3>6 DEF TurnInv, EFlags
    <3>8. InInv'
      BY <1>1, <2>1, <3>2, EKinds DEF InInv
    <3>9. OutInv'
      BY <2>1, <3>1, <3>3, <3>5 DEF OutInv
    <3>10. QED
      BY <3>7, <3>8, <3>9
  <2>8. QED
    BY <2>1, <2>5, <2>6, <2>7 DEF Ep0Inv, DataInv
<1>4. CASE /\ etrouble = "faults" /\ eh.kind = "eeprom_out"
           /\ Ep0!Handler("store", "idle") /\ Ep0!Answer("stall")
           /\ UNCHANGED <<eh, emoved, estored, eep0, ebuf, erequested>>
  <2>1. /\ epc = "store" /\ epc' = "idle" /\ eresult' = IF eopen THEN "stall" ELSE eresult
        /\ UNCHANGED <<eh, emoved, estored, eep0, ebuf, eopen, eout, egot, erequested, efw, etrouble, eid, ekind, elen>>
    BY <1>4 DEF Ep0!Handler, Ep0!req, Ep0!Answer
  <2>2. ETypes'
    BY <2>1 DEF Ep0Inv, ETypes
  <2>3. PlaceInv'
    BY <1>1, <1>2, <2>1 DEF PlaceInv
  <2>4. ASSUME etrouble # "gives up" PROVE TurnInv' /\ InInv' /\ OutInv'
    <3>1. TurnInv /\ OutInv
      BY <2>4 DEF Ep0Inv, DataInv
    <3>2. eopen /\ ~erequested /\ eh.kind = ekind
      BY <2>1, <3>1 DEF TurnInv, EFlags
    <3>3. TurnInv'
      BY <2>1, <3>1, <3>2 DEF TurnInv
    <3>4. InInv'
      BY <1>1, <2>1, <3>2, EKinds DEF InInv
    <3>5. OutInv'
      BY <2>1, <3>1 DEF OutInv
    <3>6. QED
      BY <3>3, <3>4, <3>5
  <2>5. QED
    BY <2>1, <2>2, <2>3, <2>4 DEF Ep0Inv, DataInv
<1>5. QED
  BY <1>3, <1>4 DEF Ep0!Store

LEMMA EpFlags == ASSUME EFlags, Ep0!Next \/ UNCHANGED ep0Vars PROVE EFlags'
  BY DEF EFlags, ep0Vars, Ep0!Next, Ep0!Setup, Ep0!TakeIn, Ep0!SendOut, Ep0!Finish, Ep0!GiveUp, Ep0!Cpu,
         Ep0!Dispatch, Ep0!Loop, Ep0!Wait, Ep0!Fill, Ep0!ArmIn, Ep0!ArmOut, Ep0!Store, Ep0!Handler

LEMMA NextEp0 == ASSUME Ep0Inv, EFlags, Ep0!Next \/ UNCHANGED ep0Vars PROVE Ep0Inv'
<1>1. CASE UNCHANGED ep0Vars
  <2>1. ETypes' /\ PlaceInv'
    BY <1>1 DEF ep0Vars, Ep0Inv, ETypes, PlaceInv
  <2>2. DataInv'
    BY <1>1 DEF ep0Vars, Ep0Inv, DataInv, TurnInv, InInv, OutInv, Packet, Faulty
  <2>3. QED
    BY <2>1, <2>2 DEF Ep0Inv
<1>2. CASE Ep0!Next
  BY <1>2, EpSetup, EpTakeIn, EpSendOut, EpFinish, EpGiveUp, EpDispatch, EpLoop, EpWait, EpFill, EpArmIn,
     EpArmOut, EpStore DEF Ep0!Next, Ep0!Cpu
<1>3. QED
  BY <1>1, <1>2

\* EP0BUF is written only while no packet in it waits for the host.
LEMMA Ep0Stable == ASSUME Ep0Inv, Ep0!Next \/ UNCHANGED ep0Vars PROVE Ep0!BufferStable
<1>1. SUFFICES ASSUME eep0 = "in", eep0' = "in" PROVE UNCHANGED ebuf
  BY DEF Ep0!BufferStable
<1>2. CASE UNCHANGED ep0Vars
  BY <1>2 DEF ep0Vars
<1>3. CASE Ep0!SendOut
  BY <1>1, <1>3 DEF Ep0!SendOut
<1>4. CASE Ep0!Fill
  <2>1. epc = "fill"
    BY <1>4 DEF Ep0!Fill, Ep0!Handler
  <2>2. QED
    BY <1>1, <2>1 DEF Ep0Inv, PlaceInv
<1>5. CASE Ep0!Setup \/ Ep0!TakeIn \/ Ep0!Finish \/ Ep0!GiveUp \/ Ep0!Dispatch \/ Ep0!Loop \/ Ep0!Wait
           \/ Ep0!ArmIn \/ Ep0!ArmOut \/ Ep0!Store
  BY <1>5 DEF Ep0!Setup, Ep0!TakeIn, Ep0!Finish, Ep0!GiveUp, Ep0!Dispatch, Ep0!Loop, Ep0!Wait, Ep0!ArmIn,
              Ep0!ArmOut, Ep0!Store
<1>6. QED
  BY <1>2, <1>3, <1>4, <1>5 DEF Ep0!Next, Ep0!Cpu

LEMMA Ep0Suffices == ASSUME Ep0Inv, EFlags PROVE Ep0!TypeOK /\ Ep0!DataExact
<1>1. /\ egot \in Moves /\ estored \in Moves /\ ebuf \in Moves /\ emoved \in Nat /\ eid \in Nat /\ elen \in Nat
      /\ Len(egot) \in Nat /\ Len(Packet) \in Nat
  <2>1. egot \in Moves /\ estored \in Moves /\ ebuf \in Moves /\ emoved \in Nat /\ eid \in Nat /\ elen \in Nat
    BY DEF Ep0Inv, ETypes
  <2>2. Packet \in Moves
    BY <2>1, EmptySeq DEF Packet, Moves
  <2>3. QED
    BY <2>1, <2>2, LenProperties DEF Moves
<1>2. ekind \in Kinds \cup {""} /\ CHUNK \in Nat
  BY EKinds, EConstants DEF Ep0Inv, ETypes
<1>3. ASSUME etrouble # "gives up" PROVE Len(egot) <= elen
  <2>1. TurnInv /\ InInv
    BY <1>3 DEF Ep0Inv, DataInv
  <2>2. CASE egot = <<>>
    <3>1. Len(<<>>) = 0
      OBVIOUS
    <3>2. 0 <= elen
      <4>1. elen \in Nat
        BY <1>1
      <4>2. QED
        BY <4>1
    <3>3. QED
      BY Zenon, <2>2, <3>1, <3>2
  <2>3. CASE egot # <<>>
    <3>1. ~erequested /\ ekind \in Ep0!InKinds /\ emoved <= elen
      BY <2>1, <2>3 DEF TurnInv, EFlags
    <3>2. Len(egot) + Len(Packet) = emoved
      BY <2>1, <3>1 DEF InInv
    <3>3. Len(egot) \in Nat /\ Len(Packet) \in Nat /\ emoved \in Nat /\ elen \in Nat
      BY <1>1
    <3>4. QED
      BY <3>1, <3>2, <3>3
  <2>4. QED
    BY <2>2, <2>3
<1>4. Ep0!TypeOK
  <2>1. etrouble # "gives up" => emoved <= eh.len /\ Len(estored) <= eh.len /\ eout <= elen
    BY DEF Ep0Inv, DataInv, TurnInv
  <2>2. QED
    BY Zenon, <1>3, <2>1 DEF Ep0Inv, ETypes, Ep0!TypeOK
<1>5. Ep0!DataExact
  <2>1. SUFFICES ASSUME etrouble # "gives up", ~Faulty, ~eopen, eresult = "ack", Len(egot) = elen \/ eout = elen
                 PROVE  (IF ekind \in Ep0!InKinds THEN egot ELSE estored) = Ep0!Bytes(eid, 0, elen)
    BY Zenon DEF Ep0!DataExact, Faulty
  <2>2. TurnInv /\ InInv /\ OutInv
    BY <2>1 DEF Ep0Inv, DataInv
  <2>3. ~erequested /\ emoved = elen /\ ekind # ""
    BY <2>1, <2>2 DEF TurnInv, EFlags
  <2>4. CASE ekind \in Ep0!InKinds
    <3>1. eout = 0 /\ Len(egot) + Len(Packet) = elen /\ egot \o Packet = Ep0!Bytes(eid, 0, elen)
      BY <2>1, <2>2, <2>3, <2>4 DEF InInv
    <3>2. Len(Packet) = 0
      <4>1. Len(egot) \in Nat /\ Len(Packet) \in Nat /\ elen \in Nat
        BY <1>1
      <4>2. QED
        <5>1. Len(egot) = elen \/ elen = 0
          BY Zenon, <2>1, <3>1
        <5>2. Len(egot) + Len(Packet) = elen
          BY Zenon, <3>1
        <5>3. QED
          BY <4>1, <5>1, <5>2
    <3>3. Packet = <<>>
      <4>1. Packet \in Moves
        BY <1>1, EmptySeq DEF Packet, Moves
      <4>2. QED
        BY <3>2, <4>1, EmptySeq DEF Moves
    <3>4. egot \o <<>> = egot
      BY <1>1, ConcatEmptySeq DEF Moves
    <3>5. QED
      BY Zenon, <2>4, <3>1, <3>3, <3>4
  <2>5. CASE ekind \in Ep0!OutKinds
    BY <2>2, <2>3, <2>5, EKinds DEF OutInv
  <2>6. QED
    BY <1>2, <2>3, <2>4, <2>5 DEF Kinds
<1>6. QED
  BY <1>4, <1>5

-----------------------------------------------------------------------------
(* The GPIF (Gpif).                                                        *)

\* Calls of one to 255 words: c is a BYTE, and a read of none is left started.
ByteLengths == WordCounts \subseteq 1 .. 255

Word == Nat \X Nat

GTypes ==
    /\ gpc \in {"reset", "mode", "abort", "wave", "idle", "read", "readloop", "high", "low", "writeloop",
                "writelow"}
    /\ gbusy \in {"no", "read", "write", "fifo"}
    /\ gcalls \in 0 .. MaxCalls /\ gc \in Nat /\ gc <= 255 /\ glen \in {0} \cup WordCounts
    /\ gtc \in Nat /\ gtold \in Nat /\ gmoved \in Nat \cup {-1}
    /\ glatch \in Nat /\ ggiven \in Nat /\ gstart \in Nat
    /\ gres \in Seq(Word) /\ gout \in Word /\ gwritten \in Seq(Word)

GFlags == ggpifMode \in BOOLEAN /\ gwave \in BOOLEAN

Outside == {"reset", "mode", "abort", "wave"}

LoadedInv ==
    /\ gpc \in {"abort", "wave"} => ggpifMode
    /\ gpc \notin Outside => ggpifMode /\ gwave

\* The count of a transaction that has not run is the one told.
CountInv ==
    /\ gmoved = -1 /\ gtold > 0 => gtc = gtold
    /\ gbusy = "fifo" => gmoved = -1 /\ gtold > 0 /\ gpc \in {"idle", "mode", "abort"}
    /\ Waves!CountMoved

Reading == gpc \in {"readloop", "high", "low"}

\* Of the words read, and the one that the engine reads, or has read for the
\* program to take.
ReadInv ==
    /\ glatch = ggiven
    /\ gbusy = "read" => gpc \in {"readloop", "high"} /\ gc < glen
    /\ gpc = "read" => gc = 0 /\ gres = <<>> /\ ggiven = gstart /\ glen \in WordCounts
    /\ Reading =>
          /\ glen \in WordCounts /\ gc <= glen /\ gbusy \in {"no", "read"}
          /\ ggiven = gstart + gc + (IF gc < glen /\ gbusy = "no" THEN 1 ELSE 0)
          /\ \A k \in 1 .. gc : gres[k] = <<gstart + k, gstart + k>>
    /\ gpc \in {"readloop", "high"} => Len(gres) = IF gc = 0 THEN 1 ELSE gc
    /\ gpc \in {"high", "low"} => gc < glen
    /\ gpc = "low" => gbusy = "no" /\ Len(gres) = gc + 1 /\ gres[gc + 1] = <<glatch, 0>>

\* Of the words written, and the one that the engine has still to write.
WriteInv ==
    /\ \A k \in 1 .. Len(gwritten) : gwritten[k] = <<k, k>>
    /\ gbusy = "write" => gout = <<Len(gwritten) + 1, Len(gwritten) + 1>>
                          /\ gpc \in {"idle", "read", "writeloop"}
    /\ gpc \in {"writeloop", "writelow"} => glen \in WordCounts /\ gc <= glen
    /\ gpc = "writeloop" => Len(gwritten) + (IF gbusy = "write" THEN 1 ELSE 0) = gstart + gc
    /\ gpc = "writelow" => gbusy = "no" /\ gc < glen /\ Len(gwritten) = gstart + gc /\ gout[1] = gstart + gc + 1

GpifInv == GTypes /\ LoadedInv /\ CountInv /\ ReadInv /\ WriteInv

LEMMA GConstants ==
  /\ MaxCalls \in Nat /\ Counts32 \subseteq Nat /\ \A n \in Counts16 : n \in Nat
<1>1. MaxCalls \in Nat /\ Counts32 \subseteq Nat /\ Counts16 \subseteq 0 .. Waves!WORD - 1
  BY DriversAssumption DEF Waves!GpifAssumption
<1>2. Waves!WORD \in Nat
  BY SMT DEF Waves!WORD
<1>3. QED
  BY <1>1, <1>2

LEMMA GLengths == ASSUME ByteLengths, NEW n \in WordCounts PROVE n \in Nat /\ n > 0 /\ n <= 255
<1>1. n \in 1 .. 255
  BY DEF ByteLengths
<1>2. QED
  BY SMT, <1>1

LEMMA InitGpif == ASSUME Waves!Init PROVE GpifInv
<1>1. /\ gpc = "reset" /\ gcalls = 0 /\ glen = 0 /\ gc = 0 /\ gres = <<>> /\ gstart = 0
      /\ ggpifMode = FALSE /\ gwave = FALSE /\ gbusy = "no" /\ glatch = 0 /\ gout = <<0, 0>>
      /\ ggiven = 0 /\ gwritten = <<>> /\ gtc = 1 /\ gtold = 0 /\ gmoved = -1
  BY DEF Waves!Init
<1>2. GTypes
  <2>1. gcalls \in 0 .. MaxCalls
    <3>1. 0 \in 0 .. MaxCalls
      BY GConstants
    <3>2. QED
      BY Zenon, <1>1, <3>1
  <2>2. <<>> \in Seq(Word) /\ <<0, 0>> \in Word
    BY DEF Word
  <2>3. 0 \in Nat /\ 1 \in Nat /\ 0 <= 255
    OBVIOUS
  <2>4. QED
    BY Zenon, <1>1, <2>1, <2>2, <2>3 DEF GTypes
<1>3. LoadedInv /\ CountInv
  BY <1>1 DEF LoadedInv, CountInv, Outside, Waves!CountMoved
<1>4. ReadInv
  BY <1>1 DEF ReadInv, Reading
<1>5. WriteInv
  BY <1>1 DEF WriteInv
<1>6. QED
  BY <1>2, <1>3, <1>4, <1>5 DEF GpifInv

\* The engine.

LEMMA GpReadWord == ASSUME GpifInv, Waves!ReadWord PROVE GpifInv'
<1>1. /\ gbusy = "read" /\ gbusy' = "no" /\ ggiven' = ggiven + 1 /\ glatch' = ggiven'
      /\ UNCHANGED <<gpc, gcalls, glen, gstart, gc, gres, ggpifMode, gwave, gout, gwritten, gtc, gtold, gmoved>>
  BY DEF Waves!ReadWord, Waves!callVars, Waves!setupVars, Waves!tcVars
<1>2. ggiven' \in Nat /\ glatch' \in Nat
  BY <1>1 DEF GpifInv, GTypes
<1>3. GTypes'
  BY <1>1, <1>2 DEF GpifInv, GTypes
<1>4. LoadedInv' /\ CountInv'
  BY <1>1 DEF GpifInv, LoadedInv, CountInv, Waves!CountMoved
<1>5. gpc \in {"readloop", "high"} /\ gc < glen
  BY <1>1 DEF GpifInv, ReadInv
<1>6. ggiven = gstart + gc /\ gstart \in Nat /\ gc \in Nat
  BY <1>1, <1>5 DEF GpifInv, GTypes, ReadInv, Reading
<1>7. ReadInv'
  BY <1>1, <1>5, <1>6 DEF GpifInv, ReadInv, Reading
<1>8. WriteInv'
  BY <1>1 DEF GpifInv, WriteInv
<1>9. QED
  BY <1>3, <1>4, <1>7, <1>8 DEF GpifInv

LEMMA GpWriteWord == ASSUME GpifInv, Waves!WriteWord PROVE GpifInv'
<1>1. /\ gbusy = "write" /\ gbusy' = "no" /\ gwritten' = Append(gwritten, gout)
      /\ UNCHANGED <<gpc, gcalls, glen, gstart, gc, gres, ggpifMode, gwave, glatch, gout, ggiven, gtc, gtold, gmoved>>
  BY DEF Waves!WriteWord, Waves!callVars, Waves!setupVars, Waves!tcVars
<1>2. gwritten \in Seq(Word) /\ gout \in Word /\ gwritten' \in Seq(Word) /\ Len(gwritten) \in Nat
      /\ Len(gwritten') = Len(gwritten) + 1 /\ gwritten'[Len(gwritten) + 1] = gout
      /\ \A k \in 1 .. Len(gwritten) : gwritten'[k] = gwritten[k]
  <2>1. gwritten \in Seq(Word) /\ gout \in Word
    BY DEF GpifInv, GTypes
  <2>2. QED
    BY <1>1, <2>1, AppendProperties, LenProperties
<1>3. GTypes'
  BY <1>1, <1>2 DEF GpifInv, GTypes
<1>4. LoadedInv' /\ CountInv'
  BY <1>1 DEF GpifInv, LoadedInv, CountInv, Waves!CountMoved
<1>5. gout = <<Len(gwritten) + 1, Len(gwritten) + 1>> /\ gpc \in {"idle", "read", "writeloop"}
  BY <1>1 DEF GpifInv, WriteInv
<1>6. ReadInv'
  BY <1>1, <1>5 DEF GpifInv, ReadInv, Reading
<1>7. WriteInv'
  <2>1. \A k \in 1 .. Len(gwritten') : gwritten'[k] = <<k, k>>
    <3>1. \A k \in 1 .. Len(gwritten) : gwritten[k] = <<k, k>>
      BY DEF GpifInv, WriteInv
    <3>2. ASSUME NEW k \in 1 .. Len(gwritten') PROVE gwritten'[k] = <<k, k>>
      <4>1. CASE k = Len(gwritten) + 1
        BY <1>2, <1>5, <4>1
      <4>2. CASE k \in 1 .. Len(gwritten)
        BY <1>2, <3>1, <4>2
      <4>3. QED
        BY <1>2, <4>1, <4>2
    <3>3. QED
      BY <3>2
  <2>2. gpc = "writeloop" => Len(gwritten') = gstart + gc
    BY <1>1, <1>2 DEF GpifInv, WriteInv
  <2>3. gpc = "writeloop" => glen \in WordCounts /\ gc <= glen
    BY DEF GpifInv, WriteInv
  <2>4. Len(gwritten') + 0 = Len(gwritten')
    BY <1>2
  <2>5. QED
    BY <1>1, <1>5, <2>1, <2>2, <2>3, <2>4 DEF WriteInv
<1>8. QED
  BY <1>3, <1>4, <1>6, <1>7 DEF GpifInv

LEMMA GpMoveFifo == ASSUME GpifInv, Waves!MoveFifo PROVE GpifInv'
<1>1. /\ gbusy = "fifo" /\ gbusy' = "no" /\ gmoved' = gtc /\ gtc' = 0
      /\ UNCHANGED <<gpc, gcalls, glen, gstart, gc, gres, ggpifMode, gwave, glatch, gout, ggiven, gwritten, gtold>>
  BY DEF Waves!MoveFifo, Waves!callVars, Waves!setupVars
<1>2. gtc \in Nat /\ gtc = gtold /\ gpc \in {"idle", "mode", "abort"}
  BY <1>1 DEF GpifInv, GTypes, CountInv
<1>3. GTypes'
  BY <1>1, <1>2 DEF GpifInv, GTypes
<1>4. LoadedInv'
  BY <1>1 DEF GpifInv, LoadedInv
<1>5. CountInv'
  BY <1>1, <1>2 DEF CountInv, Waves!CountMoved
<1>6. ReadInv' /\ WriteInv'
  BY <1>1, <1>2 DEF GpifInv, ReadInv, WriteInv, Reading
<1>7. QED
  BY <1>3, <1>4, <1>5, <1>6 DEF GpifInv

LEMMA GpWaveData == ASSUME GpifInv, GFlags, Waves!WaveData PROVE GpifInv'
<1>1. /\ gpc = "wave" /\ gpc' = "idle" /\ gwave' = (gwave \/ ggpifMode)
      /\ UNCHANGED <<gcalls, glen, gstart, gc, gres, ggpifMode, gbusy, glatch, gout, ggiven, gwritten, gtc, gtold, gmoved>>
  BY DEF Waves!WaveData, Waves!Goto, Waves!callVars, Waves!tcVars
<1>2. GTypes'
  BY <1>1 DEF GpifInv, GTypes
<1>3. ggpifMode
  BY <1>1 DEF GpifInv, LoadedInv
<1>4. ggpifMode' /\ gwave'
  BY Zenon, <1>1, <1>3
<1>5. LoadedInv'
  BY Zenon, <1>4 DEF LoadedInv
<1>6. CountInv'
  BY <1>1 DEF GpifInv, CountInv, Waves!CountMoved
<1>7. ReadInv' /\ WriteInv'
  BY <1>1 DEF GpifInv, ReadInv, WriteInv, Reading
<1>8. QED
  BY <1>2, <1>5, <1>6, <1>7 DEF GpifInv

LEMMA GpMasterMode == ASSUME GpifInv, GFlags, Waves!MasterMode PROVE GpifInv'
<1>1. /\ gpc = "mode" /\ gpc' = "abort" /\ ggpifMode' = TRUE
      /\ UNCHANGED <<gcalls, glen, gstart, gc, gres, gwave, gbusy, glatch, gout, ggiven, gwritten, gtc, gtold, gmoved>>
  BY DEF Waves!MasterMode, Waves!Goto, Waves!callVars, Waves!tcVars
<1>2. GTypes'
  BY <1>1 DEF GpifInv, GTypes
<1>3. LoadedInv'
  BY <1>1 DEF LoadedInv, Outside
<1>4. CountInv'
  BY <1>1 DEF GpifInv, CountInv, Waves!CountMoved
<1>5. ReadInv' /\ WriteInv'
  BY <1>1 DEF GpifInv, ReadInv, WriteInv, Reading
<1>6. QED
  BY <1>2, <1>3, <1>4, <1>5 DEF GpifInv

LEMMA GpAbortWaves == ASSUME GpifInv, GFlags, Waves!AbortWaves PROVE GpifInv'
<1>1. /\ gpc = "abort" /\ gpc' = "wave" /\ gbusy' = "no" /\ gtold' = 0 /\ gmoved' = -1
      /\ gtc' \in (IF gbusy = "fifo" THEN {n \in {0, 1, gtc} : n <= gtc} ELSE {gtc})
      /\ UNCHANGED <<gcalls, glen, gstart, gc, gres, ggpifMode, gwave, glatch, gout, ggiven, gwritten>>
  BY DEF Waves!AbortWaves, Waves!Goto, Waves!callVars, Waves!setupVars
<1>2. gtc' \in Nat
  <2>1. gtc \in Nat
    BY DEF GpifInv, GTypes
  <2>2. gtc' \in {0, 1, gtc}
    BY Zenon, <1>1
  <2>3. QED
    BY <2>1, <2>2
<1>3. GTypes'
  BY <1>1, <1>2 DEF GpifInv, GTypes
<1>4. LoadedInv'
  BY <1>1 DEF GpifInv, LoadedInv, Outside
<1>5. CountInv'
  BY <1>1 DEF CountInv, Waves!CountMoved
<1>6. ReadInv' /\ WriteInv'
  BY <1>1 DEF GpifInv, ReadInv, WriteInv, Reading
<1>7. QED
  BY <1>3, <1>4, <1>5, <1>6 DEF GpifInv

LEMMA GpDummyRead == ASSUME GpifInv, ByteLengths, Waves!DummyRead PROVE GpifInv'
<1>1. /\ gbusy = "no" /\ gpc = "read" /\ gpc' = "readloop" /\ Waves!Put(<<0, glatch>>) /\ gbusy' = "read"
      /\ UNCHANGED <<gcalls, glen, gstart, gc, ggpifMode, gwave, glatch, gout, ggiven, gwritten, gtc, gtold, gmoved>>
  BY DEF Waves!DummyRead, Waves!WhenDone, Waves!Trigger, Waves!Goto, Waves!callVars, Waves!setupVars, Waves!tcVars
<1>2. gc = 0 /\ gres = <<>> /\ ggiven = gstart /\ glen \in WordCounts
  BY <1>1 DEF GpifInv, ReadInv
<1>3. glatch \in Nat /\ <<0, glatch>> \in Word /\ gstart \in Nat
  BY DEF GpifInv, GTypes, Word
<1>4. gres' = Append(<<>>, <<0, glatch>>)
  <2>1. ~(0 < Len(<<>>))
    OBVIOUS
  <2>2. QED
    BY Zenon, <1>1, <1>2, <2>1 DEF Waves!Put
<1>5. gres' \in Seq(Word) /\ Len(gres') = 1
  <2>1. <<>> \in Seq(Word) /\ Len(<<>>) = 0 /\ 0 + 1 = 1
    OBVIOUS
  <2>2. Append(<<>>, <<0, glatch>>) \in Seq(Word) /\ Len(Append(<<>>, <<0, glatch>>)) = Len(<<>>) + 1
    BY <1>3, <2>1, AppendProperties
  <2>3. QED
    BY Zenon, <1>4, <2>1, <2>2
<1>6. GTypes'
  BY <1>1, <1>5 DEF GpifInv, GTypes
<1>7. LoadedInv'
  BY <1>1 DEF GpifInv, LoadedInv, Outside
<1>8. CountInv'
  BY <1>1 DEF GpifInv, CountInv, Waves!CountMoved
<1>9. glen > 0 /\ glen \in Nat
  BY <1>2, GLengths
<1>10. ReadInv'
  BY <1>1, <1>2, <1>3, <1>5, <1>9 DEF GpifInv, ReadInv, Reading
<1>11. WriteInv'
  BY <1>1 DEF GpifInv, WriteInv
<1>12. QED
  BY <1>6, <1>7, <1>8, <1>10, <1>11 DEF GpifInv

LEMMA GpReadLoop == ASSUME GpifInv, Waves!ReadLoop PROVE GpifInv'
<1>1. /\ gpc = "readloop" /\ gpc' = IF gc < glen THEN "high" ELSE "idle"
      /\ UNCHANGED <<gcalls, glen, gstart, gc, gres, ggpifMode, gwave, gbusy, glatch, gout, ggiven, gwritten, gtc, gtold, gmoved>>
  BY DEF Waves!ReadLoop, Waves!Goto, Waves!callVars, Waves!setupVars, Waves!tcVars
<1>2. gpc' \in {"high", "idle"}
  BY <1>1
<1>3. GTypes'
  BY <1>1, <1>2 DEF GpifInv, GTypes
<1>4. LoadedInv'
  BY <1>1, <1>2 DEF GpifInv, LoadedInv, Outside
<1>5. gbusy \in {"no", "read"} /\ (gbusy = "read" => gc < glen) /\ (gc < glen => gpc' = "high")
      /\ (gpc' = "high" => gc < glen)
  BY <1>1 DEF GpifInv, ReadInv, Reading
<1>6. CountInv'
  BY <1>1, <1>2, <1>5 DEF GpifInv, CountInv, Waves!CountMoved
<1>7. ReadInv'
  BY <1>1, <1>2, <1>5 DEF GpifInv, ReadInv, Reading
<1>8. WriteInv'
  BY <1>1, <1>2, <1>5 DEF GpifInv, WriteInv
<1>9. QED
  BY <1>3, <1>4, <1>6, <1>7, <1>8 DEF GpifInv

LEMMA GpReadHigh == ASSUME GpifInv, Waves!ReadHigh PROVE GpifInv'
<1>1. /\ gbusy = "no" /\ gpc = "high" /\ gpc' = "low" /\ Waves!Put(<<glatch, 0>>)
      /\ UNCHANGED <<gcalls, glen, gstart, gc, ggpifMode, gwave, gbusy, glatch, gout, ggiven, gwritten, gtc, gtold, gmoved>>
  BY DEF Waves!ReadHigh, Waves!WhenDone, Waves!Goto, Waves!callVars, Waves!setupVars, Waves!tcVars
<1>2. /\ gres \in Seq(Word) /\ <<glatch, 0>> \in Word /\ gc \in Nat /\ Len(gres) = IF gc = 0 THEN 1 ELSE gc
      /\ Len(gres) \in Nat
  <2>1. gres \in Seq(Word) /\ glatch \in Nat /\ gc \in Nat
    BY DEF GpifInv, GTypes
  <2>2. Len(gres) = IF gc = 0 THEN 1 ELSE gc
    BY <1>1 DEF GpifInv, ReadInv
  <2>3. QED
    BY <2>1, <2>2, LenProperties DEF Word
<1>3. /\ gres' \in Seq(Word) /\ Len(gres') = gc + 1 /\ gres'[gc + 1] = <<glatch, 0>>
      /\ \A k \in 1 .. gc : gres'[k] = gres[k]
  <2> DEFINE w == <<glatch, 0>>
  <2>0. w \in Word
    BY <1>2
  <2>a. gres' = IF gc < Len(gres) THEN [gres EXCEPT ![gc + 1] = w] ELSE Append(gres, w)
    BY <1>1 DEF Waves!Put
  <2> HIDE DEF w
  <2>1. CASE gc = 0
    <3>1. gc < Len(gres) /\ Len(gres) = 1 /\ gc + 1 \in 1 .. Len(gres)
      BY <1>2, <2>1
    <3>2. gres' = [gres EXCEPT ![gc + 1] = w]
      BY <2>a, <3>1
    <3>3. gres' \in Seq(Word) /\ Len(gres') = Len(gres) /\ \A j \in 1 .. Len(gres) : gres'[j] = IF j = gc + 1 THEN w ELSE gres[j]
      BY <1>2, <2>0, <3>1, <3>2, ExceptSeq
    <3>4. QED
      BY <2>1, <3>1, <3>3 DEF w
  <2>2. CASE gc # 0
    <3>1. ~(gc < Len(gres)) /\ Len(gres) = gc
      BY <1>2, <2>2
    <3>2. gres' = Append(gres, w)
      BY <2>a, <3>1
    <3>3. QED
      BY <1>2, <2>0, <3>1, <3>2, AppendProperties DEF w
  <2>3. QED
    BY <2>1, <2>2
<1>4. GTypes'
  BY <1>1, <1>3 DEF GpifInv, GTypes
<1>5. LoadedInv'
  BY <1>1 DEF GpifInv, LoadedInv, Outside
<1>6. CountInv'
  BY <1>1 DEF GpifInv, CountInv, Waves!CountMoved
<1>7. ReadInv'
  <2>1. /\ glatch = ggiven /\ glen \in WordCounts /\ gc < glen /\ gc <= glen
        /\ ggiven = gstart + gc + (IF gc < glen /\ gbusy = "no" THEN 1 ELSE 0)
        /\ \A k \in 1 .. gc : gres[k] = <<gstart + k, gstart + k>>
    BY <1>1 DEF GpifInv, ReadInv, Reading
  <2>2. \A k \in 1 .. gc : gres'[k] = <<gstart + k, gstart + k>>
    BY Zenon, <1>3, <2>1
  <2>3. QED
    BY <1>1, <1>3, <2>1, <2>2 DEF ReadInv, Reading
<1>8. WriteInv'
  BY <1>1 DEF GpifInv, WriteInv
<1>9. QED
  BY <1>4, <1>5, <1>6, <1>7, <1>8 DEF GpifInv

LEMMA GpReadLow == ASSUME GpifInv, ByteLengths, Waves!ReadLow PROVE GpifInv'
<1>1. /\ gpc = "low" /\ gpc' = "readloop" /\ gres' = [gres EXCEPT ![gc + 1][2] = glatch] /\ gc' = (gc + 1) % 256
      /\ IF gc = glen - 1 THEN UNCHANGED gbusy ELSE Waves!Trigger("read")
      /\ UNCHANGED <<gcalls, glen, gstart, ggpifMode, gwave, glatch, gout, ggiven, gwritten, gtc, gtold, gmoved>>
  BY DEF Waves!ReadLow, Waves!Goto, Waves!callVars, Waves!setupVars, Waves!tcVars
<1>2. /\ gbusy = "no" /\ Len(gres) = gc + 1 /\ gres[gc + 1] = <<glatch, 0>> /\ gc < glen
      /\ glen \in WordCounts /\ ggiven = gstart + gc + 1 /\ glatch = ggiven
      /\ \A k \in 1 .. gc : gres[k] = <<gstart + k, gstart + k>>
  BY <1>1 DEF GpifInv, ReadInv, Reading
<1>3. gres \in Seq(Word) /\ gc \in Nat /\ glatch \in Nat /\ gstart \in Nat
  BY DEF GpifInv, GTypes
<1>4. glen \in Nat /\ glen <= 255
  BY <1>2, GLengths
<1>5. gc' = gc + 1 /\ gc' <= 255 /\ gc' \in Nat /\ gc' <= glen
  BY <1>1, <1>2, <1>3, <1>4
<1>6. /\ gres' \in Seq(Word) /\ Len(gres') = gc + 1
      /\ \A k \in 1 .. gc + 1 : gres'[k] = <<gstart + k, gstart + k>>
  <2> DEFINE w == <<glatch, glatch>>
  <2>1. w \in Word
    BY <1>3 DEF Word
  <2>2. [gres[gc + 1] EXCEPT ![2] = glatch] = w
    BY <1>2
  <2>3. gres' = [gres EXCEPT ![gc + 1] = w]
    <3>1. gres' = [gres EXCEPT ![gc + 1] = [gres[gc + 1] EXCEPT ![2] = glatch]]
      BY <1>1
    <3>2. QED
      BY Zenon, <2>2, <3>1
  <2> HIDE DEF w
  <2>4. gc + 1 \in 1 .. Len(gres)
    BY <1>2, <1>3
  <2>5. gres' \in Seq(Word) /\ Len(gres') = Len(gres) /\ \A j \in 1 .. Len(gres) : gres'[j] = IF j = gc + 1 THEN w ELSE gres[j]
    BY <1>3, <2>1, <2>3, <2>4, ExceptSeq
  <2>6. ASSUME NEW k \in 1 .. gc + 1 PROVE gres'[k] = <<gstart + k, gstart + k>>
    <3>1. CASE k = gc + 1
      <4>1. glatch = gstart + k /\ gres'[k] = w
        BY <1>2, <1>3, <2>4, <2>5, <3>1
      <4>2. QED
        BY Zenon, <4>1 DEF w
    <3>2. CASE k # gc + 1
      <4>1. k \in 1 .. gc /\ k \in 1 .. Len(gres)
        BY <1>2, <1>3, <3>2
      <4>2. QED
        BY <1>2, <2>5, <3>2, <4>1
    <3>3. QED
      BY <3>1, <3>2
  <2>7. QED
    BY <1>2, <2>5, <2>6
<1>7. gbusy' = IF gc + 1 = glen THEN "no" ELSE "read"
  <2>1. gc = glen - 1 <=> gc + 1 = glen
    BY <1>3, <1>4
  <2>2. QED
    BY <1>1, <1>2, <2>1 DEF Waves!Trigger
<1>8. gbusy' \in {"no", "read"}
  BY <1>7
<1>9. GTypes'
  BY <1>1, <1>5, <1>6, <1>8 DEF GpifInv, GTypes
<1>10. LoadedInv'
  BY <1>1 DEF GpifInv, LoadedInv, Outside
<1>11. CountInv'
  BY <1>1, <1>8 DEF GpifInv, CountInv, Waves!CountMoved
<1>12. WriteInv'
  BY <1>1, <1>8 DEF GpifInv, WriteInv
<1>13. ReadInv'
  <2>1. gbusy' = "read" => gc' < glen'
    BY <1>1, <1>2, <1>3, <1>4, <1>5, <1>7
  <2>2. ggiven' = gstart' + gc' + (IF gc' < glen' /\ gbusy' = "no" THEN 1 ELSE 0)
    BY <1>1, <1>2, <1>3, <1>4, <1>5, <1>7
  <2>3. \A k \in 1 .. gc' : gres'[k] = <<gstart' + k, gstart' + k>>
    BY Zenon, <1>1, <1>5, <1>6
  <2>4. Len(gres') = IF gc' = 0 THEN 1 ELSE gc'
    BY <1>3, <1>5, <1>6
  <2>5. glatch' = ggiven' /\ glen' \in WordCounts /\ gc' <= glen'
    BY <1>1, <1>2, <1>5
  <2>6. QED
    BY Zenon, <1>1, <1>8, <2>1, <2>2, <2>3, <2>4, <2>5 DEF ReadInv, Reading
<1>14. QED
  BY <1>9, <1>10, <1>11, <1>12, <1>13 DEF GpifInv

LEMMA GpWriteHigh == ASSUME GpifInv, Waves!WriteHigh PROVE GpifInv'
<1>1. /\ gc < glen /\ gbusy = "no" /\ gpc = "writeloop" /\ gpc' = "writelow" /\ gout' = <<gstart + gc + 1, gout[2]>>
      /\ UNCHANGED <<gcalls, glen, gstart, gc, gres, ggpifMode, gwave, gbusy, glatch, ggiven, gwritten, gtc, gtold, gmoved>>
  BY DEF Waves!WriteHigh, Waves!WhenDone, Waves!Goto, Waves!callVars, Waves!setupVars, Waves!tcVars
<1>2. gout' \in Word /\ gout'[1] = gstart + gc + 1
  <2>1. gstart \in Nat /\ gc \in Nat /\ gout[2] \in Nat
    BY DEF GpifInv, GTypes, Word
  <2>2. QED
    BY <1>1, <2>1 DEF Word
<1>3. GTypes'
  BY <1>1, <1>2 DEF GpifInv, GTypes
<1>4. LoadedInv'
  BY <1>1 DEF GpifInv, LoadedInv, Outside
<1>5. CountInv'
  BY <1>1 DEF GpifInv, CountInv, Waves!CountMoved
<1>6. ReadInv'
  BY <1>1 DEF GpifInv, ReadInv, Reading
<1>7. WriteInv'
  <2>1. /\ \A k \in 1 .. Len(gwritten) : gwritten[k] = <<k, k>>
        /\ glen \in WordCounts /\ gc <= glen /\ Len(gwritten) + 0 = gstart + gc
    BY <1>1 DEF GpifInv, WriteInv
  <2>2. Len(gwritten) = gstart + gc
    BY <2>1, LenProperties DEF GpifInv, GTypes
  <2>3. QED
    BY <1>1, <1>2, <2>1, <2>2 DEF WriteInv
<1>8. QED
  BY <1>3, <1>4, <1>5, <1>6, <1>7 DEF GpifInv

LEMMA GpWriteLow == ASSUME GpifInv, ByteLengths, Waves!WriteLow PROVE GpifInv'
<1>1. /\ gpc = "writelow" /\ gpc' = "writeloop" /\ gout' = <<gout[1], gstart + gc + 1>>
      /\ gbusy' = (IF gbusy = "no" THEN "write" ELSE gbusy) /\ gc' = (gc + 1) % 256
      /\ UNCHANGED <<gcalls, glen, gstart, gres, ggpifMode, gwave, glatch, ggiven, gwritten, gtc, gtold, gmoved>>
  BY DEF Waves!WriteLow, Waves!Goto, Waves!Trigger, Waves!callVars, Waves!setupVars, Waves!tcVars
<1>2. /\ gbusy = "no" /\ gc < glen /\ Len(gwritten) = gstart + gc /\ gout[1] = gstart + gc + 1 /\ glen \in WordCounts
      /\ \A k \in 1 .. Len(gwritten) : gwritten[k] = <<k, k>>
  BY <1>1 DEF GpifInv, WriteInv
<1>3. gc \in Nat /\ gstart \in Nat /\ glen \in Nat /\ glen <= 255
  BY <1>2, GLengths DEF GpifInv, GTypes
<1>4. gc' = gc + 1 /\ gc' <= 255 /\ gc' \in Nat /\ gc' <= glen
  BY <1>1, <1>2, <1>3
<1>5. gbusy' = "write"
  BY <1>1, <1>2
<1>6. gout' = <<Len(gwritten) + 1, Len(gwritten) + 1>>
  BY <1>1, <1>2, <1>3
<1>7. gout' \in Word
  BY <1>2, <1>3, <1>6 DEF Word
<1>8. GTypes'
  BY <1>1, <1>4, <1>5, <1>7 DEF GpifInv, GTypes
<1>9. LoadedInv'
  BY <1>1 DEF GpifInv, LoadedInv, Outside
<1>10. CountInv'
  BY <1>1, <1>5 DEF GpifInv, CountInv, Waves!CountMoved
<1>11. ReadInv'
  BY <1>1, <1>5 DEF GpifInv, ReadInv, Reading
<1>12. WriteInv'
  <2>1. Len(gwritten') + 1 = gstart' + gc'
    BY <1>1, <1>2, <1>3, <1>4
  <2>2. QED
    BY <1>1, <1>2, <1>4, <1>5, <1>6, <2>1 DEF WriteInv
<1>13. QED
  BY <1>8, <1>9, <1>10, <1>11, <1>12 DEF GpifInv

LEMMA GpWriteReturn == ASSUME GpifInv, Waves!WriteReturn PROVE GpifInv'
<1>1. /\ gpc = "writeloop" /\ gpc' = "idle"
      /\ UNCHANGED <<gcalls, glen, gstart, gc, gres, ggpifMode, gwave, gbusy, glatch, gout, ggiven, gwritten, gtc, gtold, gmoved>>
  BY DEF Waves!WriteReturn, Waves!Goto, Waves!callVars, Waves!setupVars, Waves!tcVars
<1>2. GTypes'
  BY <1>1 DEF GpifInv, GTypes
<1>3. LoadedInv'
  BY <1>1 DEF GpifInv, LoadedInv, Outside
<1>4. CountInv'
  BY <1>1 DEF GpifInv, CountInv, Waves!CountMoved
<1>5. ReadInv' /\ WriteInv'
  BY <1>1 DEF GpifInv, ReadInv, WriteInv, Reading
<1>6. QED
  BY <1>2, <1>3, <1>4, <1>5 DEF GpifInv

\* A count of 16 bits, with no upper word left from before.
LEMMA Tc16 ==
  ASSUME NEW t \in Nat, NEW n \in Nat, t < Waves!WORD
  PROVE  Waves!WORD * (t \div Waves!WORD) + n = n
<1>1. t < 65536
  BY SMT DEF Waves!WORD
<1>2. t \div 65536 = 0
  BY SMT, <1>1
<1>3. QED
  BY SMT, <1>2 DEF Waves!WORD

LEMMA GpSetCount == ASSUME GpifInv, Waves!SetCount PROVE GpifInv'
<1>1. /\ gpc = "idle" /\ gbusy # "fifo" /\ gcalls < MaxCalls /\ gmoved' = -1 /\ gcalls' = gcalls + 1
      /\ UNCHANGED <<gpc, glen, gstart, gc, gres, ggpifMode, gwave, gbusy, glatch, gout, ggiven, gwritten>>
  BY DEF Waves!SetCount, Waves!Other, Waves!setupVars
<1>2. gtc' \in Nat /\ gtold' = gtc'
  <2>1. CASE \E n \in Counts32 : Waves!gpif_set_tc32(n) /\ gtold' = n
    BY <2>1, GConstants DEF Waves!gpif_set_tc32
  <2>2. CASE gtc < Waves!WORD /\ \E n \in Counts16 : Waves!gpif_set_tc16(n) /\ gtold' = n
    <3>1. PICK n \in Counts16 : gtc' = Waves!WORD * (gtc \div Waves!WORD) + n /\ gtold' = n
      BY <2>2 DEF Waves!gpif_set_tc16
    <3>2. gtc \in Nat /\ n \in Nat
      BY GConstants DEF GpifInv, GTypes
    <3>3. Waves!WORD * (gtc \div Waves!WORD) + n = n
      BY <2>2, <3>2, Tc16
    <3>4. QED
      BY Zenon, <3>1, <3>2, <3>3
  <2>3. QED
    BY <2>1, <2>2 DEF Waves!SetCount
<1>3. GTypes'
  <2>1. gcalls' \in 0 .. MaxCalls /\ gtold' \in Nat
    BY <1>1, <1>2, GConstants DEF GpifInv, GTypes
  <2>2. QED
    BY <1>1, <1>2, <2>1 DEF GpifInv, GTypes
<1>4. LoadedInv'
  BY <1>1 DEF GpifInv, LoadedInv, Outside
<1>5. CountInv'
  BY <1>1, <1>2 DEF CountInv, Waves!CountMoved
<1>6. ReadInv' /\ WriteInv'
  BY <1>1 DEF GpifInv, ReadInv, WriteInv, Reading
<1>7. QED
  BY <1>3, <1>4, <1>5, <1>6 DEF GpifInv

LEMMA GpFifo == ASSUME GpifInv, Waves!FifoTransaction PROVE GpifInv'
<1>1. /\ gpc = "idle" /\ gcalls < MaxCalls /\ gbusy = "no" /\ gtold > 0 /\ gmoved = -1
      /\ gbusy' = "fifo" /\ gcalls' = gcalls + 1
      /\ UNCHANGED <<gpc, glen, gstart, gc, gres, ggpifMode, gwave, glatch, gout, ggiven, gwritten, gtc, gtold, gmoved>>
  BY DEF Waves!FifoTransaction, Waves!Other, Waves!setupVars, Waves!tcVars
<1>2. GTypes'
  <2>1. gcalls' \in 0 .. MaxCalls
    BY <1>1, GConstants DEF GpifInv, GTypes
  <2>2. QED
    BY <1>1, <2>1 DEF GpifInv, GTypes
<1>3. LoadedInv'
  BY <1>1 DEF GpifInv, LoadedInv, Outside
<1>4. CountInv'
  BY <1>1 DEF GpifInv, CountInv, Waves!CountMoved
<1>5. ReadInv' /\ WriteInv'
  BY <1>1 DEF GpifInv, ReadInv, WriteInv, Reading
<1>6. QED
  BY <1>2, <1>3, <1>4, <1>5 DEF GpifInv

LEMMA GpCallInit == ASSUME GpifInv, Waves!CallInit PROVE GpifInv'
<1>1. /\ gpc \in {"reset", "idle"} /\ gbusy \in {"no", "fifo"} /\ gcalls < MaxCalls
      /\ gpc' = "mode" /\ gcalls' = gcalls + 1
      /\ UNCHANGED <<glen, gstart, gc, gres, ggpifMode, gwave, gbusy, glatch, gout, ggiven, gwritten, gtc, gtold, gmoved>>
  BY DEF Waves!CallInit, Waves!setupVars, Waves!tcVars
<1>2. GTypes'
  <2>1. gcalls' \in 0 .. MaxCalls
    BY <1>1, GConstants DEF GpifInv, GTypes
  <2>2. QED
    BY <1>1, <2>1 DEF GpifInv, GTypes
<1>3. LoadedInv'
  BY <1>1 DEF LoadedInv, Outside
<1>4. CountInv'
  BY <1>1 DEF GpifInv, CountInv, Waves!CountMoved
<1>5. ReadInv' /\ WriteInv'
  BY <1>1 DEF GpifInv, ReadInv, WriteInv, Reading
<1>6. QED
  BY <1>2, <1>3, <1>4, <1>5 DEF GpifInv

\* The words written and to be written.
LEMMA SentAre ==
  ASSUME GpifInv
  PROVE  /\ \A k \in DOMAIN Waves!Sent : Waves!Sent[k] = <<k, k>>
         /\ Len(Waves!Sent) \in Nat
         /\ Len(Waves!Sent) = Len(gwritten) + (IF gbusy = "write" THEN 1 ELSE 0)
<1>1. gwritten \in Seq(Word) /\ gout \in Word /\ \A k \in 1 .. Len(gwritten) : gwritten[k] = <<k, k>>
  BY DEF GpifInv, GTypes, WriteInv
<1>2. Len(gwritten) \in Nat /\ DOMAIN gwritten = 1 .. Len(gwritten)
  BY <1>1, LenProperties
<1>3. CASE gbusy # "write"
  <2>1. Waves!Sent = gwritten
    BY <1>3 DEF Waves!Sent
  <2>2. (IF gbusy = "write" THEN 1 ELSE 0) = 0
    BY <1>3
  <2>3. Len(gwritten) = Len(gwritten) + 0
    BY <1>2
  <2>4. QED
    BY Zenon, <1>1, <1>2, <2>1, <2>2, <2>3
<1>4. CASE gbusy = "write"
  <2>1. Waves!Sent = Append(gwritten, gout) /\ gout = <<Len(gwritten) + 1, Len(gwritten) + 1>>
    BY <1>4 DEF Waves!Sent, GpifInv, WriteInv
  <2>2. /\ Waves!Sent \in Seq(Word) /\ Len(Waves!Sent) = Len(gwritten) + 1 /\ Waves!Sent[Len(gwritten) + 1] = gout
        /\ \A k \in 1 .. Len(gwritten) : Waves!Sent[k] = gwritten[k]
    BY <1>1, <2>1, AppendProperties
  <2>3. DOMAIN Waves!Sent = 1 .. Len(gwritten) + 1
    BY <2>2, LenProperties
  <2>4. ASSUME NEW k \in 1 .. Len(gwritten) + 1 PROVE Waves!Sent[k] = <<k, k>>
    <3>1. CASE k = Len(gwritten) + 1
      BY Zenon, <2>1, <2>2, <3>1
    <3>2. CASE k \in 1 .. Len(gwritten)
      BY <1>1, <2>2, <3>2
    <3>3. QED
      BY <1>2, <3>1, <3>2
  <2>5. QED
    BY <1>2, <1>4, <2>2, <2>3, <2>4
<1>5. QED
  BY <1>3, <1>4

LEMMA GpCall == ASSUME GpifInv, ByteLengths, Waves!Call PROVE GpifInv'
<1>1. /\ gpc = "idle" /\ gbusy # "fifo" /\ gcalls < MaxCalls /\ glen' \in WordCounts /\ gpc' \in {"read", "writeloop"}
      /\ gstart' = (IF gpc' = "read" THEN ggiven ELSE Len(Waves!Sent))
      /\ gc' = 0 /\ gres' = <<>> /\ gcalls' = gcalls + 1
      /\ UNCHANGED <<ggpifMode, gwave, gbusy, glatch, gout, ggiven, gwritten, gtc, gtold, gmoved>>
  BY DEF Waves!Call, Waves!setupVars, Waves!tcVars
<1>2. gbusy \in {"no", "write"}
  BY <1>1 DEF GpifInv, GTypes, ReadInv
<1>3. ggiven \in Nat /\ Len(Waves!Sent) \in Nat /\ glen' \in Nat /\ glen' > 0
      /\ Len(Waves!Sent) = Len(gwritten) + (IF gbusy = "write" THEN 1 ELSE 0)
  BY <1>1, SentAre, GLengths DEF GpifInv, GTypes
<1>4. gstart' \in Nat
  BY <1>1, <1>3
<1>5. GTypes'
  <2>1. gcalls' \in 0 .. MaxCalls
    BY <1>1, GConstants DEF GpifInv, GTypes
  <2>2. <<>> \in Seq(Word) /\ gc' \in Nat /\ gc' <= 255
    BY <1>1
  <2>3. gpc' \in {"reset", "mode", "abort", "wave", "idle", "read", "readloop", "high", "low", "writeloop", "writelow"}
    BY <1>1
  <2>4. QED
    BY <1>1, <1>4, <2>1, <2>2, <2>3 DEF GpifInv, GTypes
<1>6. LoadedInv'
  BY <1>1 DEF GpifInv, LoadedInv, Outside
<1>7. CountInv'
  BY <1>1 DEF GpifInv, CountInv, Waves!CountMoved
<1>8. ReadInv'
  BY <1>1, <1>2 DEF GpifInv, ReadInv, Reading
<1>9. WriteInv'
  <2>1. gpc' = "writeloop" => Len(gwritten') + (IF gbusy' = "write" THEN 1 ELSE 0) = gstart' + gc'
    BY <1>1, <1>3
  <2>2. gc' <= glen'
    BY <1>1, <1>3
  <2>3. QED
    BY <1>1, <1>2, <2>1, <2>2 DEF GpifInv, WriteInv
<1>10. QED
  BY <1>5, <1>6, <1>7, <1>8, <1>9 DEF GpifInv

LEMMA GpFlags == ASSUME GFlags, Waves!Next \/ UNCHANGED gpifVars PROVE GFlags'
  BY DEF GFlags, gpifVars, Waves!Next, Waves!Engine, Waves!Library, Waves!ReadWord, Waves!WriteWord, Waves!MoveFifo,
         Waves!MasterMode, Waves!AbortWaves, Waves!WaveData, Waves!gpif_single_read16, Waves!gpif_single_write16,
         Waves!DummyRead, Waves!ReadLoop, Waves!ReadHigh, Waves!ReadLow, Waves!WriteHigh, Waves!WriteLow,
         Waves!WriteReturn, Waves!SetCount, Waves!FifoTransaction, Waves!CallInit, Waves!Call, Waves!Other,
         Waves!setupVars

LEMMA NextGpif == ASSUME GpifInv, GFlags, ByteLengths, Waves!Next \/ UNCHANGED gpifVars PROVE GpifInv'
<1>1. CASE UNCHANGED gpifVars
  BY <1>1 DEF gpifVars, GpifInv, GTypes, LoadedInv, CountInv, ReadInv, WriteInv, Reading, Waves!CountMoved
<1>2. CASE Waves!Next
  BY <1>2, GpReadWord, GpWriteWord, GpMoveFifo, GpMasterMode, GpAbortWaves, GpWaveData, GpDummyRead, GpReadLoop,
     GpReadHigh, GpReadLow, GpWriteHigh, GpWriteLow, GpWriteReturn, GpSetCount, GpFifo, GpCallInit, GpCall
     DEF Waves!Next, Waves!Engine, Waves!Library, Waves!gpif_single_read16, Waves!gpif_single_write16
<1>3. QED
  BY <1>1, <1>2

LEMMA GpifSuffices ==
  ASSUME GpifInv, GFlags, ByteLengths
  PROVE  Waves!TypeOK /\ Waves!WordsRead /\ Waves!WordsWritten /\ Waves!CountMoved
<1>1. Waves!TypeOK
  <2>1. gc \in 0 .. 255
    BY DEF GpifInv, GTypes
  <2>2. QED
    BY Zenon, <2>1 DEF GpifInv, GTypes, LoadedInv, Outside, Waves!TypeOK
<1>2. Waves!WordsRead
  <2>1. SUFFICES ASSUME Reading
                 PROVE  /\ ggiven <= gstart + glen
                        /\ gc = glen => /\ gres = [k \in 1 .. glen |-> <<gstart + k, gstart + k>>]
                                        /\ gbusy = "no" /\ ggiven = gstart + glen
    BY Zenon DEF Waves!WordsRead, Reading
  <2>2. /\ gc \in Nat /\ gstart \in Nat /\ glen \in WordCounts /\ gc <= glen /\ gres \in Seq(Word)
        /\ ggiven = gstart + gc + (IF gc < glen /\ gbusy = "no" THEN 1 ELSE 0)
        /\ \A k \in 1 .. gc : gres[k] = <<gstart + k, gstart + k>>
        /\ (gbusy = "read" => gc < glen) /\ gbusy \in {"no", "read"}
    BY <2>1 DEF GpifInv, GTypes, ReadInv
  <2>3. glen \in Nat /\ glen > 0
    BY <2>2, GLengths
  <2>4. ggiven <= gstart + glen
    BY <2>2, <2>3
  <2>5. ASSUME gc = glen
        PROVE  /\ gres = [k \in 1 .. glen |-> <<gstart + k, gstart + k>>]
               /\ gbusy = "no" /\ ggiven = gstart + glen
    <3>1. gbusy = "no" /\ ggiven = gstart + glen
      BY <2>2, <2>3, <2>5
    <3>2. gpc \in {"readloop"}
      BY <2>1, <2>2, <2>3, <2>5 DEF GpifInv, ReadInv, Reading
    <3>3. Len(gres) = glen
      BY <2>2, <2>3, <2>5, <3>2 DEF GpifInv, ReadInv
    <3>4. gres \in [1 .. glen -> Word]
      BY <2>2, <3>3, LenProperties
    <3>5. gres = [k \in 1 .. glen |-> gres[k]]
      BY <3>4
    <3>6. \A k \in 1 .. glen : gres[k] = <<gstart + k, gstart + k>>
      BY Zenon, <2>2, <2>5
    <3>7. [k \in 1 .. glen |-> gres[k]] = [k \in 1 .. glen |-> <<gstart + k, gstart + k>>]
      BY <3>6
    <3>8. QED
      BY Zenon, <3>1, <3>5, <3>7
  <2>6. QED
    BY <2>4, <2>5
<1>3. Waves!WordsWritten
  <2>1. gpc = "writeloop" => Len(Waves!Sent) = gstart + gc
    BY SentAre DEF GpifInv, WriteInv
  <2>2. QED
    BY Zenon, <2>1, SentAre DEF Waves!WordsWritten
<1>4. QED
  BY <1>1, <1>2, <1>3 DEF GpifInv, CountInv

-----------------------------------------------------------------------------
(* The uptime counter (Uptime).                                            *)

\* The interrupt waits at most four steps, for it is masked for three.
UMaskInv ==
    /\ uET0 = (upc \notin {"low", "high", "unmask"})
    /\ uTF0 => /\ uclock <= 3
               /\ upc = "low" => uclock = 0
               /\ upc = "high" => uclock <= 1
               /\ upc = "unmask" => uclock <= 2

\* What get_uptime has copied so far; the counter stands still meanwhile.
UCopyInv ==
    /\ upc # "led" => uuptime_sec \in useen
    /\ upc = "high" => utemp = Clock!Low(uuptime_sec)
    /\ upc = "unmask" => utemp = uuptime_sec

UTypes ==
    /\ uuptime_sec \in 0 .. Clock!Seconds - 1 /\ ums_count \in 0 .. MS - 1 /\ ut1 \in 0 .. T1_INTERVAL
    /\ ud2_led \in BOOLEAN /\ uTF0 \in BOOLEAN /\ uET0 \in BOOLEAN /\ uioa \in [1 .. 2 -> {0, 1}]
    /\ uclock \in 0 .. Period - 1 /\ upc \in {"led", "mask", "low", "high", "unmask", "return"}
    /\ utemp \in 0 .. Clock!Seconds - 1 /\ uticks \in 0 .. Clock!Seconds * MS - 1
    /\ useen \subseteq 0 .. Clock!Seconds - 1

ClockInv == UTypes /\ UMaskInv /\ UCopyInv /\ Clock!ReadConsistent /\ Clock!NoTickLost

LEMMA UConstants ==
  /\ BYTE \in Nat /\ MS \in Nat /\ T1_INTERVAL \in Nat /\ Period \in Nat
  /\ BYTE > 1 /\ MS > 0 /\ Period >= 8
  BY DriversAssumption DEF Clock!UptimeAssumption

\* Two digits make up a number.
LEMMA Digits2 ==
  ASSUME NEW b \in Nat, b > 1, NEW n \in 0 .. b * b - 1
  PROVE  /\ n % b \in 0 .. b - 1 /\ n \div b \in Nat /\ (n % b) + b * (n \div b) = n
         /\ b * b \in Nat /\ b * b > 0 /\ b - 1 < b * b
  OBVIOUS

\* Adding one modulo a number.
LEMMA NextMod ==
  ASSUME NEW m \in Nat, m > 0, NEW n \in 0 .. m - 1
  PROVE  (n + 1) % m = IF n + 1 = m THEN 0 ELSE n + 1
  OBVIOUS

\* A second more.
LEMMA NextSecond ==
  ASSUME NEW s \in Nat, s > 0, NEW m \in Nat, m > 0, NEW n \in 0 .. s - 1
  PROVE  ((n + 1) * m) % (s * m) = (((n + 1) % s) * m) % (s * m)
<1>1. (n + 1) % s = IF n + 1 = s THEN 0 ELSE n + 1
  BY NextMod
<1>2. s * m \in Nat /\ s * m > 0
  OBVIOUS
<1>3. CASE n + 1 = s
  <2>1. (s * m) % (s * m) = 0
    BY <1>2
  <2>2. 0 % (s * m) = 0
    BY <1>2
  <2>3. QED
    BY <1>1, <1>3, <2>1, <2>2
<1>4. CASE n + 1 # s
  BY <1>1, <1>4
<1>5. QED
  BY <1>3, <1>4

LEMMA CountRange ==
  ASSUME NEW s \in Nat, s > 0, NEW m \in Nat, m > 0, NEW n \in 0 .. s - 1, NEW k \in 0 .. m - 1
  PROVE  n * m + k \in 0 .. s * m - 1
<1>1. (s - 1) * m = s * m - m /\ s * m \in Nat
  OBVIOUS
<1>2. n * m <= (s - 1) * m /\ n * m >= 0 /\ n * m \in Int
  OBVIOUS
<1>3. QED
  BY <1>1, <1>2

\* What the overflows amount to, counted in milliseconds.
Counted == uuptime_sec * MS + ums_count

\* Every step of the main loop but the interrupt takes its time only.
LEMMA TimePasses ==
  ASSUME ClockInv, uTF0 => ~uET0, UNCHANGED <<uuptime_sec, ums_count, ut1, ud2_led>>, Clock!Elapse(uTF0)
  PROVE  /\ Clock!NoTickLost'
         /\ uclock' \in 0 .. Period - 1 /\ uTF0' \in BOOLEAN
         /\ uticks' \in 0 .. Clock!Seconds * MS - 1
         /\ uTF0 => uTF0' /\ uclock' = uclock + 1
         /\ ~uTF0 /\ uTF0' => uclock' = 0
<1> DEFINE M == Clock!Seconds * MS
<1>1. Clock!Seconds \in Nat /\ Clock!Seconds > 0 /\ M \in Nat /\ M > 0
  BY UConstants, Digits2 DEF Clock!Seconds
<1>2. Counted \in 0 .. M - 1 /\ Counted' = Counted
  BY <1>1, CountRange, UConstants DEF ClockInv, UTypes, Counted
<1>3. uticks = (Counted + (IF uTF0 THEN 1 ELSE 0)) % M
  BY DEF ClockInv, Clock!NoTickLost, Counted
<1>4. uclock' = (IF uclock + 1 = Period THEN 0 ELSE uclock + 1)
  BY NextMod, UConstants DEF ClockInv, UTypes, Clock!Elapse
<1>5. uTF0 => uclock <= 3
  BY DEF ClockInv, UTypes, UMaskInv
<1>6. uTF0' = (uTF0 \/ uclock' = 0)
  BY DEF Clock!Elapse
<1>7. uticks' = IF uclock' = 0 THEN (uticks + 1) % M ELSE uticks
  BY DEF Clock!Elapse
<1>8. uticks' = (Counted + (IF uTF0' THEN 1 ELSE 0)) % M
  <2>1. CASE uclock' = 0
    <3>1. ~uTF0
      BY <1>4, <1>5, <2>1, UConstants DEF ClockInv, UTypes
    <3>2. uticks = Counted
      BY <1>1, <1>2, <1>3, <3>1
    <3>3. QED
      BY <1>6, <1>7, <2>1, <3>2
  <2>2. CASE uclock' # 0
    BY <1>3, <1>6, <1>7, <2>2
  <2>3. QED
    BY <2>1, <2>2
<1>9. Clock!NoTickLost'
  BY <1>2, <1>8 DEF Clock!NoTickLost, Counted, Clock!Seconds
<1>10. uticks' \in 0 .. M - 1
  BY <1>1, <1>2, <1>8
<1>11. QED
  BY <1>4, <1>5, <1>6, <1>9, <1>10, UConstants DEF ClockInv, UTypes

LEMMA ClockIsr == ASSUME ClockInv, Clock!timer0_isr PROVE ClockInv'
<1> DEFINE M == Clock!Seconds * MS
<1>1. Clock!Seconds \in Nat /\ Clock!Seconds > 0 /\ M \in Nat /\ M > 0
  BY UConstants, Digits2 DEF Clock!Seconds
<1>2. uTF0 /\ uET0 /\ uclock <= 3 /\ upc \notin {"low", "high", "unmask"}
  BY DEF ClockInv, UTypes, UMaskInv, Clock!timer0_isr
<1>3. uclock' = uclock + 1 /\ uTF0' = FALSE /\ uticks' = uticks
  <2>1. uclock' = (uclock + 1) % Period
    BY DEF Clock!timer0_isr, Clock!Elapse
  <2>2. uclock' = uclock + 1
    BY <1>2, <2>1, NextMod, UConstants DEF ClockInv, UTypes
  <2>3. uclock' # 0
    BY <1>2, <2>2, UConstants DEF ClockInv, UTypes
  <2>4. QED
    BY <2>2, <2>3 DEF Clock!timer0_isr, Clock!Elapse
<1>4. ums_count + 1 >= MS <=> ums_count + 1 = MS
  BY UConstants DEF ClockInv, UTypes
<1>5. (uuptime_sec + 1) % Clock!Seconds = IF uuptime_sec + 1 = Clock!Seconds THEN 0 ELSE uuptime_sec + 1
  BY <1>1, NextMod DEF ClockInv, UTypes
<1>6. uticks = (Counted + 1) % M
  BY <1>2 DEF ClockInv, Clock!NoTickLost, Counted
<1>7. (Counted + 1) % M = (uuptime_sec' * MS + ums_count' + 0) % M
  <2>1. CASE ums_count + 1 = MS
    <3>1. uuptime_sec' = (uuptime_sec + 1) % Clock!Seconds /\ ums_count' = 0
      BY <1>4, <2>1 DEF Clock!timer0_isr
    <3>2. Counted + 1 = (uuptime_sec + 1) * MS
      BY <2>1, UConstants DEF Counted, ClockInv, UTypes
    <3>3. ((uuptime_sec + 1) * MS) % M = (uuptime_sec' * MS) % M
      BY <1>1, <3>1, NextSecond, UConstants DEF ClockInv, UTypes
    <3>4. uuptime_sec' * MS \in Int
      BY <1>1, <1>5, <3>1, UConstants DEF ClockInv, UTypes
    <3>5. QED
      BY <3>1, <3>2, <3>3, <3>4
  <2>2. CASE ums_count + 1 # MS
    <3>1. uuptime_sec' = uuptime_sec /\ ums_count' = ums_count + 1
      BY <1>4, <2>2 DEF Clock!timer0_isr
    <3>2. uuptime_sec * MS \in Int
      BY UConstants DEF ClockInv, UTypes
    <3>3. uuptime_sec * MS + ums_count + 1 = uuptime_sec * MS + (ums_count + 1) + 0
      BY <3>2 DEF ClockInv, UTypes
    <3>4. QED
      BY <3>1, <3>3 DEF Counted
  <2>3. QED
    BY <2>1, <2>2
<1>8. Clock!NoTickLost'
  BY <1>3, <1>6, <1>7 DEF Clock!NoTickLost, Clock!Seconds
<1>9. UTypes'
  <2>1. uuptime_sec' \in 0 .. Clock!Seconds - 1 /\ ums_count' \in 0 .. MS - 1
    BY <1>1, <1>4, <1>5, UConstants DEF Clock!timer0_isr, ClockInv, UTypes
  <2>2. ut1' \in 0 .. T1_INTERVAL
    BY UConstants DEF Clock!timer0_isr, ClockInv, UTypes
  <2>7. ud2_led' \in BOOLEAN
    BY Zenon DEF Clock!timer0_isr, ClockInv, UTypes
  <2>3. uioa' \in [1 .. 2 -> {0, 1}]
    BY DEF Clock!timer0_isr, ClockInv, UTypes
  <2>8. uTF0' \in BOOLEAN
    BY <1>3, Zenon
  <2>4. uclock' \in 0 .. Period - 1 /\ uticks' \in 0 .. Clock!Seconds * MS - 1
    BY <1>2, <1>3, UConstants DEF ClockInv, UTypes
  <2>5. UNCHANGED <<uET0, upc, utemp>> /\ useen' = useen \cup {uuptime_sec'}
    BY DEF Clock!timer0_isr
  <2>6. QED
    BY <2>1, <2>2, <2>3, <2>4, <2>5, <2>7, <2>8 DEF ClockInv, UTypes, Clock!Seconds
<1>10. UMaskInv' /\ UCopyInv' /\ Clock!ReadConsistent'
  BY <1>2, <1>3 DEF ClockInv, UTypes, UMaskInv, UCopyInv, Clock!ReadConsistent, Clock!timer0_isr
<1>11. QED
  BY <1>8, <1>9, <1>10 DEF ClockInv

LEMMA ClockMain ==
  ASSUME ClockInv, Clock!Led \/ Clock!Mask \/ Clock!Copy \/ Clock!Unmask \/ Clock!Return
  PROVE  ClockInv'
<1> USE DEF Clock!Step, Clock!timer
<1>1. /\ UNCHANGED <<uuptime_sec, ums_count, ut1, ud2_led>> /\ Clock!Elapse(uTF0)
      /\ uTF0 => ~uET0
  BY DEF Clock!Led, Clock!Mask, Clock!Copy, Clock!Unmask, Clock!Return
<1>2. /\ Clock!NoTickLost'
      /\ uclock' \in 0 .. Period - 1 /\ uTF0' \in BOOLEAN
      /\ uticks' \in 0 .. Clock!Seconds * MS - 1
      /\ uTF0 => uTF0' /\ uclock' = uclock + 1
      /\ ~uTF0 /\ uTF0' => uclock' = 0
  BY <1>1, TimePasses
<1>3. Clock!Low(uuptime_sec) \in 0 .. Clock!Seconds - 1
      /\ Clock!Low(uuptime_sec) + BYTE * Clock!High(uuptime_sec) = uuptime_sec
  <2>1. Clock!Low(uuptime_sec) \in 0 .. BYTE - 1 /\ BYTE - 1 < Clock!Seconds /\ Clock!Seconds \in Nat
        /\ Clock!Low(uuptime_sec) + BYTE * Clock!High(uuptime_sec) = uuptime_sec
    BY UConstants, Digits2 DEF ClockInv, UTypes, Clock!Seconds, Clock!Low, Clock!High
  <2>2. QED
    BY <2>1, UConstants
<1>4. UTypes'
  <2>1. uET0' \in BOOLEAN /\ upc' \in {"led", "mask", "low", "high", "unmask", "return"}
    BY DEF ClockInv, UTypes, Clock!Led, Clock!Mask, Clock!Copy, Clock!Unmask, Clock!Return
  <2>2. uioa' \in [1 .. 2 -> {0, 1}] /\ useen' \subseteq 0 .. Clock!Seconds - 1
    BY DEF ClockInv, UTypes, Clock!Led, Clock!Mask, Clock!Copy, Clock!Unmask, Clock!Return
  <2>3. utemp' \in 0 .. Clock!Seconds - 1
    BY <1>3 DEF ClockInv, UTypes, UCopyInv, Clock!Led, Clock!Mask, Clock!Copy, Clock!Unmask, Clock!Return
  <2>4. QED
    BY <1>1, <1>2, <2>1, <2>2, <2>3 DEF ClockInv, UTypes, Clock!Seconds
<1>5. UMaskInv'
  <2>1. /\ uET0 = (upc \notin {"low", "high", "unmask"})
        /\ upc' = "low" => upc = "mask"
        /\ upc' = "high" => upc = "low"
        /\ upc' = "unmask" => upc = "high"
        /\ upc' = "return" => upc = "unmask"
        /\ upc' \in {"led", "mask"} => upc \in {"led", "return"}
    BY DEF ClockInv, UMaskInv, Clock!Led, Clock!Mask, Clock!Copy, Clock!Unmask, Clock!Return
  <2>2. uET0' = (upc' \notin {"low", "high", "unmask"})
    BY <2>1 DEF Clock!Led, Clock!Mask, Clock!Copy, Clock!Unmask, Clock!Return
  <2>3. upc \in {"led", "mask", "return"} => ~uTF0
    BY <1>1, <2>1
  <2>4. QED
    BY <1>2, <2>1, <2>2, <2>3 DEF ClockInv, UTypes, UMaskInv
<1>6. UCopyInv' /\ Clock!ReadConsistent'
  BY <1>1, <1>3 DEF ClockInv, UTypes, UMaskInv, UCopyInv, Clock!ReadConsistent,
     Clock!Led, Clock!Mask, Clock!Copy, Clock!Unmask, Clock!Return, Clock!Low
<1>7. QED
  BY <1>2, <1>4, <1>5, <1>6 DEF ClockInv

LEMMA NextClock == ASSUME ClockInv, Clock!Next \/ UNCHANGED uptimeVars PROVE ClockInv'
<1>1. CASE UNCHANGED uptimeVars
  BY <1>1 DEF uptimeVars, ClockInv, UTypes, UMaskInv, UCopyInv, Clock!ReadConsistent, Clock!NoTickLost,
              Clock!Low, Clock!Seconds
<1>2. QED
  BY <1>1, ClockIsr, ClockMain DEF Clock!Next

LEMMA InitClock == ASSUME Clock!Init PROVE ClockInv
<1>1. Clock!Seconds \in Nat /\ Clock!Seconds > 0 /\ Clock!Seconds * MS \in Nat /\ Clock!Seconds * MS > 0
  BY UConstants, Digits2 DEF Clock!Seconds
<1>2. UTypes
  <2>1. ud2_led \in BOOLEAN /\ uTF0 \in BOOLEAN /\ uET0 \in BOOLEAN
    BY DEF Clock!Init
  <2>2. uioa \in [1 .. 2 -> {0, 1}]
    BY DEF Clock!Init
  <2>3. QED
    BY <1>1, <2>1, <2>2, UConstants DEF UTypes, Clock!Init
<1>3. Clock!NoTickLost
  <2>1. 0 * MS + 0 + 0 = 0 /\ 0 % (Clock!Seconds * MS) = 0
    BY <1>1, UConstants
  <2>2. QED
    BY <2>1 DEF Clock!NoTickLost, Clock!Init
<1>4. UMaskInv /\ UCopyInv /\ Clock!ReadConsistent
  BY UConstants DEF UMaskInv, UCopyInv, Clock!ReadConsistent, Clock!Init
<1>5. QED
  BY <1>2, <1>3, <1>4 DEF ClockInv

LEMMA ClockSuffices == ASSUME ClockInv PROVE Clock!TypeOK /\ Clock!ReadConsistent /\ Clock!NoTickLost
  BY DEF ClockInv, UTypes, Clock!TypeOK

-----------------------------------------------------------------------------
(* The delay (Delay).                                                      *)

\* What is left to count down in the millisecond that is counted.
Count == 256 * dhigh + dlow

\* Cycles of a millisecond: 15 for a round, and two for each time that the
\* low byte wraps.
PerLoop(m) == 15 * Pause!loop_count(m) + 2 * (Pause!loop_count(m) \div 256)

DTypes ==
    /\ dmult \in Mults /\ dmult \in {1, 2, 4} /\ dtold \in Millis /\ dtold \in 0 .. Pause!WORD - 1
    /\ dmillis \in 0 .. Pause!WORD - 1
    /\ dlow \in 0 .. 255 /\ dhigh \in 0 .. 255 /\ Count <= Pause!loop_count(dmult)
    /\ dcycles \in Nat

\* How long it has lasted, at each value of the counters.
SpentInv ==
    dtold > 0 =>
        /\ drunning => /\ dmillis \in 1 .. dtold
                       /\ dcycles = (dtold - dmillis) * PerLoop(dmult)
                                    + 15 * (Pause!loop_count(dmult) - Count)
                                    + 2 * (Pause!loop_count(dmult) \div 256 - dhigh)
        /\ ~drunning => dcycles = dtold * PerLoop(dmult)

PFlag == drunning \in BOOLEAN

PauseInv == DTypes /\ SpentInv

LEMMA DConstants == Mults \subseteq {1, 2, 4} /\ Millis \subseteq 0 .. Pause!WORD - 1
  BY DriversAssumption DEF Pause!DelayAssumption

LEMMA AWord == Pause!WORD \in Nat /\ Pause!WORD > 1
  BY DEF Pause!WORD

LEMMA LoopCounts ==
  /\ Pause!loop_count(1) = 177 /\ Pause!loop_count(2) = 353 /\ Pause!loop_count(4) = 706
  /\ PerLoop(1) = 2655 /\ PerLoop(2) = 5297 /\ PerLoop(4) = 10594
  /\ 177 \div 256 = 0 /\ 353 \div 256 = 1 /\ 706 \div 256 = 2
  /\ 177 % 256 = 177 /\ 353 % 256 = 97 /\ 706 % 256 = 194
<1>1. /\ Pause!loop_count(1) = 177 /\ Pause!loop_count(2) = 353 /\ Pause!loop_count(4) = 706
  BY DEF Pause!loop_count
<1>2. /\ 177 \div 256 = 0 /\ 353 \div 256 = 1 /\ 706 \div 256 = 2
      /\ 177 % 256 = 177 /\ 353 % 256 = 97 /\ 706 % 256 = 194
  OBVIOUS
<1>3. QED
  BY <1>1, <1>2 DEF PerLoop

LEMMA InitPause == ASSUME Pause!Init PROVE PauseInv
<1>1. dmult \in {1, 2, 4} /\ dtold \in 0 .. Pause!WORD - 1 /\ dmillis = dtold /\ drunning = TRUE
  BY DConstants DEF Pause!Init
<1>2. /\ dlow \in 0 .. 255 /\ dhigh \in 0 .. 255 /\ Count = Pause!loop_count(dmult)
      /\ dhigh = Pause!loop_count(dmult) \div 256
  BY <1>1, LoopCounts DEF Pause!Init, Count
<1>3. Pause!loop_count(dmult) \in Nat /\ PerLoop(dmult) \in Nat /\ Pause!loop_count(dmult) \div 256 \in Nat
  BY <1>1, LoopCounts
<1>4. DTypes
  BY <1>1, <1>2, <1>3 DEF DTypes, Pause!Init
<1>5. SpentInv
  BY <1>1, <1>2, <1>3 DEF SpentInv, Pause!Init
<1>6. QED
  BY <1>4, <1>5 DEF PauseInv

LEMMA PauseInner == ASSUME PauseInv, Pause!Inner PROVE PauseInv'
<1>1. /\ dlow' \in 0 .. 255 /\ dhigh' \in 0 .. 255 /\ Count' = Count - 1
      /\ dhigh' = IF dlow = 0 THEN dhigh - 1 ELSE dhigh
      /\ dcycles' = dcycles + (IF dlow = 0 THEN 17 ELSE 15)
  <2>1. dlow \in 0 .. 255 /\ dhigh \in 0 .. 255 /\ (dlow # 0 \/ dhigh # 0)
    BY DEF PauseInv, DTypes, Pause!Inner
  <2>2. /\ dlow' = (dlow + 255) % 256
        /\ dhigh' = IF dlow = 0 THEN (dhigh + 255) % 256 ELSE dhigh
    BY DEF Pause!Inner, Pause!Decrement
  <2>3. /\ dlow' \in 0 .. 255 /\ dhigh' \in 0 .. 255
        /\ 256 * dhigh' + dlow' = 256 * dhigh + dlow - 1
        /\ dlow = 0 => dhigh' = dhigh - 1
    <3>1. CASE dlow = 0
      BY <2>1, <2>2, <3>1
    <3>2. CASE dlow # 0
      BY <2>1, <2>2, <3>2
    <3>3. QED
      BY <3>1, <3>2
  <2>4. dcycles' = dcycles + (IF dlow = 0 THEN 17 ELSE 15)
    BY DEF Pause!Inner
  <2>5. QED
    BY <2>1, <2>2, <2>3, <2>4 DEF Count
<1>2. UNCHANGED <<dmult, dtold, dmillis, drunning>> /\ drunning
  BY DEF Pause!Inner
<1>3. /\ Pause!loop_count(dmult) \in Nat /\ PerLoop(dmult) \in Nat
      /\ Pause!loop_count(dmult) \div 256 \in Nat /\ Count \in Int
  BY LoopCounts DEF PauseInv, DTypes, Count
<1>4. Pause!loop_count(dmult)' = Pause!loop_count(dmult) /\ PerLoop(dmult)' = PerLoop(dmult)
  BY <1>2 DEF PerLoop, Pause!loop_count
<1>5. DTypes'
  BY <1>1, <1>2, <1>3, <1>4 DEF PauseInv, DTypes
<1>6. SpentInv'
  <2> DEFINE base == (dtold - dmillis) * PerLoop(dmult)
  <2>1. base \in Int /\ base' = base
    BY <1>2, <1>3, <1>4 DEF PauseInv, DTypes
  <2>2. dtold > 0 => dcycles = base + 15 * (Pause!loop_count(dmult) - Count)
                                    + 2 * (Pause!loop_count(dmult) \div 256 - dhigh)
    BY <1>2 DEF PauseInv, SpentInv
  <2>3. dtold > 0 => dcycles' = base + 15 * (Pause!loop_count(dmult) - Count')
                                    + 2 * (Pause!loop_count(dmult) \div 256 - dhigh')
    <3> HIDE DEF base
    <3> QED
      BY <1>1, <1>3, <2>1, <2>2 DEF PauseInv, DTypes
  <2>4. QED
    BY <1>2, <1>4, <2>1, <2>3 DEF PauseInv, SpentInv
<1>7. QED
  BY <1>5, <1>6 DEF PauseInv

LEMMA PauseOuter == ASSUME PauseInv, Pause!Outer PROVE PauseInv'
<1>1. /\ drunning /\ dlow = 0 /\ dhigh = 0 /\ UNCHANGED <<dmult, dtold, dcycles>>
      /\ dmillis' = (dmillis + Pause!WORD - 1) % Pause!WORD /\ drunning' = (dmillis' # 0)
  BY DEF Pause!Outer
<1>2. dmillis' = IF dmillis = 0 THEN Pause!WORD - 1 ELSE dmillis - 1
  BY <1>1, AWord DEF PauseInv, DTypes
<1>3. /\ Pause!loop_count(dmult) \in Nat /\ PerLoop(dmult) \in Nat
      /\ Pause!loop_count(dmult) \div 256 \in Nat
      /\ PerLoop(dmult) = 15 * Pause!loop_count(dmult) + 2 * (Pause!loop_count(dmult) \div 256)
  BY LoopCounts DEF PauseInv, DTypes, PerLoop
<1>4. Pause!loop_count(dmult)' = Pause!loop_count(dmult) /\ PerLoop(dmult)' = PerLoop(dmult)
  BY <1>1 DEF PerLoop, Pause!loop_count
<1>5. /\ dlow' \in 0 .. 255 /\ dhigh' \in 0 .. 255
      /\ drunning' => Count' = Pause!loop_count(dmult) /\ dhigh' = Pause!loop_count(dmult) \div 256
      /\ ~drunning' => Count' = 0
  <2>1. CASE drunning'
    BY <2>1, LoopCounts DEF Pause!Outer, Pause!SetCount, Count, PauseInv, DTypes
  <2>2. CASE ~drunning'
    BY <1>1, <2>2 DEF Pause!Outer, Count
  <2>3. QED
    BY <2>1, <2>2
<1>6. DTypes'
  <2>1. Count' <= Pause!loop_count(dmult)
    <3>1. CASE drunning'
      BY <1>3, <1>5, <3>1
    <3>2. CASE ~drunning'
      BY <1>3, <1>5, <3>2
    <3>3. QED
      BY <3>1, <3>2
  <2>2. QED
    BY <1>1, <1>2, <1>4, <1>5, <2>1, AWord DEF PauseInv, DTypes
<1>7. ASSUME dtold > 0 PROVE SpentInv'
  <2> DEFINE P == PerLoop(dmult)
  <2>1. dmillis \in 1 .. dtold /\ dmillis' = dmillis - 1
    BY <1>1, <1>2, <1>7 DEF PauseInv, DTypes, SpentInv
  <2>2. dcycles = (dtold - dmillis) * P + P
    <3>1. Count = 0
      BY <1>1 DEF Count
    <3>2. (dtold - dmillis) * P \in Int
      BY <1>3, <2>1 DEF PauseInv, DTypes
    <3>3. QED
      BY <1>1, <1>3, <1>7, <3>1, <3>2 DEF PauseInv, SpentInv
  <2>3. (dtold - dmillis) * P + P = (dtold - (dmillis - 1)) * P
    BY <1>3, <2>1 DEF PauseInv, DTypes
  <2>4. dcycles' = (dtold' - dmillis') * P
    BY <1>1, <2>1, <2>2, <2>3
  <2>5. (dtold' - dmillis') * P \in Int /\ dtold' \in Nat
    BY <1>1, <1>3, <2>1 DEF PauseInv, DTypes
  <2>6. drunning' => /\ dmillis' \in 1 .. dtold'
                     /\ dcycles' = (dtold' - dmillis') * P + 15 * (Pause!loop_count(dmult) - Count')
                                    + 2 * (Pause!loop_count(dmult) \div 256 - dhigh')
    <3>1. SUFFICES ASSUME drunning'
                   PROVE  /\ dmillis' \in 1 .. dtold'
                          /\ dcycles' = (dtold' - dmillis') * P + 15 * (Pause!loop_count(dmult) - Count')
                                    + 2 * (Pause!loop_count(dmult) \div 256 - dhigh')
      OBVIOUS
    <3>2. dmillis' # 0
      BY <1>1, <3>1
    <3>3. dmillis' \in 1 .. dtold'
      BY <1>1, <2>1, <3>2 DEF PauseInv, DTypes
    <3>4. /\ 15 * (Pause!loop_count(dmult) - Count') = 0
          /\ 2 * (Pause!loop_count(dmult) \div 256 - dhigh') = 0
      <4>1. Count' = Pause!loop_count(dmult) /\ dhigh' = Pause!loop_count(dmult) \div 256
        BY <1>5, <3>1
      <4>2. QED
        BY <1>3, <4>1
    <3> HIDE DEF P
    <3>5. QED
      BY <2>4, <2>5, <3>3, <3>4
  <2>7. ~drunning' => dcycles' = dtold' * P
    <3>1. ~drunning' => dmillis' = 0
      BY <1>1
    <3>2. dmillis' = 0 => dcycles' = dtold' * P
      BY <2>4, <2>5
    <3>3. QED
      BY <3>1, <3>2
  <2>8. QED
    BY <1>4, <2>6, <2>7, <1>1 DEF SpentInv
<1>8. dtold' > 0 => dtold > 0
  BY <1>1
<1>9. QED
  BY <1>6, <1>7, <1>8 DEF PauseInv, SpentInv

LEMMA NextPause == ASSUME PauseInv, Pause!Next \/ UNCHANGED delayVars PROVE PauseInv'
<1>1. CASE UNCHANGED delayVars
  BY <1>1 DEF delayVars, PauseInv, DTypes, SpentInv, Count, PerLoop, Pause!loop_count
<1>2. QED
  BY <1>1, PauseInner, PauseOuter DEF Pause!Next

LEMMA FlagKept == ASSUME PFlag, Pause!Next \/ UNCHANGED delayVars PROVE PFlag'
  BY DEF PFlag, Pause!Next, Pause!Inner, Pause!Outer, delayVars

LEMMA PauseSuffices == ASSUME PauseInv, PFlag PROVE Pause!TypeOK /\ Pause!NotLonger /\ Pause!NotEarly
<1> USE DEF PauseInv, DTypes
<1>1. Pause!TypeOK
  BY DEF Pause!TypeOK, Count, PFlag
<1>2. ASSUME dtold > 0
      PROVE  /\ 100 * dcycles <= 101 * dtold * Pause!PerMilli(dmult)
             /\ ~drunning => 8 * dcycles >= 7 * dtold * Pause!PerMilli(dmult)
  <2>1. CASE dmult = 1
    BY <1>2, <2>1, LoopCounts DEF SpentInv, Count, Pause!PerMilli
  <2>2. CASE dmult = 2
    BY <1>2, <2>2, LoopCounts DEF SpentInv, Count, Pause!PerMilli
  <2>3. CASE dmult = 4
    BY <1>2, <2>3, LoopCounts DEF SpentInv, Count, Pause!PerMilli
  <2>4. QED
    BY <2>1, <2>2, <2>3
<1>3. QED
  BY <1>1, <1>2 DEF Pause!NotLonger, Pause!NotEarly

-----------------------------------------------------------------------------
(* The TM1638 bus.                                                         *)

LEMMA Tm1638Assumed == Tm1638Assumption
  BY DriversAssumption

Writing  == {"low", "put", "high"}
Scanning == {"readlow", "sample", "readhigh", "output", "keep"}
Resting  == {"begin", "return", "idle"}

\* Where the j-th byte of frame f goes.
Target(f, j) == (frames[f][1] + (j - 2)) % 16

\* The types: of the call, of the byte at work, the port, the chip, the buttons.
CallTypes ==
    /\ op \in {"init", "leds", "segments", "buttons"} /\ ops \in 0 .. MaxOps
    /\ frame \in Nat \ {0} /\ byte \in Nat \ {0} /\ want \in [0 .. 15 -> 0 .. 255]

MoveTypes ==
    /\ pc \in {"configure", "next"} \cup Writing \cup Scanning \cup Resting
    /\ bit \in 0 .. 8 /\ dat \in 0 .. 255 /\ received \in 0 .. 4 /\ keys \subseteq 0 .. 7

PinTypes ==
    /\ STB \in {0, 1} /\ CLK \in {0, 1} /\ DIO \in {0, 1} /\ OEA \in {0, 1} /\ out \in {0, 1}

ChipTypes ==
    /\ ram \in [0 .. 15 -> 0 .. 255] /\ mode \in 64 .. 127 /\ phase \in {"command", "data"}
    /\ bits \in 0 .. 7 /\ shift \in 0 .. 127 /\ addr \in 0 .. 15 /\ reading \in 0 .. 33

ButtonTypes ==
    pressed \subseteq 0 .. 7 /\ was \subseteq 0 .. 7 /\ wasNot \subseteq 0 .. 7

BTypes == CallTypes /\ MoveTypes /\ PinTypes /\ ChipTypes /\ ButtonTypes

\* The frames of a call: the first sets the mode, no other does, and what the
\* others write is what the registers should be.
FramesInv ==
    /\ Len(frames) \in Nat \ {0} /\ Len(frames[1]) = 1
    /\ frames[1][1] \in (IF op = "buttons" THEN {66} ELSE {64, 68})
    /\ op = "buttons" => Len(frames) = 1
    /\ \A f \in 2 .. Len(frames) :
         /\ Len(frames[f]) \in 1 .. 17 /\ frames[f][1] \in 128 .. 255
         /\ Len(frames[f]) > 1 => frames[f][1] >= 192
         /\ Len(frames[f]) > 2 => frames[1][1] = 64
         /\ \A j \in 2 .. Len(frames[f]) : frames[f][j] = want[Target(f, j)]

\* Where the loops are: the frame, its byte, the byte that is read.
CursorInv ==
    /\ pc = "configure" => frame = 1
    /\ pc \notin {"return", "idle"} => frame \in 1 .. Len(frames)
    /\ pc \in {"return", "idle"} => frame = Len(frames) + 1
    /\ pc \in Writing \cup {"next"} => byte \in 1 .. Len(frames[frame])
    /\ pc \in Writing \cup {"begin", "configure"} => received = 0
    /\ pc \in Scanning => op = "buttons" /\ received < 4 /\ frame = 1 /\ byte = 1
    /\ pc = "next" /\ op # "buttons" => received = 0
    /\ pc = "return" /\ op = "buttons" => received = 4

\* Between frames the bus is at rest.
RestInv ==
    /\ pc \in Resting => /\ STB = 1 /\ CLK = 1 /\ OEA = 1 /\ phase = "command"
                         /\ shift = 0 /\ bits = 0 /\ reading = Off /\ out = 1
    /\ pc = "configure" => STB = 0 /\ out = 1

\* Of byte b, i bits have been sent, which make up s; d is left.
Sent(d, i, s, b) == d * 2 ^ i + s = b /\ s < 2 ^ i

\* While a byte is written: the bits sent and those to come make up the byte.
SendInv ==
    pc \in Writing =>
        /\ STB = 0 /\ OEA = 1 /\ reading = Off /\ out = 1
        /\ CLK = IF pc = "low" THEN 1 ELSE 0
        /\ bit \in 0 .. 7 /\ bits = bit
        /\ phase = IF byte = 1 THEN "command" ELSE "data"
        /\ Sent(dat, bit, shift, frames[frame][byte])
        /\ pc = "high" => DIO = dat % 2

\* While a byte is read: how many bits the chip has put out.
ScanInv ==
    /\ pc = "next" =>
         /\ STB = 0 /\ CLK = 1 /\ OEA = 1 /\ phase = "data" /\ bits = 0 /\ shift = 0
         /\ IF op = "buttons" THEN reading = 8 * received /\ DIO = 0 ELSE reading = Off /\ out = 1
    /\ pc \in Scanning =>
         /\ STB = 0 /\ DIO = 0 /\ phase = "data" /\ bits = 0 /\ shift = 0
         /\ OEA = IF pc = "keep" THEN 1 ELSE 0
         /\ CLK = IF pc \in {"sample", "readhigh"} THEN 0 ELSE 1
         /\ bit \in (IF pc \in {"output", "keep"} THEN {8} ELSE 0 .. 7)
         /\ reading = 8 * received + bit + (IF pc \in {"sample", "readhigh"} THEN 1 ELSE 0)
         /\ pc = "sample" => dat < 128

\* From the end of the first byte on the chip is in the mode of the call.
ModeInv ==
    frame >= 2 \/ pc \in Scanning \cup {"next"} => mode = frames[1][1]

\* The chip's address is that of the byte that comes next.
AddrInv ==
    /\ pc \in Writing /\ byte >= 2 => addr = Target(frame, byte)
    /\ pc = "next" /\ frame >= 2 /\ byte < Len(frames[frame]) => addr = Target(frame, byte + 1)

\* The j-th byte of frame f has still to reach the chip.
Ahead(f, j) ==
    \/ f > frame
    \/ f = frame /\ pc \in {"configure", "begin"}
    \/ f = frame /\ pc \in Writing /\ j >= byte
    \/ f = frame /\ pc = "next" /\ j > byte

\* A byte for register a has.
Pending(a) ==
    \E f \in 2 .. Len(frames) : \E j \in 2 .. Len(frames[f]) : Target(f, j) = a /\ Ahead(f, j)

\* A register holds what it should unless its byte has still to come.
RamInv == \A a \in 0 .. 15 : ram[a] = want[a] \/ Pending(a)

\* A bit that was read is how a button was since the call began.
Seen(b, v) == (v = 1 => b \in was) /\ (v = 0 => b \in wasNot)

\* In d the bits of the buttons among the first i bits have come to place k
\* and on.
SeenBits(d, i, k) == \A j \in {0, 4} : j < i => Seen(received + j, Bit(d, k + j))

\* What was read of the buttons, in keys and in the byte that is read.
KeysInv ==
    /\ pressed \subseteq was /\ 0 .. 7 \ pressed \subseteq wasNot
    /\ keys \subseteq was
    /\ \A n \in 0 .. 3 : n < received =>
         /\ n \in keys \/ n \in wasNot
         /\ n + 4 \in keys \/ n + 4 \in wasNot
    /\ pc \in {"readlow", "output", "keep"} => SeenBits(dat, bit, 8 - bit)
    /\ pc = "sample" => SeenBits(dat, bit, 7 - bit) /\ (bit \in {0, 4} => Seen(received + bit, out))
    /\ pc = "readhigh" => SeenBits(dat, bit + 1, 7 - bit)

BusInv == BTypes /\ FramesInv /\ CursorInv /\ RestInv /\ SendInv /\ ScanInv /\ ModeInv /\ AddrInv /\ RamInv /\ KeysInv

LEMMA SentStart == ASSUME NEW b \in 0 .. 255 PROVE Sent(b, 0, 0, b)
  BY DEF Sent

LEMMA SentNext ==
  ASSUME NEW d \in Nat, NEW i \in 0 .. 6, NEW s \in Nat, NEW b \in 0 .. 255, Sent(d, i, s, b)
  PROVE  Sent(d \div 2, i + 1, s + 2 ^ i * (d % 2), b)
<1>1. d = 2 * (d \div 2) + (d % 2) /\ d \div 2 \in Nat /\ d % 2 \in 0 .. 1
  OBVIOUS
<1> DEFINE q == d \div 2  r == d % 2
<1> HIDE DEF q, r
<1>2. d = 2 * q + r /\ q \in Nat /\ r \in 0 .. 1
  BY <1>1 DEF q, r
<1>3. Sent(q, i + 1, s + 2 ^ i * r, b)
  <2>1. CASE i = 0 
    BY <1>2, <2>1 DEF Sent
  <2>2. CASE i = 1 
    BY <1>2, <2>2 DEF Sent
  <2>3. CASE i = 2 
    BY <1>2, <2>3 DEF Sent
  <2>4. CASE i = 3 
    BY <1>2, <2>4 DEF Sent
  <2>5. CASE i = 4 
    BY <1>2, <2>5 DEF Sent
  <2>6. CASE i = 5 
    BY <1>2, <2>6 DEF Sent
  <2>7. CASE i = 6 
    BY <1>2, <2>7 DEF Sent
  <2>8. QED
    BY <2>1, <2>2, <2>3, <2>4, <2>5, <2>6, <2>7
<1>4. QED
  BY <1>3 DEF q, r

LEMMA SentAll ==
  ASSUME NEW d \in Nat, NEW s \in Nat, NEW b \in 0 .. 255, Sent(d, 7, s, b)
  PROVE  s + 128 * (d % 2) = b
<1>1. d * 128 + s = b /\ s < 128
  BY DEF Sent
<1>2. d \in 0 .. 1
  BY <1>1
<1>3. QED
  BY <1>1, <1>2

LEMMA SentRange ==
  ASSUME NEW d \in Nat, NEW i \in 0 .. 6, NEW s \in Nat, NEW r \in 0 .. 1, NEW b \in 0 .. 255, Sent(d, i, s, b)
  PROVE  s + 2 ^ i * r \in 0 .. 127
<1>1. CASE i = 0 
  BY <1>1 DEF Sent
<1>2. CASE i = 1 
  BY <1>2 DEF Sent
<1>3. CASE i = 2 
  BY <1>3 DEF Sent
<1>4. CASE i = 3 
  BY <1>4 DEF Sent
<1>5. CASE i = 4 
  BY <1>5 DEF Sent
<1>6. CASE i = 5 
  BY <1>6 DEF Sent
<1>7. CASE i = 6 
  BY <1>7 DEF Sent
<1>8. QED
  BY <1>1, <1>2, <1>3, <1>4, <1>5, <1>6, <1>7

LEMMA FrameLength ==
  ASSUME FramesInv, NEW f \in 1 .. Len(frames)
  PROVE  /\ Len(frames[f]) \in Nat /\ Len(frames[f]) > 0
         /\ 1 \in 1 .. Len(frames[f])
<1>1. f = 1 \/ f \in 2 .. Len(frames)
  BY DEF FramesInv
<1>2. Len(frames[f]) \in 1 .. 17
  BY <1>1 DEF FramesInv
<1> DEFINE n == Len(frames[f])
<1> HIDE DEF n
<1>3. n \in 1 .. 17
  BY <1>2 DEF n
<1>4. n \in Nat /\ n > 0 /\ 1 \in 1 .. n
  BY <1>3
<1>5. QED
  BY <1>4 DEF n

LEMMA OneOnly == 1 .. 1 = {1}
  OBVIOUS

LEMMA NotTheLast == ASSUME NEW n, n \in Nat, NEW j \in Nat, j > 0, j < n PROVE n # 1
  OBVIOUS

LEMMA FirstByte == ASSUME FramesInv PROVE frames[1][1] \in {64, 66, 68}
  BY DEF FramesInv

LEMMA Mod16 ==
  ASSUME NEW c \in 0 .. 255, NEW j \in Nat, j >= 2
  PROVE  /\ (c + (j - 2)) % 16 \in 0 .. 15
         /\ (((c + (j - 2)) % 16) + 1) % 16 = (c + ((j + 1) - 2)) % 16
         /\ (c + (2 - 2)) % 16 = c % 16
  OBVIOUS

LEMMA ByteRange ==
  ASSUME BTypes, FramesInv, NEW f \in 1 .. Len(frames), NEW j \in 1 .. Len(frames[f])
  PROVE  frames[f][j] \in 0 .. 255
<1>1. CASE f = 1
  <2>1. Len(frames[1]) = 1
    BY DEF FramesInv
  <2>2. j = 1
    BY <1>1, <2>1
  <2>3. QED
    BY <1>1, <2>2, FirstByte
<1>2. CASE f # 1 /\ j = 1
  BY <1>2 DEF FramesInv
<1>3. CASE f # 1 /\ j # 1
  <2>1. f \in 2 .. Len(frames) /\ Len(frames[f]) \in Nat
    BY <1>3, FrameLength DEF FramesInv
  <2>2. j \in 2 .. Len(frames[f]) /\ j \in Nat /\ j >= 2
    BY <1>3, <2>1
  <2>3. frames[f][1] \in 0 .. 255
    BY <2>1, 128 .. 255 \subseteq 0 .. 255 DEF FramesInv
  <2>4. Target(f, j) \in 0 .. 15
    BY <2>2, <2>3, Mod16 DEF Target
  <2>5. frames[f][j] = want[Target(f, j)]
    BY <2>1, <2>2 DEF FramesInv
  <2>6. want \in [0 .. 15 -> 0 .. 255]
    BY DEF BTypes, CallTypes
  <2>7. QED
    BY <2>4, <2>5, <2>6
<1>4. QED
  BY <1>1, <1>2, <1>3

LEMMA TargetRange ==
  ASSUME BTypes, FramesInv, NEW f \in 1 .. Len(frames), NEW j \in Nat, j >= 2
  PROVE  /\ Target(f, j) \in 0 .. 15
         /\ (Target(f, j) + 1) % 16 = Target(f, j + 1)
         /\ Target(f, 2) = frames[f][1] % 16
<1>1. 1 \in 1 .. Len(frames[f])
  BY FrameLength
<1>2. frames[f][1] \in 0 .. 255
  BY <1>1, ByteRange
<1>3. QED
  BY <1>2, Mod16 DEF Target

\* A step that writes no register and passes over no byte.
LEMMA RamKept ==
  ASSUME RamInv, UNCHANGED <<ram, want, frames>>,
         \A f \in 2 .. Len(frames) : \A j \in 2 .. Len(frames[f]) : Ahead(f, j) => Ahead(f, j)'
  PROVE  RamInv'
  BY DEF RamInv, Pending, Target

LEMMA BitValue == ASSUME NEW d \in 0 .. 255 PROVE Bit(d, 0) \in {0, 1} /\ Bit(d, 4) \in {0, 1}
  BY DEF Bit

LEMMA BitShift == ASSUME NEW d \in 0 .. 255, NEW k \in 0 .. 6 PROVE Bit(d \div 2, k) = Bit(d, k + 1)
<1>1. CASE k = 0
  BY <1>1 DEF Bit
<1>2. CASE k = 1
  BY <1>2 DEF Bit
<1>3. CASE k = 2
  BY <1>3 DEF Bit
<1>4. CASE k = 3
  BY <1>4 DEF Bit
<1>5. CASE k = 4
  BY <1>5 DEF Bit
<1>6. CASE k = 5
  BY <1>6 DEF Bit
<1>7. CASE k = 6
  BY <1>7 DEF Bit
<1>8. QED
  BY <1>1, <1>2, <1>3, <1>4, <1>5, <1>6, <1>7

LEMMA BitAdded ==
  ASSUME NEW d \in 0 .. 127, NEW v \in {0, 1}
  PROVE  Bit(d + 128 * v, 7) = v /\ \A k \in 0 .. 6 : Bit(d + 128 * v, k) = Bit(d, k)
<1>1. Bit(d + 128 * v, 7) = v
  BY DEF Bit
<1>2. ASSUME NEW k \in 0 .. 6 PROVE Bit(d + 128 * v, k) = Bit(d, k)
  <2>1. CASE k = 0
    BY <2>1 DEF Bit
  <2>2. CASE k = 1
    BY <2>2 DEF Bit
  <2>3. CASE k = 2
    BY <2>3 DEF Bit
  <2>4. CASE k = 3
    BY <2>4 DEF Bit
  <2>5. CASE k = 4
    BY <2>5 DEF Bit
  <2>6. CASE k = 5
    BY <2>6 DEF Bit
  <2>7. CASE k = 6
    BY <2>7 DEF Bit
  <2>8. QED
    BY <2>1, <2>2, <2>3, <2>4, <2>5, <2>6, <2>7
<1>3. QED
  BY <1>1, <1>2

LEMMA ShiftSeen ==
  ASSUME NEW d \in 0 .. 255, NEW i \in 0 .. 7, SeenBits(d, i, 8 - i)
  PROVE  SeenBits(d \div 2, i, 7 - i)
<1>1. SUFFICES ASSUME NEW j \in {0, 4}, j < i
               PROVE  Seen(received + j, Bit(d \div 2, (7 - i) + j))
  BY DEF SeenBits
<1>2. (7 - i) + j \in 0 .. 6 /\ ((7 - i) + j) + 1 = (8 - i) + j
  BY <1>1
<1>3. Bit(d \div 2, (7 - i) + j) = Bit(d, (8 - i) + j)
  BY <1>2, BitShift
<1>4. QED
  BY <1>1, <1>3 DEF SeenBits

LEMMA SampleSeen ==
  ASSUME NEW d \in 0 .. 127, NEW v \in {0, 1}, NEW i \in 0 .. 7,
         SeenBits(d, i, 7 - i), i \in {0, 4} => Seen(received + i, v)
  PROVE  SeenBits(d + 128 * v, i + 1, 7 - i)
<1>1. SUFFICES ASSUME NEW j \in {0, 4}, j < i + 1
               PROVE  Seen(received + j, Bit(d + 128 * v, (7 - i) + j))
  BY DEF SeenBits
<1>2. CASE j = i
  <2>1. (7 - i) + j = 7
    BY <1>2
  <2>2. QED
    BY <1>2, <2>1, BitAdded
<1>3. CASE j < i
  <2>1. (7 - i) + j \in 0 .. 6
    BY <1>3
  <2>2. QED
    BY <1>3, <2>1, BitAdded DEF SeenBits
<1>4. QED
  BY <1>1, <1>2, <1>3

LEMMA KeySeen ==
  ASSUME pressed \subseteq was, 0 .. 7 \ pressed \subseteq wasNot,
         NEW n \in 0 .. 3, NEW i \in {0, 4}
  PROVE  Seen(n + i, KeyBit(8 * n + i))
<1>1. /\ (8 * n + i) % 4 = 0 /\ (8 * n + i) \div 8 = n /\ (8 * n + i) % 8 = i
      /\ n + i \in 0 .. 7
  OBVIOUS
<1>2. KeyBit(8 * n + i) = IF n + i \in pressed THEN 1 ELSE 0
  BY <1>1 DEF KeyBit
<1>3. QED
  BY <1>1, <1>2 DEF Seen

\* A step that leaves a part of the invariant alone.
LEMMA FramesKept == ASSUME FramesInv, UNCHANGED <<op, frames, want>> PROVE FramesInv'
  BY DEF FramesInv, Target

LEMMA AddrKept ==
  ASSUME AddrInv, UNCHANGED <<addr, frames, frame, byte>>,
         pc \in Writing, pc' \in Writing
  PROVE  AddrInv'
  BY DEF AddrInv, Target, Writing

LEMMA KeysKept ==
  ASSUME KeysInv, UNCHANGED <<buttons, keys, received>>, pc' \notin Scanning
  PROVE  KeysInv'
  BY DEF KeysInv, buttons, Scanning

LEMMA BusConfigure == ASSUME BusInv, Configure PROVE BusInv'
<1> USE DEF Resting, Writing, Scanning, Off
<1>p. /\ pc = "configure" /\ pc' = "begin"
      /\ UNCHANGED <<call, buttons, place, scan, ram, mode, addr>>
      /\ STB' = 1 /\ CLK' = 1 /\ DIO' = 0 /\ OEA' = 1
      /\ phase' = "command" /\ shift' = 0 /\ bits' = 0 /\ reading' = Off /\ out' = 1
  BY DEF Configure, Go, StbEdge
<1>1. BTypes'
  <2>1. CallTypes'
    BY <1>p DEF BusInv, BTypes, CallTypes, call, place
  <2>2. MoveTypes'
    BY <1>p DEF BusInv, BTypes, MoveTypes, place, scan
  <2>3. PinTypes'
    BY <1>p DEF PinTypes
  <2>4. ChipTypes'
    BY <1>p DEF BusInv, BTypes, ChipTypes
  <2>5. ButtonTypes'
    BY <1>p DEF BusInv, BTypes, ButtonTypes, buttons
  <2>6. QED
    BY <2>1, <2>2, <2>3, <2>4, <2>5 DEF BTypes
<1>2. FramesInv'
  BY <1>p, FramesKept DEF BusInv, call
<1>3. CursorInv'
  BY <1>p DEF BusInv, CursorInv, call, place, scan
<1>4. RestInv'
  BY <1>p DEF BusInv, RestInv
<1>5. SendInv'
  BY <1>p DEF SendInv
<1>6. ScanInv'
  BY <1>p DEF ScanInv
<1>7. ModeInv'
  BY <1>p DEF BusInv, ModeInv, call, place
<1>8. AddrInv'
  BY <1>p DEF AddrInv
<1>9. RamInv'
  <2>1. UNCHANGED <<ram, want, frames>>
    BY <1>p DEF call
  <2>2. ASSUME NEW f \in 2 .. Len(frames), NEW j \in 2 .. Len(frames[f]), Ahead(f, j)
        PROVE  Ahead(f, j)'
    BY <2>2, <1>p DEF Ahead, place
  <2>3. QED
    BY <2>1, <2>2, RamKept DEF BusInv
<1>10. KeysInv'
  BY <1>p, KeysKept DEF BusInv, scan
<1>11. QED
  BY <1>1, <1>2, <1>3, <1>4, <1>5, <1>6, <1>7, <1>8, <1>9, <1>10 DEF BusInv

LEMMA BusBegin == ASSUME BusInv, Begin PROVE BusInv'
<1> USE DEF Resting, Writing, Scanning, Off
<1>p. /\ pc = "begin" /\ pc' = "low"
      /\ UNCHANGED <<call, buttons, frame, scan, CLK, DIO, OEA, ram, mode, addr>>
      /\ STB' = 0 /\ bit' = 0
      /\ phase' = "command" /\ shift' = 0 /\ bits' = 0 /\ reading' = Off /\ out' = 1
  BY DEF Begin, Go, StbEdge, Hand
<1>a. /\ frame \in 1 .. Len(frames) /\ Len(frames) \in Nat
      /\ UNCHANGED <<frame, frames>> /\ byte' = 1 /\ dat' = frames[frame][1]
  BY DEF BusInv, CursorInv, FramesInv, Begin, Go, call, Hand
<1>c. 1 \in 1 .. Len(frames[frame])
  BY <1>a, FrameLength DEF BusInv
<1>d. frames[frame][1] \in 0 .. 255
  BY <1>a, <1>c, ByteRange DEF BusInv
<1>1. BTypes'
  <2>1. dat' \in 0 .. 255 /\ byte' \in Nat \ {0}
    BY <1>a, <1>d
  <2>2. CallTypes'
    BY <2>1, <1>p DEF BusInv, BTypes, CallTypes, call
  <2>3. MoveTypes'
    BY <2>1, <1>p DEF BusInv, BTypes, MoveTypes, scan
  <2>4. PinTypes'
    BY <1>p DEF BusInv, BTypes, PinTypes
  <2>5. ChipTypes'
    BY <1>p DEF BusInv, BTypes, ChipTypes
  <2>6. ButtonTypes'
    BY <1>p DEF BusInv, BTypes, ButtonTypes, buttons
  <2>7. QED
    BY <2>2, <2>3, <2>4, <2>5, <2>6 DEF BTypes
<1>2. FramesInv'
  BY <1>p, FramesKept DEF BusInv, call
<1>3. CursorInv'
  <2>1. byte' \in 1 .. Len(frames'[frame'])
    BY <1>a, <1>c
  <2>2. QED
    BY <2>1, <1>a DEF BusInv, CursorInv, Begin, Go, call, scan
<1>4. RestInv'
  BY <1>p DEF RestInv
<1>5. SendInv'
  <2>1. Sent(dat', 0, 0, frames'[frame'][byte'])
    BY <1>a, <1>d, SentStart
  <2>2. QED
    BY <2>1, <1>a DEF BusInv, SendInv, RestInv, Begin, Go, StbEdge, Hand
<1>6. ScanInv'
  BY <1>p DEF ScanInv
<1>7. ModeInv'
  BY <1>p DEF BusInv, ModeInv, call
<1>8. AddrInv'
  BY <1>a DEF AddrInv, Begin, Go
<1>9. RamInv'
  <2>1. UNCHANGED <<ram, want, frames>>
    BY <1>p DEF call
  <2>2. ASSUME NEW f \in 2 .. Len(frames), NEW j \in 2 .. Len(frames[f]), Ahead(f, j)
        PROVE  Ahead(f, j)'
    BY <2>2, <1>p, <1>a, FrameLength DEF Ahead, BusInv
  <2>3. QED
    BY <2>1, <2>2, RamKept DEF BusInv
<1>10. KeysInv'
  BY <1>p, KeysKept DEF BusInv, scan
<1>11. QED
  BY <1>1, <1>2, <1>3, <1>4, <1>5, <1>6, <1>7, <1>8, <1>9, <1>10 DEF BusInv

LEMMA BusWriteLow == ASSUME BusInv, WriteLow PROVE BusInv'
<1> USE DEF Resting, Writing, Scanning, Off
<1>p. /\ pc = "low" /\ pc' = "put" /\ CLK' = 0
      /\ UNCHANGED <<call, buttons, place, scan, STB, DIO, OEA, chip>>
  BY DEF WriteLow, Go, ClkFalls, chip, BusInv, SendInv
<1>1. BTypes'
  <2>1. CallTypes'
    BY <1>p DEF BusInv, BTypes, CallTypes, call, place
  <2>2. MoveTypes'
    BY <1>p DEF BusInv, BTypes, MoveTypes, place, scan
  <2>3. PinTypes'
    BY <1>p DEF BusInv, BTypes, PinTypes, chip
  <2>4. ChipTypes'
    BY <1>p DEF BusInv, BTypes, ChipTypes, chip
  <2>5. ButtonTypes'
    BY <1>p DEF BusInv, BTypes, ButtonTypes, buttons
  <2>6. QED
    BY <2>1, <2>2, <2>3, <2>4, <2>5 DEF BTypes
<1>2. FramesInv'
  BY <1>p, FramesKept DEF BusInv, call
<1>3. CursorInv'
  BY <1>p DEF BusInv, CursorInv, call, place, scan
<1>4. RestInv'
  BY <1>p DEF RestInv
<1>5. SendInv'
  BY <1>p DEF BusInv, SendInv, call, place, chip
<1>6. ScanInv'
  BY <1>p DEF ScanInv
<1>7. ModeInv'
  BY <1>p DEF BusInv, ModeInv, call, place, chip
<1>8. AddrInv'
  BY <1>p, AddrKept DEF BusInv, call, place, chip
<1>9. RamInv'
  <2>1. UNCHANGED <<ram, want, frames>>
    BY <1>p DEF call, chip
  <2>2. ASSUME NEW f \in 2 .. Len(frames), NEW j \in 2 .. Len(frames[f]), Ahead(f, j)
        PROVE  Ahead(f, j)'
    BY <2>2, <1>p DEF Ahead, place
  <2>3. QED
    BY <2>1, <2>2, RamKept DEF BusInv
<1>10. KeysInv'
  BY <1>p, KeysKept DEF BusInv, scan
<1>11. QED
  BY <1>1, <1>2, <1>3, <1>4, <1>5, <1>6, <1>7, <1>8, <1>9, <1>10 DEF BusInv

LEMMA BusWriteData == ASSUME BusInv, WriteData PROVE BusInv'
<1> USE DEF Resting, Writing, Scanning, Off
<1>p. /\ pc = "put" /\ pc' = "high"
      /\ DIO' = dat % 2
      /\ UNCHANGED <<call, buttons, place, scan, STB, CLK, OEA, chip>>
  BY DEF WriteData, Go
<1>1. BTypes'
  <2>1. DIO' \in {0, 1}
    <3>1. dat \in 0 .. 255
      BY DEF BusInv, BTypes, MoveTypes
    <3>2. QED
      BY <1>p, <3>1
  <2>2. CallTypes'
    BY <1>p DEF BusInv, BTypes, CallTypes, call, place
  <2>3. MoveTypes'
    BY <1>p DEF BusInv, BTypes, MoveTypes, place, scan
  <2>4. PinTypes'
    BY <1>p, <2>1 DEF BusInv, BTypes, PinTypes, chip
  <2>5. ChipTypes'
    BY <1>p DEF BusInv, BTypes, ChipTypes, chip
  <2>6. ButtonTypes'
    BY <1>p DEF BusInv, BTypes, ButtonTypes, buttons
  <2>7. QED
    BY <2>2, <2>3, <2>4, <2>5, <2>6 DEF BTypes
<1>2. FramesInv'
  BY <1>p, FramesKept DEF BusInv, call
<1>3. CursorInv'
  BY <1>p DEF BusInv, CursorInv, call, place, scan
<1>4. RestInv'
  BY <1>p DEF RestInv
<1>5. SendInv'
  BY <1>p DEF BusInv, SendInv, call, place, chip
<1>6. ScanInv'
  BY <1>p DEF ScanInv
<1>7. ModeInv'
  BY <1>p DEF BusInv, ModeInv, call, place, chip
<1>8. AddrInv'
  BY <1>p, AddrKept DEF BusInv, call, place, chip
<1>9. RamInv'
  <2>1. UNCHANGED <<ram, want, frames>>
    BY <1>p DEF call, chip
  <2>2. ASSUME NEW f \in 2 .. Len(frames), NEW j \in 2 .. Len(frames[f]), Ahead(f, j)
        PROVE  Ahead(f, j)'
    BY <2>2, <1>p DEF Ahead, place
  <2>3. QED
    BY <2>1, <2>2, RamKept DEF BusInv
<1>10. KeysInv'
  BY <1>p, KeysKept DEF BusInv, scan
<1>11. QED
  BY <1>1, <1>2, <1>3, <1>4, <1>5, <1>6, <1>7, <1>8, <1>9, <1>10 DEF BusInv

LEMMA BusNextByte == ASSUME BusInv, NextByte PROVE BusInv'
<1> USE DEF Resting, Writing, Scanning, Off
<1>p. /\ pc = "next" /\ pc' = "low"
      /\ bit' = 0
      /\ UNCHANGED <<call, buttons, frame, scan, pins, chip>>
  BY DEF NextByte, Go, Hand
<1>a. /\ frame \in 1 .. Len(frames) /\ Len(frames) \in Nat
      /\ UNCHANGED <<frame, frames>> /\ byte' = byte + 1 /\ dat' = frames[frame][byte + 1]
  BY DEF BusInv, CursorInv, FramesInv, NextByte, Go, call, Hand
<1>b. /\ Len(frames[frame]) \in Nat /\ byte \in Nat /\ byte > 0
      /\ byte < Len(frames[frame])
  BY <1>a DEF BusInv, BTypes, CallTypes, NextByte, WritesLeft
<1>c. byte + 1 \in 1 .. Len(frames[frame])
  BY <1>b
<1>d. frames[frame][byte + 1] \in 0 .. 255
  BY <1>a, <1>c, ByteRange DEF BusInv
<1>e. frame >= 2
  <2>1. Len(frames[frame]) # 1
    BY <1>b, NotTheLast
  <2>3. frame # 1
    BY <2>1 DEF BusInv, FramesInv
  <2>2. QED
    BY <1>a, <2>3
<1>f. op # "buttons"
  BY <1>a, <1>e DEF BusInv, FramesInv
<1>1. BTypes'
  <2>1. dat' \in 0 .. 255 /\ byte' \in Nat \ {0}
    BY <1>a, <1>b, <1>d
  <2>2. CallTypes'
    BY <2>1, <1>p DEF BusInv, BTypes, CallTypes, call
  <2>3. MoveTypes'
    BY <2>1, <1>p DEF BusInv, BTypes, MoveTypes, scan
  <2>4. PinTypes'
    BY <1>p DEF BusInv, BTypes, PinTypes, pins, chip
  <2>5. ChipTypes'
    BY <1>p DEF BusInv, BTypes, ChipTypes, chip
  <2>6. ButtonTypes'
    BY <1>p DEF BusInv, BTypes, ButtonTypes, buttons
  <2>7. QED
    BY <2>2, <2>3, <2>4, <2>5, <2>6 DEF BTypes
<1>2. FramesInv'
  BY <1>p, FramesKept DEF BusInv, call
<1>3. CursorInv'
  <2>1. byte' \in 1 .. Len(frames'[frame'])
    BY <1>a, <1>c
  <2>2. QED
    BY <2>1, <1>a, <1>f DEF BusInv, CursorInv, NextByte, Go, call, scan
<1>4. RestInv'
  BY <1>p DEF RestInv
<1>5. SendInv'
  <2>1. Sent(dat', 0, 0, frames'[frame'][byte'])
    BY <1>a, <1>d, SentStart
  <2>2. byte' # 1
    BY <1>a, <1>b
  <2>3. QED
    BY <2>1, <2>2, <1>p, <1>a, <1>f DEF BusInv, SendInv, ScanInv, pins, chip
<1>6. ScanInv'
  BY <1>p DEF ScanInv
<1>7. ModeInv'
  BY <1>p DEF BusInv, ModeInv, call, chip
<1>8. AddrInv'
  <2>1. addr' = Target(frame, byte + 1)
    BY <1>b, <1>e DEF BusInv, AddrInv, NextByte, Go, chip
  <2>2. Target(frame, byte)' = Target(frame, byte + 1)
    BY <1>a DEF Target
  <2>3. QED
    BY <2>1, <2>2 DEF AddrInv, NextByte, Go
<1>9. RamInv'
  <2>1. UNCHANGED <<ram, want, frames>>
    BY <1>p DEF call, chip
  <2>2. ASSUME NEW f \in 2 .. Len(frames), NEW j \in 2 .. Len(frames[f]), Ahead(f, j)
        PROVE  Ahead(f, j)'
    <3>1. j \in Nat
      BY FrameLength DEF BusInv
    <3>2. QED
      BY <2>2, <3>1, <1>a, <1>b DEF Ahead, NextByte, Go
  <2>3. QED
    BY <2>1, <2>2, RamKept DEF BusInv
<1>10. KeysInv'
  BY <1>p, KeysKept DEF BusInv, scan
<1>11. QED
  BY <1>1, <1>2, <1>3, <1>4, <1>5, <1>6, <1>7, <1>8, <1>9, <1>10 DEF BusInv

LEMMA BusReadInput == ASSUME BusInv, ReadInput PROVE BusInv'
<1> USE DEF Resting, Writing, Scanning, Off
<1>p. /\ pc = "next" /\ pc' = "readlow" /\ op = "buttons" /\ received < 4
      /\ OEA' = 0 /\ bit' = 0 /\ dat' = 0
      /\ UNCHANGED <<call, buttons, frame, byte, scan, STB, CLK, DIO, chip>>
  BY DEF ReadInput, Go, ReadsLeft
<1>b. frame = 1 /\ byte = 1
  <2>1. /\ Len(frames) = 1 /\ Len(frames[1]) = 1 /\ frame \in 1 .. Len(frames)
        /\ byte \in 1 .. Len(frames[frame])
    BY <1>p DEF BusInv, FramesInv, CursorInv
  <2>2. frame = 1
    BY <2>1, OneOnly
  <2>3. byte \in 1 .. 1
    BY <2>1, <2>2
  <2>4. QED
    BY <2>2, <2>3, OneOnly
<1>1. BTypes'
  <2>1. CallTypes'
    BY <1>p DEF BusInv, BTypes, CallTypes, call
  <2>2. MoveTypes'
    BY <1>p DEF BusInv, BTypes, MoveTypes, scan
  <2>3. PinTypes'
    BY <1>p DEF BusInv, BTypes, PinTypes, chip
  <2>4. ChipTypes'
    BY <1>p DEF BusInv, BTypes, ChipTypes, chip
  <2>5. ButtonTypes'
    BY <1>p DEF BusInv, BTypes, ButtonTypes, buttons
  <2>6. QED
    BY <2>1, <2>2, <2>3, <2>4, <2>5 DEF BTypes
<1>2. FramesInv'
  BY <1>p, FramesKept DEF BusInv, call
<1>3. CursorInv'
  BY <1>p, <1>b DEF BusInv, CursorInv, call, scan
<1>4. RestInv'
  BY <1>p DEF RestInv
<1>5. SendInv'
  BY <1>p DEF SendInv
<1>6. ScanInv'
  <2>1. UNCHANGED <<op, received, DIO, STB, CLK, phase, bits, shift, reading>>
    BY <1>p DEF call, scan, chip
  <2>2. reading = 8 * received /\ DIO = 0 /\ STB = 0 /\ CLK = 1 /\ phase = "data" /\ bits = 0 /\ shift = 0
    BY <1>p, <1>b DEF BusInv, ScanInv
  <2>3. received \in 0 .. 4
    BY DEF BusInv, BTypes, MoveTypes
  <2>4. 8 * received + 0 + 0 = 8 * received /\ 0 \in 0 .. 7 /\ 0 < 128
    BY <2>3
  <2>5. QED
    BY <1>p, <2>1, <2>2, <2>4 DEF ScanInv
<1>7. ModeInv'
  BY <1>p DEF BusInv, ModeInv, call, chip
<1>8. AddrInv'
  BY <1>p DEF AddrInv
<1>9. RamInv'
  <2>1. UNCHANGED <<ram, want, frames>>
    BY <1>p DEF call, chip
  <2>2. ASSUME NEW f \in 2 .. Len(frames), NEW j \in 2 .. Len(frames[f]), Ahead(f, j)
        PROVE  Ahead(f, j)'
    BY <2>2, <1>p, <1>b DEF Ahead
  <2>3. QED
    BY <2>1, <2>2, RamKept DEF BusInv
<1>10. KeysInv'
  BY <1>p DEF BusInv, KeysInv, SeenBits, Seen, buttons, scan
<1>11. QED
  BY <1>1, <1>2, <1>3, <1>4, <1>5, <1>6, <1>7, <1>8, <1>9, <1>10 DEF BusInv

LEMMA BusReadLow == ASSUME BusInv, ReadLow PROVE BusInv'
<1> USE DEF Resting, Writing, Scanning, Off
<1>p. /\ pc = "readlow" /\ pc' = "sample" /\ CLK' = 0
      /\ UNCHANGED <<call, buttons, frame, byte, bit, scan, STB, DIO, OEA>>
      /\ UNCHANGED <<ram, mode, phase, shift, bits, addr>>
  BY DEF ReadLow, Go, ClkFalls
<1>a. /\ bit \in 0 .. 7 /\ received \in 0 .. 3 /\ reading = 8 * received + bit
      /\ pc = "readlow" /\ pc' = "sample" /\ STB = 0 /\ CLK = 1
  BY DEF BusInv, BTypes, MoveTypes, CursorInv, ScanInv, ReadLow, Go
<1>b. reading < 32 /\ reading + 1 \in 0 .. 33
  BY <1>a
<1>c. out' = KeyBit(reading) /\ reading' = reading + 1 /\ dat' = dat \div 2
  BY <1>a, <1>b DEF ReadLow, ClkFalls
<1>d. dat \in 0 .. 255
  BY DEF BusInv, BTypes, MoveTypes
<1>e. dat' \in 0 .. 127 /\ dat' \in 0 .. 255 /\ dat' < 128
  BY <1>c, <1>d
<1>f. KeyBit(reading) \in {0, 1}
  BY DEF KeyBit
<1>g. UNCHANGED <<call, buttons, scan, bit>>
  BY DEF ReadLow, Go
<1>1. BTypes'
  <2>1. CallTypes'
    BY <1>p DEF BusInv, BTypes, CallTypes, call
  <2>2. MoveTypes'
    BY <1>p, <1>e DEF BusInv, BTypes, MoveTypes, scan
  <2>3. PinTypes'
    BY <1>p, <1>c, <1>f DEF BusInv, BTypes, PinTypes
  <2>4. ChipTypes'
    BY <1>p, <1>b, <1>c DEF BusInv, BTypes, ChipTypes
  <2>5. ButtonTypes'
    BY <1>p DEF BusInv, BTypes, ButtonTypes, buttons
  <2>6. QED
    BY <2>1, <2>2, <2>3, <2>4, <2>5 DEF BTypes
<1>2. FramesInv'
  BY <1>p, FramesKept DEF BusInv, call
<1>3. CursorInv'
  BY <1>p DEF BusInv, CursorInv, call, scan
<1>4. RestInv'
  BY <1>p DEF RestInv
<1>5. SendInv'
  BY <1>p DEF SendInv
<1>6. ScanInv'
  BY <1>a, <1>c, <1>e DEF BusInv, ScanInv, ReadLow, Go, call, scan, ClkFalls
<1>7. ModeInv'
  BY <1>p DEF BusInv, ModeInv, call
<1>8. AddrInv'
  BY <1>p DEF AddrInv
<1>9. RamInv'
  <2>1. UNCHANGED <<ram, want, frames>>
    BY <1>p DEF call
  <2>2. ASSUME NEW f \in 2 .. Len(frames), NEW j \in 2 .. Len(frames[f]), Ahead(f, j)
        PROVE  Ahead(f, j)'
    BY <2>2, <1>p DEF Ahead
  <2>3. QED
    BY <2>1, <2>2, RamKept DEF BusInv
<1>10. KeysInv'
  <2>1. SeenBits(dat, bit, 8 - bit)
    BY <1>a DEF BusInv, KeysInv
  <2>2. SeenBits(dat', bit, 7 - bit)
    BY <1>a, <1>c, <1>d, <2>1, ShiftSeen
  <2>3. bit \in {0, 4} => Seen(received + bit, KeyBit(reading))
    BY <1>a, KeySeen DEF BusInv, KeysInv
  <2>4. SeenBits(dat, bit, 7 - bit)' /\ (bit \in {0, 4} => Seen(received + bit, out))'
    BY <1>c, <1>g, <2>2, <2>3 DEF SeenBits, Seen, buttons, scan
  <2>5. QED
    BY <1>a, <1>g, <2>4 DEF BusInv, KeysInv, scan, buttons
<1>11. QED
  BY <1>1, <1>2, <1>3, <1>4, <1>5, <1>6, <1>7, <1>8, <1>9, <1>10 DEF BusInv

LEMMA BusSample == ASSUME BusInv, Sample PROVE BusInv'
<1> USE DEF Resting, Writing, Scanning, Off
<1>p. /\ pc = "sample" /\ pc' = "readhigh"
      /\ UNCHANGED <<call, buttons, frame, byte, bit, scan, pins, chip>>
  BY DEF Sample, Go
<1>a. /\ bit \in 0 .. 7 /\ received \in 0 .. 3 /\ out \in {0, 1} /\ dat \in 0 .. 127
      /\ OEA = 0 /\ pc = "sample" /\ pc' = "readhigh"
  <2>1. bit \in 0 .. 7 /\ dat < 128 /\ OEA = 0
    BY <1>p DEF BusInv, ScanInv
  <2>2. received < 4
    BY <1>p DEF BusInv, CursorInv
  <2>3. dat \in 0 .. 255 /\ received \in 0 .. 4
    BY DEF BusInv, BTypes, MoveTypes
  <2>4. out \in {0, 1}
    BY DEF BusInv, BTypes, PinTypes
  <2>5. dat \in 0 .. 127 /\ received \in 0 .. 3
    BY <2>1, <2>2, <2>3
  <2>6. QED
    BY <1>p, <2>1, <2>4, <2>5
<1>b. Level = out
  BY <1>a DEF Level
<1>c. dat' = dat + 128 * out /\ dat' \in 0 .. 255
  BY <1>a, <1>b DEF Sample
<1>d. UNCHANGED <<call, buttons, scan, bit>>
  BY DEF Sample, Go
<1>1. BTypes'
  <2>1. CallTypes'
    BY <1>p DEF BusInv, BTypes, CallTypes, call
  <2>2. MoveTypes'
    BY <1>p, <1>c DEF BusInv, BTypes, MoveTypes, scan
  <2>3. PinTypes'
    BY <1>p DEF BusInv, BTypes, PinTypes, pins, chip
  <2>4. ChipTypes'
    BY <1>p DEF BusInv, BTypes, ChipTypes, chip
  <2>5. ButtonTypes'
    BY <1>p DEF BusInv, BTypes, ButtonTypes, buttons
  <2>6. QED
    BY <2>1, <2>2, <2>3, <2>4, <2>5 DEF BTypes
<1>2. FramesInv'
  BY <1>p, FramesKept DEF BusInv, call
<1>3. CursorInv'
  BY <1>p DEF BusInv, CursorInv, call, scan
<1>4. RestInv'
  BY <1>p DEF RestInv
<1>5. SendInv'
  BY <1>p DEF SendInv
<1>6. ScanInv'
  BY <1>p DEF BusInv, ScanInv, call, scan, pins, chip
<1>7. ModeInv'
  BY <1>p DEF BusInv, ModeInv, call, chip
<1>8. AddrInv'
  BY <1>p DEF AddrInv
<1>9. RamInv'
  <2>1. UNCHANGED <<ram, want, frames>>
    BY <1>p DEF call, chip
  <2>2. ASSUME NEW f \in 2 .. Len(frames), NEW j \in 2 .. Len(frames[f]), Ahead(f, j)
        PROVE  Ahead(f, j)'
    BY <2>2, <1>p DEF Ahead
  <2>3. QED
    BY <2>1, <2>2, RamKept DEF BusInv
<1>10. KeysInv'
  <2>1. SeenBits(dat, bit, 7 - bit) /\ (bit \in {0, 4} => Seen(received + bit, out))
    BY <1>a DEF BusInv, KeysInv
  <2>2. SeenBits(dat', bit + 1, 7 - bit)
    BY <1>a, <1>c, <2>1, SampleSeen
  <2>3. SeenBits(dat, bit + 1, 7 - bit)'
    BY <1>d, <2>2 DEF SeenBits, Seen, buttons, scan
  <2>4. QED
    BY <1>a, <1>d, <2>3 DEF BusInv, KeysInv, scan, buttons
<1>11. QED
  BY <1>1, <1>2, <1>3, <1>4, <1>5, <1>6, <1>7, <1>8, <1>9, <1>10 DEF BusInv

LEMMA BusReadHigh == ASSUME BusInv, ReadHigh PROVE BusInv'
<1> USE DEF Resting, Writing, Scanning, Off
<1>a. /\ bit \in 0 .. 7 /\ received \in 0 .. 3 /\ reading = 8 * received + bit + 1
      /\ pc = "readhigh" /\ pc' \in {"readlow", "output"}
  <2>1. pc = "readhigh" /\ pc' \in {"readlow", "output"}
    BY DEF ReadHigh, Go
  <2>2. bit \in 0 .. 7 /\ reading = 8 * received + bit + 1
    BY <2>1 DEF BusInv, ScanInv
  <2>3. received < 4 /\ received \in 0 .. 4
    BY <2>1 DEF BusInv, CursorInv, BTypes, MoveTypes
  <2>4. received \in 0 .. 3
    BY <2>3
  <2>5. QED
    BY <2>1, <2>2, <2>4
<1>b. reading # Off
  BY <1>a
<1>c. UNCHANGED <<chip, call, buttons, scan, dat, frame>> /\ bit' = bit + 1 /\ bit' \in 0 .. 8 /\ CLK' = 1
  BY <1>a, <1>b DEF ReadHigh, Go, ClkRises
<1>d. pc' = (IF bit < 7 THEN "readlow" ELSE "output") /\ UNCHANGED <<byte, STB, DIO, OEA>>
  BY DEF ReadHigh, Go, ClkRises
<1>1. BTypes'
  <2>1. CallTypes'
    BY <1>c, <1>d DEF BusInv, BTypes, CallTypes, call
  <2>2. MoveTypes'
    BY <1>c, <1>d DEF BusInv, BTypes, MoveTypes, scan
  <2>3. PinTypes'
    BY <1>c, <1>d DEF BusInv, BTypes, PinTypes, chip
  <2>4. ChipTypes'
    BY <1>c DEF BusInv, BTypes, ChipTypes, chip
  <2>5. ButtonTypes'
    BY <1>c DEF BusInv, BTypes, ButtonTypes, buttons
  <2>6. QED
    BY <2>1, <2>2, <2>3, <2>4, <2>5 DEF BTypes
<1>2. FramesInv'
  BY <1>c, FramesKept DEF BusInv, call
<1>3. CursorInv'
  BY <1>a, <1>c, <1>d DEF BusInv, CursorInv, call, scan
<1>4. RestInv'
  BY <1>a DEF RestInv
<1>5. SendInv'
  BY <1>a DEF SendInv
<1>6. ScanInv'
  BY <1>a, <1>c, <1>d DEF BusInv, ScanInv, call, scan, chip
<1>7. ModeInv'
  BY <1>a, <1>c DEF BusInv, ModeInv, chip, call
<1>8. AddrInv'
  BY <1>a DEF AddrInv
<1>9. RamInv'
  <2>1. UNCHANGED <<ram, want, frames>>
    BY <1>c DEF call, chip
  <2>2. ASSUME NEW f \in 2 .. Len(frames), NEW j \in 2 .. Len(frames[f]), Ahead(f, j)
        PROVE  Ahead(f, j)'
    BY <2>2, <1>a, <1>c DEF Ahead
  <2>3. QED
    BY <2>1, <2>2, RamKept DEF BusInv
<1>10. KeysInv'
  <2>1. SeenBits(dat, bit + 1, 7 - bit)
    BY <1>a DEF BusInv, KeysInv
  <2>2. 8 - bit' = 7 - bit
    BY <1>a, <1>c
  <2>3. SeenBits(dat, bit, 8 - bit)'
    BY <1>c, <2>1, <2>2 DEF SeenBits, Seen, buttons, scan
  <2>4. QED
    BY <1>a, <1>c, <2>3 DEF BusInv, KeysInv, scan, buttons
<1>11. QED
  BY <1>1, <1>2, <1>3, <1>4, <1>5, <1>6, <1>7, <1>8, <1>9, <1>10 DEF BusInv

LEMMA BusReadOutput == ASSUME BusInv, ReadOutput PROVE BusInv'
<1> USE DEF Resting, Writing, Scanning, Off
<1>p. /\ pc = "output" /\ pc' = "keep" /\ OEA' = 1
      /\ UNCHANGED <<call, buttons, place, scan, STB, CLK, DIO, chip>>
  BY DEF ReadOutput, Go
<1>1. BTypes'
  <2>1. CallTypes'
    BY <1>p DEF BusInv, BTypes, CallTypes, call, place
  <2>2. MoveTypes'
    BY <1>p DEF BusInv, BTypes, MoveTypes, place, scan
  <2>3. PinTypes'
    BY <1>p DEF BusInv, BTypes, PinTypes, chip
  <2>4. ChipTypes'
    BY <1>p DEF BusInv, BTypes, ChipTypes, chip
  <2>5. ButtonTypes'
    BY <1>p DEF BusInv, BTypes, ButtonTypes, buttons
  <2>6. QED
    BY <2>1, <2>2, <2>3, <2>4, <2>5 DEF BTypes
<1>2. FramesInv'
  BY <1>p, FramesKept DEF BusInv, call
<1>3. CursorInv'
  BY <1>p DEF BusInv, CursorInv, call, place, scan
<1>4. RestInv'
  BY <1>p DEF RestInv
<1>5. SendInv'
  BY <1>p DEF SendInv
<1>6. ScanInv'
  BY <1>p DEF BusInv, ScanInv, call, place, scan, chip
<1>7. ModeInv'
  BY <1>p DEF BusInv, ModeInv, call, place, chip
<1>8. AddrInv'
  BY <1>p DEF AddrInv
<1>9. RamInv'
  <2>1. UNCHANGED <<ram, want, frames>>
    BY <1>p DEF call, chip
  <2>2. ASSUME NEW f \in 2 .. Len(frames), NEW j \in 2 .. Len(frames[f]), Ahead(f, j)
        PROVE  Ahead(f, j)'
    BY <2>2, <1>p DEF Ahead, place
  <2>3. QED
    BY <2>1, <2>2, RamKept DEF BusInv
<1>10. KeysInv'
  BY <1>p DEF BusInv, KeysInv, SeenBits, Seen, buttons, scan, place
<1>11. QED
  BY <1>1, <1>2, <1>3, <1>4, <1>5, <1>6, <1>7, <1>8, <1>9, <1>10 DEF BusInv

LEMMA BusKeep == ASSUME BusInv, Keep PROVE BusInv'
<1> USE DEF Resting, Writing, Scanning, Off
<1>p. /\ pc = "keep" /\ pc' = "next" /\ dat' = 0
      /\ UNCHANGED <<call, buttons, frame, byte, bit, pins, chip>>
  BY DEF Keep, Go
<1>a. /\ received \in 0 .. 3 /\ bit = 8 /\ pc = "keep" /\ pc' = "next"
      /\ received' = received + 1 /\ received' \in 0 .. 4
  <2>1. received < 4 /\ received \in 0 .. 4
    BY <1>p DEF BusInv, BTypes, MoveTypes, CursorInv
  <2>2. bit = 8
    BY <1>p DEF BusInv, ScanInv
  <2>3. received' = received + 1
    BY DEF Keep
  <2>4. received \in 0 .. 3 /\ received' \in 0 .. 4
    BY <2>1, <2>3
  <2>5. QED
    BY <1>p, <2>2, <2>3, <2>4
<1>b. /\ op = "buttons" /\ frame = 1 /\ byte = 1 /\ Len(frames) = 1 /\ Len(frames[1]) = 1
  BY <1>a DEF BusInv, CursorInv, FramesInv
<1>c. keys' = keys \cup {b \in {received} : Bit(dat, 0) = 1}
                    \cup {b \in {received + 4} : Bit(dat, 4) = 1}
  BY DEF Keep
<1>d. received + 4 \in 0 .. 7 /\ received \in 0 .. 7
  BY <1>a
<1>1. BTypes'
  <2>1. keys' \subseteq 0 .. 7
    <3>1. keys \subseteq 0 .. 7
      BY DEF BusInv, BTypes, MoveTypes
    <3>2. QED
      BY <1>c, <1>d, <3>1
  <2>2. CallTypes'
    BY <1>p DEF BusInv, BTypes, CallTypes, call
  <2>3. MoveTypes'
    BY <2>1, <1>p, <1>a DEF MoveTypes
  <2>4. PinTypes'
    BY <1>p DEF BusInv, BTypes, PinTypes, pins, chip
  <2>5. ChipTypes'
    BY <1>p DEF BusInv, BTypes, ChipTypes, chip
  <2>6. ButtonTypes'
    BY <1>p DEF BusInv, BTypes, ButtonTypes, buttons
  <2>7. QED
    BY <2>2, <2>3, <2>4, <2>5, <2>6 DEF BTypes
<1>2. FramesInv'
  BY <1>p, FramesKept DEF BusInv, call
<1>3. CursorInv'
  BY <1>p, <1>a, <1>b DEF BusInv, CursorInv, call
<1>4. RestInv'
  BY <1>p DEF RestInv
<1>5. SendInv'
  BY <1>p DEF SendInv
<1>6. ScanInv'
  <2>1. reading = 8 * received' /\ OEA = 1 /\ STB = 0 /\ DIO = 0 /\ CLK = 1
    BY <1>p, <1>a DEF BusInv, ScanInv
  <2>2. QED
    BY <1>p, <1>b, <2>1 DEF BusInv, ScanInv, call, pins, chip
<1>7. ModeInv'
  BY <1>p DEF BusInv, ModeInv, call, chip
<1>8. AddrInv'
  BY <1>a, <1>b DEF AddrInv, Keep, Go
<1>9. RamInv'
  <2>1. UNCHANGED <<ram, want, frames>>
    BY <1>p DEF call, chip
  <2>2. ASSUME NEW f \in 2 .. Len(frames), NEW j \in 2 .. Len(frames[f]), Ahead(f, j)
        PROVE  Ahead(f, j)'
    BY <2>2, <1>p DEF Ahead
  <2>3. QED
    BY <2>1, <2>2, RamKept DEF BusInv
<1>10. KeysInv'
  <2>1. SeenBits(dat, 8, 0)
    BY <1>a DEF BusInv, KeysInv
  <2>2. Seen(received, Bit(dat, 0)) /\ Seen(received + 4, Bit(dat, 4))
    BY <2>1, <1>a DEF SeenBits
  <2>3. Bit(dat, 0) \in {0, 1} /\ Bit(dat, 4) \in {0, 1}
    BY BitValue DEF BusInv, BTypes, MoveTypes
  <2>4. keys' \subseteq was
    BY <1>c, <2>2 DEF BusInv, KeysInv, Seen
  <2>5. ASSUME NEW n \in 0 .. 3, n < received'
        PROVE  (n \in keys' \/ n \in wasNot) /\ (n + 4 \in keys' \/ n + 4 \in wasNot)
    <3>1. CASE n = received
      BY <3>1, <1>c, <2>2, <2>3 DEF Seen
    <3>2. CASE n < received
      BY <3>2, <1>c DEF BusInv, KeysInv
    <3>3. QED
      BY <1>a, <2>5, <3>1, <3>2
  <2>6. UNCHANGED buttons
    BY DEF Keep, Go
  <2>7. QED
    BY <1>a, <2>4, <2>5, <2>6 DEF BusInv, KeysInv, buttons
<1>11. QED
  BY <1>1, <1>2, <1>3, <1>4, <1>5, <1>6, <1>7, <1>8, <1>9, <1>10 DEF BusInv

\* The line carries the bit of the driver while no bit of the chip is on it.
LEMMA BitOnLine == ASSUME BusInv, pc = "high" PROVE Level = dat % 2
  BY DEF Level, BusInv, SendInv, Writing

\* WriteHigh before the last bit of a byte.
LEMMA BusWriteBit == ASSUME BusInv, WriteHigh, bit < 7 PROVE BusInv'
<1> USE DEF Resting, Writing, Scanning, Off
<1>a. /\ bit \in 0 .. 6 /\ bits = bit /\ pc = "high" /\ pc' = "low" /\ STB = 0 /\ CLK = 0
      /\ reading = Off /\ dat \in 0 .. 255 /\ shift \in 0 .. 127
      /\ Sent(dat, bit, shift, frames[frame][byte])
      /\ frame \in 1 .. Len(frames) /\ byte \in 1 .. Len(frames[frame])
  BY DEF BusInv, BTypes, MoveTypes, ChipTypes, CursorInv, SendInv, WriteHigh, Go
<1>n. dat \in Nat /\ shift \in Nat
  BY <1>a
<1>b. /\ UNCHANGED <<call, buttons, frame, byte, scan, ram, mode, phase, addr, reading, out, STB, DIO, OEA>>
      /\ CLK' = 1 /\ bits' = bits + 1 /\ shift' = shift + 2 ^ bit * (dat % 2)
      /\ bit' = bit + 1 /\ dat' = dat \div 2
  BY <1>a, BitOnLine DEF WriteHigh, Go, ClkRises
<1>c. frames[frame][byte] \in 0 .. 255
  BY <1>a, ByteRange DEF BusInv
<1>d. Sent(dat', bit', shift', frames'[frame'][byte'])
  <2>1. Sent(dat \div 2, bit + 1, shift + 2 ^ bit * (dat % 2), frames[frame][byte])
    BY <1>a, <1>n, <1>c, SentNext
  <2>2. QED
    BY <2>1, <1>b DEF call
<1>e. shift' \in 0 .. 127
  <2>1. dat % 2 \in 0 .. 1
    BY <1>n
  <2>2. shift + 2 ^ bit * (dat % 2) \in 0 .. 127
    BY <2>1, <1>a, <1>n, <1>c, SentRange
  <2>3. QED
    BY <2>2, <1>b
<1>f. dat' \in 0 .. 255 /\ bit' \in 0 .. 7 /\ bit' \in 0 .. 8 /\ bits' \in 0 .. 7 /\ bits' = bit'
  <2>1. dat' = dat \div 2 /\ bit' = bit + 1 /\ bits' = bit + 1 /\ bit \in 0 .. 6 /\ dat \in 0 .. 255
    BY <1>a, <1>b
  <2>2. QED
    BY <2>1
<1>1. BTypes'
  <2>1. CallTypes'
    BY <1>b DEF BusInv, BTypes, CallTypes, call
  <2>2. MoveTypes'
    BY <1>a, <1>b, <1>f DEF BusInv, BTypes, MoveTypes, scan
  <2>3. PinTypes'
    BY <1>b DEF BusInv, BTypes, PinTypes
  <2>4. ChipTypes'
    BY <1>b, <1>e, <1>f DEF BusInv, BTypes, ChipTypes
  <2>5. ButtonTypes'
    BY <1>b DEF BusInv, BTypes, ButtonTypes, buttons
  <2>6. QED
    BY <2>1, <2>2, <2>3, <2>4, <2>5 DEF BTypes
<1>2. FramesInv'
  BY <1>b DEF BusInv, FramesInv, Target, call
<1>3. CursorInv'
  BY <1>a, <1>b DEF BusInv, CursorInv, call, scan
<1>4. RestInv' /\ ScanInv'
  BY <1>a DEF RestInv, ScanInv
<1>5. SendInv'
  BY <1>a, <1>b, <1>d, <1>f DEF BusInv, SendInv
<1>6. ModeInv' /\ AddrInv'
  BY <1>a, <1>b DEF BusInv, ModeInv, AddrInv, Target, call
<1>7. RamInv'
  <2>1. ASSUME NEW f \in 2 .. Len(frames), NEW j \in 2 .. Len(frames[f]), Ahead(f, j)
        PROVE  Ahead(f, j)'
    BY <2>1, <1>a, <1>b DEF Ahead
  <2>2. QED
    BY <2>1, <1>b, RamKept DEF BusInv, call
<1>8. KeysInv'
  BY <1>a, <1>b DEF BusInv, KeysInv, buttons, scan
<1>9. QED
  BY <1>1, <1>2, <1>3, <1>4, <1>5, <1>6, <1>7, <1>8 DEF BusInv

\* The eighth bit of a byte: the chip takes the byte.
LEMMA LastBit ==
  ASSUME BusInv, WriteHigh, bit = 7
  PROVE  /\ pc = "high" /\ pc' = "next"
         /\ frame \in 1 .. Len(frames) /\ byte \in 1 .. Len(frames[frame]) /\ byte \in Nat \ {0}
         /\ phase = IF byte = 1 THEN "command" ELSE "data"
         /\ UNCHANGED <<call, buttons, frame, byte, scan, out, STB, DIO, OEA>>
         /\ received = 0 /\ STB = 0 /\ OEA = 1 /\ reading = Off /\ out = 1
         /\ CLK' = 1 /\ bits' = 0 /\ shift' = 0 /\ bit' = 8
         /\ dat \in 0 .. 255 /\ dat' = dat \div 2 /\ dat' \in 0 .. 255 /\ DIO = dat % 2
         /\ frames[frame][byte] \in 0 .. 255
         /\ Sent(dat, 7, shift, frames[frame][byte])
         /\ \/ byte = 1 /\ TakeCommand(frames[frame][byte])
            \/ byte # 1 /\ TakeData(frames[frame][byte])
<1> USE DEF Writing, Scanning
<1>1. /\ bits = 7 /\ pc = "high" /\ STB = 0 /\ CLK = 0 /\ OEA = 1 /\ reading = Off /\ out = 1
      /\ dat \in 0 .. 255 /\ shift \in 0 .. 127 /\ DIO = dat % 2
      /\ Sent(dat, 7, shift, frames[frame][byte])
      /\ phase = IF byte = 1 THEN "command" ELSE "data"
      /\ frame \in 1 .. Len(frames) /\ byte \in 1 .. Len(frames[frame]) /\ byte \in Nat \ {0}
      /\ received = 0
  BY DEF BusInv, BTypes, CallTypes, MoveTypes, ChipTypes, CursorInv, SendInv, WriteHigh, Go
<1>2. frames[frame][byte] \in 0 .. 255
  BY <1>1, ByteRange DEF BusInv
<1>3. shift + 128 * Level = frames[frame][byte]
  <2>1. dat \in 0 .. 255 /\ shift \in 0 .. 127
    BY <1>1
  <2>2. dat \in Nat /\ shift \in Nat
    BY <2>1
  <2>3. QED
    BY <1>1, <1>2, <2>2, SentAll, BitOnLine
<1>4. /\ UNCHANGED <<call, buttons, frame, byte, scan, out, STB, DIO, OEA>>
      /\ pc' = "next" /\ CLK' = 1 /\ bits' = 0 /\ shift' = 0
      /\ bit' = bit + 1 /\ dat' = dat \div 2
      /\ \/ phase = "command" /\ TakeCommand(shift + 128 * Level)
         \/ phase = "data" /\ TakeData(shift + 128 * Level)
  BY <1>1 DEF WriteHigh, Go, ClkRises
<1>5. dat' \in 0 .. 255 /\ bit' = 8
  <2>1. dat \in 0 .. 255 /\ dat' = dat \div 2 /\ bit' = 7 + 1
    BY <1>1, <1>4
  <2>2. QED
    BY <2>1
<1>6. \/ byte = 1 /\ TakeCommand(frames[frame][byte])
      \/ byte # 1 /\ TakeData(frames[frame][byte])
  BY <1>1, <1>3, <1>4
<1>7. QED
  BY <1>1, <1>2, <1>4, <1>5, <1>6

\* What the bits of the commands say.
LEMMA Wraps == \A n \in 0 .. 15 : (n + 1) % 16 \in 0 .. 15
  OBVIOUS

LEMMA CommandBits ==
  /\ Bit(64, 1) = 0 /\ Bit(66, 1) = 1 /\ Bit(68, 1) = 0 /\ Bit(64, 2) = 0 /\ Bit(68, 2) = 1
  /\ \A c \in {64, 66, 68} : c \div 64 = 1 /\ c \in 64 .. 127
  /\ \A c \in 128 .. 255 : c \div 64 # 1
  /\ \A c \in 192 .. 255 : c \div 64 = 3
  /\ \A c \in 0 .. 255 : c % 16 \in 0 .. 15 /\ (c \div 64 = 1 => c \in 64 .. 127)
  BY DEF Bit

LEMMA BusWriteCommand == ASSUME BusInv, WriteHigh, bit = 7, byte = 1 PROVE BusInv'
<1> USE DEF Resting, Writing, Scanning, Off
<1> DEFINE c == frames[frame][1]
<1>a. /\ pc = "high" /\ pc' = "next" /\ frame \in 1 .. Len(frames)
      /\ UNCHANGED <<call, buttons, frame, byte, scan, out, STB, DIO, OEA, ram>>
      /\ received = 0 /\ STB = 0 /\ OEA = 1 /\ reading = Off /\ out = 1
      /\ CLK' = 1 /\ bits' = 0 /\ shift' = 0 /\ bit' = 8 /\ dat' \in 0 .. 255
      /\ c \in 0 .. 255 /\ phase' = "data"
      /\ mode' = (IF c \div 64 = 1 THEN c ELSE mode)
      /\ addr' = (IF c \div 64 = 3 THEN c % 16 ELSE addr)
      /\ reading' = IF c \div 64 = 1 /\ Bit(c, 1) = 1 THEN 0 ELSE reading
  BY LastBit DEF TakeCommand
<1> HIDE DEF c
<1>b. frame = 1 => /\ mode' = frames[1][1]
                   /\ reading' = IF op = "buttons" THEN 0 ELSE Off
  <2>1. SUFFICES ASSUME frame = 1 PROVE mode' = c /\ reading' = IF op = "buttons" THEN 0 ELSE Off
    BY DEF c
  <2>2. c \in {64, 66, 68} /\ (op = "buttons" => c = 66) /\ (op # "buttons" => c \in {64, 68})
    BY <2>1 DEF c, BusInv, FramesInv
  <2>3. QED
    BY <1>a, <2>2, CommandBits
<1>c. frame # 1 => /\ mode' = mode /\ reading' = Off /\ op # "buttons" /\ frame >= 2
                   /\ Len(frames[frame]) > 1 => addr' = Target(frame, 2)
  <2>1. SUFFICES ASSUME frame # 1
                 PROVE  /\ mode' = mode /\ reading' = Off /\ op # "buttons" /\ frame >= 2
                        /\ Len(frames[frame]) > 1 => addr' = Target(frame, 2)
    OBVIOUS
  <2>2. frame \in 2 .. Len(frames) /\ Len(frames) # 1 /\ frame >= 2
    BY <1>a, <2>1 DEF BusInv, FramesInv
  <2>3. op # "buttons" /\ c \in 128 .. 255 /\ (Len(frames[frame]) > 1 => c >= 192)
    BY <2>2 DEF c, BusInv, FramesInv
  <2>4. mode' = mode /\ reading' = Off
    <3>1. c \div 64 # 1
      BY <2>3, CommandBits
    <3>2. QED
      BY <1>a, <3>1
  <2>5. Target(frame, 2) = c % 16
    <3>1. frame \in 1 .. Len(frames) /\ BTypes /\ FramesInv /\ 2 \in Nat /\ 2 >= 2
      BY <1>a DEF BusInv
    <3>2. QED
      BY <3>1, TargetRange DEF c
  <2>6. ASSUME c >= 192 PROVE addr' = c % 16
    <3>1. c \in 192 .. 255
      BY <2>3, <2>6
    <3>2. c \div 64 = 3
      BY <3>1, CommandBits
    <3>3. QED
      BY <1>a, <3>2
  <2>7. QED
    BY <2>2, <2>3, <2>4, <2>5, <2>6
<1>d. op = "buttons" => DIO = 0
  <2>1. SUFFICES ASSUME op = "buttons" PROVE DIO = 0
    OBVIOUS
  <2>2. frame = 1
    BY <2>1, <1>c
  <2>3. frames[frame][1] = 66
    BY <2>1, <2>2 DEF BusInv, FramesInv
  <2>4. dat \in 0 .. 255 /\ DIO = dat % 2 /\ dat * 2 ^ 7 + shift = 66 /\ shift \in 0 .. 127
    <3>1. dat \in 0 .. 255 /\ DIO = dat % 2 /\ Sent(dat, 7, shift, frames[frame][byte])
      BY LastBit
    <3>2. byte = 1
      OBVIOUS
    <3>3. shift \in 0 .. 127
      BY DEF BusInv, BTypes, ChipTypes
    <3>4. QED
      BY <2>3, <3>1, <3>2, <3>3 DEF Sent
  <2>5. dat = 0
    BY <2>4
  <2>6. QED
    BY <2>4, <2>5
<1>1. BTypes'
  <2>1. mode' \in 64 .. 127 /\ addr' \in 0 .. 15 /\ reading' \in 0 .. 33
    BY <1>a DEF BusInv, BTypes, ChipTypes
  <2>2. CallTypes'
    BY <1>a DEF BusInv, BTypes, CallTypes, call
  <2>3. MoveTypes'
    BY <1>a DEF BusInv, BTypes, MoveTypes, scan
  <2>4. PinTypes'
    BY <1>a DEF BusInv, BTypes, PinTypes
  <2>5. ChipTypes'
    BY <1>a DEF BusInv, BTypes, ChipTypes
  <2>6. ButtonTypes'
    BY <1>a DEF BusInv, BTypes, ButtonTypes, buttons
  <2>7. QED
    BY <2>2, <2>3, <2>4, <2>5, <2>6 DEF BTypes
<1>2. FramesInv'
  BY <1>a DEF BusInv, FramesInv, Target, call
<1>3. CursorInv'
  <2>1. byte' \in 1 .. Len(frames[frame])
    BY <1>a, FrameLength DEF BusInv
  <2>2. QED
    BY <1>a, <2>1 DEF BusInv, CursorInv, call, scan
<1>4. RestInv' /\ SendInv'
  BY <1>a DEF RestInv, SendInv
<1>5. ScanInv'
  BY <1>a, <1>b, <1>c, <1>d DEF ScanInv, call, scan
<1>6. ModeInv'
  BY <1>a, <1>b, <1>c DEF BusInv, ModeInv, call
<1>7. AddrInv'
  <2>1. frame >= 2 /\ 1 < Len(frames[frame]) => addr' = Target(frame, 2)
    BY <1>c
  <2>2. Target(frame, byte + 1)' = Target(frame, 2)
    BY <1>a DEF Target, call
  <2>3. QED
    BY <1>a, <2>1, <2>2 DEF AddrInv, call
<1>8. RamInv'
  <2>1. ASSUME NEW f \in 2 .. Len(frames), NEW j \in 2 .. Len(frames[f]), Ahead(f, j)
        PROVE  Ahead(f, j)'
    <3>1. j > 1
      BY FrameLength DEF BusInv
    <3>2. QED
      BY <2>1, <3>1, <1>a DEF Ahead
  <2>2. QED
    BY <2>1, <1>a, RamKept DEF BusInv, call
<1>9. KeysInv'
  BY <1>a DEF BusInv, KeysInv, buttons, scan
<1>10. QED
  BY <1>1, <1>2, <1>3, <1>4, <1>5, <1>6, <1>7, <1>8, <1>9 DEF BusInv

\* A register is written: it gets what it should hold.
LEMMA ByteTaken ==
  ASSUME BusInv, WriteHigh, bit = 7, byte # 1
  PROVE  /\ frame \in 2 .. Len(frames) /\ byte \in 2 .. Len(frames[frame]) /\ op # "buttons"
         /\ addr = Target(frame, byte) /\ addr \in 0 .. 15
         /\ ram' = [ram EXCEPT ![addr] = want[addr]]
         /\ addr' \in 0 .. 15
         /\ byte < Len(frames[frame]) => addr' = Target(frame, byte + 1)
         /\ UNCHANGED <<mode, phase, reading>>
<1> USE DEF Writing
<1>1. /\ frame \in 1 .. Len(frames) /\ byte \in 1 .. Len(frames[frame]) /\ byte \in Nat \ {0}
      /\ TakeData(frames[frame][byte]) /\ pc = "high"
  BY LastBit
<1>2. byte \in 2 .. Len(frames[frame]) /\ byte >= 2
  BY <1>1, FrameLength DEF BusInv
<1>3. frame # 1
  BY <1>1, OneOnly DEF BusInv, FramesInv
<1>4. frame \in 2 .. Len(frames) /\ frame >= 2
  BY <1>1, <1>3 DEF BusInv, FramesInv
<1>5. op # "buttons" /\ frames[1][1] \in {64, 68}
  BY <1>1, <1>3, OneOnly DEF BusInv, FramesInv
<1>6. mode = frames[1][1]
  BY <1>4 DEF BusInv, ModeInv
<1>7. addr = Target(frame, byte) /\ addr \in 0 .. 15
  BY <1>1 DEF BusInv, AddrInv, BTypes, ChipTypes
<1>8. frames[frame][byte] = want[addr]
  BY <1>2, <1>4, <1>7 DEF BusInv, FramesInv
<1>9. ram' = [ram EXCEPT ![addr] = want[addr]]
  BY <1>1, <1>5, <1>6, <1>8, CommandBits DEF TakeData
<1>10. addr' \in 0 .. 15
  BY <1>1, <1>7, Wraps DEF TakeData
<1>11. ASSUME byte < Len(frames[frame]) PROVE addr' = Target(frame, byte + 1)
  <2>1. Len(frames[frame]) > 2
    BY <1>2, <1>11, FrameLength, <1>1 DEF BusInv
  <2>2. mode = 64
    BY <2>1, <1>4, <1>6 DEF BusInv, FramesInv
  <2>3. addr' = (Target(frame, byte) + 1) % 16
    BY <2>2, <1>1, <1>7, CommandBits DEF TakeData
  <2>4. QED
    BY <2>3, <1>1, <1>2, TargetRange DEF BusInv
<1>12. UNCHANGED <<mode, phase, reading>>
  BY <1>1 DEF TakeData
<1>13. QED
  BY <1>2, <1>4, <1>5, <1>7, <1>9, <1>10, <1>11, <1>12

LEMMA BusWriteRegister == ASSUME BusInv, WriteHigh, bit = 7, byte # 1 PROVE BusInv'
<1> USE DEF Resting, Writing, Scanning, Off
<1>a. /\ pc = "high" /\ pc' = "next" /\ frame \in 2 .. Len(frames) /\ byte \in 2 .. Len(frames[frame])
      /\ UNCHANGED <<call, buttons, frame, byte, scan, out, STB, DIO, OEA, mode, phase, reading>>
      /\ op # "buttons" /\ phase = "data"
      /\ received = 0 /\ STB = 0 /\ OEA = 1 /\ reading = Off /\ out = 1
      /\ CLK' = 1 /\ bits' = 0 /\ shift' = 0 /\ bit' = 8 /\ dat' \in 0 .. 255
  BY LastBit, ByteTaken
<1>b. frame >= 2 /\ frame \in Nat /\ byte \in Nat
  BY <1>a DEF ButtonTypes
<1>c. addr = Target(frame, byte) /\ addr \in 0 .. 15
      /\ ram' = [ram EXCEPT ![addr] = want[addr]] /\ want[addr] \in 0 .. 255 /\ addr' \in 0 .. 15
  <2>1. /\ addr = Target(frame, byte) /\ addr \in 0 .. 15
        /\ ram' = [ram EXCEPT ![addr] = want[addr]] /\ addr' \in 0 .. 15
    BY ByteTaken
  <2>2. want \in [0 .. 15 -> 0 .. 255]
    BY DEF BusInv, BTypes, CallTypes
  <2>3. want[addr] \in 0 .. 255
    BY <2>1, <2>2
  <2>4. QED
    BY <2>1, <2>3
<1>1. BTypes'
  <2>1. ram' \in [0 .. 15 -> 0 .. 255]
    BY <1>c DEF BusInv, BTypes, ChipTypes
  <2>2. CallTypes'
    BY <1>a DEF BusInv, BTypes, CallTypes, call
  <2>3. MoveTypes'
    BY <1>a DEF BusInv, BTypes, MoveTypes, scan
  <2>4. PinTypes'
    BY <1>a DEF BusInv, BTypes, PinTypes
  <2>5. ChipTypes'
    BY <2>1, <1>a, <1>c DEF BusInv, BTypes, ChipTypes
  <2>6. ButtonTypes'
    BY <1>a DEF BusInv, BTypes, ButtonTypes, buttons
  <2>7. QED
    BY <2>2, <2>3, <2>4, <2>5, <2>6 DEF BTypes
<1>2. FramesInv'
  BY <1>a DEF BusInv, FramesInv, Target, call
<1>3. CursorInv'
  BY <1>a DEF BusInv, CursorInv, call, scan
<1>4. RestInv' /\ SendInv'
  BY <1>a DEF RestInv, SendInv
<1>5. ScanInv'
  BY <1>a DEF ScanInv, call, scan
<1>6. ModeInv'
  BY <1>a, <1>b DEF BusInv, ModeInv, call
<1>7. AddrInv'
  <2>1. Target(frame, byte + 1)' = Target(frame, byte + 1)
    BY <1>a DEF Target, call
  <2>2. QED
    BY <1>a, <2>1, ByteTaken DEF AddrInv, call
<1>8. RamInv'
  <2>0. ram' = [ram EXCEPT ![addr] = want[addr]] /\ want' = want /\ ram \in [0 .. 15 -> 0 .. 255]
    BY <1>a, <1>c DEF BusInv, BTypes, ChipTypes, call
  <2>1. SUFFICES ASSUME NEW a \in 0 .. 15, a # addr, ram[a] # want[a] PROVE Pending(a)'
    BY <2>0 DEF RamInv
  <2>f. PICK f \in 2 .. Len(frames) : \E j \in 2 .. Len(frames[f]) : Target(f, j) = a /\ Ahead(f, j)
    BY <2>1 DEF BusInv, RamInv, Pending
  <2>2. PICK j \in 2 .. Len(frames[f]) : Target(f, j) = a /\ Ahead(f, j)
    BY <2>f
  <2>3. f # frame \/ j # byte
    BY <2>1, <2>2, <1>c
  <2>4. j \in Nat /\ f \in Nat
    BY FrameLength DEF BusInv
  <2>5. Ahead(f, j)'
    BY <2>2, <2>3, <2>4, <1>a, <1>b DEF Ahead
  <2>6. Target(f, j)' = a
    BY <2>2, <1>a DEF Target, call
  <2>7. QED
    BY <2>5, <2>6, <1>a DEF Pending, call
<1>9. KeysInv'
  BY <1>a DEF BusInv, KeysInv, buttons, scan
<1>10. QED
  BY <1>1, <1>2, <1>3, <1>4, <1>5, <1>6, <1>7, <1>8, <1>9 DEF BusInv

LEMMA BusWriteHigh == ASSUME BusInv, WriteHigh PROVE BusInv'
<1>1. bit < 7 \/ bit = 7
  BY DEF BusInv, SendInv, WriteHigh, Go, Writing
<1>2. QED
  BY <1>1, BusWriteBit, BusWriteCommand, BusWriteRegister

LEMMA BusEnd == ASSUME BusInv, End PROVE BusInv'
<1> USE DEF Resting, Writing, Scanning, Off
<1>p. /\ pc = "next" /\ pc' = (IF frame < Len(frames) THEN "begin" ELSE "return")
      /\ ~WritesLeft /\ ~ReadsLeft
      /\ STB' = 1 /\ frame' = frame + 1
      /\ phase' = "command" /\ shift' = 0 /\ bits' = 0 /\ reading' = Off /\ out' = 1
      /\ UNCHANGED <<call, buttons, CLK, DIO, OEA, byte, bit, dat, scan, ram, mode, addr>>
  BY DEF End, Go, StbEdge
<1>a. /\ frame \in 1 .. Len(frames) /\ Len(frames) \in Nat /\ frame \in Nat /\ frame > 0
      /\ op # "buttons" => received = 0
      /\ op = "buttons" => received = 4 /\ Len(frames) = 1
  <2>1. frame \in 1 .. Len(frames) /\ (op # "buttons" => received = 0)
    BY <1>p DEF BusInv, CursorInv
  <2>2. Len(frames) \in Nat /\ (op = "buttons" => Len(frames) = 1)
    BY DEF BusInv, FramesInv
  <2>3. received \in 0 .. 4
    BY DEF BusInv, BTypes, MoveTypes
  <2>4. op = "buttons" => received = 4
    BY <1>p, <2>3 DEF ReadsLeft
  <2>5. frame \in Nat /\ frame > 0
    BY <2>1, <2>2
  <2>6. QED
    BY <2>1, <2>2, <2>4, <2>5
<1>1. BTypes'
  <2>1. CallTypes'
    <3>1. frame' \in Nat \ {0} /\ UNCHANGED <<op, ops, want, byte>>
      BY <1>p, <1>a DEF call
    <3>2. QED
      BY <3>1 DEF BusInv, BTypes, CallTypes
  <2>2. MoveTypes'
    BY <1>p DEF BusInv, BTypes, MoveTypes, scan
  <2>3. PinTypes'
    BY <1>p DEF BusInv, BTypes, PinTypes
  <2>4. ChipTypes'
    BY <1>p DEF BusInv, BTypes, ChipTypes
  <2>5. ButtonTypes'
    BY <1>p DEF BusInv, BTypes, ButtonTypes, buttons
  <2>6. QED
    BY <2>1, <2>2, <2>3, <2>4, <2>5 DEF BTypes
<1>2. FramesInv'
  BY <1>p, FramesKept DEF BusInv, call
<1>3. CursorInv'
  <2>1. CASE frame < Len(frames)
    <3>1. frame + 1 \in 1 .. Len(frames) /\ op # "buttons"
      <4>1. Len(frames) # 1
        BY <1>a, <2>1, NotTheLast
      <4>2. frame + 1 \in 1 .. Len(frames)
        BY <1>a, <2>1
      <4>3. QED
        BY <1>a, <4>1, <4>2
    <3>2. QED
      BY <1>p, <1>a, <2>1, <3>1 DEF CursorInv, call, scan
  <2>2. CASE ~(frame < Len(frames))
    <3>1. frame = Len(frames)
      BY <1>a, <2>2
    <3>2. QED
      BY <1>p, <1>a, <2>2, <3>1 DEF CursorInv, call, scan
  <2>3. QED
    BY <2>1, <2>2
<1>4. RestInv'
  BY <1>p DEF BusInv, RestInv, ScanInv
<1>5. SendInv'
  BY <1>p DEF SendInv
<1>6. ScanInv'
  BY <1>p DEF ScanInv
<1>7. ModeInv'
  BY <1>p DEF BusInv, ModeInv, call
<1>8. AddrInv'
  BY <1>p DEF AddrInv
<1>9. RamInv'
  <2>1. UNCHANGED <<ram, want, frames>>
    BY <1>p DEF call
  <2>2. ASSUME NEW f \in 2 .. Len(frames), NEW j \in 2 .. Len(frames[f]), Ahead(f, j)
        PROVE  Ahead(f, j)'
    <3>1. Len(frames[f]) \in Nat /\ frame \in Nat /\ byte \in Nat /\ Len(frames) \in Nat
      <4>1. f \in 1 .. Len(frames)
        BY <1>a
      <4>2. Len(frames[f]) \in Nat
        BY <4>1, FrameLength DEF BusInv
      <4>3. QED
        BY <1>a, <4>2 DEF BusInv, BTypes, CallTypes
    <3>2. f # frame
      BY <2>2, <3>1 DEF Ahead, End, Go, WritesLeft
    <3>3. f > frame /\ frame < Len(frames)
      BY <2>2, <3>1, <3>2 DEF Ahead
    <3>4. frame' = frame + 1 /\ pc' = "begin"
      BY <3>3 DEF End, Go
    <3>5. QED
      BY <3>1, <3>3, <3>4 DEF Ahead
  <2>3. QED
    BY <2>1, <2>2, RamKept DEF BusInv
<1>10. KeysInv'
  BY <1>p, KeysKept DEF BusInv, scan
<1>11. QED
  BY <1>1, <1>2, <1>3, <1>4, <1>5, <1>6, <1>7, <1>8, <1>9, <1>10 DEF BusInv

LEMMA BusReturn == ASSUME BusInv, Return PROVE BusInv'
<1> USE DEF Resting, Writing, Scanning, Off
<1>p. /\ pc = "return" /\ pc' = "idle"
      /\ UNCHANGED <<call, buttons, place, scan, pins, chip>>
  BY DEF Return, Go
<1>1. BTypes'
  <2>1. CallTypes'
    BY <1>p DEF BusInv, BTypes, CallTypes, call, place
  <2>2. MoveTypes'
    BY <1>p DEF BusInv, BTypes, MoveTypes, place, scan
  <2>3. PinTypes'
    BY <1>p DEF BusInv, BTypes, PinTypes, pins, chip
  <2>4. ChipTypes'
    BY <1>p DEF BusInv, BTypes, ChipTypes, chip
  <2>5. ButtonTypes'
    BY <1>p DEF BusInv, BTypes, ButtonTypes, buttons
  <2>6. QED
    BY <2>1, <2>2, <2>3, <2>4, <2>5 DEF BTypes
<1>2. FramesInv'
  BY <1>p, FramesKept DEF BusInv, call
<1>3. CursorInv'
  BY <1>p DEF BusInv, CursorInv, call, place, scan
<1>4. RestInv'
  BY <1>p DEF BusInv, RestInv, pins, chip
<1>5. SendInv'
  BY <1>p DEF SendInv
<1>6. ScanInv'
  BY <1>p DEF ScanInv
<1>7. ModeInv'
  BY <1>p DEF BusInv, ModeInv, call, place, chip
<1>8. AddrInv'
  BY <1>p DEF AddrInv
<1>9. RamInv'
  <2>1. UNCHANGED <<ram, want, frames>>
    BY <1>p DEF call, chip
  <2>2. ASSUME NEW f \in 2 .. Len(frames), NEW j \in 2 .. Len(frames[f]), Ahead(f, j)
        PROVE  Ahead(f, j)'
    BY <2>2, <1>p DEF Ahead, place
  <2>3. QED
    BY <2>1, <2>2, RamKept DEF BusInv
<1>10. KeysInv'
  BY <1>p, KeysKept DEF BusInv, scan
<1>11. QED
  BY <1>1, <1>2, <1>3, <1>4, <1>5, <1>6, <1>7, <1>8, <1>9, <1>10 DEF BusInv

\* Between calls nothing is ahead: the registers are as wanted.
LEMMA NothingAhead == ASSUME BusInv, pc \in {"return", "idle"} PROVE ram = want
<1> USE DEF Writing
<1>1. frame = Len(frames) + 1 /\ Len(frames) \in Nat
  BY DEF BusInv, CursorInv, FramesInv
<1>2. ASSUME NEW f \in 2 .. Len(frames), NEW j PROVE ~Ahead(f, j)
  BY <1>1 DEF Ahead
<1>3. \A a \in 0 .. 15 : ram[a] = want[a]
  BY <1>2 DEF BusInv, RamInv, Pending
<1>4. QED
  BY <1>3 DEF BusInv, BTypes, CallTypes, ChipTypes

LEMMA BusStart ==
  ASSUME BusInv, NEW name \in {"leds", "segments", "buttons"}, NEW fs, Start(name, fs),
         FramesInv', want' \in [0 .. 15 -> 0 .. 255],
         \A a \in 0 .. 15 : want'[a] = want[a] \/ Pending(a)'
  PROVE  BusInv'
<1> USE DEF Resting, Writing, Scanning, Off
<1>a. /\ pc = "idle" /\ pc' = "begin" /\ frame' = 1 /\ received' = 0 /\ keys' = {} /\ op' = name
      /\ UNCHANGED <<byte, bit, dat, pins, chip, pressed>>
      /\ was' = pressed /\ wasNot' = 0 .. 7 \ pressed
  BY DEF Start, Idle
<1>b. ops' \in 0 .. MaxOps
  <2>1. ops \in 0 .. MaxOps /\ ops < MaxOps /\ ops' = ops + 1 /\ MaxOps \in Nat
    BY Tm1638Assumed DEF BusInv, BTypes, CallTypes, Start, Tm1638Assumption
  <2>2. QED
    BY <2>1
<1>1. BTypes'
  <2>1. op' \in {"init", "leds", "segments", "buttons"}
    BY <1>a
  <2>2. /\ frame' \in Nat \ {0} /\ received' \in 0 .. 4 /\ keys' \subseteq 0 .. 7
        /\ was' \subseteq 0 .. 7 /\ wasNot' \subseteq 0 .. 7
    BY <1>a DEF BusInv, BTypes, ButtonTypes
  <2>3. CallTypes'
    BY <1>a, <1>b DEF BusInv, BTypes, CallTypes
  <2>4. MoveTypes'
    BY <1>a DEF BusInv, BTypes, MoveTypes
  <2>5. PinTypes'
    BY <1>a DEF BusInv, BTypes, PinTypes, pins, chip
  <2>6. ChipTypes'
    BY <1>a DEF BusInv, BTypes, ChipTypes, chip
  <2>7. ButtonTypes'
    BY <1>a DEF BusInv, BTypes, ButtonTypes
  <2>8. QED
    BY <2>3, <2>4, <2>5, <2>6, <2>7 DEF BTypes
<1>2. CursorInv'
  <2>1. 1 \in 1 .. Len(frames)'
    BY DEF FramesInv
  <2>2. QED
    BY <1>a, <2>1 DEF CursorInv
<1>3. RestInv'
  BY <1>a DEF BusInv, RestInv, pins, chip
<1>4. SendInv' /\ ScanInv' /\ ModeInv' /\ AddrInv'
  BY <1>a DEF SendInv, ScanInv, ModeInv, AddrInv
<1>5. RamInv'
  BY <1>a, NothingAhead DEF RamInv, chip
<1>6. KeysInv'
  BY <1>a DEF KeysInv
<1>7. QED
  BY <1>1, <1>2, <1>3, <1>4, <1>5, <1>6 DEF BusInv

\* A frame that a call has still to send.
LEMMA AllAhead ==
  ASSUME pc' \in {"configure", "begin"}, frame' = 1, Len(frames') \in Nat,
         NEW f \in 2 .. Len(frames'), NEW j \in 2 .. Len(frames'[f]), NEW a, Target(f, j)' = a
  PROVE  Pending(a)'
<1>1. Ahead(f, j)'
  BY DEF Ahead
<1>2. QED
  BY <1>1 DEF Pending

LEMMA LedNumbers ==
  /\ \A f \in 2 .. 9 : /\ f - 2 \in 0 .. 7 /\ 193 + (f - 2) * 2 \in 193 .. 207
                       /\ ((193 + (f - 2) * 2) + (2 - 2)) % 16 = 1 + 2 * (f - 2)
                       /\ 1 + 2 * (f - 2) \in 0 .. 15 /\ (1 + 2 * (f - 2)) % 2 = 1
                       /\ (1 + 2 * (f - 2)) \div 2 = f - 2
  /\ \A a \in 0 .. 15 : a % 2 = 1 =>
       /\ (a \div 2) + 2 \in 2 .. 9 /\ ((a \div 2) + 2) - 2 = a \div 2
       /\ 1 + 2 * (a \div 2) = a
  OBVIOUS

LEMMA DigitNumbers ==
  /\ \A f \in 2 .. 9 : /\ f - 1 \in 1 .. 8 /\ 192 + (f - 2) * 2 \in 192 .. 206
                       /\ ((192 + (f - 2) * 2) + (2 - 2)) % 16 = 2 * (f - 2)
                       /\ 2 * (f - 2) \in 0 .. 15 /\ (2 * (f - 2)) % 2 = 0
                       /\ ((2 * (f - 2)) \div 2) + 1 = f - 1
  /\ \A a \in 0 .. 15 : a % 2 = 0 =>
       /\ (a \div 2) + 2 \in 2 .. 9 /\ 2 * (((a \div 2) + 2) - 2) = a
       /\ (a \div 2) + 1 \in 1 .. 8
  OBVIOUS

LEMMA MaskBit == ASSUME NEW m \in 0 .. 255, NEW k \in 0 .. 7 PROVE Bit(m, k) \in 0 .. 255
<1>1. \A n \in Nat : n % 2 \in 0 .. 255
  OBVIOUS
<1>2. m \div 2 ^ k \in Nat
  <2>1. 2 ^ k \in Nat \ {0}
    <3>1. CASE k = 0
      BY <3>1
    <3>2. CASE k = 1
      BY <3>2
    <3>3. CASE k = 2
      BY <3>3
    <3>4. CASE k = 3
      BY <3>4
    <3>5. CASE k = 4
      BY <3>5
    <3>6. CASE k = 5
      BY <3>6
    <3>7. CASE k = 6
      BY <3>7
    <3>8. CASE k = 7
      BY <3>8
    <3>9. QED
      BY <3>1, <3>2, <3>3, <3>4, <3>5, <3>6, <3>7, <3>8
  <2>2. QED
    BY <2>1
<1>3. QED
  BY <1>1, <1>2 DEF Bit

\* A call that writes one register a frame.
OneEach(fs) ==
    /\ Len(fs) = 9 /\ fs[1] = <<68>>
    /\ \A f \in 2 .. 9 : Len(fs[f]) = 2 /\ fs[f][1] \in 192 .. 207

LEMMA OneEachFrames ==
  ASSUME OneEach(frames'), op' # "buttons",
         \A f \in 2 .. 9 : frames'[f][2] = want'[Target(f, 2)']
  PROVE  FramesInv'
<1>1. Len(frames') = 9 /\ frames'[1][1] = 68 /\ Len(frames'[1]) = 1
  BY DEF OneEach
<1>2. ASSUME NEW f \in 2 .. 9
      PROVE  /\ Len(frames'[f]) \in 1 .. 17 /\ frames'[f][1] \in 128 .. 255
             /\ frames'[f][1] >= 192 /\ ~(Len(frames'[f]) > 2)
             /\ \A j \in 2 .. Len(frames'[f]) : frames'[f][j] = want'[Target(f, j)']
  <2>1. Len(frames'[f]) = 2 /\ frames'[f][1] \in 192 .. 207
    BY DEF OneEach
  <2>2. \A j \in 2 .. Len(frames'[f]) : j = 2
    BY <2>1
  <2>3. QED
    BY <2>1, <2>2
<1>3. 9 \in Nat \ {0}
  OBVIOUS
<1>4. \A f \in 2 .. Len(frames') :
        /\ Len(frames'[f]) \in 1 .. 17 /\ frames'[f][1] \in 128 .. 255
        /\ Len(frames'[f]) > 1 => frames'[f][1] >= 192
        /\ Len(frames'[f]) > 2 => frames'[1][1] = 64
        /\ \A j \in 2 .. Len(frames'[f]) : frames'[f][j] = want'[Target(f, j)']
  <2>1. TAKE f \in 2 .. Len(frames')
  <2>2. f \in 2 .. 9
    BY <1>1
  <2>3. QED
    BY <1>2, <2>2
<1>5. QED
  BY <1>1, <1>3, <1>4 DEF FramesInv, Target

LEMMA BusLeds ==
  ASSUME BusInv, NEW mask \in LedMasks, Start("leds", tm1638_set_leds(mask)),
         want' = [a \in 0 .. 15 |-> IF a % 2 = 1 THEN Bit(mask, a \div 2) ELSE want[a]]
  PROVE  BusInv'
<1>a. /\ mask \in 0 .. 255 /\ frames' = tm1638_set_leds(mask) /\ op' = "leds"
      /\ pc' = "begin" /\ frame' = 1
  BY Tm1638Assumed DEF Tm1638Assumption, Start
<1>b. OneEach(frames')
  BY <1>a, LedNumbers, 193 .. 207 \subseteq 192 .. 207 DEF tm1638_set_leds, OneEach
<1>c. \A f \in 2 .. 9 : /\ frames'[f][2] = Bit(mask, f - 2)
                        /\ Target(f, 2)' = 1 + 2 * (f - 2)
  BY <1>a, LedNumbers DEF tm1638_set_leds, Target
<1>1. FramesInv'
  <2>1. \A f \in 2 .. 9 : frames'[f][2] = want'[Target(f, 2)']
    BY <1>c, LedNumbers
  <2>2. QED
    BY <1>a, <1>b, <2>1, OneEachFrames
<1>2. want' \in [0 .. 15 -> 0 .. 255]
  <2>1. \A a \in 0 .. 15 : a \div 2 \in 0 .. 7
    OBVIOUS
  <2>2. want \in [0 .. 15 -> 0 .. 255]
    BY DEF BusInv, BTypes, CallTypes
  <2>3. \A a \in 0 .. 15 : Bit(mask, a \div 2) \in 0 .. 255
    BY <1>a, <2>1, MaskBit
  <2>4. QED
    BY <2>2, <2>3
<1>3. ASSUME NEW a \in 0 .. 15, a % 2 = 1 PROVE Pending(a)'
  <2> DEFINE f == (a \div 2) + 2
  <2>1. f \in 2 .. 9 /\ 1 + 2 * (f - 2) = a
    BY <1>3, LedNumbers
  <2> HIDE DEF f
  <2>2. Target(f, 2)' = a
    BY <2>1, <1>c
  <2>3. f \in 2 .. Len(frames') /\ 2 \in 2 .. Len(frames'[f]) /\ Len(frames') \in Nat
    <3>1. Len(frames') = 9 /\ Len(frames'[f]) = 2
      BY <2>1, <1>b DEF OneEach
    <3>2. 9 \in Nat /\ 2 \in 2 .. 2
      OBVIOUS
    <3>3. QED
      BY <2>1, <3>1, <3>2
  <2>4. QED
    BY <1>a, <2>2, <2>3, AllAhead
<1>4. \A a \in 0 .. 15 : want'[a] = want[a] \/ Pending(a)'
  BY <1>3
<1>5. QED
  BY <1>1, <1>2, <1>4, BusStart

LEMMA BusSegments ==
  ASSUME BusInv, NEW segs \in SegmentSets, Start("segments", tm1638_set_segments(segs)),
         want' = [a \in 0 .. 15 |-> IF a % 2 = 0 THEN segs[a \div 2 + 1] ELSE want[a]]
  PROVE  BusInv'
<1>a. /\ segs \in [1 .. 8 -> 0 .. 255] /\ frames' = tm1638_set_segments(segs) /\ op' = "segments"
      /\ pc' = "begin" /\ frame' = 1
  BY Tm1638Assumed DEF Tm1638Assumption, Start
<1>b. OneEach(frames')
  BY <1>a, DigitNumbers, 192 .. 206 \subseteq 192 .. 207 DEF tm1638_set_segments, OneEach
<1>c. \A f \in 2 .. 9 : /\ frames'[f][2] = segs[f - 1]
                        /\ Target(f, 2)' = 2 * (f - 2)
  BY <1>a, DigitNumbers DEF tm1638_set_segments, Target
<1>1. FramesInv'
  <2>1. \A f \in 2 .. 9 : frames'[f][2] = want'[Target(f, 2)']
    BY <1>c, DigitNumbers
  <2>2. QED
    BY <1>a, <1>b, <2>1, OneEachFrames
<1>2. want' \in [0 .. 15 -> 0 .. 255]
  <2>1. want \in [0 .. 15 -> 0 .. 255]
    BY DEF BusInv, BTypes, CallTypes
  <2>2. \A a \in 0 .. 15 : a \div 2 + 1 \in 1 .. 8
    BY DigitNumbers
  <2>3. QED
    BY <1>a, <2>1, <2>2
<1>3. ASSUME NEW a \in 0 .. 15, a % 2 = 0 PROVE Pending(a)'
  <2> DEFINE f == (a \div 2) + 2
  <2>1. f \in 2 .. 9 /\ 2 * (f - 2) = a
    BY <1>3, DigitNumbers
  <2> HIDE DEF f
  <2>2. Target(f, 2)' = a
    BY <2>1, <1>c
  <2>3. f \in 2 .. Len(frames') /\ 2 \in 2 .. Len(frames'[f]) /\ Len(frames') \in Nat
    <3>1. Len(frames') = 9 /\ Len(frames'[f]) = 2
      BY <2>1, <1>b DEF OneEach
    <3>2. 9 \in Nat /\ 2 \in 2 .. 2
      OBVIOUS
    <3>3. QED
      BY <2>1, <3>1, <3>2
  <2>4. QED
    BY <1>a, <2>2, <2>3, AllAhead
<1>4. \A a \in 0 .. 15 : want'[a] = want[a] \/ Pending(a)'
  BY <1>3
<1>5. QED
  BY <1>1, <1>2, <1>4, BusStart

LEMMA BusButtons ==
  ASSUME BusInv, Start("buttons", tm1638_read_all_buttons), UNCHANGED want
  PROVE  BusInv'
<1>1. frames' = << <<66>> >> /\ op' = "buttons"
  BY DEF Start, tm1638_read_all_buttons
<1>2. Len(frames') = 1 /\ Len(frames'[1]) = 1 /\ frames'[1][1] = 66
  BY <1>1
<1>3. FramesInv'
  <2>1. 2 .. 1 = {} /\ 1 \in Nat \ {0}
    OBVIOUS
  <2>2. QED
    BY <1>1, <1>2, <2>1 DEF FramesInv
<1>4. want' \in [0 .. 15 -> 0 .. 255] /\ \A a \in 0 .. 15 : want'[a] = want[a] \/ Pending(a)'
  BY DEF BusInv, BTypes, CallTypes
<1>5. QED
  BY <1>3, <1>4, BusStart

LEMMA BusCall == ASSUME BusInv, Call PROVE BusInv'
  BY BusLeds, BusSegments, BusButtons DEF Call

LEMMA BusPress == ASSUME BusInv, Press PROVE BusInv'
<1>a. UNCHANGED <<pc, call, place, scan, pins, chip>>
  BY DEF Press
<1>b. PICK b \in Pressable :
        /\ pressed' = IF b \in pressed THEN pressed \ {b} ELSE pressed \cup {b}
        /\ was' = was \cup (pressed' \cap {b})
        /\ wasNot' = wasNot \cup ({b} \ pressed')
  BY DEF Press
<1>c. b \in 0 .. 7
  BY Tm1638Assumed DEF Tm1638Assumption
<1>d. was \subseteq was' /\ wasNot \subseteq wasNot'
  BY <1>b
<1>1. BTypes'
  <2>1. CallTypes'
    BY <1>a DEF BusInv, BTypes, CallTypes, call, place
  <2>2. MoveTypes'
    BY <1>a DEF BusInv, BTypes, MoveTypes, place, scan
  <2>3. PinTypes'
    BY <1>a DEF BusInv, BTypes, PinTypes, pins, chip
  <2>4. ChipTypes'
    BY <1>a DEF BusInv, BTypes, ChipTypes, chip
  <2>5. ButtonTypes'
    BY <1>b, <1>c DEF BusInv, BTypes, ButtonTypes
  <2>6. QED
    BY <2>1, <2>2, <2>3, <2>4, <2>5 DEF BTypes
<1>2. FramesInv' /\ CursorInv'
  BY <1>a DEF BusInv, FramesInv, CursorInv, Target, call, place, scan
<1>3. RestInv' /\ SendInv' /\ ScanInv'
  BY <1>a DEF BusInv, RestInv, SendInv, ScanInv, call, place, scan, pins, chip
<1>4. ModeInv' /\ AddrInv' /\ RamInv'
  BY <1>a DEF BusInv, ModeInv, AddrInv, RamInv, Pending, Ahead, Target, call, place, chip
<1>5. KeysInv'
  <2>1. pressed' \subseteq was' /\ 0 .. 7 \ pressed' \subseteq wasNot'
    BY <1>b DEF BusInv, KeysInv
  <2>2. ASSUME NEW d, NEW i, NEW k, SeenBits(d, i, k) PROVE SeenBits(d, i, k)'
    BY <2>2, <1>a, <1>d DEF SeenBits, Seen, scan
  <2>3. ASSUME NEW n, NEW v, Seen(n, v) PROVE Seen(n, v)'
    BY <2>3, <1>d DEF Seen
  <2>4. keys' \subseteq was'
    BY <1>a, <1>d DEF BusInv, KeysInv, scan
  <2>5. \A n \in 0 .. 3 : n < received' => /\ n \in keys' \/ n \in wasNot'
                                           /\ n + 4 \in keys' \/ n + 4 \in wasNot'
    BY <1>a, <1>d DEF BusInv, KeysInv, scan
  <2>6. pc' \in {"readlow", "output", "keep"} => SeenBits(dat, bit, 8 - bit)'
    <3>1. pc' \in {"readlow", "output", "keep"} => SeenBits(dat, bit, 8 - bit)
      BY <1>a DEF BusInv, KeysInv
    <3>2. QED
      BY <3>1, <1>a, <1>d DEF SeenBits, Seen, scan, place
  <2>7. pc' = "sample" => (SeenBits(dat, bit, 7 - bit) /\ (bit \in {0, 4} => Seen(received + bit, out)))'
    <3>1. pc' = "sample" => SeenBits(dat, bit, 7 - bit) /\ (bit \in {0, 4} => Seen(received + bit, out))
      BY <1>a DEF BusInv, KeysInv
    <3>2. QED
      BY <3>1, <1>a, <1>d DEF SeenBits, Seen, scan, place, chip
  <2>8. pc' = "readhigh" => SeenBits(dat, bit + 1, 7 - bit)'
    <3>1. pc' = "readhigh" => SeenBits(dat, bit + 1, 7 - bit)
      BY <1>a DEF BusInv, KeysInv
    <3>2. QED
      BY <3>1, <1>a, <1>d DEF SeenBits, Seen, scan, place
  <2>9. QED
    BY <2>1, <2>4, <2>5, <2>6, <2>7, <2>8, Zenon DEF KeysInv
<1>6. QED
  BY <1>1, <1>2, <1>3, <1>4, <1>5 DEF BusInv

LEMMA InitNumbers ==
  /\ \A j \in 2 .. 17 : j - 2 \in 0 .. 15 /\ (192 + (j - 2)) % 16 = j - 2
  /\ \A a \in 0 .. 15 : a + 2 \in 2 .. 17 /\ (a + 2) - 2 = a
  /\ 2 .. 3 = {2, 3} /\ 2 .. 1 = {}
  OBVIOUS

LEMMA InitBus == ASSUME Init PROVE BusInv
<1> USE DEF Resting, Writing, Scanning, Off
<1>a. /\ Len(frames) = 3 /\ frames[1] = <<64>> /\ frames[3] = <<143>>
      /\ frames[2] = [j \in 1 .. 17 |-> IF j = 1 THEN 192 ELSE 0]
  BY DEF Init, tm1638_init
<1>b. Len(frames[1]) = 1 /\ Len(frames[2]) = 17 /\ Len(frames[3]) = 1
      /\ frames[1][1] = 64 /\ frames[2][1] = 192 /\ frames[3][1] = 143
      /\ \A j \in 2 .. 17 : frames[2][j] = 0
  BY <1>a
<1>c. \A j \in 2 .. 17 : Target(2, j) = j - 2
  BY <1>b, InitNumbers DEF Target
<1>1. BTypes
  <2>1. ops \in 0 .. MaxOps
    <3>1. ops = 0 /\ MaxOps \in Nat
      BY Tm1638Assumed DEF Init, Tm1638Assumption
    <3>2. QED
      BY <3>1
  <2>2. ram \in [0 .. 15 -> 0 .. 255] /\ want \in [0 .. 15 -> 0 .. 255]
    <3>1. PICK v \in {0, 255} : ram = [a \in 0 .. 15 |-> v]
      BY DEF Init
    <3>2. v \in 0 .. 255 /\ 0 \in 0 .. 255
      OBVIOUS
    <3>3. QED
      BY <3>1, <3>2 DEF Init
  <2>3. QED
    BY <2>1 DEF BTypes, CallTypes, MoveTypes, PinTypes, ChipTypes, ButtonTypes, Init
<1>2. FramesInv
  <2>1. ASSUME NEW f \in 2 .. Len(frames)
        PROVE  /\ Len(frames[f]) \in 1 .. 17 /\ frames[f][1] \in 128 .. 255
               /\ Len(frames[f]) > 1 => frames[f][1] >= 192
               /\ Len(frames[f]) > 2 => frames[1][1] = 64
               /\ \A j \in 2 .. Len(frames[f]) : frames[f][j] = want[Target(f, j)]
    <3>1. f = 2 \/ f = 3
      BY <1>a, InitNumbers
    <3>2. CASE f = 2
      <4>1. \A j \in 2 .. 17 : frames[2][j] = want[Target(2, j)]
        <5>1. want = [a \in 0 .. 15 |-> 0]
          BY DEF Init
        <5>2. \A a \in 0 .. 15 : want[a] = 0
          BY <5>1
        <5>3. QED
          <6>1. SUFFICES ASSUME NEW j \in 2 .. 17 PROVE frames[2][j] = want[Target(2, j)]
            OBVIOUS
          <6>2. frames[2][j] = 0
            BY <1>b
          <6>3. want[Target(2, j)] = 0
            BY <1>c, <5>2, InitNumbers
          <6>4. QED
            BY <6>2, <6>3
      <4>2. QED
        BY <3>2, <4>1, <1>b
    <3>3. CASE f = 3
      BY <3>3, <1>b, InitNumbers
    <3>4. QED
      BY <3>1, <3>2, <3>3
  <2>2. Len(frames) \in Nat \ {0}
    BY <1>a
  <2>3. QED
    BY <1>b, <2>1, <2>2 DEF FramesInv, Init
<1>3. CursorInv /\ RestInv
  BY <1>a DEF CursorInv, RestInv, Init
<1>4. SendInv /\ ScanInv /\ ModeInv /\ AddrInv
  BY DEF SendInv, ScanInv, ModeInv, AddrInv, Init
<1>5. RamInv
  <2>1. ASSUME NEW a \in 0 .. 15 PROVE Pending(a)
    <3>1. a + 2 \in 2 .. 17 /\ Target(2, a + 2) = a
      BY <1>c, InitNumbers
    <3>2. Ahead(2, a + 2)
      BY DEF Ahead, Init
    <3>3. 2 \in 2 .. Len(frames) /\ a + 2 \in 2 .. Len(frames[2])
      BY <3>1, <1>a, <1>b
    <3>4. QED
      BY <3>1, <3>2, <3>3 DEF Pending
  <2>2. QED
    BY <2>1 DEF RamInv
<1>6. KeysInv
  BY DEF KeysInv, Init
<1>7. QED
  BY <1>1, <1>2, <1>3, <1>4, <1>5, <1>6 DEF BusInv

LEMMA NextBus == ASSUME BusInv, Next \/ UNCHANGED vars PROVE BusInv'
<1>1. CASE UNCHANGED vars
  <2>1. UNCHANGED <<pc, call, place, scan, pins, chip, buttons>>
    BY <1>1 DEF vars
  <2>2. BTypes' /\ FramesInv' /\ CursorInv'
    <3>1. BTypes'
      <4>1. CallTypes'
        BY <2>1 DEF BusInv, BTypes, CallTypes, call, place
      <4>2. MoveTypes'
        BY <2>1 DEF BusInv, BTypes, MoveTypes, place, scan
      <4>3. PinTypes'
        BY <2>1 DEF BusInv, BTypes, PinTypes, pins, chip
      <4>4. ChipTypes'
        BY <2>1 DEF BusInv, BTypes, ChipTypes, chip
      <4>5. ButtonTypes'
        BY <2>1 DEF BusInv, BTypes, ButtonTypes, buttons
      <4>6. QED
        BY <4>1, <4>2, <4>3, <4>4, <4>5 DEF BTypes
    <3>2. FramesInv'
      BY <2>1 DEF BusInv, FramesInv, Target, call
    <3>3. CursorInv'
      BY <2>1 DEF BusInv, CursorInv, call, place, scan
    <3>4. QED
      BY <3>1, <3>2, <3>3
  <2>3. RestInv' /\ SendInv' /\ ScanInv' /\ ModeInv' /\ AddrInv'
    BY <2>1 DEF BusInv, RestInv, SendInv, ScanInv, ModeInv, AddrInv, Target, call, place, scan, pins, chip
  <2>4. RamInv' /\ KeysInv'
    BY <2>1 DEF BusInv, RamInv, Pending, Ahead, Target, KeysInv, SeenBits, Seen, call, place, scan, chip, buttons
  <2>5. QED
    BY <2>2, <2>3, <2>4 DEF BusInv
<1>2. QED
  BY <1>1, BusPress, BusCall, BusConfigure, BusBegin, BusWriteLow, BusWriteData, BusWriteHigh,
     BusNextByte, BusReadInput, BusReadLow, BusSample, BusReadHigh, BusReadOutput, BusKeep, BusEnd,
     BusReturn DEF Next, Drive

LEMMA BusSuffices == ASSUME BusInv PROVE TypeOK /\ RegistersAsTold /\ ButtonsSeen /\ NoContention
<1> USE DEF Resting, Writing, Scanning, Off
<1>1. TypeOK
  BY DEF TypeOK, BusInv, BTypes, CallTypes, MoveTypes, PinTypes, ChipTypes, RestInv, Idle
<1>2. RegistersAsTold
  BY NothingAhead DEF RegistersAsTold, Idle
<1>3. ButtonsSeen
  <2>1. SUFFICES ASSUME op = "buttons", pc = "return"
                 PROVE  keys \subseteq was /\ 0 .. 7 \ keys \subseteq wasNot
    BY DEF ButtonsSeen
  <2>2. received = 4
    BY <2>1 DEF BusInv, CursorInv
  <2>3. \A n \in 0 .. 3 : (n \in keys \/ n \in wasNot) /\ (n + 4 \in keys \/ n + 4 \in wasNot)
    BY <2>2 DEF BusInv, KeysInv
  <2>4. ASSUME NEW b \in 0 .. 7, b \notin keys PROVE b \in wasNot
    <3>1. CASE b \in 0 .. 3
      BY <3>1, <2>3, <2>4
    <3>2. CASE b \in 4 .. 7
      <4>1. b - 4 \in 0 .. 3 /\ (b - 4) + 4 = b
        BY <3>2
      <4>2. QED
        BY <4>1, <2>3, <2>4
    <3>3. QED
      BY <3>1, <3>2
  <2>5. QED
    BY <2>4 DEF BusInv, KeysInv
<1>4. NoContention
  <2>1. SUFFICES ASSUME OEA = 1, DIO = 1, out = 0 PROVE FALSE
    BY DEF NoContention
  <2>2. pc \notin Resting \cup Writing \cup {"configure"}
    BY <2>1 DEF BusInv, RestInv, SendInv
  <2>3. pc \notin Scanning
    BY <2>1 DEF BusInv, ScanInv
  <2>4. pc # "next"
    BY <2>1 DEF BusInv, ScanInv
  <2>5. QED
    BY <2>2, <2>3, <2>4 DEF BusInv, BTypes, MoveTypes
<1>5. QED
  BY <1>1, <1>2, <1>3, <1>4

\* Only the last bit of a byte writes a register.
LEMMA BusGlitch == ASSUME BusInv, Next \/ UNCHANGED vars PROVE NoGlitch
<1>1. CASE ram' = ram
  BY <1>1 DEF NoGlitch
<1>2. CASE WriteHigh
  <2>1. CASE bit = 7 /\ byte # 1
    <3>1. ram' = [ram EXCEPT ![addr] = want[addr]] /\ addr \in 0 .. 15
      BY <1>2, <2>1, ByteTaken
    <3>2. QED
      BY <3>1 DEF NoGlitch
  <2>2. CASE bit = 7 /\ byte = 1
    BY <1>2, <2>2, LastBit DEF TakeCommand, NoGlitch
  <2>3. CASE bit # 7
    <3>1. bits < 7 \/ bits > 7
      BY <1>2, <2>3 DEF BusInv, SendInv, WriteHigh, Go, Writing
    <3>2. ram' = ram
      BY <1>2, <3>1 DEF WriteHigh, ClkRises, chip
    <3>3. QED
      BY <3>2 DEF NoGlitch
  <2>4. QED
    BY <2>1, <2>2, <2>3
<1>3. CASE ReadHigh
  <2>1. pc = "readhigh"
    BY <1>3 DEF ReadHigh, Go
  <2>2. reading = 8 * received + bit + 1 /\ received \in 0 .. 3 /\ bit \in 0 .. 7
    BY <2>1 DEF BusInv, ScanInv, CursorInv, BTypes, MoveTypes, Scanning
  <2>3. reading # Off
    BY <2>2 DEF Off
  <2>4. ram' = ram
    BY <1>3, <2>3 DEF ReadHigh, ClkRises, chip
  <2>5. QED
    BY <2>4 DEF NoGlitch
<1>4. CASE UNCHANGED vars \/ Press \/ Call
  BY <1>4 DEF vars, chip, Press, Call, Start, NoGlitch
<1>5. CASE Drive /\ ~WriteHigh /\ ~ReadHigh
  BY <1>1, <1>5 DEF Drive, Configure, Begin, WriteLow, WriteData, NextByte, ReadInput, ReadLow, Sample,
     ReadOutput, Keep, End, Return, StbEdge, ClkFalls, chip
<1>6. QED
  BY <1>2, <1>3, <1>4, <1>5 DEF Next

-----------------------------------------------------------------------------
(* A behaviour of the whole.                                               *)

\* The step of a component, in a step of the whole.
LEMMA StepOf ==
  ASSUME [DriversNext]_allVars
  PROVE  /\ Ep0!Next \/ UNCHANGED ep0Vars
         /\ Line!Next \/ UNCHANGED serialVars
         /\ Waves!Next \/ UNCHANGED gpifVars
         /\ Next \/ UNCHANGED vars
         /\ Clock!Next \/ UNCHANGED uptimeVars
         /\ Pause!Next \/ UNCHANGED delayVars
  BY DEF DriversNext, allVars

LEMMA Ep0Holds == DriversSpec => [](Ep0Inv /\ EFlags)
<1>1. DriversInit => Ep0Inv /\ EFlags
  BY InitEp0 DEF DriversInit, EFlags, Ep0!Init
<1>2. Ep0Inv /\ EFlags /\ [DriversNext]_allVars => Ep0Inv' /\ EFlags'
  BY StepOf, NextEp0, EpFlags
<1>3. QED
  BY <1>1, <1>2, PTL DEF DriversSpec

LEMMA LineHolds == DriversSpec => [](LineInv /\ LFlags)
<1>1. DriversInit => LineInv /\ LFlags
  BY InitLine DEF DriversInit, LFlags, Line!Init
<1>2. LineInv /\ LFlags /\ [DriversNext]_allVars => LineInv' /\ LFlags'
  BY StepOf, NextLine, LineFlags
<1>3. QED
  BY <1>1, <1>2, PTL DEF DriversSpec

LEMMA GpifHolds == ASSUME ByteLengths PROVE DriversSpec => [](GpifInv /\ GFlags)
<1>1. DriversInit => GpifInv /\ GFlags
  BY InitGpif DEF DriversInit, GFlags, Waves!Init
<1>2. GpifInv /\ GFlags /\ [DriversNext]_allVars => GpifInv' /\ GFlags'
  BY StepOf, NextGpif, GpFlags
<1>3. QED
  BY <1>1, <1>2, PTL DEF DriversSpec

LEMMA BusHolds == DriversSpec => []BusInv
<1>1. DriversInit => BusInv
  BY InitBus DEF DriversInit
<1>2. BusInv /\ [DriversNext]_allVars => BusInv'
  BY StepOf, NextBus
<1>3. QED
  BY <1>1, <1>2, PTL DEF DriversSpec

LEMMA ClockHolds == DriversSpec => []ClockInv
<1>1. DriversInit => ClockInv
  BY InitClock DEF DriversInit
<1>2. ClockInv /\ [DriversNext]_allVars => ClockInv'
  BY StepOf, NextClock
<1>3. QED
  BY <1>1, <1>2, PTL DEF DriversSpec

LEMMA PauseHolds == DriversSpec => [](PauseInv /\ PFlag)
<1>1. DriversInit => PauseInv /\ PFlag
  BY InitPause DEF DriversInit, PFlag, Pause!Init
<1>2. PauseInv /\ PFlag /\ [DriversNext]_allVars => PauseInv' /\ PFlag'
  BY StepOf, NextPause, FlagKept
<1>3. QED
  BY <1>1, <1>2, PTL DEF DriversSpec

\* The uptime that is read is one that the counter had and no millisecond is
\* lost, however many seconds the counter has (blinky_fw device.c:165-179); a
\* delay of any 16-bit number of milliseconds lasts as long as said, to an
\* eighth (delay.c:42-71); every baud rate of serial.h comes out as near as it
\* says at every clock (serial.c:45).
THEOREM TimeKept == ASSUME Rates \subseteq RatesOfHeader PROVE DriversSpec => []TimeAsTold
<1>1. ClockInv => Clock!TypeOK /\ Clock!ReadConsistent /\ Clock!NoTickLost
  BY ClockSuffices
<1>2. PauseInv /\ PFlag => Pause!TypeOK /\ Pause!NotLonger /\ Pause!NotEarly
  BY PauseSuffices
<1>3. LineInv => Line!BaudAsTold
  BY LineRate
<1>4. ClockInv /\ PauseInv /\ PFlag /\ LineInv => TimeAsTold
  BY <1>1, <1>2, <1>3 DEF TimeAsTold
<1>5. QED
  BY <1>4, ClockHolds, PauseHolds, LineHolds, PTL

\* The data stage of an acknowledged transfer of any length is the bytes of
\* that transfer in order, for every size of EP0 (eputils.c:35-57, hid
\* device.c:150-167); what getchar returns is what was typed and its echo
\* follows it, whatever is typed (serial.c:76-92); the GPIF's calls of one to
\* 255 words move each word once and in order (gpif.c:140-171).
THEOREM Moved == ASSUME ByteLengths PROVE DriversSpec => []MovedWhole
<1>1. Ep0Inv /\ EFlags => Ep0!TypeOK /\ Ep0!DataExact
  BY Ep0Suffices
<1>2. LineInv /\ LFlags => Line!TypeOK /\ Line!TakenAsHeard /\ Line!EchoExact /\ Line!NoneLost
  BY LineSuffices
<1>3. GpifInv /\ GFlags => Waves!TypeOK /\ Waves!WordsRead /\ Waves!WordsWritten /\ Waves!CountMoved
  BY GpifSuffices
<1>4. Ep0Inv /\ EFlags /\ LineInv /\ LFlags /\ GpifInv /\ GFlags => MovedWhole
  BY <1>1, <1>2, <1>3 DEF MovedWhole
<1>5. QED
  BY <1>4, Ep0Holds, LineHolds, GpifHolds, PTL

\* Whatever the masks, the segments and the buttons are, and whenever a button
\* changes: between calls the 16 registers hold what was asked for, each button
\* read is as it was at some time during the call, and the two ends never drive
\* the data line against each other (tm1638.c:42-153).
THEOREM ChipKept == DriversSpec => []ChipAsTold
<1>1. BusInv => ChipAsTold
  BY BusSuffices DEF ChipAsTold
<1>2. QED
  BY <1>1, BusHolds, PTL

\* No packet that waits in EP0BUF for the host is written over, whatever the
\* host gives up and however long the transfers (eputils.c:35-57), and no
\* display register holds anything on its way but its old and its new value
\* (tm1638.c:17-40, 103-153).
THEOREM Stable == DriversSpec => StableInView
<1>1. Ep0Inv /\ [DriversNext]_allVars => [Ep0!BufferStable]_allVars
  BY StepOf, Ep0Stable
<1>2. BusInv /\ [DriversNext]_allVars => [NoGlitch]_allVars
  BY StepOf, BusGlitch
<1>3. Ep0Inv /\ BusInv /\ [DriversNext]_allVars => [Ep0!BufferStable /\ NoGlitch]_allVars
  BY <1>1, <1>2
<1>4. QED
  BY <1>3, Ep0Holds, BusHolds, PTL DEF DriversSpec, StableInView
=============================================================================
