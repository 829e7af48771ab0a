-------------------------------- MODULE Pipe --------------------------------
(***************************************************************************)
(* What the example firmwares that forward data promise: items come out in *)
(* the order they went in, each once, and none is missing, except that the *)
(* host may ask for the pipe to be flushed (SET_INTERFACE).  From then on  *)
(* items may be dropped until the flush is done, and once it is done no    *)
(* item is left that was sent before the host asked.                       *)
(*                                                                         *)
(* An item is named by its position in the stream, 1 being the first.      *)
(***************************************************************************)
EXTENDS Naturals, Sequences

CONSTANT Capacity  \* items the pipe can hold

VARIABLES
    sent,     \* items sent
    transit,  \* those on the way, the oldest first
    got,      \* the latest one received
    flushing, \* the host has asked for a flush
    mark      \* items sent when it did

vars == <<sent, transit, got, flushing, mark>>

Init == sent = 0 /\ transit = <<>> /\ got = 0 /\ flushing = FALSE /\ mark = 0

Send ==
    /\ Len(transit) < Capacity
    /\ sent' = sent + 1 /\ transit' = Append(transit, sent + 1)
    /\ UNCHANGED <<got, flushing, mark>>

Receive ==
    /\ transit # <<>>
    /\ got' = Head(transit) /\ transit' = Tail(transit)
    /\ UNCHANGED <<sent, flushing, mark>>

Ask ==
    /\ ~flushing
    /\ flushing' = TRUE /\ mark' = sent
    /\ UNCHANGED <<sent, transit, got>>

\* Items i + 1 to j are dropped.
Lose ==
    /\ flushing
    /\ \E i \in 0 .. Len(transit) : \E j \in i .. Len(transit) :
         transit' = SubSeq(transit, 1, i) \o SubSeq(transit, j + 1, Len(transit))
    /\ UNCHANGED <<sent, got, flushing, mark>>

Done ==
    /\ flushing
    /\ \A k \in DOMAIN transit : transit[k] > mark
    /\ flushing' = FALSE
    /\ UNCHANGED <<sent, transit, got, mark>>

Next == Send \/ Receive \/ Ask \/ Lose \/ Done

Spec == Init /\ [][Next]_vars
=============================================================================
