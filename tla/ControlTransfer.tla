-------------------------- MODULE ControlTransfer --------------------------
(***************************************************************************)
(* What the firmware framework promises about control transfers on EP0,    *)
(* seen from the host: a request takes effect exactly once, before it is   *)
(* acknowledged; an unsupported one is stalled; the data returned are the  *)
(* ones asked for, a status word or the configuration descriptor of the    *)
(* speed the bus runs at.  A request may be given up for the next one or   *)
(* by a bus reset, and nothing of it is ever seen again, but in one case:  *)
(* a request that comes while the handler of the one before is executing   *)
(* is spoilt.  The damage ends with it, and reaches no other request.      *)
(***************************************************************************)
EXTENDS Naturals

VARIABLES
    setup,  \* the latest request
    open,   \* it has not been answered yet
    runs,   \* how many times it has taken effect
    wakeup, \* remote wakeup is allowed
    speed,  \* speed of the bus
    reply,  \* how it was answered
    spoilt  \* it came in the middle of the one before

Kinds  == {"wake_on", "wake_off", "status", "config", "unsupported"}
Speeds == {"full", "high"}

\* A configuration descriptor is found by the two halves of its address,
\* each the half of the full-speed or of the high-speed one's.
NoData == <<>>
Data == {<<b>> : b \in BOOLEAN} \cup (Speeds \X Speeds)

Reply == [setup : Kinds, how : {"ack", "stall", "none"}, data : Data \cup {NoData}]

NoReply(k) == [setup |-> k, how |-> "none", data |-> NoData]

\* The reply a request deserves after it took effect.
Expected(k, w, s) ==
    [setup |-> k,
     how   |-> IF k = "unsupported" THEN "stall" ELSE "ack",
     data  |-> CASE k = "status" -> <<w>>
                 [] k = "config" -> <<s, s>>
                 [] OTHER        -> NoData]

Init ==
    /\ setup \in Kinds /\ open = FALSE /\ runs = 0 /\ wakeup = FALSE
    /\ speed \in Speeds /\ reply = NoReply(setup) /\ spoilt = FALSE

\* A new request, in place of an open one if there is one.
Request ==
    /\ setup' \in Kinds /\ open' = TRUE /\ runs' = 0 /\ reply' = NoReply(setup')
    /\ spoilt' \in BOOLEAN
    /\ UNCHANGED <<wakeup, speed>>

\* What the request does to the device.
Effect ==
    wakeup' = CASE setup = "wake_on"  -> TRUE
                [] setup = "wake_off" -> FALSE
                [] OTHER              -> wakeup

\* The request takes effect, once.  One whose transfer a reset cut off may
\* still do so.
Perform ==
    /\ ~spoilt /\ runs = 0
    /\ runs' = 1 /\ Effect
    /\ UNCHANGED <<setup, open, speed, reply, spoilt>>

Answer ==
    /\ open /\ ~spoilt /\ runs = 1
    /\ reply' = Expected(setup, wakeup, speed)
    /\ open' = FALSE
    /\ UNCHANGED <<setup, runs, wakeup, speed, spoilt>>

\* A spoilt request takes effect once, twice or not at all ...
PerformSpoilt ==
    /\ spoilt /\ runs < 2
    /\ runs' = runs + 1
    /\ Effect \/ UNCHANGED wakeup
    /\ UNCHANGED <<setup, open, speed, reply, spoilt>>

\* ... and may be answered with what the one before deserved.
AnswerSpoilt ==
    /\ open /\ spoilt
    /\ reply' \in {r \in Reply : r.setup = setup /\ r.how # "none"}
    /\ open' = FALSE
    /\ UNCHANGED <<setup, runs, wakeup, speed, spoilt>>

\* A bus reset cuts off the open transfer; the bus may come back at another
\* speed.
Reset ==
    /\ open' = FALSE /\ speed' \in Speeds
    /\ UNCHANGED <<setup, runs, wakeup, reply, spoilt>>

Next == Request \/ Perform \/ Answer \/ PerformSpoilt \/ AnswerSpoilt \/ Reset

Spec == Init /\ [][Next]_<<setup, open, runs, wakeup, speed, reply, spoilt>>
=============================================================================
