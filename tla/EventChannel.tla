---------------------------- MODULE EventChannel ----------------------------
(***************************************************************************)
(* What the push pipeline promises to those who subscribe: an ordered      *)
(* channel that delivers at least once.  Subscribers hear of an event only *)
(* after all earlier ones were done or given up, at most once per run of   *)
(* the receiver, and only as long as it is not acknowledged; only an event *)
(* that was done is acknowledged, together with those before it.           *)
(* PushPipeline shows that it implements this.                             *)
(***************************************************************************)
EXTENDS Naturals

VARIABLES
    sent,           \* the events 1..sent are in the channel
    done,           \* the events that were delivered to the end
    givenUp,        \* those of which a delivery failed
    heard,          \* how often each subscriber heard of each event
    acknowledged,   \* the events up to this one will not come again
    runs            \* runs of the receiver so far

channelVars == <<sent, done, givenUp, heard, acknowledged, runs>>

ChannelInit ==
    /\ sent = 0
    /\ done = {}
    /\ givenUp = {}
    /\ heard = [e \in DOMAIN heard |-> [s \in DOMAIN heard[e] |-> 0]]
    /\ acknowledged = 0
    /\ runs = 1

SendEvent ==
    /\ sent' = sent + 1
    /\ UNCHANGED <<done, givenUp, heard, acknowledged, runs>>

\* It is the turn of e: new or to be repeated, and nothing was left out.
InTurn(e) ==
    /\ acknowledged < e /\ e <= sent
    /\ 1..e - 1 \subseteq done \cup givenUp

Hears(s, e) ==
    /\ heard[e][s] < runs
    /\ heard' = [heard EXCEPT ![e][s] = @ + 1]

\* A subscriber hears of e, or e comes to an end, or both.
Deliver(e) ==
    /\ InTurn(e)
    /\ UNCHANGED heard \/ \E s \in DOMAIN heard[e] : Hears(s, e)
    /\ \/ UNCHANGED <<done, givenUp>>
       \/ done' = done \cup {e} /\ UNCHANGED givenUp
       \/ givenUp' = givenUp \cup {e} /\ UNCHANGED done
    /\ UNCHANGED <<sent, acknowledged, runs>>

Acknowledge(e) ==
    /\ e \in done
    /\ e > acknowledged
    /\ acknowledged' = e
    /\ UNCHANGED <<sent, done, givenUp, heard, runs>>

\* The receiver starts over behind what is acknowledged.
StartOver ==
    /\ runs' = runs + 1
    /\ UNCHANGED <<sent, done, givenUp, heard, acknowledged>>

ChannelNext ==
    \/ SendEvent
    \/ \E e \in DOMAIN heard : Deliver(e) \/ Acknowledge(e)
    \/ StartOver

ChannelSpec == ChannelInit /\ [][ChannelNext]_channelVars
=============================================================================
