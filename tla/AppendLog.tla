----------------------------- MODULE AppendLog -----------------------------
(***************************************************************************)
(* What an S2 stream promises to those who append to it: one durable       *)
(* sequence of records that only grows, on which every append takes effect *)
(* atomically, at most once and only if its fencing token and its expected *)
(* sequence number hold at that very point, and answers that tell the      *)
(* truth about it.  LogSession shows that the streamer, its pipeline of    *)
(* writes and its retrying clients implement this.                         *)
(***************************************************************************)
EXTENDS Integers, Sequences

CONSTANTS
    AllInputs,  \* the batches a client may append
    Unset,      \* no condition, no argument
    NoToken     \* the empty fencing token of a new stream

VARIABLES
    log,        \* the durable records, the k-th has sequence number k - 1
    requests    \* the appends made so far and how each was answered

absVars == <<log, requests>>

\* The fencing token in force after the records of l.
TokenAfter(l) ==
    LET fences == {k \in DOMAIN l : l[k].in.kind = "fence"}
    IN  IF fences = {} THEN NoToken
        ELSE l[CHOOSE k \in fences : \A j \in fences : j <= k].in.arg

Sealed(l) == \E k \in DOMAIN l : l[k].in.kind = "terminal"

Holds(in, l) ==
    /\ in.tok # Unset => in.tok = TokenAfter(l)
    /\ in.match # -1 => in.match = Len(l)

Committed(r) == \E k \in DOMAIN log : log[k].req = r

\* The records of request r stand in the log where its answer says.
StandsAt(r, at) ==
    \A i \in 1..requests[r].in.n :
        at + i \in DOMAIN log /\ log[at + i] = [req |-> r, in |-> requests[r].in]

AbsInit == log = <<>> /\ requests = <<>>

AbsSubmit ==
    /\ Len(requests') = Len(requests) + 1
    /\ SubSeq(requests', 1, Len(requests)) = requests
    /\ requests'[Len(requests')].in \in AllInputs
    /\ requests'[Len(requests')].reply \in {"pending", "rejected", "lost"}
    /\ UNCHANGED log

AbsCommit(r) ==
    /\ requests[r].reply \in {"pending", "lost"}
    /\ ~Committed(r)
    /\ ~Sealed(log)
    /\ Holds(requests[r].in, log)
    /\ log' = log \o [i \in 1..requests[r].in.n |-> [req |-> r, in |-> requests[r].in]]
    /\ UNCHANGED requests

\* Any number of pending requests is answered at once; "lost" says nothing.
AbsAnswer ==
    /\ DOMAIN requests' = DOMAIN requests
    /\ \A r \in DOMAIN requests :
        \/ requests'[r] = requests[r]
        \/ \E reply \in {"ok", "rejected", "lost"} :
            /\ requests[r].reply = "pending"
            /\ requests'[r] = [requests[r] EXCEPT !.reply = reply]
            /\ reply = "ok" => StandsAt(r, requests[r].at)
            /\ reply = "rejected" => ~Committed(r)
    /\ UNCHANGED log

AbsNext == AbsSubmit \/ AbsAnswer \/ \E r \in DOMAIN requests : AbsCommit(r)

AbsSpec == AbsInit /\ [][AbsNext]_absVars
=============================================================================
