----------------------------- MODULE LogSession -----------------------------
(***************************************************************************)
(* The clients of an S2 stream, composed with its streamer: append         *)
(* sessions of the SDK that pipeline batches, resend what was not          *)
(* acknowledged over a new connection and give up when their retry policy  *)
(* says so (s2-sdk/src/session/append.rs), and a read session that         *)
(* catches up from storage, follows the streamer, falls back when it lags  *)
(* and reconnects where it stopped (s2-server/src/backend/read.rs,         *)
(* s2-sdk/src/session/read.rs).                                            *)
(***************************************************************************)
EXTENDS LogStream

CONSTANT MaxRetries     \* how often the backoff of the SDK lets a session reconnect

ASSUME SessionAssumption == MaxRetries \in Nat

VARIABLES
    cl,     \* the append sessions
    rd      \* the read session

vars == <<streamVars, cl, rd>>

Batches(p) == Len(script.of[p].in)

\* acks: the requests acknowledged, one per batch; infl: batches submitted
\* and not acknowledged; sent: their requests on the current connection;
\* resend: is the session still resending after a reconnection?
NewProducer(p) ==
    [pc |-> IF Batches(p) = 0 THEN "done" ELSE "idle", id |-> 0, acks |-> <<>>, infl |-> 0, sent |-> <<>>, resend |-> FALSE,
     retries |-> 0]

Connected(c) == st.up /\ c.id = spawned

--------------------------------------------------------------------------
\* Append sessions.

Connect(p) ==
    /\ cl[p].pc = "idle"
    /\ st.up
    /\ cl' = [cl EXCEPT ![p] = [@ EXCEPT !.pc = "open", !.id = spawned, !.sent = <<>>, !.resend = cl[p].infl > 0]]
    /\ sess' = [sess EXCEPT ![p] = NewSession]
    /\ UNCHANGED <<script, dbVars, st, spawned, reqs, follow, bg, faults, rd>>

\* The stream is being deleted or has been.
Refused(p) ==
    /\ cl[p].pc = "idle"
    /\ dbUp
    /\ ~ExistsAt(flushed) \/ TrimAt(flushed) = MaxSeq
    /\ ~st.up
    /\ cl' = [cl EXCEPT ![p].pc = "failed"]
    /\ UNCHANGED <<streamVars, rd>>

\* The next batch: an unacknowledged one while the session resends, a new
\* one otherwise.
Send(p) ==
    LET c == cl[p]
        b == Len(c.acks) + Len(c.sent) + 1
    IN  /\ c.pc = "open"
        /\ Connected(c)
        /\ b <= IF c.resend THEN Len(c.acks) + c.infl ELSE Batches(p)
        /\ HandleAppend(p, b)
        /\ cl' = [cl EXCEPT ![p].sent = Append(@, Len(reqs) + 1),
                            ![p].infl = Max({@, Len(c.sent) + 1})]
        /\ UNCHANGED rd

Ack(p) ==
    LET c == cl[p]
    IN  /\ c.pc = "open"
        /\ c.sent # <<>>
        /\ reqs[Head(c.sent)].reply = "ok"
        /\ cl' = [cl EXCEPT ![p] = [c EXCEPT
                    !.pc = IF Len(c.acks) + 1 = Batches(p) THEN "done" ELSE "open",
                    !.acks = Append(@, Head(c.sent)),
                    !.infl = @ - 1,
                    !.sent = Tail(@),
                    !.retries = 0,
                    !.resend = c.resend /\ c.infl > 1]]
        /\ UNCHANGED <<streamVars, rd>>

\* May the session send its unacknowledged batches again?
RetryCompliant(p) ==
    \/ script.of[p].all
    \/ \A b \in Len(cl[p].acks) + 1..Len(cl[p].acks) + cl[p].infl : script.of[p].in[b].match # -1

\* What a session does about an error: reconnect if the error, the policy
\* and the backoff allow it, or give up.  Progress resets the backoff.
AfterError(p, retryable) ==
    LET again == retryable /\ RetryCompliant(p) /\ cl[p].retries < MaxRetries
    IN  cl' = [cl EXCEPT ![p] = [cl[p] EXCEPT !.pc = IF again THEN "idle" ELSE "failed",
                                              !.sent = <<>>,
                                              !.retries = IF again THEN @ + 1 ELSE @]]

SessionError(p) ==
    LET c == cl[p]
    IN  /\ c.pc = "open"
        /\ IF c.sent = <<>> THEN ~Connected(c) /\ AfterError(p, TRUE)
           ELSE \/ reqs[Head(c.sent)].reply = "rejected" /\ AfterError(p, FALSE)
                \/ reqs[Head(c.sent)].reply = "lost" /\ AfterError(p, TRUE)
        /\ UNCHANGED <<streamVars, rd>>

\* The connection breaks or an acknowledgement takes too long.
Disconnect(p) ==
    /\ cl[p].pc = "open"
    /\ faults < script.faults
    /\ faults' = faults + 1
    /\ reqs' = [id \in DOMAIN reqs |->
                    IF reqs[id].p = p /\ reqs[id].reply = "pending"
                    THEN [reqs[id] EXCEPT !.reply = "lost"] ELSE reqs[id]]
    /\ AfterError(p, TRUE)
    /\ UNCHANGED <<script, dbVars, st, spawned, sess, follow, bg, rd>>

--------------------------------------------------------------------------
\* The read session: "next" is start_seq_num, "tail" the last tail it was
\* told, "got" everything it has delivered.

NewReader ==
    [pc |-> IF script.read THEN "idle" ELSE "absent", id |-> 0, next |-> 0, tail |-> 0, got |-> <<>>]

OpenRead ==
    /\ rd.pc = "idle"
    /\ st.up
    /\ rd' = [rd EXCEPT !.pc = IF rd.next > st.stable THEN "unwritten" ELSE "catchup",
                        !.id = spawned, !.tail = st.stable]
    /\ UNCHANGED <<streamVars, cl>>

Below(a, b) == a.seq < b.seq \/ (a.seq = b.seq /\ a.req < b.req)

Delivered(records) == rd.got \o
    [k \in 1..Cardinality(records) |->
        CHOOSE r \in records : Cardinality({q \in records : Below(q, r)}) = k - 1]

\* Scan the durable records below the tail.
CatchUp ==
    /\ rd.pc = "catchup"
    /\ dbUp
    /\ rd.next < rd.tail
    /\ LET found == {r \in Visible : rd.next <= r.seq /\ r.seq < rd.tail}
       IN  rd' = [rd EXCEPT !.got = Delivered(found),
                            !.next = IF found = {} THEN rd.tail ELSE Max(SeqNums(found)) + 1]
    /\ UNCHANGED <<streamVars, cl>>

\* Subscribe if nothing became durable since, else learn the new tail.
Follow ==
    /\ rd.pc = "catchup"
    /\ rd.next = rd.tail
    /\ Connected(rd)
    /\ IF rd.next = st.stable
       THEN /\ follow' = [live |-> TRUE, lagged |-> FALSE, buf |-> <<>>]
            /\ rd' = [rd EXCEPT !.pc = "follow"]
       ELSE /\ rd' = [rd EXCEPT !.tail = st.stable]
            /\ UNCHANGED follow
    /\ UNCHANGED <<script, dbVars, st, spawned, reqs, sess, bg, faults, cl>>

Unsubscribed == [live |-> FALSE, lagged |-> FALSE, buf |-> <<>>]

Receive ==
    /\ rd.pc = "follow"
    /\ ~follow.lagged
    /\ follow.buf # <<>>
    /\ LET id == Head(follow.buf)
           lo == reqs[id].at
           hi == lo + InputOf(id).n
       IN  rd' = [rd EXCEPT !.got = Delivered({[seq |-> s, req |-> id] : s \in lo..hi - 1}),
                            !.next = hi, !.tail = hi]
    /\ follow' = [follow EXCEPT !.buf = Tail(@)]
    /\ UNCHANGED <<script, dbVars, st, spawned, reqs, sess, bg, faults, cl>>

\* Mutant: a reader that lagged goes on with the oldest batch that is left.
LagOn ==
    /\ rd.pc = "follow"
    /\ follow.lagged
    /\ follow' = [follow EXCEPT !.lagged = FALSE]
    /\ UNCHANGED <<script, dbVars, st, spawned, reqs, sess, bg, faults, cl, rd>>

\* Too far behind the streamer: catch up from the database.
Lag ==
    /\ rd.pc = "follow"
    /\ follow.lagged
    /\ follow' = Unsubscribed
    /\ rd' = [rd EXCEPT !.pc = "catchup"]
    /\ UNCHANGED <<script, dbVars, st, spawned, reqs, sess, bg, faults, cl>>

\* The streamer is gone: the session reconnects where it stopped.
ReadError ==
    /\ \/ rd.pc = "catchup" /\ rd.next = rd.tail /\ ~Connected(rd)
       \/ rd.pc = "catchup" /\ ~dbUp
       \/ rd.pc = "follow" /\ ~follow.lagged /\ ~follow.live /\ follow.buf = <<>>
    /\ rd' = [rd EXCEPT !.pc = "idle"]
    /\ follow' = Unsubscribed
    /\ UNCHANGED <<script, dbVars, st, spawned, reqs, sess, bg, faults, cl>>

--------------------------------------------------------------------------

Init ==
    /\ StreamInit
    /\ cl = [p \in Producers |-> NewProducer(p)]
    /\ rd = NewReader

ReaderStep == OpenRead \/ CatchUp \/ Follow \/ Receive \/ Lag \/ ReadError

ProducerStep(p) == Connect(p) \/ Refused(p) \/ Send(p) \/ Ack(p) \/ SessionError(p) \/ Disconnect(p)

Next ==
    \/ StreamStep /\ UNCHANGED <<cl, rd>>
    \/ \E p \in Producers : ProducerStep(p)
    \/ ReaderStep

Spec == Init /\ [][Next]_vars

\* Tasks on the runtime run when they can, storage makes progress, and a
\* dead server is restarted; nothing forces a fault.
Fairness ==
    /\ WF_vars((StartStreamer \/ Restart) /\ UNCHANGED <<cl, rd>>)
    /\ WF_vars((PollWrite \/ Flush \/ CompleteWrite) /\ UNCHANGED <<cl, rd>>)
    /\ WF_vars((ListTrim \/ DeleteRecords \/ FinalizeTrim) /\ UNCHANGED <<cl, rd>>)
    /\ \A p \in Producers : WF_vars(Connect(p) \/ Refused(p) \/ Send(p) \/ Ack(p) \/ SessionError(p))
    /\ WF_vars(ReaderStep)

FairSpec == Spec /\ Fairness

--------------------------------------------------------------------------
(***************************************************************************)
(* Properties.                                                             *)
(***************************************************************************)

Replied == {"pending", "ok", "rejected", "lost"}

TypeOK ==
    /\ script \in Scripts
    /\ flushed \in 0..Len(wal)
    /\ \A i \in DOMAIN wal : wal[i].op \in {"batch", "trimmed", "drop"}
    /\ gone \subseteq SeqNums(RecordsAt(flushed))
    /\ dbUp \in BOOLEAN
    /\ st.up => st.stable <= st.next /\ Len(st.futs) <= Len(st.queue)
    /\ spawned \in Nat /\ faults \in 0..script.faults
    /\ \A id \in DOMAIN reqs : reqs[id].reply \in Replied /\ reqs[id].at \in Nat \cup {-1}
    /\ sess \in [Producers -> [poisoned : BOOLEAN, last : Nat]]
    /\ Len(follow.buf) <= MaxLag
    /\ bg.pc \in {"idle", "delete", "finalize"}
    /\ \A p \in Producers :
        /\ cl[p].pc \in {"idle", "open", "done", "failed"}
        /\ cl[p].infl \in 0..Batches(p)
        /\ Len(cl[p].sent) <= cl[p].infl
    /\ rd.pc \in {"idle", "catchup", "follow", "unwritten", "absent"}

Durable == RecordsAt(flushed)

\* The records of request id stand in storage where its reply says.
StoredAt(id, at) ==
    \A i \in 1..InputOf(id).n : [seq |-> at + i - 1, req |-> id] \in Durable

\* Whatever crashed since, an acknowledged batch is in storage at the
\* acknowledged place, and the places grow in the order of the batches, as
\* process_ack asserts of every acknowledgement.
AckedIsDurable == \A p \in Producers :
    /\ \A k \in DOMAIN cl[p].acks : StoredAt(cl[p].acks[k], reqs[cl[p].acks[k]].at)
    /\ \A j, k \in DOMAIN cl[p].acks : j < k => reqs[cl[p].acks[j]].at < reqs[cl[p].acks[k]].at

\* The fencing token in force below position ap, as far as it is durable.
DurableFenceBelow(ap) ==
    LET fences == {r \in Durable : r.seq < ap /\ InputOf(r.req).kind = "fence"}
    IN  IF fences = {} THEN NoToken
        ELSE InputOf((CHOOSE r \in fences : \A s \in fences : s.seq <= r.seq).req).arg

\* Fencing and sequence numbers are checked against appends that may still be
\* lost, yet nobody is told of a refusal before what it was based on, and
\* what its session was promised before, is durable.
RejectionIsDurable == \A id \in DOMAIN reqs : reqs[id].reply = "rejected" =>
    /\ reqs[id].dep <= TailAt(flushed)
    /\ reqs[id].saw # <<>> => DurableFenceBelow(reqs[id].saw[1].ap) = reqs[id].saw[1].val

\* Nobody is forgotten: a reply that is held back is in the queue of the
\* streamer, which is in the order of what the replies wait for, and waits
\* there for a position that is assigned and not yet durable; so the writes
\* in flight answer everybody, and the semaphore gets its permits back.
NobodyForgotten ==
    /\ \A id \in DOMAIN reqs : reqs[id].reply = "pending" =>
        st.up /\ \E i \in DOMAIN st.queue : st.queue[i].req = id
    /\ st.up => \A i \in DOMAIN st.queue :
        /\ st.stable < st.queue[i].dep /\ st.queue[i].dep <= st.next
        /\ \A j \in DOMAIN st.queue : i < j => st.queue[i].dep <= st.queue[j].dep

\* Through refusals, reconnections, resends and crashes, a batch only enters
\* the stream behind the batch its session submitted before it, and one that
\* names its sequence number enters it at most once.
SessionOrder ==
    LET Of(i) == reqs[wal[i].req]
        batches == {i \in DOMAIN wal : wal[i].op = "batch"}
    IN  /\ \A i \in batches : Of(i).b > 1 =>
            \E j \in batches : j < i /\ Of(j).p = Of(i).p /\ Of(j).b = Of(i).b - 1
        /\ \A i, j \in batches :
            i # j /\ Of(i).p = Of(j).p /\ Of(i).b = Of(j).b => InputOf(wal[i].req).match = -1

\* A reader sees the durable records in order, none twice, and none is
\* skipped unless it was trimmed, however often it lags behind the streamer
\* or loses it; and no restart leaves it beyond the end of the stream.
ReaderSeesLog ==
    /\ \A i \in DOMAIN rd.got : rd.got[i] \in Durable
    /\ \A i, j \in DOMAIN rd.got : i < j => rd.got[i].seq < rd.got[j].seq
    /\ \A s \in 0..rd.next - 1 : s \in gone \/ \E i \in DOMAIN rd.got : rd.got[i].seq = s
    /\ rd.pc # "unwritten"

\* A record is deleted only if a durable command at or after it says so: a
\* trim point beyond its own command must not reach later records.
TrimmedOnlyIfAsked == \A s \in gone : \E r \in Durable :
    /\ InputOf(r.req).kind \in {"trim", "terminal"}
    /\ s <= r.seq /\ s < InputOf(r.req).arg

\* start_streamer asserts that storage has no record at or past the tail
\* position (core.rs, assert_no_records_following_tail).
NoRecordsPastTail == \A r \in Durable : r.seq < TailAt(flushed)

DurableLog == [k \in 1..TailAt(flushed) |->
    LET req == (CHOOSE r \in Durable : r.seq = k - 1).req
    IN  [req |-> req, in |-> InputOf(req)]]

Abs == INSTANCE AppendLog WITH
    log <- DurableLog,
    requests <- [id \in DOMAIN reqs |->
                    [in |-> InputOf(id), reply |-> reqs[id].reply, at |-> reqs[id].at]]

\* The streamer and its clients implement the abstract log.
ImplementsLog == Abs!AbsSpec

\* Every append session comes to an end: each batch is acknowledged, or the
\* session reports an error.
EventuallyAnswered == <>[](\A p \in Producers : cl[p].pc \in {"done", "failed"})

\* In the end every durable trim has deleted what it names and the reader
\* has seen every record that is left.
EventuallyDelivered == <>[](\A r \in Durable :
    /\ InputOf(r.req).kind \in {"trim", "terminal"} =>
        \A s \in 0..r.seq : s < InputOf(r.req).arg => s \in gone
    /\ script.read => r.seq \in gone \/ \E i \in DOMAIN rd.got : rd.got[i] = r)
=============================================================================
