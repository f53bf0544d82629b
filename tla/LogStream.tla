----------------------------- MODULE LogStream -----------------------------
(***************************************************************************)
(* One S2 stream, as s2-server keeps it: the streamer task that sequences  *)
(* appends and pipelines their writes (backend/streamer.rs), the replies   *)
(* it holds back until they are durable (backend/append.rs), its start     *)
(* from storage (backend/core.rs), the background deletion of trimmed      *)
(* records (backend/bgtasks/stream_trim.rs), and slatedb below them.       *)
(*                                                                         *)
(* slatedb is external: a write-ahead log "wal" whose first "flushed"      *)
(* entries are durable; a crash cuts the rest off.  A read with the filter *)
(* DurabilityLevel::Remote sees the first "flushed" entries, one with      *)
(* DurabilityLevel::Memory all of them.  Writes reach it in the order in   *)
(* which they are first polled.  Timestamps are left out.                  *)
(***************************************************************************)
EXTENDS Integers, Sequences, SequencesExt, FiniteSetsExt

CONSTANTS
    Producers,              \* the append sessions
    Scripts,                \* what clients may do: [of : Producers -> [all, in], read, faults];
                            \* bound: at most script.faults crashes, failures,
                            \* timeouts and broken connections
    Unset,                  \* no condition, no argument
    NoToken,                \* the empty fencing token of a new stream
    MaxSeq,                 \* SeqNum::MAX
    InflightMax,            \* records admitted before their replies
    MaxLag,                 \* FOLLOWER_MAX_LAG
    StallPastDormancy       \* may a write stay in flight longer than the
                            \* dormancy timeout?

ASSUME StreamAssumption ==
    /\ MaxSeq \in Nat /\ InflightMax \in Nat \ {0} /\ MaxLag \in Nat \ {0}
    /\ StallPastDormancy \in BOOLEAN

VARIABLES
    script,     \* the member of Scripts this behaviour follows
    wal,        \* slatedb: the entries written, in order
    flushed,    \* slatedb: how many of them are durable
    gone,       \* sequence numbers whose records were deleted
    dbUp,       \* is the database open?
    st,         \* the streamer, or Down
    spawned,    \* streamers spawned so far, the last one's StreamerId
    reqs,       \* every Append message and its reply
    sess,       \* the server's SessionState of each session
    follow,     \* the broadcast receiver of the reader that follows
    bg,         \* the trim task
    faults

dbVars == <<wal, flushed, gone, dbUp>>
streamVars == <<script, wal, flushed, gone, dbUp, st, spawned, reqs, sess, follow, bg, faults>>

InputOf(id) == script.of[reqs[id].p].in[reqs[id].b]

AllInputs ==
    UNION {UNION {Range(s.of[p].in) : p \in Producers} : s \in Scripts}

\* A batch is never empty; scripts give a command a batch of its own.  A trim
\* up to MaxSeq, here "terminal", deletes the stream.
IsBatch(in) ==
    /\ in.kind \in {"data", "fence", "trim", "terminal"}
    /\ in.n \in Nat \ {0} /\ (in.kind # "data" => in.n = 1)
    /\ in.match \in Nat \cup {-1}
    /\ in.kind = "trim" => in.arg \in 0..MaxSeq
    /\ in.kind = "terminal" => in.arg = MaxSeq

ASSUME ScriptAssumption ==
    /\ \A in \in AllInputs : IsBatch(in)
    /\ \A s \in Scripts, p \in Producers : s.of[p].in \in Seq(AllInputs)
    /\ \A s \in Scripts : s.faults \in Nat

--------------------------------------------------------------------------
\* The key-value view of the first k entries of the write-ahead log.

\* The last of the given entries, 0 when there is none.
LastEntry(entries) == Max({0} \cup entries)

TailAt(k) ==
    LET i == LastEntry({j \in 1..k : wal[j].op = "batch"})
    IN  IF i = 0 THEN 0 ELSE wal[i].start + wal[i].n

FenceAt(k) ==
    LET i == LastEntry({j \in 1..k : wal[j].op = "batch" /\ wal[j].fence # <<>>})
    IN  IF i = 0 THEN NoToken ELSE wal[i].fence[1]

\* The stored trim point, 0 when there is none.
TrimAt(k) ==
    LET i == LastEntry({j \in 1..k : wal[j].trim # <<>>})
    IN  IF i = 0 THEN 0 ELSE wal[i].trim[1]

ExistsAt(k) == \A i \in 1..k : wal[i].op # "drop"

\* The records that the first k entries wrote.
RecordsAt(k) ==
    UNION {{[seq |-> wal[i].start + j - 1, req |-> wal[i].req] : j \in 1..wal[i].n} : i \in 1..k}

SeqNums(records) == {r.seq : r \in records}

Visible == {r \in RecordsAt(flushed) : r.seq \notin gone}

--------------------------------------------------------------------------
\* The streamer.  A command's state carries the position up to which it
\* has been applied, "ap"; a write in flight is a request and the entry of
\* the log it became, 0 as long as it has not been polled.

Down == [up |-> FALSE]

Streamer(tail, token, trim) ==
    [up |-> TRUE, fence |-> [val |-> token, ap |-> tail], trim |-> [val |-> trim, ap |-> tail],
     stable |-> tail, next |-> tail, futs |-> <<>>, queue |-> <<>>]

NewSession == [poisoned |-> FALSE, last |-> 0]

\* Mutant: a trim point may reach beyond the end of the stream.
AppliedUncapped(s, in, seq) ==
    CASE in.kind = "fence" -> [s EXCEPT !.fence = [val |-> in.arg, ap |-> seq + 1]]
      [] in.kind \in {"trim", "terminal"} /\ s.trim.val < in.arg ->
            [s EXCEPT !.trim = [val |-> in.arg, ap |-> seq + 1]]
      [] OTHER -> s

Applied(s, in, seq) ==
    LET cap == IF in.kind = "terminal" THEN in.arg ELSE Min({in.arg, seq + 1})
    IN  CASE in.kind = "fence" -> [s EXCEPT !.fence = [val |-> in.arg, ap |-> seq + 1]]
          [] in.kind \in {"trim", "terminal"} /\ s.trim.val < cap ->
                [s EXCEPT !.trim = [val |-> cap, ap |-> seq + 1]]
          [] OTHER -> s

AppliedIn(cmd, lo, hi) == lo < cmd.ap /\ cmd.ap <= hi

\* Mutant: the fencing token stays in memory.
WriteNoFence(s, id, lo, n) ==
    [op |-> "batch", req |-> id, start |-> lo, n |-> n, fence |-> <<>>,
     trim |-> IF AppliedIn(s.trim, lo, lo + n) /\ s.trim.val # 0 THEN <<s.trim.val>> ELSE <<>>]

\* What db_write_records puts into one WriteBatch.
WriteOf(s, id, lo, n) ==
    [op |-> "batch", req |-> id, start |-> lo, n |-> n,
     fence |-> IF AppliedIn(s.fence, lo, lo + n) THEN <<s.fence.val>> ELSE <<>>,
     trim |-> IF AppliedIn(s.trim, lo, lo + n) /\ s.trim.val # 0 THEN <<s.trim.val>> ELSE <<>>]

TokenMismatch(in) == in.tok # Unset /\ in.tok # st.fence.val
SeqMismatch(in) == in.match # -1 /\ in.match # st.next

\* Mutant: a fencing mismatch is reported at once.
DependencyIgnoringFence(in) == IF TokenMismatch(in) THEN 0 ELSE st.next

\* Until which position the reply to a refused append must wait.
Dependency(in) == IF TokenMismatch(in) THEN st.fence.ap ELSE st.next

\* Mutant: a refusal waits behind every reply that is queued.
EnqueueLast(queue, entry) == Append(queue, entry)

\* A reply is queued behind those that wait for the same position or less.
Enqueue(queue, entry) ==
    LET before == Cardinality({i \in DOMAIN queue : queue[i].dep <= entry.dep})
    IN  InsertAt(queue, before + 1, entry)

Request(p, b, at, reply, dep, saw) ==
    [p |-> p, b |-> b, at |-> at, reply |-> reply, dep |-> dep, saw |-> saw]

Accept(p, b, in) ==
    LET id == Len(reqs) + 1
        lo == st.next
        hi == lo + in.n
        s == Applied(st, in, lo)
    IN  /\ reqs' = Append(reqs, Request(p, b, lo, "pending", hi, <<>>))
        /\ sess' = [sess EXCEPT ![p].last = hi]
        /\ st' = [s EXCEPT !.next = hi,
                           !.futs = Append(@, [at |-> 0, write |-> WriteOf(s, id, lo, in.n)]),
                           !.queue = Append(@, [req |-> id, dep |-> hi, ok |-> TRUE])]

\* Mutant: a refusal leaves the session usable.
RefuseOnly(p, b, in) ==
    LET dep == Max({Dependency(in), sess[p].last})
        saw == IF TokenMismatch(in) THEN <<st.fence>> ELSE <<>>
        now == dep <= st.stable
    IN  /\ reqs' = Append(reqs, Request(p, b, -1, IF now THEN "rejected" ELSE "pending", dep, saw))
        /\ st' = IF now THEN st
                 ELSE [st EXCEPT !.queue = Enqueue(@, [req |-> Len(reqs) + 1, dep |-> dep, ok |-> FALSE])]
        /\ UNCHANGED sess

Refuse(p, b, in) ==
    LET dep == Max({Dependency(in), sess[p].last})
        saw == IF TokenMismatch(in) THEN <<st.fence>> ELSE <<>>
        now == dep <= st.stable
    IN  /\ reqs' = Append(reqs, Request(p, b, -1, IF now THEN "rejected" ELSE "pending", dep, saw))
        /\ sess' = [sess EXCEPT ![p].poisoned = TRUE]
        /\ st' = IF now THEN st
                 ELSE [st EXCEPT !.queue = Enqueue(@, [req |-> Len(reqs) + 1, dep |-> dep, ok |-> FALSE])]

\* A message behind a terminal trim or in a poisoned session is dropped.
Drop(p, b) ==
    /\ reqs' = Append(reqs, Request(p, b, -1, "lost", 0, <<>>))
    /\ UNCHANGED <<st, sess>>

\* Batch b of session p passes the semaphore, is sent to the streamer and
\* handled by it.
HandleAppend(p, b) ==
    LET in == script.of[p].in[b]
        awaited == MapThenSumSet(LAMBDA id : InputOf(id).n,
                                 {id \in DOMAIN reqs : reqs[id].reply = "pending"})
    IN  /\ st.up
        /\ awaited + Min({in.n, InflightMax}) <= InflightMax
        /\ IF st.trim.val = MaxSeq \/ sess[p].poisoned THEN Drop(p, b)
           ELSE IF TokenMismatch(in) \/ SeqMismatch(in) THEN Refuse(p, b, in)
           ELSE Accept(p, b, in)
        /\ UNCHANGED <<script, dbVars, spawned, follow, bg, faults>>

--------------------------------------------------------------------------
\* Start and end of a streamer.

StartStreamer ==
    /\ ~st.up
    /\ dbUp
    /\ ExistsAt(flushed)
    /\ TrimAt(flushed) # MaxSeq
    /\ st' = Streamer(TailAt(flushed), FenceAt(flushed), TrimAt(flushed))
    /\ spawned' = spawned + 1
    /\ UNCHANGED <<script, dbVars, reqs, sess, follow, bg, faults>>

\* Requests that still wait when the streamer goes get no answer.
Unanswered == [id \in DOMAIN reqs |->
    IF reqs[id].reply = "pending" THEN [reqs[id] EXCEPT !.reply = "lost"] ELSE reqs[id]]

Exit ==
    /\ st' = Down
    /\ reqs' = Unanswered
    /\ follow' = [follow EXCEPT !.live = FALSE]

\* Mutant: the streamer does not look at its writes in flight.
DormancyInFlight ==
    /\ st.up
    /\ faults < script.faults
    /\ Exit
    /\ faults' = faults + 1
    /\ UNCHANGED <<script, dbVars, spawned, sess, bg>>

Dormancy ==
    /\ st.up
    /\ faults < script.faults
    /\ st.futs = <<>> \/ StallPastDormancy
    /\ Exit
    /\ faults' = faults + 1
    /\ UNCHANGED <<script, dbVars, spawned, sess, bg>>

--------------------------------------------------------------------------
\* The writes.

PollWrite ==
    /\ st.up /\ dbUp
    /\ \E i \in DOMAIN st.futs :
        /\ st.futs[i].at = 0
        /\ \A j \in 1..i - 1 : st.futs[j].at # 0
        /\ wal' = Append(wal, st.futs[i].write)
        /\ st' = [st EXCEPT !.futs[i].at = Len(wal) + 1]
    /\ UNCHANGED <<script, flushed, gone, dbUp, spawned, reqs, sess, follow, bg, faults>>

Flush ==
    /\ flushed < Len(wal)
    /\ flushed' = flushed + 1
    /\ UNCHANGED <<script, wal, gone, dbUp, st, spawned, reqs, sess, follow, bg, faults>>

\* Mutant: the channel of a follower is unbounded.
BroadcastUnbounded(id) == IF follow.live THEN [follow EXCEPT !.buf = Append(@, id)] ELSE follow

\* The subscriber gets a batch; a full channel forgets its oldest one.
Broadcast(id) ==
    IF ~follow.live THEN follow
    ELSE IF Len(follow.buf) < MaxLag THEN [follow EXCEPT !.buf = Append(@, id)]
    ELSE [follow EXCEPT !.buf = Append(Tail(@), id), !.lagged = TRUE]

\* Mutants: every queued reply is sent, whatever it waits for; a reply waits
\* for one position more.
UnblockedAll(stable) == DOMAIN st.queue
UnblockedBelow(stable) == {i \in DOMAIN st.queue : st.queue[i].dep < stable}

Unblocked(stable) == {i \in DOMAIN st.queue : st.queue[i].dep <= stable}

Replies(stable) == [id \in DOMAIN reqs |->
    LET mine == {i \in Unblocked(stable) : st.queue[i].req = id}
    IN  IF reqs[id].reply # "pending" \/ mine = {} THEN reqs[id]
        ELSE [reqs[id] EXCEPT !.reply = IF st.queue[CHOOSE i \in mine : TRUE].ok THEN "ok" ELSE "rejected"]]

\* The oldest write is durable: the tail moves, the replies that waited for
\* it are sent, followers get the records, and a durable terminal trim ends
\* the streamer.
CompleteWrite ==
    /\ st.up
    /\ st.futs # <<>>
    /\ LET head == Head(st.futs)
           stable == head.write.start + head.write.n
           ended == st.trim.val = MaxSeq /\ st.trim.ap = stable
           replied == Replies(stable)
           sent == Broadcast(head.write.req)
       IN  /\ head.at \in 1..flushed
           /\ reqs' = IF ended THEN [id \in DOMAIN reqs |->
                                        IF replied[id].reply = "pending"
                                        THEN [replied[id] EXCEPT !.reply = "lost"] ELSE replied[id]]
                      ELSE replied
           /\ follow' = IF ended THEN [sent EXCEPT !.live = FALSE] ELSE sent
           /\ st' = IF ended THEN Down
                    ELSE [st EXCEPT !.stable = stable, !.futs = Tail(@),
                                    !.queue = SubSeq(@, Cardinality(Unblocked(stable)) + 1, Len(@))]
    /\ UNCHANGED <<script, dbVars, spawned, sess, bg, faults>>

\* A write fails: slatedb has closed, every reply is an error and the
\* streamer ends.
FailWrite ==
    /\ st.up /\ dbUp
    /\ st.futs # <<>>
    /\ faults < script.faults
    /\ dbUp' = FALSE
    /\ Exit
    /\ faults' = faults + 1
    /\ UNCHANGED <<script, wal, flushed, gone, spawned, sess, bg>>

\* The process dies, at any time.
Crash ==
    /\ dbUp
    /\ faults < script.faults
    /\ dbUp' = FALSE
    /\ st' = Down
    /\ reqs' = Unanswered
    /\ follow' = [live |-> FALSE, lagged |-> FALSE, buf |-> <<>>]
    /\ bg' = [pc |-> "idle", point |-> 0, at |-> 0]
    /\ faults' = faults + 1
    /\ UNCHANGED <<script, wal, flushed, gone, spawned, sess>>

\* A new process opens the database and finds what was durable.
Restart ==
    /\ ~dbUp
    /\ dbUp' = TRUE
    /\ wal' = SubSeq(wal, 1, flushed)
    /\ follow' = [live |-> FALSE, lagged |-> FALSE, buf |-> <<>>]
    /\ bg' = [pc |-> "idle", point |-> 0, at |-> 0]
    /\ UNCHANGED <<script, flushed, gone, st, spawned, reqs, sess, faults>>

--------------------------------------------------------------------------
\* The trim task: list a stored trim point, delete what lies below it, and
\* remove the trim point unless a newer one has been written.

ListTrim ==
    /\ dbUp
    /\ bg.pc = "idle"
    /\ bg.at <= flushed
    /\ TrimAt(flushed) # 0
    /\ bg' = [pc |-> "delete", point |-> TrimAt(flushed), at |-> 0]
    /\ UNCHANGED <<script, dbVars, st, spawned, reqs, sess, follow, faults>>

DeleteRecords ==
    /\ dbUp
    /\ bg.pc = "delete"
    /\ gone' = gone \cup {s \in SeqNums(RecordsAt(flushed)) : s < bg.point}
    /\ bg' = [bg EXCEPT !.pc = "finalize"]
    /\ UNCHANGED <<script, wal, flushed, dbUp, st, spawned, reqs, sess, follow, faults>>

\* Mutant: the trim point is removed without a look at the current one.
FinalizeTrimBlindly ==
    /\ dbUp
    /\ bg.pc = "finalize"
    /\ wal' = Append(wal, [op |-> IF bg.point = MaxSeq THEN "drop" ELSE "trimmed",
                           req |-> 0, start |-> 0, n |-> 0, fence |-> <<>>, trim |-> <<0>>])
    /\ bg' = [pc |-> "idle", point |-> 0, at |-> Len(wal) + 1]
    /\ UNCHANGED <<script, flushed, gone, dbUp, st, spawned, reqs, sess, follow, faults>>

\* The transaction reads what is written, durable or not; a full deletion
\* does not look.  The task goes on when its commit is durable.
FinalizeTrim ==
    /\ dbUp
    /\ bg.pc = "finalize"
    /\ IF bg.point = MaxSeq \/ TrimAt(Len(wal)) = bg.point
       THEN /\ wal' = Append(wal, [op |-> IF bg.point = MaxSeq THEN "drop" ELSE "trimmed",
                                   req |-> 0, start |-> 0, n |-> 0, fence |-> <<>>, trim |-> <<0>>])
            /\ bg' = [pc |-> "idle", point |-> 0, at |-> Len(wal) + 1]
       ELSE /\ bg' = [pc |-> "idle", point |-> 0, at |-> 0]
            /\ UNCHANGED wal
    /\ UNCHANGED <<script, flushed, gone, dbUp, st, spawned, reqs, sess, follow, faults>>

StreamInit ==
    /\ script \in Scripts
    /\ wal = <<>> /\ flushed = 0 /\ gone = {} /\ dbUp = TRUE
    /\ st = Down /\ spawned = 0
    /\ reqs = <<>>
    /\ sess = [p \in Producers |-> NewSession]
    /\ follow = [live |-> FALSE, lagged |-> FALSE, buf |-> <<>>]
    /\ bg = [pc |-> "idle", point |-> 0, at |-> 0]
    /\ faults = 0

\* The steps no client takes part in.
StreamStep ==
    \/ StartStreamer \/ Dormancy
    \/ PollWrite \/ Flush \/ CompleteWrite \/ FailWrite
    \/ Crash \/ Restart
    \/ ListTrim \/ DeleteRecords \/ FinalizeTrim
=============================================================================
