-------------------------- MODULE LogSessionProofs --------------------------
(***************************************************************************)
(* Proofs about LogSession, for any scripts, append sessions, faults and   *)
(* limits, as long as no write outlasts the dormancy timeout               *)
(* (~StallPastDormancy).                                                   *)
(***************************************************************************)
EXTENDS LogSession, FiniteSetTheorems, SequenceTheorems, NaturalsInduction, TLAPS

-----------------------------------------------------------------------------
(* The set operators *)

\* Bounded sets of numbers have a largest member.
LEMMA LargestExists ==
    ASSUME NEW S \in SUBSET Nat, NEW b \in Nat, NEW e \in S,
           \A s \in S : s <= b
    PROVE  Max(S) \in S /\ \A s \in S : Max(S) >= s
<1> DEFINE T == {k \in Nat : k <= b /\ b - k \in S}
<1>1. b - e \in T /\ T \subseteq Nat
  OBVIOUS
<1>2. PICK k \in T : \A j \in T : ~(<<j, k>> \in OpToRel(<, Nat))
  BY <1>1, NatLessThanWellFounded, WFMin
<1>3. \A j \in T : ~(j < k)
  BY <1>2 DEF OpToRel
<1>4. b - k \in S
  OBVIOUS
<1>5. \A s \in S : b - k >= s
  <2> SUFFICES ASSUME NEW s \in S
               PROVE  b - k >= s
    OBVIOUS
  <2>1. b - s \in T
    OBVIOUS
  <2> QED
    BY <1>3, <2>1
<1> QED
  BY <1>4, <1>5 DEF Max

\* The larger and the smaller of two numbers.
LEMMA MinMaxOfTwo ==
    ASSUME NEW a \in Int, NEW b \in Int
    PROVE  /\ Max({a, b}) \in {a, b} /\ Max({a, b}) >= a /\ Max({a, b}) >= b
           /\ Min({a, b}) \in {a, b} /\ Min({a, b}) <= a /\ Min({a, b}) <= b
<1>1. (\E x \in {a, b} : \A y \in {a, b} : x >= y)
      /\ (\E x \in {a, b} : \A y \in {a, b} : x =< y)
  <2>1. CASE a <= b
    BY <2>1
  <2>2. CASE b <= a
    BY <2>2
  <2> QED
    BY <2>1, <2>2
<1>2. Min({a, b}) \in {a, b} /\ \A y \in {a, b} : Min({a, b}) =< y
  BY <1>1 DEF Min
<1>3. Max({a, b}) \in {a, b} /\ \A y \in {a, b} : Max({a, b}) >= y
  BY <1>1 DEF Max
<1> QED
  BY <1>2, <1>3

-----------------------------------------------------------------------------
(* Types *)

Tokens == {NoToken} \cup {in.arg : in \in AllInputs}

Entry == [op : {"batch", "trimmed", "drop"}, req : Nat, start : Nat, n : Nat,
          fence : Seq(Tokens), trim : Seq(Nat)]

FenceState == [val : Tokens, ap : Nat]

Fut == [at : Nat, write : Entry]

Waiter == [req : Nat, dep : Nat, ok : BOOLEAN]

Streaming ==
    [up : {TRUE}, fence : FenceState, trim : [val : Nat, ap : Nat],
     stable : Nat, next : Nat, futs : Seq(Fut),
     queue : Seq(Waiter)]

Message == [p : Producers, b : Nat \ {0}, at : Nat \cup {-1}, reply : Replied,
            dep : Nat, saw : Seq(FenceState)]

Session == [poisoned : BOOLEAN, last : Nat]

Client == [pc : {"idle", "open", "done", "failed"}, id : Nat, acks : Seq(Nat),
           infl : Int, sent : Seq(Nat), resend : BOOLEAN, retries : Nat]

Trimmer == [pc : {"idle", "delete", "finalize"}, point : Nat, at : Nat]

Types ==
    /\ script \in Scripts
    /\ wal \in Seq(Entry) /\ flushed \in 0..Len(wal)
    /\ dbUp \in BOOLEAN /\ spawned \in Nat
    /\ st \in {Down} \cup Streaming
    /\ reqs \in Seq(Message)
    /\ \A id \in DOMAIN reqs : reqs[id].b \in 1..Batches(reqs[id].p)
    /\ sess \in [Producers -> Session]
    /\ cl \in [Producers -> Client]
    /\ \A p \in Producers : Len(cl[p].acks) + cl[p].infl <= Batches(p)
    /\ bg \in Trimmer

-----------------------------------------------------------------------------
(* The write-ahead log and the streamer.  Q, W, F and N stand for reqs, wal, *)
(* flushed and the length of a log.                                        *)

End(w) == w.start + w.n

Batched == {i \in 1..Len(wal) : wal[i].op = "batch"}

\* An entry is the write of an accepted request.
WriteFor(w) ==
    /\ w.op = "batch"
    /\ w.req \in DOMAIN reqs
    /\ w.start = reqs[w.req].at /\ w.n = InputOf(w.req).n

\* The batches in the log are of different requests, one behind the other.
Laid ==
    /\ \A i \in Batched : WriteFor(wal[i])
    /\ \A i \in 1..Len(wal) : i \notin Batched => wal[i].n = 0
    /\ \A i, j \in Batched : i < j => End(wal[i]) <= wal[j].start

Polled(k) == st.futs[k].at # 0

\* The writes in flight lead from the durable tail to the assigned one.
Chain ==
    /\ st.futs = <<>> => st.next = st.stable
    /\ st.futs # <<>> =>
        /\ st.futs[1].write.start = st.stable
        /\ End(st.futs[Len(st.futs)].write) = st.next
    /\ \A k \in 1..Len(st.futs) - 1 :
        st.futs[k + 1].write.start = End(st.futs[k].write)
    /\ \A j, k \in DOMAIN st.futs :
        j < k => End(st.futs[j].write) <= st.futs[k].write.start
    /\ \A k \in DOMAIN st.futs :
        /\ st.stable <= st.futs[k].write.start
        /\ End(st.futs[k].write) <= st.next
    /\ st.stable <= st.next

InFlight ==
    \A k \in DOMAIN st.futs :
        /\ WriteFor(st.futs[k].write)
        /\ Polled(k) => st.futs[k].at \in Batched
                        /\ wal[st.futs[k].at] = st.futs[k].write
        /\ ~Polled(k) => \A j \in DOMAIN st.futs : k < j => ~Polled(j)

\* What is in the log is durable and below the tail, or in flight.
Accounted ==
    /\ \A i \in Batched :
        \/ i <= flushed /\ End(wal[i]) <= st.stable
        \/ \E k \in DOMAIN st.futs : st.futs[k].at = i
    /\ st.stable <= TailAt(flushed)

\* A terminal trim is the last thing accepted.
LastIsTerminal == st.trim.val = MaxSeq => st.trim.ap = st.next

Upright == Chain /\ InFlight /\ Accounted /\ LastIsTerminal

\* Between two streamers nothing is on its way to storage.
Settled ==
    /\ st.up => dbUp
    /\ ~st.up /\ dbUp => \A i \in Batched : i <= flushed

Placed(id) == \E i \in Batched : i <= flushed /\ wal[i].req = id

-----------------------------------------------------------------------------
(* Requests and sessions *)

\* A reply that is held back waits for its own write, which is in flight or
\* durable, or for what the refusal said.
Held ==
    \A k \in DOMAIN st.queue :
        LET e == st.queue[k]
        IN  /\ e.req \in DOMAIN reqs
            /\ e.ok =>
                /\ reqs[e.req].at # -1
                /\ e.dep = reqs[e.req].at + InputOf(e.req).n
                /\ \/ \E j \in DOMAIN st.futs : st.futs[j].write.req = e.req
                   \/ Placed(e.req)
            /\ ~e.ok => reqs[e.req].at = -1 /\ e.dep = reqs[e.req].dep

Truthful ==
    \A id \in DOMAIN reqs :
        /\ reqs[id].reply = "ok" => reqs[id].at # -1 /\ Placed(id)
        /\ reqs[id].reply = "rejected" =>
            reqs[id].at = -1 /\ reqs[id].dep <= TailAt(flushed)
        /\ reqs[id].reply = "pending" => st.up
        /\ reqs[id].reply = "pending" /\ reqs[id].at # -1 =>
            reqs[id].at + InputOf(id).n <= st.next

\* Positions grow with the requests, but for those that were lost.
Growing ==
    \A i, j \in DOMAIN reqs :
        i < j /\ reqs[i].reply \in {"ok", "pending"}
              /\ reqs[i].at # -1 /\ reqs[j].at # -1
        => reqs[i].at + InputOf(i).n <= reqs[j].at

Increasing(s) == \A i, j \in DOMAIN s : i < j => s[i] < s[j]

Acknowledged ==
    \A p \in Producers :
        /\ \A k \in DOMAIN cl[p].sent : cl[p].sent[k] \in DOMAIN reqs
        /\ \A k \in DOMAIN cl[p].acks :
            /\ cl[p].acks[k] \in DOMAIN reqs
            /\ reqs[cl[p].acks[k]].reply = "ok"
            /\ \A j \in DOMAIN cl[p].sent : cl[p].acks[k] < cl[p].sent[j]
        /\ Increasing(cl[p].acks) /\ Increasing(cl[p].sent)

Inv ==
    /\ Types
    /\ Laid /\ Settled /\ (st.up => Upright /\ Held)
    /\ Truthful /\ Growing /\ Acknowledged

-----------------------------------------------------------------------------
(* The log *)

LEMMA InputFacts ==
    ASSUME Types, NEW id \in DOMAIN reqs
    PROVE  /\ InputOf(id) \in AllInputs /\ IsBatch(InputOf(id))
           /\ InputOf(id).n \in Nat /\ InputOf(id).n > 0
<1>1. reqs[id].p \in Producers /\ reqs[id].b \in 1..Batches(reqs[id].p)
  <2>1. reqs \in Seq(Message) /\ reqs[id].b \in 1..Batches(reqs[id].p)
    BY DEF Types
  <2>2. reqs[id] \in Message
    BY <2>1
  <2> QED
    BY <2>1, <2>2 DEF Message
<1>2. script.of[reqs[id].p].in \in Seq(AllInputs)
  BY <1>1, ScriptAssumption DEF Types
<1>3. InputOf(id) \in AllInputs
  BY <1>1, <1>2 DEF InputOf, Batches
<1>4. IsBatch(InputOf(id))
  BY <1>3, ScriptAssumption
<1> QED
  BY <1>3, <1>4 DEF IsBatch

\* What TailAt finds: the end of the last batch among the first k entries.
LEMMA TailFacts ==
    ASSUME wal \in Seq(Entry), NEW k \in 0..Len(wal)
    PROVE  /\ TailAt(k) \in Nat
           /\ \/ /\ \A j \in Batched : j > k
                 /\ TailAt(k) = 0
              \/ \E i \in Batched :
                    /\ i <= k /\ TailAt(k) = End(wal[i])
                    /\ \A j \in Batched : j <= k => j <= i
<1> DEFINE S == {j \in 1..k : wal[j].op = "batch"}
           i == LastEntry(S)
<1>1. k \in Nat /\ Len(wal) \in Nat /\ k <= Len(wal)
  OBVIOUS
<1>2. TailAt(k) = IF i = 0 THEN 0 ELSE wal[i].start + wal[i].n
  BY DEF TailAt
<1>3. i \in {0} \cup S /\ \A j \in {0} \cup S : i >= j
  <2>1. {0} \cup S \in SUBSET Nat /\ 0 \in {0} \cup S
    BY <1>1
  <2>2. \A j \in {0} \cup S : j <= k
    BY <1>1
  <2> HIDE DEF S
  <2> QED
    BY <1>1, <2>1, <2>2, LargestExists DEF LastEntry
<1>4. \A j \in Batched : j <= k => j \in S
  BY <1>1 DEF Batched
<1>5. S \subseteq Batched /\ \A j \in S : j \in 1..Len(wal) /\ j <= k
  BY <1>1 DEF Batched
<1> HIDE DEF S, i
<1>6. CASE i = 0
  <2>1. \A j \in Batched : j > k
    <3> SUFFICES ASSUME NEW j \in Batched, ~(j > k)
                 PROVE  FALSE
      OBVIOUS
    <3>1. j \in S
      BY <1>1, <1>4 DEF Batched
    <3> QED
      BY <1>3, <1>5, <1>6, <3>1
  <2> QED
    BY <1>2, <1>6, <2>1
<1>7. CASE i # 0
  <2>1. i \in S /\ i \in Batched /\ i <= k
    BY <1>3, <1>5, <1>7
  <2>2. TailAt(k) = End(wal[i])
    BY <1>2, <1>7 DEF End
  <2>3. End(wal[i]) \in Nat
    <3>1. wal[i] \in Entry
      BY <1>5, <2>1
    <3> QED
      BY SMTT(30), <3>1 DEF End, Entry
  <2>4. \A j \in Batched : j <= k => j <= i
    BY <1>3, <1>4
  <2> QED
    BY <2>1, <2>2, <2>3, <2>4
<1> QED
  BY <1>6, <1>7

\* Batches have their places in the log as numbers.
LEMMA BatchTypes ==
    ASSUME Types, Laid, NEW i \in Batched
    PROVE  /\ i \in Nat /\ i \in 1..Len(wal) /\ wal[i] \in Entry
           /\ wal[i].start \in Nat /\ wal[i].n \in Nat /\ wal[i].n > 0
           /\ End(wal[i]) \in Nat /\ wal[i].start < End(wal[i])
           /\ WriteFor(wal[i])
<1>1. i \in Nat /\ i \in 1..Len(wal) /\ wal[i] \in Entry
  BY DEF Batched, Types
<1>2. WriteFor(wal[i])
  BY DEF Laid
<1>3. wal[i].start \in Nat /\ wal[i].n \in Nat /\ wal[i].n > 0
  BY <1>1, <1>2, InputFacts DEF WriteFor, Entry
<1> QED
  BY <1>1, <1>2, <1>3 DEF End

LEMMA TailBeyond ==
    ASSUME Types, Laid, NEW k \in 0..Len(wal), NEW j \in Batched, j <= k
    PROVE  End(wal[j]) <= TailAt(k)
<1>1. PICK i \in Batched :
        /\ i <= k /\ TailAt(k) = End(wal[i])
        /\ \A l \in Batched : l <= k => l <= i
  <2>1. wal \in Seq(Entry)
    BY DEF Types
  <2>2. ~(j > k)
    BY BatchTypes
  <2> QED
    BY <2>1, <2>2, TailFacts
<1>2. j <= i
  BY <1>1
<1>3. CASE j = i
  BY <1>1, <1>3, BatchTypes
<1>4. CASE j < i
  <2>1. End(wal[j]) <= wal[i].start
    BY <1>4 DEF Laid
  <2> QED
    BY <1>1, <2>1, BatchTypes
<1> QED
  BY <1>2, <1>3, <1>4, BatchTypes

LEMMA TailLeast ==
    ASSUME Types, NEW k \in 0..Len(wal), NEW x \in Nat,
           \A j \in Batched : j <= k => End(wal[j]) <= x
    PROVE  TailAt(k) <= x
BY TailFacts DEF Types

\* TailAt looks at the first k entries only.
LEMMA TailSame ==
    ASSUME NEW k \in Nat, \A i \in 1..k : wal'[i] = wal[i]
    PROVE  TailAt(k)' = TailAt(k)
<1> DEFINE S == {j \in 1..k : wal[j].op = "batch"}
           i == LastEntry(S)
<1>1. {j \in 1..k : wal'[j].op = "batch"} = S
  OBVIOUS
<1>2. TailAt(k)' = IF i = 0 THEN 0 ELSE wal'[i].start + wal'[i].n
  BY <1>1 DEF TailAt
<1>3. TailAt(k) = IF i = 0 THEN 0 ELSE wal[i].start + wal[i].n
  BY DEF TailAt
<1>4. i = 0 \/ i \in 1..k
  <2>1. {0} \cup S \in SUBSET Nat /\ 0 \in {0} \cup S
    OBVIOUS
  <2>2. \A j \in {0} \cup S : j <= k
    OBVIOUS
  <2>3. S \subseteq 1..k
    OBVIOUS
  <2> HIDE DEF S
  <2>4. i \in {0} \cup S
    BY <2>1, <2>2, LargestExists DEF LastEntry
  <2> HIDE DEF i
  <2> QED
    BY <2>3, <2>4
<1> HIDE DEF i
<1> QED
  BY <1>2, <1>3, <1>4

\* What later steps need of the log, as one state formula.
LogFacts ==
    \A k \in 0..Len(wal) :
        /\ TailAt(k) \in Nat
        /\ \A j \in Batched : j <= k => End(wal[j]) <= TailAt(k)

LEMMA LogFactsHold == Types /\ Laid => LogFacts
<1> SUFFICES ASSUME Types, Laid, NEW k \in 0..Len(wal)
             PROVE  /\ TailAt(k) \in Nat
                    /\ \A j \in Batched : j <= k => End(wal[j]) <= TailAt(k)
  BY DEF LogFacts
<1>1. TailAt(k) \in Nat
  BY TailFacts DEF Types
<1> QED
  BY <1>1, TailBeyond

LEMMA LogFactsNext == Types' /\ Laid' => LogFacts'
BY LogFactsHold, PTL

\* The durable part of the log stays as it is and may get longer.
Durably ==
    /\ flushed' \in Nat /\ flushed <= flushed'
    /\ \A i \in 1..flushed : wal'[i] = wal[i]

LEMMA DurablyKeeps ==
    ASSUME Types, Laid, Types', Laid', Durably
    PROVE  /\ TailAt(flushed) \in Nat /\ TailAt(flushed)' \in Nat
           /\ TailAt(flushed) <= TailAt(flushed)'
           /\ \A id : Placed(id) => Placed(id)'
<1>1. wal \in Seq(Entry) /\ flushed \in 0..Len(wal) /\ flushed \in Nat
      /\ wal' \in Seq(Entry) /\ flushed' \in 0..Len(wal') /\ flushed' \in Nat
  <2>1. wal \in Seq(Entry) /\ flushed \in 0..Len(wal)
    BY DEF Types
  <2>2. wal' \in Seq(Entry) /\ flushed' \in 0..Len(wal')
    BY DEF Types
  <2> QED
    BY <2>1, <2>2
<1>2. LogFacts /\ LogFacts'
  BY LogFactsHold, LogFactsNext
<1>3. \A j \in Batched : j <= flushed =>
        j \in Batched' /\ j <= flushed' /\ wal'[j] = wal[j]
  BY <1>1 DEF Batched, Durably
<1>4. \A j \in Batched : j <= flushed => End(wal[j]) <= TailAt(flushed)'
  BY <1>1, <1>2, <1>3 DEF LogFacts, End
<1>5. TailAt(flushed) \in Nat /\ TailAt(flushed)' \in Nat
  BY <1>1, <1>2 DEF LogFacts
<1>6. TailAt(flushed) <= TailAt(flushed)'
  BY <1>1, <1>4, <1>5, TailLeast
<1>7. \A id : Placed(id) => Placed(id)'
  BY <1>3 DEF Placed
<1> QED
  BY <1>5, <1>6, <1>7

-----------------------------------------------------------------------------
(* Replies *)

\* Some of the pending requests are answered.
Answered ==
    /\ script' = script
    /\ reqs' \in Seq(Message)
    /\ DOMAIN reqs' = DOMAIN reqs
    /\ \A id \in DOMAIN reqs :
        /\ reqs'[id].p = reqs[id].p /\ reqs'[id].b = reqs[id].b
        /\ reqs'[id].at = reqs[id].at /\ reqs'[id].dep = reqs[id].dep
        /\ reqs'[id].saw = reqs[id].saw
        /\ reqs[id].reply # "pending" => reqs'[id].reply = reqs[id].reply

LEMMA AnsweredForm ==
    ASSUME reqs \in Seq(Message), script' = script,
           NEW reply \in [DOMAIN reqs -> Replied],
           \A id \in DOMAIN reqs :
               reqs[id].reply # "pending" => reply[id] = reqs[id].reply,
           reqs' = [id \in DOMAIN reqs |-> [reqs[id] EXCEPT !.reply = reply[id]]]
    PROVE  Answered
<1>1. \A id \in DOMAIN reqs : reqs[id] \in Message
  OBVIOUS
<1>2. \A id \in DOMAIN reqs :
        /\ reqs'[id] \in Message
        /\ reqs'[id].p = reqs[id].p /\ reqs'[id].b = reqs[id].b
        /\ reqs'[id].at = reqs[id].at /\ reqs'[id].dep = reqs[id].dep
        /\ reqs'[id].saw = reqs[id].saw /\ reqs'[id].reply = reply[id]
  BY <1>1 DEF Message
<1>3. DOMAIN reqs = 1..Len(reqs) /\ Len(reqs) \in Nat
  OBVIOUS
<1>4. reqs' \in Seq(Message)
  BY <1>2, <1>3, IsASeq
<1> QED
  BY <1>2, <1>4 DEF Answered

LEMMA FunctionIsSeq ==
    ASSUME NEW S, NEW n \in Nat, NEW f \in [1..n -> S]
    PROVE  f \in Seq(S) /\ Len(f) = n
BY SeqDef, LenProperties

LEMMA SameInput ==
    ASSUME script' = script, NEW id,
           reqs'[id].p = reqs[id].p, reqs'[id].b = reqs[id].b
    PROVE  InputOf(id)' = InputOf(id)
BY DEF InputOf

LEMMA AnsweredKeeps ==
    ASSUME Types, Answered
    PROVE  /\ \A id \in DOMAIN reqs : InputOf(id)' = InputOf(id)
           /\ \A id \in DOMAIN reqs' : (reqs[id].b \in 1..Batches(reqs[id].p))'
           /\ Growing => Growing'
           /\ Acknowledged /\ cl' = cl => Acknowledged'
           /\ Laid /\ wal' = wal => Laid'
<1>1. \A id \in DOMAIN reqs : InputOf(id)' = InputOf(id)
  BY SameInput DEF Answered
<1>2. \A id \in DOMAIN reqs' : (reqs[id].b \in 1..Batches(reqs[id].p))'
  <2>1. \A id \in DOMAIN reqs : reqs[id].b \in 1..Len(script.of[reqs[id].p].in)
    BY DEF Types, Batches
  <2>2. ASSUME NEW id \in DOMAIN reqs'
        PROVE  (reqs[id].b \in 1..Batches(reqs[id].p))'
    <3>1. id \in DOMAIN reqs /\ reqs'[id].p = reqs[id].p /\ reqs'[id].b = reqs[id].b
          /\ script' = script
      BY <2>2 DEF Answered
    <3> QED
      BY <2>1, <3>1 DEF Batches
  <2> QED
    BY <2>2
<1>3. ASSUME Growing PROVE Growing'
  BY <1>1, <1>3 DEF Growing, Answered
<1>4. ASSUME Acknowledged, cl' = cl PROVE Acknowledged'
  BY <1>4 DEF Acknowledged, Answered, Increasing
<1>5. ASSUME Laid, wal' = wal PROVE Laid'
  <2>1. Batched' = Batched
    BY <1>5 DEF Batched
  <2>2. \A w : WriteFor(w) => WriteFor(w)'
    BY <1>1 DEF WriteFor, Answered
  <2> QED
    BY <1>5, <2>1, <2>2 DEF Laid, End
<1> QED
  BY <1>1, <1>2, <1>3, <1>4, <1>5

\* A streamer that ends leaves nobody waiting.
LEMMA UnansweredIs ==
    ASSUME Types, script' = script, reqs' = Unanswered
    PROVE  /\ Answered
           /\ \A id \in DOMAIN reqs :
                reqs'[id].reply = IF reqs[id].reply = "pending" THEN "lost" ELSE reqs[id].reply
<1> DEFINE reply == [id \in DOMAIN reqs |->
                        IF reqs[id].reply = "pending" THEN "lost" ELSE reqs[id].reply]
<1>1. reqs \in Seq(Message)
  BY DEF Types
<1>2. \A id \in DOMAIN reqs : reqs[id] \in Message
  BY <1>1
<1>3. \A id \in DOMAIN reqs : reqs[id].reply \in Replied
  BY <1>2 DEF Message
<1>4. reply \in [DOMAIN reqs -> Replied]
  BY <1>3 DEF Replied
<1>5. \A id \in DOMAIN reqs :
        [reqs[id] EXCEPT !.reply = reply[id]]
        = IF reqs[id].reply = "pending" THEN [reqs[id] EXCEPT !.reply = "lost"] ELSE reqs[id]
  BY <1>2 DEF Message
<1>6. reqs' = [id \in DOMAIN reqs |-> [reqs[id] EXCEPT !.reply = reply[id]]]
  BY <1>5 DEF Unanswered
<1>7. \A id \in DOMAIN reqs : reqs[id].reply # "pending" => reply[id] = reqs[id].reply
  OBVIOUS
<1>8. \A id \in DOMAIN reqs : reqs'[id].reply = reply[id]
  BY <1>2, <1>6 DEF Message
<1> HIDE DEF reply
<1>9. Answered
  BY <1>1, <1>4, <1>6, <1>7, AnsweredForm
<1> QED
  BY <1>8, <1>9 DEF reply

\* The end of a streamer with nothing in flight, or together with the database.
LEMMA EndKeeps ==
    ASSUME Inv, script' = script, wal' = wal, flushed' = flushed,
           st' = Down, reqs' = Unanswered, cl' = cl, sess' = sess,
           spawned' = spawned, dbUp' \in BOOLEAN, bg' \in Trimmer,
           dbUp' => \A i \in Batched : i <= flushed
    PROVE  Inv'
<1>1. Types /\ Laid /\ Truthful /\ Growing /\ Acknowledged
  BY DEF Inv
<1>2. Answered /\ \A id \in DOMAIN reqs :
        reqs'[id].reply = IF reqs[id].reply = "pending" THEN "lost" ELSE reqs[id].reply
  BY <1>1, UnansweredIs
<1>3. /\ \A id \in DOMAIN reqs : InputOf(id)' = InputOf(id)
      /\ \A id \in DOMAIN reqs' : (reqs[id].b \in 1..Batches(reqs[id].p))'
      /\ Growing' /\ Acknowledged' /\ Laid'
  BY <1>1, <1>2, AnsweredKeeps
<1>4. Types'
  <2>1. reqs' \in Seq(Message)
    BY <1>2 DEF Answered
  <2> QED
    BY <1>1, <1>3, <2>1 DEF Types, Batches
<1>5. Settled'
  BY DEF Settled, Down, Batched
<1>6. TailAt(flushed)' = TailAt(flushed) /\ \A id : Placed(id)' = Placed(id)
  BY DEF TailAt, Placed, Batched
<1>7. Truthful'
  BY <1>1, <1>2, <1>3, <1>6 DEF Truthful, Answered
<1> QED
  BY <1>3, <1>4, <1>5, <1>7 DEF Inv, Down

LEMMA DormancyKeeps == ~StallPastDormancy /\ Inv /\ Dormancy /\ UNCHANGED <<cl, rd>> => Inv'
<1> SUFFICES ASSUME ~StallPastDormancy, Inv, Dormancy, UNCHANGED <<cl, rd>>
             PROVE  Inv'
  OBVIOUS
<1>1. Types /\ Settled /\ st.up /\ Accounted /\ st.futs = <<>>
  BY DEF Inv, Dormancy, Upright
<1>2. dbUp' = dbUp /\ bg' = bg /\ dbUp \in BOOLEAN /\ bg \in Trimmer
  BY <1>1 DEF Dormancy, Types, dbVars
<1>3. \A i \in Batched : i <= flushed
  BY <1>1 DEF Accounted
<1> QED
  BY <1>2, <1>3, EndKeeps DEF Dormancy, Exit, dbVars

LEMMA FailWriteKeeps == Inv /\ FailWrite /\ UNCHANGED <<cl, rd>> => Inv'
<1> SUFFICES ASSUME Inv, FailWrite, UNCHANGED <<cl, rd>>
             PROVE  Inv'
  OBVIOUS
<1>1. bg' \in Trimmer
  BY DEF Inv, Types, FailWrite
<1> QED
  BY <1>1, EndKeeps DEF FailWrite, Exit

LEMMA CrashKeeps == Inv /\ Crash /\ UNCHANGED <<cl, rd>> => Inv'
<1> SUFFICES ASSUME Inv, Crash, UNCHANGED <<cl, rd>>
             PROVE  Inv'
  OBVIOUS
<1>1. bg' \in Trimmer
  BY DEF Crash, Trimmer
<1> QED
  BY <1>1, EndKeeps DEF Crash

-----------------------------------------------------------------------------
(* Storage *)

LEMMA LastEntryIn ==
    ASSUME NEW k \in Nat, NEW S \in SUBSET (1..k)
    PROVE  LastEntry(S) \in {0} \cup S
<1>1. {0} \cup S \in SUBSET Nat /\ 0 \in {0} \cup S
  OBVIOUS
<1>2. \A j \in {0} \cup S : j <= k
  OBVIOUS
<1> QED
  BY <1>1, <1>2, LargestExists DEF LastEntry

LEMMA StoredCommands ==
    ASSUME wal \in Seq(Entry), NEW k \in 0..Len(wal)
    PROVE  FenceAt(k) \in Tokens /\ TrimAt(k) \in Nat
<1>1. k \in Nat /\ \A i \in 1..k : wal[i] \in Entry
  OBVIOUS
<1>2. FenceAt(k) \in Tokens
  <2> DEFINE S == {j \in 1..k : wal[j].op = "batch" /\ wal[j].fence # <<>>}
             i == LastEntry(S)
  <2>1. i \in {0} \cup S
    BY <1>1, LastEntryIn
  <2>2. FenceAt(k) = IF i = 0 THEN NoToken ELSE wal[i].fence[1]
    BY DEF FenceAt
  <2>3. ASSUME i \in S PROVE wal[i].fence[1] \in Tokens
    <3>1. wal[i] \in Entry /\ wal[i].fence # <<>>
      BY <1>1, <2>3
    <3>2. wal[i].fence \in Seq(Tokens) /\ wal[i].fence # <<>>
      BY <3>1 DEF Entry
    <3> QED
      BY <3>2
  <2>4. NoToken \in Tokens
    BY DEF Tokens
  <2> HIDE DEF i, S
  <2> QED
    BY <2>1, <2>2, <2>3, <2>4
<1>3. TrimAt(k) \in Nat
  <2> DEFINE S == {j \in 1..k : wal[j].trim # <<>>}
             i == LastEntry(S)
  <2>1. i \in {0} \cup S
    BY <1>1, LastEntryIn
  <2>2. TrimAt(k) = IF i = 0 THEN 0 ELSE wal[i].trim[1]
    BY DEF TrimAt
  <2>3. ASSUME i \in S PROVE wal[i].trim[1] \in Nat
    <3>1. wal[i] \in Entry /\ wal[i].trim # <<>>
      BY <1>1, <2>3
    <3>2. wal[i].trim \in Seq(Nat) /\ wal[i].trim # <<>>
      BY <3>1 DEF Entry
    <3> QED
      BY <3>2
  <2> HIDE DEF i, S
  <2> QED
    BY <2>1, <2>2, <2>3
<1> QED
  BY <1>2, <1>3

LEMMA StartKeeps == Inv /\ StartStreamer /\ UNCHANGED <<cl, rd>> => Inv'
<1> SUFFICES ASSUME Inv, StartStreamer, UNCHANGED <<cl, rd>>
             PROVE  Inv'
  OBVIOUS
<1> DEFINE T == TailAt(flushed)
<1>1. Types /\ Laid /\ Settled /\ Truthful /\ Growing /\ Acknowledged /\ ~st.up /\ dbUp
  BY DEF Inv, StartStreamer
<1>2. UNCHANGED <<script, wal, flushed, dbUp, reqs, sess, cl, bg>> /\ spawned' = spawned + 1
  BY DEF StartStreamer, dbVars
<1>3. wal \in Seq(Entry) /\ flushed \in 0..Len(wal)
  BY <1>1 DEF Types
<1>4. T \in Nat /\ FenceAt(flushed) \in Tokens /\ TrimAt(flushed) \in Nat
      /\ TrimAt(flushed) # MaxSeq
  BY <1>1, <1>3, TailFacts, StoredCommands DEF StartStreamer
<1>5. T' = T /\ \A id : Placed(id)' = Placed(id)
  BY <1>2 DEF TailAt, Placed, Batched
<1> HIDE DEF T
<1>6. /\ st' \in Streaming /\ st'.up
      /\ st'.trim.val # MaxSeq
      /\ st'.stable = T /\ st'.next = T /\ st'.futs = <<>> /\ st'.queue = <<>>
  BY <1>4 DEF StartStreamer, Streamer, Streaming, FenceState, T
<1>7. Types'
  BY <1>1, <1>2, <1>6 DEF Types, Batches
<1>8. Upright'
  <2>1. Chain' /\ InFlight' /\ LastIsTerminal'
    BY <1>4, <1>6 DEF Chain, InFlight, LastIsTerminal
  <2>2. \A i \in Batched : i <= flushed /\ End(wal[i]) <= T
    BY <1>1, <1>3, TailBeyond DEF Settled, T
  <2>3. Accounted'
    BY <1>2, <1>4, <1>5, <1>6, <2>2 DEF Accounted, Batched, End, T
  <2> QED
    BY <2>1, <2>3 DEF Upright
<1>9. Settled' /\ Laid' /\ Growing' /\ Acknowledged'
  BY <1>1, <1>2, <1>6 DEF Settled, Laid, Batched, WriteFor, InputOf, End, Growing, Acknowledged
<1>10. Held'
  BY <1>6 DEF Held
<1>11. Truthful'
  BY <1>1, <1>2, <1>5, <1>6 DEF Truthful, InputOf, T
<1> QED
  BY <1>7, <1>8, <1>9, <1>10, <1>11 DEF Inv

\* A step of storage that no request and no client takes part in.
LEMMA StorageKeeps ==
    ASSUME Inv, UNCHANGED <<script, reqs, cl>>, Types', Laid', Durably,
           st'.up = st.up, st.up => st'.next = st.next
    PROVE  Truthful' /\ Growing' /\ Acknowledged' /\ (st' = st /\ Held => Held')
<1>1. Types /\ Laid /\ Truthful /\ Growing /\ Acknowledged
  BY DEF Inv
<1>2. /\ TailAt(flushed) \in Nat /\ TailAt(flushed)' \in Nat
      /\ TailAt(flushed) <= TailAt(flushed)'
      /\ \A id : Placed(id) => Placed(id)'
  BY <1>1, DurablyKeeps
<1>3. \A id \in DOMAIN reqs : reqs[id].dep \in Nat
  <2>1. reqs \in Seq(Message)
    BY <1>1 DEF Types
  <2>2. \A id \in DOMAIN reqs : reqs[id] \in Message
    BY <2>1
  <2> QED
    BY <2>2 DEF Message
<1>4. Truthful'
  BY <1>1, <1>2, <1>3 DEF Truthful, InputOf
<1>5. Growing' /\ Acknowledged'
  BY <1>1 DEF Growing, Acknowledged, InputOf
<1>6. ASSUME Held, st' = st PROVE Held'
  BY <1>2, <1>6 DEF Held, InputOf
<1> QED
  BY <1>4, <1>5, <1>6

LEMMA FlushKeeps == Inv /\ Flush /\ UNCHANGED <<cl, rd>> => Inv'
<1> SUFFICES ASSUME Inv, Flush, UNCHANGED <<cl, rd>>
             PROVE  Inv'
  OBVIOUS
<1>1. Types /\ Laid /\ Settled /\ (st.up => Upright /\ Held)
  BY DEF Inv
<1>2. UNCHANGED <<script, wal, dbUp, st, reqs, spawned, sess, cl, bg>> /\ flushed' = flushed + 1
      /\ flushed < Len(wal)
  BY DEF Flush
<1>3. wal \in Seq(Entry) /\ flushed \in 0..Len(wal)
  BY <1>1 DEF Types
<1>4. flushed \in Nat /\ flushed' \in 0..Len(wal')
  BY <1>2, <1>3
<1>5. Types'
  BY <1>1, <1>2, <1>4 DEF Types, Batches
<1>6. Laid' /\ Batched' = Batched
  BY <1>1, <1>2 DEF Laid, Batched, WriteFor, InputOf, End
<1>7. Durably
  BY <1>2, <1>4 DEF Durably
<1>8. Settled'
  BY <1>1, <1>2, <1>3, <1>6 DEF Settled, Batched
<1>9. ASSUME st.up PROVE Upright'
  <2>1. Chain' /\ InFlight' /\ LastIsTerminal'
    BY <1>1, <1>2, <1>6, <1>9 DEF Upright, Chain, InFlight, LastIsTerminal, Polled, WriteFor,
       InputOf, End
  <2>2. st \in Streaming
    BY <1>1, <1>9 DEF Types, Down
  <2>3. st.stable \in Nat
    BY <2>2 DEF Streaming
  <2>4. /\ TailAt(flushed) \in Nat /\ TailAt(flushed)' \in Nat
        /\ TailAt(flushed) <= TailAt(flushed)'
    BY <1>1, <1>5, <1>6, <1>7, DurablyKeeps
  <2>5. st.stable <= TailAt(flushed)
    BY <1>1, <1>9 DEF Upright, Accounted
  <2>6. \A i \in Batched' : \/ i <= flushed' /\ End(wal[i])' <= st'.stable
                            \/ \E k \in DOMAIN st'.futs : st'.futs[k].at = i
    BY <1>1, <1>2, <1>4, <1>6, <1>9 DEF Upright, Accounted, Batched, End
  <2>7. Accounted'
    BY <1>2, <2>3, <2>4, <2>5, <2>6 DEF Accounted
  <2> QED
    BY <2>1, <2>7 DEF Upright
<1> QED
  BY <1>1, <1>2, <1>5, <1>6, <1>7, <1>8, <1>9, StorageKeeps DEF Inv

LEMMA SameButTrimmer ==
    ASSUME Inv, UNCHANGED <<script, wal, flushed, dbUp, st, reqs, spawned, sess, cl>>, bg' \in Trimmer
    PROVE  Inv'
<1>1. Types /\ Laid /\ Settled /\ (st.up => Upright /\ Held)
  BY DEF Inv
<1>2. Types'
  BY <1>1 DEF Types, Batches
<1>3. Laid'
  BY <1>1 DEF Laid, Batched, WriteFor, InputOf, End
<1>4. Settled'
  BY <1>1 DEF Settled, Batched
<1>5. Durably
  BY <1>1 DEF Durably, Types
<1>6. ASSUME st.up PROVE Upright'
  <2>1. TailAt(flushed)' = TailAt(flushed)
    BY DEF TailAt
  <2>2. Chain /\ InFlight /\ LastIsTerminal /\ Accounted
    BY <1>1, <1>6 DEF Upright
  <2>3. Chain' /\ LastIsTerminal'
    BY <2>2 DEF Chain, LastIsTerminal, End
  <2>4. InFlight'
    BY <2>2 DEF InFlight, Polled, Batched, WriteFor, InputOf
  <2>5. Accounted'
    BY <2>1, <2>2 DEF Accounted, Batched, End
  <2> QED
    BY <2>3, <2>4, <2>5 DEF Upright
<1> QED
  BY <1>1, <1>2, <1>3, <1>4, <1>5, <1>6, StorageKeeps DEF Inv

LEMMA ListTrimKeeps == Inv /\ ListTrim /\ UNCHANGED <<cl, rd>> => Inv'
<1> SUFFICES ASSUME Inv, ListTrim, UNCHANGED <<cl, rd>>
             PROVE  Inv'
  OBVIOUS
<1>1. UNCHANGED <<script, wal, flushed, dbUp, st, reqs, spawned, sess, cl>>
  BY DEF ListTrim, dbVars
<1>2. bg' \in Trimmer
  <2>1. wal \in Seq(Entry) /\ flushed \in 0..Len(wal)
    BY DEF Inv, Types
  <2> QED
    BY <2>1, StoredCommands DEF ListTrim, Trimmer
<1> QED
  BY <1>1, <1>2, SameButTrimmer

LEMMA DeleteRecordsKeeps == Inv /\ DeleteRecords /\ UNCHANGED <<cl, rd>> => Inv'
<1> SUFFICES ASSUME Inv, DeleteRecords, UNCHANGED <<cl, rd>>
             PROVE  Inv'
  OBVIOUS
<1>1. bg' \in Trimmer
  BY DEF Inv, Types, DeleteRecords, Trimmer
<1> QED
  BY <1>1, SameButTrimmer DEF DeleteRecords

\* An entry that is no batch changes nothing that the invariant looks at.
LEMMA FinalizeTrimKeeps == Inv /\ FinalizeTrim /\ UNCHANGED <<cl, rd>> => Inv'
<1> SUFFICES ASSUME Inv, FinalizeTrim, UNCHANGED <<cl, rd>>
             PROVE  Inv'
  OBVIOUS
<1>1. UNCHANGED <<script, flushed, dbUp, st, reqs, spawned, sess, cl>>
  BY DEF FinalizeTrim
<1>2. Types /\ Laid /\ Settled /\ (st.up => Upright /\ Held)
  BY DEF Inv
<1>3. wal \in Seq(Entry) /\ flushed \in 0..Len(wal)
  BY <1>2 DEF Types
<1>4. CASE UNCHANGED wal
  <2>1. bg' \in Trimmer
    BY <1>3, <1>4 DEF FinalizeTrim, Trimmer
  <2> QED
    BY <1>1, <1>4, <2>1, SameButTrimmer
<1>5. CASE ~UNCHANGED wal
  <2>1. PICK e : /\ e = [op |-> IF bg.point = MaxSeq THEN "drop" ELSE "trimmed",
                         req |-> 0, start |-> 0, n |-> 0, fence |-> <<>>, trim |-> <<0>>]
                 /\ wal' = Append(wal, e)
                 /\ bg' = [pc |-> "idle", point |-> 0, at |-> Len(wal) + 1]
    BY <1>5 DEF FinalizeTrim
  <2>2. e \in Entry /\ e.op # "batch" /\ e.n = 0
    BY <2>1 DEF Entry
  <2>3. /\ wal' \in Seq(Entry) /\ Len(wal') = Len(wal) + 1
        /\ \A i \in 1..Len(wal) : wal'[i] = wal[i]
        /\ wal'[Len(wal) + 1] = e
    BY <1>3, <2>1, <2>2
  <2>4. Batched' = Batched
    BY <1>3, <2>2, <2>3 DEF Batched
  <2>5. \A i \in Batched : i \in 1..Len(wal) /\ wal'[i] = wal[i]
    BY <2>3 DEF Batched
  <2>6. Types'
    <3>1. bg' \in Trimmer
      BY <1>3, <2>1 DEF Trimmer
    <3>2. flushed' \in 0..Len(wal')
      BY <1>1, <1>3, <2>3
    <3> QED
      BY <1>1, <1>2, <2>3, <3>1, <3>2 DEF Types, Batches
  <2>7. Laid'
    <3>1. \A i \in Batched' : WriteFor(wal[i])'
      BY <1>1, <1>2, <2>4, <2>5 DEF Laid, WriteFor, InputOf
    <3>2. \A i \in 1..Len(wal') : i \notin Batched' => wal'[i].n = 0
      BY <1>2, <1>3, <2>2, <2>3, <2>4 DEF Laid
    <3> QED
      BY <1>2, <2>4, <2>5, <3>1, <3>2 DEF Laid, End
  <2>8. Durably
    BY <1>1, <1>3, <2>3 DEF Durably
  <2>9. Settled'
    BY <1>1, <1>2, <2>4 DEF Settled
  <2>10. ASSUME st.up PROVE Upright'
    <3>1. Chain /\ InFlight /\ LastIsTerminal /\ Accounted
      BY <1>2, <2>10 DEF Upright
    <3>2. Chain' /\ LastIsTerminal'
      BY <1>1, <3>1 DEF Chain, LastIsTerminal, End
    <3>3. InFlight'
      BY <1>1, <2>4, <2>5, <3>1 DEF InFlight, Polled, WriteFor, InputOf
    <3>4. TailAt(flushed)' = TailAt(flushed)
      <4>1. flushed \in Nat /\ \A i \in 1..flushed : wal'[i] = wal[i]
        BY <1>3, <2>3
      <4>2. TailAt(flushed)' = TailAt(flushed)
        <5> DEFINE f == flushed
        <5>1. f' = f
          BY <1>1
        <5> QED
          BY <1>1, <4>1, TailSame DEF TailAt
      <4> QED
        BY <4>2
    <3>5. Accounted'
      BY <1>1, <2>4, <2>5, <3>1, <3>4 DEF Accounted, End
    <3> QED
      BY <3>2, <3>3, <3>5 DEF Upright
  <2> QED
    BY <1>1, <1>2, <2>6, <2>7, <2>8, <2>9, <2>10, StorageKeeps DEF Inv
<1> QED
  BY <1>4, <1>5

LEMMA RestartKeeps == Inv /\ Restart /\ UNCHANGED <<cl, rd>> => Inv'
<1> SUFFICES ASSUME Inv, Restart, UNCHANGED <<cl, rd>>
             PROVE  Inv'
  OBVIOUS
<1>1. Types /\ Laid /\ Settled /\ ~st.up
  BY DEF Inv, Restart, Settled
<1>2. UNCHANGED <<script, flushed, st, reqs, spawned, sess, cl>> /\ dbUp' = TRUE /\ bg' \in Trimmer
      /\ wal' = SubSeq(wal, 1, flushed)
  BY DEF Restart, Trimmer
<1>3. wal \in Seq(Entry) /\ flushed \in 0..Len(wal) /\ flushed \in Nat
  <2>1. wal \in Seq(Entry) /\ flushed \in 0..Len(wal)
    BY <1>1 DEF Types
  <2> QED
    BY <2>1
<1>4. /\ wal' \in Seq(Entry) /\ Len(wal') = flushed
      /\ \A i \in 1..flushed : wal'[i] = wal[i]
  BY <1>2, <1>3
<1>5. Types'
  BY <1>1, <1>2, <1>3, <1>4 DEF Types, Batches
<1>6. Batched' \subseteq Batched
      /\ \A i \in Batched' : i \in 1..flushed /\ wal'[i] = wal[i]
  BY <1>3, <1>4 DEF Batched
<1>7. Laid'
  <2>1. \A i \in Batched' : WriteFor(wal[i])'
    BY <1>1, <1>2, <1>6 DEF Laid, WriteFor, InputOf
  <2>2. \A i \in 1..Len(wal') : i \notin Batched' => wal'[i].n = 0
    BY <1>1, <1>3, <1>4 DEF Laid, Batched
  <2>3. \A i, j \in Batched' : i < j => End(wal[i])' <= wal'[j].start
    BY <1>1, <1>6 DEF Laid, End
  <2> QED
    BY <2>1, <2>2, <2>3 DEF Laid
<1>8. Durably
  BY <1>2, <1>3, <1>4 DEF Durably
<1>9. Settled'
  BY <1>1, <1>2, <1>3, <1>6 DEF Settled
<1> QED
  BY <1>1, <1>2, <1>5, <1>7, <1>8, <1>9, StorageKeeps DEF Inv

-----------------------------------------------------------------------------
(* The streamer's pipeline *)

LEMMA FutTypes ==
    ASSUME Inv, st.up
    PROVE  /\ st \in Streaming
           /\ st.futs \in Seq(Fut) /\ Len(st.futs) \in Nat
           /\ st.queue \in Seq(Waiter)
           /\ st.stable \in Nat /\ st.next \in Nat
           /\ \A k \in DOMAIN st.futs :
                LET w == st.futs[k].write
                IN  /\ k \in 1..Len(st.futs)
                    /\ st.futs[k].at \in Nat /\ w \in Entry
                    /\ w.start \in Nat /\ w.n \in Nat /\ w.n > 0
                    /\ w.start < End(w) /\ End(w) \in Nat
                    /\ w.op = "batch" /\ w.req \in DOMAIN reqs
                    /\ w.start = reqs[w.req].at /\ w.n = InputOf(w.req).n
<1>1. st \in Streaming
  BY DEF Inv, Types, Down
<1>2. /\ st.futs \in Seq(Fut)
      /\ st.queue \in Seq(Waiter)
      /\ st.stable \in Nat /\ st.next \in Nat
  BY <1>1 DEF Streaming
<1>3. ASSUME NEW k \in DOMAIN st.futs
      PROVE  LET w == st.futs[k].write
             IN  /\ k \in 1..Len(st.futs)
                 /\ st.futs[k].at \in Nat /\ w \in Entry
                 /\ w.start \in Nat /\ w.n \in Nat /\ w.n > 0
                 /\ w.start < End(w) /\ End(w) \in Nat
                 /\ w.op = "batch" /\ w.req \in DOMAIN reqs
                 /\ w.start = reqs[w.req].at /\ w.n = InputOf(w.req).n
  <2>1. st.futs[k] \in Fut /\ k \in 1..Len(st.futs)
    BY <1>2
  <2> DEFINE w == st.futs[k].write
  <2>2. st.futs[k].at \in Nat /\ w \in Entry
    BY <2>1 DEF Fut
  <2>3. w.start \in Nat /\ w.n \in Nat
    BY <2>2 DEF Entry
  <2>4. WriteFor(w)
    BY DEF Inv, Upright, InFlight
  <2> HIDE DEF w
  <2>5. w.n > 0
    BY <2>4, InputFacts DEF WriteFor, Inv
  <2>6. w.start < End(w) /\ End(w) \in Nat
    BY <2>3, <2>5 DEF End
  <2> QED
    BY <2>1, <2>2, <2>3, <2>4, <2>5, <2>6 DEF WriteFor, w
<1> QED
  BY <1>1, <1>2, <1>3

\* What is in the log lies below what has not been polled.
LEMMA Behind ==
    ASSUME Inv, st.up, NEW k \in DOMAIN st.futs, ~Polled(k), NEW i \in Batched
    PROVE  End(wal[i]) <= st.futs[k].write.start
<1>1. Chain /\ InFlight /\ Accounted
  BY DEF Inv, Upright
<1>2. CASE i <= flushed /\ End(wal[i]) <= st.stable
  <2>1. st.stable <= st.futs[k].write.start
    BY <1>1 DEF Chain
  <2> QED
    BY <1>2, <2>1, FutTypes, BatchTypes DEF Inv
<1>3. ASSUME NEW j \in DOMAIN st.futs, st.futs[j].at = i
      PROVE  End(wal[i]) <= st.futs[k].write.start
  <2>1. i # 0
    BY DEF Batched
  <2>2. Polled(j)
    BY <1>3, <2>1 DEF Polled
  <2>3. wal[i] = st.futs[j].write
    BY <1>1, <1>3, <2>2 DEF InFlight
  <2>4. ~(k < j) /\ j # k
    BY <1>1, <2>2 DEF InFlight
  <2>5. j < k
    BY <2>4, FutTypes
  <2> QED
    BY <1>1, <2>3, <2>5 DEF Chain
<1> QED
  BY <1>1, <1>2, <1>3 DEF Accounted

LEMMA PollWriteKeeps == Inv /\ PollWrite /\ UNCHANGED <<cl, rd>> => Inv'
<1> SUFFICES ASSUME Inv, PollWrite, UNCHANGED <<cl, rd>>
             PROVE  Inv'
  OBVIOUS
<1>1. Types /\ Laid /\ Settled /\ st.up /\ Upright /\ Held
  BY DEF Inv, PollWrite
<1>2. UNCHANGED <<script, flushed, dbUp, reqs, spawned, sess, cl, bg>>
  BY DEF PollWrite
<1>3. wal \in Seq(Entry) /\ flushed \in 0..Len(wal)
  BY <1>1 DEF Types
<1> DEFINE L == Len(wal) + 1
<1>4. PICK i \in DOMAIN st.futs :
        /\ st.futs[i].at = 0
        /\ \A j \in 1..i - 1 : st.futs[j].at # 0
        /\ wal' = Append(wal, st.futs[i].write)
        /\ st' = [st EXCEPT !.futs[i].at = L]
  BY DEF PollWrite
<1> DEFINE w == st.futs[i].write
<1>5. /\ wal' \in Seq(Entry) /\ Len(wal') = L /\ L \in Nat \ {0}
      /\ \A j \in 1..Len(wal) : wal'[j] = wal[j]
      /\ wal'[L] = w
  BY <1>1, <1>3, <1>4, FutTypes
<1>6. st \in Streaming /\ st.futs \in Seq(Fut)
  BY <1>1, FutTypes
<1>7. /\ st' \in Streaming /\ st'.up
      /\ st'.stable = st.stable /\ st'.next = st.next /\ st'.trim = st.trim
      /\ st'.queue = st.queue
      /\ st'.futs \in Seq(Fut) /\ Len(st'.futs) = Len(st.futs)
      /\ DOMAIN st'.futs = DOMAIN st.futs
      /\ \A k \in DOMAIN st.futs :
            /\ st'.futs[k].write = st.futs[k].write
            /\ st'.futs[k].at = IF k = i THEN L ELSE st.futs[k].at
  <2> DEFINE fs == [st.futs EXCEPT ![i].at = L]
  <2>1. fs \in Seq(Fut) /\ Len(fs) = Len(st.futs) /\ DOMAIN fs = DOMAIN st.futs
        /\ \A k \in DOMAIN st.futs :
            /\ fs[k].write = st.futs[k].write
            /\ fs[k].at = IF k = i THEN L ELSE st.futs[k].at
    <3>1. DOMAIN st.futs = 1..Len(st.futs) /\ Len(st.futs) \in Nat
      BY <1>6
    <3>2. \A k \in DOMAIN st.futs : st.futs[k] \in Fut
      BY <1>6
    <3>3. \A k \in DOMAIN st.futs :
            /\ fs[k] \in Fut
            /\ fs[k].write = st.futs[k].write
            /\ fs[k].at = IF k = i THEN L ELSE st.futs[k].at
      BY <1>5, <3>2 DEF Fut
    <3>4. fs \in [1..Len(st.futs) -> Fut]
      BY <3>1, <3>3
    <3> HIDE DEF fs
    <3>5. fs \in Seq(Fut) /\ Len(fs) = Len(st.futs)
      BY <3>1, <3>4, FunctionIsSeq
    <3> QED
      BY <3>1, <3>3, <3>4, <3>5
  <2>2. st' = [st EXCEPT !.futs = fs]
    BY <1>4
  <2> HIDE DEF fs
  <2> QED
    BY <1>6, <2>1, <2>2 DEF Streaming
<1>8. Types'
  <2>1. flushed' \in 0..Len(wal')
    BY <1>2, <1>3, <1>5
  <2> QED
    BY <1>1, <1>2, <1>5, <1>7, <2>1 DEF Types, Batches
<1>9. w.op = "batch" /\ WriteFor(w) /\ w \in Entry /\ Polled(i) = FALSE
  BY <1>1, <1>4, FutTypes DEF Polled, Upright, InFlight
<1>10. Batched' = Batched \cup {L} /\ L \notin Batched
       /\ \A j \in Batched : j \in 1..Len(wal) /\ wal'[j] = wal[j]
  BY <1>3, <1>5, <1>9 DEF Batched
<1>11. \A v : WriteFor(v) => WriteFor(v)'
  BY <1>2 DEF WriteFor, InputOf
<1> HIDE DEF w, L
<1>12. Laid'
  <2>1. \A j \in Batched' : WriteFor(wal[j])'
    BY <1>1, <1>5, <1>9, <1>10, <1>11 DEF Laid
  <2>2. \A j \in 1..Len(wal') : j \notin Batched' => wal'[j].n = 0
    BY <1>1, <1>3, <1>5, <1>10 DEF Laid, L
  <2>3. \A j, k \in Batched' : j < k => End(wal[j])' <= wal'[k].start
    <3> SUFFICES ASSUME NEW j \in Batched', NEW k \in Batched', j < k
                 PROVE  End(wal'[j]) <= wal'[k].start
      BY DEF End
    <3>1. CASE k = L
      <4>1. j \in Batched /\ wal'[j] = wal[j]
        <5>1. L \in Nat
          BY <1>5
        <5>2. j # L
          BY <3>1, <5>1
        <5>3. j \in Batched
          BY <1>10, <5>2
        <5> QED
          BY <1>10, <5>3
      <4>2. End(wal[j]) <= w.start
        BY <1>1, <1>9, <4>1, Behind DEF w
      <4> QED
        BY <1>5, <3>1, <4>1, <4>2 DEF End
    <3>2. CASE k # L
      <4>1. k \in Batched /\ k < L
        BY <1>3, <1>10, <3>2 DEF L
      <4>2. j \in Batched
        BY <1>3, <1>5, <1>10, <4>1 DEF L
      <4> QED
        BY <1>1, <1>10, <4>1, <4>2 DEF Laid, End
    <3> QED
      BY <3>1, <3>2
  <2> QED
    BY <2>1, <2>2, <2>3 DEF Laid
<1>13. Durably
  BY <1>2, <1>3, <1>5 DEF Durably
<1>14. TailAt(flushed)' = TailAt(flushed)
  <2>1. flushed \in Nat /\ \A j \in 1..flushed : wal'[j] = wal[j]
    BY <1>3, <1>5
  <2> QED
    BY <1>2, <2>1, TailSame DEF TailAt
<1>15. Settled'
  BY <1>1, <1>2, <1>7 DEF Settled
<1>16. Upright'
  <2>1. Chain'
    <3>1. Chain /\ Len(st.futs) \in Nat /\ DOMAIN st.futs = 1..Len(st.futs)
      BY <1>1, <1>6 DEF Upright
    <3>2. st'.futs = <<>> <=> st.futs = <<>>
      BY <1>6, <1>7
    <3>3. \A k \in DOMAIN st.futs :
            End(st'.futs[k].write) = End(st.futs[k].write)
      BY <1>7
    <3>4. st.futs # <<>> => 1 \in DOMAIN st.futs /\ Len(st.futs) \in DOMAIN st.futs
      BY <1>6, <3>1
    <3>5. \A k \in 1..Len(st.futs) - 1 : k \in DOMAIN st.futs /\ k + 1 \in DOMAIN st.futs
      BY <3>1
    <3> QED
      BY ZenonT(60), <1>7, <3>1, <3>2, <3>3, <3>4, <3>5 DEF Chain, End
  <2>2. LastIsTerminal'
    BY <1>1, <1>7 DEF Upright, LastIsTerminal
  <2>3. InFlight'
    <3> SUFFICES ASSUME NEW k \in DOMAIN st.futs
                 PROVE  /\ WriteFor(st.futs[k].write)'
                        /\ Polled(k)' => st'.futs[k].at \in Batched'
                                         /\ wal'[st'.futs[k].at] = st'.futs[k].write
                        /\ ~Polled(k)' => \A j \in DOMAIN st'.futs : k < j => ~Polled(j)'
      BY <1>7 DEF InFlight
    <3>1. WriteFor(st.futs[k].write)'
      BY <1>1, <1>7, <1>11 DEF Upright, InFlight
    <3>2. k \in Nat /\ i \in Nat
      BY <1>1, FutTypes
    <3>3. CASE k = i
      BY <1>5, <1>7, <1>10, <3>1, <3>3 DEF Polled, w
    <3>4. CASE k # i
      <4>1. Polled(k)' = Polled(k)
        BY <1>7, <3>4 DEF Polled
      <4>2. Polled(k) => st.futs[k].at \in Batched /\ wal[st.futs[k].at] = st.futs[k].write
        BY <1>1 DEF Upright, InFlight
      <4>3. ASSUME ~Polled(k), NEW j \in DOMAIN st.futs, k < j
            PROVE  ~Polled(j)'
        <5>1. ~(k < i)
          BY SMTT(30), <1>4, <1>1, <3>2, <4>3, FutTypes DEF Polled
        <5>2. ~Polled(j)
          BY <1>1, <4>3 DEF Upright, InFlight
        <5>3. j # i
          BY <3>2, <4>3, <5>1
        <5> QED
          BY <1>7, <5>2, <5>3 DEF Polled
      <4> QED
        BY <1>7, <1>10, <3>1, <3>4, <4>1, <4>2, <4>3
    <3> QED
      BY <3>3, <3>4
  <2>4. Accounted'
    <3>1. ASSUME NEW j \in Batched'
          PROVE  \/ j <= flushed' /\ End(wal[j])' <= st'.stable
                 \/ \E k \in DOMAIN st'.futs : st'.futs[k].at = j
      <4>1. CASE j = L
        BY <1>7, <4>1
      <4>2. CASE j \in Batched
        <5>1. j # 0
          BY DEF Batched
        <5>2. \/ j <= flushed /\ End(wal[j]) <= st.stable
              \/ \E k \in DOMAIN st.futs : st.futs[k].at = j
          BY <1>1, <4>2 DEF Upright, Accounted
        <5>3. \A k \in DOMAIN st.futs : st.futs[k].at = j => k # i
          BY <1>4, <5>1
        <5> QED
          BY <1>2, <1>7, <1>10, <4>2, <5>2, <5>3 DEF End
      <4> QED
        BY <1>10, <4>1, <4>2
    <3> QED
      BY <1>1, <1>7, <1>14, <3>1 DEF Upright, Accounted
  <2> QED
    BY <2>1, <2>2, <2>3, <2>4 DEF Upright
<1>17. \A id : Placed(id) => Placed(id)'
  BY <1>1, <1>8, <1>12, <1>13, DurablyKeeps
<1>18. Held'
  <2>1. \A id : (\E j \in DOMAIN st.futs : st.futs[j].write.req = id)
              => \E j \in DOMAIN st'.futs : st'.futs[j].write.req = id
    BY <1>7
  <2>2. Held /\ st'.queue = st.queue /\ reqs' = reqs /\ script' = script
    BY <1>1, <1>2, <1>7
  <2> QED
    BY ZenonT(60), <1>17, <2>1, <2>2 DEF Held, InputOf
<1> QED
  BY <1>2, <1>7, <1>8, <1>12, <1>13, <1>15, <1>16, <1>18, <1>1, StorageKeeps DEF Inv

\* The oldest write in flight leads the pipeline.
LEMMA HeadLeads ==
    ASSUME Inv, st.up, st.futs # <<>>, Head(st.futs).at \in 1..flushed
    PROVE  /\ 1 \in DOMAIN st.futs /\ Head(st.futs) = st.futs[1]
           /\ st.futs[1].at \in Batched /\ st.futs[1].at <= flushed
           /\ wal[st.futs[1].at] = st.futs[1].write
           /\ st.futs[1].write.start = st.stable
           /\ st.stable <= End(st.futs[1].write)
           /\ End(st.futs[1].write) \in Nat
           /\ End(st.futs[1].write) <= st.next
           /\ \A k \in DOMAIN st.futs : k # 1 =>
                End(st.futs[1].write) <= st.futs[k].write.start
           /\ Placed(st.futs[1].write.req)
           /\ TailAt(flushed) \in Nat
           /\ End(st.futs[1].write) <= TailAt(flushed)
<1>1. Types /\ Laid /\ Chain /\ InFlight
  BY DEF Inv, Upright
<1>2. st.futs \in Seq(Fut) /\ Len(st.futs) \in Nat /\ st.stable \in Nat
  BY FutTypes
<1>3. 1 \in DOMAIN st.futs /\ Head(st.futs) = st.futs[1]
  BY <1>2
<1>4. Polled(1)
  BY <1>3 DEF Polled
<1>5. st.futs[1].at \in Batched /\ wal[st.futs[1].at] = st.futs[1].write
      /\ st.futs[1].at <= flushed
  BY <1>1, <1>3, <1>4 DEF InFlight
<1>6. st.futs[1].write.start = st.stable /\ st.stable <= End(st.futs[1].write)
      /\ End(st.futs[1].write) \in Nat /\ End(st.futs[1].write) <= st.next
  BY <1>1, <1>2, <1>3, FutTypes DEF Chain
<1>7. \A k \in DOMAIN st.futs : k # 1 => End(st.futs[1].write) <= st.futs[k].write.start
  <2>1. \A k \in DOMAIN st.futs : k # 1 => 1 < k
    BY <1>2
  <2> QED
    BY <1>1, <1>3, <2>1 DEF Chain
<1>8. Placed(st.futs[1].write.req)
  BY <1>5 DEF Placed
<1>9. wal \in Seq(Entry) /\ flushed \in 0..Len(wal)
  BY <1>1 DEF Types
<1>10. TailAt(flushed) \in Nat /\ End(st.futs[1].write) <= TailAt(flushed)
  BY <1>1, <1>5, <1>9, TailFacts, TailBeyond
<1> QED
  BY <1>3, <1>5, <1>6, <1>7, <1>8, <1>10

\* What a durable write says to those who wait.
LEMMA RepliesAre ==
    ASSUME Inv, st.up, st.futs # <<>>, Head(st.futs).at \in 1..flushed,
           NEW stable, stable = End(st.futs[1].write),
           NEW id \in DOMAIN reqs
    PROVE  LET r == Replies(stable)[id]
           IN  /\ r \in Message /\ r = [reqs[id] EXCEPT !.reply = r.reply]
               /\ reqs[id].reply # "pending" => r = reqs[id]
               /\ r.reply \in {reqs[id].reply, "ok", "rejected"}
               /\ r.reply # reqs[id].reply /\ r.reply = "ok" =>
                    reqs[id].at # -1 /\ Placed(id)
               /\ r.reply # reqs[id].reply /\ r.reply = "rejected" =>
                    reqs[id].at = -1 /\ reqs[id].dep <= TailAt(flushed)
<1> DEFINE mine == {i \in Unblocked(stable) : st.queue[i].req = id}
           c == CHOOSE i \in mine : TRUE
           r == Replies(stable)[id]
<1>1. r = IF reqs[id].reply # "pending" \/ mine = {} THEN reqs[id]
          ELSE [reqs[id] EXCEPT !.reply = IF st.queue[c].ok THEN "ok" ELSE "rejected"]
  BY DEF Replies
<1>2. reqs[id] \in Message
  <2>1. reqs \in Seq(Message)
    BY DEF Inv, Types
  <2> QED
    BY <2>1
<1>3. CASE reqs[id].reply # "pending" \/ mine = {}
  <2>1. r = reqs[id]
    BY <1>1, <1>3
  <2> HIDE DEF r
  <2>2. reqs[id] = [reqs[id] EXCEPT !.reply = reqs[id].reply]
    BY <1>2 DEF Message
  <2> QED
    BY <1>2, <2>1, <2>2 DEF r
<1>4. CASE ~(reqs[id].reply # "pending" \/ mine = {})
  <2>1. c \in mine
    BY <1>4
  <2>2. c \in DOMAIN st.queue /\ st.queue[c].req = id /\ st.queue[c].dep <= stable
    BY <2>1 DEF Unblocked
  <2>3. r = [reqs[id] EXCEPT !.reply = IF st.queue[c].ok THEN "ok" ELSE "rejected"]
    BY <1>1, <1>4
  <2> HIDE DEF r, c, mine
  <2>4. r.reply = (IF st.queue[c].ok THEN "ok" ELSE "rejected") /\ r \in Message
        /\ r = [reqs[id] EXCEPT !.reply = r.reply]
    BY <1>2, <2>3 DEF Message, Replied
  <2>5. Held /\ st.queue \in Seq(Waiter)
    BY FutTypes DEF Inv
  <2>6. st.queue[c].ok \in BOOLEAN
    <3>1. st.queue[c] \in Waiter
      BY <2>2, <2>5
    <3> QED
      BY <3>1 DEF Waiter
  <2>7. ASSUME st.queue[c].ok PROVE reqs[id].at # -1 /\ Placed(id)
    <3>1. /\ reqs[id].at # -1
          /\ st.queue[c].dep = reqs[id].at + InputOf(id).n
          /\ \/ \E j \in DOMAIN st.futs : st.futs[j].write.req = id
             \/ Placed(id)
      BY <2>2, <2>5, <2>7 DEF Held
    <3>2. ASSUME NEW j \in DOMAIN st.futs, st.futs[j].write.req = id
          PROVE  Placed(id)
      <4>1. End(st.futs[j].write) <= stable
        BY <2>2, <3>1, <3>2, FutTypes DEF End
      <4>2. ASSUME j # 1 PROVE FALSE
        BY SMTT(30), <4>1, <4>2, HeadLeads, FutTypes
      <4> QED
        BY <3>2, <4>2, HeadLeads
    <3> QED
      BY <3>1, <3>2
  <2>8. ASSUME ~st.queue[c].ok PROVE reqs[id].at = -1 /\ reqs[id].dep <= TailAt(flushed)
    <3>1. reqs[id].at = -1 /\ st.queue[c].dep = reqs[id].dep
      BY <2>2, <2>5, <2>8 DEF Held
    <3>2. reqs[id].dep \in Nat
      BY <1>2 DEF Message
    <3> QED
      BY <2>2, <3>1, <3>2, HeadLeads
  <2> QED
    BY <1>2, <1>4, <2>4, <2>6, <2>7, <2>8 DEF r
<1> QED
  BY <1>3, <1>4

\* What is left of the pipeline when its oldest write is durable.
LEMMA ShorterPipeline ==
    ASSUME Inv, st.up, st.futs # <<>>
    PROVE  /\ Tail(st.futs) \in Seq(Fut) /\ Len(Tail(st.futs)) = Len(st.futs) - 1
           /\ \A k \in 1..Len(st.futs) - 1 :
                k + 1 \in DOMAIN st.futs /\ Tail(st.futs)[k] = st.futs[k + 1]
           /\ \A stable :
                LET q == SubSeq(st.queue, Cardinality(Unblocked(stable)) + 1, Len(st.queue))
                IN  /\ q \in Seq(Waiter)
                    /\ \A k \in DOMAIN q : \E j \in DOMAIN st.queue : q[k] = st.queue[j]
<1>1. st.futs \in Seq(Fut) /\ st.queue \in Seq(Waiter) /\ Len(st.futs) \in Nat
  BY FutTypes
<1>2. /\ Tail(st.futs) \in Seq(Fut) /\ Len(Tail(st.futs)) = Len(st.futs) - 1
      /\ \A k \in 1..Len(st.futs) - 1 :
            k + 1 \in DOMAIN st.futs /\ Tail(st.futs)[k] = st.futs[k + 1]
  BY <1>1, HeadTailProperties
<1>3. ASSUME NEW stable
      PROVE  LET q == SubSeq(st.queue, Cardinality(Unblocked(stable)) + 1, Len(st.queue))
             IN  /\ q \in Seq(Waiter)
                 /\ \A k \in DOMAIN q : \E j \in DOMAIN st.queue : q[k] = st.queue[j]
  <2> DEFINE n == Len(st.queue)
             c == Cardinality(Unblocked(stable))
             q == SubSeq(st.queue, c + 1, n)
  <2>1. n \in Nat /\ DOMAIN st.queue = 1..n
    BY <1>1
  <2>2. Unblocked(stable) \in SUBSET (1..n)
    BY <2>1 DEF Unblocked
  <2>3. c \in Nat
    <3>1. IsFiniteSet(1..n)
      BY <2>1, FS_Interval
    <3>2. IsFiniteSet(Unblocked(stable))
      BY <2>2, <3>1, FS_Subset
    <3> QED
      BY <3>2, FS_CardinalityType
  <2> HIDE DEF n, c
  <2>4. \A i \in c + 1..n : i \in DOMAIN st.queue /\ st.queue[i] \in Waiter
    BY <1>1, <2>1, <2>3
  <2>5. /\ q \in Seq(Waiter) /\ Len(q) = (IF c + 1 <= n THEN n - (c + 1) + 1 ELSE 0)
        /\ \A i \in 1..n - (c + 1) + 1 : q[i] = st.queue[c + 1 + i - 1]
    BY <2>1, <2>3, <2>4, SubSeqProperties
  <2>6. \A k \in DOMAIN q : c + k \in DOMAIN st.queue /\ q[k] = st.queue[c + k]
    <3> HIDE DEF q
    <3>1. DOMAIN q = 1..Len(q)
      BY <2>5
    <3>2. ASSUME NEW k \in DOMAIN q PROVE k \in 1..n - c
      BY <2>1, <2>3, <2>5, <3>1
    <3>3. ASSUME NEW k \in DOMAIN q PROVE q[k] = st.queue[c + k]
      <4>1. k \in 1..n - (c + 1) + 1 /\ c + 1 + k - 1 = c + k
        BY <2>1, <2>3, <3>2
      <4> QED
        BY <2>5, <4>1
    <3>4. ASSUME NEW k \in DOMAIN q PROVE c + k \in 1..n
      BY <2>1, <2>3, <3>2
    <3> QED
      BY <2>1, <3>3, <3>4
  <2> QED
    BY <2>5, <2>6 DEF c, n
<1> QED
  BY <1>2, <1>3

\* The streamer ends with its last write or goes on with the others.
Completed ==
    \/ st' = Down /\ st.next = End(st.futs[1].write)
    \/ /\ st' \in Streaming /\ st'.stable = End(st.futs[1].write) /\ st'.next = st.next
       /\ st'.fence = st.fence /\ st'.trim = st.trim /\ st'.futs = Tail(st.futs)

LEMMA CompleteWriteKeeps ==
    Inv /\ CompleteWrite /\ UNCHANGED <<cl, rd>> => Inv' /\ Answered /\ Completed
<1> SUFFICES ASSUME Inv, CompleteWrite, UNCHANGED <<cl, rd>>
             PROVE  Inv' /\ Answered /\ Completed
  OBVIOUS
<1>1. Types /\ Laid /\ Settled /\ st.up /\ st.futs # <<>> /\ Upright /\ Held /\ Truthful
      /\ Growing /\ Acknowledged /\ Head(st.futs).at \in 1..flushed
  BY DEF Inv, CompleteWrite
<1>2. UNCHANGED <<script, wal, flushed, dbUp, spawned, sess, cl, bg>>
  BY DEF CompleteWrite, dbVars
<1> DEFINE stable == End(st.futs[1].write)
           ended == st.trim.val = MaxSeq /\ st.trim.ap = stable
           got == Replies(stable)
<1>3. 1 \in DOMAIN st.futs /\ Head(st.futs) = st.futs[1]
  BY <1>1, HeadLeads
<1>4. /\ reqs' = IF ended THEN [id \in DOMAIN reqs |->
                                   IF got[id].reply = "pending"
                                   THEN [got[id] EXCEPT !.reply = "lost"] ELSE got[id]]
                 ELSE got
      /\ st' = IF ended THEN Down
               ELSE [st EXCEPT !.stable = stable, !.futs = Tail(st.futs),
                        !.queue = SubSeq(st.queue, Cardinality(Unblocked(stable)) + 1,
                                         Len(st.queue))]
  BY <1>1, <1>3 DEF CompleteWrite, End
<1>5. \A id \in DOMAIN reqs :
        /\ got[id] \in Message /\ got[id] = [reqs[id] EXCEPT !.reply = got[id].reply]
        /\ reqs[id].reply # "pending" => got[id] = reqs[id]
        /\ got[id].reply \in {reqs[id].reply, "ok", "rejected"}
        /\ got[id].reply # reqs[id].reply /\ got[id].reply = "ok" =>
            reqs[id].at # -1 /\ Placed(id)
        /\ got[id].reply # reqs[id].reply /\ got[id].reply = "rejected" =>
            reqs[id].at = -1 /\ reqs[id].dep <= TailAt(flushed)
  BY <1>1, RepliesAre
<1>6. DOMAIN got = DOMAIN reqs /\ got = [id \in DOMAIN reqs |-> got[id]]
  BY DEF Replies
<1>7. reqs \in Seq(Message) /\ st \in Streaming /\ st.queue \in Seq(Waiter)
  BY <1>1, FutTypes DEF Types
<1>8. stable \in Nat /\ st.stable <= stable /\ stable <= TailAt(flushed)
      /\ TailAt(flushed) \in Nat /\ st.stable \in Nat /\ st.next \in Nat
  BY <1>1, HeadLeads, FutTypes
<1> DEFINE reply == [id \in DOMAIN reqs |->
                        IF ended /\ got[id].reply = "pending" THEN "lost" ELSE got[id].reply]
<1> HIDE DEF stable, ended, got
<1>9. reqs' = [id \in DOMAIN reqs |-> [reqs[id] EXCEPT !.reply = reply[id]]]
  <2>1. \A id \in DOMAIN reqs : reqs[id] \in Message
    BY <1>7
  <2>2. ASSUME NEW id \in DOMAIN reqs
        PROVE  reqs'[id] = [reqs[id] EXCEPT !.reply = reply[id]]
    <3>1. CASE ended
      <4>1. reqs'[id] = IF got[id].reply = "pending"
                        THEN [got[id] EXCEPT !.reply = "lost"] ELSE got[id]
        BY <1>4, <3>1
      <4>2. CASE got[id].reply = "pending"
        <5>1. reply[id] = "lost" /\ reqs'[id] = [got[id] EXCEPT !.reply = "lost"]
          BY <3>1, <4>1, <4>2
        <5>2. got[id] = [reqs[id] EXCEPT !.reply = got[id].reply]
          BY <1>5
        <5> QED
          BY <2>1, <5>1, <5>2 DEF Message
      <4>3. CASE got[id].reply # "pending"
        BY <1>5, <3>1, <4>1, <4>3
      <4> QED
        BY <4>2, <4>3
    <3>2. CASE ~ended
      BY <1>4, <1>5, <3>2
    <3> QED
      BY <3>1, <3>2
  <2>3. reqs' = [id \in DOMAIN reqs |-> reqs'[id]]
    BY <1>4, <1>6
  <2> QED
    BY <2>2, <2>3
<1>10. reply \in [DOMAIN reqs -> Replied]
       /\ \A id \in DOMAIN reqs : reqs[id].reply # "pending" => reply[id] = reqs[id].reply
  BY <1>5 DEF Message, Replied
<1>11. Answered
  BY <1>2, <1>7, <1>9, <1>10, AnsweredForm
<1>12. /\ \A id \in DOMAIN reqs : InputOf(id)' = InputOf(id)
       /\ \A id \in DOMAIN reqs' : (reqs[id].b \in 1..Batches(reqs[id].p))'
       /\ Growing' /\ Acknowledged' /\ Laid'
  BY <1>1, <1>2, <1>11, AnsweredKeeps
<1>13. TailAt(flushed)' = TailAt(flushed) /\ \A id : Placed(id)' = Placed(id)
  BY <1>2 DEF TailAt, Placed, Batched
<1>14. \A id \in DOMAIN reqs : reqs'[id].reply = reply[id]
  <2>1. \A id \in DOMAIN reqs : reqs[id] \in Message
    BY <1>7
  <2> QED
    BY <1>9, <2>1 DEF Message
<1>15. ASSUME ~ended
       PROVE  /\ st' \in Streaming /\ st'.up /\ st'.stable = stable /\ st'.next = st.next
              /\ st'.fence = st.fence /\ st'.trim = st.trim /\ st'.futs = Tail(st.futs)
              /\ \A k \in DOMAIN st'.queue : \E j \in DOMAIN st.queue : st'.queue[k] = st.queue[j]
  <2> DEFINE q == SubSeq(st.queue, Cardinality(Unblocked(stable)) + 1, Len(st.queue))
             fs == Tail(st.futs)
  <2>1. q \in Seq(Waiter) /\ fs \in Seq(Fut)
        /\ \A k \in DOMAIN q : \E j \in DOMAIN st.queue : q[k] = st.queue[j]
    BY <1>1, ShorterPipeline
  <2>2. st' = [st EXCEPT !.stable = stable, !.futs = fs, !.queue = q]
    BY <1>4, <1>15
  <2> HIDE DEF q, fs
  <2>3. st'.futs = fs /\ st'.queue = q /\ st' \in Streaming /\ st'.up /\ st'.stable = stable
        /\ st'.next = st.next /\ st'.fence = st.fence /\ st'.trim = st.trim
    BY <1>7, <1>8, <2>1, <2>2 DEF Streaming
  <2> QED
    BY <2>1, <2>3 DEF fs
<1>16. ended => st' = Down
  BY <1>4
<1>17. Types'
  <2>1. reqs' \in Seq(Message)
    BY <1>11 DEF Answered
  <2>2. st' \in {Down} \cup Streaming
    BY <1>15, <1>16
  <2> QED
    BY <1>1, <1>2, <1>12, <2>1, <2>2 DEF Types, Batches
<1>18. Batched' = Batched /\ \A v : End(v)' = End(v)
  BY <1>2 DEF Batched, End
<1>19. \A k \in DOMAIN st.futs : k = 1 \/ (k - 1 \in 1..Len(st.futs) - 1 /\ k - 1 + 1 = k)
  BY SMTT(30), <1>1, FutTypes
<1>20. ASSUME ended PROVE \A i \in Batched : i <= flushed
  <2> SUFFICES ASSUME NEW i \in Batched PROVE i <= flushed
    OBVIOUS
  <2>1. st.next = stable
    BY <1>1, <1>20 DEF Upright, LastIsTerminal, ended
  <2>2. ASSUME NEW k \in DOMAIN st.futs PROVE k = 1
    <3> SUFFICES ASSUME k # 1 PROVE FALSE
      OBVIOUS
    <3>1. stable <= st.futs[k].write.start
      BY <1>1, HeadLeads DEF stable
    <3>2. End(st.futs[k].write) <= st.next
      BY <1>1 DEF Upright, Chain
    <3> QED
      BY <1>1, <1>8, <2>1, <3>1, <3>2, FutTypes
  <2>3. i <= flushed \/ \E k \in DOMAIN st.futs : st.futs[k].at = i
    BY <1>1 DEF Upright, Accounted
  <2> QED
    BY <1>1, <2>2, <2>3, HeadLeads
<1>21. Settled'
  BY <1>1, <1>2, <1>15, <1>16, <1>18, <1>20 DEF Settled, Down
<1>22. ASSUME ~ended PROVE Upright'
  <2>1. /\ st'.futs \in Seq(Fut) /\ Len(st'.futs) = Len(st.futs) - 1
        /\ Len(st.futs) \in Nat
        /\ DOMAIN st'.futs = 1..Len(st.futs) - 1
        /\ \A k \in DOMAIN st'.futs :
            k + 1 \in DOMAIN st.futs /\ st'.futs[k] = st.futs[k + 1]
    <3>1. /\ Tail(st.futs) \in Seq(Fut) /\ Len(Tail(st.futs)) = Len(st.futs) - 1
          /\ \A k \in 1..Len(st.futs) - 1 :
                k + 1 \in DOMAIN st.futs /\ Tail(st.futs)[k] = st.futs[k + 1]
      BY <1>1, ShorterPipeline
    <3>2. st'.futs = Tail(st.futs) /\ Len(st.futs) \in Nat
      BY <1>1, <1>15, <1>22, FutTypes
    <3> QED
      BY <3>1, <3>2
  <2>2. Chain'
    <3>1. Chain
      BY <1>1 DEF Upright
    <3>2. st'.futs = <<>> => st'.next = st'.stable
      <4> SUFFICES ASSUME st'.futs = <<>> PROVE st'.next = st'.stable
        OBVIOUS
      <4>1. Len(st.futs) = 1
        BY <2>1
      <4> QED
        BY <1>1, <1>15, <1>22, <3>1, <4>1 DEF Chain, stable
    <3>3. st'.futs # <<>> =>
            /\ st'.futs[1].write.start = st'.stable
            /\ End(st'.futs[Len(st'.futs)].write) = st'.next
      <4> SUFFICES ASSUME st'.futs # <<>>
                   PROVE  /\ st'.futs[1].write.start = st'.stable
                          /\ End(st'.futs[Len(st'.futs)].write) = st'.next
        OBVIOUS
      <4>1. Len(st'.futs) \in DOMAIN st'.futs /\ 1 \in DOMAIN st'.futs
            /\ 1 \in 1..Len(st.futs) - 1
        BY <2>1
      <4>2. st'.futs[1] = st.futs[2] /\ st'.futs[Len(st'.futs)] = st.futs[Len(st.futs)]
        BY <2>1, <4>1
      <4>3. st.futs[1 + 1].write.start = stable
        BY <3>1, <4>1 DEF Chain, stable
      <4> QED
        BY <1>1, <1>15, <1>22, <3>1, <4>2, <4>3 DEF Chain
    <3>4. \A k \in 1..Len(st'.futs) - 1 :
            st'.futs[k + 1].write.start = End(st'.futs[k].write)
      <4> SUFFICES ASSUME NEW k \in 1..Len(st'.futs) - 1
                   PROVE  st'.futs[k + 1].write.start = End(st'.futs[k].write)
        OBVIOUS
      <4>1. k \in DOMAIN st'.futs /\ k + 1 \in DOMAIN st'.futs /\ k + 1 \in 1..Len(st.futs) - 1
        BY <2>1
      <4>2. st'.futs[k] = st.futs[k + 1] /\ st'.futs[k + 1] = st.futs[k + 1 + 1]
        BY <2>1, <4>1
      <4> QED
        BY <3>1, <4>1, <4>2 DEF Chain
    <3>5. \A j, k \in DOMAIN st'.futs :
            j < k => End(st'.futs[j].write) <= st'.futs[k].write.start
      <4> SUFFICES ASSUME NEW j \in DOMAIN st'.futs, NEW k \in DOMAIN st'.futs, j < k
                   PROVE  End(st'.futs[j].write) <= st'.futs[k].write.start
        OBVIOUS
      <4>1. j + 1 < k + 1
        BY <2>1
      <4> QED
        BY <2>1, <3>1, <4>1 DEF Chain
    <3>6. \A k \in DOMAIN st'.futs :
            /\ stable <= st'.futs[k].write.start
            /\ End(st'.futs[k].write) <= st.next
      <4> SUFFICES ASSUME NEW k \in DOMAIN st'.futs
                   PROVE  /\ stable <= st'.futs[k].write.start
                          /\ End(st'.futs[k].write) <= st.next
        OBVIOUS
      <4>1. k + 1 \in DOMAIN st.futs /\ k + 1 # 1 /\ st'.futs[k] = st.futs[k + 1]
        BY <2>1
      <4> QED
        BY <1>1, <3>1, <4>1, HeadLeads DEF Chain, stable
    <3>7. stable <= st.next
      BY <1>1, HeadLeads DEF stable
    <3> QED
      BY <1>15, <1>22, <3>2, <3>3, <3>4, <3>5, <3>6, <3>7 DEF Chain, End
  <2>3. InFlight'
    <3> SUFFICES ASSUME NEW k \in DOMAIN st'.futs
                 PROVE  /\ WriteFor(st.futs[k].write)'
                        /\ Polled(k)' => st'.futs[k].at \in Batched'
                                         /\ wal'[st'.futs[k].at] = st'.futs[k].write
                        /\ ~Polled(k)' => \A j \in DOMAIN st'.futs : k < j => ~Polled(j)'
      BY DEF InFlight
    <3>1. k + 1 \in DOMAIN st.futs /\ st'.futs[k] = st.futs[k + 1]
      BY <2>1
    <3>2. InFlight
      BY <1>1 DEF Upright
    <3>3. WriteFor(st.futs[k].write)'
      <4>1. WriteFor(st.futs[k + 1].write)
        BY <3>1, <3>2 DEF InFlight
      <4> QED
        BY <1>11, <1>12, <3>1, <4>1 DEF WriteFor, InputOf, Answered
    <3>4. \A j \in DOMAIN st'.futs : j + 1 \in DOMAIN st.futs /\ Polled(j)' = Polled(j + 1)
      BY <2>1 DEF Polled
    <3>5. \A j \in DOMAIN st'.futs : k < j => k + 1 < j + 1
      BY <2>1
    <3> QED
      BY <1>2, <1>18, <3>1, <3>2, <3>3, <3>4, <3>5 DEF InFlight
  <2>4. LastIsTerminal'
    BY <1>1, <1>15, <1>22 DEF Upright, LastIsTerminal
  <2>5. Accounted'
    <3>1. ASSUME NEW i \in Batched
          PROVE  \/ i <= flushed /\ End(wal[i]) <= stable
                 \/ \E k \in DOMAIN st'.futs : st'.futs[k].at = i
      <4>1. CASE i <= flushed /\ End(wal[i]) <= st.stable
        BY <1>1, <1>8, <4>1, BatchTypes
      <4>2. ASSUME NEW k \in DOMAIN st.futs, st.futs[k].at = i
            PROVE  \/ i <= flushed /\ End(wal[i]) <= stable
                   \/ \E l \in DOMAIN st'.futs : st'.futs[l].at = i
        <5>1. CASE k = 1
          BY <1>1, <1>8, <4>2, <5>1, HeadLeads DEF stable
        <5>2. CASE k # 1
          <6>1. k - 1 \in DOMAIN st'.futs /\ k - 1 + 1 = k
            BY <1>19, <2>1, <5>2
          <6>2. st'.futs[k - 1] = st.futs[k]
            BY <2>1, <6>1
          <6> QED
            BY <4>2, <6>1, <6>2
        <5> QED
          BY <5>1, <5>2
      <4> QED
        BY <1>1, <4>1, <4>2 DEF Upright, Accounted
    <3> QED
      BY <1>2, <1>8, <1>13, <1>15, <1>18, <1>22, <3>1 DEF Accounted
  <2> QED
    BY <2>2, <2>3, <2>4, <2>5 DEF Upright
<1>23. ASSUME ~ended PROVE Held'
  <2>1. ASSUME NEW k \in DOMAIN st'.queue
        PROVE  (LET e == st.queue[k]
                IN  /\ e.req \in DOMAIN reqs
                    /\ e.ok =>
                        /\ reqs[e.req].at # -1
                        /\ e.dep = reqs[e.req].at + InputOf(e.req).n
                        /\ \/ \E j \in DOMAIN st.futs : st.futs[j].write.req = e.req
                           \/ Placed(e.req)
                    /\ ~e.ok => reqs[e.req].at = -1 /\ e.dep = reqs[e.req].dep)'
    <3> DEFINE e == st'.queue[k]
    <3>1. PICK j \in DOMAIN st.queue : e = st.queue[j]
      BY <1>15, <1>23
    <3> HIDE DEF e
    <3>2. /\ e.req \in DOMAIN reqs
          /\ e.ok =>
              /\ reqs[e.req].at # -1
              /\ e.dep = reqs[e.req].at + InputOf(e.req).n
              /\ \/ \E l \in DOMAIN st.futs : st.futs[l].write.req = e.req
                 \/ Placed(e.req)
          /\ ~e.ok => reqs[e.req].at = -1 /\ e.dep = reqs[e.req].dep
      BY <1>1, <3>1 DEF Held
    <3>3. ASSUME NEW l \in DOMAIN st.futs, st.futs[l].write.req = e.req
          PROVE  \/ \E m \in DOMAIN st'.futs : st'.futs[m].write.req = e.req
                 \/ Placed(e.req)
      <4>1. CASE l = 1
        BY <1>1, <3>3, <4>1, HeadLeads
      <4>2. CASE l # 1
        <5>1. l - 1 \in 1..Len(st.futs) - 1 /\ l - 1 + 1 = l
          BY <1>19, <4>2
        <5>2. l - 1 \in DOMAIN st'.futs /\ st'.futs[l - 1] = st.futs[l]
          <6>1. /\ Tail(st.futs) \in Seq(Fut) /\ Len(Tail(st.futs)) = Len(st.futs) - 1
                /\ \A x \in 1..Len(st.futs) - 1 : Tail(st.futs)[x] = st.futs[x + 1]
            BY <1>1, ShorterPipeline
          <6>2. st'.futs = Tail(st.futs)
            BY <1>15, <1>23
          <6> QED
            BY <5>1, <6>1, <6>2
        <5> QED
          BY <3>3, <5>2
      <4> QED
        BY <4>1, <4>2
    <3> QED
      BY <1>2, <1>11, <1>12, <3>2, <3>3 DEF Answered, e, InputOf, Placed, Batched
  <2> QED
    BY <2>1 DEF Held
<1>24. Truthful'
  <2> SUFFICES ASSUME NEW id \in DOMAIN reqs
               PROVE  /\ reply[id] = "ok" => reqs[id].at # -1 /\ Placed(id)
                      /\ reply[id] = "rejected" =>
                            reqs[id].at = -1 /\ reqs[id].dep <= TailAt(flushed)
                      /\ reply[id] = "pending" => st'.up
                      /\ reply[id] = "pending" /\ reqs[id].at # -1 =>
                            reqs[id].at + InputOf(id).n <= st'.next
    BY <1>11, <1>12, <1>13, <1>14 DEF Truthful, Answered
  <2>1. /\ reqs[id].reply = "ok" => reqs[id].at # -1 /\ Placed(id)
        /\ reqs[id].reply = "rejected" =>
              reqs[id].at = -1 /\ reqs[id].dep <= TailAt(flushed)
        /\ reqs[id].reply = "pending" /\ reqs[id].at # -1 =>
              reqs[id].at + InputOf(id).n <= st.next
    BY <1>1 DEF Truthful
  <2>2. reply[id] # "lost" => reply[id] = got[id].reply
    OBVIOUS
  <2>3. reply[id] = "pending" => ~ended /\ reqs[id].reply = "pending"
    BY <1>5
  <2>4. got[id].reply = "ok" => reqs[id].at # -1 /\ Placed(id)
    BY <1>5, <2>1
  <2>5. got[id].reply = "rejected" => reqs[id].at = -1 /\ reqs[id].dep <= TailAt(flushed)
    BY <1>5, <2>1
  <2> HIDE DEF reply
  <2> QED
    BY <1>15, <2>1, <2>2, <2>3, <2>4, <2>5
<1>25. Inv'
  BY <1>12, <1>16, <1>17, <1>21, <1>22, <1>23, <1>24 DEF Inv, Down
<1>26. Completed
  BY <1>1, <1>15, <1>16 DEF Completed, Upright, LastIsTerminal, stable, ended
<1> QED
  BY <1>11, <1>25, <1>26

-----------------------------------------------------------------------------
(* Requests *)

LEMMA Submits ==
    ASSUME Inv, UNCHANGED <<script, wal, flushed>>, NEW r \in Message,
           r.b \in 1..Batches(r.p), reqs' = Append(reqs, r)
    PROVE  /\ Len(reqs) \in Nat /\ reqs' \in Seq(Message)
           /\ DOMAIN reqs = 1..Len(reqs) /\ DOMAIN reqs' = 1..Len(reqs) + 1
           /\ \A id \in DOMAIN reqs :
                id \in DOMAIN reqs' /\ reqs'[id] = reqs[id] /\ InputOf(id)' = InputOf(id)
                /\ id \in Nat /\ id < Len(reqs) + 1
           /\ \A id \in DOMAIN reqs' : id \in DOMAIN reqs \/ id = Len(reqs) + 1
           /\ reqs'[Len(reqs) + 1] = r
           /\ \A id \in DOMAIN reqs' : (reqs[id].b \in 1..Batches(reqs[id].p))'
           /\ Laid' /\ TailAt(flushed)' = TailAt(flushed)
           /\ \A id : Placed(id)' = Placed(id)
<1>1. reqs \in Seq(Message)
  BY DEF Inv, Types
<1>2. /\ Len(reqs) \in Nat /\ reqs' \in Seq(Message)
      /\ DOMAIN reqs = 1..Len(reqs) /\ DOMAIN reqs' = 1..Len(reqs) + 1
      /\ \A id \in DOMAIN reqs : id \in DOMAIN reqs' /\ reqs'[id] = reqs[id]
      /\ reqs'[Len(reqs) + 1] = r
  BY <1>1
<1>3. \A id \in DOMAIN reqs : InputOf(id)' = InputOf(id) /\ id \in Nat /\ id < Len(reqs) + 1
  BY <1>2 DEF InputOf
<1>4. \A id \in DOMAIN reqs' : id \in DOMAIN reqs \/ id = Len(reqs) + 1
  BY <1>2
<1>5. \A id \in DOMAIN reqs' : (reqs[id].b \in 1..Batches(reqs[id].p))'
  <2>1. \A id \in DOMAIN reqs : reqs[id].b \in 1..Batches(reqs[id].p)
    BY DEF Inv, Types
  <2> QED
    BY <1>2, <1>4, <2>1 DEF Batches
<1>6. Laid'
  <2>1. Batched' = Batched /\ Laid
    BY DEF Batched, Inv
  <2>2. \A w : WriteFor(w) => WriteFor(w)'
    BY <1>2, <1>3 DEF WriteFor
  <2> QED
    BY <2>1, <2>2 DEF Laid, End
<1>7. TailAt(flushed)' = TailAt(flushed) /\ \A id : Placed(id)' = Placed(id)
  BY DEF TailAt, Placed, Batched
<1> QED
  BY <1>2, <1>3, <1>4, <1>5, <1>6, <1>7

\* A message that is dropped or refused leaves the pipeline alone.
LEMMA UprightKept ==
    ASSUME Inv, st.up, UNCHANGED <<script, wal, flushed>>,
           \A id \in DOMAIN reqs : id \in DOMAIN reqs' /\ reqs'[id] = reqs[id],
           st'.stable = st.stable, st'.next = st.next, st'.trim = st.trim, st'.futs = st.futs
    PROVE  Upright'
<1>1. Chain /\ InFlight /\ Accounted /\ LastIsTerminal
  BY DEF Inv, Upright
<1>2. Chain' /\ LastIsTerminal'
  BY <1>1 DEF Chain, LastIsTerminal, End
<1>3. InFlight'
  <2>1. \A w : WriteFor(w) => WriteFor(w)'
    BY DEF WriteFor, InputOf
  <2>2. Batched' = Batched /\ \A k : Polled(k)' = Polled(k)
    BY DEF Batched, Polled
  <2> QED
    BY <1>1, <2>1, <2>2 DEF InFlight
<1>4. Accounted'
  <2>1. TailAt(flushed)' = TailAt(flushed) /\ Batched' = Batched
    BY DEF TailAt, Batched
  <2> QED
    BY <1>1, <2>1 DEF Accounted, End
<1> QED
  BY <1>2, <1>3, <1>4 DEF Upright

LEMMA InsertFacts ==
    ASSUME NEW q \in Seq(Waiter), NEW e \in Waiter, NEW k \in 1..Len(q) + 1
    PROVE  /\ InsertAt(q, k, e) \in Seq(Waiter)
           /\ \A i \in DOMAIN InsertAt(q, k, e) :
                InsertAt(q, k, e)[i] = e \/ \E j \in DOMAIN q : InsertAt(q, k, e)[i] = q[j]
<1> DEFINE n == Len(q)
           a == SubSeq(q, 1, k - 1)
           b == SubSeq(q, k, n)
           Old == {x \in Waiter : x = e \/ \E j \in DOMAIN q : x = q[j]}
           r == InsertAt(q, k, e)
<1>1. n \in Nat /\ DOMAIN q = 1..n
  OBVIOUS
<1>2. r = a \o <<e>> \o b
  BY DEF InsertAt
<1>3. \A i \in 1..n : q[i] \in Old
  BY <1>1
<1> HIDE DEF n
<1>4. a \in Seq(Old)
  <2>1. \A i \in 1..k - 1 : q[i] \in Old
    BY <1>1, <1>3 DEF n
  <2> QED
    BY <1>1, <2>1, SubSeqProperties
<1>5. b \in Seq(Old)
  <2>1. \A i \in k..n : q[i] \in Old
    BY <1>1, <1>3
  <2> QED
    BY <1>1, <2>1, SubSeqProperties
<1>6. <<e>> \in Seq(Old)
  OBVIOUS
<1> HIDE DEF a, b, r
<1>7. r \in Seq(Old)
  BY <1>2, <1>4, <1>5, <1>6, ConcatProperties
<1>8. Old \subseteq Waiter
  OBVIOUS
<1>9. r \in Seq(Waiter)
  BY <1>7, <1>8, SeqMonotonic
<1>10. \A i \in DOMAIN r : r[i] \in Old
  BY <1>7, ElementOfSeq, LenProperties
<1> QED
  BY <1>9, <1>10 DEF r

LEMMA EnqueueFacts ==
    ASSUME NEW q \in Seq(Waiter), NEW e \in Waiter
    PROVE  /\ Enqueue(q, e) \in Seq(Waiter)
           /\ \A k \in DOMAIN Enqueue(q, e) :
                Enqueue(q, e)[k] = e \/ \E j \in DOMAIN q : Enqueue(q, e)[k] = q[j]
<1> DEFINE S == {i \in DOMAIN q : q[i].dep <= e.dep}
           c == Cardinality(S)
<1>1. Len(q) \in Nat /\ DOMAIN q = 1..Len(q)
  OBVIOUS
<1>2. c \in Nat /\ c <= Len(q)
  <2>1. S \in SUBSET (1..Len(q))
    BY <1>1
  <2>2. IsFiniteSet(1..Len(q)) /\ Cardinality(1..Len(q)) = Len(q)
    BY <1>1, FS_Interval
  <2> QED
    BY <2>1, <2>2, FS_Subset, FS_CardinalityType
<1>3. Enqueue(q, e) = InsertAt(q, c + 1, e)
  BY DEF Enqueue
<1> HIDE DEF c
<1>4. c + 1 \in 1..Len(q) + 1
  BY <1>1, <1>2
<1> QED
  BY <1>3, <1>4, InsertFacts

LEMMA RequestForm ==
    ASSUME NEW p \in Producers, NEW b \in Nat \ {0}, NEW at \in Nat \cup {-1},
           NEW reply \in Replied, NEW dep \in Nat, NEW saw \in Seq(FenceState)
    PROVE  LET r == Request(p, b, at, reply, dep, saw)
           IN  /\ r \in Message /\ r.p = p /\ r.b = b /\ r.at = at
               /\ r.reply = reply /\ r.dep = dep
BY DEF Request, Message

LEMMA BatchOf ==
    ASSUME Types, NEW p \in Producers, NEW b \in 1..Batches(p)
    PROVE  /\ b \in Nat \ {0}
           /\ script.of[p].in[b] \in AllInputs /\ IsBatch(script.of[p].in[b])
<1>1. script.of[p].in \in Seq(AllInputs)
  BY ScriptAssumption DEF Types
<1>2. Batches(p) \in Nat /\ DOMAIN script.of[p].in = 1..Batches(p)
  BY <1>1 DEF Batches
<1>3. script.of[p].in[b] \in AllInputs
  BY <1>1, <1>2
<1> QED
  BY <1>2, <1>3, ScriptAssumption

\* What handling a message keeps, but for its session.
Served ==
    /\ \E r \in Message : r.b \in 1..Batches(r.p) /\ reqs' = Append(reqs, r)
    /\ st' \in {Down} \cup Streaming /\ sess' \in [Producers -> Session]
    /\ Settled' /\ (st'.up => Upright' /\ Held')
    /\ Truthful' /\ Growing'

LEMMA DropServed ==
    ASSUME Inv, st.up, NEW p \in Producers, NEW b \in 1..Batches(p), Drop(p, b),
           UNCHANGED <<script, dbVars>>
    PROVE  Served
<1> DEFINE none == <<>>
           r == Request(p, b, -1, "lost", 0, none)
<1>1. r \in Message /\ r.p = p /\ r.b = b /\ r.at = -1 /\ r.reply = "lost"
  <2>1. b \in Nat \ {0}
    BY BatchOf DEF Inv
  <2>2. "lost" \in Replied /\ -1 \in Nat \cup {-1} /\ none \in Seq(FenceState)
    BY DEF Replied
  <2> HIDE DEF none
  <2> QED
    BY <2>1, <2>2, RequestForm
<1>2. UNCHANGED <<script, wal, flushed, dbUp, st, sess>> /\ reqs' = Append(reqs, r)
  BY DEF Drop, dbVars
<1> HIDE DEF r
<1>3. /\ Len(reqs) \in Nat
      /\ \A id \in DOMAIN reqs :
            id \in DOMAIN reqs' /\ reqs'[id] = reqs[id] /\ InputOf(id)' = InputOf(id)
      /\ \A id \in DOMAIN reqs' : id \in DOMAIN reqs \/ id = Len(reqs) + 1
      /\ reqs'[Len(reqs) + 1] = r
      /\ TailAt(flushed)' = TailAt(flushed)
      /\ \A id : Placed(id)' = Placed(id)
  BY <1>1, <1>2, Submits
<1>4. Types /\ Settled /\ Held /\ Truthful /\ Growing
  BY DEF Inv
<1>5. Upright'
  BY <1>2, <1>3, UprightKept
<1>6. Settled'
  BY <1>2, <1>4 DEF Settled, Batched
<1>7. Held'
  BY <1>2, <1>3, <1>4 DEF Held
<1>8. Truthful'
  BY <1>1, <1>2, <1>3, <1>4 DEF Truthful
<1>9. Growing'
  BY <1>1, <1>3, <1>4 DEF Growing
<1> QED
  BY <1>1, <1>2, <1>4, <1>5, <1>6, <1>7, <1>8, <1>9 DEF Served, Types

LEMMA RefuseServed ==
    ASSUME Inv, st.up, NEW p \in Producers, NEW b \in 1..Batches(p),
           Refuse(p, b, script.of[p].in[b]), UNCHANGED <<script, dbVars>>
    PROVE  Served
<1> DEFINE in == script.of[p].in[b]
           dep == Max({Dependency(in), sess[p].last})
           saw == IF TokenMismatch(in) THEN <<st.fence>> ELSE <<>>
           now == dep <= st.stable
           r == Request(p, b, -1, IF now THEN "rejected" ELSE "pending", dep, saw)
           e == [req |-> Len(reqs) + 1, dep |-> dep, ok |-> FALSE]
<1>1. Types /\ Settled /\ Held /\ Truthful /\ Growing /\ Accounted
  BY DEF Inv, Upright
<1>2. st \in Streaming /\ st.queue \in Seq(Waiter) /\ st.stable \in Nat /\ st.next \in Nat
  BY FutTypes
<1>3. dep \in Nat
  <2>1. Dependency(in) \in Nat
    BY <1>2 DEF Dependency, Streaming, FenceState
  <2>2. sess[p].last \in Nat
    BY <1>1 DEF Types, Session
  <2>3. Dependency(in) \in Int /\ sess[p].last \in Int
    BY <2>1, <2>2
  <2>4. dep \in {Dependency(in), sess[p].last}
    BY <2>3, MinMaxOfTwo
  <2> QED
    BY <2>1, <2>2, <2>4
<1>4. saw \in Seq(FenceState)
  BY <1>2 DEF Streaming
<1>5. /\ UNCHANGED <<script, wal, flushed, dbUp>> /\ reqs' = Append(reqs, r)
      /\ sess' = [sess EXCEPT ![p].poisoned = TRUE]
      /\ st' = IF now THEN st ELSE [st EXCEPT !.queue = Enqueue(st.queue, e)]
  BY DEF Refuse, dbVars
<1> HIDE DEF dep, saw
<1>6. r \in Message /\ r.p = p /\ r.b = b /\ r.at = -1 /\ r.dep = dep
      /\ r.reply = (IF now THEN "rejected" ELSE "pending")
  BY SMTT(30), <1>1, <1>3, <1>4, BatchOf, RequestForm DEF Replied
<1> HIDE DEF r
<1>7. /\ Len(reqs) \in Nat
      /\ \A id \in DOMAIN reqs :
            id \in DOMAIN reqs' /\ reqs'[id] = reqs[id] /\ InputOf(id)' = InputOf(id)
      /\ \A id \in DOMAIN reqs' : id \in DOMAIN reqs \/ id = Len(reqs) + 1
      /\ DOMAIN reqs' = 1..Len(reqs) + 1
      /\ reqs'[Len(reqs) + 1] = r
      /\ TailAt(flushed)' = TailAt(flushed)
      /\ \A id : Placed(id)' = Placed(id)
  BY <1>5, <1>6, Submits
<1>8. e \in Waiter
  BY <1>3, <1>7 DEF Waiter
<1>9. Enqueue(st.queue, e) \in Seq(Waiter)
      /\ \A k \in DOMAIN Enqueue(st.queue, e) :
            \/ Enqueue(st.queue, e)[k] = e
            \/ \E j \in DOMAIN st.queue : Enqueue(st.queue, e)[k] = st.queue[j]
  BY <1>2, <1>8, EnqueueFacts
<1>10. /\ st' \in Streaming /\ st'.up
       /\ st'.stable = st.stable /\ st'.next = st.next /\ st'.trim = st.trim
       /\ st'.futs = st.futs
       /\ \A k \in DOMAIN st'.queue :
            st'.queue[k] = e \/ \E j \in DOMAIN st.queue : st'.queue[k] = st.queue[j]
  <2> DEFINE q == Enqueue(st.queue, e)
  <2>1. CASE now
    BY <1>2, <1>5, <2>1 DEF Streaming
  <2>2. CASE ~now
    <3>1. st' = [st EXCEPT !.queue = q]
      BY <1>5, <2>2
    <3>2. q \in Seq(Waiter)
          /\ \A k \in DOMAIN q : q[k] = e \/ \E j \in DOMAIN st.queue : q[k] = st.queue[j]
      BY <1>9
    <3> HIDE DEF q, e
    <3>3. st'.queue = q /\ st' \in Streaming /\ st'.up
          /\ st'.stable = st.stable /\ st'.next = st.next /\ st'.trim = st.trim
          /\ st'.futs = st.futs
      BY <1>2, <3>1, <3>2 DEF Streaming
    <3> QED
      BY <3>2, <3>3
  <2> QED
    BY <2>1, <2>2
<1>11. e.req = Len(reqs) + 1 /\ e.dep = dep /\ e.ok = FALSE
  OBVIOUS
<1>12. sess' \in [Producers -> Session]
  BY <1>1, <1>5 DEF Types, Session
<1> HIDE DEF e
<1>13. Upright'
  BY <1>5, <1>7, <1>10, UprightKept
<1>14. Settled'
  BY <1>1, <1>5, <1>10 DEF Settled
<1>15. Held'
  <2> SUFFICES ASSUME NEW k \in DOMAIN st'.queue
               PROVE  (LET w == st.queue[k]
                       IN  /\ w.req \in DOMAIN reqs
                           /\ w.ok =>
                               /\ reqs[w.req].at # -1
                               /\ w.dep = reqs[w.req].at + InputOf(w.req).n
                               /\ \/ \E j \in DOMAIN st.futs : st.futs[j].write.req = w.req
                                  \/ Placed(w.req)
                           /\ ~w.ok => reqs[w.req].at = -1 /\ w.dep = reqs[w.req].dep)'
    BY DEF Held
  <2>1. CASE st'.queue[k] = e
    BY <1>6, <1>7, <1>11, <2>1
  <2>2. ASSUME NEW j \in DOMAIN st.queue, st'.queue[k] = st.queue[j]
        PROVE  (LET w == st.queue[k]
                IN  /\ w.req \in DOMAIN reqs
                    /\ w.ok =>
                        /\ reqs[w.req].at # -1
                        /\ w.dep = reqs[w.req].at + InputOf(w.req).n
                        /\ \/ \E i \in DOMAIN st.futs : st.futs[i].write.req = w.req
                           \/ Placed(w.req)
                    /\ ~w.ok => reqs[w.req].at = -1 /\ w.dep = reqs[w.req].dep)'
    <3> PICK w : w = st.queue[j]
      OBVIOUS
    <3>1. /\ w.req \in DOMAIN reqs
          /\ w.ok =>
              /\ reqs[w.req].at # -1
              /\ w.dep = reqs[w.req].at + InputOf(w.req).n
              /\ \/ \E i \in DOMAIN st.futs : st.futs[i].write.req = w.req
                 \/ Placed(w.req)
          /\ ~w.ok => reqs[w.req].at = -1 /\ w.dep = reqs[w.req].dep
      BY <1>1 DEF Held
    <3>2. /\ w.req \in DOMAIN reqs' /\ reqs'[w.req] = reqs[w.req]
          /\ InputOf(w.req)' = InputOf(w.req) /\ Placed(w.req)' = Placed(w.req)
      BY <1>7, <3>1
    <3>3. st'.queue[k] = w /\ st'.futs = st.futs
      BY <1>10, <2>2
    <3> QED
      BY <3>1, <3>2, <3>3 DEF InputOf, Placed
  <2> QED
    BY <1>10, <2>1, <2>2
<1>16. Truthful'
  <2>1. now => dep <= TailAt(flushed)
    <3>1. st.stable <= TailAt(flushed) /\ TailAt(flushed) \in Nat
      <4>1. wal \in Seq(Entry) /\ flushed \in 0..Len(wal)
        BY <1>1 DEF Types
      <4> QED
        BY <1>1, <4>1, TailFacts DEF Accounted
    <3> QED
      BY <1>2, <1>3, <3>1
  <2> QED
    BY <1>1, <1>6, <1>7, <1>10, <2>1 DEF Truthful
<1>17. Growing'
  BY <1>1, <1>6, <1>7 DEF Growing
<1> QED
  BY <1>5, <1>6, <1>10, <1>12, <1>13, <1>14, <1>15, <1>16, <1>17 DEF Served

LEMMA AppliedFacts ==
    ASSUME NEW s \in Streaming, NEW in \in AllInputs, IsBatch(in), NEW seq \in Nat
    PROVE  LET a == Applied(s, in, seq)
           IN  /\ a \in Streaming
               /\ a.stable = s.stable /\ a.next = s.next /\ a.futs = s.futs
               /\ a.queue = s.queue
               /\ a.trim = s.trim \/ (in.n = 1 /\ a.trim.ap = seq + 1)
<1> DEFINE cap == IF in.kind = "terminal" THEN in.arg ELSE Min({in.arg, seq + 1})
           fence == [val |-> in.arg, ap |-> seq + 1]
           trim == [val |-> cap, ap |-> seq + 1]
           a == Applied(s, in, seq)
<1>1. CASE in.kind = "fence"
  <2>1. a = [s EXCEPT !.fence = fence]
    BY <1>1 DEF Applied
  <2>2. fence \in FenceState
    BY DEF FenceState, Tokens
  <2> HIDE DEF fence, a
  <2>3. a \in Streaming /\ a.stable = s.stable /\ a.next = s.next /\ a.futs = s.futs
        /\ a.queue = s.queue /\ a.trim = s.trim
    BY <2>1, <2>2 DEF Streaming
  <2> QED
    BY <2>3 DEF a
<1>2. CASE in.kind \in {"trim", "terminal"} /\ s.trim.val < cap
  <2>1. a = [s EXCEPT !.trim = trim]
    BY <1>2 DEF Applied
  <2>2. cap \in Nat
    <3>1. CASE in.kind = "terminal"
      BY <3>1, StreamAssumption DEF IsBatch
    <3>2. CASE in.kind = "trim"
      <4>1. in.arg \in Nat
        BY <3>2 DEF IsBatch
      <4>2. in.arg \in Int /\ seq + 1 \in Nat
        BY <4>1
      <4>3. \A x, y \in Int : Min({x, y}) \in {x, y}
        BY MinMaxOfTwo
      <4> QED
        BY <3>2, <4>1, <4>2, <4>3
    <3> QED
      BY <1>2, <3>1, <3>2
  <2>3. trim \in [val : Nat, ap : Nat] /\ trim.ap = seq + 1 /\ in.n = 1
    <3>1. in.n = 1
      BY <1>2 DEF IsBatch
    <3> HIDE DEF cap
    <3> QED
      BY <2>2, <3>1
  <2> HIDE DEF trim, a
  <2>4. a \in Streaming /\ a.stable = s.stable /\ a.next = s.next /\ a.futs = s.futs
        /\ a.queue = s.queue /\ a.trim = trim
    BY <2>1, <2>3 DEF Streaming
  <2> QED
    BY <2>3, <2>4 DEF a
<1>3. CASE in.kind # "fence" /\ ~(in.kind \in {"trim", "terminal"} /\ s.trim.val < cap)
  <2>1. a = s
    BY <1>3 DEF Applied
  <2> QED
    BY <2>1
<1> QED
  BY <1>1, <1>2, <1>3

LEMMA WriteOfFacts ==
    ASSUME NEW s \in Streaming, NEW id \in Nat, NEW lo \in Nat, NEW n \in Nat
    PROVE  LET w == WriteOf(s, id, lo, n)
           IN  /\ w \in Entry /\ w.op = "batch" /\ w.req = id /\ w.start = lo /\ w.n = n
<1> DEFINE f == IF AppliedIn(s.fence, lo, lo + n) THEN <<s.fence.val>> ELSE <<>>
           t == IF AppliedIn(s.trim, lo, lo + n) /\ s.trim.val # 0 THEN <<s.trim.val>> ELSE <<>>
<1>1. f \in Seq(Tokens) /\ t \in Seq(Nat)
  <2>1. s.fence \in FenceState /\ s.trim \in [val : Nat, ap : Nat]
    BY DEF Streaming
  <2>2. s.fence.val \in Tokens /\ s.trim.val \in Nat
    BY <2>1 DEF FenceState
  <2> QED
    BY <2>2
<1>2. WriteOf(s, id, lo, n)
      = [op |-> "batch", req |-> id, start |-> lo, n |-> n, fence |-> f, trim |-> t]
  BY DEF WriteOf
<1> HIDE DEF f, t
<1> QED
  BY <1>1, <1>2 DEF Entry

\* Positions already given out lie below the next one.
LEMMA BelowNext ==
    ASSUME Inv, st.up, NEW id \in DOMAIN reqs, reqs[id].reply \in {"ok", "pending"},
           reqs[id].at # -1
    PROVE  reqs[id].at + InputOf(id).n <= st.next
<1>1. Types /\ Laid /\ Truthful /\ Accounted /\ InFlight /\ Chain
  BY DEF Inv, Upright
<1>2. CASE reqs[id].reply = "pending"
  BY <1>1, <1>2 DEF Truthful
<1>3. CASE reqs[id].reply = "ok"
  <2>1. PICK i \in Batched : wal[i].req = id
    BY <1>1, <1>3 DEF Truthful, Placed
  <2>2. WriteFor(wal[i])
    BY <1>1, <2>1 DEF Laid
  <2>3. End(wal[i]) = reqs[id].at + InputOf(id).n
    BY <2>1, <2>2 DEF WriteFor, End
  <2>4. CASE End(wal[i]) <= st.stable
    <3>1. st.stable <= st.next
      BY <1>1 DEF Chain
    <3> QED
      BY <1>1, <2>1, <2>3, <2>4, <3>1, BatchTypes, FutTypes
  <2>5. ASSUME NEW k \in DOMAIN st.futs, st.futs[k].at = i
        PROVE  End(wal[i]) <= st.next
    <3>1. i # 0
      BY DEF Batched
    <3>2. wal[i] = st.futs[k].write
      BY <1>1, <2>5, <3>1 DEF InFlight, Polled
    <3> QED
      BY <1>1, <3>2 DEF Chain
  <2> QED
    BY <1>1, <2>1, <2>3, <2>4, <2>5 DEF Accounted
<1> QED
  BY <1>2, <1>3

LEMMA AcceptServed ==
    ASSUME Inv, st.up, NEW p \in Producers, NEW b \in 1..Batches(p),
           Accept(p, b, script.of[p].in[b]), st.trim.val # MaxSeq,
           UNCHANGED <<script, dbVars>>
    PROVE  Served
<1>a. PICK id : id = Len(reqs) + 1
  OBVIOUS
<1> DEFINE in == script.of[p].in[b]
           lo == st.next
           hi == lo + in.n
           s == Applied(st, in, lo)
           none == <<>>
           r == Request(p, b, lo, "pending", hi, none)
<1>b. PICK w : w = WriteOf(s, id, lo, in.n)
  OBVIOUS
<1>c. PICK L : L = Len(st.futs) + 1
  OBVIOUS
<1> DEFINE f == [at |-> 0, write |-> w]
           e == [req |-> id, dep |-> hi, ok |-> TRUE]
<1>1. Types /\ Settled /\ Held /\ Truthful /\ Growing /\ Upright
  BY DEF Inv
<1>2. st \in Streaming /\ st.queue \in Seq(Waiter) /\ st.futs \in Seq(Fut)
      /\ Len(st.futs) \in Nat /\ st.stable \in Nat /\ st.next \in Nat
  BY FutTypes
<1>3. in \in AllInputs /\ IsBatch(in) /\ in.n \in Nat /\ in.n > 0
  <2>1. in \in AllInputs /\ IsBatch(in)
    BY <1>1, BatchOf
  <2> HIDE DEF in
  <2> QED
    BY <2>1 DEF IsBatch
<1>4. lo \in Nat /\ hi \in Nat /\ lo < hi
  BY <1>2, <1>3
<1>5. /\ UNCHANGED <<script, wal, flushed, dbUp>> /\ reqs' = Append(reqs, r)
      /\ sess' = [sess EXCEPT ![p].last = hi]
      /\ st' = [s EXCEPT !.next = hi, !.futs = Append(s.futs, f), !.queue = Append(s.queue, e)]
  BY <1>a, <1>b DEF Accept, dbVars
<1>6. r \in Message /\ r.p = p /\ r.b = b /\ r.at = lo /\ r.dep = hi /\ r.reply = "pending"
  <2>1. b \in Nat \ {0}
    BY <1>1, BatchOf
  <2>2. "pending" \in Replied /\ lo \in Nat \cup {-1} /\ none \in Seq(FenceState)
    BY <1>4 DEF Replied
  <2> HIDE DEF none, lo, hi
  <2> QED
    BY <1>4, <2>1, <2>2, RequestForm
<1> HIDE DEF r
<1>7. /\ Len(reqs) \in Nat
      /\ \A i \in DOMAIN reqs :
            i \in DOMAIN reqs' /\ reqs'[i] = reqs[i] /\ InputOf(i)' = InputOf(i)
            /\ i \in Nat /\ i < Len(reqs) + 1
      /\ \A i \in DOMAIN reqs' : i \in DOMAIN reqs \/ i = Len(reqs) + 1
      /\ DOMAIN reqs' = 1..Len(reqs) + 1
      /\ reqs'[Len(reqs) + 1] = r
      /\ TailAt(flushed)' = TailAt(flushed)
      /\ \A i : Placed(i)' = Placed(i)
  BY <1>5, <1>6, Submits
<1>8. id \in Nat /\ id \in DOMAIN reqs' /\ reqs'[id] = r /\ id \notin DOMAIN reqs
  BY <1>a, <1>7
<1>9. InputOf(id)' = in
  BY <1>5, <1>6, <1>8 DEF InputOf
<1>10. /\ s \in Streaming /\ s.stable = st.stable /\ s.futs = st.futs /\ s.queue = st.queue
       /\ s.trim = st.trim \/ s.trim.ap = hi
  <2> HIDE DEF in
  <2>1. /\ s \in Streaming /\ s.stable = st.stable /\ s.futs = st.futs /\ s.queue = st.queue
        /\ s.trim = st.trim \/ (in.n = 1 /\ s.trim.ap = lo + 1)
    BY <1>2, <1>3, <1>4, AppliedFacts
  <2> HIDE DEF s
  <2> QED
    BY <2>1
<1> HIDE DEF s
<1>11. w \in Entry /\ w.op = "batch" /\ w.req = id /\ w.start = lo /\ w.n = in.n /\ End(w) = hi
  <2>1. w \in Entry /\ w.op = "batch" /\ w.req = id /\ w.start = lo /\ w.n = in.n
    BY SMTT(30), <1>b, <1>3, <1>4, <1>8, <1>10, WriteOfFacts
  <2> QED
    BY <2>1 DEF End
<1>12. f \in Fut /\ f.write = w /\ f.at = 0
  BY <1>11 DEF Fut
<1>13. e \in Waiter /\ e.req = id /\ e.dep = hi /\ e.ok = TRUE
  BY <1>4, <1>8 DEF Waiter
<1> HIDE DEF f, e, hi, lo, in
<1>14. /\ st' \in Streaming /\ st'.up
       /\ st'.stable = st.stable /\ st'.next = hi /\ st'.trim = s.trim
       /\ st'.futs = Append(st.futs, f) /\ st'.queue = Append(st.queue, e)
  <2> DEFINE fs == Append(st.futs, f)
             q == Append(st.queue, e)
  <2>1. fs \in Seq(Fut) /\ q \in Seq(Waiter)
    BY <1>2, <1>12, <1>13
  <2>2. st' = [s EXCEPT !.next = hi, !.futs = fs, !.queue = q]
    BY <1>5, <1>10
  <2> HIDE DEF fs, q
  <2>3. st' \in Streaming /\ st'.up /\ st'.stable = s.stable /\ st'.next = hi
        /\ st'.trim = s.trim /\ st'.futs = fs /\ st'.queue = q
    BY <1>4, <1>10, <2>1, <2>2 DEF Streaming
  <2> QED
    BY <1>10, <2>3 DEF fs, q
<1>15. /\ DOMAIN st.futs = 1..Len(st.futs) /\ DOMAIN st'.futs = 1..L
       /\ Len(st'.futs) = L
       /\ \A k \in DOMAIN st.futs : k \in DOMAIN st'.futs /\ st'.futs[k] = st.futs[k] /\ k < L
       /\ st'.futs[L] = f
       /\ \A k \in DOMAIN st'.futs : k \in DOMAIN st.futs \/ k = L
  BY <1>c, <1>2, <1>12, <1>14
<1>16. /\ \A k \in DOMAIN st'.queue :
            \/ k \in DOMAIN st.queue /\ st'.queue[k] = st.queue[k]
            \/ st'.queue[k] = e
  BY <1>2, <1>13, <1>14
<1>17. sess' \in [Producers -> Session]
  BY <1>1, <1>4, <1>5 DEF Types, Session
<1>18. Settled'
  BY <1>1, <1>5, <1>14 DEF Settled
<1>19. Chain'
  <2>1. Chain
    BY <1>1 DEF Upright
  <2>2. /\ \A k \in DOMAIN st.futs : st'.futs[k].write = st.futs[k].write
        /\ st'.futs[L].write = w
    BY <1>12, <1>15
  <2>3. st'.futs # <<>> /\ L \in Nat /\ L \in DOMAIN st'.futs
    BY <1>c, <1>2, <1>15
  <2>4. st'.futs[1].write.start = st.stable
    <3>1. CASE st.futs = <<>>
      <4>1. L = 1
        BY <1>c, <3>1
      <4> QED
        BY <1>11, <2>1, <2>2, <3>1, <4>1 DEF Chain, lo
    <3>2. CASE st.futs # <<>>
      <4>1. 1 \in DOMAIN st.futs
        BY <1>2, <3>2
      <4> QED
        BY <2>1, <2>2, <3>2, <4>1 DEF Chain
    <3> QED
      BY <3>1, <3>2
  <2>5. \A k \in 1..L - 1 : st'.futs[k + 1].write.start = End(st'.futs[k].write)
    <3> SUFFICES ASSUME NEW k \in 1..L - 1
                 PROVE  st'.futs[k + 1].write.start = End(st'.futs[k].write)
      OBVIOUS
    <3>1. k \in DOMAIN st.futs
      BY <1>c, <1>2, <1>15
    <3>2. CASE k = Len(st.futs)
      <4>1. st.futs # <<>>
        BY <1>2, <3>1
      <4>2. k + 1 = L
        BY <1>c, <3>2
      <4> QED
        BY <1>11, <2>1, <2>2, <3>1, <3>2, <4>1, <4>2 DEF Chain, lo
    <3>3. CASE k # Len(st.futs)
      <4>1. k \in 1..Len(st.futs) - 1 /\ k + 1 \in DOMAIN st.futs
        BY <1>c, <1>2, <1>15, <3>1, <3>3
      <4> QED
        BY <2>1, <2>2, <3>1, <4>1 DEF Chain
    <3> QED
      BY <3>2, <3>3
  <2>6. \A k \in DOMAIN st.futs : End(st.futs[k].write) <= lo /\ st.stable <= st.futs[k].write.start
    BY <2>1 DEF Chain, lo
  <2>7. \A j, k \in DOMAIN st'.futs : j < k => End(st'.futs[j].write) <= st'.futs[k].write.start
    <3> SUFFICES ASSUME NEW j \in DOMAIN st'.futs, NEW k \in DOMAIN st'.futs, j < k
                 PROVE  End(st'.futs[j].write) <= st'.futs[k].write.start
      OBVIOUS
    <3>1. j \in DOMAIN st.futs
      BY <1>15, <2>3
    <3>2. CASE k = L
      BY <1>11, <2>2, <2>6, <3>1, <3>2
    <3>3. CASE k # L
      BY <1>15, <2>1, <2>2, <3>1, <3>3 DEF Chain
    <3> QED
      BY <3>2, <3>3
  <2>8. st.stable <= lo
    BY <2>1 DEF Chain, lo
  <2>9. \A k \in DOMAIN st'.futs :
            st.stable <= st'.futs[k].write.start /\ End(st'.futs[k].write) <= hi
    <3> SUFFICES ASSUME NEW k \in DOMAIN st'.futs
                 PROVE  st.stable <= st'.futs[k].write.start /\ End(st'.futs[k].write) <= hi
      OBVIOUS
    <3>1. CASE k = L
      BY <1>4, <1>11, <2>2, <2>8, <3>1
    <3>2. CASE k # L
      <4>1. k \in DOMAIN st.futs /\ End(st.futs[k].write) \in Nat
        BY <1>15, <3>2, FutTypes
      <4> QED
        BY <1>4, <2>2, <2>6, <4>1
    <3> QED
      BY <3>1, <3>2
  <2>10. st.stable <= hi
    BY <1>2, <1>4, <2>8
  <2> QED
    BY <1>11, <1>14, <1>15, <2>2, <2>3, <2>4, <2>5, <2>7, <2>9, <2>10 DEF Chain, End
<1>20. InFlight'
  <2>1. InFlight
    BY <1>1 DEF Upright
  <2>2. \A v : WriteFor(v) => WriteFor(v)'
    BY <1>7 DEF WriteFor
  <2>3. WriteFor(w)'
    BY <1>6, <1>8, <1>9, <1>11 DEF WriteFor
  <2>4. Batched' = Batched
    BY <1>5 DEF Batched
  <2>5. \A k \in DOMAIN st.futs : Polled(k)' = Polled(k)
    BY <1>15 DEF Polled
  <2>6. ~Polled(L)'
    BY <1>12, <1>15 DEF Polled
  <2> SUFFICES ASSUME NEW k \in DOMAIN st'.futs
               PROVE  /\ WriteFor(st.futs[k].write)'
                      /\ Polled(k)' => st'.futs[k].at \in Batched'
                                       /\ wal'[st'.futs[k].at] = st'.futs[k].write
                      /\ ~Polled(k)' => \A j \in DOMAIN st'.futs : k < j => ~Polled(j)'
    BY DEF InFlight
  <2>7. CASE k = L
    <3>1. WriteFor(st.futs[k].write)'
      BY <1>12, <1>15, <2>3, <2>7 DEF WriteFor, InputOf
    <3>2. \A j \in DOMAIN st'.futs : ~(k < j)
      BY <1>c, <1>2, <1>15, <2>7
    <3> QED
      BY <2>6, <2>7, <3>1, <3>2
  <2>8. CASE k # L
    <3>1. k \in DOMAIN st.futs /\ st'.futs[k] = st.futs[k]
      BY <1>15, <2>8
    <3>2. WriteFor(st.futs[k].write)'
      <4>1. WriteFor(st.futs[k].write)
        BY <2>1, <3>1 DEF InFlight
      <4> QED
        BY <1>7, <3>1, <4>1 DEF WriteFor, InputOf
    <3> QED
      BY SMTT(30), <1>5, <1>15, <2>1, <2>4, <2>5, <2>6, <3>1, <3>2 DEF InFlight
  <2> QED
    BY <2>7, <2>8
<1>21. Accounted'
  <2>1. Batched' = Batched /\ wal' = wal /\ flushed' = flushed
    BY <1>5 DEF Batched
  <2> QED
    BY <1>1, <1>7, <1>14, <1>15, <2>1 DEF Upright, Accounted, End
<1>22. LastIsTerminal'
  BY <1>10, <1>14 DEF LastIsTerminal
<1>23. Held'
  <2> SUFFICES ASSUME NEW k \in DOMAIN st'.queue
               PROVE  (LET v == st.queue[k]
                       IN  /\ v.req \in DOMAIN reqs
                           /\ v.ok =>
                               /\ reqs[v.req].at # -1
                               /\ v.dep = reqs[v.req].at + InputOf(v.req).n
                               /\ \/ \E j \in DOMAIN st.futs : st.futs[j].write.req = v.req
                                  \/ Placed(v.req)
                           /\ ~v.ok => reqs[v.req].at = -1 /\ v.dep = reqs[v.req].dep)'
    BY DEF Held
  <2>1. CASE st'.queue[k] = e
    <3>1. L \in DOMAIN st'.futs /\ st'.futs[L].write.req = id
      BY <1>c, <1>2, <1>11, <1>12, <1>15
    <3>2. reqs'[id].at # -1 /\ hi = reqs'[id].at + InputOf(id)'.n
      BY <1>4, <1>6, <1>8, <1>9 DEF hi
    <3>3. InputOf(id)' = script'.of[reqs'[id].p].in[reqs'[id].b]
      BY DEF InputOf
    <3> QED
      BY <1>8, <1>13, <2>1, <3>1, <3>2, <3>3 DEF InputOf
  <2>2. CASE k \in DOMAIN st.queue /\ st'.queue[k] = st.queue[k]
    <3> PICK v : v = st.queue[k]
      OBVIOUS
    <3>1. /\ v.req \in DOMAIN reqs
          /\ v.ok =>
              /\ reqs[v.req].at # -1
              /\ v.dep = reqs[v.req].at + InputOf(v.req).n
              /\ \/ \E i \in DOMAIN st.futs : st.futs[i].write.req = v.req
                 \/ Placed(v.req)
          /\ ~v.ok => reqs[v.req].at = -1 /\ v.dep = reqs[v.req].dep
      BY <1>1, <2>2 DEF Held
    <3>2. /\ v.req \in DOMAIN reqs' /\ reqs'[v.req] = reqs[v.req]
          /\ InputOf(v.req)' = InputOf(v.req) /\ Placed(v.req)' = Placed(v.req)
      BY <1>7, <3>1
    <3>3. st'.queue[k] = v
      BY <2>2
    <3>4. (\E i \in DOMAIN st.futs : st.futs[i].write.req = v.req)
          => \E i \in DOMAIN st'.futs : st'.futs[i].write.req = v.req
      BY <1>15
    <3> QED
      BY <3>1, <3>2, <3>3, <3>4 DEF InputOf, Placed
  <2> QED
    BY <1>16, <2>1, <2>2
<1>24. \A i \in DOMAIN reqs : reqs[i].reply \in {"ok", "pending"} /\ reqs[i].at # -1 =>
            reqs[i].at + InputOf(i).n <= lo /\ reqs[i].at + InputOf(i).n \in Nat
  <2> SUFFICES ASSUME NEW i \in DOMAIN reqs, reqs[i].reply \in {"ok", "pending"},
                      reqs[i].at # -1
               PROVE  reqs[i].at + InputOf(i).n <= lo /\ reqs[i].at + InputOf(i).n \in Nat
    OBVIOUS
  <2>1. reqs \in Seq(Message)
    BY <1>1 DEF Types
  <2>2. reqs[i] \in Message
    BY <2>1
  <2>3. reqs[i].at \in Nat
    BY <2>2 DEF Message
  <2> QED
    BY <1>1, <2>3, BelowNext, InputFacts DEF lo
<1>25. Truthful'
  <2> SUFFICES ASSUME NEW i \in DOMAIN reqs'
               PROVE  /\ reqs'[i].reply = "ok" => reqs'[i].at # -1 /\ Placed(i)'
                      /\ reqs'[i].reply = "rejected" =>
                            reqs'[i].at = -1 /\ reqs'[i].dep <= TailAt(flushed)'
                      /\ reqs'[i].reply = "pending" => st'.up
                      /\ reqs'[i].reply = "pending" /\ reqs'[i].at # -1 =>
                            reqs'[i].at + InputOf(i)'.n <= st'.next
    BY DEF Truthful
  <2>1. CASE i \in DOMAIN reqs
    <3>1. reqs[i].reply = "pending" /\ reqs[i].at # -1 => reqs[i].at + InputOf(i).n <= hi
      BY <1>4, <1>24, <2>1
    <3> QED
      BY <1>1, <1>7, <1>14, <2>1, <3>1 DEF Truthful
  <2>2. CASE i = id
    BY <1>4, <1>6, <1>8, <1>9, <1>14, <2>2 DEF hi
  <2> QED
    BY <1>a, <1>7, <2>1, <2>2
<1>26. Growing'
  <2> SUFFICES ASSUME NEW i \in DOMAIN reqs', NEW j \in DOMAIN reqs', i < j,
                      reqs'[i].reply \in {"ok", "pending"}, reqs'[i].at # -1, reqs'[j].at # -1
               PROVE  reqs'[i].at + InputOf(i)'.n <= reqs'[j].at
    BY DEF Growing
  <2>1. i \in DOMAIN reqs
    BY <1>7
  <2>2. CASE j \in DOMAIN reqs
    BY <1>1, <1>7, <2>1, <2>2 DEF Growing
  <2>3. CASE j = id
    BY <1>6, <1>7, <1>8, <1>24, <2>1, <2>3
  <2> QED
    BY <1>a, <1>7, <2>2, <2>3
<1> QED
  BY <1>5, <1>6, <1>14, <1>17, <1>18, <1>19, <1>20, <1>21, <1>22, <1>23, <1>25, <1>26
  DEF Served, Upright

-----------------------------------------------------------------------------
(* Append sessions *)

LEMMA ClientFacts ==
    ASSUME Types, NEW p \in Producers
    PROVE  /\ cl[p] \in Client
           /\ cl[p].acks \in Seq(Nat) /\ Len(cl[p].acks) \in Nat
           /\ cl[p].sent \in Seq(Nat) /\ Len(cl[p].sent) \in Nat
           /\ cl[p].infl \in Int /\ cl[p].retries \in Nat
           /\ Batches(p) \in Nat /\ Len(cl[p].acks) + cl[p].infl <= Batches(p)
<1>1. cl[p] \in Client /\ Len(cl[p].acks) + cl[p].infl <= Batches(p)
  BY DEF Types
<1>2. cl[p].acks \in Seq(Nat) /\ cl[p].sent \in Seq(Nat) /\ cl[p].infl \in Int
      /\ cl[p].retries \in Nat
  BY <1>1 DEF Client
<1>3. Batches(p) \in Nat
  <2>1. script.of[p].in \in Seq(AllInputs)
    BY ScriptAssumption DEF Types
  <2> QED
    BY <2>1 DEF Batches
<1> QED
  BY <1>1, <1>2, <1>3

\* A step of one session that leaves the server as it is.
LEMMA ClientKeeps ==
    ASSUME Inv, UNCHANGED <<script, wal, flushed, dbUp, st, spawned, reqs, bg>>,
           sess' \in [Producers -> Session],
           NEW p \in Producers, NEW c \in Client, cl' = [cl EXCEPT ![p] = c],
           Len(c.acks) + c.infl <= Batches(p),
           \A k \in DOMAIN c.sent : c.sent[k] \in DOMAIN reqs,
           \A k \in DOMAIN c.acks :
               /\ c.acks[k] \in DOMAIN reqs /\ reqs[c.acks[k]].reply = "ok"
               /\ \A j \in DOMAIN c.sent : c.acks[k] < c.sent[j],
           Increasing(c.acks), Increasing(c.sent)
    PROVE  Inv'
<1>1. Types /\ Laid /\ Settled /\ (st.up => Upright /\ Held) /\ Acknowledged
  BY DEF Inv
<1>2. cl' \in [Producers -> Client] /\ cl'[p] = c
      /\ \A q \in Producers : q # p => cl'[q] = cl[q]
  BY <1>1 DEF Types
<1>3. Types'
  BY <1>1, <1>2 DEF Types, Batches
<1>4. Acknowledged'
  <2> SUFFICES ASSUME NEW q \in Producers
               PROVE  /\ \A k \in DOMAIN cl'[q].sent : cl'[q].sent[k] \in DOMAIN reqs
                      /\ \A k \in DOMAIN cl'[q].acks :
                          /\ cl'[q].acks[k] \in DOMAIN reqs
                          /\ reqs[cl'[q].acks[k]].reply = "ok"
                          /\ \A j \in DOMAIN cl'[q].sent : cl'[q].acks[k] < cl'[q].sent[j]
                      /\ Increasing(cl'[q].acks) /\ Increasing(cl'[q].sent)
    BY DEF Acknowledged, Increasing
  <2>1. CASE q = p
    BY <1>2, <2>1
  <2>2. CASE q # p
    BY <1>1, <1>2, <2>2 DEF Acknowledged
  <2> QED
    BY <2>1, <2>2
<1>5. Laid' /\ Settled'
  BY <1>1 DEF Laid, Settled, Batched, WriteFor, InputOf, End
<1>6. ASSUME st.up PROVE Upright'
  BY <1>6, UprightKept
<1>7. TailAt(flushed)' = TailAt(flushed) /\ \A id : Placed(id)' = Placed(id)
  BY DEF TailAt, Placed, Batched
<1>8. Truthful' /\ Growing' /\ (st.up => Held')
  BY <1>1, <1>7 DEF Truthful, Growing, Held, InputOf, Inv
<1> QED
  BY <1>3, <1>4, <1>5, <1>6, <1>8 DEF Inv

\* A session that gave up its connection waits for nothing.
LEMMA GaveUpKeeps ==
    ASSUME Inv, UNCHANGED <<script, wal, flushed, dbUp, st, spawned, reqs, bg>>,
           sess' \in [Producers -> Session],
           NEW p \in Producers, NEW c \in Client, cl' = [cl EXCEPT ![p] = c],
           c.acks = cl[p].acks, c.infl = cl[p].infl, c.sent \in {<<>>, cl[p].sent}
    PROVE  Inv'
<1>1. Types /\ Acknowledged
  BY DEF Inv
<1>2. Len(c.acks) + c.infl <= Batches(p)
  BY <1>1, ClientFacts
<1>3. Increasing(c.acks) /\ Increasing(c.sent)
  BY <1>1 DEF Acknowledged, Increasing
<1>4. \A k \in DOMAIN c.sent : k \in DOMAIN cl[p].sent /\ c.sent[k] = cl[p].sent[k]
  OBVIOUS
<1>5. \A k \in DOMAIN c.sent : c.sent[k] \in DOMAIN reqs
  BY <1>1, <1>4 DEF Acknowledged
<1>6. \A k \in DOMAIN c.acks :
        /\ c.acks[k] \in DOMAIN reqs /\ reqs[c.acks[k]].reply = "ok"
        /\ \A j \in DOMAIN c.sent : c.acks[k] < c.sent[j]
  BY <1>1, <1>4 DEF Acknowledged
<1> QED
  BY <1>2, <1>3, <1>5, <1>6, ClientKeeps

LEMMA ConnectKeeps == \A p \in Producers : Inv /\ Connect(p) => Inv'
<1> SUFFICES ASSUME NEW p \in Producers, Inv, Connect(p)
             PROVE  Inv'
  OBVIOUS
<1>1. Types /\ cl[p] \in Client
  BY ClientFacts DEF Inv
<1> DEFINE none == <<>>
           resend == cl[p].infl > 0
           c == [cl[p] EXCEPT !.pc = "open", !.id = spawned, !.sent = none, !.resend = resend]
<1>2. cl' = [cl EXCEPT ![p] = c]
  BY DEF Connect
<1>3. c \in Client /\ c.acks = cl[p].acks /\ c.infl = cl[p].infl /\ c.sent = none
  <2>1. none \in Seq(Nat) /\ resend \in BOOLEAN /\ spawned \in Nat
    BY <1>1 DEF Types
  <2> HIDE DEF none, resend
  <2> QED
    BY <1>1, <2>1 DEF Client
<1> HIDE DEF c
<1>4. sess' \in [Producers -> Session]
  BY <1>1 DEF Connect, NewSession, Session, Types
<1>5. UNCHANGED <<script, wal, flushed, dbUp, st, spawned, reqs, bg>>
  BY DEF Connect, dbVars
<1> QED
  BY <1>2, <1>3, <1>4, <1>5, GaveUpKeeps

LEMMA RefusedKeeps == \A p \in Producers : Inv /\ Refused(p) => Inv'
<1> SUFFICES ASSUME NEW p \in Producers, Inv, Refused(p)
             PROVE  Inv'
  OBVIOUS
<1>1. Types /\ cl[p] \in Client
  BY ClientFacts DEF Inv
<1> DEFINE c == [cl[p] EXCEPT !.pc = "failed"]
<1>2. cl' = [cl EXCEPT ![p] = c]
  BY <1>1 DEF Refused
<1>3. c \in Client /\ c.acks = cl[p].acks /\ c.infl = cl[p].infl /\ c.sent = cl[p].sent
  BY <1>1 DEF Client
<1> HIDE DEF c
<1>4. UNCHANGED <<script, wal, flushed, dbUp, st, spawned, reqs, bg>>
      /\ sess' \in [Producers -> Session]
  BY <1>1 DEF Refused, streamVars, dbVars, Types
<1> QED
  BY <1>2, <1>3, <1>4, GaveUpKeeps

LEMMA AfterErrorIs ==
    ASSUME Types, NEW p \in Producers, NEW retryable \in BOOLEAN, AfterError(p, retryable)
    PROVE  \E c \in Client :
            /\ cl' = [cl EXCEPT ![p] = c]
            /\ c.acks = cl[p].acks /\ c.infl = cl[p].infl /\ c.sent = <<>>
            /\ c.pc # "open"
<1>1. cl[p] \in Client
  BY ClientFacts
<1> DEFINE again == retryable /\ RetryCompliant(p) /\ cl[p].retries < MaxRetries
           none == <<>>
           pc == IF again THEN "idle" ELSE "failed"
           retries == IF again THEN cl[p].retries + 1 ELSE cl[p].retries
           c == [cl[p] EXCEPT !.pc = pc, !.sent = none, !.retries = retries]
<1>2. cl' = [cl EXCEPT ![p] = c]
  BY DEF AfterError
<1>3. c \in Client /\ c.acks = cl[p].acks /\ c.infl = cl[p].infl /\ c.sent = none /\ c.pc # "open"
  <2>1. none \in Seq(Nat) /\ pc \in {"idle", "failed"}
    OBVIOUS
  <2>2. retries \in Nat
    BY <1>1 DEF Client
  <2> HIDE DEF none, pc, retries
  <2> QED
    BY <1>1, <2>1, <2>2 DEF Client
<1> HIDE DEF c
<1> QED
  BY <1>2, <1>3

LEMMA SessionErrorKeeps == \A p \in Producers : Inv /\ SessionError(p) => Inv'
<1> SUFFICES ASSUME NEW p \in Producers, Inv, SessionError(p)
             PROVE  Inv'
  OBVIOUS
<1>1. Types
  BY DEF Inv
<1>2. PICK retryable \in BOOLEAN : AfterError(p, retryable)
  BY DEF SessionError
<1>3. PICK c \in Client :
        /\ cl' = [cl EXCEPT ![p] = c]
        /\ c.acks = cl[p].acks /\ c.infl = cl[p].infl /\ c.sent = <<>>
  BY <1>1, <1>2, AfterErrorIs
<1>4. UNCHANGED <<script, wal, flushed, dbUp, st, spawned, reqs, bg>>
      /\ sess' \in [Producers -> Session]
  BY <1>1 DEF SessionError, streamVars, dbVars, Types
<1> QED
  BY <1>3, <1>4, GaveUpKeeps

LEMMA AckKeeps == \A p \in Producers : Inv /\ Ack(p) => Inv'
<1> SUFFICES ASSUME NEW p \in Producers, Inv, Ack(p)
             PROVE  Inv'
  OBVIOUS
<1>1. Types /\ Acknowledged
  BY DEF Inv
<1> DEFINE o == cl[p]
           as == Append(o.acks, Head(o.sent))
           ts == Tail(o.sent)
           c == [o EXCEPT !.pc = IF Len(o.acks) + 1 = Batches(p) THEN "done" ELSE "open",
                          !.acks = as, !.infl = o.infl - 1, !.sent = ts, !.retries = 0,
                          !.resend = o.resend /\ o.infl > 1]
<1>2. o \in Client /\ o.acks \in Seq(Nat) /\ o.sent \in Seq(Nat) /\ o.infl \in Int
      /\ Len(o.acks) \in Nat /\ Len(o.sent) \in Nat /\ Len(o.acks) + o.infl <= Batches(p)
      /\ Batches(p) \in Nat
  BY <1>1, ClientFacts
<1>3. o.sent # <<>> /\ reqs[Head(o.sent)].reply = "ok"
  BY DEF Ack
<1>4. cl' = [cl EXCEPT ![p] = c]
  BY DEF Ack
<1>5. /\ as \in Seq(Nat) /\ Len(as) = Len(o.acks) + 1
      /\ \A k \in 1..Len(o.acks) : as[k] = o.acks[k]
      /\ as[Len(o.acks) + 1] = Head(o.sent) /\ Head(o.sent) = o.sent[1]
      /\ 1 \in DOMAIN o.sent
      /\ ts \in Seq(Nat) /\ Len(ts) = Len(o.sent) - 1
      /\ \A k \in DOMAIN ts : k + 1 \in DOMAIN o.sent /\ ts[k] = o.sent[k + 1] /\ 1 < k + 1
  <2>1. Head(o.sent) \in Nat /\ Head(o.sent) = o.sent[1] /\ 1 \in DOMAIN o.sent
    BY <1>2, <1>3
  <2> HIDE DEF o
  <2>2. as \in Seq(Nat) /\ Len(as) = Len(o.acks) + 1
        /\ (\A k \in 1..Len(o.acks) : as[k] = o.acks[k])
        /\ as[Len(o.acks) + 1] = Head(o.sent)
    BY <1>2, <2>1, AppendProperties
  <2>3. ts \in Seq(Nat) /\ Len(ts) = Len(o.sent) - 1
        /\ \A k \in DOMAIN ts : k + 1 \in DOMAIN o.sent /\ ts[k] = o.sent[k + 1] /\ 1 < k + 1
    BY <1>2, <1>3, HeadTailProperties
  <2> QED
    BY <2>1, <2>2, <2>3
<1> HIDE DEF o, as, ts
<1>6. c \in Client /\ c.acks = as /\ c.infl = o.infl - 1 /\ c.sent = ts
  <2> DEFINE pc == IF Len(o.acks) + 1 = Batches(p) THEN "done" ELSE "open"
             infl == o.infl - 1
             resend == o.resend /\ o.infl > 1
  <2>1. pc \in {"done", "open"} /\ infl \in Int /\ resend \in BOOLEAN /\ o \in Client
        /\ as \in Seq(Nat) /\ ts \in Seq(Nat)
    <3>1. resend \in BOOLEAN
      OBVIOUS
    <3>2. infl \in Int /\ pc \in {"done", "open"}
      BY <1>2
    <3> HIDE DEF resend, infl, pc
    <3> QED
      BY <1>2, <1>5, <3>1, <3>2
  <2>2. c = [o EXCEPT !.pc = pc, !.acks = as, !.infl = infl, !.sent = ts, !.retries = 0,
                      !.resend = resend]
    OBVIOUS
  <2> HIDE DEF c, pc, resend, infl
  <2>3. c \in Client /\ c.acks = as /\ c.infl = infl /\ c.sent = ts
    BY <2>1, <2>2 DEF Client
  <2> QED
    BY <2>3 DEF infl
<1> HIDE DEF c
<1> DEFINE n == Len(o.acks)
<1>7. Len(c.acks) + c.infl <= Batches(p)
  <2>1. Len(c.acks) = n + 1 /\ c.infl = o.infl - 1
    BY <1>5, <1>6
  <2>2. n \in Nat /\ o.infl \in Int /\ n + o.infl <= Batches(p) /\ Batches(p) \in Nat
    BY <1>2
  <2> HIDE DEF n
  <2> QED
    BY <2>1, <2>2
<1>8. /\ \A k \in DOMAIN o.sent : o.sent[k] \in DOMAIN reqs
      /\ \A k \in DOMAIN o.acks :
          /\ o.acks[k] \in DOMAIN reqs
          /\ reqs[o.acks[k]].reply = "ok"
          /\ \A j \in DOMAIN o.sent : o.acks[k] < o.sent[j]
      /\ Increasing(o.acks) /\ Increasing(o.sent)
  BY <1>1 DEF Acknowledged, o
<1>9. /\ DOMAIN o.acks = 1..n /\ DOMAIN as = 1..n + 1 /\ n \in Nat
      /\ \A k \in DOMAIN o.acks : as[k] = o.acks[k]
      /\ \A k \in DOMAIN as : k \in DOMAIN o.acks \/ k = n + 1
      /\ \A i, j \in DOMAIN as : i < j => i \in DOMAIN o.acks
  <2>1. Len(as) = n + 1 /\ \A k \in 1..n : as[k] = o.acks[k]
    BY <1>5
  <2>2. DOMAIN o.acks = 1..n /\ DOMAIN as = 1..Len(as) /\ n \in Nat
    BY <1>2, <1>5, LenProperties
  <2> HIDE DEF n
  <2>3. DOMAIN as = 1..n + 1 /\ DOMAIN o.acks = 1..n /\ n \in Nat
    BY <2>1, <2>2
  <2>4. \A i \in 1..n + 1 : i \in 1..n \/ i = n + 1
    BY <2>2
  <2>5. \A i, j \in 1..n + 1 : i < j => i \in 1..n
    BY <2>2
  <2> QED
    BY <2>1, <2>3, <2>4, <2>5
<1> HIDE DEF n
<1>10. \A k \in DOMAIN ts : ts[k] \in DOMAIN reqs /\ o.sent[1] < ts[k]
  BY <1>5, <1>8 DEF Increasing
<1>11. ASSUME NEW k \in DOMAIN as
       PROVE  /\ as[k] \in DOMAIN reqs /\ reqs[as[k]].reply = "ok"
              /\ \A j \in DOMAIN ts : as[k] < ts[j]
  <2>1. CASE k \in DOMAIN o.acks
    <3>1. as[k] = o.acks[k]
      BY <1>9, <2>1
    <3>2. \A j \in DOMAIN ts : \E i \in DOMAIN o.sent : ts[j] = o.sent[i]
      BY <1>5
    <3> QED
      BY <1>8, <2>1, <3>1, <3>2
  <2>2. CASE k = n + 1
    <3>1. as[k] = o.sent[1] /\ 1 \in DOMAIN o.sent /\ reqs[o.sent[1]].reply = "ok"
      BY <1>3, <1>5, <2>2 DEF n
    <3> QED
      BY <1>8, <1>10, <3>1
  <2> QED
    BY <1>9, <2>1, <2>2
<1>12. Increasing(ts)
  <2> SUFFICES ASSUME NEW i \in DOMAIN ts, NEW j \in DOMAIN ts, i < j
               PROVE  ts[i] < ts[j]
    BY DEF Increasing
  <2>1. i + 1 < j + 1
    BY <1>5
  <2> QED
    BY <1>5, <1>8, <2>1 DEF Increasing
<1>13. Increasing(as)
  <2> SUFFICES ASSUME NEW i \in DOMAIN as, NEW j \in DOMAIN as, i < j
               PROVE  as[i] < as[j]
    BY DEF Increasing
  <2>1. i \in DOMAIN o.acks /\ as[i] = o.acks[i]
    BY <1>9
  <2>2. CASE j \in DOMAIN o.acks
    BY <1>8, <1>9, <2>1, <2>2 DEF Increasing
  <2>3. CASE j = n + 1
    <3>1. as[j] = o.sent[1] /\ 1 \in DOMAIN o.sent
      BY <1>5, <2>3 DEF n
    <3> QED
      BY <1>8, <2>1, <3>1
  <2> QED
    BY <1>9, <2>2, <2>3
<1>14. UNCHANGED <<script, wal, flushed, dbUp, st, spawned, reqs, bg>>
       /\ sess' \in [Producers -> Session]
  BY <1>1 DEF Ack, streamVars, dbVars, Types
<1> QED
  BY <1>4, <1>6, <1>7, <1>10, <1>11, <1>12, <1>13, <1>14, ClientKeeps

LEMMA SendKeeps == \A p \in Producers : Inv /\ Send(p) => Inv'
<1> SUFFICES ASSUME NEW p \in Producers, Inv, Send(p)
             PROVE  Inv'
  OBVIOUS
<1> DEFINE o == cl[p]
           n == Len(o.sent) + 1
           b == Len(o.acks) + n
           new == Len(reqs) + 1
           ss == Append(o.sent, new)
           infl == Max({o.infl, n})
           c == [o EXCEPT !.sent = ss, !.infl = infl]
<1>1. Types /\ Laid /\ Acknowledged /\ reqs \in Seq(Message) /\ st.up
  BY DEF Inv, Types, Send, HandleAppend
<1>2. o \in Client /\ o.acks \in Seq(Nat) /\ Len(o.acks) \in Nat
      /\ o.sent \in Seq(Nat) /\ Len(o.sent) \in Nat /\ o.infl \in Int
      /\ Len(o.acks) + o.infl <= Batches(p) /\ Batches(p) \in Nat
  BY <1>1, ClientFacts
<1>3. /\ Len(o.acks) + Len(o.sent) + 1 <= IF o.resend THEN Len(o.acks) + o.infl ELSE Batches(p)
      /\ HandleAppend(p, Len(o.acks) + Len(o.sent) + 1)
      /\ cl' = [cl EXCEPT ![p] = c]
  BY <1>1 DEF Send, Types
<1> DEFINE a == Len(o.acks)
           t == Len(o.sent)
           i == o.infl
           m == Batches(p)
<1>4. n \in Nat /\ b \in 1..m /\ b = a + t + 1 /\ a \in Nat /\ i \in Int /\ m \in Nat
      /\ a + i <= m /\ a + n <= m
  <2>1. a \in Nat /\ t \in Nat /\ i \in Int /\ m \in Nat /\ a + i <= m
    BY <1>2
  <2>2. a + t + 1 <= m
    <3>1. a + t + 1 <= IF o.resend THEN a + i ELSE m
      BY <1>3
    <3> HIDE DEF a, t, i, m
    <3> QED
      BY <2>1, <3>1
  <2>3. n = t + 1 /\ b = a + n
    OBVIOUS
  <2> HIDE DEF a, t, i, m, n, b
  <2> QED
    BY <2>1, <2>2, <2>3
<1>5. infl \in Int /\ Len(o.acks) + infl <= Batches(p)
  <2>1. infl = Max({i, n})
    OBVIOUS
  <2> HIDE DEF infl, i, n, a, m
  <2>2. i \in Int /\ n \in Int
    BY <1>4
  <2>3. infl \in {i, n}
    BY <2>1, <2>2, MinMaxOfTwo
  <2>4. infl \in Int /\ a + infl <= m
    BY <1>4, <2>2, <2>3
  <2> QED
    BY <2>4 DEF a, m
<1> HIDE DEF a, t, i, m
<1>6. /\ ss \in Seq(Nat) /\ Len(ss) = n
      /\ \A k \in 1..Len(o.sent) : ss[k] = o.sent[k]
      /\ ss[n] = new /\ new \in Nat
  <2>1. new \in Nat
    BY <1>1
  <2> HIDE DEF new
  <2> QED
    BY <1>2, <2>1, AppendProperties
<1> HIDE DEF o, infl, ss
<1>7. c \in Client /\ c.acks = o.acks /\ c.infl = infl /\ c.sent = ss
  BY <1>2, <1>5, <1>6 DEF Client
<1> HIDE DEF c
<1>8. UNCHANGED <<script, dbVars, spawned, bg>>
  BY <1>3 DEF HandleAppend
<1>9. Served
  <2> HIDE DEF b
  <2>1. \/ Drop(p, b) \/ Refuse(p, b, script.of[p].in[b])
        \/ Accept(p, b, script.of[p].in[b]) /\ st.trim.val # MaxSeq
    BY <1>3, <1>4 DEF HandleAppend, a, t
  <2> QED
    BY <1>1, <1>4, <1>8, <2>1, DropServed, RefuseServed, AcceptServed DEF m
<1>10. PICK r \in Message : r.b \in 1..Batches(r.p) /\ reqs' = Append(reqs, r)
  BY <1>9 DEF Served
<1>11. /\ reqs' \in Seq(Message) /\ DOMAIN reqs = 1..Len(reqs)
       /\ DOMAIN reqs' = 1..Len(reqs) + 1
       /\ \A id \in DOMAIN reqs : id \in DOMAIN reqs' /\ reqs'[id] = reqs[id]
       /\ \A id \in DOMAIN reqs : id \in Nat /\ id < new
       /\ \A id \in DOMAIN reqs' : (reqs[id].b \in 1..Batches(reqs[id].p))'
       /\ Laid' /\ Len(reqs) \in Nat
  BY <1>8, <1>10, Submits DEF dbVars
<1>12. cl' \in [Producers -> Client] /\ cl'[p] = c
       /\ \A q \in Producers : q # p => cl'[q] = cl[q]
  BY <1>1, <1>3, <1>7 DEF Types
<1>13. Types'
  <2>1. \A q \in Producers : Len(cl'[q].acks) + cl'[q].infl <= Batches(q)'
    <3> SUFFICES ASSUME NEW q \in Producers
                 PROVE  Len(cl'[q].acks) + cl'[q].infl <= Batches(q)
      BY <1>8 DEF Batches
    <3>1. CASE q = p
      BY <1>5, <1>7, <1>12, <3>1
    <3>2. CASE q # p
      BY <1>1, <1>12, <3>2 DEF Types
    <3> QED
      BY <3>1, <3>2
  <2> QED
    BY <1>1, <1>8, <1>9, <1>11, <1>12, <2>1 DEF Types, Served, dbVars
<1>14. /\ \A k \in DOMAIN o.sent : o.sent[k] \in DOMAIN reqs
       /\ \A k \in DOMAIN o.acks :
            /\ o.acks[k] \in DOMAIN reqs
            /\ reqs[o.acks[k]].reply = "ok"
            /\ \A j \in DOMAIN o.sent : o.acks[k] < o.sent[j]
       /\ Increasing(o.acks) /\ Increasing(o.sent)
  BY <1>1 DEF Acknowledged, o
<1>15. \A k \in DOMAIN ss : \/ k \in DOMAIN o.sent /\ ss[k] = o.sent[k] /\ k < n
                            \/ k = n /\ ss[k] = new
  <2>1. DOMAIN ss = 1..n /\ DOMAIN o.sent = 1..Len(o.sent)
    BY <1>2, <1>6
  <2>2. \A k \in 1..n : (k \in 1..Len(o.sent) /\ k < n) \/ k = n
    BY <1>2
  <2> QED
    BY <1>6, <2>1, <2>2
<1>16. new \in DOMAIN reqs'
  BY <1>11
<1> HIDE DEF new, n
<1>17. \A k \in DOMAIN ss : ss[k] \in DOMAIN reqs'
  BY <1>11, <1>14, <1>15, <1>16
<1>18. \A k \in DOMAIN o.acks :
            /\ o.acks[k] \in DOMAIN reqs' /\ reqs'[o.acks[k]].reply = "ok"
            /\ \A j \in DOMAIN ss : o.acks[k] < ss[j]
  BY <1>11, <1>14, <1>15
<1>19. Increasing(ss)
  <2> SUFFICES ASSUME NEW x \in DOMAIN ss, NEW y \in DOMAIN ss, x < y
               PROVE  ss[x] < ss[y]
    BY DEF Increasing
  <2>1. CASE x \in DOMAIN o.sent /\ ss[x] = o.sent[x] /\ y \in DOMAIN o.sent /\ ss[y] = o.sent[y]
    BY <1>14, <2>1 DEF Increasing
  <2>2. CASE x \in DOMAIN o.sent /\ ss[x] = o.sent[x] /\ ss[y] = new
    BY <1>11, <1>14, <2>2
  <2>3. ~(x = n)
    <3>1. x \in Int /\ y \in Int /\ n \in Int
      BY <1>4, <1>6
    <3> QED
      BY <1>15, <3>1
  <2> QED
    BY <1>15, <2>1, <2>2, <2>3
<1>20. Acknowledged'
  <2> SUFFICES ASSUME NEW q \in Producers
               PROVE  /\ \A k \in DOMAIN cl'[q].sent : cl'[q].sent[k] \in DOMAIN reqs'
                      /\ \A k \in DOMAIN cl'[q].acks :
                          /\ cl'[q].acks[k] \in DOMAIN reqs'
                          /\ reqs'[cl'[q].acks[k]].reply = "ok"
                          /\ \A j \in DOMAIN cl'[q].sent : cl'[q].acks[k] < cl'[q].sent[j]
                      /\ Increasing(cl'[q].acks) /\ Increasing(cl'[q].sent)
    BY DEF Acknowledged, Increasing
  <2>1. CASE q = p
    BY <1>7, <1>12, <1>14, <1>17, <1>18, <1>19, <2>1
  <2>2. CASE q # p
    BY <1>1, <1>11, <1>12, <2>2 DEF Acknowledged
  <2> QED
    BY <2>1, <2>2
<1> QED
  BY <1>9, <1>11, <1>13, <1>20 DEF Inv, Served

LEMMA DisconnectKeeps ==
    \A p \in Producers : Inv /\ Disconnect(p) =>
        /\ Inv' /\ Answered
        /\ \A id \in DOMAIN reqs : reqs'[id].reply \in {reqs[id].reply, "lost"}
<1> SUFFICES ASSUME NEW p \in Producers, Inv, Disconnect(p)
             PROVE  /\ Inv' /\ Answered
                    /\ \A id \in DOMAIN reqs : reqs'[id].reply \in {reqs[id].reply, "lost"}
  OBVIOUS
<1>1. Types /\ Laid /\ Settled /\ Truthful /\ Growing /\ Acknowledged
      /\ (st.up => Upright /\ Held) /\ reqs \in Seq(Message)
  BY DEF Inv, Types
<1>2. UNCHANGED <<script, wal, flushed, dbUp, st, spawned, sess, bg>>
  BY DEF Disconnect, dbVars
<1> DEFINE reply == [id \in DOMAIN reqs |->
                        IF reqs[id].p = p /\ reqs[id].reply = "pending" THEN "lost"
                        ELSE reqs[id].reply]
<1>3. \A id \in DOMAIN reqs : reqs[id] \in Message
  BY <1>1
<1>4. reply \in [DOMAIN reqs -> Replied]
  BY <1>3 DEF Message, Replied
<1>5. \A id \in DOMAIN reqs :
        [reqs[id] EXCEPT !.reply = reply[id]]
        = IF reqs[id].p = p /\ reqs[id].reply = "pending"
          THEN [reqs[id] EXCEPT !.reply = "lost"] ELSE reqs[id]
  BY <1>3 DEF Message
<1>6. reqs' = [id \in DOMAIN reqs |-> [reqs[id] EXCEPT !.reply = reply[id]]]
  BY <1>5 DEF Disconnect
<1>7. \A id \in DOMAIN reqs : /\ reqs[id].reply # "pending" => reply[id] = reqs[id].reply
                              /\ reply[id] \in {reqs[id].reply, "lost"}
  OBVIOUS
<1>8. \A id \in DOMAIN reqs : reqs'[id].reply = reply[id]
  BY <1>3, <1>6 DEF Message
<1> HIDE DEF reply
<1>9. Answered
  BY <1>1, <1>2, <1>4, <1>6, <1>7, AnsweredForm
<1>10. /\ \A id \in DOMAIN reqs : InputOf(id)' = InputOf(id)
       /\ \A id \in DOMAIN reqs' : (reqs[id].b \in 1..Batches(reqs[id].p))'
       /\ Growing' /\ Laid'
  BY <1>1, <1>2, <1>9, AnsweredKeeps
<1>11. PICK c \in Client :
        /\ cl' = [cl EXCEPT ![p] = c]
        /\ c.acks = cl[p].acks /\ c.infl = cl[p].infl /\ c.sent = <<>>
  BY <1>1, AfterErrorIs DEF Disconnect
<1>12. cl' \in [Producers -> Client] /\ cl'[p] = c
       /\ \A q \in Producers : q # p => cl'[q] = cl[q]
  BY <1>1, <1>11 DEF Types
<1>13. Types'
  <2>1. \A q \in Producers : Len(cl'[q].acks) + cl'[q].infl <= Batches(q)
    <3> TAKE q \in Producers
    <3>1. Len(cl[q].acks) + cl[q].infl <= Batches(q)
      BY <1>1 DEF Types
    <3> QED
      BY <1>11, <1>12, <3>1
  <2>2. reqs' \in Seq(Message)
    BY <1>9 DEF Answered
  <2> QED
    BY <1>1, <1>2, <1>10, <1>12, <2>1, <2>2 DEF Types, Batches
<1>14. Acknowledged'
  <2> SUFFICES ASSUME NEW q \in Producers
               PROVE  /\ \A k \in DOMAIN cl'[q].sent : cl'[q].sent[k] \in DOMAIN reqs'
                      /\ \A k \in DOMAIN cl'[q].acks :
                          /\ cl'[q].acks[k] \in DOMAIN reqs'
                          /\ reqs'[cl'[q].acks[k]].reply = "ok"
                          /\ \A j \in DOMAIN cl'[q].sent : cl'[q].acks[k] < cl'[q].sent[j]
                      /\ Increasing(cl'[q].acks) /\ Increasing(cl'[q].sent)
    BY DEF Acknowledged, Increasing
  <2>1. cl'[q].acks = cl[q].acks /\ cl'[q].sent \in {<<>>, cl[q].sent}
    BY <1>11, <1>12
  <2>2. \A k \in DOMAIN cl'[q].sent : k \in DOMAIN cl[q].sent /\ cl'[q].sent[k] = cl[q].sent[k]
    BY <2>1
  <2>3. DOMAIN reqs' = DOMAIN reqs
        /\ \A id \in DOMAIN reqs : reqs[id].reply = "ok" => reqs'[id].reply = "ok"
    BY <1>9 DEF Answered
  <2>4. Increasing(cl'[q].acks) /\ Increasing(cl'[q].sent)
    BY <1>1, <2>1, <2>2 DEF Acknowledged, Increasing
  <2> QED
    BY <1>1, <2>1, <2>2, <2>3, <2>4 DEF Acknowledged
<1>15. TailAt(flushed)' = TailAt(flushed) /\ Batched' = Batched
       /\ \A id : Placed(id)' = Placed(id)
  BY <1>2 DEF TailAt, Placed, Batched
<1>16. Settled'
  BY <1>1, <1>2, <1>15 DEF Settled
<1>17. Truthful'
  BY <1>1, <1>2, <1>7, <1>8, <1>9, <1>10, <1>15 DEF Truthful, Answered
<1>18. ASSUME st.up PROVE Upright'
  <2>1. Chain /\ InFlight /\ Accounted /\ LastIsTerminal
    BY <1>1, <1>18 DEF Upright
  <2>2. Chain' /\ LastIsTerminal'
    BY <1>2, <2>1 DEF Chain, LastIsTerminal, End
  <2>3. InFlight'
    <3>1. \A w : WriteFor(w) => WriteFor(w)'
      BY <1>9, <1>10 DEF WriteFor, Answered
    <3> QED
      BY <1>2, <1>15, <2>1, <3>1 DEF InFlight, Polled
  <2>4. Accounted'
    BY <1>2, <1>15, <2>1 DEF Accounted, End
  <2> QED
    BY <2>2, <2>3, <2>4 DEF Upright
<1>19. ASSUME st.up PROVE Held'
  <2>1. Held
    BY <1>1, <1>19
  <2> QED
    BY <1>2, <1>9, <1>10, <1>15, <2>1 DEF Held, Answered
<1>20. Inv'
  BY <1>2, <1>10, <1>13, <1>14, <1>16, <1>17, <1>18, <1>19 DEF Inv
<1>21. \A id \in DOMAIN reqs : reqs'[id].reply \in {reqs[id].reply, "lost"}
  BY <1>7, <1>8
<1> QED
  BY <1>9, <1>20, <1>21

-----------------------------------------------------------------------------
(* The invariant *)

LEMMA InitInv == Init => Inv
<1> SUFFICES ASSUME Init PROVE Inv
  OBVIOUS
<1>1. script \in Scripts /\ wal = <<>> /\ flushed = 0 /\ dbUp = TRUE /\ st = Down /\ spawned = 0
      /\ reqs = <<>> /\ sess = [p \in Producers |-> NewSession]
      /\ bg = [pc |-> "idle", point |-> 0, at |-> 0]
      /\ cl = [p \in Producers |-> NewProducer(p)]
  BY DEF Init, StreamInit
<1>2. \A p \in Producers : Batches(p) \in Nat
  <2> TAKE p \in Producers
  <2>1. script.of[p].in \in Seq(AllInputs)
    BY <1>1, ScriptAssumption
  <2> QED
    BY <2>1 DEF Batches
<1>3. \A p \in Producers : /\ NewProducer(p) \in Client
                           /\ NewProducer(p).acks = <<>> /\ NewProducer(p).sent = <<>>
                           /\ NewProducer(p).infl = 0
  <2> DEFINE none == <<>>
  <2>1. none \in Seq(Nat)
    OBVIOUS
  <2>2. \A p \in Producers :
          NewProducer(p) = [pc |-> IF Batches(p) = 0 THEN "done" ELSE "idle", id |-> 0,
                            acks |-> none, infl |-> 0, sent |-> none, resend |-> FALSE,
                            retries |-> 0]
    BY DEF NewProducer
  <2> HIDE DEF none
  <2> TAKE p \in Producers
  <2> DEFINE pc == IF Batches(p) = 0 THEN "done" ELSE "idle"
  <2>3. pc \in {"idle", "open", "done", "failed"}
    OBVIOUS
  <2>4. NewProducer(p) = [pc |-> pc, id |-> 0, acks |-> none, infl |-> 0, sent |-> none,
                          resend |-> FALSE, retries |-> 0]
    BY <2>2
  <2> HIDE DEF pc
  <2>5. NewProducer(p) \in Client
    BY <2>1, <2>3, <2>4 DEF Client
  <2>6. NewProducer(p).acks = none /\ NewProducer(p).sent = none /\ NewProducer(p).infl = 0
    BY <2>4
  <2> QED
    BY <2>5, <2>6 DEF none
<1>4. cl \in [Producers -> Client] /\ sess \in [Producers -> Session] /\ bg \in Trimmer
      /\ \A p \in Producers : cl[p].acks = <<>> /\ cl[p].sent = <<>> /\ cl[p].infl = 0
  BY <1>1, <1>3 DEF Session, NewSession, Trimmer
<1>5. /\ wal \in Seq(Entry) /\ flushed \in 0..Len(wal) /\ reqs \in Seq(Message)
      /\ DOMAIN reqs = {} /\ 1..Len(wal) = {}
  BY <1>1
<1>6. Types
  <2>1. \A p \in Producers : Len(cl[p].acks) + cl[p].infl <= Batches(p)
    BY <1>2, <1>4
  <2> QED
    BY <1>1, <1>4, <1>5, <2>1 DEF Types
<1>7. Laid /\ Settled
  BY <1>1, <1>5 DEF Laid, Settled, Batched, Down
<1>8. ~st.up
  BY <1>1 DEF Down
<1>9. Truthful /\ Growing
  BY <1>5 DEF Truthful, Growing
<1>10. Acknowledged
  BY <1>4 DEF Acknowledged, Increasing
<1> QED
  BY <1>6, <1>7, <1>8, <1>9, <1>10 DEF Inv

LEMMA SameKeeps ==
    ASSUME Inv, UNCHANGED <<script, wal, flushed, dbUp, st, spawned, reqs, sess, cl, bg>>
    PROVE  Inv'
<1>1. bg' \in Trimmer
  BY DEF Inv, Types
<1> QED
  BY <1>1, SameButTrimmer

LEMMA StepInv == ~StallPastDormancy /\ Inv /\ [Next]_vars => Inv'
<1> SUFFICES ASSUME ~StallPastDormancy, Inv, [Next]_vars
             PROVE  Inv'
  OBVIOUS
<1>1. CASE StreamStep /\ UNCHANGED <<cl, rd>>
  BY <1>1, StartKeeps, DormancyKeeps, PollWriteKeeps, FlushKeeps, CompleteWriteKeeps,
     FailWriteKeeps, CrashKeeps, RestartKeeps, ListTrimKeeps, DeleteRecordsKeeps,
     FinalizeTrimKeeps DEF StreamStep
<1>2. ASSUME NEW p \in Producers, ProducerStep(p)
      PROVE  Inv'
  BY <1>2, ConnectKeeps, RefusedKeeps, SendKeeps, AckKeeps, SessionErrorKeeps, DisconnectKeeps
  DEF ProducerStep
<1>3. CASE ReaderStep
  <2>1. UNCHANGED <<script, wal, flushed, dbUp, st, spawned, reqs, sess, cl, bg>>
    BY <1>3 DEF ReaderStep, OpenRead, CatchUp, Follow, Receive, Lag, ReadError, streamVars, dbVars
  <2> QED
    BY <2>1, SameKeeps
<1>4. CASE UNCHANGED vars
  BY <1>4, SameKeeps DEF vars, streamVars
<1> QED
  BY <1>1, <1>2, <1>3, <1>4 DEF Next

LEMMA LogInv ==
    ASSUME ~StallPastDormancy
    PROVE  Spec => []Inv
<1>1. Inv /\ [Next]_vars => Inv'
  BY StepInv
<1> QED
  BY <1>1, InitInv, PTL DEF Spec

-----------------------------------------------------------------------------
(* The theorems *)

\* The assertion of start_streamer (core.rs, assert_no_records_following_tail)
\* never fails: whatever crashed, was fenced or was cut off before, storage
\* holds no record at or past the tail position it reads.
THEOREM NoRecordsPastTailCorrect ==
    ASSUME ~StallPastDormancy
    PROVE  Spec => []NoRecordsPastTail
<1>1. ASSUME Inv, NEW r \in Durable
      PROVE  r.seq < TailAt(flushed)
  <2>1. PICK i \in 1..flushed : \E j \in 1..wal[i].n :
          r = [seq |-> wal[i].start + j - 1, req |-> wal[i].req]
    BY DEF Durable, RecordsAt
  <2>2. Types /\ Laid /\ flushed \in 0..Len(wal) /\ wal \in Seq(Entry)
    BY <1>1 DEF Inv, Types
  <2>3. i \in 1..Len(wal) /\ i <= flushed
    BY <2>2
  <2>4. i \in Batched
    BY <2>1, <2>2, <2>3 DEF Laid
  <2>5. End(wal[i]) <= TailAt(flushed) /\ TailAt(flushed) \in Nat
    BY <2>2, <2>3, <2>4, LogFactsHold DEF LogFacts
  <2> QED
    BY <2>1, <2>2, <2>4, <2>5, BatchTypes DEF End
<1>2. Inv => NoRecordsPastTail
  BY <1>1 DEF NoRecordsPastTail
<1> QED
  BY <1>2, LogInv, PTL

\* Every acknowledgement a client has received (process_ack of the append
\* session) names a batch that is in storage at the acknowledged place, whatever
\* crashed since, and the places grow in the order of the batches.
THEOREM AckedIsDurableCorrect ==
    ASSUME ~StallPastDormancy
    PROVE  Spec => []AckedIsDurable
<1>1. ASSUME Inv, NEW id \in DOMAIN reqs, reqs[id].reply = "ok"
      PROVE  StoredAt(id, reqs[id].at)
  <2>1. Types /\ Laid /\ Truthful
    BY <1>1 DEF Inv
  <2>2. PICK i \in Batched : i <= flushed /\ wal[i].req = id
    BY <1>1, <2>1 DEF Truthful, Placed
  <2>3. i \in 1..flushed
    BY <2>1, <2>2, BatchTypes DEF Types
  <2>4. wal[i].start = reqs[id].at /\ wal[i].n = InputOf(id).n
    BY <2>1, <2>2 DEF Laid, WriteFor
  <2>5. \A j \in 1..wal[i].n : [seq |-> wal[i].start + j - 1, req |-> wal[i].req] \in Durable
    BY <2>3 DEF Durable, RecordsAt
  <2> QED
    BY <2>2, <2>4, <2>5 DEF StoredAt
<1>2. ASSUME Inv, NEW i \in DOMAIN reqs, NEW j \in DOMAIN reqs, i < j,
             reqs[i].reply = "ok", reqs[j].reply = "ok"
      PROVE  reqs[i].at < reqs[j].at
  <2>1. reqs[i].at + InputOf(i).n <= reqs[j].at
    BY <1>2 DEF Inv, Growing, Truthful
  <2>2. reqs[i].at \in Int /\ reqs[j].at \in Int
    <3>1. reqs[i] \in Message /\ reqs[j] \in Message
      BY <1>2 DEF Inv, Types
    <3> QED
      BY <3>1 DEF Message
  <2>3. InputOf(i).n \in Nat /\ InputOf(i).n > 0
    BY <1>2, InputFacts DEF Inv
  <2> QED
    BY <2>1, <2>2, <2>3
<1>3. ASSUME Inv, NEW p \in Producers
      PROVE  /\ \A k \in DOMAIN cl[p].acks :
                    StoredAt(cl[p].acks[k], reqs[cl[p].acks[k]].at)
             /\ \A j, k \in DOMAIN cl[p].acks :
                    j < k => reqs[cl[p].acks[j]].at < reqs[cl[p].acks[k]].at
  <2>1. /\ \A k \in DOMAIN cl[p].acks :
             cl[p].acks[k] \in DOMAIN reqs /\ reqs[cl[p].acks[k]].reply = "ok"
        /\ Increasing(cl[p].acks)
    BY <1>3 DEF Inv, Acknowledged
  <2> QED
    BY <1>1, <1>2, <1>3, <2>1 DEF Increasing
<1>4. Inv => AckedIsDurable
  BY <1>3 DEF AckedIsDurable
<1> QED
  BY <1>4, LogInv, PTL
=============================================================================
