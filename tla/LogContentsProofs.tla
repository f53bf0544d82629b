-------------------------- MODULE LogContentsProofs --------------------------
(***************************************************************************)
(* What is in an S2 stream, that it implements the abstract log, and that  *)
(* nobody who waits for a reply is forgotten: the proofs about LogSession  *)
(* that look at the batches and at the queue of replies themselves.  They  *)
(* rest on the invariant of LogSessionProofs and hold for any scripts,     *)
(* sessions, faults and limits, as long as no write outlasts the dormancy  *)
(* timeout (~StallPastDormancy).                                           *)
(***************************************************************************)
EXTENDS LogSessionProofs

-----------------------------------------------------------------------------
(* The writes, in the log or on their way to it, are one sequence of batches *)
(* without gaps.  A crash takes its end away, an accepted append makes it    *)
(* longer, and nothing else changes it.                                      *)

Writes ==
    {wal[i] : i \in Batched}
    \cup (IF st.up THEN {st.futs[k].write : k \in DOMAIN st.futs} ELSE {})

In(w) == InputOf(w.req)

IsFence(w) == In(w).kind = "fence"
IsTerminal(w) == In(w).kind = "terminal"

\* Every position below x is taken.
CoveredTo(x) == \A s \in 0..x - 1 : \E v \in Writes : v.start <= s /\ s < End(v)

\* The last fence below position x set the token tok.
InForce(tok, x) ==
    \/ \E w \in Writes :
        /\ IsFence(w) /\ End(w) <= x /\ tok = In(w).arg
        /\ \A v \in Writes : IsFence(v) /\ End(v) <= x => End(v) <= End(w)
    \/ tok = NoToken /\ \A v \in Writes : IsFence(v) => x < End(v)

\* A write stores the command of its batch and no other.
Commands(w) ==
    /\ w.fence = IF IsFence(w) THEN <<In(w).arg>> ELSE <<>>
    /\ IsTerminal(w) => w.trim = <<MaxSeq>>
    /\ w.trim # <<>> =>
        /\ In(w).kind \in {"trim", "terminal"}
        /\ w.trim[1] <= In(w).arg /\ w.trim[1] <= MaxSeq
        /\ In(w).kind = "trim" => w.trim[1] <= End(w)

Preceded(w) == \E v \in Writes :
    /\ End(v) <= w.start /\ reqs[v.req].p = reqs[w.req].p
    /\ reqs[v.req].b = reqs[w.req].b - 1

\* Each batch took effect where its conditions held, behind the batch that its
\* session submitted before it, and before the stream was deleted.
Contents == \A w \in Writes :
    /\ CoveredTo(w.start)
    /\ Commands(w)
    /\ In(w).tok # Unset => InForce(In(w).tok, w.start)
    /\ In(w).match # -1 => In(w).match = w.start
    /\ IsTerminal(w) => \A v \in Writes : End(v) <= End(w)
    /\ reqs[w.req].b > 1 => Preceded(w)

\* The state of the streamer is that at the end of the writes.
Current == st.up =>
    /\ CoveredTo(st.next)
    /\ st.fence.ap <= st.next /\ st.trim.ap <= st.next /\ st.trim.val <= MaxSeq
    /\ InForce(st.fence.val, st.fence.ap)
    /\ \A w \in Writes : IsFence(w) => End(w) <= st.fence.ap
    /\ \A w \in Writes : IsTerminal(w) => st.trim.val = MaxSeq

\* The trim task stores no trim point, and once the stream is to be deleted
\* the first thing it stores is the deletion.
Marked ==
    /\ \A i \in 1..Len(wal) : i \notin Batched => wal[i].fence = <<>> /\ wal[i].trim = <<0>>
    /\ \A i \in Batched : IsTerminal(wal[i]) =>
        \A j \in i + 1..Len(wal) : wal[j].trim # <<>> =>
            \E l \in i + 1..j : wal[l].op = "drop"

\* A refusal that is pending or was told rests on the token in force.
Refusals == \A id \in DOMAIN reqs :
    reqs[id].saw # <<>> /\ reqs[id].reply \in {"pending", "rejected"} =>
        LET saw == reqs[id].saw[1]
        IN  /\ saw.ap <= reqs[id].dep
            /\ reqs[id].reply = "pending" => saw.ap <= st.next
            /\ InForce(saw.val, saw.ap)

\* What the trim task is about to delete was stored.
Trimming ==
    bg.pc = "delete" =>
        \E i \in Batched : i <= flushed /\ wal[i].trim # <<>> /\ wal[i].trim[1] = bg.point

\* The requests of a session on its connection.
Following == \A p \in Producers :
    /\ cl[p].id <= spawned
    /\ \A k \in DOMAIN cl[p].acks :
        reqs[cl[p].acks[k]].p = p /\ reqs[cl[p].acks[k]].b = k
    /\ \A k \in DOMAIN cl[p].sent :
        reqs[cl[p].sent[k]].p = p /\ reqs[cl[p].sent[k]].b = Len(cl[p].acks) + k
    /\ cl[p].pc = "open" /\ Connected(cl[p]) /\ ~sess[p].poisoned /\ st.trim.val # MaxSeq =>
        \A k \in DOMAIN cl[p].sent : \E w \in Writes : w.req = cl[p].sent[k]

\* What was deleted lies at or before a durable command that names it.
Trimmed == \A s \in gone :
    /\ s \in Nat
    /\ \E i \in Batched :
        /\ i <= flushed /\ In(wal[i]).kind \in {"trim", "terminal"}
        /\ s < End(wal[i]) /\ s < In(wal[i]).arg

Whole == Contents /\ Current /\ Marked /\ Refusals /\ Trimming /\ Trimmed /\ Following

-----------------------------------------------------------------------------
(* The writes as a sequence *)

\* What the invariant of LogSessionProofs says of the writes.
Line ==
    /\ \A w \in Writes :
        /\ w \in Entry /\ w.op = "batch" /\ WriteFor(w)
        /\ w.start \in Nat /\ w.n \in Nat /\ w.n > 0
        /\ End(w) \in Nat /\ w.start < End(w) /\ End(w) = w.start + w.n
        /\ IsBatch(In(w)) /\ In(w) \in AllInputs /\ In(w).n = w.n
        /\ reqs[w.req].at = w.start /\ reqs[w.req] \in Message
    /\ \A v, w \in Writes : v = w \/ End(v) <= w.start \/ End(w) <= v.start
    /\ \A i \in Batched : wal[i] \in Writes
    /\ \A i \in Batched : \A w \in Writes :
        End(w) <= wal[i].start => \E j \in Batched : j < i /\ w = wal[j]
    /\ TailAt(flushed) \in Nat
    /\ \A i \in Batched : i <= flushed => End(wal[i]) <= TailAt(flushed)
    /\ \A w \in Writes : End(w) <= TailAt(flushed) =>
        \E i \in Batched : i <= flushed /\ w = wal[i]
    /\ st.up =>
        /\ st.next \in Nat /\ TailAt(flushed) <= st.next
        /\ \A w \in Writes : End(w) <= st.next

LEMMA WriteTypes ==
    ASSUME Inv, NEW w \in Writes
    PROVE  /\ w \in Entry /\ w.op = "batch" /\ WriteFor(w)
           /\ w.start \in Nat /\ w.n \in Nat /\ w.n > 0
           /\ End(w) \in Nat /\ w.start < End(w) /\ End(w) = w.start + w.n
<1>1. Types /\ Laid
  BY DEF Inv
<1>2. CASE \E i \in Batched : w = wal[i]
  <2>1. PICK i \in Batched : w = wal[i]
    BY <1>2
  <2>2. w \in Entry /\ w.start \in Nat /\ w.n \in Nat /\ w.n > 0 /\ End(w) \in Nat
        /\ w.start < End(w) /\ WriteFor(w)
    BY <1>1, <2>1, BatchTypes
  <2> QED
    BY <2>2 DEF WriteFor, End
<1>3. CASE st.up /\ \E k \in DOMAIN st.futs : w = st.futs[k].write
  <2>1. PICK k \in DOMAIN st.futs : w = st.futs[k].write
    BY <1>3
  <2>2. WriteFor(w)
    BY <1>3, <2>1 DEF Inv, Upright, InFlight
  <2> QED
    BY <1>3, <2>1, <2>2, FutTypes DEF End
<1> QED
  BY <1>2, <1>3 DEF Writes

\* A write is in the log, or in flight and not polled.
LEMMA WriteCases ==
    ASSUME Inv, NEW w \in Writes
    PROVE  \/ \E i \in Batched : w = wal[i]
           \/ st.up /\ \E k \in DOMAIN st.futs : ~Polled(k) /\ w = st.futs[k].write
<1>1. ASSUME st.up, NEW k \in DOMAIN st.futs, Polled(k), w = st.futs[k].write
      PROVE  \E i \in Batched : w = wal[i]
  BY <1>1 DEF Inv, Upright, InFlight
<1> QED
  BY <1>1 DEF Writes

LEMMA WritesApart ==
    ASSUME Inv, NEW v \in Writes, NEW w \in Writes, v # w
    PROVE  End(v) <= w.start \/ End(w) <= v.start
<1>1. Laid /\ (st.up => Chain)
  BY DEF Inv, Upright
<1>2. CASE (\E i \in Batched : v = wal[i]) /\ (\E i \in Batched : w = wal[i])
  <2>1. PICK i \in Batched, j \in Batched : v = wal[i] /\ w = wal[j]
    BY <1>2
  <2>2. i \in Nat /\ j \in Nat /\ i # j
    BY <2>1 DEF Batched
  <2>3. i < j \/ j < i
    BY <2>2
  <2> QED
    BY <1>1, <2>1, <2>3 DEF Laid
<1>3. ASSUME st.up, NEW k \in DOMAIN st.futs, ~Polled(k), NEW i \in Batched
      PROVE  End(wal[i]) <= st.futs[k].write.start
  BY <1>3, Behind
<1>4. CASE st.up /\ (\E k \in DOMAIN st.futs : v = st.futs[k].write)
            /\ (\E k \in DOMAIN st.futs : w = st.futs[k].write)
  <2>1. PICK i \in DOMAIN st.futs, j \in DOMAIN st.futs :
          v = st.futs[i].write /\ w = st.futs[j].write
    BY <1>4
  <2>2. i # j
    BY <2>1
  <2>3. i \in 1..Len(st.futs) /\ j \in 1..Len(st.futs) /\ Len(st.futs) \in Nat
    BY <1>4, FutTypes
  <2>4. i < j \/ j < i
    BY <2>2, <2>3
  <2> QED
    BY <1>1, <1>4, <2>1, <2>4 DEF Chain
<1> QED
  BY <1>2, <1>3, <1>4, WriteCases

LEMMA LineHolds == Inv => Line
<1> SUFFICES ASSUME Inv PROVE Line
  OBVIOUS
<1>1. Types /\ Laid /\ wal \in Seq(Entry) /\ flushed \in 0..Len(wal) /\ flushed \in Nat
      /\ reqs \in Seq(Message) /\ LogFacts
  BY LogFactsHold DEF Inv, Types
<1>2. ASSUME NEW w \in Writes
      PROVE  /\ w \in Entry /\ w.op = "batch" /\ WriteFor(w)
             /\ w.start \in Nat /\ w.n \in Nat /\ w.n > 0
             /\ End(w) \in Nat /\ w.start < End(w) /\ End(w) = w.start + w.n
             /\ IsBatch(In(w)) /\ In(w) \in AllInputs /\ In(w).n = w.n
             /\ reqs[w.req].at = w.start /\ reqs[w.req] \in Message
  <2>1. WriteFor(w)
    BY WriteTypes
  <2>2. w.req \in DOMAIN reqs /\ reqs[w.req] \in Message
    BY <1>1, <2>1 DEF WriteFor
  <2>3. IsBatch(In(w)) /\ In(w) \in AllInputs
    BY <1>1, <2>2, InputFacts DEF In
  <2> QED
    BY <2>1, <2>2, <2>3, WriteTypes DEF WriteFor, In
<1>3. \A v, w \in Writes : v = w \/ End(v) <= w.start \/ End(w) <= v.start
  BY WritesApart
<1>4. \A i \in Batched : wal[i] \in Writes
  BY DEF Writes
<1>5. ASSUME NEW i \in Batched, NEW w \in Writes, End(w) <= wal[i].start
      PROVE  \E j \in Batched : j < i /\ w = wal[j]
  <2>1. i \in Nat /\ wal[i].start \in Nat /\ wal[i].start < End(wal[i]) /\ End(wal[i]) \in Nat
    BY <1>1, BatchTypes
  <2>2. w.start \in Nat /\ w.start < End(w) /\ End(w) \in Nat
    BY WriteTypes
  <2>3. CASE \E j \in Batched : w = wal[j]
    <3>1. PICK j \in Batched : w = wal[j]
      BY <2>3
    <3>2. j \in Nat
      BY DEF Batched
    <3>3. ~(i < j)
      <4> SUFFICES ASSUME i < j PROVE FALSE
        OBVIOUS
      <4>1. End(wal[i]) <= w.start
        BY <1>1, <3>1 DEF Laid
      <4> QED
        BY <1>5, <2>1, <2>2, <4>1
    <3>4. i # j
      BY <1>5, <2>1, <3>1
    <3> QED
      BY <2>1, <3>1, <3>2, <3>3, <3>4
  <2>4. CASE st.up /\ \E k \in DOMAIN st.futs : ~Polled(k) /\ w = st.futs[k].write
    <3>1. End(wal[i]) <= w.start
      BY <2>4, Behind
    <3> QED
      BY <1>5, <2>1, <2>2, <3>1
  <2> QED
    BY <2>3, <2>4, WriteCases
<1>6. TailAt(flushed) \in Nat /\ \A i \in Batched : i <= flushed => End(wal[i]) <= TailAt(flushed)
  BY <1>1 DEF LogFacts
<1>7. \/ TailAt(flushed) = 0
      \/ \E i \in Batched : i <= flushed /\ TailAt(flushed) = End(wal[i])
  BY <1>1, TailFacts
<1>8. ASSUME NEW w \in Writes, End(w) <= TailAt(flushed)
      PROVE  \E i \in Batched : i <= flushed /\ w = wal[i]
  <2>1. w.start \in Nat /\ w.start < End(w) /\ End(w) \in Nat
    BY <1>2
  <2>2. PICK i \in Batched : i <= flushed /\ TailAt(flushed) = End(wal[i])
    BY <1>6, <1>7, <1>8, <2>1
  <2>3. CASE w = wal[i]
    BY <2>2, <2>3
  <2>4. CASE w # wal[i]
    <3>1. wal[i] \in Writes /\ wal[i].start \in Nat /\ End(wal[i]) \in Nat
      BY <1>2, <1>4
    <3>2. End(w) <= wal[i].start
      <4>1. End(w) <= wal[i].start \/ End(wal[i]) <= w.start
        BY <1>3, <2>4, <3>1
      <4> QED
        BY <1>8, <2>1, <2>2, <3>1, <4>1
    <3>3. PICK j \in Batched : j < i /\ w = wal[j]
      BY <1>5, <3>2
    <3>4. i \in Nat /\ j \in Nat
      BY DEF Batched
    <3> QED
      BY <1>1, <2>2, <3>3, <3>4
  <2> QED
    BY <2>3, <2>4
<1>9. ASSUME st.up
      PROVE  /\ st.next \in Nat /\ TailAt(flushed) <= st.next
             /\ \A w \in Writes : End(w) <= st.next
  <2>1. Chain /\ Accounted /\ InFlight
    BY <1>9 DEF Inv, Upright
  <2>2. st.next \in Nat /\ st.stable \in Nat
    BY <1>9, FutTypes
  <2>3. \A k \in DOMAIN st.futs : End(st.futs[k].write) <= st.next
    BY <2>1 DEF Chain
  <2>4. ASSUME NEW i \in Batched
        PROVE  End(wal[i]) <= st.next
    <3>1. CASE i <= flushed /\ End(wal[i]) <= st.stable
      <4>1. End(wal[i]) \in Nat /\ st.stable <= st.next
        BY <1>1, <2>1, BatchTypes DEF Chain
      <4> QED
        BY <2>2, <3>1, <4>1
    <3>2. ASSUME NEW k \in DOMAIN st.futs, st.futs[k].at = i
          PROVE  End(wal[i]) <= st.next
      <4>1. i # 0
        BY DEF Batched
      <4>2. wal[i] = st.futs[k].write
        BY <2>1, <3>2, <4>1 DEF InFlight, Polled
      <4> QED
        BY <2>3, <4>2
    <3> QED
      BY <2>1, <3>1, <3>2 DEF Accounted
  <2>5. TailAt(flushed) <= st.next
    BY <1>6, <1>7, <2>2, <2>4
  <2> QED
    BY <1>9, <2>2, <2>3, <2>4, <2>5 DEF Writes
<1> QED
  BY <1>2, <1>3, <1>4, <1>5, <1>6, <1>8, <1>9 DEF Line

LEMMA LineNext == Inv' => Line'
BY LineHolds, PTL

-----------------------------------------------------------------------------
(* Steps that add no write *)

SameRequests ==
    /\ script' = script
    /\ \A id \in DOMAIN reqs :
        /\ id \in DOMAIN reqs'
        /\ reqs'[id].p = reqs[id].p /\ reqs'[id].b = reqs[id].b /\ reqs'[id].at = reqs[id].at

\* A beginning of the writes is left.
Shortened ==
    /\ SameRequests
    /\ Writes' \subseteq Writes
    /\ \A w \in Writes', v \in Writes : End(v) <= w.start => v \in Writes'

LEMMA SameInputs ==
    ASSUME Line, SameRequests, NEW w \in Writes
    PROVE  /\ In(w)' = In(w) /\ IsFence(w)' = IsFence(w) /\ IsTerminal(w)' = IsTerminal(w)
           /\ Commands(w)' = Commands(w)
           /\ reqs'[w.req].p = reqs[w.req].p /\ reqs'[w.req].b = reqs[w.req].b
<1>1. w.req \in DOMAIN reqs
  BY DEF Line, WriteFor
<1>2. reqs'[w.req].p = reqs[w.req].p /\ reqs'[w.req].b = reqs[w.req].b /\ script' = script
  BY <1>1 DEF SameRequests
<1>3. In(w)' = In(w)
  BY <1>2 DEF In, InputOf
<1> QED
  BY <1>2, <1>3 DEF IsFence, IsTerminal, Commands, End

\* A token stays in force below x as long as the writes below x stay.
LEMMA ForceStays ==
    ASSUME Line, SameRequests, Writes' \subseteq Writes, NEW tok, NEW x,
           \A v \in Writes : End(v) <= x => v \in Writes',
           InForce(tok, x)
    PROVE  InForce(tok, x)'
<1>1. \A w \in Writes : IsFence(w)' = IsFence(w) /\ In(w)' = In(w)
  BY SameInputs
<1>2. \A w : End(w)' = End(w)
  BY DEF End
<1>3. ASSUME NEW w \in Writes, IsFence(w), End(w) <= x, tok = In(w).arg,
             \A v \in Writes : IsFence(v) /\ End(v) <= x => End(v) <= End(w)
      PROVE  InForce(tok, x)'
  <2>1. w \in Writes' /\ IsFence(w)' /\ End(w)' <= x /\ tok = In(w)'.arg
    BY <1>1, <1>2, <1>3
  <2>2. \A v \in Writes' : IsFence(v)' /\ End(v)' <= x => End(v)' <= End(w)'
    BY <1>1, <1>2, <1>3
  <2> QED
    BY <2>1, <2>2 DEF InForce
<1>4. ASSUME tok = NoToken, \A v \in Writes : IsFence(v) => x < End(v)
      PROVE  InForce(tok, x)'
  <2>1. \A v \in Writes' : IsFence(v)' => x < End(v)'
    BY <1>1, <1>2, <1>4
  <2> QED
    BY <1>4, <2>1 DEF InForce
<1> QED
  BY <1>3, <1>4 DEF InForce

LEMMA CoverStays ==
    ASSUME Line, Writes' \subseteq Writes, NEW x \in Nat,
           \A v \in Writes : End(v) <= x => v \in Writes',
           \A v \in Writes : v.start < x => End(v) <= x,
           CoveredTo(x)
    PROVE  CoveredTo(x)'
<1> SUFFICES ASSUME NEW s \in 0..x - 1
             PROVE  \E v \in Writes' : v.start <= s /\ s < End(v)
  BY DEF CoveredTo, End
<1>1. PICK v \in Writes : v.start <= s /\ s < End(v)
  BY DEF CoveredTo
<1>2. v.start < x
  BY <1>1 DEF Line
<1> QED
  BY <1>1, <1>2

LEMMA ContentsStay ==
    ASSUME Line, Contents, Shortened
    PROVE  Contents'
<1> SUFFICES ASSUME NEW w \in Writes'
             PROVE  /\ CoveredTo(w.start)'
                    /\ Commands(w)'
                    /\ In(w)'.tok # Unset => InForce(In(w).tok, w.start)'
                    /\ In(w)'.match # -1 => In(w)'.match = w.start
                    /\ IsTerminal(w)' => \A v \in Writes' : End(v) <= End(w)
                    /\ reqs'[w.req].b > 1 => Preceded(w)'
  BY DEF Contents, End
<1>1. w \in Writes /\ SameRequests /\ Writes' \subseteq Writes
      /\ \A v \in Writes : End(v) <= w.start => v \in Writes'
  BY DEF Shortened
<1>2. w.start \in Nat
  BY <1>1 DEF Line
<1>3. /\ CoveredTo(w.start) /\ Commands(w)
      /\ In(w).tok # Unset => InForce(In(w).tok, w.start)
      /\ In(w).match # -1 => In(w).match = w.start
      /\ IsTerminal(w) => \A v \in Writes : End(v) <= End(w)
      /\ reqs[w.req].b > 1 => Preceded(w)
  BY <1>1 DEF Contents
<1>4. In(w)' = In(w) /\ IsTerminal(w)' = IsTerminal(w) /\ Commands(w)' = Commands(w)
      /\ reqs'[w.req].p = reqs[w.req].p /\ reqs'[w.req].b = reqs[w.req].b
  BY <1>1, SameInputs
<1>5. CoveredTo(w.start)'
  <2>1. \A v \in Writes : v.start < w.start => End(v) <= w.start
    <3> SUFFICES ASSUME NEW v \in Writes, v.start < w.start
                 PROVE  End(v) <= w.start
      OBVIOUS
    <3>1. v = w \/ End(v) <= w.start \/ End(w) <= v.start
      BY <1>1 DEF Line
    <3>2. v.start \in Nat /\ End(w) \in Nat /\ w.start < End(w)
      BY <1>1 DEF Line
    <3> QED
      BY <1>2, <3>1, <3>2
  <2> QED
    BY <1>1, <1>2, <1>3, <2>1, CoverStays
<1>6. ASSUME In(w).tok # Unset
      PROVE  InForce(In(w).tok, w.start)'
  <2>1. PICK tok : tok = In(w).tok /\ InForce(tok, w.start)
    BY <1>3, <1>6
  <2>2. InForce(tok, w.start)'
    BY <1>1, <2>1, ForceStays
  <2>3. In(w)'.tok = tok
    BY <1>4, <2>1
  <2> QED
    BY <2>2, <2>3 DEF InForce
<1>7. ASSUME reqs[w.req].b > 1
      PROVE  Preceded(w)'
  <2>1. PICK v \in Writes : End(v) <= w.start /\ reqs[v.req].p = reqs[w.req].p
                            /\ reqs[v.req].b = reqs[w.req].b - 1
    BY <1>3, <1>7 DEF Preceded
  <2>2. v \in Writes' /\ reqs'[v.req].p = reqs[v.req].p /\ reqs'[v.req].b = reqs[v.req].b
    BY <1>1, <2>1, SameInputs
  <2> QED
    BY <1>4, <2>1, <2>2 DEF Preceded, End
<1> QED
  BY <1>1, <1>3, <1>4, <1>5, <1>6, <1>7

LEMMA CurrentStays ==
    ASSUME Line, Current, SameRequests, Writes' = Writes,
           st'.up => /\ st.up /\ st'.next = st.next
                     /\ st'.fence = st.fence /\ st'.trim = st.trim
    PROVE  Current'
<1> SUFFICES ASSUME st'.up
             PROVE  Current'
  BY DEF Current
<1>1. /\ CoveredTo(st.next)
      /\ st.fence.ap <= st.next /\ st.trim.ap <= st.next /\ st.trim.val <= MaxSeq
      /\ InForce(st.fence.val, st.fence.ap)
      /\ \A w \in Writes : IsFence(w) => End(w) <= st.fence.ap
      /\ \A w \in Writes : IsTerminal(w) => st.trim.val = MaxSeq
  BY DEF Current
<1>2. CoveredTo(st.next)'
  BY <1>1 DEF CoveredTo, End
<1>3. PICK tok, x : tok = st.fence.val /\ x = st.fence.ap /\ InForce(tok, x)
  BY <1>1
<1>4. InForce(tok, x)'
  BY <1>3, ForceStays
<1>5. InForce(st.fence.val, st.fence.ap)'
  <2>1. st'.fence.val = tok /\ st'.fence.ap = x
    BY <1>3
  <2> QED
    BY <1>4, <2>1 DEF InForce
<1>6. \A w \in Writes : IsFence(w)' = IsFence(w) /\ IsTerminal(w)' = IsTerminal(w)
  BY SameInputs
<1>7. /\ \A w \in Writes' : IsFence(w)' => End(w) <= st'.fence.ap
      /\ \A w \in Writes' : IsTerminal(w)' => st'.trim.val = MaxSeq
  BY <1>1, <1>6
<1> QED
  BY <1>1, <1>2, <1>5, <1>7 DEF Current, End

\* Refusals that were told rest on what is durable; those that are pending end
\* with the streamer.
LEMMA RefusalsStay ==
    ASSUME Inv, Line, Refusals, SameRequests, Answered,
           \/ Writes' = Writes /\ (st'.up => st'.next = st.next)
           \/ /\ Writes' \subseteq Writes
              /\ \A v \in Writes : End(v) <= TailAt(flushed) => v \in Writes'
              /\ \A id \in DOMAIN reqs : reqs'[id].reply # "pending"
              /\ \A id \in DOMAIN reqs : reqs'[id].reply \in {reqs[id].reply, "lost"},
           \A id \in DOMAIN reqs : reqs'[id].reply = "pending" => st'.up
    PROVE  Refusals'
<1> SUFFICES ASSUME NEW id \in DOMAIN reqs', reqs'[id].saw # <<>>,
                    reqs'[id].reply \in {"pending", "rejected"}
             PROVE  /\ reqs'[id].saw[1].ap <= reqs'[id].dep
                    /\ reqs'[id].reply = "pending" => reqs'[id].saw[1].ap <= st'.next
                    /\ InForce(reqs[id].saw[1].val, reqs[id].saw[1].ap)'
  BY DEF Refusals
<1>1. id \in DOMAIN reqs /\ reqs'[id].saw = reqs[id].saw /\ reqs'[id].dep = reqs[id].dep
      /\ (reqs[id].reply # "pending" => reqs'[id].reply = reqs[id].reply)
  BY DEF Answered
<1>2. reqs[id].reply \in {"pending", "rejected"}
  BY <1>1
<1>3. PICK tok, x : tok = reqs[id].saw[1].val /\ x = reqs[id].saw[1].ap
  OBVIOUS
<1>4. /\ x <= reqs[id].dep /\ InForce(tok, x)
      /\ reqs[id].reply = "pending" => x <= st.next
  BY <1>1, <1>2, <1>3 DEF Refusals
<1>5. Writes' \subseteq Writes /\ \A v \in Writes : End(v) <= x => v \in Writes'
  <2>1. CASE Writes' = Writes
    BY <2>1
  <2>2. CASE /\ Writes' \subseteq Writes
             /\ \A v \in Writes : End(v) <= TailAt(flushed) => v \in Writes'
             /\ \A i \in DOMAIN reqs : reqs'[i].reply # "pending"
             /\ \A i \in DOMAIN reqs : reqs'[i].reply \in {reqs[i].reply, "lost"}
    <3>1. reqs[id].reply = "rejected"
      BY <1>1, <1>2, <2>2
    <3>2. reqs[id].dep <= TailAt(flushed)
      BY <1>1, <3>1 DEF Inv, Truthful
    <3>3. reqs[id] \in Message
      BY <1>1 DEF Inv, Types
    <3>4. reqs[id].dep \in Nat /\ x \in Nat
      <4>1. reqs[id].dep \in Nat /\ reqs[id].saw \in Seq(FenceState)
        BY <3>3 DEF Message
      <4>2. reqs[id].saw[1] \in FenceState
        BY <1>1, <4>1
      <4> QED
        BY <1>3, <4>1, <4>2 DEF FenceState
    <3>5. ASSUME NEW v \in Writes, End(v) <= x
          PROVE  v \in Writes'
      <4>1. End(v) \in Nat /\ TailAt(flushed) \in Nat
        BY DEF Line
      <4>2. End(v) <= TailAt(flushed)
        BY <1>4, <3>2, <3>4, <3>5, <4>1
      <4> QED
        BY <2>2, <4>2
    <3> QED
      BY <2>2, <3>5
  <2> QED
    BY <2>1, <2>2
<1>6. InForce(tok, x)'
  BY <1>4, <1>5, ForceStays
<1>7. InForce(reqs[id].saw[1].val, reqs[id].saw[1].ap)'
  <2>1. reqs'[id].saw[1].val = tok /\ reqs'[id].saw[1].ap = x
    BY <1>1, <1>3
  <2> QED
    BY <1>6, <2>1 DEF InForce
<1>8. reqs'[id].reply = "pending" => x <= st'.next
  <2> SUFFICES ASSUME reqs'[id].reply = "pending"
               PROVE  x <= st'.next
    OBVIOUS
  <2>1. st'.up /\ reqs[id].reply = "pending"
    BY <1>1, <1>2
  <2> QED
    BY <1>1, <1>4, <2>1
<1> QED
  BY <1>1, <1>3, <1>4, <1>7, <1>8

\* What is durable stays durable, and so does what was deleted and why.
LEMMA TrimsStay ==
    ASSUME Inv, Line, SameRequests, Durably, wal' \in Seq(Entry), flushed' <= Len(wal')
    PROVE  /\ \A i \in Batched : i <= flushed =>
                i \in Batched' /\ i <= flushed' /\ wal'[i] = wal[i]
                /\ In(wal[i])' = In(wal[i])
           /\ Trimmed /\ gone' = gone => Trimmed'
           /\ Trimming /\ (bg' = bg \/ bg'.pc # "delete") => Trimming'
<1>1. flushed \in Nat /\ Len(wal) \in Nat /\ flushed <= Len(wal) /\ flushed' \in Nat
      /\ flushed <= flushed' /\ Len(wal') \in Nat
  BY DEF Durably, Inv, Types
<1>2. \A i \in Batched : i <= flushed =>
        i \in Batched' /\ i <= flushed' /\ wal'[i] = wal[i]
  BY <1>1 DEF Batched, Durably
<1>3. ASSUME NEW i \in Batched, i <= flushed
      PROVE  In(wal[i])' = In(wal[i])
  <2>1. PICK w : w = wal[i]
    OBVIOUS
  <2>2. w \in Writes
    BY <2>1 DEF Line
  <2>3. In(w)' = In(w)
    BY <2>2, SameInputs
  <2> QED
    BY <1>2, <1>3, <2>1, <2>3 DEF In
<1>4. ASSUME Trimmed, gone' = gone
      PROVE  Trimmed'
  <2> SUFFICES ASSUME NEW s \in gone
               PROVE  /\ s \in Nat
                      /\ \E i \in Batched' :
                          /\ i <= flushed' /\ In(wal[i])'.kind \in {"trim", "terminal"}
                          /\ s < End(wal'[i]) /\ s < In(wal[i])'.arg
    BY <1>4 DEF Trimmed, End
  <2>1. s \in Nat /\ \E i \in Batched :
          /\ i <= flushed /\ In(wal[i]).kind \in {"trim", "terminal"}
          /\ s < End(wal[i]) /\ s < In(wal[i]).arg
    BY <1>4 DEF Trimmed
  <2> QED
    BY <1>2, <1>3, <2>1
<1>5. ASSUME Trimming, bg' = bg \/ bg'.pc # "delete"
      PROVE  Trimming'
  BY <1>2, <1>5 DEF Trimming
<1> QED
  BY <1>2, <1>3, <1>4, <1>5

LEMMA FollowingStays ==
    ASSUME Inv, Following, SameRequests, cl' = cl, sess' = sess,
           spawned' \in Nat, spawned <= spawned',
           st'.up => \/ spawned < spawned'
                     \/ st.up /\ Writes' = Writes /\ st'.trim = st.trim /\ spawned' = spawned
    PROVE  Following'
<1> SUFFICES ASSUME NEW p \in Producers
             PROVE  /\ cl'[p].id <= spawned'
                    /\ \A k \in DOMAIN cl'[p].acks :
                        reqs'[cl'[p].acks[k]].p = p /\ reqs'[cl'[p].acks[k]].b = k
                    /\ \A k \in DOMAIN cl'[p].sent :
                        /\ reqs'[cl'[p].sent[k]].p = p
                        /\ reqs'[cl'[p].sent[k]].b = Len(cl'[p].acks) + k
                    /\ cl'[p].pc = "open" /\ Connected(cl[p])' /\ ~sess'[p].poisoned
                       /\ st'.trim.val # MaxSeq
                       => \A k \in DOMAIN cl'[p].sent : \E w \in Writes' : w.req = cl'[p].sent[k]
  BY DEF Following
<1>1. /\ \A k \in DOMAIN cl[p].sent : cl[p].sent[k] \in DOMAIN reqs
      /\ \A k \in DOMAIN cl[p].acks : cl[p].acks[k] \in DOMAIN reqs
      /\ cl[p].id \in Nat /\ spawned \in Nat
  <2>1. cl[p] \in Client /\ spawned \in Nat
    BY DEF Inv, Types
  <2> QED
    BY <2>1 DEF Inv, Acknowledged, Client
<1>2. /\ cl[p].id <= spawned
      /\ \A k \in DOMAIN cl[p].acks : reqs[cl[p].acks[k]].p = p /\ reqs[cl[p].acks[k]].b = k
      /\ \A k \in DOMAIN cl[p].sent :
          reqs[cl[p].sent[k]].p = p /\ reqs[cl[p].sent[k]].b = Len(cl[p].acks) + k
      /\ cl[p].pc = "open" /\ Connected(cl[p]) /\ ~sess[p].poisoned /\ st.trim.val # MaxSeq =>
          \A k \in DOMAIN cl[p].sent : \E w \in Writes : w.req = cl[p].sent[k]
  BY DEF Following
<1>3. Connected(cl[p])' => st.up /\ Writes' = Writes /\ st'.trim = st.trim /\ Connected(cl[p])
  BY <1>1, <1>2 DEF Connected
<1> QED
  BY <1>1, <1>2, <1>3 DEF SameRequests

\* A step of the server that adds no write.
LEMMA ServerKeeps ==
    ASSUME Inv, Inv', Whole, Answered, Durably, Marked', Current',
           cl' = cl, sess' = sess, spawned <= spawned',
           st'.up => \/ spawned < spawned'
                     \/ st.up /\ spawned' = spawned /\ st'.trim = st.trim,
           \/ Writes' = Writes /\ (st'.up /\ st.up => st'.next = st.next)
           \/ /\ ~st'.up
              /\ Writes' \subseteq Writes
              /\ \A w \in Writes', v \in Writes : End(v) <= w.start => v \in Writes'
              /\ \A v \in Writes : End(v) <= TailAt(flushed) => v \in Writes'
              /\ \A id \in DOMAIN reqs : reqs'[id].reply \in {reqs[id].reply, "lost"}
    PROVE  /\ Contents' /\ Refusals' /\ Following'
           /\ gone' = gone => Trimmed'
           /\ bg' = bg \/ bg'.pc # "delete" => Trimming'
           /\ gone' = gone /\ (bg' = bg \/ bg'.pc # "delete") => Whole'
<1>1. Line /\ Contents /\ Refusals /\ Trimming /\ Trimmed /\ Following
  BY LineHolds DEF Whole
<1>2. SameRequests
  BY DEF SameRequests, Answered
<1>3. Contents'
  <2>1. Shortened
    BY <1>2 DEF Shortened
  <2> QED
    BY <1>1, <2>1, ContentsStay
<1>4. \A id \in DOMAIN reqs : reqs'[id].reply = "pending" => st'.up /\ st.up
  <2>1. DOMAIN reqs' = DOMAIN reqs
        /\ \A id \in DOMAIN reqs : reqs'[id].reply = "pending" => reqs[id].reply = "pending"
    BY DEF Answered
  <2>2. \A id \in DOMAIN reqs : reqs[id].reply = "pending" => st.up
    BY DEF Inv, Truthful
  <2>3. \A id \in DOMAIN reqs' : reqs'[id].reply = "pending" => st'.up
    BY DEF Inv, Truthful
  <2> QED
    BY <2>1, <2>2, <2>3
<1>5. Refusals'
  <2>1. CASE Writes' = Writes /\ (st'.up /\ st.up => st'.next = st.next)
    <3>1. CASE st.up \/ ~st'.up
      BY <1>1, <1>2, <1>4, <2>1, <3>1, RefusalsStay
    <3>2. CASE ~st.up
      <4>1. \A id \in DOMAIN reqs : reqs'[id].reply # "pending" /\ reqs'[id].reply = reqs[id].reply
        BY <1>4, <3>2 DEF Answered, Inv, Truthful
      <4> QED
        BY <1>1, <1>2, <1>4, <2>1, <4>1, RefusalsStay
    <3> QED
      BY <3>1, <3>2
  <2>2. CASE ~(Writes' = Writes /\ (st'.up /\ st.up => st'.next = st.next))
    BY <1>1, <1>2, <1>4, <2>2, RefusalsStay
  <2> QED
    BY <2>1, <2>2
<1>6. /\ gone' = gone => Trimmed'
      /\ bg' = bg \/ bg'.pc # "delete" => Trimming'
  <2>1. wal' \in Seq(Entry) /\ flushed' <= Len(wal')
    BY DEF Inv, Types
  <2> QED
    BY <1>1, <1>2, <2>1, TrimsStay
<1>7. Following'
  <2>1. spawned' \in Nat /\ spawned \in Nat
    BY DEF Inv, Types
  <2> QED
    BY <1>1, <1>2, <2>1, FollowingStays
<1> QED
  BY <1>3, <1>5, <1>6, <1>7 DEF Whole

-----------------------------------------------------------------------------
(* What storage says *)

LEMMA LastFacts ==
    ASSUME NEW k \in Nat, NEW S \in SUBSET (1..k)
    PROVE  \/ LastEntry(S) = 0 /\ S = {}
           \/ LastEntry(S) # 0 /\ LastEntry(S) \in S /\ \A j \in S : j <= LastEntry(S)
<1>1. {0} \cup S \in SUBSET Nat /\ 0 \in {0} \cup S /\ \A j \in {0} \cup S : j <= k
  OBVIOUS
<1>2. Max({0} \cup S) \in {0} \cup S /\ \A j \in {0} \cup S : Max({0} \cup S) >= j
  BY <1>1, LargestExists
<1>3. \A j \in S : j \in Nat /\ j > 0
  OBVIOUS
<1>4. LastEntry(S) \in {0} \cup S /\ \A j \in S : LastEntry(S) >= j
  BY <1>2 DEF LastEntry
<1> QED
  BY <1>3, <1>4

LEMMA TrimFacts ==
    ASSUME NEW k \in Nat
    PROVE  \/ TrimAt(k) = 0 /\ \A j \in 1..k : wal[j].trim = <<>>
           \/ \E i \in 1..k :
                /\ wal[i].trim # <<>> /\ TrimAt(k) = wal[i].trim[1]
                /\ \A j \in 1..k : wal[j].trim # <<>> => j <= i
<1> DEFINE S == {j \in 1..k : wal[j].trim # <<>>}
           i == LastEntry(S)
<1>1. TrimAt(k) = IF i = 0 THEN 0 ELSE wal[i].trim[1]
  BY DEF TrimAt
<1>2. S \in SUBSET (1..k)
  OBVIOUS
<1>3. \/ i = 0 /\ S = {}
      \/ i # 0 /\ i \in S /\ \A j \in S : j <= i
  <2> HIDE DEF S
  <2> QED
    BY <1>2, LastFacts
<1> HIDE DEF i
<1>4. CASE i = 0 /\ S = {}
  BY <1>1, <1>4
<1>5. CASE i # 0 /\ i \in S /\ \A j \in S : j <= i
  BY <1>1, <1>5
<1> QED
  BY <1>3, <1>4, <1>5

LEMMA FenceFacts ==
    ASSUME NEW k \in Nat
    PROVE  \/ FenceAt(k) = NoToken
              /\ \A j \in 1..k : wal[j].op = "batch" => wal[j].fence = <<>>
           \/ \E i \in 1..k :
                /\ wal[i].op = "batch" /\ wal[i].fence # <<>> /\ FenceAt(k) = wal[i].fence[1]
                /\ \A j \in 1..k : wal[j].op = "batch" /\ wal[j].fence # <<>> => j <= i
<1> DEFINE S == {j \in 1..k : wal[j].op = "batch" /\ wal[j].fence # <<>>}
           i == LastEntry(S)
<1>1. FenceAt(k) = IF i = 0 THEN NoToken ELSE wal[i].fence[1]
  BY DEF FenceAt
<1>2. S \in SUBSET (1..k)
  OBVIOUS
<1>3. \/ i = 0 /\ S = {}
      \/ i # 0 /\ i \in S /\ \A j \in S : j <= i
  <2> HIDE DEF S
  <2> QED
    BY <1>2, LastFacts
<1> HIDE DEF i
<1>4. CASE i = 0 /\ S = {}
  BY <1>1, <1>4
<1>5. CASE i # 0 /\ i \in S /\ \A j \in S : j <= i
  BY <1>1, <1>5
<1> QED
  BY <1>3, <1>4, <1>5

\* Behind a terminal trim the stream is marked as deleted or gone.
LEMMA Sealing ==
    ASSUME Line, Contents, Marked, NEW i \in Batched, IsTerminal(wal[i]),
           NEW k \in Nat, i <= k, k <= Len(wal)
    PROVE  TrimAt(k) = MaxSeq \/ (~ExistsAt(k) /\ \E l \in i + 1..k : wal[l].op = "drop")
<1>1. i \in 1..k /\ wal[i] \in Writes
  BY DEF Batched, Line
<1>2. wal[i].trim = <<MaxSeq>> /\ wal[i].trim # <<>>
  <2>1. wal[i].trim = <<MaxSeq>>
    BY <1>1 DEF Contents, Commands
  <2> QED
    BY <2>1
<1>3. PICK j \in 1..k :
        /\ wal[j].trim # <<>> /\ TrimAt(k) = wal[j].trim[1]
        /\ \A l \in 1..k : wal[l].trim # <<>> => l <= j
  BY <1>1, <1>2, TrimFacts
<1>4. CASE j = i
  BY <1>2, <1>3, <1>4
<1>5. CASE j # i
  <2>1. i <= j
    BY <1>1, <1>2, <1>3
  <2>2. i \in Nat /\ j \in Nat /\ i < j
    BY <1>1, <1>3, <1>5, <2>1
  <2>3. j \in i + 1..Len(wal)
    BY <1>3, <2>2
  <2>4. PICK l \in i + 1..j : wal[l].op = "drop"
    BY <1>3, <2>3 DEF Marked
  <2>5. l \in 1..k /\ l \in i + 1..k
    BY <1>1, <1>3, <2>2, <2>4
  <2> QED
    BY <2>4, <2>5 DEF ExistsAt
<1> QED
  BY <1>4, <1>5

\* Nothing is added to the log, or its end is cut off.
LEMMA MarkedCut ==
    ASSUME Inv, Line, Marked, SameRequests, wal' \in Seq(Entry), Len(wal') <= Len(wal),
           \A i \in 1..Len(wal') : wal'[i] = wal[i]
    PROVE  Marked'
<1>1. Len(wal) \in Nat /\ Len(wal') \in Nat
  BY DEF Inv, Types
<1>2. Batched' \subseteq Batched /\ \A i \in 1..Len(wal') : i \in Batched => i \in Batched'
  BY <1>1 DEF Batched
<1>3. ASSUME NEW i \in Batched'
      PROVE  wal'[i] = wal[i] /\ IsTerminal(wal[i])' = IsTerminal(wal[i])
  <2>1. PICK w : w = wal[i]
    OBVIOUS
  <2>2. w \in Writes
    BY <1>2, <2>1 DEF Line
  <2>3. In(w)' = In(w)
    BY <2>2, SameInputs
  <2>4. wal'[i] = wal[i]
    BY DEF Batched
  <2> QED
    BY <2>1, <2>3, <2>4 DEF In, IsTerminal
<1>4. \A i \in 1..Len(wal') : i \notin Batched' => wal'[i].fence = <<>> /\ wal'[i].trim = <<0>>
  BY <1>1, <1>2 DEF Marked
<1>5. ASSUME NEW i \in Batched', IsTerminal(wal[i])', NEW j \in i + 1..Len(wal'), wal'[j].trim # <<>>
      PROVE  \E l \in i + 1..j : wal'[l].op = "drop"
  <2>1. i \in Nat /\ i \in Batched /\ IsTerminal(wal[i])
    BY <1>2, <1>3, <1>5 DEF Batched
  <2>2. j \in i + 1..Len(wal) /\ j \in 1..Len(wal') /\ wal[j].trim # <<>>
    BY <1>1, <1>5, <2>1
  <2>3. PICK l \in i + 1..j : wal[l].op = "drop"
    BY <2>1, <2>2 DEF Marked
  <2>4. l \in 1..Len(wal')
    BY <1>1, <2>1, <2>2, <2>3
  <2> QED
    BY <2>3, <2>4
<1> QED
  BY <1>4, <1>5 DEF Marked

LEMMA MarkedAppend ==
    ASSUME Inv, Line, Marked, SameRequests, NEW e \in Entry, wal' = Append(wal, e),
           e.op # "batch" => e.fence = <<>> /\ e.trim = << 0 >>,
           \A i \in Batched : IsTerminal(wal[i]) =>
               e.op = "drop" \/ \E l \in i + 1..Len(wal) : wal[l].op = "drop"
    PROVE  Marked'
<1>1. Len(wal) \in Nat /\ wal \in Seq(Entry)
  BY DEF Inv, Types
<1> DEFINE L == Len(wal) + 1
<1>2. /\ Len(wal') = L /\ wal'[L] = e /\ \A i \in 1..Len(wal) : wal'[i] = wal[i]
      /\ \A i \in 1..L : i \in 1..Len(wal) \/ i = L
  BY <1>1
<1>3. \A i \in 1..Len(wal) : i \in Batched' <=> i \in Batched
  BY <1>1, <1>2 DEF Batched
<1>4. ASSUME NEW i \in Batched
      PROVE  /\ wal'[i] = wal[i] /\ IsTerminal(wal[i])' = IsTerminal(wal[i])
             /\ i \in Nat /\ i \in 1..Len(wal)
  <2>1. PICK w : w = wal[i]
    OBVIOUS
  <2>2. w \in Writes
    BY <2>1 DEF Line
  <2>3. In(w)' = In(w)
    BY <2>2, SameInputs
  <2>4. wal'[i] = wal[i] /\ i \in Nat /\ i \in 1..Len(wal)
    BY <1>2 DEF Batched
  <2> QED
    BY <2>1, <2>3, <2>4 DEF In, IsTerminal
<1>5. \A i \in 1..Len(wal') : i \notin Batched' => wal'[i].fence = <<>> /\ wal'[i].trim = <<0>>
  BY <1>1, <1>2, <1>3 DEF Marked, Batched
<1>6. ASSUME NEW i \in Batched', IsTerminal(wal[i])', NEW j \in i + 1..Len(wal'), wal'[j].trim # <<>>
      PROVE  \E l \in i + 1..j : wal'[l].op = "drop"
  <2>1. i \in 1..Len(wal) /\ i \in Batched /\ i \in Nat /\ IsTerminal(wal[i])
    <3>1. i \in Nat /\ i \in 1..L
      BY <1>2 DEF Batched
    <3>2. i # L
      BY <1>1, <1>2, <3>1
    <3> QED
      BY <1>2, <1>3, <1>4, <1>6, <3>1, <3>2
  <2>2. CASE j \in 1..Len(wal)
    <3>1. j \in i + 1..Len(wal) /\ wal[j].trim # <<>>
      BY <1>1, <1>2, <1>6, <2>1, <2>2
    <3>2. PICK l \in i + 1..j : wal[l].op = "drop"
      BY <2>1, <3>1 DEF Marked
    <3>3. l \in 1..Len(wal)
      BY <1>1, <2>1, <2>2, <3>2
    <3> QED
      BY <1>2, <3>2, <3>3
  <2>3. CASE j = L
    <3>1. CASE e.op = "drop"
      BY <1>1, <1>2, <2>1, <2>3, <3>1
    <3>2. CASE \E l \in i + 1..Len(wal) : wal[l].op = "drop"
      <4>1. PICK l \in i + 1..Len(wal) : wal[l].op = "drop"
        BY <3>2
      <4>2. l \in 1..Len(wal) /\ l \in i + 1..j
        BY <1>1, <2>1, <2>3, <4>1
      <4> QED
        BY <1>2, <4>1, <4>2
    <3> QED
      BY <2>1, <3>1, <3>2
  <2> QED
    BY <1>1, <1>2, <2>1, <2>2, <2>3
<1> QED
  BY <1>5, <1>6 DEF Marked

-----------------------------------------------------------------------------
(* The steps of the server *)

LEMMA NobodyAnswered ==
    ASSUME Types, script' = script, reqs' = reqs
    PROVE  Answered
BY DEF Answered, Types

LEMMA SameWrites ==
    ASSUME wal' = wal, st' = st
    PROVE  Writes' = Writes
BY DEF Writes, Batched

LEMMA FlushWhole == Inv /\ Inv' /\ Whole /\ Flush /\ UNCHANGED <<cl, rd>> => Whole'
<1> SUFFICES ASSUME Inv, Inv', Whole, Flush, UNCHANGED <<cl, rd>>
             PROVE  Whole'
  OBVIOUS
<1>1. UNCHANGED <<script, wal, gone, st, spawned, reqs, sess, bg, cl>> /\ flushed' = flushed + 1
  BY DEF Flush
<1>2. Types /\ Line /\ Marked /\ Current
  BY LineHolds DEF Inv, Whole
<1>3. Writes' = Writes /\ Answered /\ SameRequests
  BY <1>1, <1>2, SameWrites, NobodyAnswered DEF SameRequests
<1>4. Durably
  BY <1>1, <1>2 DEF Durably, Types
<1>5. wal' \in Seq(Entry) /\ Len(wal') <= Len(wal) /\ spawned \in Nat
  BY <1>1, <1>2 DEF Types
<1>6. Marked' /\ Current'
  BY <1>1, <1>2, <1>3, <1>5, MarkedCut, CurrentStays
<1> QED
  BY <1>1, <1>3, <1>4, <1>5, <1>6, ServerKeeps

LEMMA PollWriteWhole == Inv /\ Inv' /\ Whole /\ PollWrite /\ UNCHANGED <<cl, rd>> => Whole'
<1> SUFFICES ASSUME Inv, Inv', Whole, PollWrite, UNCHANGED <<cl, rd>>
             PROVE  Whole'
  OBVIOUS
<1>1. UNCHANGED <<script, flushed, gone, spawned, reqs, sess, bg, cl>> /\ st.up
  BY DEF PollWrite
<1>2. Types /\ Line /\ Marked /\ Current /\ Contents /\ wal \in Seq(Entry) /\ Len(wal) \in Nat
      /\ flushed \in 0..Len(wal) /\ spawned \in Nat
  BY LineHolds DEF Inv, Types, Whole
<1> DEFINE L == Len(wal) + 1
<1>3. PICK i \in DOMAIN st.futs :
        /\ st.futs[i].at = 0
        /\ wal' = Append(wal, st.futs[i].write)
        /\ st' = [st EXCEPT !.futs[i].at = L]
  BY DEF PollWrite
<1> DEFINE w == st.futs[i].write
<1>4. w \in Entry /\ w.op = "batch" /\ w \in Writes
      /\ st \in Streaming /\ st.futs \in Seq(Fut)
  BY <1>1, FutTypes DEF Writes
<1>5. /\ Len(wal') = L /\ wal'[L] = w /\ \A j \in 1..Len(wal) : wal'[j] = wal[j]
      /\ \A j \in 1..L : j \in 1..Len(wal) \/ j = L
      /\ L \in 1..L
  BY <1>2, <1>3, <1>4
<1>6. st'.up /\ st'.next = st.next /\ st'.fence = st.fence /\ st'.trim = st.trim
      /\ DOMAIN st'.futs = DOMAIN st.futs
      /\ \A k \in DOMAIN st.futs : st'.futs[k].write = st.futs[k].write
  <2> DEFINE fs == [st.futs EXCEPT ![i].at = L]
  <2>1. \A k \in DOMAIN st.futs : fs[k].write = st.futs[k].write
    <3>1. \A k \in DOMAIN st.futs : st.futs[k] \in Fut
      BY <1>4
    <3> QED
      BY <3>1 DEF Fut
  <2>2. DOMAIN fs = DOMAIN st.futs
    OBVIOUS
  <2>3. st' = [st EXCEPT !.futs = fs]
    BY <1>3
  <2> HIDE DEF fs
  <2>4. st'.futs = fs /\ st'.up /\ st'.next = st.next /\ st'.fence = st.fence /\ st'.trim = st.trim
    BY <1>4, <2>3 DEF Streaming
  <2> QED
    BY <2>1, <2>2, <2>4
<1>7. Batched' = Batched \cup {L}
  BY <1>2, <1>4, <1>5 DEF Batched
<1>8. Writes' = Writes
  <2>1. {wal'[j] : j \in Batched'} = {wal[j] : j \in Batched} \cup {w}
    <3>1. \A j \in Batched : wal'[j] = wal[j]
      BY <1>5 DEF Batched
    <3> HIDE DEF w, L
    <3> QED
      BY <1>5, <1>7, <3>1
  <2>2. {st'.futs[k].write : k \in DOMAIN st'.futs} = {st.futs[k].write : k \in DOMAIN st.futs}
    BY <1>6
  <2>3. w \in {st.futs[k].write : k \in DOMAIN st.futs}
    OBVIOUS
  <2> HIDE DEF w
  <2> QED
    BY <1>1, <1>6, <2>1, <2>2, <2>3 DEF Writes
<1>9. Answered /\ SameRequests
  BY <1>1, <1>2, NobodyAnswered DEF SameRequests
<1>10. Durably
  <2>1. \A j \in 1..flushed : j \in 1..Len(wal)
    BY <1>2
  <2> QED
    BY <1>1, <1>2, <1>5, <2>1 DEF Durably
<1>11. Marked'
  <2>1. ASSUME NEW j \in Batched PROVE ~IsTerminal(wal[j])
    <3> SUFFICES ASSUME IsTerminal(wal[j]) PROVE FALSE
      OBVIOUS
    <3>1. wal[j] \in Writes
      BY <1>2 DEF Line
    <3>2. End(w) <= End(wal[j]) /\ End(w) \in Nat /\ End(wal[j]) \in Nat /\ w.start \in Nat
          /\ w.start < End(w)
      BY <1>2, <1>4, <3>1 DEF Contents, Line
    <3>3. End(wal[j]) <= w.start
      BY <1>1, <1>3, Behind DEF Polled
    <3> HIDE DEF w
    <3> QED
      BY <3>2, <3>3
  <2> QED
    BY <1>2, <1>3, <1>4, <1>9, <2>1, MarkedAppend
<1>12. Current'
  BY <1>1, <1>2, <1>6, <1>8, <1>9, CurrentStays
<1> QED
  BY <1>1, <1>2, <1>6, <1>8, <1>9, <1>10, <1>11, <1>12, ServerKeeps

LEMMA CompleteWriteWhole ==
    Inv /\ Inv' /\ Whole /\ CompleteWrite /\ UNCHANGED <<cl, rd>> => Whole'
<1> SUFFICES ASSUME Inv, Inv', Whole, CompleteWrite, UNCHANGED <<cl, rd>>
             PROVE  Whole'
  OBVIOUS
<1>1. UNCHANGED <<script, wal, flushed, gone, spawned, sess, bg, cl>> /\ st.up /\ st.futs # <<>>
      /\ Head(st.futs).at \in 1..flushed
  BY DEF CompleteWrite, dbVars
<1>2. Types /\ Line /\ Marked /\ Current /\ wal \in Seq(Entry) /\ Len(wal) \in Nat
      /\ flushed \in Nat /\ spawned \in Nat
  BY LineHolds DEF Inv, Types, Whole
<1>3. Answered /\ Completed
  BY CompleteWriteKeeps
<1>4. /\ 1 \in DOMAIN st.futs
      /\ st.futs[1].at \in Batched /\ wal[st.futs[1].at] = st.futs[1].write
      /\ End(st.futs[1].write) \in Nat
      /\ \A k \in DOMAIN st.futs : k # 1 => End(st.futs[1].write) <= st.futs[k].write.start
  BY <1>1, HeadLeads
<1> DEFINE old == {wal[i] : i \in Batched}
           head == st.futs[1].write
<1>5. Writes = old \cup {st.futs[k].write : k \in DOMAIN st.futs} /\ head \in old
  BY <1>1, <1>4 DEF Writes
<1>6. {wal'[i] : i \in Batched'} = old
  BY <1>1 DEF Batched
<1>7. ASSUME st' = Down, st.next = End(head)
      PROVE  Writes' = Writes
  <2>1. ASSUME NEW k \in DOMAIN st.futs
        PROVE  k = 1
    <3> SUFFICES ASSUME k # 1 PROVE FALSE
      OBVIOUS
    <3>1. End(head) <= st.futs[k].write.start
      BY <1>4
    <3>2. End(st.futs[k].write) <= st.next
      BY <1>1 DEF Inv, Upright, Chain
    <3> HIDE DEF head
    <3> QED
      BY <1>1, <1>4, <1>7, <3>1, <3>2, FutTypes DEF head
  <2>2. {st.futs[k].write : k \in DOMAIN st.futs} \subseteq old
    BY <1>5, <2>1
  <2>3. Writes' = old /\ ~st'.up
    BY <1>6, <1>7 DEF Writes, Down
  <2> HIDE DEF old
  <2> QED
    BY <1>5, <2>2, <2>3
<1>8. ASSUME st' \in Streaming, st'.futs = Tail(st.futs)
      PROVE  Writes' = Writes
  <2>1. /\ Tail(st.futs) \in Seq(Fut) /\ Len(Tail(st.futs)) = Len(st.futs) - 1
        /\ \A k \in 1..Len(st.futs) - 1 :
             k + 1 \in DOMAIN st.futs /\ Tail(st.futs)[k] = st.futs[k + 1]
    BY <1>1, ShorterPipeline
  <2>2. DOMAIN st'.futs = 1..Len(st.futs) - 1
    BY <1>8, <2>1
  <2>3. \A k \in DOMAIN st.futs : k = 1 \/ (k - 1 \in 1..Len(st.futs) - 1 /\ k - 1 + 1 = k)
    BY SMTT(30), <1>1, FutTypes
  <2> DEFINE now == {st'.futs[k].write : k \in DOMAIN st'.futs}
             before == {st.futs[k].write : k \in DOMAIN st.futs}
  <2>4. now \subseteq before
    BY <1>8, <2>1, <2>2
  <2>5. before \subseteq now \cup {head}
    <3> SUFFICES ASSUME NEW k \in DOMAIN st.futs, k # 1
                 PROVE  st.futs[k].write \in now
      OBVIOUS
    <3>1. k - 1 \in DOMAIN st'.futs /\ st'.futs[k - 1] = st.futs[k]
      BY <1>8, <2>1, <2>2, <2>3
    <3> QED
      BY <3>1
  <2>6. Writes' = old \cup now
    BY <1>6, <1>8 DEF Writes, Streaming
  <2> HIDE DEF old, now, head, before
  <2>7. Writes = old \cup before
    BY <1>5 DEF before
  <2> QED
    BY <1>5, <2>4, <2>5, <2>6, <2>7
<1>9. Writes' = Writes
  BY <1>3, <1>7, <1>8 DEF Completed
<1>10. st'.up => st'.next = st.next /\ st'.fence = st.fence /\ st'.trim = st.trim
  BY <1>3 DEF Completed, Down
<1>11. SameRequests
  BY <1>3 DEF SameRequests, Answered
<1>12. Durably /\ Marked' /\ Current'
  <2>1. Durably
    BY <1>1, <1>2 DEF Durably
  <2>2. Marked'
    BY <1>1, <1>2, <1>11, MarkedCut
  <2> QED
    BY <1>1, <1>2, <1>9, <1>10, <1>11, <2>1, <2>2, CurrentStays
<1> QED
  BY <1>1, <1>2, <1>3, <1>9, <1>10, <1>12, ServerKeeps

\* A step that leaves the log, the streamer and the requests alone.
LEMMA StillWhole ==
    ASSUME Inv, Inv', Whole, UNCHANGED <<script, wal, flushed, st, spawned, reqs, sess, cl>>
    PROVE  /\ Contents' /\ Current' /\ Marked' /\ Refusals' /\ Following'
           /\ gone' = gone => Trimmed'
           /\ bg' = bg \/ bg'.pc # "delete" => Trimming'
           /\ gone' = gone /\ (bg' = bg \/ bg'.pc # "delete") => Whole'
<1>1. Types /\ Line /\ Marked /\ Current /\ wal \in Seq(Entry) /\ Len(wal) \in Nat
      /\ flushed \in Nat /\ spawned \in Nat
  BY LineHolds DEF Inv, Types, Whole
<1>2. Writes' = Writes /\ Answered /\ SameRequests
  BY <1>1, SameWrites, NobodyAnswered DEF SameRequests
<1>3. Durably
  BY <1>1 DEF Durably
<1>4. Marked' /\ Current'
  BY <1>1, <1>2, MarkedCut, CurrentStays
<1> QED
  BY <1>1, <1>2, <1>3, <1>4, ServerKeeps

LEMMA ListTrimWhole == Inv /\ Inv' /\ Whole /\ ListTrim /\ UNCHANGED <<cl, rd>> => Whole'
<1> SUFFICES ASSUME Inv, Inv', Whole, ListTrim, UNCHANGED <<cl, rd>>
             PROVE  Whole'
  OBVIOUS
<1>1. UNCHANGED <<script, wal, flushed, gone, st, spawned, reqs, sess, cl>>
      /\ TrimAt(flushed) # 0 /\ bg'.point = TrimAt(flushed)
  BY DEF ListTrim, dbVars
<1>2. Contents' /\ Current' /\ Marked' /\ Refusals' /\ Following' /\ Trimmed'
  BY <1>1, StillWhole
<1>3. wal \in Seq(Entry) /\ flushed \in Nat /\ flushed <= Len(wal) /\ Marked
  BY DEF Inv, Types, Whole
<1>4. PICK i \in 1..flushed : wal[i].trim # <<>> /\ TrimAt(flushed) = wal[i].trim[1]
  BY <1>1, <1>3, TrimFacts
<1>5. i \in 1..Len(wal) /\ i <= flushed
  BY <1>3
<1>6. i \in Batched
  <2>1. i \notin Batched => wal[i].trim[1] = 0
    BY <1>3, <1>5 DEF Marked
  <2> QED
    BY <1>1, <1>4, <2>1
<1>7. Trimming'
  BY <1>1, <1>4, <1>5, <1>6 DEF Trimming, Batched
<1> QED
  BY <1>2, <1>7 DEF Whole

LEMMA DeleteRecordsWhole ==
    Inv /\ Inv' /\ Whole /\ DeleteRecords /\ UNCHANGED <<cl, rd>> => Whole'
<1> SUFFICES ASSUME Inv, Inv', Whole, DeleteRecords, UNCHANGED <<cl, rd>>
             PROVE  Whole'
  OBVIOUS
<1>1. /\ UNCHANGED <<script, wal, flushed, st, spawned, reqs, sess, cl>>
      /\ bg.pc = "delete"
      /\ gone' = gone \cup {s \in SeqNums(RecordsAt(flushed)) : s < bg.point}
  BY DEF DeleteRecords
<1>2. Types /\ Line /\ Contents /\ Trimmed /\ Trimming /\ wal \in Seq(Entry) /\ Len(wal) \in Nat
      /\ flushed \in Nat /\ flushed <= Len(wal) /\ bg \in Trimmer
  BY LineHolds DEF Inv, Types, Whole
<1>3. bg'.pc = "finalize"
  BY <1>1, <1>2 DEF DeleteRecords, Trimmer
<1>4. Contents' /\ Current' /\ Marked' /\ Refusals' /\ Following' /\ Trimming'
  BY <1>1, <1>3, StillWhole
<1>5. PICK i \in Batched : i <= flushed /\ wal[i].trim # <<>> /\ wal[i].trim[1] = bg.point
  BY <1>1, <1>2 DEF Trimming
<1>6. ASSUME NEW s \in SeqNums(RecordsAt(flushed)), s < bg.point
      PROVE  /\ s \in Nat /\ In(wal[i]).kind \in {"trim", "terminal"}
             /\ s < End(wal[i]) /\ s < In(wal[i]).arg
  <2>1. PICK r \in RecordsAt(flushed) : s = r.seq
    BY DEF SeqNums
  <2>2. PICK j \in 1..flushed : \E l \in 1..wal[j].n :
          r = [seq |-> wal[j].start + l - 1, req |-> wal[j].req]
    BY DEF RecordsAt
  <2>3. PICK l \in 1..wal[j].n : s = wal[j].start + l - 1
    BY <2>1, <2>2
  <2>4. j \in 1..Len(wal)
    BY <1>2
  <2>5. j \in Batched
    BY <2>3, <2>4 DEF Inv, Laid
  <2>6. wal[j] \in Writes /\ wal[i] \in Writes
    BY <1>2, <2>5 DEF Line
  <2>7. wal[j].start \in Nat /\ wal[j].n \in Nat /\ End(wal[j]) = wal[j].start + wal[j].n
        /\ End(wal[i]) \in Nat /\ IsBatch(In(wal[i]))
    BY <1>2, <2>6 DEF Line
  <2>8. s \in Nat /\ s < End(wal[j])
    BY <2>3, <2>7
  <2>9. /\ In(wal[i]).kind \in {"trim", "terminal"}
        /\ bg.point <= In(wal[i]).arg
        /\ In(wal[i]).kind = "trim" => bg.point <= End(wal[i])
    BY <1>2, <1>5, <2>6 DEF Contents, Commands
  <2>10. In(wal[i]).arg \in Nat /\ bg.point \in Nat
    BY <1>2, <2>7, <2>9, StreamAssumption DEF IsBatch, Trimmer
  <2>11. In(wal[i]).kind = "terminal" => End(wal[j]) <= End(wal[i])
    BY <1>2, <2>6 DEF Contents, IsTerminal
  <2>12. s < In(wal[i]).arg
    BY <1>6, <2>8, <2>9, <2>10
  <2>13. s < End(wal[i])
    <3>1. CASE In(wal[i]).kind = "trim"
      BY <1>6, <2>7, <2>8, <2>9, <2>10, <3>1
    <3>2. CASE In(wal[i]).kind = "terminal"
      BY <2>7, <2>8, <2>11, <3>2
    <3> QED
      BY <2>9, <3>1, <3>2
  <2> QED
    BY <2>8, <2>9, <2>12, <2>13
<1>7. Trimmed'
  <2>1. wal' = wal /\ flushed' = flushed /\ Batched' = Batched
        /\ \A j \in Batched : In(wal[j])' = In(wal[j])
    BY <1>1 DEF Batched, In, InputOf
  <2>2. \A s \in gone' : s \in Nat /\ \E j \in Batched :
          /\ j <= flushed /\ In(wal[j]).kind \in {"trim", "terminal"}
          /\ s < End(wal[j]) /\ s < In(wal[j]).arg
    BY <1>1, <1>2, <1>5, <1>6 DEF Trimmed
  <2> QED
    BY <2>1, <2>2 DEF Trimmed, End
<1> QED
  BY <1>4, <1>7 DEF Whole

LEMMA FinalizeTrimWhole == Inv /\ Inv' /\ Whole /\ FinalizeTrim /\ UNCHANGED <<cl, rd>> => Whole'
<1> SUFFICES ASSUME Inv, Inv', Whole, FinalizeTrim, UNCHANGED <<cl, rd>>
             PROVE  Whole'
  OBVIOUS
<1>1. UNCHANGED <<script, flushed, gone, st, spawned, reqs, sess, cl>>
  BY DEF FinalizeTrim
<1>2. Types /\ Line /\ Contents /\ Marked /\ Current /\ wal \in Seq(Entry) /\ Len(wal) \in Nat
      /\ flushed \in 0..Len(wal) /\ flushed \in Nat /\ spawned \in Nat
  BY LineHolds DEF Inv, Types, Whole
<1>3. bg'.pc # "delete"
  BY DEF FinalizeTrim
<1>4. CASE UNCHANGED wal
  BY <1>1, <1>3, <1>4, StillWhole
<1>5. CASE ~UNCHANGED wal
  <2>1. PICK e : /\ e = [op |-> IF bg.point = MaxSeq THEN "drop" ELSE "trimmed",
                         req |-> 0, start |-> 0, n |-> 0, fence |-> <<>>, trim |-> <<0>>]
                 /\ wal' = Append(wal, e)
                 /\ bg.point = MaxSeq \/ TrimAt(Len(wal)) = bg.point
    BY <1>5 DEF FinalizeTrim
  <2>2. e \in Entry /\ e.op # "batch" /\ e.fence = <<>> /\ e.trim = <<0>>
        /\ (bg.point = MaxSeq => e.op = "drop")
    BY <2>1 DEF Entry
  <2>3. /\ Len(wal') = Len(wal) + 1 /\ wal'[Len(wal) + 1] = e
        /\ \A i \in 1..Len(wal) : wal'[i] = wal[i]
    BY <1>2, <2>1, <2>2
  <2>4. Batched' = Batched
    BY <1>2, <2>2, <2>3 DEF Batched
  <2>5. \A i \in Batched : wal'[i] = wal[i]
    BY <2>3 DEF Batched
  <2>6. Writes' = Writes
    <3>1. {wal'[i] : i \in Batched'} = {wal[i] : i \in Batched}
      BY <2>4, <2>5
    <3> QED
      BY <1>1, <3>1 DEF Writes
  <2>7. Answered /\ SameRequests
    BY <1>1, <1>2, NobodyAnswered DEF SameRequests
  <2>8. Durably
    <3>1. \A i \in 1..flushed : i \in 1..Len(wal)
      BY <1>2
    <3> QED
      BY <1>1, <1>2, <2>3, <3>1 DEF Durably
  <2>9. ASSUME NEW i \in Batched, IsTerminal(wal[i])
        PROVE  e.op = "drop" \/ \E l \in i + 1..Len(wal) : wal[l].op = "drop"
    <3>1. i <= Len(wal)
      BY <1>2 DEF Batched
    <3>2. TrimAt(Len(wal)) = MaxSeq \/ \E l \in i + 1..Len(wal) : wal[l].op = "drop"
      BY <1>2, <2>9, <3>1, Sealing
    <3> QED
      BY <2>1, <2>2, <3>2
  <2>10. Marked'
    BY <1>2, <2>1, <2>2, <2>7, <2>9, MarkedAppend
  <2>11. Current'
    BY <1>1, <1>2, <2>6, <2>7, CurrentStays
  <2> QED
    BY <1>1, <1>2, <1>3, <2>6, <2>7, <2>8, <2>10, <2>11, ServerKeeps
<1> QED
  BY <1>4, <1>5

\* The end of a streamer leaves what it wrote to the log.
LEMMA EndWhole ==
    ASSUME Inv, Inv', Whole, UNCHANGED <<script, wal, flushed, gone, spawned, sess, cl>>,
           st' = Down, reqs' = Unanswered, bg' = bg \/ bg'.pc # "delete"
    PROVE  Whole'
<1>1. Types /\ Line /\ Marked /\ wal \in Seq(Entry) /\ Len(wal) \in Nat /\ flushed \in Nat
      /\ spawned \in Nat
  BY LineHolds DEF Inv, Types, Whole
<1>2. ~st'.up
  BY DEF Down
<1>3. Answered /\ \A id \in DOMAIN reqs : reqs'[id].reply \in {reqs[id].reply, "lost"}
  BY <1>1, UnansweredIs
<1>4. SameRequests /\ Durably
  BY <1>1, <1>3 DEF SameRequests, Answered, Durably
<1>5. Writes' = {wal[i] : i \in Batched}
  BY <1>2 DEF Writes, Batched
<1>6. Writes' \subseteq Writes
  BY <1>5 DEF Writes
<1>7. \A w \in Writes', v \in Writes : End(v) <= w.start => v \in Writes'
  BY <1>1, <1>5 DEF Line
<1>8. \A v \in Writes : End(v) <= TailAt(flushed) => v \in Writes'
  BY <1>1, <1>5 DEF Line
<1>9. Marked' /\ Current'
  BY <1>1, <1>2, <1>4, MarkedCut DEF Current
<1> QED
  BY <1>1, <1>2, <1>3, <1>4, <1>6, <1>7, <1>8, <1>9, ServerKeeps

LEMMA DormancyWhole == Inv /\ Inv' /\ Whole /\ Dormancy /\ UNCHANGED <<cl, rd>> => Whole'
BY EndWhole DEF Dormancy, Exit, dbVars

LEMMA FailWriteWhole == Inv /\ Inv' /\ Whole /\ FailWrite /\ UNCHANGED <<cl, rd>> => Whole'
BY EndWhole DEF FailWrite, Exit

LEMMA CrashWhole == Inv /\ Inv' /\ Whole /\ Crash /\ UNCHANGED <<cl, rd>> => Whole'
BY EndWhole DEF Crash

LEMMA RestartWhole == Inv /\ Inv' /\ Whole /\ Restart /\ UNCHANGED <<cl, rd>> => Whole'
<1> SUFFICES ASSUME Inv, Inv', Whole, Restart, UNCHANGED <<cl, rd>>
             PROVE  Whole'
  OBVIOUS
<1>1. UNCHANGED <<script, flushed, gone, st, spawned, reqs, sess, cl>> /\ bg'.pc # "delete"
      /\ wal' = SubSeq(wal, 1, flushed) /\ ~st.up
  BY DEF Restart, Inv, Settled
<1>2. Types /\ Line /\ Marked /\ wal \in Seq(Entry) /\ Len(wal) \in Nat /\ flushed \in 0..Len(wal)
      /\ flushed \in Nat /\ spawned \in Nat
  BY LineHolds DEF Inv, Types, Whole
<1>3. wal' \in Seq(Entry) /\ Len(wal') = flushed /\ \A i \in 1..flushed : wal'[i] = wal[i]
  BY <1>1, <1>2
<1>4. Answered /\ SameRequests /\ Durably
  BY <1>1, <1>2, <1>3, NobodyAnswered DEF SameRequests, Durably
<1>5. /\ \A w \in Writes' : \E i \in Batched : i <= flushed /\ w = wal[i]
      /\ \A i \in Batched : i <= flushed => wal[i] \in Writes'
  <2>1. Writes' = {wal'[i] : i \in Batched'}
    BY <1>1 DEF Writes
  <2>2. \A i : i \in Batched' <=> i \in Batched /\ i <= flushed
    BY <1>2, <1>3 DEF Batched
  <2>3. \A i \in Batched' : wal'[i] = wal[i]
    BY <1>3 DEF Batched
  <2> QED
    BY <2>1, <2>2, <2>3
<1>6. Writes' \subseteq Writes
  BY <1>2, <1>5 DEF Line
<1>7. ASSUME NEW w \in Writes', NEW v \in Writes, End(v) <= w.start
      PROVE  v \in Writes'
  <2>1. PICK i \in Batched : i <= flushed /\ w = wal[i]
    BY <1>5
  <2>2. PICK j \in Batched : j < i /\ v = wal[j]
    BY <1>2, <1>7, <2>1 DEF Line
  <2>3. j <= flushed
    BY <1>2, <2>1, <2>2 DEF Batched
  <2> QED
    BY <1>5, <2>2, <2>3
<1>8. \A v \in Writes : End(v) <= TailAt(flushed) => v \in Writes'
  BY <1>2, <1>5 DEF Line
<1>9. Marked' /\ Current'
  BY <1>1, <1>2, <1>3, <1>4, MarkedCut DEF Current
<1> QED
  BY <1>1, <1>2, <1>4, <1>6, <1>7, <1>8, <1>9, ServerKeeps

\* A new streamer finds in storage what the writes say.
LEMMA StartWhole == Inv /\ Inv' /\ Whole /\ StartStreamer /\ UNCHANGED <<cl, rd>> => Whole'
<1> SUFFICES ASSUME Inv, Inv', Whole, StartStreamer, UNCHANGED <<cl, rd>>
             PROVE  Whole'
  OBVIOUS
<1>1. UNCHANGED <<script, wal, flushed, gone, reqs, sess, cl, bg>> /\ spawned' = spawned + 1
      /\ ~st.up /\ ExistsAt(flushed) /\ TrimAt(flushed) # MaxSeq
      /\ \A i \in Batched : i <= flushed
  BY DEF StartStreamer, dbVars, Inv, Settled
<1>2. Types /\ Line /\ Contents /\ Marked /\ wal \in Seq(Entry) /\ Len(wal) \in Nat
      /\ flushed \in 0..Len(wal) /\ flushed \in Nat /\ flushed <= Len(wal) /\ spawned \in Nat
  BY LineHolds DEF Inv, Types, Whole
<1>3. PICK T, F, M : /\ T = TailAt(flushed) /\ F = FenceAt(flushed) /\ M = TrimAt(flushed)
                     /\ st' = Streamer(T, F, M)
  BY DEF StartStreamer
<1>4. st'.up /\ st'.next = T /\ st'.futs = <<>>
      /\ st'.fence.val = F /\ st'.fence.ap = T /\ st'.trim.val = M /\ st'.trim.ap = T
  BY <1>3 DEF Streamer
<1>5. Writes' = Writes
  <2>1. {st'.futs[k].write : k \in DOMAIN st'.futs} = {}
    BY <1>4
  <2> QED
    BY <1>1, <1>4, <2>1 DEF Writes, Batched
<1>6. Answered /\ SameRequests /\ Durably
  BY <1>1, <1>2, NobodyAnswered DEF SameRequests, Durably
<1>7. Marked'
  BY <1>1, <1>2, <1>6, MarkedCut
<1>8. \A w \in Writes : \E i \in Batched : i \in 1..flushed /\ w = wal[i] /\ End(w) <= T
  BY <1>1, <1>2, <1>3 DEF Writes, Batched, Line
<1>9. T \in Nat /\ CoveredTo(T)
  <2>1. T \in Nat
    BY <1>2, <1>3 DEF Line
  <2>2. CASE T = 0
    BY <2>2 DEF CoveredTo
  <2>3. ASSUME NEW i \in Batched, T = End(wal[i])
        PROVE  CoveredTo(T)
    <3>1. PICK w : w = wal[i]
      OBVIOUS
    <3>2. w \in Writes /\ w.start \in Nat /\ CoveredTo(w.start)
      BY <1>2, <3>1 DEF Line, Contents
    <3> SUFFICES ASSUME NEW s \in 0..T - 1
                 PROVE  \E v \in Writes : v.start <= s /\ s < End(v)
      BY DEF CoveredTo
    <3>3. CASE s < w.start
      <4>1. s \in 0..w.start - 1
        BY <2>1, <3>2, <3>3
      <4> QED
        BY <3>2, <4>1 DEF CoveredTo
    <3>4. CASE w.start <= s
      BY <2>1, <2>3, <3>1, <3>2, <3>4
    <3> QED
      BY <2>1, <3>2, <3>3, <3>4
  <2> QED
    BY <1>2, <1>3, <2>2, <2>3, TailFacts
<1>10. M <= MaxSeq
  <2>1. CASE M = 0
    BY <2>1, StreamAssumption
  <2>2. ASSUME NEW i \in 1..flushed, wal[i].trim # <<>>, M = wal[i].trim[1]
        PROVE  M <= MaxSeq
    <3>1. i \in 1..Len(wal)
      BY <1>2
    <3>2. CASE i \in Batched
      BY <1>2, <2>2, <3>2 DEF Line, Contents, Commands
    <3>3. CASE i \notin Batched
      BY <1>2, <2>2, <3>1, <3>3, StreamAssumption DEF Marked
    <3> QED
      BY <3>2, <3>3
  <2> QED
    BY <1>2, <1>3, <2>1, <2>2, TrimFacts
<1>11. InForce(F, T)
  <2>1. \A j \in 1..flushed : j \in Batched => wal[j].op = "batch" /\ wal[j] \in Writes
    BY <1>2 DEF Line, Batched
  <2>2. \A w \in Writes : IsFence(w) => w.fence = <<In(w).arg>>
    BY DEF Contents, Commands, Whole
  <2>3. \A w \in Writes : IsFence(w) => w.fence # <<>>
    BY <2>2
  <2>4. \A w \in Writes : ~IsFence(w) => w.fence = <<>>
    BY DEF Contents, Commands, Whole
  <2>5. CASE F = NoToken /\ \A j \in 1..flushed : wal[j].op = "batch" => wal[j].fence = <<>>
    <3>1. \A w \in Writes : ~IsFence(w)
      BY <1>8, <2>1, <2>3, <2>5
    <3> QED
      BY <2>5, <3>1 DEF InForce
  <2>6. ASSUME NEW i \in 1..flushed, wal[i].op = "batch", wal[i].fence # <<>>, F = wal[i].fence[1],
               \A j \in 1..flushed : wal[j].op = "batch" /\ wal[j].fence # <<>> => j <= i
        PROVE  InForce(F, T)
    <3>1. PICK w : w = wal[i]
      OBVIOUS
    <3>2. i \in Batched
      BY <1>2, <2>6 DEF Batched
    <3>3. w \in Writes /\ End(w) <= T
      BY <1>1, <1>2, <1>3, <3>1, <3>2 DEF Line
    <3>4. IsFence(w) /\ F = In(w).arg
      BY <2>2, <2>4, <2>6, <3>1, <3>3
    <3>5. ASSUME NEW v \in Writes, IsFence(v)
          PROVE  End(v) <= End(w)
      <4>1. PICK j \in Batched : j \in 1..flushed /\ v = wal[j]
        BY <1>8
      <4>2. j <= i
        BY <2>1, <2>3, <2>6, <3>5, <4>1
      <4>3. CASE j = i
        BY <1>2, <3>1, <3>3, <4>1, <4>3 DEF Line
      <4>4. CASE j # i
        <5>1. j < i
          BY <4>1, <4>2, <4>4
        <5>2. End(v) <= w.start
          BY <3>1, <3>2, <4>1, <5>1 DEF Inv, Laid
        <5> QED
          BY <1>2, <3>3, <5>2 DEF Line
      <4> QED
        BY <4>3, <4>4
    <3> QED
      BY <3>3, <3>4, <3>5 DEF InForce
  <2> QED
    BY <1>2, <1>3, <2>5, <2>6, FenceFacts
<1>12. \A w \in Writes : ~IsTerminal(w)
  <2> SUFFICES ASSUME NEW w \in Writes, IsTerminal(w) PROVE FALSE
    OBVIOUS
  <2>1. PICK i \in Batched : w = wal[i] /\ i <= flushed
    BY <1>1, <1>8
  <2>2. IsTerminal(wal[i])
    BY <2>1
  <2>3. TrimAt(flushed) = MaxSeq \/ ~ExistsAt(flushed)
    BY <1>2, <2>1, <2>2, Sealing
  <2> QED
    BY <1>1, <2>3
<1>13. Current'
  <2>1. CoveredTo(T)'
    BY <1>5, <1>9 DEF CoveredTo, End
  <2>2. InForce(F, T)'
    BY <1>2, <1>5, <1>6, <1>11, ForceStays
  <2>3. CoveredTo(st.next)' /\ InForce(st.fence.val, st.fence.ap)'
    BY <1>4, <2>1, <2>2 DEF CoveredTo, InForce
  <2>4. \A w \in Writes : IsFence(w)' = IsFence(w) /\ IsTerminal(w)' = IsTerminal(w)
    BY <1>2, <1>6, SameInputs
  <2>5. /\ \A w \in Writes' : IsFence(w)' => End(w) <= st'.fence.ap
        /\ \A w \in Writes' : IsTerminal(w)' => st'.trim.val = MaxSeq
    BY <1>4, <1>5, <1>8, <1>12, <2>4
  <2>6. T <= T
    BY <1>9
  <2> QED
    BY <1>4, <1>10, <2>3, <2>5, <2>6 DEF Current, End
<1> QED
  BY <1>1, <1>2, <1>5, <1>6, <1>7, <1>13, ServerKeeps

-----------------------------------------------------------------------------
(* The steps of the sessions *)

\* What a session knows of its requests.
Knows(p, c) ==
    /\ c.id <= spawned
    /\ \A k \in DOMAIN c.acks : reqs[c.acks[k]].p = p /\ reqs[c.acks[k]].b = k
    /\ \A k \in DOMAIN c.sent : reqs[c.sent[k]].p = p /\ reqs[c.sent[k]].b = Len(c.acks) + k

Carried(p, c) ==
    c.pc = "open" /\ Connected(c) /\ ~sess[p].poisoned /\ st.trim.val # MaxSeq =>
        \A k \in DOMAIN c.sent : \E w \in Writes : w.req = c.sent[k]

LEMMA FollowingIs == Following <=> \A p \in Producers : Knows(p, cl[p]) /\ Carried(p, cl[p])
BY DEF Following, Knows, Carried

LEMMA RequestsOf ==
    ASSUME Inv, NEW p \in Producers
    PROVE  /\ \A k \in DOMAIN cl[p].sent : cl[p].sent[k] \in DOMAIN reqs
           /\ \A k \in DOMAIN cl[p].acks : cl[p].acks[k] \in DOMAIN reqs
                                           /\ reqs[cl[p].acks[k]].reply = "ok"
BY DEF Inv, Acknowledged

\* A step of one session that at most answers requests.
LEMMA SessionWhole ==
    ASSUME Inv, Inv', Whole, UNCHANGED <<script, wal, flushed, gone, st, spawned, bg>>, Answered,
           NEW p \in Producers, NEW c, cl' = [cl EXCEPT ![p] = c],
           \A q \in Producers : q # p => sess'[q] = sess[q],
           Knows(p, c),
           \/ c.sent = <<>>
           \/ c.pc # "open"
           \/ /\ sess' = sess /\ c.id = cl[p].id /\ cl[p].pc = "open"
              /\ \A k \in DOMAIN c.sent : \E j \in DOMAIN cl[p].sent : c.sent[k] = cl[p].sent[j],
           \A k \in DOMAIN c.acks : c.acks[k] \in DOMAIN reqs,
           \A k \in DOMAIN c.sent : c.sent[k] \in DOMAIN reqs
    PROVE  Whole'
<1>1. Types /\ Line /\ Contents /\ Marked /\ Current /\ Refusals /\ Trimming /\ Trimmed
      /\ Following /\ wal \in Seq(Entry) /\ Len(wal) \in Nat /\ flushed \in 0..Len(wal)
      /\ flushed \in Nat /\ cl \in [Producers -> Client]
  BY LineHolds DEF Inv, Types, Whole
<1>2. Writes' = Writes /\ SameRequests /\ Durably
  BY <1>1, SameWrites DEF SameRequests, Answered, Durably
<1>3. Contents' /\ Marked' /\ Current'
  BY <1>1, <1>2, ContentsStay, MarkedCut, CurrentStays DEF Shortened
<1>4. Refusals'
  <2>1. \A id \in DOMAIN reqs : reqs'[id].reply = "pending" => st'.up
    BY DEF Inv, Truthful, Answered
  <2> QED
    BY <1>1, <1>2, <2>1, RefusalsStay
<1>5. Trimmed' /\ Trimming'
  BY <1>1, <1>2, TrimsStay
<1>6. ASSUME NEW q \in Producers
      PROVE  Knows(q, cl[q])' /\ Carried(q, cl[q])'
  <2>1. Knows(q, cl[q]) /\ Carried(q, cl[q])
    BY <1>1, FollowingIs
  <2>2. CASE q = p
    <3>1. cl'[q] = c
      BY <1>1, <2>2
    <3>2. Knows(q, cl[q])'
      BY <1>2, <2>2, <3>1 DEF Knows, SameRequests
    <3>3. Carried(q, cl[q])'
      <4>1. CASE c.sent = <<>>
        BY <3>1, <4>1 DEF Carried
      <4>2. CASE c.pc # "open"
        BY <3>1, <4>2 DEF Carried
      <4>3. CASE /\ sess' = sess /\ c.id = cl[p].id /\ cl[p].pc = "open"
                 /\ \A k \in DOMAIN c.sent : \E j \in DOMAIN cl[p].sent : c.sent[k] = cl[p].sent[j]
        BY <1>2, <2>1, <2>2, <3>1, <4>3 DEF Carried, Connected
      <4> QED
        BY <4>1, <4>2, <4>3
    <3> QED
      BY <3>2, <3>3
  <2>3. CASE q # p
    <3>1. cl'[q] = cl[q] /\ sess'[q] = sess[q]
      BY <1>1, <2>3
    <3>2. Knows(q, cl[q])'
      BY <1>2, <2>1, <3>1, RequestsOf DEF Knows, SameRequests
    <3>3. Carried(q, cl[q])'
      BY <1>2, <2>1, <3>1 DEF Carried, Connected
    <3> QED
      BY <3>2, <3>3
  <2> QED
    BY <2>2, <2>3
<1>7. Following'
  BY <1>6 DEF Following, Knows, Carried
<1> QED
  BY <1>3, <1>4, <1>5, <1>7 DEF Whole

LEMMA ConnectWhole == \A p \in Producers : Inv /\ Inv' /\ Whole /\ Connect(p) => Whole'
<1> SUFFICES ASSUME NEW p \in Producers, Inv, Inv', Whole, Connect(p)
             PROVE  Whole'
  OBVIOUS
<1>1. Types /\ cl[p] \in Client /\ spawned \in Nat /\ sess \in [Producers -> Session]
      /\ Knows(p, cl[p])
  BY ClientFacts, FollowingIs DEF Inv, Types, Whole
<1> DEFINE none == <<>>
           resend == cl[p].infl > 0
           c == [cl[p] EXCEPT !.pc = "open", !.id = spawned, !.sent = none, !.resend = resend]
<1>2. cl' = [cl EXCEPT ![p] = c]
  BY DEF Connect
<1>3. c.acks = cl[p].acks /\ c.sent = none /\ c.id = spawned
  <2> HIDE DEF none, resend
  <2> QED
    BY <1>1 DEF Client
<1> HIDE DEF c
<1>4. Knows(p, c)
  BY <1>1, <1>3 DEF Knows
<1>5. UNCHANGED <<script, wal, flushed, gone, st, spawned, bg>>
      /\ \A q \in Producers : q # p => sess'[q] = sess[q]
  BY <1>1 DEF Connect, dbVars
<1>6. Answered
  BY <1>1, NobodyAnswered DEF Connect
<1>7. /\ c.sent = <<>> /\ \A k \in DOMAIN c.sent : c.sent[k] \in DOMAIN reqs
      /\ \A k \in DOMAIN c.acks : c.acks[k] \in DOMAIN reqs
  BY <1>3, RequestsOf
<1> QED
  BY <1>2, <1>4, <1>5, <1>6, <1>7, SessionWhole

LEMMA RefusedWhole == \A p \in Producers : Inv /\ Inv' /\ Whole /\ Refused(p) => Whole'
<1> SUFFICES ASSUME NEW p \in Producers, Inv, Inv', Whole, Refused(p)
             PROVE  Whole'
  OBVIOUS
<1>1. Types /\ cl[p] \in Client /\ Knows(p, cl[p])
  BY ClientFacts, FollowingIs DEF Inv, Whole
<1> DEFINE c == [cl[p] EXCEPT !.pc = "failed"]
<1>2. cl' = [cl EXCEPT ![p] = c]
  BY <1>1 DEF Refused
<1>3. c.acks = cl[p].acks /\ c.sent = cl[p].sent /\ c.id = cl[p].id /\ c.pc # "open"
  BY <1>1 DEF Client
<1> HIDE DEF c
<1>4. Knows(p, c)
  BY <1>1, <1>3 DEF Knows
<1>5. UNCHANGED <<script, wal, flushed, gone, st, spawned, bg, reqs, sess>>
  BY <1>1 DEF Refused, streamVars
<1>6. Answered
  BY <1>1, <1>5, NobodyAnswered
<1> QED
  BY <1>2, <1>3, <1>4, <1>5, <1>6, RequestsOf, SessionWhole

\* A session that met an error forgets what it sent.
LEMMA ErrorWhole ==
    ASSUME Inv, Inv', Whole, UNCHANGED <<script, wal, flushed, gone, st, spawned, bg, sess>>,
           Answered, NEW p \in Producers, NEW retryable \in BOOLEAN, AfterError(p, retryable)
    PROVE  Whole'
<1>1. Types /\ cl[p] \in Client /\ Knows(p, cl[p])
  BY ClientFacts, FollowingIs DEF Inv, Whole
<1> DEFINE again == retryable /\ RetryCompliant(p) /\ cl[p].retries < MaxRetries
           none == <<>>
           pc == IF again THEN "idle" ELSE "failed"
           retries == IF again THEN cl[p].retries + 1 ELSE cl[p].retries
           c == [cl[p] EXCEPT !.pc = pc, !.sent = none, !.retries = retries]
<1>2. cl' = [cl EXCEPT ![p] = c]
  BY DEF AfterError
<1>3. c.acks = cl[p].acks /\ c.sent = none /\ c.id = cl[p].id
  <2> HIDE DEF none, pc, retries
  <2> QED
    BY <1>1 DEF Client
<1> HIDE DEF c
<1>4. Knows(p, c)
  BY <1>1, <1>3 DEF Knows
<1>5. /\ c.sent = <<>> /\ \A k \in DOMAIN c.sent : c.sent[k] \in DOMAIN reqs
      /\ \A k \in DOMAIN c.acks : c.acks[k] \in DOMAIN reqs
  BY <1>3, RequestsOf
<1> QED
  BY <1>2, <1>4, <1>5, SessionWhole

LEMMA SessionErrorWhole == \A p \in Producers : Inv /\ Inv' /\ Whole /\ SessionError(p) => Whole'
<1> SUFFICES ASSUME NEW p \in Producers, Inv, Inv', Whole, SessionError(p)
             PROVE  Whole'
  OBVIOUS
<1>1. PICK retryable \in BOOLEAN : AfterError(p, retryable)
  BY DEF SessionError
<1>2. UNCHANGED <<script, wal, flushed, gone, st, spawned, bg, reqs, sess>>
  BY DEF SessionError, streamVars
<1>3. Answered
  BY <1>2, NobodyAnswered DEF Inv
<1> QED
  BY <1>1, <1>2, <1>3, ErrorWhole

LEMMA DisconnectWhole == \A p \in Producers : Inv /\ Inv' /\ Whole /\ Disconnect(p) => Whole'
<1> SUFFICES ASSUME NEW p \in Producers, Inv, Inv', Whole, Disconnect(p)
             PROVE  Whole'
  OBVIOUS
<1>1. AfterError(p, TRUE) /\ UNCHANGED <<script, wal, flushed, gone, st, spawned, bg, sess>>
  BY DEF Disconnect, dbVars
<1>2. Answered
  BY DisconnectKeeps
<1> QED
  BY <1>1, <1>2, ErrorWhole

LEMMA AckWhole == \A p \in Producers : Inv /\ Inv' /\ Whole /\ Ack(p) => Whole'
<1> SUFFICES ASSUME NEW p \in Producers, Inv, Inv', Whole, Ack(p)
             PROVE  Whole'
  OBVIOUS
<1> DEFINE o == cl[p]
           as == Append(o.acks, Head(o.sent))
           ts == Tail(o.sent)
           c == [o EXCEPT !.pc = IF Len(o.acks) + 1 = Batches(p) THEN "done" ELSE "open",
                          !.acks = as, !.infl = o.infl - 1, !.sent = ts, !.retries = 0,
                          !.resend = o.resend /\ o.infl > 1]
<1>1. Types /\ o \in Client /\ o.acks \in Seq(Nat) /\ o.sent \in Seq(Nat)
      /\ Len(o.acks) \in Nat /\ Len(o.sent) \in Nat /\ Knows(p, o)
  BY ClientFacts, FollowingIs DEF Inv, Whole
<1>2. o.sent # <<>> /\ o.pc = "open"
  BY DEF Ack
<1>3. cl' = [cl EXCEPT ![p] = c]
  BY DEF Ack
<1>4. /\ as \in Seq(Nat) /\ Len(as) = Len(o.acks) + 1
      /\ \A k \in 1..Len(o.acks) : as[k] = o.acks[k]
      /\ as[Len(o.acks) + 1] = o.sent[1]
      /\ 1 \in DOMAIN o.sent
      /\ ts \in Seq(Nat) /\ Len(ts) = Len(o.sent) - 1
      /\ \A k \in DOMAIN ts : k + 1 \in DOMAIN o.sent /\ ts[k] = o.sent[k + 1] /\ k \in Nat
  <2>1. Head(o.sent) \in Nat /\ Head(o.sent) = o.sent[1] /\ 1 \in DOMAIN o.sent
    BY <1>1, <1>2
  <2>2. /\ ts \in Seq(Nat) /\ Len(ts) = Len(o.sent) - 1
        /\ \A k \in DOMAIN ts : k + 1 \in DOMAIN o.sent /\ ts[k] = o.sent[k + 1] /\ k \in Nat
    BY <1>1, <1>2
  <2>3. /\ as \in Seq(Nat) /\ Len(as) = Len(o.acks) + 1
        /\ \A k \in 1..Len(o.acks) : as[k] = o.acks[k]
        /\ as[Len(o.acks) + 1] = Head(o.sent)
    BY <1>1, <2>1, AppendProperties
  <2> QED
    BY <2>1, <2>2, <2>3
<1> HIDE DEF o, as, ts
<1>5. c.acks = as /\ c.sent = ts /\ c.id = o.id
  BY <1>1 DEF Client
<1> HIDE DEF c
<1>6. \A k \in DOMAIN as : \/ k \in DOMAIN o.acks /\ as[k] = o.acks[k]
                           \/ k = Len(o.acks) + 1 /\ as[k] = o.sent[1]
  <2> DEFINE n == Len(o.acks)
  <2>1. DOMAIN o.acks = 1..n /\ n \in Nat
    BY <1>1
  <2>2. DOMAIN as = 1..n + 1
    <3>1. as \in Seq(Nat) /\ Len(as) = n + 1
      BY <1>4
    <3>2. DOMAIN as = 1..Len(as)
      BY <3>1, LenProperties
    <3> QED
      BY <3>1, <3>2
  <2>3. as[n + 1] = o.sent[1] /\ \A k \in 1..n : as[k] = o.acks[k]
    BY <1>4
  <2> HIDE DEF n
  <2>4. \A k \in 1..n + 1 : k \in 1..n \/ k = n + 1
    BY <2>1
  <2> QED
    BY <2>1, <2>2, <2>3, <2>4 DEF n
<1>7. Knows(p, c)
  <2>1. ASSUME NEW k \in DOMAIN as
        PROVE  reqs[as[k]].p = p /\ reqs[as[k]].b = k
    <3>1. CASE k \in DOMAIN o.acks /\ as[k] = o.acks[k]
      BY <1>1, <3>1 DEF Knows
    <3>2. CASE k = Len(o.acks) + 1 /\ as[k] = o.sent[1]
      <4>1. 1 \in DOMAIN o.sent
        BY <1>4
      <4> QED
        BY <1>1, <3>2, <4>1 DEF Knows
    <3> QED
      BY <1>6, <3>1, <3>2
  <2>2. ASSUME NEW k \in DOMAIN ts
        PROVE  reqs[ts[k]].p = p /\ reqs[ts[k]].b = Len(as) + k
    <3> DEFINE n == Len(o.acks)
    <3>1. reqs[o.sent[k + 1]].p = p /\ reqs[o.sent[k + 1]].b = n + (k + 1)
      BY <1>1, <1>4 DEF Knows
    <3>2. n \in Nat /\ k \in Nat /\ ts[k] = o.sent[k + 1] /\ Len(as) = n + 1
      BY <1>1, <1>4
    <3> HIDE DEF n
    <3>3. n + (k + 1) = (n + 1) + k
      BY <3>2
    <3> QED
      BY <3>1, <3>2, <3>3
  <2> QED
    BY <1>1, <1>5, <2>1, <2>2 DEF Knows
<1>8. UNCHANGED <<script, wal, flushed, gone, st, spawned, bg, reqs, sess>>
  BY DEF Ack, streamVars
<1>9. Answered
  BY <1>1, <1>8, NobodyAnswered
<1>10. /\ \A k \in DOMAIN o.sent : o.sent[k] \in DOMAIN reqs
       /\ \A k \in DOMAIN o.acks : o.acks[k] \in DOMAIN reqs
  BY RequestsOf DEF o
<1>11. /\ \A k \in DOMAIN as : as[k] \in DOMAIN reqs
       /\ \A k \in DOMAIN ts : ts[k] \in DOMAIN reqs
       /\ \A k \in DOMAIN ts : \E j \in DOMAIN o.sent : ts[k] = o.sent[j]
  BY <1>4, <1>6, <1>10
<1> QED
  BY <1>2, <1>3, <1>5, <1>7, <1>8, <1>9, <1>11, SessionWhole DEF o

-----------------------------------------------------------------------------
(* Appends *)

\* A token stays in force below x as long as new writes end beyond x.
LEMMA ForceGrows ==
    ASSUME Line, SameRequests, Writes \subseteq Writes', NEW tok, NEW x \in Nat,
           \A v \in Writes' : v \in Writes \/ (End(v) \in Nat /\ x < End(v)),
           InForce(tok, x)
    PROVE  InForce(tok, x)'
<1>1. \A w \in Writes : IsFence(w)' = IsFence(w) /\ In(w)' = In(w)
  BY SameInputs
<1>2. \A w : End(w)' = End(w)
  BY DEF End
<1>3. ASSUME NEW w \in Writes, IsFence(w), End(w) <= x, tok = In(w).arg,
             \A v \in Writes : IsFence(v) /\ End(v) <= x => End(v) <= End(w)
      PROVE  InForce(tok, x)'
  <2>1. w \in Writes' /\ IsFence(w)' /\ End(w)' <= x /\ tok = In(w)'.arg
    BY <1>1, <1>2, <1>3
  <2>2. \A v \in Writes' : IsFence(v)' /\ End(v)' <= x => End(v)' <= End(w)'
    BY <1>1, <1>2, <1>3
  <2> QED
    BY <2>1, <2>2 DEF InForce
<1>4. ASSUME tok = NoToken, \A v \in Writes : IsFence(v) => x < End(v)
      PROVE  InForce(tok, x)'
  <2>1. \A v \in Writes' : IsFence(v)' => x < End(v)'
    BY <1>1, <1>2, <1>4
  <2> QED
    BY <1>4, <2>1 DEF InForce
<1> QED
  BY <1>3, <1>4 DEF InForce

\* What was in force below the last fence is in force from there on.
LEMMA ForceReaches ==
    ASSUME Line, NEW tok, NEW x \in Nat, NEW y \in Nat, x <= y, InForce(tok, x),
           \A w \in Writes : IsFence(w) => End(w) <= x
    PROVE  InForce(tok, y)
<1>1. \A w \in Writes : End(w) \in Nat
  BY DEF Line
<1>2. ASSUME NEW w \in Writes, IsFence(w), End(w) <= x, tok = In(w).arg,
             \A v \in Writes : IsFence(v) /\ End(v) <= x => End(v) <= End(w)
      PROVE  InForce(tok, y)
  <2>1. End(w) <= y
    BY <1>1, <1>2
  <2> QED
    BY <1>2, <2>1 DEF InForce
<1>3. ASSUME tok = NoToken, \A v \in Writes : IsFence(v) => x < End(v)
      PROVE  InForce(tok, y)
  <2>1. \A v \in Writes : ~IsFence(v)
    BY <1>1, <1>3
  <2> QED
    BY <1>3, <2>1 DEF InForce
<1> QED
  BY <1>2, <1>3 DEF InForce

\* Requests are told apart by when they were made.
Submitted(r) ==
    /\ script' = script /\ r \in Message /\ reqs' = Append(reqs, r)
    /\ Len(reqs) \in Nat
    /\ \A id \in DOMAIN reqs :
        id \in DOMAIN reqs' /\ reqs'[id] = reqs[id] /\ id # Len(reqs) + 1
    /\ \A id \in DOMAIN reqs' : id \in DOMAIN reqs \/ id = Len(reqs) + 1
    /\ reqs'[Len(reqs) + 1] = r /\ Len(reqs) + 1 \in DOMAIN reqs'
    /\ SameRequests

LEMMA SubmittedIs ==
    ASSUME Inv, UNCHANGED script, NEW r \in Message, reqs' = Append(reqs, r)
    PROVE  Submitted(r)
<1>1. reqs \in Seq(Message)
  BY DEF Inv, Types
<1>2. /\ Len(reqs) \in Nat
      /\ DOMAIN reqs = 1..Len(reqs) /\ DOMAIN reqs' = 1..Len(reqs) + 1
      /\ \A id \in DOMAIN reqs : id \in DOMAIN reqs' /\ reqs'[id] = reqs[id]
      /\ reqs'[Len(reqs) + 1] = r
  BY <1>1
<1>3. /\ \A id \in DOMAIN reqs : id # Len(reqs) + 1
      /\ \A id \in DOMAIN reqs' : id \in DOMAIN reqs \/ id = Len(reqs) + 1
      /\ Len(reqs) + 1 \in DOMAIN reqs'
  BY <1>2
<1> QED
  BY <1>2, <1>3 DEF Submitted, SameRequests

\* Batch b is what session p sends next.
IsNext(p, b) == b = Len(cl[p].acks) + Len(cl[p].sent) + 1

LEMMA SendIs ==
    ASSUME Inv, NEW p \in Producers, Send(p)
    PROVE  \E b \in 1..Batches(p) :
            /\ IsNext(p, b)
            /\ st.up /\ cl[p].pc = "open" /\ Connected(cl[p])
            /\ UNCHANGED <<script, wal, flushed, gone, spawned, bg>>
            /\ \A q \in Producers : q # p => cl'[q] = cl[q]
            /\ cl'[p].acks = cl[p].acks /\ cl'[p].id = cl[p].id /\ cl'[p].pc = cl[p].pc
            /\ cl'[p].sent = Append(cl[p].sent, Len(reqs) + 1)
            /\ \/ /\ st.trim.val = MaxSeq \/ sess[p].poisoned
                  /\ Drop(p, b)
               \/ /\ st.trim.val # MaxSeq /\ ~sess[p].poisoned
                  /\ Refuse(p, b, script.of[p].in[b])
               \/ /\ st.trim.val # MaxSeq /\ ~sess[p].poisoned
                  /\ ~TokenMismatch(script.of[p].in[b]) /\ ~SeqMismatch(script.of[p].in[b])
                  /\ Accept(p, b, script.of[p].in[b])
<1> DEFINE o == cl[p]
           a == Len(o.acks)
           t == Len(o.sent)
           i == o.infl
           m == Batches(p)
           b == a + t + 1
           new == Len(reqs) + 1
           ss == Append(o.sent, new)
           infl == Max({o.infl, t + 1})
           c == [o EXCEPT !.sent = ss, !.infl = infl]
<1>1. cl \in [Producers -> Client] /\ o \in Client /\ a \in Nat /\ t \in Nat /\ i \in Int /\ m \in Nat
      /\ a + i <= m
  BY ClientFacts DEF Inv, Types
<1>2. /\ o.pc = "open" /\ Connected(o)
      /\ b <= IF o.resend THEN a + i ELSE m
      /\ HandleAppend(p, b)
      /\ cl' = [cl EXCEPT ![p] = c]
  BY <1>1 DEF Send
<1>3. b \in 1..m
  <2>1. b <= IF o.resend THEN a + i ELSE m
    BY <1>2
  <2>2. b = a + t + 1
    OBVIOUS
  <2> HIDE DEF a, t, i, m, b
  <2> QED
    BY <1>1, <2>1, <2>2
<1>4. cl'[p] = c /\ \A q \in Producers : q # p => cl'[q] = cl[q]
  BY <1>1, <1>2
<1>5. c.acks = o.acks /\ c.id = o.id /\ c.pc = o.pc /\ c.sent = ss
  <2> HIDE DEF o, ss, infl
  <2> QED
    BY <1>1 DEF Client
<1> HIDE DEF c
<1> HIDE DEF b, m
<1>6. UNCHANGED <<script, wal, flushed, gone, spawned, bg>> /\ st.up
  BY <1>2 DEF HandleAppend, dbVars
<1>7. \/ /\ st.trim.val = MaxSeq \/ sess[p].poisoned
         /\ Drop(p, b)
      \/ /\ st.trim.val # MaxSeq /\ ~sess[p].poisoned
         /\ Refuse(p, b, script.of[p].in[b])
      \/ /\ st.trim.val # MaxSeq /\ ~sess[p].poisoned
         /\ ~TokenMismatch(script.of[p].in[b]) /\ ~SeqMismatch(script.of[p].in[b])
         /\ Accept(p, b, script.of[p].in[b])
  BY <1>2 DEF HandleAppend
<1> QED
  BY <1>2, <1>3, <1>4, <1>5, <1>6, <1>7 DEF b, m, IsNext

LEMMA SentFollowing ==
    ASSUME Inv, Following, NEW p \in Producers, NEW r, Submitted(r),
           r.p = p, r.b = Len(cl[p].acks) + Len(cl[p].sent) + 1,
           \A q \in Producers : q # p => cl'[q] = cl[q] /\ sess'[q] = sess[q],
           cl'[p].acks = cl[p].acks, cl'[p].id = cl[p].id, cl'[p].pc = cl[p].pc,
           cl'[p].sent = Append(cl[p].sent, Len(reqs) + 1),
           UNCHANGED spawned, st.up, Writes \subseteq Writes',
           st'.trim.val # MaxSeq => st.trim.val # MaxSeq,
           ~sess'[p].poisoned /\ st'.trim.val # MaxSeq =>
               ~sess[p].poisoned /\ \E w \in Writes' : w.req = Len(reqs) + 1
    PROVE  Following'
<1> DEFINE o == cl[p]
           new == Len(reqs) + 1
           ss == cl'[p].sent
           n == Len(o.sent)
<1>1. /\ Types /\ o.sent \in Seq(Nat) /\ n \in Nat /\ Knows(p, o) /\ Carried(p, o)
      /\ Len(o.acks) \in Nat
  BY ClientFacts, FollowingIs DEF Inv
<1>2. /\ Len(reqs) \in Nat /\ SameRequests /\ reqs'[new] = r
      /\ \A id \in DOMAIN reqs : id \in DOMAIN reqs' /\ reqs'[id] = reqs[id]
  BY DEF Submitted
<1>3. \A k \in DOMAIN ss : \/ k \in DOMAIN o.sent /\ ss[k] = o.sent[k]
                           \/ k = n + 1 /\ ss[k] = new
  <2>1. new \in Nat /\ ss = Append(o.sent, new)
    BY <1>2
  <2>2. /\ ss \in Seq(Nat) /\ Len(ss) = n + 1
        /\ \A k \in 1..n : ss[k] = o.sent[k]
        /\ ss[n + 1] = new
    <3> HIDE DEF new, o, ss
    <3> QED
      BY <1>1, <2>1, AppendProperties
  <2>3. DOMAIN ss = 1..n + 1 /\ DOMAIN o.sent = 1..n
    <3> HIDE DEF ss, o
    <3> QED
      BY <1>1, <2>2, LenProperties
  <2> HIDE DEF n, ss, new
  <2>4. \A k \in 1..n + 1 : k \in 1..n \/ k = n + 1
    BY <1>1
  <2> QED
    BY <2>2, <2>3, <2>4
<1>4. ASSUME NEW q \in Producers
      PROVE  Knows(q, cl[q])' /\ Carried(q, cl[q])'
  <2>1. CASE q # p
    <3>1. Knows(q, cl[q]) /\ Carried(q, cl[q]) /\ cl'[q] = cl[q] /\ sess'[q] = sess[q]
      BY <2>1, FollowingIs
    <3>2. Knows(q, cl[q])'
      BY <1>2, <3>1, RequestsOf DEF Knows
    <3>3. Carried(q, cl[q])'
      BY <3>1 DEF Carried, Connected
    <3> QED
      BY <3>2, <3>3
  <2>2. CASE q = p
    <3> HIDE DEF ss, new, n
    <3>1. \A k \in DOMAIN ss : reqs'[ss[k]].p = p /\ reqs'[ss[k]].b = Len(o.acks) + k
      <4> SUFFICES ASSUME NEW k \in DOMAIN ss
                   PROVE  reqs'[ss[k]].p = p /\ reqs'[ss[k]].b = Len(o.acks) + k
        OBVIOUS
      <4>1. CASE k \in DOMAIN o.sent /\ ss[k] = o.sent[k]
        <5>1. o.sent[k] \in DOMAIN reqs
          BY <4>1, RequestsOf
        <5>2. reqs[o.sent[k]].p = p /\ reqs[o.sent[k]].b = Len(o.acks) + k
          BY <1>1, <4>1 DEF Knows
        <5> QED
          BY <1>2, <4>1, <5>1, <5>2
      <4>2. CASE k = n + 1 /\ ss[k] = new
        <5>1. PICK l : l = Len(o.acks)
          OBVIOUS
        <5>2. r.b = l + n + 1 /\ r.p = p
          BY <5>1 DEF n
        <5>3. l \in Nat /\ n \in Nat
          BY <1>1, <5>1 DEF n
        <5>4. l + n + 1 = l + k
          BY <4>2, <5>3
        <5> QED
          BY <1>2, <4>2, <5>1, <5>2, <5>4
      <4> QED
        BY <1>3, <4>1, <4>2
    <3>2. \A k \in DOMAIN o.acks : reqs'[o.acks[k]].p = p /\ reqs'[o.acks[k]].b = k
      BY <1>1, <1>2, RequestsOf DEF Knows
    <3>3. Knows(p, cl[p])'
      <4>1. cl'[p].id <= spawned'
        BY <1>1 DEF Knows, o
      <4>2. \A k \in DOMAIN cl'[p].acks :
              reqs'[cl'[p].acks[k]].p = p /\ reqs'[cl'[p].acks[k]].b = k
        BY <3>2 DEF o
      <4>3. \A k \in DOMAIN cl'[p].sent :
              /\ reqs'[cl'[p].sent[k]].p = p
              /\ reqs'[cl'[p].sent[k]].b = Len(cl'[p].acks) + k
        BY <3>1 DEF o, ss
      <4> QED
        BY <4>1, <4>2, <4>3 DEF Knows
    <3>4. ASSUME cl'[p].pc = "open", Connected(cl[p])', ~sess'[p].poisoned, st'.trim.val # MaxSeq,
                 NEW k \in DOMAIN ss
          PROVE  \E w \in Writes' : w.req = ss[k]
      <4>1. CASE k \in DOMAIN o.sent /\ ss[k] = o.sent[k]
        <5>1. o.pc = "open" /\ Connected(o) /\ ~sess[p].poisoned /\ st.trim.val # MaxSeq
          BY <3>4 DEF Connected
        <5> QED
          BY <1>1, <4>1, <5>1 DEF Carried
      <4>2. CASE k = n + 1 /\ ss[k] = new
        BY <3>4, <4>2 DEF new
      <4> QED
        BY <1>3, <4>1, <4>2
    <3>5. Carried(p, cl[p])'
      BY <3>4 DEF Carried, ss
    <3> QED
      BY <2>2, <3>3, <3>5
  <2> QED
    BY <2>1, <2>2
<1> QED
  BY <1>4 DEF Following, Knows, Carried

LEMMA SentRefusals ==
    ASSUME Inv, Line, Refusals, NEW r, Submitted(r), st.up,
           Writes \subseteq Writes', st'.next \in Nat, st.next <= st'.next,
           \A v \in Writes' : v \in Writes \/ (End(v) \in Nat /\ st.next < End(v)),
           r.saw # <<>> /\ r.reply \in {"pending", "rejected"} =>
               /\ r.saw[1].ap <= r.dep /\ r.saw[1].ap <= st.next
               /\ InForce(r.saw[1].val, r.saw[1].ap)
    PROVE  Refusals'
<1> SUFFICES ASSUME NEW id \in DOMAIN reqs', reqs'[id].saw # <<>>,
                    reqs'[id].reply \in {"pending", "rejected"}
             PROVE  /\ reqs'[id].saw[1].ap <= reqs'[id].dep
                    /\ reqs'[id].reply = "pending" => reqs'[id].saw[1].ap <= st'.next
                    /\ InForce(reqs[id].saw[1].val, reqs[id].saw[1].ap)'
  BY DEF Refusals
<1>1. PICK tok, x : tok = reqs'[id].saw[1].val /\ x = reqs'[id].saw[1].ap
  OBVIOUS
<1>2. st.next \in Nat /\ TailAt(flushed) \in Nat /\ TailAt(flushed) <= st.next
  BY DEF Line
<1>3. x \in Nat /\ reqs'[id].dep \in Nat
  <2>1. reqs'[id] \in Message
    BY DEF Submitted, Inv, Types
  <2>2. reqs'[id].saw \in Seq(FenceState) /\ reqs'[id].dep \in Nat
    BY <2>1 DEF Message
  <2>3. reqs'[id].saw[1] \in FenceState
    BY <2>2
  <2> QED
    BY <1>1, <2>2, <2>3 DEF FenceState
<1>4. x <= reqs'[id].dep /\ x <= st.next /\ InForce(tok, x)
  <2>1. CASE id \in DOMAIN reqs
    <3>1. reqs'[id] = reqs[id]
      BY <2>1 DEF Submitted
    <3>2. x <= reqs[id].dep /\ (reqs[id].reply = "pending" => x <= st.next) /\ InForce(tok, x)
      BY <1>1, <2>1, <3>1 DEF Refusals
    <3>3. CASE reqs[id].reply = "pending"
      BY <3>1, <3>2, <3>3
    <3>4. CASE reqs[id].reply = "rejected"
      <4>1. reqs[id].dep <= TailAt(flushed)
        BY <2>1, <3>4 DEF Inv, Truthful
      <4> QED
        BY <1>2, <1>3, <3>1, <3>2, <4>1
    <3> QED
      BY <3>1, <3>3, <3>4
  <2>2. CASE reqs'[id] = r
    BY <1>1, <2>2
  <2> QED
    BY <2>1, <2>2 DEF Submitted
<1>5. \A v \in Writes' : v \in Writes \/ (End(v) \in Nat /\ x < End(v))
  BY <1>2, <1>3, <1>4
<1>6. InForce(tok, x)'
  BY <1>3, <1>4, <1>5, ForceGrows DEF Submitted
<1>7. InForce(reqs[id].saw[1].val, reqs[id].saw[1].ap)'
  BY <1>1, <1>6 DEF InForce
<1> QED
  BY <1>1, <1>2, <1>3, <1>4, <1>7

\* The rest of Whole follows for a message that reaches the streamer.
LEMMA SentWhole ==
    ASSUME Inv, Inv', Whole, SameRequests, UNCHANGED <<wal, flushed, gone, bg>>,
           Contents', Current', Refusals', Following'
    PROVE  Whole'
<1>1. Line /\ Marked /\ Trimmed /\ Trimming /\ wal \in Seq(Entry) /\ Len(wal) \in Nat
      /\ flushed \in 0..Len(wal) /\ flushed \in Nat
  BY LineHolds DEF Inv, Types, Whole
<1>2. Marked'
  BY <1>1, MarkedCut
<1>3. Durably
  BY <1>1 DEF Durably
<1>4. Trimmed' /\ Trimming'
  BY <1>1, <1>3, TrimsStay
<1> QED
  BY <1>2, <1>4 DEF Whole

\* A message that adds no write.
LEMMA TurnedAwayWhole ==
    ASSUME Inv, Inv', Whole, NEW r, Submitted(r), UNCHANGED <<wal, flushed, gone, bg>>,
           st.up, st'.up, st'.next = st.next, st'.fence = st.fence, st'.trim = st.trim,
           st'.futs = st.futs, Refusals', Following'
    PROVE  Whole'
<1>1. Line /\ Contents /\ Current /\ SameRequests
  BY LineHolds DEF Whole, Submitted
<1>2. Writes' = Writes
  BY DEF Writes, Batched
<1>3. Contents' /\ Current'
  BY <1>1, <1>2, ContentsStay, CurrentStays DEF Shortened
<1> QED
  BY <1>1, <1>3, SentWhole

LEMMA RequestIs ==
    \A p \in Producers, b \in Nat \ {0}, at \in Nat \cup {-1}, reply \in Replied, dep \in Nat,
       saw \in Seq(FenceState) :
        /\ Request(p, b, at, reply, dep, saw) \in Message
        /\ Request(p, b, at, reply, dep, saw).p = p /\ Request(p, b, at, reply, dep, saw).b = b
        /\ Request(p, b, at, reply, dep, saw).at = at
        /\ Request(p, b, at, reply, dep, saw).reply = reply
        /\ Request(p, b, at, reply, dep, saw).dep = dep
        /\ Request(p, b, at, reply, dep, saw).saw = saw
BY DEF Request, Message

LEMMA DropWhole ==
    ASSUME Inv, Inv', Whole, NEW p \in Producers, NEW b \in 1..Batches(p), Drop(p, b),
           IsNext(p, b),
           st.up, UNCHANGED <<script, wal, flushed, gone, spawned, bg>>,
           \A q \in Producers : q # p => cl'[q] = cl[q],
           cl'[p].acks = cl[p].acks, cl'[p].id = cl[p].id, cl'[p].pc = cl[p].pc,
           cl'[p].sent = Append(cl[p].sent, Len(reqs) + 1),
           st.trim.val = MaxSeq \/ sess[p].poisoned
    PROVE  Whole'
<1>1. PICK r : r = Request(p, b, -1, "lost", 0, <<>>)
  OBVIOUS
<1>2. r \in Message /\ r.p = p /\ r.b = b /\ r.reply = "lost"
  <2> DEFINE none == <<>>
  <2>1. b \in Nat \ {0}
    BY BatchOf DEF Inv
  <2>2. "lost" \in Replied /\ -1 \in Nat \cup {-1} /\ none \in Seq(FenceState)
    BY DEF Replied
  <2>3. r = Request(p, b, -1, "lost", 0, none)
    BY <1>1
  <2> HIDE DEF none
  <2> QED
    BY <2>1, <2>2, <2>3, RequestIs
<1>3. UNCHANGED <<st, sess>> /\ reqs' = Append(reqs, r)
  BY <1>1 DEF Drop
<1>4. Submitted(r)
  BY <1>2, <1>3, SubmittedIs
<1>5. Line /\ Refusals /\ Following
  BY LineHolds DEF Whole
<1>6. Writes' = Writes
  BY <1>3, SameWrites
<1>7. Refusals'
  <2>1. st'.next \in Nat /\ st.next <= st'.next
    BY <1>3, <1>5 DEF Line
  <2> QED
    BY <1>2, <1>4, <1>5, <1>6, <2>1, SentRefusals
<1>8. Following'
  <2>1. r.b = Len(cl[p].acks) + Len(cl[p].sent) + 1
    BY <1>2 DEF IsNext
  <2> QED
    BY <1>2, <1>3, <1>4, <1>5, <1>6, <2>1, SentFollowing
<1> QED
  BY <1>3, <1>4, <1>7, <1>8, TurnedAwayWhole

\* A refusal shows what it rests on.
LEMMA RefuseWhole ==
    ASSUME Inv, Inv', Whole, NEW p \in Producers, NEW b \in 1..Batches(p),
           Refuse(p, b, script.of[p].in[b]),
           IsNext(p, b),
           st.up, UNCHANGED <<script, wal, flushed, gone, spawned, bg>>,
           \A q \in Producers : q # p => cl'[q] = cl[q],
           cl'[p].acks = cl[p].acks, cl'[p].id = cl[p].id, cl'[p].pc = cl[p].pc,
           cl'[p].sent = Append(cl[p].sent, Len(reqs) + 1)
    PROVE  Whole'
<1>a. PICK in : in = script.of[p].in[b]
  OBVIOUS
<1>b. PICK dep : dep = Max({Dependency(in), sess[p].last})
  OBVIOUS
<1>c. PICK saw : saw = IF TokenMismatch(in) THEN <<st.fence>> ELSE <<>>
  OBVIOUS
<1>d. PICK reply : reply = IF dep <= st.stable THEN "rejected" ELSE "pending"
  OBVIOUS
<1>e. PICK r : r = Request(p, b, -1, reply, dep, saw)
  OBVIOUS
<1>1. Types /\ Line /\ Current /\ Refusals /\ Following /\ st \in Streaming
      /\ sess \in [Producers -> Session]
  BY LineHolds, FutTypes DEF Inv, Types, Whole
<1>2. st.next \in Nat /\ st.fence \in FenceState /\ st.fence.ap \in Nat
  BY <1>1 DEF Streaming, FenceState
<1>3. dep \in Nat /\ dep >= Dependency(in)
  <2>1. Dependency(in) \in Nat
    BY <1>2 DEF Dependency
  <2>2. sess[p].last \in Nat
    BY <1>1 DEF Session
  <2>3. Dependency(in) \in Int /\ sess[p].last \in Int
    BY <2>1, <2>2
  <2>4. dep \in {Dependency(in), sess[p].last} /\ dep >= Dependency(in)
    BY <1>b, <2>3, MinMaxOfTwo
  <2> QED
    BY <2>1, <2>2, <2>4
<1>4. saw \in Seq(FenceState)
  BY <1>2, <1>c
<1>5. r \in Message /\ r.p = p /\ r.b = b /\ r.dep = dep /\ r.saw = saw
  <2>1. b \in Nat \ {0} /\ -1 \in Nat \cup {-1} /\ reply \in Replied
    BY <1>1, <1>d, BatchOf DEF Replied
  <2> QED
    BY <1>3, <1>4, <1>e, <2>1, RequestIs
<1>6. reqs' = Append(reqs, r) /\ sess' = [sess EXCEPT ![p].poisoned = TRUE]
  BY <1>a, <1>b, <1>c, <1>d, <1>e DEF Refuse
<1>7. st'.up /\ st'.next = st.next /\ st'.fence = st.fence /\ st'.trim = st.trim
      /\ st'.futs = st.futs
  <2>1. CASE st' = st
    BY <2>1
  <2>2. CASE \E q : st' = [st EXCEPT !.queue = q]
    BY <1>1, <2>2 DEF Streaming
  <2> QED
    BY <2>1, <2>2 DEF Refuse
<1>8. Submitted(r)
  BY <1>5, <1>6, SubmittedIs
<1>9. Writes' = Writes
  BY <1>7 DEF Writes, Batched
<1>10. ASSUME saw # <<>>
       PROVE  saw[1].ap <= dep /\ saw[1].ap <= st.next /\ InForce(saw[1].val, saw[1].ap)
  <2>1. TokenMismatch(in)
    BY <1>10, <1>c
  <2>2. saw[1] = st.fence
    BY <1>c, <2>1
  <2>3. Dependency(in) = st.fence.ap
    BY <2>1 DEF Dependency
  <2>4. st.fence.ap <= st.next /\ InForce(st.fence.val, st.fence.ap)
    BY <1>1 DEF Current
  <2>5. InForce(saw[1].val, saw[1].ap)
    BY <2>2, <2>4
  <2> QED
    BY <1>2, <1>3, <2>2, <2>3, <2>4, <2>5
<1>11. Refusals'
  <2>1. st'.next \in Nat /\ st.next <= st'.next
    BY <1>2, <1>7
  <2>2. r.saw # <<>> /\ r.reply \in {"pending", "rejected"} =>
            /\ r.saw[1].ap <= r.dep /\ r.saw[1].ap <= st.next
            /\ InForce(r.saw[1].val, r.saw[1].ap)
    BY <1>5, <1>10
  <2> QED
    BY <1>1, <1>8, <1>9, <2>1, <2>2, SentRefusals
<1>12. Following'
  <2>1. r.b = Len(cl[p].acks) + Len(cl[p].sent) + 1
    BY <1>5 DEF IsNext
  <2>2. sess'[p].poisoned /\ \A q \in Producers : q # p => sess'[q] = sess[q]
    BY <1>1, <1>6 DEF Session
  <2> QED
    BY <1>1, <1>5, <1>7, <1>8, <1>9, <2>1, <2>2, SentFollowing
<1> QED
  BY <1>7, <1>8, <1>11, <1>12, TurnedAwayWhole

\* What applying a command makes of the streamer's state.
LEMMA AppliedCommands ==
    ASSUME NEW s \in Streaming, NEW in, IsBatch(in), NEW seq \in Nat,
           s.trim.val <= MaxSeq, s.trim.val # MaxSeq
    PROVE  LET a == Applied(s, in, seq)
           IN  /\ in.kind = "fence" => a.fence = [val |-> in.arg, ap |-> seq + 1] /\ in.n = 1
               /\ in.kind # "fence" => a.fence = s.fence
               /\ \/ a.trim = s.trim /\ in.kind # "terminal"
                  \/ /\ in.kind \in {"trim", "terminal"} /\ in.n = 1
                     /\ a.trim.ap = seq + 1 /\ a.trim.val \in Nat /\ a.trim.val # 0
                     /\ a.trim.val <= in.arg /\ a.trim.val <= MaxSeq
                     /\ in.kind = "trim" => a.trim.val <= seq + 1
                     /\ in.kind = "terminal" => a.trim.val = MaxSeq
<1>a. PICK cap : cap = IF in.kind = "terminal" THEN in.arg ELSE Min({in.arg, seq + 1})
  OBVIOUS
<1>b. PICK a : a = Applied(s, in, seq)
  OBVIOUS
<1>1. s.trim \in [val : Nat, ap : Nat] /\ s.trim.val \in Nat /\ MaxSeq \in Nat
  BY StreamAssumption DEF Streaming
<1>2. CASE in.kind = "fence"
  <2>1. a = [s EXCEPT !.fence = [val |-> in.arg, ap |-> seq + 1]]
    BY <1>2, <1>b DEF Applied
  <2>2. a.fence = [val |-> in.arg, ap |-> seq + 1] /\ a.trim = s.trim
    BY <2>1 DEF Streaming
  <2>3. in.n = 1
    BY <1>2 DEF IsBatch
  <2> QED
    BY <1>2, <1>b, <2>2, <2>3
<1>3. CASE in.kind \in {"trim", "terminal"} /\ s.trim.val < cap
  <2>1. a = [s EXCEPT !.trim = [val |-> cap, ap |-> seq + 1]]
    BY <1>3, <1>a, <1>b DEF Applied
  <2>2. a.trim.val = cap /\ a.trim.ap = seq + 1 /\ a.fence = s.fence
    BY <2>1 DEF Streaming
  <2>3. in.n = 1 /\ in.kind # "fence"
    BY <1>3 DEF IsBatch
  <2>4. CASE in.kind = "terminal"
    <3>1. cap = MaxSeq /\ in.arg = MaxSeq
      BY <1>a, <2>4 DEF IsBatch
    <3> QED
      BY <1>1, <1>3, <1>b, <2>2, <2>3, <2>4, <3>1
  <2>5. CASE in.kind = "trim"
    <3>1. in.arg \in Nat /\ in.arg <= MaxSeq
      BY <1>1, <2>5 DEF IsBatch
    <3>2. in.arg \in Int /\ seq + 1 \in Int /\ cap = Min({in.arg, seq + 1})
      BY <1>a, <2>5, <3>1
    <3>3. cap \in {in.arg, seq + 1} /\ cap <= in.arg /\ cap <= seq + 1
      BY <3>2, MinMaxOfTwo
    <3>4. cap \in Nat /\ cap # 0 /\ cap <= MaxSeq
      BY <1>1, <1>3, <3>1, <3>3
    <3> QED
      BY <1>b, <2>2, <2>3, <2>5, <3>3, <3>4
  <2> QED
    BY <1>3, <2>4, <2>5
<1>4. CASE in.kind # "fence" /\ ~(in.kind \in {"trim", "terminal"} /\ s.trim.val < cap)
  <2>1. a = s
    BY <1>4, <1>a, <1>b DEF Applied
  <2>2. in.kind # "terminal"
    <3> SUFFICES ASSUME in.kind = "terminal" PROVE FALSE
      OBVIOUS
    <3>1. cap = MaxSeq
      BY <1>a DEF IsBatch
    <3> QED
      BY <1>1, <1>4, <3>1
  <2> QED
    BY <1>4, <1>b, <2>1, <2>2
<1> QED
  BY <1>2, <1>3, <1>4

\* What accepting a batch does.
NewState(in) == Applied(st, in, st.next)
NewWrite(in) == WriteOf(NewState(in), Len(reqs) + 1, st.next, in.n)

Accepted(p, b, in, w) ==
    /\ IsBatch(in)
    /\ \E r : Submitted(r) /\ r.p = p /\ r.b = b /\ r.saw = <<>>
    /\ w = NewWrite(in)
    /\ Writes' = Writes \cup {w} /\ In(w)' = in
    /\ w.req = Len(reqs) + 1 /\ reqs'[w.req].p = p /\ reqs'[w.req].b = b
    /\ w.start = st.next /\ st.next \in Nat
    /\ End(w) = st.next + in.n /\ End(w) \in Nat
    /\ st'.next = End(w) /\ st.next < End(w)
    /\ NewState(in) \in Streaming
    /\ st'.up /\ st'.fence = NewState(in).fence /\ st'.trim = NewState(in).trim
    /\ \A q \in Producers : q # p => sess'[q] = sess[q]
    /\ sess'[p].poisoned = sess[p].poisoned

LEMMA AcceptIs ==
    ASSUME Inv, NEW p \in Producers, NEW b \in 1..Batches(p), NEW in, in = script.of[p].in[b],
           Accept(p, b, in), st.up, UNCHANGED <<script, wal>>
    PROVE  \E w : Accepted(p, b, in, w)
<1>a. PICK s : s = NewState(in)
  OBVIOUS
<1>b. PICK w : w = NewWrite(in)
  OBVIOUS
<1>c. PICK lo, hi : lo = st.next /\ hi = st.next + in.n
  OBVIOUS
<1>d. PICK r : r = Request(p, b, lo, "pending", hi, <<>>)
  OBVIOUS
<1>1. Types /\ st \in Streaming /\ st.futs \in Seq(Fut) /\ Len(st.futs) \in Nat
      /\ sess \in [Producers -> Session] /\ reqs \in Seq(Message)
  BY FutTypes DEF Inv, Types
<1>2. in \in AllInputs /\ IsBatch(in) /\ in.n \in Nat /\ in.n > 0 /\ b \in Nat \ {0}
  BY <1>1, BatchOf DEF IsBatch
<1>3. lo \in Nat /\ hi \in Nat /\ lo < hi
  <2>1. st.next \in Nat
    BY FutTypes
  <2> QED
    BY <1>2, <1>c, <2>1
<1>4. s \in Streaming /\ s.futs = st.futs
  <2>1. Applied(st, in, lo) \in Streaming /\ Applied(st, in, lo).futs = st.futs
    BY <1>1, <1>2, <1>3, AppliedFacts
  <2> QED
    BY <1>a, <1>c, <2>1 DEF NewState
<1>5. w \in Entry /\ w.op = "batch" /\ w.req = Len(reqs) + 1 /\ w.start = lo /\ w.n = in.n
      /\ End(w) = hi
  <2>1. Len(reqs) + 1 \in Nat
    BY <1>1
  <2>2. w = WriteOf(s, Len(reqs) + 1, lo, in.n)
    BY <1>a, <1>b, <1>c DEF NewWrite
  <2>3. w \in Entry /\ w.op = "batch" /\ w.req = Len(reqs) + 1 /\ w.start = lo /\ w.n = in.n
    BY <1>2, <1>3, <1>4, <2>1, <2>2, WriteOfFacts
  <2> QED
    BY <1>c, <2>3 DEF End
<1>6. r \in Message /\ r.p = p /\ r.b = b /\ r.saw = <<>>
  <2> DEFINE none == <<>>
  <2>1. "pending" \in Replied /\ lo \in Nat \cup {-1} /\ none \in Seq(FenceState)
    BY <1>3 DEF Replied
  <2>2. r = Request(p, b, lo, "pending", hi, none)
    BY <1>d
  <2> HIDE DEF none
  <2>3. r \in Message /\ r.p = p /\ r.b = b /\ r.saw = none
    BY <1>2, <1>3, <2>1, <2>2, RequestIs
  <2> QED
    BY <2>3 DEF none
<1>7. /\ reqs' = Append(reqs, r)
      /\ sess' = [sess EXCEPT ![p].last = hi]
      /\ \E q : st' = [s EXCEPT !.next = hi,
                                !.futs = Append(s.futs, [at |-> 0, write |-> w]), !.queue = q]
  BY <1>a, <1>b, <1>c, <1>d DEF Accept, NewState, NewWrite
<1>8. Submitted(r)
  BY <1>6, <1>7, SubmittedIs
<1>9. PICK f : f = [at |-> 0, write |-> w]
  OBVIOUS
<1>10. f \in Fut /\ f.write = w
  BY <1>5, <1>9 DEF Fut
<1>11. st'.up /\ st'.next = hi /\ st'.fence = s.fence /\ st'.trim = s.trim
       /\ st'.futs = Append(st.futs, f)
  <2>1. PICK fs, q : fs = Append(st.futs, f) /\ st' = [s EXCEPT !.next = hi, !.futs = fs, !.queue = q]
    BY <1>4, <1>7, <1>9
  <2>2. st'.up /\ st'.next = hi /\ st'.fence = s.fence /\ st'.trim = s.trim /\ st'.futs = fs
    BY <1>4, <2>1 DEF Streaming
  <2> QED
    BY <2>1, <2>2
<1>12. Writes' = Writes \cup {w}
  <2>1. {st'.futs[k].write : k \in DOMAIN st'.futs}
        = {st.futs[k].write : k \in DOMAIN st.futs} \cup {w}
    <3>1. PICK n : n = Len(st.futs)
      OBVIOUS
    <3>2. /\ DOMAIN st.futs = 1..n /\ DOMAIN st'.futs = 1..n + 1 /\ n \in Nat
          /\ \A k \in 1..n : st'.futs[k] = st.futs[k]
          /\ st'.futs[n + 1] = f
      BY <1>1, <1>10, <1>11, <3>1
    <3>3. \A k : k \in 1..n + 1 <=> k \in 1..n \/ k = n + 1
      BY <3>2
    <3> QED
      BY <1>10, <3>2, <3>3
  <2>2. {wal'[i] : i \in Batched'} = {wal[i] : i \in Batched}
    BY DEF Batched
  <2> QED
    BY <1>11, <2>1, <2>2 DEF Writes
<1>13. In(w)' = in
  <2>1. reqs'[Len(reqs) + 1] = r
    BY <1>8 DEF Submitted
  <2> QED
    BY <1>5, <1>6, <2>1 DEF In, InputOf
<1>14. (\A q \in Producers : q # p => sess'[q] = sess[q]) /\ sess'[p].poisoned = sess[p].poisoned
  BY <1>1, <1>7 DEF Session
<1>15. \E m : Submitted(m) /\ m.p = p /\ m.b = b /\ m.saw = <<>>
  BY <1>6, <1>8
<1>16. reqs'[w.req].p = p /\ reqs'[w.req].b = b
  BY <1>5, <1>6, <1>8 DEF Submitted
<1>17. /\ w = NewWrite(in) /\ w.start = st.next /\ st.next \in Nat
       /\ End(w) = st.next + in.n /\ End(w) \in Nat /\ st'.next = End(w) /\ st.next < End(w)
  BY <1>3, <1>5, <1>11, <1>b, <1>c
<1>18. /\ NewState(in) \in Streaming
       /\ st'.up /\ st'.fence = NewState(in).fence /\ st'.trim = NewState(in).trim
  BY <1>4, <1>11, <1>a
<1>19. Accepted(p, b, in, w)
  BY <1>2, <1>5, <1>12, <1>13, <1>14, <1>15, <1>16, <1>17, <1>18 DEF Accepted
<1> QED
  BY <1>19

\* An accepted batch carries its own command and no other.
LEMMA AcceptedCommands ==
    ASSUME Inv, Line, Current, st.up, st.trim.val # MaxSeq,
           NEW p, NEW b, NEW in, NEW w, Accepted(p, b, in, w)
    PROVE  /\ w.fence = IF in.kind = "fence" THEN <<in.arg>> ELSE <<>>
           /\ in.kind = "terminal" => w.trim = <<MaxSeq>> /\ st'.trim.val = MaxSeq
           /\ w.trim # <<>> =>
                /\ in.kind \in {"trim", "terminal"}
                /\ w.trim[1] <= in.arg /\ w.trim[1] <= MaxSeq
                /\ in.kind = "trim" => w.trim[1] <= End(w)
           /\ st'.fence = IF in.kind = "fence" THEN [val |-> in.arg, ap |-> End(w)] ELSE st.fence
           /\ st'.trim.ap <= End(w) /\ st'.trim.val <= MaxSeq
<1>a. PICK s, lo, hi : s = NewState(in) /\ lo = st.next /\ hi = End(w)
  OBVIOUS
<1>1. /\ st \in Streaming /\ IsBatch(in) /\ lo \in Nat /\ hi \in Nat /\ lo < hi /\ hi = lo + in.n
      /\ s = Applied(st, in, lo) /\ s \in Streaming
      /\ st'.fence = s.fence /\ st'.trim = s.trim
  BY <1>a, FutTypes DEF Accepted, NewState
<1>2. /\ w.fence = IF AppliedIn(s.fence, lo, hi) THEN <<s.fence.val>> ELSE <<>>
      /\ w.trim = IF AppliedIn(s.trim, lo, hi) /\ s.trim.val # 0 THEN <<s.trim.val>> ELSE <<>>
  BY <1>1, <1>a DEF Accepted, NewWrite, WriteOf
<1>3. /\ st.fence.ap \in Nat /\ st.trim.ap \in Nat /\ st.trim.val \in Nat
      /\ st.fence.ap <= lo /\ st.trim.ap <= lo /\ st.trim.val <= MaxSeq
      /\ s.fence \in FenceState /\ s.trim \in [val : Nat, ap : Nat]
  BY <1>1, <1>a DEF Current, Streaming, FenceState
<1>4. /\ in.kind = "fence" => s.fence = [val |-> in.arg, ap |-> lo + 1] /\ in.n = 1
      /\ in.kind # "fence" => s.fence = st.fence
      /\ \/ s.trim = st.trim /\ in.kind # "terminal"
         \/ /\ in.kind \in {"trim", "terminal"} /\ in.n = 1
            /\ s.trim.ap = lo + 1 /\ s.trim.val \in Nat /\ s.trim.val # 0
            /\ s.trim.val <= in.arg /\ s.trim.val <= MaxSeq
            /\ in.kind = "trim" => s.trim.val <= lo + 1
            /\ in.kind = "terminal" => s.trim.val = MaxSeq
  BY <1>1, <1>3, AppliedCommands
<1>5. w.fence = (IF in.kind = "fence" THEN <<in.arg>> ELSE <<>>)
      /\ st'.fence = IF in.kind = "fence" THEN [val |-> in.arg, ap |-> End(w)] ELSE st.fence
  <2>1. CASE in.kind = "fence"
    <3>1. s.fence.val = in.arg /\ s.fence.ap = lo + 1 /\ hi = lo + 1
      BY <1>1, <1>4, <2>1
    <3>2. AppliedIn(s.fence, lo, hi)
      BY <1>1, <3>1 DEF AppliedIn
    <3> QED
      BY <1>1, <1>2, <1>4, <1>a, <2>1, <3>1, <3>2
  <2>2. CASE in.kind # "fence"
    <3>1. ~AppliedIn(s.fence, lo, hi)
      BY <1>1, <1>3, <1>4, <2>2 DEF AppliedIn
    <3> QED
      BY <1>1, <1>2, <1>4, <2>2, <3>1
  <2> QED
    BY <2>1, <2>2
<1>6. CASE s.trim = st.trim /\ in.kind # "terminal"
  <2>1. ~AppliedIn(s.trim, lo, hi)
    BY <1>1, <1>3, <1>6 DEF AppliedIn
  <2>2. w.trim = <<>>
    BY <1>2, <2>1
  <2> QED
    BY <1>1, <1>3, <1>5, <1>6, <1>a, <2>2
<1>7. CASE /\ in.kind \in {"trim", "terminal"} /\ in.n = 1
           /\ s.trim.ap = lo + 1 /\ s.trim.val \in Nat /\ s.trim.val # 0
           /\ s.trim.val <= in.arg /\ s.trim.val <= MaxSeq
           /\ in.kind = "trim" => s.trim.val <= lo + 1
           /\ in.kind = "terminal" => s.trim.val = MaxSeq
  <2>1. AppliedIn(s.trim, lo, hi) /\ hi = lo + 1
    BY <1>1, <1>7 DEF AppliedIn
  <2>2. w.trim = <<s.trim.val>>
    BY <1>2, <1>7, <2>1
  <2>3. w.trim[1] = s.trim.val
    BY <2>2
  <2> QED
    BY <1>1, <1>5, <1>7, <1>a, <2>1, <2>2, <2>3
<1> QED
  BY <1>4, <1>5, <1>6, <1>7

\* The batches before it keep what they have.
LEMMA OldContents ==
    ASSUME Inv, Line, Contents, Current, st.up, st.trim.val # MaxSeq,
           NEW p, NEW b, NEW in, NEW w, Accepted(p, b, in, w),
           NEW v \in Writes
    PROVE  /\ CoveredTo(v.start)'
           /\ Commands(v)'
           /\ In(v)'.tok # Unset => InForce(In(v).tok, v.start)'
           /\ In(v)'.match # -1 => In(v)'.match = v.start
           /\ ~IsTerminal(v)'
           /\ reqs'[v.req].b > 1 => Preceded(v)'
<1>1. SameRequests /\ Writes' = Writes \cup {w} /\ End(w) \in Nat /\ st.next \in Nat
      /\ st.next < End(w)
  BY DEF Accepted, Submitted
<1>2. v.start \in Nat /\ End(v) \in Nat /\ v.start < End(v) /\ End(v) <= st.next
  BY DEF Line
<1>3. /\ CoveredTo(v.start) /\ Commands(v)
      /\ In(v).tok # Unset => InForce(In(v).tok, v.start)
      /\ In(v).match # -1 => In(v).match = v.start
      /\ reqs[v.req].b > 1 => Preceded(v)
  BY DEF Contents
<1>4. ~IsTerminal(v)
  BY DEF Current
<1>5. In(v)' = In(v) /\ IsTerminal(v)' = IsTerminal(v) /\ Commands(v)' = Commands(v)
      /\ reqs'[v.req].p = reqs[v.req].p /\ reqs'[v.req].b = reqs[v.req].b
  BY <1>1, SameInputs
<1>6. CoveredTo(v.start)'
  BY <1>1, <1>3 DEF CoveredTo, End
<1>7. ASSUME In(v).tok # Unset
      PROVE  InForce(In(v).tok, v.start)'
  <2>1. PICK tok : tok = In(v).tok /\ InForce(tok, v.start)
    BY <1>3, <1>7
  <2>2. v.start < End(w)
    BY <1>1, <1>2
  <2>3. \A u \in Writes' : u \in Writes \/ (End(u) \in Nat /\ v.start < End(u))
    BY <1>1, <2>2
  <2>4. InForce(tok, v.start)'
    BY <1>1, <1>2, <2>1, <2>3, ForceGrows
  <2>5. In(v)'.tok = tok
    BY <1>5, <2>1
  <2> QED
    BY <2>4, <2>5 DEF InForce
<1>8. ASSUME reqs[v.req].b > 1
      PROVE  Preceded(v)'
  <2>1. PICK u \in Writes : End(u) <= v.start /\ reqs[u.req].p = reqs[v.req].p
                            /\ reqs[u.req].b = reqs[v.req].b - 1
    BY <1>3, <1>8 DEF Preceded
  <2>2. u \in Writes' /\ reqs'[u.req].p = reqs[u.req].p /\ reqs'[u.req].b = reqs[u.req].b
    BY <1>1, <2>1, SameInputs
  <2> QED
    BY <1>5, <2>1, <2>2 DEF Preceded, End
<1> QED
  BY <1>3, <1>4, <1>5, <1>6, <1>7, <1>8

\* What a session in good order sent before its next batch is in the log or
\* on its way there.
LEMMA Predecessor ==
    ASSUME Inv, Line, Following, NEW p \in Producers, NEW b \in Nat, IsNext(p, b), b > 1,
           cl[p].pc = "open", Connected(cl[p]), ~sess[p].poisoned, st.trim.val # MaxSeq
    PROVE  \E v \in Writes : reqs[v.req].p = p /\ reqs[v.req].b = b - 1
<1>a. PICK c, a, t : c = cl[p] /\ a = Len(c.acks) /\ t = Len(c.sent)
  OBVIOUS
<1>1. /\ a \in Nat /\ t \in Nat /\ DOMAIN c.acks = 1..a /\ DOMAIN c.sent = 1..t
      /\ b = a + t + 1
  <2>1. c \in Client
    BY <1>a DEF Inv, Types
  <2>2. c.acks \in Seq(Nat) /\ c.sent \in Seq(Nat)
    BY <2>1 DEF Client
  <2> QED
    BY <1>a, <2>2 DEF IsNext
<1>2. Knows(p, c) /\ Carried(p, c)
  BY <1>a DEF Following, Knows, Carried
<1>3. CASE t # 0
  <2>1. t \in DOMAIN c.sent
    BY <1>1, <1>3
  <2>2. PICK v \in Writes : v.req = c.sent[t]
    BY <1>2, <1>a, <2>1 DEF Carried
  <2>3. reqs[v.req].p = p /\ reqs[v.req].b = a + t
    BY <1>2, <1>a, <2>1, <2>2 DEF Knows
  <2> QED
    BY <1>1, <2>2, <2>3
<1>4. CASE t = 0
  <2>1. a \in DOMAIN c.acks /\ a = b - 1
    BY <1>1, <1>4
  <2>2. reqs[c.acks[a]].p = p /\ reqs[c.acks[a]].b = a
    BY <1>2, <2>1 DEF Knows
  <2>3. Placed(c.acks[a])
    BY <1>a, <2>1, RequestsOf DEF Inv, Truthful
  <2>4. PICK i \in Batched : wal[i].req = c.acks[a]
    BY <2>3 DEF Placed
  <2>5. PICK v : v = wal[i]
    OBVIOUS
  <2>6. v \in Writes /\ reqs[v.req].p = p /\ reqs[v.req].b = b - 1
    BY <2>1, <2>2, <2>4, <2>5 DEF Line
  <2> QED
    BY <2>6
<1> QED
  BY <1>3, <1>4

\* An accepted batch takes effect where its conditions hold.
LEMMA NewContents ==
    ASSUME Inv, Line, Contents, Current, Following, st.up, st.trim.val # MaxSeq,
           NEW p \in Producers, NEW b \in Nat, NEW in, NEW w, Accepted(p, b, in, w),
           IsNext(p, b), cl[p].pc = "open", Connected(cl[p]), ~sess[p].poisoned,
           ~TokenMismatch(in), ~SeqMismatch(in)
    PROVE  /\ CoveredTo(w.start)'
           /\ Commands(w)'
           /\ In(w)'.tok # Unset => InForce(In(w).tok, w.start)'
           /\ In(w)'.match # -1 => In(w)'.match = w.start
           /\ IsTerminal(w)' => \A v \in Writes' : End(v) <= End(w)
           /\ reqs'[w.req].b > 1 => Preceded(w)'
<1>1. /\ SameRequests /\ Writes' = Writes \cup {w} /\ In(w)' = in
      /\ w.start = st.next /\ st.next \in Nat /\ End(w) \in Nat /\ st.next < End(w)
      /\ reqs'[w.req].p = p /\ reqs'[w.req].b = b
  BY DEF Accepted, Submitted
<1>2. \A v \in Writes : End(v) \in Nat /\ End(v) <= st.next
  BY DEF Line
<1>3. CoveredTo(st.next) /\ InForce(st.fence.val, st.fence.ap) /\ st.fence.ap <= st.next
      /\ (\A v \in Writes : IsFence(v) => End(v) <= st.fence.ap) /\ st.fence.ap \in Nat
  <2>1. st.fence.ap \in Nat
    BY FutTypes DEF Streaming, FenceState
  <2> QED
    BY <2>1 DEF Current
<1>4. PICK x : x = w.start
  OBVIOUS
<1>5. CoveredTo(w.start)'
  <2>1. CoveredTo(x)'
    BY <1>1, <1>3, <1>4 DEF CoveredTo, End
  <2> QED
    BY <1>4, <2>1 DEF CoveredTo
<1>6. Commands(w)'
  <2>1. /\ IsFence(w)' <=> in.kind = "fence"
        /\ IsTerminal(w)' <=> in.kind = "terminal"
    BY <1>1 DEF IsFence, IsTerminal, In
  <2>2. /\ w.fence = IF in.kind = "fence" THEN <<in.arg>> ELSE <<>>
        /\ in.kind = "terminal" => w.trim = <<MaxSeq>>
        /\ w.trim # <<>> =>
              /\ in.kind \in {"trim", "terminal"}
              /\ w.trim[1] <= in.arg /\ w.trim[1] <= MaxSeq
              /\ in.kind = "trim" => w.trim[1] <= End(w)
    BY AcceptedCommands
  <2> QED
    BY <1>1, <2>1, <2>2 DEF Commands, End
<1>7. ASSUME in.tok # Unset
      PROVE  InForce(In(w).tok, w.start)'
  <2>1. PICK tok : tok = in.tok
    OBVIOUS
  <2>2. tok = st.fence.val
    BY <1>7, <2>1 DEF TokenMismatch
  <2>3. InForce(tok, st.fence.ap)
    BY <1>3, <2>2
  <2>4. InForce(tok, x)
    BY <1>1, <1>3, <1>4, <2>3, ForceReaches
  <2>5. \A u \in Writes' : u \in Writes \/ (End(u) \in Nat /\ x < End(u))
    BY <1>1, <1>4
  <2>6. InForce(tok, x)'
    BY <1>1, <1>4, <2>4, <2>5, ForceGrows
  <2>7. In(w)'.tok = tok
    BY <1>1, <2>1
  <2> QED
    BY <1>4, <2>6, <2>7 DEF InForce
<1>8. in.match # -1 => in.match = w.start
  BY <1>1 DEF SeqMismatch
<1>9. \A v \in Writes' : End(v) <= End(w)
  <2> SUFFICES ASSUME NEW v \in Writes, v # w
               PROVE  End(v) <= End(w)
    BY <1>1
  <2> QED
    BY <1>1, <1>2
<1>10. ASSUME b > 1
       PROVE  Preceded(w)'
  <2>1. PICK v \in Writes : reqs[v.req].p = p /\ reqs[v.req].b = b - 1
    BY <1>10, Predecessor
  <2>2. v \in Writes' /\ reqs'[v.req].p = p /\ reqs'[v.req].b = b - 1 /\ End(v) <= w.start
    BY <1>1, <1>2, <2>1, SameInputs
  <2> QED
    BY <1>1, <2>2 DEF Preceded, End
<1> QED
  BY <1>1, <1>5, <1>6, <1>7, <1>8, <1>9, <1>10

LEMMA AcceptContents ==
    ASSUME Inv, Line, Contents, Current, Following, st.up, st.trim.val # MaxSeq,
           NEW p \in Producers, NEW b \in Nat, NEW in, NEW w, Accepted(p, b, in, w),
           IsNext(p, b), cl[p].pc = "open", Connected(cl[p]), ~sess[p].poisoned,
           ~TokenMismatch(in), ~SeqMismatch(in)
    PROVE  Contents'
<1> SUFFICES ASSUME NEW v \in Writes'
             PROVE  /\ CoveredTo(v.start)'
                    /\ Commands(v)'
                    /\ In(v)'.tok # Unset => InForce(In(v).tok, v.start)'
                    /\ In(v)'.match # -1 => In(v)'.match = v.start
                    /\ IsTerminal(v)' => \A u \in Writes' : End(u) <= End(v)
                    /\ reqs'[v.req].b > 1 => Preceded(v)'
  BY DEF Contents, End
<1>1. Writes' = Writes \cup {w}
  BY DEF Accepted
<1>2. CASE v \in Writes
  BY <1>2, OldContents
<1>3. CASE v = w
  <2>1. /\ CoveredTo(w.start)'
        /\ Commands(w)'
        /\ In(w)'.tok # Unset => InForce(In(w).tok, w.start)'
        /\ In(w)'.match # -1 => In(w)'.match = w.start
        /\ IsTerminal(w)' => \A u \in Writes' : End(u) <= End(w)
        /\ reqs'[w.req].b > 1 => Preceded(w)'
    BY NewContents
  <2> QED
    BY <1>3, <2>1 DEF CoveredTo, Commands, In, InForce, IsTerminal, IsFence, Preceded, InputOf, End
<1> QED
  BY <1>1, <1>2, <1>3

LEMMA AcceptCurrent ==
    ASSUME Inv, Line, Current, st.up, st.trim.val # MaxSeq,
           NEW p, NEW b, NEW in, NEW w, Accepted(p, b, in, w)
    PROVE  Current'
<1>1. /\ SameRequests /\ Writes' = Writes \cup {w} /\ In(w)' = in /\ st'.next = End(w)
      /\ w.start = st.next /\ st.next \in Nat /\ End(w) \in Nat /\ st.next < End(w)
  BY DEF Accepted, Submitted
<1>2. \A v \in Writes : End(v) \in Nat /\ End(v) <= st.next /\ v.start \in Nat
  BY DEF Line
<1>3. CoveredTo(st.next) /\ InForce(st.fence.val, st.fence.ap) /\ st.fence.ap <= st.next
      /\ (\A v \in Writes : IsFence(v) => End(v) <= st.fence.ap) /\ st.fence.ap \in Nat
      /\ \A v \in Writes : ~IsTerminal(v)
  <2>1. st.fence.ap \in Nat
    BY FutTypes DEF Streaming, FenceState
  <2> QED
    BY <2>1 DEF Current
<1>4. /\ in.kind = "terminal" => st'.trim.val = MaxSeq
      /\ st'.fence = IF in.kind = "fence" THEN [val |-> in.arg, ap |-> End(w)] ELSE st.fence
      /\ st'.trim.ap <= End(w) /\ st'.trim.val <= MaxSeq
  BY AcceptedCommands
<1>5. \A v \in Writes : IsFence(v)' = IsFence(v) /\ IsTerminal(v)' = IsTerminal(v)
  BY <1>1, SameInputs
<1>6. /\ IsFence(w)' <=> in.kind = "fence"
      /\ IsTerminal(w)' <=> in.kind = "terminal"
  BY <1>1 DEF IsFence, IsTerminal, In
<1>7. PICK x, hi : x = st.next /\ hi = End(w)
  OBVIOUS
<1>8. CoveredTo(hi)'
  <2> SUFFICES ASSUME NEW s \in 0..hi - 1
               PROVE  \E v \in Writes' : v.start <= s /\ s < End(v)
    BY DEF CoveredTo, End
  <2>1. CASE s < x
    <3>1. PICK v \in Writes : v.start <= s /\ s < End(v)
      BY <1>1, <1>3, <1>7, <2>1 DEF CoveredTo
    <3> QED
      BY <1>1, <3>1
  <2>2. CASE x <= s
    BY <1>1, <1>7, <2>2
  <2> QED
    BY <1>1, <1>7, <2>1, <2>2
<1>9. CoveredTo(st.next)'
  BY <1>1, <1>7, <1>8 DEF CoveredTo
<1>10. CASE in.kind = "fence"
  <2>1. st'.fence.val = in.arg /\ st'.fence.ap = hi
    BY <1>4, <1>7, <1>10
  <2>2. \A v \in Writes' : End(v)' <= hi
    <3> SUFFICES ASSUME NEW v \in Writes'
                 PROVE  End(v)' <= hi
      OBVIOUS
    <3>1. End(v)' = End(v)
      BY DEF End
    <3> QED
      BY <1>1, <1>2, <1>7, <3>1
  <2>3. InForce(st.fence.val, st.fence.ap)'
    <3>1. w \in Writes' /\ IsFence(w)' /\ End(w)' = hi /\ st'.fence.val = In(w)'.arg
      BY <1>1, <1>6, <1>7, <1>10, <2>1 DEF End
    <3>2. hi <= hi
      BY <1>1, <1>7
    <3> QED
      BY <2>1, <2>2, <3>1, <3>2 DEF InForce
  <2>4. \A v \in Writes' : IsTerminal(v)' => st'.trim.val = MaxSeq
    BY <1>1, <1>3, <1>4, <1>5, <1>6
  <2>5. hi <= hi
    BY <1>1, <1>7
  <2> QED
    BY <1>1, <1>4, <1>7, <1>9, <2>1, <2>2, <2>3, <2>4, <2>5 DEF Current
<1>11. CASE in.kind # "fence"
  <2>1. st'.fence = st.fence
    BY <1>4, <1>11
  <2>2. PICK tok, y : tok = st.fence.val /\ y = st.fence.ap
    OBVIOUS
  <2>3. InForce(tok, y) /\ y \in Nat /\ y <= st.next
    BY <1>3, <2>2
  <2>4. \A u \in Writes' : u \in Writes \/ (End(u) \in Nat /\ y < End(u))
    BY <1>1, <2>3
  <2>5. InForce(tok, y)'
    BY <1>1, <2>3, <2>4, ForceGrows
  <2>6. InForce(st.fence.val, st.fence.ap)'
    BY <2>1, <2>2, <2>5 DEF InForce
  <2>7. \A v \in Writes' : IsFence(v)' => End(v) <= st'.fence.ap
    BY <1>1, <1>3, <1>5, <1>6, <1>11, <2>1
  <2>8. \A v \in Writes' : IsTerminal(v)' => st'.trim.val = MaxSeq
    BY <1>1, <1>3, <1>4, <1>5, <1>6
  <2>9. st'.fence.ap <= st'.next
    BY <1>1, <2>1, <2>2, <2>3
  <2> QED
    BY <1>1, <1>4, <1>9, <2>6, <2>7, <2>8, <2>9 DEF Current, End
<1> QED
  BY <1>10, <1>11

LEMMA AcceptWhole ==
    ASSUME Inv, Inv', Whole, NEW p \in Producers, NEW b \in 1..Batches(p),
           Accept(p, b, script.of[p].in[b]), IsNext(p, b),
           st.up, UNCHANGED <<script, wal, flushed, gone, spawned, bg>>,
           \A q \in Producers : q # p => cl'[q] = cl[q],
           cl'[p].acks = cl[p].acks, cl'[p].id = cl[p].id, cl'[p].pc = cl[p].pc,
           cl'[p].sent = Append(cl[p].sent, Len(reqs) + 1),
           cl[p].pc = "open", Connected(cl[p]), st.trim.val # MaxSeq, ~sess[p].poisoned,
           ~TokenMismatch(script.of[p].in[b]), ~SeqMismatch(script.of[p].in[b])
    PROVE  Whole'
<1>a. PICK in : in = script.of[p].in[b]
  OBVIOUS
<1>1. Line /\ Contents /\ Current /\ Refusals /\ Following /\ b \in Nat
  BY LineHolds, BatchOf DEF Whole, Inv
<1>2. PICK w : Accepted(p, b, in, w)
  BY <1>a, AcceptIs
<1>3. ~TokenMismatch(in) /\ ~SeqMismatch(in)
  BY <1>a
<1>4. PICK r : Submitted(r) /\ r.p = p /\ r.b = b /\ r.saw = <<>>
  BY <1>2 DEF Accepted
<1>5. /\ Writes' = Writes \cup {w} /\ w.req = Len(reqs) + 1
      /\ st.next \in Nat /\ End(w) \in Nat /\ st'.next = End(w) /\ st.next < End(w)
      /\ \A q \in Producers : q # p => sess'[q] = sess[q]
      /\ sess'[p].poisoned = sess[p].poisoned
  BY <1>2 DEF Accepted
<1>6. Contents'
  BY <1>1, <1>2, <1>3, AcceptContents
<1>7. Current'
  BY <1>1, <1>2, AcceptCurrent
<1>8. Refusals'
  <2>1. \A v \in Writes' : v \in Writes \/ (End(v) \in Nat /\ st.next < End(v))
    BY <1>5
  <2>2. Writes \subseteq Writes' /\ st'.next \in Nat /\ st.next <= st'.next
    BY <1>5
  <2> QED
    BY <1>1, <1>4, <2>1, <2>2, SentRefusals
<1>9. Following'
  <2>1. r.b = Len(cl[p].acks) + Len(cl[p].sent) + 1
    BY <1>4 DEF IsNext
  <2>2. Writes \subseteq Writes' /\ \E v \in Writes' : v.req = Len(reqs) + 1
    BY <1>5
  <2> QED
    BY <1>1, <1>4, <1>5, <2>1, <2>2, SentFollowing
<1> QED
  BY <1>4, <1>6, <1>7, <1>8, <1>9, SentWhole DEF Submitted

LEMMA SendWhole == \A p \in Producers : Inv /\ Inv' /\ Whole /\ Send(p) => Whole'
<1> SUFFICES ASSUME NEW p \in Producers, Inv, Inv', Whole, Send(p)
             PROVE  Whole'
  OBVIOUS
<1>1. PICK b \in 1..Batches(p) :
            /\ IsNext(p, b)
            /\ st.up /\ cl[p].pc = "open" /\ Connected(cl[p])
            /\ UNCHANGED <<script, wal, flushed, gone, spawned, bg>>
            /\ \A q \in Producers : q # p => cl'[q] = cl[q]
            /\ cl'[p].acks = cl[p].acks /\ cl'[p].id = cl[p].id /\ cl'[p].pc = cl[p].pc
            /\ cl'[p].sent = Append(cl[p].sent, Len(reqs) + 1)
            /\ \/ /\ st.trim.val = MaxSeq \/ sess[p].poisoned
                  /\ Drop(p, b)
               \/ /\ st.trim.val # MaxSeq /\ ~sess[p].poisoned
                  /\ Refuse(p, b, script.of[p].in[b])
               \/ /\ st.trim.val # MaxSeq /\ ~sess[p].poisoned
                  /\ ~TokenMismatch(script.of[p].in[b]) /\ ~SeqMismatch(script.of[p].in[b])
                  /\ Accept(p, b, script.of[p].in[b])
  BY SendIs
<1>2. CASE (st.trim.val = MaxSeq \/ sess[p].poisoned) /\ Drop(p, b)
  BY <1>1, <1>2, DropWhole
<1>3. CASE Refuse(p, b, script.of[p].in[b])
  BY <1>1, <1>3, RefuseWhole
<1>4. CASE /\ st.trim.val # MaxSeq /\ ~sess[p].poisoned
           /\ ~TokenMismatch(script.of[p].in[b]) /\ ~SeqMismatch(script.of[p].in[b])
           /\ Accept(p, b, script.of[p].in[b])
  BY <1>1, <1>4, AcceptWhole
<1> QED
  BY <1>1, <1>2, <1>3, <1>4

-----------------------------------------------------------------------------
(* Every step *)

LEMMA InitWhole == Init => Whole
<1> SUFFICES ASSUME Init PROVE Whole
  OBVIOUS
<1>1. /\ wal = <<>> /\ st = Down /\ reqs = <<>> /\ spawned = 0 /\ gone = {}
      /\ bg = [pc |-> "idle", point |-> 0, at |-> 0]
      /\ cl = [p \in Producers |-> NewProducer(p)]
  BY DEF Init, StreamInit
<1>2. 1..Len(wal) = {} /\ DOMAIN reqs = {} /\ ~st.up
  BY <1>1 DEF Down
<1>3. Writes = {} /\ Batched = {}
  BY <1>2 DEF Writes, Batched
<1>4. Following
  <2> SUFFICES ASSUME NEW p \in Producers
               PROVE  Knows(p, cl[p]) /\ Carried(p, cl[p])
    BY FollowingIs
  <2>1. PICK pc : pc = IF Batches(p) = 0 THEN "done" ELSE "idle"
    OBVIOUS
  <2>2. cl[p] = NewProducer(p)
    BY <1>1
  <2>3. cl[p].id = 0 /\ DOMAIN cl[p].acks = {} /\ DOMAIN cl[p].sent = {}
    BY <2>2 DEF NewProducer
  <2> QED
    BY <1>1, <2>3 DEF Knows, Carried
<1> QED
  BY <1>1, <1>2, <1>3, <1>4
  DEF Whole, Contents, Current, Marked, Refusals, Trimming, Trimmed

LEMMA StepWhole == Inv /\ Inv' /\ Whole /\ [Next]_vars => Whole'
<1> SUFFICES ASSUME Inv, Inv', Whole, [Next]_vars
             PROVE  Whole'
  OBVIOUS
<1>1. CASE StreamStep /\ UNCHANGED <<cl, rd>>
  BY <1>1, StartWhole, DormancyWhole, PollWriteWhole, FlushWhole, CompleteWriteWhole,
     FailWriteWhole, CrashWhole, RestartWhole, ListTrimWhole, DeleteRecordsWhole,
     FinalizeTrimWhole DEF StreamStep
<1>2. ASSUME NEW p \in Producers, ProducerStep(p)
      PROVE  Whole'
  BY <1>2, ConnectWhole, RefusedWhole, SendWhole, AckWhole, SessionErrorWhole, DisconnectWhole
  DEF ProducerStep
<1>3. CASE ReaderStep \/ UNCHANGED vars
  <2>1. UNCHANGED <<script, wal, flushed, gone, st, spawned, reqs, sess, cl, bg>>
    BY <1>3 DEF ReaderStep, OpenRead, CatchUp, Follow, Receive, Lag, ReadError, streamVars, dbVars,
                vars
  <2> QED
    BY <2>1, StillWhole
<1> QED
  BY <1>1, <1>2, <1>3 DEF Next

LEMMA ContentsInv ==
    ASSUME ~StallPastDormancy
    PROVE  Spec => [](Inv /\ Whole)
<1>1. Init => Inv /\ Whole
  BY InitInv, InitWhole
<1>2. Inv /\ Whole /\ [Next]_vars => (Inv /\ Whole)'
  BY StepInv, StepWhole
<1> QED
  BY <1>1, <1>2, PTL DEF Spec

-----------------------------------------------------------------------------
(* The theorems *)

\* The durable records are those of the durable writes.
LEMMA DurableRecords ==
    ASSUME Inv, NEW r
    PROVE  /\ r \in Durable <=>
                \E i \in Batched : /\ i <= flushed
                                   /\ \E j \in 1..wal[i].n :
                                        r = [seq |-> wal[i].start + j - 1, req |-> wal[i].req]
           /\ r \in Durable =>
                \E w \in Writes : /\ r.req = w.req /\ w.start <= r.seq /\ r.seq < End(w)
                                  /\ End(w) <= TailAt(flushed) /\ r.seq \in Nat
                                  /\ r = [seq |-> r.seq, req |-> w.req]
<1>1. Types /\ Laid /\ Line /\ Len(wal) \in Nat /\ flushed \in 0..Len(wal) /\ flushed \in Nat
  BY LineHolds DEF Inv, Types
<1>2. ASSUME NEW i \in 1..flushed, NEW j \in 1..wal[i].n
      PROVE  i \in Batched
  <2>1. i \in 1..Len(wal)
    BY <1>1
  <2> QED
    BY <1>1, <1>2, <2>1 DEF Laid
<1>3. r \in Durable <=>
        \E i \in Batched : /\ i <= flushed
                           /\ \E j \in 1..wal[i].n :
                                r = [seq |-> wal[i].start + j - 1, req |-> wal[i].req]
  <2>1. r \in Durable <=>
          \E i \in 1..flushed : \E j \in 1..wal[i].n :
                r = [seq |-> wal[i].start + j - 1, req |-> wal[i].req]
    BY DEF Durable, RecordsAt
  <2>2. \A i \in Batched : i <= flushed => i \in 1..flushed
    BY <1>1 DEF Batched
  <2>3. \A i \in 1..flushed : i <= flushed
    BY <1>1
  <2> QED
    BY <1>2, <2>1, <2>2, <2>3
<1>4. ASSUME NEW i \in Batched, i <= flushed, NEW j \in 1..wal[i].n,
             r = [seq |-> wal[i].start + j - 1, req |-> wal[i].req]
      PROVE  \E w \in Writes : /\ r.req = w.req /\ w.start <= r.seq /\ r.seq < End(w)
                               /\ End(w) <= TailAt(flushed) /\ r.seq \in Nat
                               /\ r = [seq |-> r.seq, req |-> w.req]
  <2>1. PICK w : w = wal[i]
    OBVIOUS
  <2>2. /\ w \in Writes /\ w.start \in Nat /\ w.n \in Nat /\ End(w) = w.start + w.n
        /\ End(w) <= TailAt(flushed)
    BY <1>1, <1>4, <2>1 DEF Line
  <2>3. r.seq = w.start + j - 1 /\ r.req = w.req /\ r = [seq |-> r.seq, req |-> w.req]
    BY <1>4, <2>1
  <2>4. j \in Nat /\ 1 <= j /\ j <= w.n
    BY <2>1, <2>2
  <2> QED
    BY <2>2, <2>3, <2>4
<1> QED
  BY <1>3, <1>4

\* The record of a durable command.
LEMMA CommandRecord ==
    ASSUME Inv, NEW w \in Writes, End(w) <= TailAt(flushed), In(w).kind # "data"
    PROVE  [seq |-> w.start, req |-> w.req] \in Durable /\ End(w) = w.start + 1
<1>1. /\ Line /\ w.start \in Nat /\ In(w).n = w.n /\ IsBatch(In(w)) /\ End(w) = w.start + w.n
  BY LineHolds DEF Line
<1>2. w.n = 1
  BY <1>1 DEF IsBatch
<1>3. PICK i \in Batched : i <= flushed /\ w = wal[i]
  BY <1>1 DEF Line
<1>4. 1 \in 1..wal[i].n /\ wal[i].start + 1 - 1 = w.start
  BY <1>1, <1>2, <1>3
<1>5. [seq |-> w.start, req |-> w.req] = [seq |-> wal[i].start + 1 - 1, req |-> wal[i].req]
  BY <1>3, <1>4
<1> QED
  BY <1>1, <1>2, <1>3, <1>4, <1>5, DurableRecords

\* The trim task (bgtasks/stream_trim.rs) deletes no record that a durable trim
\* command at or behind it does not name: a command's trim point is cut at its
\* own position (streamer.rs, apply_command), so that it reaches no later record.
THEOREM TrimmedOnlyIfAskedCorrect ==
    ASSUME ~StallPastDormancy
    PROVE  Spec => []TrimmedOnlyIfAsked
<1>1. ASSUME Inv, Trimmed, NEW s \in gone
      PROVE  \E r \in Durable : /\ InputOf(r.req).kind \in {"trim", "terminal"}
                                /\ s <= r.seq /\ s < InputOf(r.req).arg
  <2>1. PICK i \in Batched :
          /\ i <= flushed /\ In(wal[i]).kind \in {"trim", "terminal"}
          /\ s < End(wal[i]) /\ s < In(wal[i]).arg
    BY <1>1 DEF Trimmed
  <2>2. PICK w : w = wal[i]
    OBVIOUS
  <2>3. w \in Writes /\ w.start \in Nat /\ End(w) <= TailAt(flushed)
    BY <1>1, <2>1, <2>2, LineHolds DEF Line
  <2>4. PICK r : r = [seq |-> w.start, req |-> w.req]
    OBVIOUS
  <2>5. r \in Durable /\ End(w) = w.start + 1
    BY <1>1, <2>1, <2>2, <2>3, <2>4, CommandRecord
  <2>6. s \in Nat
    BY <1>1 DEF Trimmed
  <2>7. s <= r.seq /\ InputOf(r.req) = In(w)
    BY <2>1, <2>2, <2>3, <2>4, <2>5, <2>6 DEF In
  <2> QED
    BY <2>1, <2>2, <2>5, <2>7
<1>2. Inv /\ Whole => TrimmedOnlyIfAsked
  BY <1>1 DEF TrimmedOnlyIfAsked, Whole
<1> QED
  BY <1>2, ContentsInv, PTL

\* What the fence in force below a durable position is, as the durable records
\* tell it.
LEMMA DurableFence ==
    ASSUME Inv, NEW tok, NEW x \in Nat, x <= TailAt(flushed), InForce(tok, x)
    PROVE  DurableFenceBelow(x) = tok
<1>1. Line /\ TailAt(flushed) \in Nat
  BY LineHolds DEF Line
<1>a. PICK fences : fences = {r \in Durable : r.seq < x /\ InputOf(r.req).kind = "fence"}
  OBVIOUS
<1>2. ASSUME NEW r \in fences
      PROVE  \E w \in Writes : /\ IsFence(w) /\ End(w) <= x /\ End(w) <= TailAt(flushed)
                               /\ r.req = w.req /\ r.seq = w.start
                               /\ w.start \in Nat /\ End(w) = w.start + 1
  <2>1. r \in Durable /\ r.seq < x /\ InputOf(r.req).kind = "fence"
    BY <1>a
  <2>2. PICK w \in Writes : /\ r.req = w.req /\ w.start <= r.seq /\ r.seq < End(w)
                            /\ End(w) <= TailAt(flushed) /\ r.seq \in Nat
    BY <2>1, DurableRecords
  <2>3. In(w).kind = "fence"
    BY <2>1, <2>2 DEF In
  <2>4. w.start \in Nat /\ End(w) = w.start + 1
    BY <1>1, <2>2, <2>3, CommandRecord DEF Line
  <2> QED
    BY <2>1, <2>2, <2>3, <2>4 DEF IsFence
<1>3. ASSUME NEW w \in Writes, IsFence(w), End(w) <= x, tok = In(w).arg,
             \A v \in Writes : IsFence(v) /\ End(v) <= x => End(v) <= End(w)
      PROVE  DurableFenceBelow(x) = tok
  <2>1. w.start \in Nat /\ End(w) \in Nat
    BY <1>1 DEF Line
  <2>2. End(w) <= TailAt(flushed) /\ In(w).kind = "fence"
    BY <1>1, <1>3, <2>1 DEF IsFence
  <2>3. PICK o : o = [seq |-> w.start, req |-> w.req]
    OBVIOUS
  <2>4. o \in Durable /\ End(w) = w.start + 1
    BY <2>2, <2>3, CommandRecord
  <2>5. o \in fences
    BY <1>3, <1>a, <2>1, <2>2, <2>3, <2>4 DEF In
  <2>6. \A r \in fences : r.seq <= o.seq
    <3> SUFFICES ASSUME NEW r \in fences
                 PROVE  r.seq <= o.seq
      OBVIOUS
    <3>1. PICK v \in Writes : /\ IsFence(v) /\ End(v) <= x /\ r.seq = v.start
                              /\ v.start \in Nat /\ End(v) = v.start + 1
      BY <1>2
    <3>2. End(v) <= End(w)
      BY <1>3, <3>1
    <3> QED
      BY <2>1, <2>3, <2>4, <3>1, <3>2
  <2>7. PICK c : c = CHOOSE r \in fences : \A s \in fences : s.seq <= r.seq
    OBVIOUS
  <2>8. c \in fences /\ \A s \in fences : s.seq <= c.seq
    BY <2>5, <2>6, <2>7
  <2>9. PICK v \in Writes : /\ IsFence(v) /\ c.req = v.req /\ c.seq = v.start
                            /\ v.start \in Nat /\ End(v) = v.start + 1
    BY <1>2, <2>8
  <2>10. v.start = w.start
    BY <2>1, <2>3, <2>5, <2>6, <2>8, <2>9
  <2>11. v = w
    BY <1>1, <2>1, <2>4, <2>9, <2>10 DEF Line
  <2>12. InputOf(c.req).arg = tok
    BY <1>3, <2>9, <2>11 DEF In
  <2>13. fences # {}
    BY <2>5
  <2> QED
    BY <1>a, <2>7, <2>12, <2>13 DEF DurableFenceBelow
<1>4. ASSUME tok = NoToken, \A v \in Writes : IsFence(v) => x < End(v)
      PROVE  DurableFenceBelow(x) = tok
  <2>1. fences = {}
    <3> SUFFICES ASSUME NEW r \in fences PROVE FALSE
      OBVIOUS
    <3>1. PICK w \in Writes : IsFence(w) /\ End(w) <= x /\ w.start \in Nat /\ End(w) = w.start + 1
      BY <1>2
    <3>2. x < End(w)
      BY <1>4, <3>1
    <3> QED
      BY <3>1, <3>2
  <2> QED
    BY <1>4, <1>a, <2>1 DEF DurableFenceBelow
<1> QED
  BY <1>3, <1>4 DEF InForce

\* Whoever is told that a condition failed (append.rs, on_stable) can rely on
\* it: the position the refusal waited for is durable, and so is the fencing
\* token it names.
THEOREM RejectionIsDurableCorrect ==
    ASSUME ~StallPastDormancy
    PROVE  Spec => []RejectionIsDurable
<1>1. ASSUME Inv, Refusals, NEW id \in DOMAIN reqs, reqs[id].reply = "rejected"
      PROVE  /\ reqs[id].dep <= TailAt(flushed)
             /\ reqs[id].saw # <<>> =>
                    DurableFenceBelow(reqs[id].saw[1].ap) = reqs[id].saw[1].val
  <2>1. reqs[id].dep <= TailAt(flushed)
    BY <1>1 DEF Inv, Truthful
  <2>2. ASSUME reqs[id].saw # <<>>
        PROVE  DurableFenceBelow(reqs[id].saw[1].ap) = reqs[id].saw[1].val
    <3>1. reqs[id].saw \in Seq(FenceState) /\ reqs[id].dep \in Nat
      <4>1. reqs[id] \in Message
        BY <1>1 DEF Inv, Types
      <4> QED
        BY <4>1 DEF Message
    <3>2. reqs[id].saw[1].ap \in Nat
      <4>1. reqs[id].saw[1] \in FenceState
        BY <2>2, <3>1
      <4> QED
        BY <4>1 DEF FenceState
    <3>3. reqs[id].saw[1].ap <= reqs[id].dep /\ InForce(reqs[id].saw[1].val, reqs[id].saw[1].ap)
      BY <1>1, <2>2 DEF Refusals
    <3>4. TailAt(flushed) \in Nat
      BY <1>1, LineHolds DEF Line
    <3>5. reqs[id].saw[1].ap <= TailAt(flushed)
      BY <2>1, <3>1, <3>2, <3>3, <3>4
    <3> QED
      BY <1>1, <3>2, <3>3, <3>5, DurableFence
  <2> QED
    BY <2>1, <2>2
<1>2. Inv /\ Whole => RejectionIsDurable
  BY <1>1 DEF RejectionIsDurable, Whole
<1> QED
  BY <1>2, ContentsInv, PTL

\* However often a session reconnects and sends again (s2-sdk, append.rs,
\* resend), a batch is only ever written behind the batch before it, and a batch
\* that names its sequence number is written once.
THEOREM SessionOrderCorrect ==
    ASSUME ~StallPastDormancy
    PROVE  Spec => []SessionOrder
<1>1. ASSUME Inv, Contents, NEW i \in Batched, reqs[wal[i].req].b > 1
      PROVE  \E j \in Batched : /\ j < i /\ reqs[wal[j].req].p = reqs[wal[i].req].p
                                /\ reqs[wal[j].req].b = reqs[wal[i].req].b - 1
  <2>1. PICK w : w = wal[i]
    OBVIOUS
  <2>2. Line /\ w \in Writes
    BY <1>1, <2>1, LineHolds DEF Line
  <2>3. PICK v \in Writes : /\ End(v) <= w.start /\ reqs[v.req].p = reqs[w.req].p
                            /\ reqs[v.req].b = reqs[w.req].b - 1
    BY <1>1, <2>1, <2>2 DEF Contents, Preceded
  <2>4. PICK j \in Batched : j < i /\ v = wal[j]
    BY <2>1, <2>2, <2>3 DEF Line
  <2> QED
    BY <2>1, <2>3, <2>4
<1>2. ASSUME Inv, Contents, NEW i \in Batched, NEW j \in Batched, i # j,
             reqs[wal[i].req].p = reqs[wal[j].req].p, reqs[wal[i].req].b = reqs[wal[j].req].b
      PROVE  InputOf(wal[i].req).match = -1
  <2> SUFFICES ASSUME InputOf(wal[i].req).match # -1 PROVE FALSE
    OBVIOUS
  <2>1. wal[i] \in Writes /\ wal[j] \in Writes
    BY <1>2, LineHolds DEF Line
  <2>2. In(wal[i]) = In(wal[j]) /\ In(wal[i]).match # -1
    BY <1>2 DEF In, InputOf
  <2>3. wal[i].start = wal[j].start
    BY <1>2, <2>1, <2>2 DEF Contents
  <2>4. i \in Nat /\ j \in Nat /\ wal[i].start \in Nat /\ wal[i].start < End(wal[i])
        /\ wal[j].start < End(wal[j]) /\ End(wal[i]) \in Nat /\ End(wal[j]) \in Nat
    BY <1>2, BatchTypes DEF Inv
  <2>5. i < j \/ j < i
    BY <1>2, <2>4
  <2>6. End(wal[i]) <= wal[j].start \/ End(wal[j]) <= wal[i].start
    BY <1>2, <2>5 DEF Inv, Laid
  <2> QED
    BY <2>3, <2>4, <2>6
<1>3. Inv /\ Whole => SessionOrder
  <2> SUFFICES ASSUME Inv, Contents PROVE SessionOrder
    BY DEF Whole
  <2>1. {i \in DOMAIN wal : wal[i].op = "batch"} = Batched
    <3>1. wal \in Seq(Entry)
      BY DEF Inv, Types
    <3>2. DOMAIN wal = 1..Len(wal)
      BY <3>1
    <3> QED
      BY <3>2 DEF Batched
  <2> QED
    BY <1>1, <1>2, <2>1 DEF SessionOrder
<1> QED
  BY <1>3, ContentsInv, PTL

-----------------------------------------------------------------------------
(* The abstract log *)

\* The log of AppendLog spells out the durable writes.
Spelled ==
    /\ TailAt(flushed) \in Nat
    /\ DurableLog = [k \in 1..TailAt(flushed) |-> DurableLog[k]]
    /\ \A k \in 1..TailAt(flushed) : \E w \in Writes :
        w.start < k /\ k <= End(w) /\ End(w) <= TailAt(flushed)
    /\ \A w \in Writes : End(w) <= TailAt(flushed) =>
        \A k \in w.start + 1..End(w) : DurableLog[k] = [req |-> w.req, in |-> In(w)]

LEMMA TailCovered ==
    ASSUME Inv, Contents
    PROVE  CoveredTo(TailAt(flushed))
<1>1. Types /\ Line /\ wal \in Seq(Entry) /\ flushed \in 0..Len(wal)
  BY LineHolds DEF Inv, Types
<1>a. PICK T : T = TailAt(flushed)
  OBVIOUS
<1>2. T \in Nat
  BY <1>1, <1>a DEF Line
<1>3. CASE T = 0
  BY <1>3, <1>a DEF CoveredTo
<1>4. ASSUME NEW i \in Batched, T = End(wal[i])
      PROVE  CoveredTo(T)
  <2>1. PICK w : w = wal[i]
    OBVIOUS
  <2>2. w \in Writes /\ w.start \in Nat /\ CoveredTo(w.start)
    BY <1>1, <2>1 DEF Line, Contents
  <2> SUFFICES ASSUME NEW s \in 0..T - 1
               PROVE  \E v \in Writes : v.start <= s /\ s < End(v)
    BY DEF CoveredTo
  <2>3. CASE s < w.start
    <3>1. s \in 0..w.start - 1
      BY <1>2, <2>2, <2>3
    <3> QED
      BY <2>2, <3>1 DEF CoveredTo
  <2>4. CASE w.start <= s
    BY <1>2, <1>4, <2>1, <2>2, <2>4
  <2> QED
    BY <1>2, <2>2, <2>3, <2>4
<1> QED
  BY <1>1, <1>3, <1>4, <1>a, TailFacts

LEMMA SpelledHolds == Inv /\ Contents => Spelled
<1> SUFFICES ASSUME Inv, Contents PROVE Spelled
  OBVIOUS
<1>a. PICK T : T = TailAt(flushed)
  OBVIOUS
<1>1. Types /\ Line /\ CoveredTo(T) /\ T \in Nat /\ wal \in Seq(Entry) /\ flushed \in 0..Len(wal)
  BY <1>a, LineHolds, TailCovered DEF Inv, Types, Line
<1>2. \A w \in Writes : w.start \in Nat /\ End(w) \in Nat /\ w.start < End(w)
  BY <1>1 DEF Line
<1>3. ASSUME NEW k \in 1..T
      PROVE  \E w \in Writes : w.start < k /\ k <= End(w) /\ End(w) <= T
  <2>1. k - 1 \in 0..T - 1
    BY <1>1
  <2>2. PICK w \in Writes : w.start <= k - 1 /\ k - 1 < End(w)
    BY <1>1, <2>1 DEF CoveredTo
  <2>3. PICK i \in Batched : i <= flushed /\ T = End(wal[i])
    BY <1>1, <1>a, TailFacts
  <2>4. PICK v : v = wal[i]
    OBVIOUS
  <2>5. v \in Writes /\ T = End(v)
    BY <1>1, <2>3, <2>4 DEF Line
  <2>6. End(w) <= T
    <3>1. v = w \/ End(v) <= w.start \/ End(w) <= v.start
      BY <1>1, <2>5 DEF Line
    <3> QED
      BY <1>1, <1>2, <2>1, <2>2, <2>5, <3>1
  <2> QED
    BY <1>2, <2>1, <2>2, <2>6
<1>4. ASSUME NEW w \in Writes, End(w) <= T, NEW k \in w.start + 1..End(w)
      PROVE  DurableLog[k] = [req |-> w.req, in |-> In(w)]
  <2>1. k \in 1..T /\ k - w.start \in 1..w.n /\ k - 1 = w.start + (k - w.start) - 1
    <3>1. w.start \in Nat /\ End(w) \in Nat /\ w.n \in Nat /\ End(w) = w.start + w.n
      BY <1>1 DEF Line
    <3>2. PICK x : x = w.start
      OBVIOUS
    <3>3. x \in Nat /\ w.n \in Nat /\ End(w) = x + w.n /\ x + w.n <= T /\ k \in x + 1..x + w.n
      BY <1>4, <3>1, <3>2
    <3> HIDE DEF End
    <3>4. k \in 1..T /\ k - x \in 1..w.n /\ k - 1 = x + (k - x) - 1
      BY <1>1, <3>3
    <3> QED
      BY <3>2, <3>4
  <2>2. PICK i \in Batched : i <= flushed /\ w = wal[i]
    BY <1>1, <1>4, <1>a DEF Line
  <2>3. PICK o : o = [seq |-> k - 1, req |-> w.req]
    OBVIOUS
  <2>4. \E j \in 1..wal[i].n : o = [seq |-> wal[i].start + j - 1, req |-> wal[i].req]
    BY <2>1, <2>2, <2>3
  <2>5. o \in Durable /\ o.seq = k - 1
    BY <2>2, <2>3, <2>4, DurableRecords
  <2>6. PICK r : r = CHOOSE x \in Durable : x.seq = k - 1
    OBVIOUS
  <2>7. r \in Durable /\ r.seq = k - 1
    BY <2>5, <2>6
  <2>8. PICK v \in Writes : r.req = v.req /\ v.start <= r.seq /\ r.seq < End(v)
    BY <2>7, DurableRecords
  <2>9. v = w
    <3>1. v = w \/ End(v) <= w.start \/ End(w) <= v.start
      BY <1>1 DEF Line
    <3> QED
      BY <1>2, <2>1, <2>7, <2>8, <3>1
  <2>10. DurableLog[k] = [req |-> r.req, in |-> InputOf(r.req)]
    BY <1>a, <2>1, <2>6 DEF DurableLog
  <2> QED
    BY <2>8, <2>9, <2>10 DEF In
<1>5. DurableLog = [k \in 1..T |-> DurableLog[k]]
  BY <1>a DEF DurableLog
<1> QED
  BY <1>1, <1>3, <1>4, <1>5, <1>a DEF Spelled

LEMMA SpelledNext == Inv' /\ Contents' => Spelled'
BY SpelledHolds, PTL

LEMMA SameTail ==
    ASSUME Inv, Inv', Durably, flushed' = flushed
    PROVE  TailAt(flushed)' = TailAt(flushed)
<1>1. flushed \in Nat
  BY DEF Inv, Types
<1>2. \A i \in 1..flushed : wal'[i] = wal[i]
  BY DEF Durably
<1>3. PICK k : k = flushed
  OBVIOUS
<1>4. TailAt(k)' = TailAt(k)
  BY <1>1, <1>2, <1>3, TailSame
<1> QED
  BY <1>3, <1>4 DEF TailAt

\* As long as no other batch becomes durable the abstract log stays as it is.
LEMMA SameLog ==
    ASSUME Inv, Inv', Contents, Contents', SameRequests, Durably,
           TailAt(flushed)' = TailAt(flushed)
    PROVE  DurableLog' = DurableLog
<1>1. Line /\ Line' /\ Spelled /\ Spelled' /\ Types /\ wal \in Seq(Entry) /\ wal' \in Seq(Entry)
      /\ flushed \in 0..Len(wal) /\ flushed' \in 0..Len(wal') /\ flushed \in Nat
      /\ flushed' \in Nat /\ flushed <= flushed'
  BY LineHolds, LineNext, SpelledHolds, SpelledNext DEF Inv, Types, Durably
<1>2. TailAt(flushed)' = TailAt(flushed)
  OBVIOUS
<1>a. PICK T : T = TailAt(flushed)
  OBVIOUS
<1>3. ASSUME NEW k \in 1..T
      PROVE  DurableLog'[k] = DurableLog[k]
  <2>1. PICK w \in Writes : w.start < k /\ k <= End(w) /\ End(w) <= T
    BY <1>1, <1>a DEF Spelled
  <2>2. PICK i \in Batched : i <= flushed /\ w = wal[i]
    BY <1>1, <1>a, <2>1 DEF Line
  <2>3. i \in Batched' /\ wal'[i] = w
    BY <1>1, <2>2 DEF Batched, Durably
  <2>4. w \in Writes' /\ End(w)' = End(w)
    BY <1>1, <2>3 DEF Line, End
  <2>5. In(w)' = In(w)
    BY <1>1, SameInputs
  <2>6. k \in w.start + 1..End(w)
    BY <1>1, <1>a, <2>1 DEF Line, Spelled
  <2>7. DurableLog[k] = [req |-> w.req, in |-> In(w)]
    BY <1>1, <1>a, <2>1, <2>6 DEF Spelled
  <2>8. DurableLog'[k] = [req |-> w.req, in |-> In(w)']
    BY <1>1, <1>2, <1>a, <2>1, <2>4, <2>6 DEF Spelled
  <2> QED
    BY <2>5, <2>7, <2>8
<1>4. DurableLog = [k \in 1..T |-> DurableLog[k]] /\ DurableLog' = [k \in 1..T |-> DurableLog'[k]]
  BY <1>1, <1>2, <1>a DEF Spelled
<1> QED
  BY <1>3, <1>4

\* The requests of AppendLog.
Asked == [id \in DOMAIN reqs |->
             [in |-> InputOf(id), reply |-> reqs[id].reply, at |-> reqs[id].at]]

AskedTypes ==
    /\ DOMAIN Asked = DOMAIN reqs /\ Len(Asked) = Len(reqs)
    /\ Asked \in Seq([in : AllInputs, reply : Replied, at : Nat \cup {-1}])
    /\ \A id \in DOMAIN reqs :
        /\ Asked[id] \in [in : AllInputs, reply : Replied, at : Nat \cup {-1}]
        /\ Asked[id].in = InputOf(id) /\ Asked[id].reply = reqs[id].reply
        /\ Asked[id].at = reqs[id].at /\ IsBatch(InputOf(id))

LEMMA AskedHolds == Inv => AskedTypes
<1> SUFFICES ASSUME Inv PROVE AskedTypes
  OBVIOUS
<1> DEFINE S == [in : AllInputs, reply : Replied, at : Nat \cup {-1}]
<1>1. Types /\ reqs \in Seq(Message) /\ Len(reqs) \in Nat /\ DOMAIN reqs = 1..Len(reqs)
  BY DEF Inv, Types
<1>2. ASSUME NEW id \in DOMAIN reqs
      PROVE  /\ Asked[id] \in S /\ IsBatch(InputOf(id))
             /\ Asked[id].in = InputOf(id) /\ Asked[id].reply = reqs[id].reply
             /\ Asked[id].at = reqs[id].at
  <2>1. Asked[id] = [in |-> InputOf(id), reply |-> reqs[id].reply, at |-> reqs[id].at]
    BY DEF Asked
  <2>2. InputOf(id) \in AllInputs /\ IsBatch(InputOf(id))
    BY <1>1, InputFacts
  <2>3. reqs[id].reply \in Replied /\ reqs[id].at \in Nat \cup {-1}
    <3>1. reqs[id] \in Message
      BY <1>1
    <3> QED
      BY <3>1 DEF Message
  <2> QED
    BY <2>1, <2>2, <2>3
<1> HIDE DEF S
<1>3. Asked \in [1..Len(reqs) -> S]
  BY <1>1, <1>2 DEF Asked
<1>4. Asked \in Seq(S) /\ Len(Asked) = Len(reqs)
  BY <1>1, <1>3, FunctionIsSeq
<1>5. DOMAIN Asked = DOMAIN reqs
  BY DEF Asked
<1> QED
  BY <1>2, <1>4, <1>5 DEF S, AskedTypes

LEMMA AskedNext == Inv' => AskedTypes'
BY AskedHolds, PTL

\* Answers tell the truth about the log.
LEMMA AnswerStep ==
    ASSUME Inv, Inv', Contents, Contents', Answered, Durably,
           TailAt(flushed)' = TailAt(flushed)
    PROVE  Abs!AbsAnswer
<1>1. Line /\ Line' /\ Spelled /\ Spelled' /\ Types' /\ Laid' /\ Truthful' /\ SameRequests
      /\ flushed' \in Nat
  BY LineHolds, LineNext, SpelledHolds, SpelledNext
  DEF Inv, Types, Answered, SameRequests, Durably
<1>2. DurableLog' = DurableLog
  BY <1>1, SameLog
<1>3. DOMAIN Asked = DOMAIN reqs /\ DOMAIN Asked' = DOMAIN reqs /\ DOMAIN reqs' = DOMAIN reqs
  BY DEF Asked, Answered
<1>4. ASSUME NEW id \in DOMAIN reqs
      PROVE  \/ Asked'[id] = Asked[id]
             \/ \E reply \in {"ok", "rejected", "lost"} :
                    /\ Asked[id].reply = "pending"
                    /\ Asked'[id] = [Asked[id] EXCEPT !.reply = reply]
                    /\ reply = "ok" =>
                        \A i \in 1..Asked[id].in.n :
                            /\ Asked[id].at + i \in DOMAIN DurableLog
                            /\ DurableLog[Asked[id].at + i] = [req |-> id, in |-> Asked[id].in]
                    /\ reply = "rejected" => ~ \E k \in DOMAIN DurableLog : DurableLog[k].req = id
  <2>1. /\ reqs'[id].p = reqs[id].p /\ reqs'[id].b = reqs[id].b /\ reqs'[id].at = reqs[id].at
        /\ script' = script /\ id \in DOMAIN reqs'
        /\ reqs[id].reply # "pending" => reqs'[id].reply = reqs[id].reply
    BY DEF Answered
  <2>2. PICK in, at, old, reply : /\ in = InputOf(id) /\ at = reqs[id].at
                                  /\ old = reqs[id].reply /\ reply = reqs'[id].reply
    OBVIOUS
  <2>3. InputOf(id)' = in
    BY <2>1, <2>2 DEF InputOf
  <2>4. Asked[id] = [in |-> in, reply |-> old, at |-> at]
    BY <2>2 DEF Asked
  <2>5. Asked'[id] = [in |-> in, reply |-> reply, at |-> at]
    BY <2>1, <2>2, <2>3 DEF Asked
  <2>6. CASE reply = old
    BY <2>4, <2>5, <2>6
  <2>7. CASE reply # old
    <3>1. old = "pending" /\ reply \in {"ok", "rejected", "lost"}
      <4>1. reqs'[id] \in Message
        BY <1>1, <2>1 DEF Types
      <4> QED
        BY <2>1, <2>2, <2>7, <4>1 DEF Message, Replied
    <3>2. Asked[id].reply = "pending" /\ Asked'[id] = [Asked[id] EXCEPT !.reply = reply]
          /\ Asked[id].in = in /\ Asked[id].at = at
      BY <2>4, <2>5, <3>1
    <3>3. ASSUME reply = "ok", NEW i \in 1..in.n
          PROVE  at + i \in DOMAIN DurableLog /\ DurableLog[at + i] = [req |-> id, in |-> in]
      <4>1. PICK j \in Batched' : j <= flushed' /\ wal'[j].req = id
        BY <1>1, <2>1, <2>2, <3>3 DEF Truthful, Placed
      <4>2. PICK w : w = wal'[j]
        OBVIOUS
      <4>3. /\ w \in Writes' /\ w.req = id /\ w.start = at /\ w.start \in Nat
            /\ End(w)' <= TailAt(flushed)' /\ In(w)' = in
            /\ End(w)' = w.start + in.n /\ in.n \in Nat
        <5>1. w \in Writes' /\ w.req = id /\ End(w)' <= TailAt(flushed)'
          BY <1>1, <4>1, <4>2 DEF Line
        <5>2. In(w)' = in
          BY <2>3, <5>1 DEF In, InputOf
        <5>3. w.start \in Nat /\ w.n \in Nat /\ End(w)' = w.start + w.n /\ In(w)'.n = w.n
              /\ reqs'[w.req].at = w.start
          BY <1>1, <5>1 DEF Line
        <5> QED
          BY <2>1, <2>2, <5>1, <5>2, <5>3
      <4>4. at + i \in w.start + 1..End(w)' /\ TailAt(flushed)' \in Nat
        BY <1>1, <4>3 DEF Spelled
      <4>5. DurableLog'[at + i] = [req |-> id, in |-> in]
        BY <1>1, <4>3, <4>4 DEF Spelled
      <4>6. at + i \in 1..TailAt(flushed)'
        BY <4>3, <4>4
      <4>7. DOMAIN DurableLog' = 1..TailAt(flushed)'
        BY <1>1 DEF Spelled
      <4> QED
        BY <1>2, <4>5, <4>6, <4>7
    <3>4. ASSUME reply = "rejected", NEW k \in DOMAIN DurableLog, DurableLog[k].req = id
          PROVE  FALSE
      <4>1. at = -1
        BY <1>1, <2>1, <2>2, <3>4 DEF Truthful
      <4>2. k \in 1..TailAt(flushed) /\ TailAt(flushed) \in Nat
        BY <1>1 DEF Spelled
      <4>3. PICK w \in Writes : w.start < k /\ k <= End(w) /\ End(w) <= TailAt(flushed)
        BY <1>1, <4>2 DEF Spelled
      <4>4. w.start \in Nat /\ End(w) \in Nat /\ reqs[w.req].at = w.start
        BY <1>1 DEF Line
      <4>5. k \in w.start + 1..End(w)
        BY <4>2, <4>3, <4>4
      <4>6. DurableLog[k] = [req |-> w.req, in |-> In(w)]
        BY <1>1, <4>3, <4>5 DEF Spelled
      <4>7. w.req = id
        BY <3>4, <4>6
      <4>8. reqs[w.req].at = at
        BY <2>2, <4>7
      <4>9. w.start = -1
        BY <4>1, <4>4, <4>8
      <4> QED
        BY <4>4, <4>9
    <3> QED
      BY <3>1, <3>2, <3>3, <3>4
  <2> QED
    BY <2>6, <2>7
<1> QED
  BY <1>2, <1>3, <1>4 DEF Abs!AbsAnswer, Abs!StandsAt, Abs!Committed, Asked

\* The token in force at the end of the log.
LEMMA TokenAtEnd ==
    ASSUME Inv, Contents, NEW tok, InForce(tok, TailAt(flushed))
    PROVE  Abs!TokenAfter(DurableLog) = tok
<1>a. PICK T, fences : /\ T = TailAt(flushed)
                       /\ fences = {k \in DOMAIN DurableLog : DurableLog[k].in.kind = "fence"}
  OBVIOUS
<1>1. Line /\ Spelled /\ T \in Nat /\ DOMAIN DurableLog = 1..T
      /\ \A w \in Writes : w.start \in Nat /\ End(w) \in Nat /\ w.start < End(w)
  BY <1>a, LineHolds, SpelledHolds DEF Line, Spelled
<1>2. ASSUME NEW k \in fences
      PROVE  \E w \in Writes : IsFence(w) /\ End(w) <= T /\ k = End(w)
                               /\ DurableLog[k].in = In(w)
  <2>1. k \in 1..T /\ DurableLog[k].in.kind = "fence"
    BY <1>1, <1>a
  <2>2. PICK w \in Writes : w.start < k /\ k <= End(w) /\ End(w) <= T
    BY <1>1, <1>a, <2>1 DEF Spelled
  <2>3. k \in w.start + 1..End(w)
    BY <1>1, <2>1, <2>2
  <2>4. DurableLog[k] = [req |-> w.req, in |-> In(w)]
    BY <1>1, <1>a, <2>2, <2>3 DEF Spelled
  <2>5. DurableLog[k].in = In(w)
    BY <2>4
  <2>6. In(w).kind = "fence"
    BY <2>1, <2>5
  <2>7. End(w) = w.start + 1
    BY <1>a, <2>2, <2>6, CommandRecord
  <2>8. k = End(w)
    BY <1>1, <2>1, <2>2, <2>7
  <2> QED
    BY <2>2, <2>5, <2>6, <2>8 DEF IsFence
<1>3. ASSUME NEW w \in Writes, IsFence(w), End(w) <= T, tok = In(w).arg,
             \A v \in Writes : IsFence(v) /\ End(v) <= T => End(v) <= End(w)
      PROVE  Abs!TokenAfter(DurableLog) = tok
  <2>1. PICK e : e = End(w)
    OBVIOUS
  <2>2. e \in w.start + 1..End(w) /\ e \in 1..T
    BY <1>1, <1>3, <2>1
  <2>3. DurableLog[e] = [req |-> w.req, in |-> In(w)]
    BY <1>1, <1>3, <1>a, <2>2 DEF Spelled
  <2>4. DurableLog[e].in = In(w)
    BY <2>3
  <2>5. e \in fences
    BY <1>1, <1>3, <1>a, <2>2, <2>4 DEF IsFence
  <2>6. \A j \in fences : j <= e
    BY <1>2, <1>3, <2>1
  <2>7. PICK c : c = CHOOSE k \in fences : \A j \in fences : j <= k
    OBVIOUS
  <2>8. c \in fences /\ \A j \in fences : j <= c
    BY <2>5, <2>6, <2>7
  <2>9. c = e
    <3>1. c <= e /\ e <= c
      BY <2>5, <2>6, <2>8
    <3>2. c \in 1..T
      BY <1>1, <1>a, <2>8
    <3> QED
      BY <2>2, <3>1, <3>2
  <2>10. DurableLog[c].in.arg = tok
    BY <1>3, <2>4, <2>9
  <2>11. fences # {}
    BY <2>5
  <2> QED
    BY <1>a, <2>7, <2>10, <2>11 DEF Abs!TokenAfter
<1>4. ASSUME tok = NoToken, \A v \in Writes : IsFence(v) => T < End(v)
      PROVE  Abs!TokenAfter(DurableLog) = tok
  <2>1. fences = {}
    <3> SUFFICES ASSUME NEW k \in fences PROVE FALSE
      OBVIOUS
    <3>1. PICK w \in Writes : IsFence(w) /\ End(w) <= T
      BY <1>2
    <3>2. T < End(w)
      BY <1>4, <3>1
    <3> QED
      BY <1>1, <3>1, <3>2
  <2> QED
    BY <1>4, <1>a, <2>1 DEF Abs!TokenAfter
<1> QED
  BY <1>3, <1>4, <1>a DEF InForce

\* The batch that becomes durable next is the next one of the abstract log.
LEMMA NextDurable ==
    ASSUME Inv, Contents, flushed + 1 \in Batched
    PROVE  /\ wal[flushed + 1].start = TailAt(flushed)
           /\ TailAt(flushed + 1) = End(wal[flushed + 1])
<1>a. PICK T, i, w : T = TailAt(flushed) /\ i = flushed + 1 /\ w = wal[i]
  OBVIOUS
<1>1. /\ Types /\ Laid /\ Line /\ i \in Batched /\ w \in Writes /\ T \in Nat /\ CoveredTo(w.start)
      /\ wal \in Seq(Entry) /\ flushed \in 0..Len(wal) /\ flushed \in Nat /\ i \in 0..Len(wal)
      /\ w.start \in Nat
  <2>1. Line /\ Types /\ Laid /\ flushed \in 0..Len(wal) /\ wal \in Seq(Entry)
    BY LineHolds DEF Inv, Types
  <2>2. i \in Batched /\ i \in 1..Len(wal)
    BY <1>a DEF Batched
  <2>3. w \in Writes /\ w.start \in Nat /\ T \in Nat
    BY <1>a, <2>1, <2>2 DEF Line
  <2> QED
    BY <2>1, <2>2, <2>3 DEF Contents
<1>2. T <= w.start
  <2>1. CASE T = 0
    BY <1>1, <2>1
  <2>2. ASSUME NEW j \in Batched, j <= flushed, T = End(wal[j])
        PROVE  T <= w.start
    <3>1. j < i
      BY <1>1, <1>a, <2>2 DEF Batched
    <3> QED
      BY <1>1, <1>a, <2>2, <3>1 DEF Laid
  <2> QED
    BY <1>1, <1>a, <2>1, <2>2, TailFacts
<1>3. ~(T < w.start)
  <2> SUFFICES ASSUME T < w.start PROVE FALSE
    OBVIOUS
  <2>1. T \in 0..w.start - 1
    BY <1>1
  <2>2. PICK v \in Writes : v.start <= T /\ T < End(v)
    BY <1>1, <2>1 DEF CoveredTo
  <2>3. v.start \in Nat /\ End(v) \in Nat /\ End(w) \in Nat /\ w.start < End(w)
    BY <1>1 DEF Line
  <2>4. End(v) <= w.start
    <3>1. v = w \/ End(v) <= w.start \/ End(w) <= v.start
      BY <1>1 DEF Line
    <3> QED
      BY <1>1, <2>2, <2>3, <3>1
  <2>5. PICK j \in Batched : j < i /\ v = wal[j]
    BY <1>1, <1>a, <2>4 DEF Line
  <2>6. j <= flushed
    BY <1>1, <1>a, <2>5 DEF Batched
  <2>7. End(v) <= T
    BY <1>1, <1>a, <2>5, <2>6 DEF Line
  <2> QED
    BY <1>1, <2>2, <2>3, <2>7
<1>4. TailAt(i) = End(w)
  <2>1. PICK j \in Batched : /\ j <= i /\ TailAt(i) = End(wal[j])
                             /\ \A l \in Batched : l <= i => l <= j
    <3>1. ~(i > i)
      BY <1>1
    <3> QED
      BY <1>1, <3>1, TailFacts
  <2>2. j = i
    BY <1>1, <2>1 DEF Batched
  <2> QED
    BY <1>a, <2>1, <2>2
<1> QED
  BY <1>1, <1>2, <1>3, <1>4, <1>a

AbsRecord == [req : Nat, in : AllInputs]

LogTyped == DurableLog \in Seq(AbsRecord) /\ Len(DurableLog) = TailAt(flushed)

LEMMA LogIsTyped == Inv /\ Contents => LogTyped
<1> SUFFICES ASSUME Inv, Contents PROVE LogTyped
  OBVIOUS
<1>a. PICK T : T = TailAt(flushed)
  OBVIOUS
<1>1. Line /\ Spelled /\ T \in Nat /\ reqs \in Seq(Message)
  BY <1>a, LineHolds, SpelledHolds DEF Spelled, Inv, Types
<1>2. ASSUME NEW k \in 1..T
      PROVE  DurableLog[k] \in AbsRecord
  <2>1. PICK w \in Writes : w.start < k /\ k <= End(w) /\ End(w) <= T
    BY <1>1, <1>a DEF Spelled
  <2>2. w.start \in Nat /\ End(w) \in Nat /\ In(w) \in AllInputs /\ w.req \in DOMAIN reqs
    BY <1>1 DEF Line, WriteFor
  <2>3. k \in w.start + 1..End(w) /\ w.req \in Nat
    BY <1>1, <2>1, <2>2
  <2>4. DurableLog[k] = [req |-> w.req, in |-> In(w)]
    BY <1>1, <1>a, <2>1, <2>3 DEF Spelled
  <2> QED
    BY <2>2, <2>3, <2>4 DEF AbsRecord
<1>3. DurableLog = [k \in 1..T |-> DurableLog[k]]
  BY <1>1, <1>a DEF Spelled
<1>4. DurableLog \in [1..T -> AbsRecord]
  BY <1>2, <1>3
<1>5. DurableLog \in Seq(AbsRecord) /\ Len(DurableLog) = T
  BY <1>1, <1>4, FunctionIsSeq
<1> QED
  BY <1>5, <1>a DEF LogTyped

LEMMA LogTypedNext == Inv' /\ Contents' => LogTyped'
BY LogIsTyped, PTL

\* What is flushed is added to the abstract log.
LEMMA LogGrows ==
    ASSUME Inv, Inv', Contents, Contents', Flush, flushed + 1 \in Batched,
           NEW w, w = wal[flushed + 1]
    PROVE  DurableLog' = DurableLog \o [i \in 1..In(w).n |-> [req |-> w.req, in |-> In(w)]]
<1>a. PICK T, n, e : /\ T = TailAt(flushed) /\ n = In(w).n
                     /\ e = [req |-> w.req, in |-> In(w)]
  OBVIOUS
<1>b. PICK t : t = [i \in 1..n |-> e]
  OBVIOUS
<1>1. UNCHANGED <<script, wal, st, reqs>> /\ flushed' = flushed + 1
  BY DEF Flush
<1>2. /\ Types /\ Line /\ Line' /\ Spelled /\ Spelled' /\ LogTyped /\ LogTyped'
      /\ SameRequests /\ wal \in Seq(Entry) /\ flushed \in Nat
  BY <1>1, LineHolds, LineNext, SpelledHolds, SpelledNext, LogIsTyped, LogTypedNext
  DEF Inv, Types, SameRequests
<1>3. /\ w \in Writes /\ w.start = T /\ w.start \in Nat /\ n \in Nat /\ w.n = n
      /\ End(w) = T + n /\ End(w) \in Nat /\ T \in Nat /\ w.req \in DOMAIN reqs
      /\ In(w) \in AllInputs
  <2>1. w \in Writes /\ w.start = T
    BY <1>2, <1>a, NextDurable DEF Line
  <2>2. /\ w.start \in Nat /\ w.n \in Nat /\ End(w) = w.start + w.n /\ In(w).n = w.n
        /\ w.req \in DOMAIN reqs /\ In(w) \in AllInputs /\ End(w) \in Nat
    BY <1>2, <2>1 DEF Line, WriteFor
  <2> QED
    BY <1>a, <2>1, <2>2
<1>4. TailAt(flushed)' = T + n
  <2>1. PICK k : k = flushed + 1
    OBVIOUS
  <2>2. TailAt(k) = T + n
    BY <1>3, <2>1, NextDurable
  <2>3. TailAt(k)' = TailAt(k)
    BY <1>1 DEF TailAt
  <2> QED
    BY <1>1, <2>1, <2>2, <2>3 DEF TailAt
<1>5. Writes' = Writes
  BY <1>1, SameWrites
<1>6. e \in AbsRecord /\ t \in Seq(AbsRecord) /\ Len(t) = n
  <2>1. w.req \in Nat
    BY <1>2, <1>3 DEF Types
  <2>2. e \in AbsRecord
    BY <1>3, <1>a, <2>1 DEF AbsRecord
  <2>3. t \in [1..n -> AbsRecord]
    BY <1>b, <2>2
  <2> QED
    BY <1>3, <2>2, <2>3, FunctionIsSeq
<1>7. ASSUME NEW k \in 1..T + n
      PROVE  DurableLog'[k] = IF k <= T THEN DurableLog[k] ELSE t[k - T]
  <2>1. CASE k <= T
    <3>1. k \in 1..T
      BY <1>3, <2>1
    <3>2. PICK v \in Writes : v.start < k /\ k <= End(v) /\ End(v) <= T
      BY <1>2, <1>a, <3>1 DEF Spelled
    <3>3. v.start \in Nat /\ End(v) \in Nat /\ End(v)' = End(v) /\ In(v)' = In(v)
      BY <1>1, <1>2, SameInputs DEF Line, End
    <3>4. k \in v.start + 1..End(v) /\ End(v) <= T + n
      BY <1>3, <3>1, <3>2, <3>3
    <3>5. DurableLog[k] = [req |-> v.req, in |-> In(v)]
      BY <1>2, <1>a, <3>2, <3>4 DEF Spelled
    <3>6. DurableLog'[k] = [req |-> v.req, in |-> In(v)']
      BY <1>2, <1>4, <1>5, <3>3, <3>4 DEF Spelled
    <3> QED
      BY <2>1, <3>3, <3>5, <3>6
  <2>2. CASE ~(k <= T)
    <3>1. End(w)' = End(w) /\ In(w)' = In(w)
      BY <1>2, <1>3, SameInputs DEF End
    <3>2. k \in w.start + 1..End(w) /\ k - T \in 1..n /\ End(w) <= T + n
      BY <1>3, <2>2
    <3>3. DurableLog'[k] = [req |-> w.req, in |-> In(w)']
      BY <1>2, <1>3, <1>4, <1>5, <3>1, <3>2 DEF Spelled
    <3>4. t[k - T] = e
      BY <1>b, <3>2
    <3> QED
      BY <1>a, <2>2, <3>1, <3>3, <3>4
  <2> QED
    BY <2>1, <2>2
<1>8. PICK u : u = DurableLog \o t
  OBVIOUS
<1>9. /\ u \in Seq(AbsRecord) /\ Len(u) = T + n
      /\ \A k \in 1..T + n : u[k] = IF k <= T THEN DurableLog[k] ELSE t[k - T]
  <2>1. DurableLog \in Seq(AbsRecord) /\ Len(DurableLog) = T
    BY <1>2, <1>a DEF LogTyped
  <2> QED
    BY <1>6, <1>8, <2>1, ConcatProperties
<1>10. DurableLog' \in Seq(AbsRecord) /\ Len(DurableLog') = T + n
  BY <1>2, <1>4 DEF LogTyped
<1>11. \A k \in 1..Len(DurableLog') : DurableLog'[k] = u[k]
  BY <1>7, <1>9, <1>10
<1>12. DurableLog' = u
  BY <1>9, <1>10, <1>11, SeqEqual
<1> QED
  BY <1>12, <1>8, <1>a, <1>b

\* A batch becomes durable where its conditions hold, at most once, and never
\* behind the end of the stream.
LEMMA CommitStep ==
    ASSUME Inv, Inv', Contents, Contents', Flush, flushed + 1 \in Batched
    PROVE  \E r \in DOMAIN Asked : Abs!AbsCommit(r)
<1>a. PICK w : w = wal[flushed + 1]
  OBVIOUS
<1>b. PICK T, r, in : T = TailAt(flushed) /\ r = w.req /\ in = In(w)
  OBVIOUS
<1>1. /\ Types /\ Laid /\ Truthful /\ Line /\ Spelled /\ LogTyped /\ AskedTypes
      /\ flushed \in 0..Len(wal) /\ flushed \in Nat
  BY LineHolds, SpelledHolds, LogIsTyped, AskedHolds DEF Inv, Types
<1>2. /\ w \in Writes /\ w.start = T /\ T \in Nat /\ End(w) \in Nat /\ T < End(w)
      /\ r \in DOMAIN reqs /\ reqs[r].at = T /\ reqs[r] \in Message
  <2>1. w \in Writes /\ w.start = T
    BY <1>1, <1>a, <1>b, NextDurable DEF Line
  <2> QED
    BY <1>1, <1>b, <2>1 DEF Line, WriteFor
<1>3. Asked[r].in = in /\ Asked[r].reply = reqs[r].reply /\ DOMAIN Asked = DOMAIN reqs
  BY <1>1, <1>2, <1>b DEF AskedTypes, In
<1>4. reqs[r].reply \in {"pending", "lost"}
  <2>1. reqs[r].reply # "rejected"
    BY <1>1, <1>2 DEF Truthful
  <2>2. ASSUME NEW i \in Batched, i <= flushed, wal[i].req = r
        PROVE  FALSE
    <3>1. PICK v : v = wal[i]
      OBVIOUS
    <3>2. /\ v \in Writes /\ v.start \in Nat /\ End(v) \in Nat /\ v.start < End(v)
          /\ End(v) <= T /\ reqs[v.req].at = v.start
      BY <1>1, <1>b, <2>2, <3>1 DEF Line
    <3>3. v.start = T
      BY <1>2, <2>2, <3>1, <3>2
    <3> QED
      BY <1>2, <3>2, <3>3
  <2>3. reqs[r].reply # "ok"
    BY <1>1, <1>2, <2>2 DEF Truthful, Placed
  <2> QED
    BY <1>2, <2>1, <2>3 DEF Message, Replied
<1>5. ASSUME NEW k \in DOMAIN DurableLog
      PROVE  \E v \in Writes : /\ DurableLog[k] = [req |-> v.req, in |-> In(v)]
                               /\ v.start \in Nat /\ End(v) \in Nat /\ v.start < End(v)
                               /\ End(v) <= T /\ reqs[v.req].at = v.start
  <2>1. k \in 1..T
    BY <1>1, <1>b DEF Spelled
  <2>2. PICK v \in Writes : v.start < k /\ k <= End(v) /\ End(v) <= T
    BY <1>1, <1>b, <2>1 DEF Spelled
  <2>3. v.start \in Nat /\ End(v) \in Nat /\ v.start < End(v) /\ reqs[v.req].at = v.start
    BY <1>1 DEF Line
  <2>4. k \in v.start + 1..End(v)
    BY <1>2, <2>1, <2>2, <2>3
  <2>5. DurableLog[k] = [req |-> v.req, in |-> In(v)]
    BY <1>1, <1>b, <2>2, <2>4 DEF Spelled
  <2> QED
    BY <2>2, <2>3, <2>5
<1>6. \A k \in DOMAIN DurableLog : DurableLog[k].req # r
  <2> SUFFICES ASSUME NEW k \in DOMAIN DurableLog, DurableLog[k].req = r
               PROVE  FALSE
    OBVIOUS
  <2>1. PICK v \in Writes : /\ DurableLog[k] = [req |-> v.req, in |-> In(v)]
                            /\ v.start \in Nat /\ End(v) \in Nat /\ v.start < End(v)
                            /\ End(v) <= T /\ reqs[v.req].at = v.start
    BY <1>5
  <2>2. v.req = r
    BY <2>1
  <2>3. v.start = T
    BY <1>2, <2>1, <2>2
  <2> QED
    BY <1>2, <2>1, <2>3
<1>7. \A k \in DOMAIN DurableLog : DurableLog[k].in.kind # "terminal"
  <2> SUFFICES ASSUME NEW k \in DOMAIN DurableLog, DurableLog[k].in.kind = "terminal"
               PROVE  FALSE
    OBVIOUS
  <2>1. PICK v \in Writes : DurableLog[k] = [req |-> v.req, in |-> In(v)] /\ End(v) \in Nat
                            /\ End(v) <= T
    BY <1>5
  <2>2. DurableLog[k].in = In(v)
    BY <2>1
  <2>3. IsTerminal(v)
    BY <2>2 DEF IsTerminal
  <2>4. End(w) <= End(v)
    BY <1>2, <2>1, <2>3 DEF Contents
  <2> QED
    BY <1>2, <2>1, <2>4
<1>8. in.tok # Unset => in.tok = Abs!TokenAfter(DurableLog)
  <2> SUFFICES ASSUME in.tok # Unset
               PROVE  in.tok = Abs!TokenAfter(DurableLog)
    OBVIOUS
  <2>1. PICK tok : tok = in.tok
    OBVIOUS
  <2>2. InForce(tok, TailAt(flushed))
    <3>1. InForce(In(w).tok, w.start)
      BY <1>2, <1>b DEF Contents
    <3> QED
      BY <1>2, <1>b, <2>1, <3>1
  <2> QED
    BY <2>1, <2>2, TokenAtEnd
<1>9. in.match # -1 => in.match = Len(DurableLog)
  BY <1>1, <1>2, <1>b DEF Contents, LogTyped
<1>10. DurableLog' = DurableLog \o [i \in 1..in.n |-> [req |-> r, in |-> in]]
  BY <1>a, <1>b, LogGrows
<1>11. Asked' = Asked
  BY DEF Asked, Flush, InputOf
<1>12. Abs!AbsCommit(r)
  BY <1>3, <1>4, <1>6, <1>7, <1>8, <1>9, <1>10, <1>11
  DEF Abs!AbsCommit, Abs!Committed, Abs!Sealed, Abs!Holds, Asked
<1> QED
  BY <1>2, <1>3, <1>12

\* A message that reaches the streamer is a request of the abstract log.
LEMMA SubmitStep ==
    ASSUME Inv, Inv', Contents, Contents', NEW p \in Producers, Send(p)
    PROVE  Abs!AbsSubmit
<1>1. PICK r :
        /\ UNCHANGED <<script, wal, flushed>> /\ reqs' = Append(reqs, r) /\ r.reply # "ok"
  <2>1. PICK b \in 1..Batches(p) :
          /\ UNCHANGED <<script, wal, flushed>>
          /\ \/ Drop(p, b)
             \/ Refuse(p, b, script.of[p].in[b])
             \/ Accept(p, b, script.of[p].in[b])
    BY SendIs
  <2>2. CASE Drop(p, b)
    <3>1. PICK r : r = Request(p, b, -1, "lost", 0, <<>>)
      OBVIOUS
    <3>2. r.reply = "lost"
      BY <3>1 DEF Request
    <3> QED
      BY <2>1, <2>2, <3>1, <3>2 DEF Drop
  <2>3. CASE Refuse(p, b, script.of[p].in[b])
    <3>1. PICK now, dep, saw :
            reqs' = Append(reqs, Request(p, b, -1, IF now THEN "rejected" ELSE "pending", dep, saw))
      BY <2>3 DEF Refuse
    <3>2. PICK r : r = Request(p, b, -1, IF now THEN "rejected" ELSE "pending", dep, saw)
      OBVIOUS
    <3>3. r.reply # "ok"
      BY <3>2 DEF Request
    <3> QED
      BY <2>1, <3>1, <3>2, <3>3
  <2>4. CASE Accept(p, b, script.of[p].in[b])
    <3>1. PICK at, dep, saw : reqs' = Append(reqs, Request(p, b, at, "pending", dep, saw))
      BY <2>4 DEF Accept
    <3>2. PICK r : r = Request(p, b, at, "pending", dep, saw)
      OBVIOUS
    <3>3. r.reply # "ok"
      BY <3>2 DEF Request
    <3> QED
      BY <2>1, <3>1, <3>2, <3>3
  <2> QED
    BY <2>1, <2>2, <2>3, <2>4
<1>a. PICK n : n = Len(reqs)
  OBVIOUS
<1>2. /\ AskedTypes /\ AskedTypes' /\ reqs \in Seq(Message) /\ reqs' \in Seq(Message) /\ n \in Nat
      /\ DOMAIN reqs = 1..n
  BY <1>a, AskedHolds, AskedNext DEF Inv, Types
<1>3. /\ Len(reqs') = n + 1 /\ DOMAIN reqs' = 1..n + 1 /\ reqs'[n + 1] = r
      /\ \A id \in 1..n : reqs'[id] = reqs[id]
  BY <1>1, <1>2, <1>a
<1>4. ASSUME NEW id \in 1..n
      PROVE  Asked'[id] = Asked[id]
  <2>1. id \in DOMAIN reqs /\ id \in DOMAIN reqs' /\ reqs'[id] = reqs[id]
    BY <1>2, <1>3
  <2>2. InputOf(id)' = InputOf(id)
    BY <1>1, <2>1 DEF InputOf
  <2> QED
    BY <2>1, <2>2 DEF Asked
<1>5. Len(Asked') = n + 1 /\ Len(Asked) = n
  BY <1>2, <1>3, <1>a DEF AskedTypes
<1>6. SubSeq(Asked', 1, n) = Asked
  <2>1. PICK S : S = [in : AllInputs, reply : Replied, at : Nat \cup {-1}]
    OBVIOUS
  <2>2. Asked \in Seq(S) /\ \A id \in 1..n : Asked'[id] \in S
    <3>1. Asked \in Seq(S) /\ \A id \in DOMAIN reqs : Asked[id] \in S
      BY <1>2, <2>1 DEF AskedTypes
    <3> QED
      BY <1>2, <1>4, <3>1
  <2>3. PICK u : u = SubSeq(Asked', 1, n)
    OBVIOUS
  <2>4. u \in Seq(S) /\ Len(u) = n /\ \A i \in 1..n : u[i] = Asked'[i]
    BY <1>2, <2>2, <2>3, SubSeqProperties
  <2>5. \A i \in 1..Len(u) : u[i] = Asked[i]
    BY <1>4, <2>4
  <2>6. u = Asked
    BY <1>5, <2>2, <2>4, <2>5, SeqEqual
  <2> QED
    BY <2>3, <2>6
<1>7. Asked'[n + 1].in \in AllInputs /\ Asked'[n + 1].reply \in {"pending", "rejected", "lost"}
  <2>1. n + 1 \in DOMAIN reqs'
    BY <1>2, <1>3
  <2>2. /\ Asked'[n + 1] \in [in : AllInputs, reply : Replied, at : Nat \cup {-1}]
        /\ Asked'[n + 1].reply = r.reply
    BY <1>2, <1>3, <2>1 DEF AskedTypes
  <2> QED
    BY <1>1, <2>2 DEF Replied
<1>8. DurableLog' = DurableLog
  <2>1. SameRequests
    BY <1>1, <1>2, <1>3 DEF SameRequests
  <2>2. Durably
    BY <1>1 DEF Durably, Inv, Types
  <2>3. TailAt(flushed)' = TailAt(flushed)
    BY <1>1, <2>2, SameTail
  <2> QED
    BY <2>1, <2>2, <2>3, SameLog
<1> QED
  BY <1>5, <1>6, <1>7, <1>8 DEF Abs!AbsSubmit, Asked

\* A step that takes nothing to storage and asks for nothing.
Quiet == Answered /\ Durably /\ flushed' = flushed

LEMMA StorageQuiet ==
    ASSUME Inv, UNCHANGED <<script, flushed, reqs>>,
           wal' = wal \/ wal' = SubSeq(wal, 1, flushed) \/ \E e \in Entry : wal' = Append(wal, e)
    PROVE  Quiet
<1>1. Types /\ wal \in Seq(Entry) /\ flushed \in 0..Len(wal) /\ flushed \in Nat /\ Len(wal) \in Nat
  BY DEF Inv, Types
<1>2. \A i \in 1..flushed : wal'[i] = wal[i]
  <2>1. CASE wal' = wal
    BY <2>1
  <2>2. CASE wal' = SubSeq(wal, 1, flushed)
    BY <1>1, <2>2
  <2>3. ASSUME NEW e \in Entry, wal' = Append(wal, e), NEW i \in 1..flushed
        PROVE  wal'[i] = wal[i]
    BY <1>1, <2>3
  <2> QED
    BY <2>1, <2>2, <2>3
<1> QED
  BY <1>1, <1>2, NobodyAnswered DEF Quiet, Durably

LEMMA EndQuiet ==
    ASSUME Inv, UNCHANGED <<script, wal, flushed>>, reqs' = Unanswered
    PROVE  Quiet
<1>1. Types /\ flushed \in Nat
  BY DEF Inv, Types
<1> QED
  BY <1>1, UnansweredIs DEF Quiet, Durably

LEMMA StreamQuiet ==
    ASSUME Inv, StreamStep, ~Flush, UNCHANGED <<cl, rd>>
    PROVE  Quiet
<1>1. CASE StartStreamer \/ Restart \/ ListTrim \/ DeleteRecords
  BY <1>1, StorageQuiet DEF StartStreamer, Restart, ListTrim, DeleteRecords, dbVars
<1>2. CASE Dormancy \/ FailWrite \/ Crash
  BY <1>2, EndQuiet DEF Dormancy, FailWrite, Crash, Exit, dbVars
<1>3. CASE PollWrite
  <2>1. PICK i \in DOMAIN st.futs : wal' = Append(wal, st.futs[i].write)
    BY <1>3 DEF PollWrite
  <2>2. st.futs[i].write \in Entry
    BY <1>3, FutTypes DEF PollWrite
  <2>3. UNCHANGED <<script, flushed, reqs>>
    BY <1>3 DEF PollWrite
  <2> QED
    BY <2>1, <2>2, <2>3, StorageQuiet
<1>4. CASE FinalizeTrim
  <2>1. PICK op, none : op \in {"drop", "trimmed"} /\ none = <<>>
                        /\ op = IF bg.point = MaxSeq THEN "drop" ELSE "trimmed"
    OBVIOUS
  <2>2. PICK e : e = [op |-> op, req |-> 0, start |-> 0, n |-> 0, fence |-> none, trim |-> <<0>>]
    OBVIOUS
  <2>3. wal' = wal \/ wal' = Append(wal, e)
    BY <1>4, <2>1, <2>2 DEF FinalizeTrim
  <2>4. e \in Entry
    <3>1. none \in Seq(Tokens) /\ <<0>> \in Seq(Nat)
      BY <2>1
    <3> QED
      BY <2>1, <2>2, <3>1 DEF Entry
  <2>5. UNCHANGED <<script, flushed, reqs>>
    BY <1>4 DEF FinalizeTrim
  <2> QED
    BY <2>3, <2>4, <2>5, StorageQuiet
<1>5. CASE CompleteWrite
  <2>1. Answered
    BY <1>5, CompleteWriteKeeps
  <2>2. UNCHANGED <<wal, flushed>>
    BY <1>5 DEF CompleteWrite, dbVars
  <2>3. flushed \in Nat
    BY DEF Inv, Types
  <2> QED
    BY <2>1, <2>2, <2>3 DEF Quiet, Durably
<1> QED
  BY <1>1, <1>2, <1>3, <1>4, <1>5 DEF StreamStep

LEMMA SessionQuiet ==
    ASSUME Inv, NEW p \in Producers, ProducerStep(p), ~Send(p)
    PROVE  Quiet
<1>1. CASE Connect(p) \/ Refused(p) \/ Ack(p) \/ SessionError(p)
  BY <1>1, StorageQuiet DEF Connect, Refused, Ack, SessionError, streamVars, dbVars
<1>2. CASE Disconnect(p)
  <2>1. Answered
    BY <1>2, DisconnectKeeps
  <2>2. UNCHANGED <<wal, flushed>> /\ flushed \in Nat
    BY <1>2 DEF Disconnect, dbVars, Inv, Types
  <2> QED
    BY <2>1, <2>2 DEF Quiet, Durably
<1> QED
  BY <1>1, <1>2 DEF ProducerStep

\* A mark of the trim task becomes durable.
LEMMA MarkFlushed ==
    ASSUME Inv, Flush, flushed + 1 \notin Batched
    PROVE  Answered /\ Durably /\ TailAt(flushed)' = TailAt(flushed)
<1>1. /\ UNCHANGED <<script, wal, reqs>> /\ flushed' = flushed + 1 /\ flushed < Len(wal)
      /\ Types /\ Laid /\ LogFacts /\ flushed \in 0..Len(wal) /\ flushed \in Nat
      /\ Len(wal) \in Nat
  BY LogFactsHold DEF Flush, Inv, Types
<1>2. Answered /\ Durably
  BY <1>1, NobodyAnswered DEF Durably
<1>3. PICK k : k = flushed + 1
  OBVIOUS
<1>4. k \in 0..Len(wal) /\ TailAt(k) \in Nat /\ TailAt(flushed) \in Nat
  BY <1>1, <1>3 DEF LogFacts
<1>5. \A j \in Batched : j <= k <=> j <= flushed
  BY <1>1, <1>3 DEF Batched
<1>6. TailAt(k) <= TailAt(flushed) /\ TailAt(flushed) <= TailAt(k)
  <2>1. /\ \A j \in Batched : j <= k => End(wal[j]) <= TailAt(flushed)
        /\ \A j \in Batched : j <= flushed => End(wal[j]) <= TailAt(k)
    BY <1>1, <1>4, <1>5 DEF LogFacts
  <2> QED
    BY <1>1, <1>4, <2>1, TailLeast
<1>7. TailAt(k)' = TailAt(k)
  BY <1>1 DEF TailAt
<1>8. TailAt(flushed)' = TailAt(k)
  BY <1>1, <1>3, <1>7 DEF TailAt
<1> QED
  BY <1>2, <1>4, <1>6, <1>8

LEMMA StepImplements ==
    ASSUME Inv, Inv', Whole, Whole', [Next]_vars
    PROVE  [Abs!AbsNext]_Abs!absVars
<1>1. Contents /\ Contents'
  BY DEF Whole
<1>2. ASSUME Quiet PROVE Abs!AbsNext
  BY <1>1, <1>2, SameTail, AnswerStep DEF Quiet, Abs!AbsNext
<1>3. ASSUME Flush PROVE Abs!AbsNext
  <2>1. CASE flushed + 1 \in Batched
    BY <1>1, <1>3, <2>1, CommitStep DEF Abs!AbsNext, Asked
  <2>2. CASE flushed + 1 \notin Batched
    BY <1>1, <1>3, <2>2, MarkFlushed, AnswerStep DEF Abs!AbsNext
  <2> QED
    BY <2>1, <2>2
<1>4. ASSUME NEW p \in Producers, Send(p) PROVE Abs!AbsNext
  BY <1>1, <1>4, SubmitStep DEF Abs!AbsNext
<1>5. CASE StreamStep /\ UNCHANGED <<cl, rd>>
  BY <1>2, <1>3, <1>5, StreamQuiet
<1>6. ASSUME NEW p \in Producers, ProducerStep(p) PROVE Abs!AbsNext
  BY <1>2, <1>4, <1>6, SessionQuiet
<1>7. CASE ReaderStep \/ UNCHANGED vars
  <2>1. UNCHANGED <<script, wal, flushed, reqs>>
    BY <1>7 DEF ReaderStep, OpenRead, CatchUp, Follow, Receive, Lag, ReadError, streamVars, dbVars,
                vars
  <2> QED
    BY <1>2, <2>1, StorageQuiet
<1> QED
  BY <1>5, <1>6, <1>7 DEF Next

LEMMA InitImplements == Init => Abs!AbsInit
<1> SUFFICES ASSUME Init PROVE Abs!AbsInit
  OBVIOUS
<1>1. Inv /\ Contents /\ wal = <<>> /\ flushed = 0 /\ reqs = <<>>
  BY InitInv, InitWhole DEF Whole, Init, StreamInit
<1>2. DOMAIN reqs = {} /\ 1..Len(wal) = {}
  BY <1>1
<1>3. Asked = <<>>
  BY <1>2 DEF Asked
<1>4. TailAt(flushed) = 0
  <2>1. Batched = {}
    BY <1>2 DEF Batched
  <2>2. wal \in Seq(Entry) /\ 0 \in 0..Len(wal)
    BY <1>1
  <2> QED
    BY <1>1, <2>1, <2>2, TailFacts
<1>5. DurableLog = <<>>
  <2>1. Len(DurableLog) = 0 /\ DurableLog \in Seq(AbsRecord)
    BY <1>1, <1>4, LogIsTyped DEF LogTyped
  <2> QED
    BY <2>1
<1> QED
  BY <1>3, <1>5 DEF Abs!AbsInit, Asked

\* The streamer, its pipelined writes and its retrying clients implement the
\* one log that AppendLog describes: every append takes effect at once, at most
\* once, where its conditions hold, and every answer tells the truth about it.
THEOREM ImplementsLogCorrect ==
    ASSUME ~StallPastDormancy
    PROVE  Spec => ImplementsLog
<1>1. Init => Inv /\ Whole /\ Abs!AbsInit
  BY InitInv, InitWhole, InitImplements
<1>2. Inv /\ Whole /\ [Next]_vars => (Inv /\ Whole)' /\ [Abs!AbsNext]_Abs!absVars
  BY StepInv, StepWhole, StepImplements
<1> QED
  BY <1>1, <1>2, PTL DEF Spec, ImplementsLog, Abs!AbsSpec

-----------------------------------------------------------------------------
(* The reader *)

Record == [seq : Nat, req : Nat]

Reader == [pc : {"idle", "catchup", "follow", "absent"}, id : Nat, next : Nat, tail : Nat,
           got : Seq(Record)]

Follower == [live : BOOLEAN, lagged : BOOLEAN, buf : Seq(Nat)]

\* The position behind the records of an accepted request.
EndOf(id) == reqs[id].at + InputOf(id).n

\* The reader does not get ahead of the tail, which is durable.
Position ==
    /\ rd.next <= TailAt(flushed) /\ rd.tail <= TailAt(flushed)
    /\ st.up => rd.next <= st.stable /\ rd.tail <= st.stable
    /\ rd.pc = "catchup" => rd.next <= rd.tail
    /\ rd.pc = "follow" => rd.next = rd.tail

\* The batches in a channel are stored and lead on from position x, each from the
\* end of the one before it.
Leads(buf, x) == \A k \in DOMAIN buf :
    /\ buf[k] \in DOMAIN reqs /\ Placed(buf[k])
    /\ st.up => EndOf(buf[k]) <= st.stable
    /\ reqs[buf[k]].at = IF k = 1 THEN x ELSE EndOf(buf[k - 1])

\* Where they lead to.
Reach(buf, x) == IF buf = <<>> THEN x ELSE EndOf(buf[Len(buf)])

\* What was broadcast and not received leads from the reader to the tail, unless
\* the reader has lagged.
Broadcasted ==
    /\ follow.live => st.up
    /\ rd.pc = "follow" /\ ~follow.lagged =>
        /\ Leads(follow.buf, rd.next)
        /\ follow.live => Reach(follow.buf, rd.next) = st.stable

\* got delivers the log up to position x, but for what was deleted.
Delivers(got, x) ==
    /\ \A i \in DOMAIN got : got[i] \in Durable /\ got[i].seq < x
    /\ \A i, j \in DOMAIN got : i < j => got[i].seq < got[j].seq
    /\ \A s \in 0..x - 1 : s \in gone \/ \E i \in DOMAIN got : got[i].seq = s

Reading ==
    /\ rd \in Reader /\ follow \in Follower
    /\ Position /\ Broadcasted
    /\ Delivers(rd.got, rd.next)


\* How many records of S precede r.
Rank(S, r) == Cardinality({q \in S : Below(q, r)})

InOrder(S) == [k \in 1..Cardinality(S) |-> CHOOSE r \in S : Rank(S, r) = k - 1]

LEMMA RankFacts ==
    ASSUME NEW S \in SUBSET Record, IsFiniteSet(S), \A q, r \in S : q.seq = r.seq => q = r
    PROVE  /\ Cardinality(S) \in Nat
           /\ \A r \in S : Rank(S, r) \in 0..Cardinality(S) - 1
           /\ \A q, r \in S : q.seq < r.seq => Rank(S, q) < Rank(S, r)
           /\ \A q, r \in S : Rank(S, q) = Rank(S, r) => q = r
           /\ \A k \in 0..Cardinality(S) - 1 : \E r \in S : Rank(S, r) = k
<1> DEFINE P(r) == {q \in S : Below(q, r)}
<1>1. \A r \in S : r.seq \in Nat /\ r.req \in Nat
  BY DEF Record
<1>2. Cardinality(S) \in Nat
  BY FS_CardinalityType
<1>3. ASSUME NEW r \in S
      PROVE  /\ P(r) \in SUBSET S /\ r \notin P(r) /\ IsFiniteSet(P(r))
             /\ Cardinality(P(r)) \in Nat /\ Cardinality(P(r)) <= Cardinality(S)
             /\ Cardinality(P(r)) # Cardinality(S)
             /\ Rank(S, r) = Cardinality(P(r))
  <2>1. r \notin P(r)
    BY <1>1 DEF Below
  <2>2. P(r) \in SUBSET S
    OBVIOUS
  <2>3. Rank(S, r) = Cardinality(P(r))
    BY DEF Rank
  <2> HIDE DEF P
  <2>4. IsFiniteSet(P(r)) /\ Cardinality(P(r)) <= Cardinality(S)
        /\ (Cardinality(S) = Cardinality(P(r)) => S = P(r))
    BY <2>2, FS_Subset
  <2>5. Cardinality(P(r)) \in Nat
    BY <2>4, FS_CardinalityType
  <2> QED
    BY <2>1, <2>2, <2>3, <2>4, <2>5
<1>4. ASSUME NEW r \in S PROVE Rank(S, r) \in 0..Cardinality(S) - 1
  <2> HIDE DEF P
  <2> QED
    BY <1>2, <1>3
<1>5. ASSUME NEW q \in S, NEW r \in S, q.seq < r.seq
      PROVE  Rank(S, q) < Rank(S, r)
  <2>1. P(q) \in SUBSET P(r)
    BY <1>1, <1>5 DEF Below
  <2>2. q \in P(r)
    BY <1>5 DEF Below
  <2> HIDE DEF P
  <2>3. q \notin P(q) /\ IsFiniteSet(P(r))
    BY <1>3
  <2>4. /\ Cardinality(P(q)) <= Cardinality(P(r))
        /\ Cardinality(P(r)) = Cardinality(P(q)) => P(r) = P(q)
    BY <2>1, <2>3, FS_Subset
  <2>5. Cardinality(P(q)) # Cardinality(P(r))
    BY <2>2, <2>3, <2>4
  <2> QED
    BY <1>3, <2>4, <2>5
<1>6. ASSUME NEW q \in S, NEW r \in S, Rank(S, q) = Rank(S, r)
      PROVE  q = r
  <2>1. Rank(S, q) \in Nat
    BY <1>3
  <2>2. ~(q.seq < r.seq) /\ ~(r.seq < q.seq)
    BY <1>5, <1>6, <2>1
  <2> QED
    BY <1>1, <2>2
<1>7. \A k \in 0..Cardinality(S) - 1 : \E r \in S : Rank(S, r) = k
  <2> DEFINE T == 0..Cardinality(S) - 1
             f == [r \in S |-> Rank(S, r)]
  <2>1. f \in Injection(S, T)
    BY <1>4, <1>6 DEF Injection, IsInjective
  <2>2. IsFiniteSet(T) /\ Cardinality(T) = Cardinality(S)
    <3>1. PICK n : n = Cardinality(S)
      OBVIOUS
    <3>2. 0 \in Int /\ n - 1 \in Int /\ n \in Nat
      BY <1>2, <3>1
    <3>3. IsFiniteSet(0..n - 1) /\ Cardinality(0..n - 1) = IF 0 > n - 1 THEN 0 ELSE n - 1 - 0 + 1
      BY <3>2, FS_Interval
    <3> QED
      BY <3>1, <3>2, <3>3
  <2> HIDE DEF T
  <2>3. f \in Surjection(S, T)
    <3> HIDE DEF f
    <3> QED
      BY <2>1, <2>2, FS_Injection
  <2> QED
    BY <2>3 DEF Surjection, T
<1> QED
  BY <1>2, <1>4, <1>5, <1>6, <1>7

\* The records of S one after the other.
LEMMA InOrderFacts ==
    ASSUME NEW S \in SUBSET Record, IsFiniteSet(S), \A q, r \in S : q.seq = r.seq => q = r
    PROVE  /\ InOrder(S) \in Seq(S) /\ Len(InOrder(S)) = Cardinality(S) /\ Cardinality(S) \in Nat
           /\ \A i, j \in 1..Cardinality(S) : i < j => InOrder(S)[i].seq < InOrder(S)[j].seq
           /\ \A r \in S : \E k \in 1..Cardinality(S) : InOrder(S)[k] = r
<1>1. PICK n, d : n = Cardinality(S) /\ d = InOrder(S)
  OBVIOUS
<1>2. /\ n \in Nat
      /\ \A r \in S : Rank(S, r) \in 0..n - 1
      /\ \A q, r \in S : q.seq < r.seq => Rank(S, q) < Rank(S, r)
      /\ \A q, r \in S : Rank(S, q) = Rank(S, r) => q = r
      /\ \A k \in 0..n - 1 : \E r \in S : Rank(S, r) = k
  BY <1>1, RankFacts
<1>3. d = [k \in 1..n |-> CHOOSE r \in S : Rank(S, r) = k - 1]
  BY <1>1 DEF InOrder
<1>4. ASSUME NEW k \in 1..n PROVE d[k] \in S /\ Rank(S, d[k]) = k - 1
  <2>1. k - 1 \in 0..n - 1
    BY <1>2
  <2>2. \E r \in S : Rank(S, r) = k - 1
    BY <1>2, <2>1
  <2>3. d[k] = CHOOSE r \in S : Rank(S, r) = k - 1
    BY <1>3
  <2> QED
    BY <2>2, <2>3
<1>5. d \in Seq(S) /\ Len(d) = n
  <2>1. d \in [1..n -> S]
    BY <1>3, <1>4
  <2> QED
    BY <1>2, <2>1
<1>6. ASSUME NEW i \in 1..n, NEW j \in 1..n, i < j PROVE d[i].seq < d[j].seq
  <2>1. d[i] \in S /\ d[j] \in S /\ Rank(S, d[i]) = i - 1 /\ Rank(S, d[j]) = j - 1
    BY <1>4
  <2>2. ~(d[j].seq < d[i].seq) /\ d[i] # d[j]
    BY <1>2, <1>6, <2>1
  <2>3. d[i].seq \in Nat /\ d[j].seq \in Nat /\ d[i].seq # d[j].seq
    BY <2>1, <2>2 DEF Record
  <2> QED
    BY <2>2, <2>3
<1>7. ASSUME NEW r \in S PROVE \E k \in 1..n : d[k] = r
  <2>1. PICK k \in 1..n : Rank(S, r) = k - 1
    <3>1. Rank(S, r) \in 0..n - 1
      BY <1>2
    <3>2. PICK m : m = Rank(S, r)
      OBVIOUS
    <3>3. m + 1 \in 1..n /\ m = (m + 1) - 1
      BY <1>2, <3>1, <3>2
    <3> QED
      BY <3>2, <3>3
  <2>2. d[k] \in S /\ Rank(S, d[k]) = k - 1
    BY <1>4
  <2> QED
    BY <1>2, <2>1, <2>2
<1> QED
  BY <1>1, <1>2, <1>5, <1>6, <1>7
\* Positions of the log are taken once.
LEMMA OneRecord ==
    ASSUME Inv, NEW q \in Durable, NEW r \in Durable, q.seq = r.seq
    PROVE  q = r
<1>1. PICK v \in Writes : /\ q.req = v.req /\ v.start <= q.seq /\ q.seq < End(v)
                          /\ q.seq \in Nat /\ q = [seq |-> q.seq, req |-> v.req]
  BY DurableRecords
<1>2. PICK w \in Writes : /\ r.req = w.req /\ w.start <= r.seq /\ r.seq < End(w)
                          /\ r.seq \in Nat /\ r = [seq |-> r.seq, req |-> w.req]
  BY DurableRecords
<1>3. v.start \in Nat /\ End(v) \in Nat /\ w.start \in Nat /\ End(w) \in Nat
      /\ (v = w \/ End(v) <= w.start \/ End(w) <= v.start)
  BY LineHolds DEF Line
<1>4. v = w
  BY <1>1, <1>2, <1>3
<1> QED
  BY <1>1, <1>2, <1>4

LEMMA DurableTypes ==
    ASSUME Inv, NEW r \in Durable
    PROVE  r \in Record /\ r.seq < TailAt(flushed)
<1>1. PICK w \in Writes : /\ r.req = w.req /\ w.start <= r.seq /\ r.seq < End(w)
                          /\ End(w) <= TailAt(flushed) /\ r.seq \in Nat
                          /\ r = [seq |-> r.seq, req |-> w.req]
  BY DurableRecords
<1>2. w \in Entry /\ End(w) \in Nat /\ TailAt(flushed) \in Nat
  BY LineHolds DEF Line
<1>3. w.req \in Nat
  BY <1>2 DEF Entry
<1> QED
  BY <1>1, <1>2, <1>3 DEF Record

\* Durable records delivered behind what the reader has got.
LEMMA DeliveredFacts ==
    ASSUME Inv, Reading, NEW S \in SUBSET Durable, NEW x \in Nat, rd.next <= x,
           \A r \in S : rd.next <= r.seq /\ r.seq < x,
           \A s \in rd.next..x - 1 : s \in gone \/ \E r \in S : r.seq = s
    PROVE  Delivered(S) \in Seq(Record) /\ Delivers(Delivered(S), x)
<1>1. S \in SUBSET Record /\ \A q, r \in S : q.seq = r.seq => q = r
  BY DurableTypes, OneRecord
<1>2. IsFiniteSet(S)
  <2> DEFINE f == [r \in S |-> r.seq]
             T == 0..x - 1
  <2>1. IsFiniteSet(T)
    BY FS_Interval
  <2>2. \A r \in S : r.seq \in T
    BY <1>1 DEF Record
  <2>3. f \in Injection(S, T)
    BY <1>1, <2>2 DEF Injection, IsInjective
  <2> HIDE DEF f, T
  <2> QED
    BY <2>1, <2>3, FS_Injection
<1>3. PICK old, n, d : old = rd.got /\ n = Cardinality(S) /\ d = InOrder(S)
  OBVIOUS
<1>4. /\ d \in Seq(S) /\ Len(d) = n /\ n \in Nat
      /\ \A i, j \in 1..n : i < j => d[i].seq < d[j].seq
      /\ \A r \in S : \E k \in 1..n : d[k] = r
  BY <1>1, <1>2, <1>3, InOrderFacts
<1>5. rd.next \in Nat /\ old \in Seq(Record) /\ Delivers(old, rd.next)
  BY <1>3 DEF Reading, Reader
<1>6. Delivered(S) = old \o d
  BY <1>3 DEF Delivered, InOrder, Rank
<1>7. PICK g : g = old \o d
  OBVIOUS
<1>8. PICK m : m = Len(old)
  OBVIOUS
<1>9. /\ g \in Seq(Record) /\ m \in Nat /\ DOMAIN g = 1..m + n
      /\ DOMAIN old = 1..m
      /\ \A i \in 1..m : g[i] = old[i]
      /\ \A i \in m + 1..m + n : g[i] = d[i - m] /\ i - m \in 1..n
  <2>1. d \in Seq(Record)
    BY <1>1, <1>4
  <2>2. /\ old \o d \in Seq(Record) /\ Len(old \o d) = Len(old) + Len(d)
        /\ \A i \in 1..Len(old) + Len(d) :
            (old \o d)[i] = IF i <= Len(old) THEN old[i] ELSE d[i - Len(old)]
    BY <1>5, <2>1, ConcatProperties
  <2>3. m \in Nat /\ DOMAIN old = 1..m
    BY <1>5, <1>8
  <2>4. /\ g \in Seq(Record) /\ Len(g) = m + n
        /\ \A i \in 1..m + n : g[i] = IF i <= m THEN old[i] ELSE d[i - m]
    BY <1>4, <1>7, <1>8, <2>2
  <2> QED
    BY <1>4, <2>3, <2>4
<1>10. \A i \in 1..m + n : i \in 1..m \/ i \in m + 1..m + n
  BY <1>4, <1>9
<1>11. ASSUME NEW i \in 1..m
       PROVE  g[i] = old[i] /\ old[i] \in Durable /\ old[i].seq < rd.next /\ old[i].seq \in Nat
  <2>1. i \in DOMAIN old /\ g[i] = old[i]
    BY <1>9
  <2> QED
    BY <1>5, <2>1, DurableTypes DEF Delivers, Record
<1>12. ASSUME NEW i \in m + 1..m + n
       PROVE  /\ g[i] = d[i - m] /\ i - m \in 1..n /\ g[i] \in S /\ g[i] \in Durable
              /\ rd.next <= g[i].seq /\ g[i].seq < x /\ g[i].seq \in Nat
  <2>1. g[i] = d[i - m] /\ i - m \in 1..n
    BY <1>9
  <2>2. d[i - m] \in S
    BY <1>4, <2>1
  <2> QED
    BY <1>1, <2>1, <2>2 DEF Record
<1>13. \A i \in DOMAIN g : g[i] \in Durable /\ g[i].seq < x
  BY <1>5, <1>9, <1>10, <1>11, <1>12
<1>14. ASSUME NEW i \in DOMAIN g, NEW j \in DOMAIN g, i < j
       PROVE  g[i].seq < g[j].seq
  <2>1. CASE i \in 1..m /\ j \in 1..m
    BY <1>5, <1>9, <1>11, <1>14, <2>1 DEF Delivers
  <2>2. CASE i \in 1..m /\ j \in m + 1..m + n
    BY <1>5, <1>11, <1>12, <2>2
  <2>3. CASE i \in m + 1..m + n /\ j \in m + 1..m + n
    <3>1. i - m < j - m
      BY <1>4, <1>9, <1>14, <2>3
    <3> QED
      BY <1>4, <1>12, <2>3, <3>1
  <2>4. CASE i \in m + 1..m + n /\ j \in 1..m
    BY <1>4, <1>9, <1>14, <2>4
  <2> QED
    BY <1>9, <1>10, <2>1, <2>2, <2>3, <2>4
<1>15. ASSUME NEW s \in 0..x - 1
       PROVE  s \in gone \/ \E i \in DOMAIN g : g[i].seq = s
  <2>1. CASE s \in 0..rd.next - 1
    <3>1. s \in gone \/ \E i \in DOMAIN old : old[i].seq = s
      BY <1>5, <2>1 DEF Delivers
    <3>2. \A i \in DOMAIN old : i \in DOMAIN g
      BY <1>4, <1>9
    <3> QED
      BY <1>9, <1>11, <3>1, <3>2
  <2>2. CASE s \in rd.next..x - 1
    <3>1. ASSUME NEW r \in S, r.seq = s PROVE \E i \in DOMAIN g : g[i].seq = s
      <4>1. PICK k \in 1..n : d[k] = r
        BY <1>4
      <4>2. m + k \in m + 1..m + n /\ (m + k) - m = k /\ m + k \in DOMAIN g
        BY <1>4, <1>9
      <4>3. g[m + k] = d[(m + k) - m]
        BY <1>9, <4>2
      <4>4. g[m + k].seq = s
        BY <3>1, <4>1, <4>2, <4>3
      <4> QED
        BY <4>2, <4>4
    <3> QED
      BY <2>2, <3>1
  <2> QED
    BY <1>5, <2>1, <2>2
<1> QED
  BY <1>6, <1>7, <1>9, <1>13, <1>14, <1>15 DEF Delivers

\* The records of a request that is in storage.
PlacedFacts == \A id : Placed(id) =>
    /\ id \in DOMAIN reqs /\ id \in Nat
    /\ reqs[id].at \in Nat /\ EndOf(id) \in Nat /\ reqs[id].at < EndOf(id)
    /\ EndOf(id) <= TailAt(flushed)
    /\ \A s \in reqs[id].at..EndOf(id) - 1 : [seq |-> s, req |-> id] \in Durable

LEMMA PlacedHolds == Inv => PlacedFacts
<1> SUFFICES ASSUME Inv, NEW id, Placed(id)
             PROVE  /\ id \in DOMAIN reqs /\ id \in Nat
                    /\ reqs[id].at \in Nat /\ EndOf(id) \in Nat /\ reqs[id].at < EndOf(id)
                    /\ EndOf(id) <= TailAt(flushed)
                    /\ \A s \in reqs[id].at..EndOf(id) - 1 : [seq |-> s, req |-> id] \in Durable
  BY DEF PlacedFacts
<1>1. PICK i \in Batched : i <= flushed /\ wal[i].req = id
  BY DEF Placed
<1>2. PICK w : w = wal[i]
  OBVIOUS
<1>3. /\ w \in Writes /\ w \in Entry /\ WriteFor(w) /\ w.req = id
      /\ w.start \in Nat /\ w.n \in Nat /\ w.n > 0
      /\ End(w) \in Nat /\ w.start < End(w) /\ End(w) = w.start + w.n
      /\ End(w) <= TailAt(flushed)
  BY <1>1, <1>2, LineHolds DEF Line
<1>4. id \in DOMAIN reqs /\ reqs[id].at = w.start /\ EndOf(id) = End(w) /\ id \in Nat
  BY <1>3 DEF WriteFor, EndOf, Entry
<1>5. ASSUME NEW s \in w.start..End(w) - 1
      PROVE  [seq |-> s, req |-> id] \in Durable
  <2>1. PICK j : j = s - w.start + 1
    OBVIOUS
  <2>2. j \in 1..w.n /\ w.start + j - 1 = s
    BY <1>3, <2>1
  <2>3. [seq |-> s, req |-> id] = [seq |-> wal[i].start + j - 1, req |-> wal[i].req]
    BY <1>2, <1>3, <2>2
  <2> QED
    BY <1>1, <1>2, <2>2, <2>3, DurableRecords
<1> QED
  BY <1>3, <1>4, <1>5

LEMMA PlacedNext == Inv' => PlacedFacts'
BY PlacedHolds, PTL

LEMMA DurableStays ==
    ASSUME Inv, Durably
    PROVE  Durable \subseteq Durable'
<1>1. flushed \in Nat /\ flushed' \in Nat /\ flushed <= flushed'
  BY DEF Inv, Types, Durably
<1>2. \A i \in 1..flushed : i \in 1..flushed' /\ wal'[i] = wal[i]
  BY <1>1 DEF Durably
<1> SUFFICES ASSUME NEW r \in Durable PROVE r \in Durable'
  OBVIOUS
<1>3. PICK i \in 1..flushed : r \in {[seq |-> wal[i].start + j - 1, req |-> wal[i].req] : j \in 1..wal[i].n}
  BY DEF Durable, RecordsAt
<1>4. i \in 1..flushed' /\ wal'[i] = wal[i]
  BY <1>2
<1>5. r \in {[seq |-> wal'[i].start + j - 1, req |-> wal'[i].req] : j \in 1..wal'[i].n}
  BY <1>3, <1>4
<1> QED
  BY <1>4, <1>5 DEF Durable, RecordsAt

\* A step that is not the reader's own takes none of its progress away.
LEMMA ProgressStays ==
    ASSUME Inv, Inv', Reading, rd' = rd, SameRequests, Durably, gone \subseteq gone',
           st'.up => \/ st.up /\ st'.stable \in Nat /\ st.stable <= st'.stable
                     \/ st'.stable = TailAt(flushed)'
    PROVE  /\ Position' /\ Delivers(rd.got, rd.next)'
           /\ \A buf \in Seq(Nat) : \A x :
                Leads(buf, x) => Leads(buf, x)' /\ Reach(buf, x)' = Reach(buf, x)
<1>1. /\ rd \in Reader /\ Position /\ Delivers(rd.got, rd.next) /\ rd.next \in Nat /\ rd.tail \in Nat
  BY DEF Reading, Reader
<1>2. /\ TailAt(flushed) \in Nat /\ TailAt(flushed)' \in Nat /\ TailAt(flushed) <= TailAt(flushed)'
      /\ \A id : Placed(id) => Placed(id)'
  BY DurablyKeeps DEF Inv
<1>3. st.up => st.stable \in Nat
  BY FutTypes
<1>4. \A id \in DOMAIN reqs : id \in DOMAIN reqs' /\ reqs'[id].at = reqs[id].at /\ EndOf(id)' = EndOf(id)
  BY DEF SameRequests, EndOf, InputOf
<1>5. PlacedFacts /\ PlacedFacts'
  BY PlacedHolds, PlacedNext
<1>6. Position'
  BY <1>1, <1>2, <1>3 DEF Position
<1>7. Delivers(rd.got, rd.next)'
  BY <1>1, DurableStays DEF Delivers
<1>8. ASSUME NEW B \in Seq(Nat), NEW x, Leads(B, x)
      PROVE  Leads(B, x)' /\ Reach(B, x)' = Reach(B, x)
  <2>1. ASSUME NEW k \in DOMAIN B
        PROVE  /\ B[k] \in DOMAIN reqs' /\ Placed(B[k])' /\ EndOf(B[k])' = EndOf(B[k])
               /\ st'.up => EndOf(B[k])' <= st'.stable
               /\ reqs'[B[k]].at = IF k = 1 THEN x ELSE EndOf(B[k - 1])'
    <3>1. /\ B[k] \in DOMAIN reqs /\ Placed(B[k])
          /\ st.up => EndOf(B[k]) <= st.stable
          /\ reqs[B[k]].at = IF k = 1 THEN x ELSE EndOf(B[k - 1])
      BY <1>8 DEF Leads
    <3>2. B[k] \in DOMAIN reqs' /\ Placed(B[k])' /\ EndOf(B[k])' = EndOf(B[k])
      BY <1>2, <1>4, <3>1
    <3>3. st'.up => EndOf(B[k])' <= st'.stable
      <4>1. EndOf(B[k])' <= TailAt(flushed)' /\ EndOf(B[k]) \in Nat
        BY <1>5, <3>1, <3>2 DEF PlacedFacts
      <4> QED
        BY <1>3, <3>1, <3>2, <4>1
    <3>4. reqs'[B[k]].at = IF k = 1 THEN x ELSE EndOf(B[k - 1])'
      <4>1. k # 1 => k - 1 \in DOMAIN B
        OBVIOUS
      <4>2. k # 1 => B[k - 1] \in DOMAIN reqs
        BY <1>8, <4>1 DEF Leads
      <4> QED
        BY <1>4, <3>1, <4>2
    <3> QED
      BY <3>2, <3>3, <3>4
  <2>2. Leads(B, x)'
    BY <2>1 DEF Leads
  <2>3. B # <<>> => Len(B) \in DOMAIN B
    OBVIOUS
  <2> QED
    BY <2>1, <2>2, <2>3 DEF Reach
<1> QED
  BY <1>6, <1>7, <1>8

LEMMA ReadingStays ==
    ASSUME Inv, Inv', Reading, rd' = rd, SameRequests, Durably, gone \subseteq gone',
           st'.up => \/ st.up /\ st'.stable \in Nat /\ st.stable <= st'.stable
                     \/ st'.stable = TailAt(flushed)',
           \/ follow' = follow /\ (follow.live => st'.up /\ st'.stable = st.stable)
           \/ follow' = [follow EXCEPT !.live = FALSE]
           \/ follow' = Unsubscribed
    PROVE  Reading'
<1>1. rd \in Reader /\ follow \in Follower /\ Broadcasted
  BY DEF Reading
<1>2. /\ Position' /\ Delivers(rd.got, rd.next)'
      /\ \A buf \in Seq(Nat) : \A x :
        Leads(buf, x) => Leads(buf, x)' /\ Reach(buf, x)' = Reach(buf, x)
  BY ProgressStays
<1>3. PICK none : none = <<>>
  OBVIOUS
<1>4. none \in Seq(Nat)
  BY <1>3
<1>5. /\ follow' \in Follower
      /\ follow'.live => follow' = follow /\ st'.up /\ st'.stable = st.stable
      /\ follow'.buf = none \/ (follow'.buf = follow.buf /\ follow'.lagged = follow.lagged)
  <2>1. CASE follow' = follow /\ (follow.live => st'.up /\ st'.stable = st.stable)
    BY <1>1, <2>1
  <2>2. CASE follow' = [follow EXCEPT !.live = FALSE]
    BY <1>1, <2>2 DEF Follower
  <2>3. CASE follow' = Unsubscribed
    <3>1. follow' = [live |-> FALSE, lagged |-> FALSE, buf |-> none]
      BY <1>3, <2>3 DEF Unsubscribed
    <3> QED
      BY <1>4, <3>1 DEF Follower
  <2> QED
    BY <2>1, <2>2, <2>3
<1>6. Broadcasted'
  <2>1. follow'.live => st'.up
    BY <1>5
  <2> SUFFICES ASSUME rd'.pc = "follow", ~follow'.lagged
               PROVE  /\ Leads(follow.buf, rd.next)'
                      /\ follow'.live => Reach(follow.buf, rd.next)' = st'.stable
    BY <2>1 DEF Broadcasted
  <2>2. CASE follow'.buf = none
    <3>1. Leads(follow.buf, rd.next)'
      BY <1>3, <2>2 DEF Leads
    <3>2. ASSUME follow'.live
          PROVE  Reach(follow.buf, rd.next)' = st'.stable
      <4>1. Reach(follow.buf, rd.next) = st.stable /\ follow.buf = none /\ st'.stable = st.stable
        BY <1>1, <1>5, <2>2, <3>2 DEF Broadcasted
      <4> QED
        BY <1>3, <2>2, <4>1 DEF Reach
    <3> QED
      BY <3>1, <3>2
  <2>3. CASE follow'.buf = follow.buf /\ follow'.lagged = follow.lagged
    <3>1. follow.buf \in Seq(Nat)
      BY <1>1 DEF Follower
    <3>2. PICK B, x : B = follow.buf /\ x = rd.next
      OBVIOUS
    <3>3. Leads(B, x) /\ (follow.live => Reach(B, x) = st.stable)
      BY <1>1, <2>3, <3>2 DEF Broadcasted
    <3>4. Leads(B, x)' /\ Reach(B, x)' = Reach(B, x)
      BY <1>2, <3>1, <3>2, <3>3
    <3>5. B = follow'.buf /\ x = rd'.next
      BY <2>3, <3>2
    <3> QED
      BY <1>5, <3>3, <3>4, <3>5 DEF Leads, Reach
  <2> QED
    BY <1>5, <2>2, <2>3
<1> QED
  BY <1>1, <1>2, <1>5, <1>6 DEF Reading

LEMMA ServerReading ==
    ASSUME Inv, Inv', Reading, StreamStep, ~CompleteWrite, UNCHANGED <<cl, rd>>
    PROVE  Reading'
<1>1. rd' = rd /\ Types /\ Types' /\ Settled /\ (follow.live => st.up) /\ follow \in Follower
  BY DEF Inv, Reading, Broadcasted
<1>2. SameRequests /\ Durably
  <2>1. CASE Flush
    <3>1. UNCHANGED <<script, wal, reqs>> /\ flushed' = flushed + 1 /\ flushed \in Nat
      BY <1>1, <2>1 DEF Flush, Types
    <3> QED
      BY <3>1 DEF SameRequests, Durably
  <2>2. CASE ~Flush
    <3>1. Quiet
      BY <2>2, StreamQuiet
    <3> QED
      BY <3>1 DEF Quiet, Answered, SameRequests
  <2> QED
    BY <2>1, <2>2
<1>3. gone \subseteq gone'
  BY DEF StreamStep, StartStreamer, Dormancy, PollWrite, Flush, CompleteWrite, FailWrite, Crash,
         Restart, ListTrim, DeleteRecords, FinalizeTrim, dbVars
<1>4. CASE StartStreamer
  <2>1. /\ ~follow.live /\ follow' = follow /\ TailAt(flushed)' = TailAt(flushed)
        /\ st'.stable = TailAt(flushed)
    BY <1>1, <1>4 DEF StartStreamer, Streamer, dbVars, TailAt
  <2> QED
    BY <1>1, <1>2, <1>3, <2>1, ReadingStays
<1>5. CASE Dormancy \/ FailWrite
  <2>1. ~st'.up /\ follow' = [follow EXCEPT !.live = FALSE]
    BY <1>5 DEF Dormancy, FailWrite, Exit, Down
  <2> QED
    BY <1>1, <1>2, <1>3, <2>1, ReadingStays
<1>6. CASE Crash \/ Restart
  <2>1. ~st'.up /\ follow' = Unsubscribed
    BY <1>1, <1>6 DEF Crash, Restart, Down, Settled, Unsubscribed
  <2> QED
    BY <1>1, <1>2, <1>3, <2>1, ReadingStays
<1>7. CASE PollWrite
  <2>1. st.up /\ follow' = follow
    BY <1>7 DEF PollWrite
  <2>2. st \in Streaming
    BY <2>1, FutTypes
  <2>3. PICK futs : st' = [st EXCEPT !.futs = futs]
    BY <1>7 DEF PollWrite
  <2>4. st'.up /\ st'.stable = st.stable
    BY <2>2, <2>3 DEF Streaming
  <2>5. st.stable \in Nat /\ st.stable <= st.stable
    BY <2>1, FutTypes
  <2> QED
    BY <1>1, <1>2, <1>3, <2>1, <2>4, <2>5, ReadingStays
<1>8. CASE Flush \/ ListTrim \/ DeleteRecords \/ FinalizeTrim
  <2>1. st' = st /\ follow' = follow
    BY <1>8 DEF Flush, ListTrim, DeleteRecords, FinalizeTrim, dbVars
  <2>2. st.up => st.stable \in Nat /\ st.stable <= st.stable
    BY FutTypes
  <2> QED
    BY <1>1, <1>2, <1>3, <2>1, <2>2, ReadingStays
<1> QED
  BY <1>4, <1>5, <1>6, <1>7, <1>8 DEF StreamStep

LEMMA SessionReading ==
    ASSUME Inv, Inv', Reading, NEW p \in Producers, ProducerStep(p)
    PROVE  Reading'
<1>1. Types /\ (follow.live => st.up) /\ flushed \in Nat
  BY DEF Inv, Types, Reading, Broadcasted
<1>2. UNCHANGED <<rd, follow, gone, wal, flushed>>
  BY DEF ProducerStep, Connect, Refused, Send, HandleAppend, Ack, SessionError, Disconnect,
         streamVars, dbVars
<1>3. CASE ~Send(p)
  <2>1. SameRequests /\ Durably
    BY <1>3, SessionQuiet DEF Quiet, Answered, SameRequests
  <2>2. st' = st
    BY <1>3 DEF ProducerStep, Connect, Refused, Ack, SessionError, Disconnect, streamVars
  <2>3. st.up => st.stable \in Nat /\ st.stable <= st.stable
    BY FutTypes
  <2> QED
    BY <1>1, <1>2, <2>1, <2>2, <2>3, ReadingStays
<1>4. CASE Send(p)
  <2>1. PICK b \in 1..Batches(p) :
            /\ st.up /\ script' = script
            /\ \/ Drop(p, b)
               \/ Refuse(p, b, script.of[p].in[b])
               \/ /\ ~TokenMismatch(script.of[p].in[b]) /\ ~SeqMismatch(script.of[p].in[b])
                  /\ Accept(p, b, script.of[p].in[b])
    BY <1>4, SendIs
  <2>2. st \in Streaming /\ st.next \in Nat
    BY <2>1, FutTypes
  <2>3. SameRequests
    <3>1. reqs \in Seq(Message) /\ \E r : reqs' = Append(reqs, r)
      BY <1>1, <2>1 DEF Types, Drop, Refuse, Accept
    <3>2. \A id \in DOMAIN reqs : id \in DOMAIN reqs' /\ reqs'[id] = reqs[id]
      BY <3>1
    <3> QED
      BY <2>1, <3>2 DEF SameRequests
  <2>4. st'.up /\ st'.stable = st.stable
    <3>1. CASE Drop(p, b)
      BY <2>1, <3>1 DEF Drop
    <3>2. CASE Refuse(p, b, script.of[p].in[b])
      <4>1. st' = st \/ \E q : st' = [st EXCEPT !.queue = q]
        BY <3>2 DEF Refuse
      <4> QED
        BY <2>2, <4>1 DEF Streaming
    <3>3. CASE Accept(p, b, script.of[p].in[b])
      <4>1. PICK in, a : in = script.of[p].in[b] /\ a = Applied(st, in, st.next)
        OBVIOUS
      <4>2. in \in AllInputs /\ IsBatch(in)
        BY <1>1, <4>1, BatchOf
      <4>3. a \in Streaming /\ a.stable = st.stable
        BY <2>2, <4>1, <4>2, AppliedFacts
      <4>4. \E x, f, q : st' = [a EXCEPT !.next = x, !.futs = f, !.queue = q]
        BY <3>3, <4>1 DEF Accept
      <4> QED
        BY <4>3, <4>4 DEF Streaming
    <3> QED
      BY <2>1, <3>1, <3>2, <3>3
  <2>5. Durably /\ st'.stable \in Nat /\ st.stable <= st'.stable
    BY <1>1, <1>2, <2>2, <2>4 DEF Durably, Streaming
  <2> QED
    BY <1>2, <2>1, <2>3, <2>4, <2>5, ReadingStays
<1> QED
  BY <1>3, <1>4

\* A batch that is durable is broadcast behind the others, or the reader lags.
LEMMA CompleteWriteReading ==
    ASSUME Inv, Inv', Reading, CompleteWrite, UNCHANGED <<cl, rd>>
    PROVE  Reading'
<1>1. /\ rd \in Reader /\ follow \in Follower /\ Broadcasted /\ follow.buf \in Seq(Nat)
      /\ st.up /\ st.futs # <<>> /\ Head(st.futs).at \in 1..flushed
      /\ UNCHANGED <<script, wal, flushed, gone, rd>> /\ flushed \in Nat
  <2>1. rd \in Reader /\ follow \in Follower /\ Broadcasted /\ follow.buf \in Seq(Nat)
    BY DEF Reading, Follower
  <2>2. flushed \in Nat
    BY DEF Inv, Types
  <2> QED
    BY <2>1, <2>2 DEF CompleteWrite, dbVars
<1>2. Answered /\ Completed
  BY CompleteWriteKeeps
<1>3. SameRequests /\ Durably
  BY <1>1, <1>2 DEF Answered, SameRequests, Durably
<1>4. PICK id, stable : id = st.futs[1].write.req /\ stable = End(st.futs[1].write)
  OBVIOUS
<1>5. /\ Head(st.futs) = st.futs[1] /\ 1 \in DOMAIN st.futs
      /\ Placed(id) /\ reqs[id].at = st.stable /\ EndOf(id) = stable
      /\ st.stable \in Nat /\ stable \in Nat /\ st.stable <= stable
  <2>1. /\ Head(st.futs) = st.futs[1] /\ 1 \in DOMAIN st.futs
        /\ st.futs[1].write.start = st.stable /\ st.stable <= stable /\ stable \in Nat
        /\ Placed(id)
    BY <1>1, <1>4, HeadLeads
  <2>2. st.futs[1].write.start = reqs[id].at /\ st.futs[1].write.n = InputOf(id).n
        /\ st.stable \in Nat
    BY <1>1, <1>4, <2>1, FutTypes
  <2>3. EndOf(id) = stable
    BY <1>4, <2>2 DEF EndOf, End
  <2> QED
    BY <2>1, <2>2, <2>3
<1>6. /\ follow' = Broadcast(id) \/ follow' = [Broadcast(id) EXCEPT !.live = FALSE]
      /\ st'.up => follow' = Broadcast(id)
      /\ ~st'.up => follow' = [Broadcast(id) EXCEPT !.live = FALSE]
  <2>1. PICK ended : ended = (st.trim.val = MaxSeq /\ st.trim.ap = Head(st.futs).write.start + Head(st.futs).write.n)
    OBVIOUS
  <2>2. /\ follow' = IF ended THEN [Broadcast(id) EXCEPT !.live = FALSE] ELSE Broadcast(id)
        /\ IF ended THEN st' = Down
           ELSE \E s, f, q : st' = [st EXCEPT !.stable = s, !.futs = f, !.queue = q]
    BY <1>4, <1>5, <2>1 DEF CompleteWrite
  <2>3. st \in Streaming
    BY <1>1, FutTypes
  <2>4. CASE ended
    BY <2>2, <2>4 DEF Down
  <2>5. CASE ~ended
    BY <2>2, <2>3, <2>5 DEF Streaming
  <2> QED
    BY <2>4, <2>5
<1>7. st'.up => st'.stable = stable
  BY <1>2, <1>4 DEF Completed, Down
<1>8. CASE ~follow.live
  <2>1. Broadcast(id) = follow
    BY <1>8 DEF Broadcast
  <2> QED
    BY <1>1, <1>3, <1>5, <1>6, <1>7, <1>8, <2>1, ReadingStays
<1>9. CASE follow.live
  <2>1. /\ Position' /\ Delivers(rd.got, rd.next)'
        /\ \A buf \in Seq(Nat) : \A x :
          Leads(buf, x) => Leads(buf, x)' /\ Reach(buf, x)' = Reach(buf, x)
    BY <1>1, <1>3, <1>5, <1>7, ProgressStays
  <2>2. PlacedFacts /\ PlacedFacts' /\ \A i : Placed(i) => Placed(i)'
    BY <1>3, PlacedHolds, PlacedNext, DurablyKeeps DEF Inv
  <2>3. /\ id \in DOMAIN reqs /\ id \in Nat /\ id \in DOMAIN reqs' /\ Placed(id)'
        /\ reqs'[id].at = st.stable /\ EndOf(id)' = stable
    BY <1>3, <1>5, <2>2 DEF PlacedFacts, SameRequests, EndOf, InputOf
  <2>4. PICK B, x, C : B = follow.buf /\ x = rd.next /\ C = Append(B, id)
    OBVIOUS
  <2>5. /\ B \in Seq(Nat) /\ C \in Seq(Nat) /\ Len(C) = Len(B) + 1 /\ Len(B) \in Nat
        /\ C[Len(B) + 1] = id /\ \A k \in DOMAIN B : C[k] = B[k]
        /\ DOMAIN C = 1..Len(B) + 1 /\ DOMAIN B = 1..Len(B)
        /\ B # <<>> => Len(B) >= 1
        /\ B = <<>> => Len(B) = 0
    BY <1>1, <2>3, <2>4
  <2>6. PICK f : f = Broadcast(id)
    OBVIOUS
  <2>7. f \in Follower /\ (f.lagged \/ (f.buf = C /\ f.lagged = follow.lagged))
    <3>1. CASE Len(B) < MaxLag
      <4>1. f = [follow EXCEPT !.buf = C]
        BY <1>9, <2>4, <2>6, <3>1 DEF Broadcast
      <4> QED
        BY <1>1, <2>5, <4>1 DEF Follower
    <3>2. CASE ~(Len(B) < MaxLag)
      <4>1. PICK D : D = Append(Tail(B), id)
        OBVIOUS
      <4>2. f = [follow EXCEPT !.buf = D, !.lagged = TRUE]
        BY <1>9, <2>4, <2>6, <3>2, <4>1 DEF Broadcast
      <4>3. D \in Seq(Nat)
        <5>1. B # <<>>
          BY <2>5, <3>2, StreamAssumption
        <5>2. Tail(B) \in Seq(Nat)
          BY <2>5, <5>1
        <5> QED
          BY <2>3, <4>1, <5>2
      <4> QED
        BY <1>1, <4>2, <4>3 DEF Follower
    <3> QED
      BY <3>1, <3>2
  <2>8. /\ follow' \in Follower /\ (follow'.live => st'.up)
        /\ follow'.lagged \/ (follow'.buf = C /\ follow'.lagged = follow.lagged)
    <3>1. CASE follow' = f /\ st'.up
      BY <2>7, <3>1
    <3>2. CASE follow' = [f EXCEPT !.live = FALSE]
      BY <2>7, <3>2 DEF Follower
    <3> QED
      BY <1>6, <2>6, <3>1, <3>2
  <2>9. ASSUME rd.pc = "follow", ~follow'.lagged
        PROVE  /\ Leads(follow.buf, rd.next)'
               /\ st'.up => Reach(follow.buf, rd.next)' = st'.stable
    <3>1. follow'.buf = C /\ ~follow.lagged
      BY <2>8, <2>9
    <3>2. Leads(B, x) /\ Reach(B, x) = st.stable
      BY <1>1, <1>9, <2>4, <2>9, <3>1 DEF Broadcasted
    <3>3. Leads(B, x)' /\ Reach(B, x)' = st.stable
      BY <2>1, <2>5, <3>2
    <3>4. ASSUME NEW k \in DOMAIN C
          PROVE  /\ C[k] \in DOMAIN reqs' /\ Placed(C[k])'
                 /\ st'.up => EndOf(C[k])' <= st'.stable
                 /\ reqs'[C[k]].at = IF k = 1 THEN x ELSE EndOf(C[k - 1])'
      <4>1. CASE k \in DOMAIN B
        <5>1. /\ B[k] \in DOMAIN reqs' /\ Placed(B[k])'
              /\ st'.up => EndOf(B[k])' <= st'.stable
              /\ reqs'[B[k]].at = IF k = 1 THEN x ELSE EndOf(B[k - 1])'
          BY <3>3, <4>1 DEF Leads
        <5>2. C[k] = B[k] /\ (k # 1 => C[k - 1] = B[k - 1])
          BY <2>5, <4>1
        <5> QED
          BY <5>1, <5>2
      <4>2. CASE k = Len(B) + 1
        <5>1. C[k] = id /\ (k # 1 => C[k - 1] = B[Len(B)] /\ B # <<>>)
              /\ (k = 1 => B = <<>>)
          BY <2>5, <4>2
        <5>2. reqs'[id].at = Reach(B, x)'
          BY <2>3, <3>3
        <5>3. Reach(B, x)' = IF k = 1 THEN x ELSE EndOf(C[k - 1])'
          BY <5>1 DEF Reach
        <5>4. st'.up => EndOf(C[k])' <= st'.stable
          BY <1>5, <1>7, <2>3, <5>1
        <5> QED
          BY <2>3, <5>1, <5>2, <5>3, <5>4
      <4> QED
        BY <2>5, <4>1, <4>2
    <3>5. Leads(C, x)'
      BY <3>4 DEF Leads
    <3>6. Reach(C, x)' = stable
      <4>1. C # <<>> /\ C[Len(C)] = id
        BY <2>5
      <4> QED
        BY <2>3, <4>1 DEF Reach
    <3>7. C = follow'.buf /\ x = rd'.next
      BY <1>1, <2>4, <3>1
    <3> QED
      BY <1>7, <3>5, <3>6, <3>7 DEF Leads, Reach
  <2>10. Broadcasted'
    BY <1>1, <2>8, <2>9 DEF Broadcasted
  <2> QED
    BY <1>1, <2>1, <2>8, <2>10 DEF Reading
<1> QED
  BY <1>8, <1>9

\* What a step of the reader has to see to.
LEMMA ReaderMoves ==
    ASSUME Inv, UNCHANGED <<script, wal, flushed, gone, st, reqs>>,
           rd' \in Reader, follow' \in Follower,
           rd'.next <= TailAt(flushed), rd'.tail <= TailAt(flushed),
           st.up => rd'.next <= st.stable /\ rd'.tail <= st.stable,
           rd'.pc = "catchup" => rd'.next <= rd'.tail,
           rd'.pc = "follow" => rd'.next = rd'.tail,
           follow'.live => st.up,
           rd'.pc = "follow" /\ ~follow'.lagged =>
             /\ Leads(follow'.buf, rd'.next)
             /\ follow'.live => Reach(follow'.buf, rd'.next) = st.stable,
           Delivers(rd'.got, rd'.next)
    PROVE  Reading'
<1>1. Position'
  BY DEF Position, TailAt
<1>2. Delivers(rd.got, rd.next)'
  BY DEF Delivers, Durable, RecordsAt
<1>3. ASSUME rd'.pc = "follow", ~follow'.lagged
      PROVE  /\ Leads(follow.buf, rd.next)'
             /\ follow'.live => Reach(follow.buf, rd.next)' = st'.stable
  <2>1. PICK B, x : B = follow'.buf /\ x = rd'.next
    OBVIOUS
  <2>2. Leads(B, x) /\ (follow'.live => Reach(B, x) = st.stable)
    BY <1>3, <2>1
  <2>3. Leads(B, x)' /\ Reach(B, x)' = Reach(B, x)
    <3>1. \A id : Placed(id)' = Placed(id) /\ EndOf(id)' = EndOf(id)
      BY DEF Placed, Batched, EndOf, InputOf
    <3> QED
      BY <2>2, <3>1 DEF Leads, Reach
  <2> QED
    BY <2>1, <2>2, <2>3 DEF Leads, Reach
<1>4. Broadcasted'
  BY <1>3 DEF Broadcasted
<1> QED
  BY <1>1, <1>2, <1>4 DEF Reading

\* What the reader holds on to.
LEMMA ReadingFacts ==
    ASSUME Inv, Reading
    PROVE  /\ rd \in Reader /\ follow \in Follower /\ Position /\ Broadcasted
           /\ rd.next \in Nat /\ rd.tail \in Nat /\ rd.got \in Seq(Record)
           /\ Delivers(rd.got, rd.next) /\ TailAt(flushed) \in Nat
           /\ st.up => st.stable \in Nat /\ st.stable <= TailAt(flushed)
           /\ Unsubscribed \in Follower /\ ~Unsubscribed.live
<1>1. /\ rd \in Reader /\ follow \in Follower /\ Position /\ Broadcasted
      /\ Delivers(rd.got, rd.next)
  BY DEF Reading
<1>2. rd.next \in Nat /\ rd.tail \in Nat /\ rd.got \in Seq(Record)
  BY <1>1 DEF Reader
<1>3. TailAt(flushed) \in Nat
  BY LineHolds DEF Line
<1>4. st.up => st.stable \in Nat /\ st.stable <= TailAt(flushed)
  <2>1. st.up => st.stable \in Nat
    BY FutTypes
  <2> QED
    BY <2>1 DEF Inv, Upright, Accounted
<1>5. Unsubscribed \in Follower /\ ~Unsubscribed.live
  <2>1. PICK none : none = <<>>
    OBVIOUS
  <2>2. none \in Seq(Nat) /\ Unsubscribed = [live |-> FALSE, lagged |-> FALSE, buf |-> none]
    BY <2>1 DEF Unsubscribed
  <2> QED
    BY <2>2 DEF Follower
<1> QED
  BY <1>1, <1>2, <1>3, <1>4, <1>5

LEMMA OpenReadReading ==
    ASSUME Inv, Reading, OpenRead
    PROVE  Reading'
<1>1. /\ rd \in Reader /\ follow \in Follower /\ Position /\ Broadcasted
      /\ rd.next \in Nat /\ rd.tail \in Nat /\ rd.got \in Seq(Record)
      /\ Delivers(rd.got, rd.next) /\ st.up
      /\ st.stable \in Nat /\ st.stable <= TailAt(flushed)
      /\ spawned \in Nat
  BY ReadingFacts DEF OpenRead, Inv, Types
<1>2. rd.next <= st.stable /\ TailAt(flushed) \in Nat /\ (follow.live => st.up)
  BY <1>1, ReadingFacts DEF Position
<1>3. rd' = [rd EXCEPT !.pc = "catchup", !.id = spawned, !.tail = st.stable]
  <2>1. PICK pc : pc = IF rd.next > st.stable THEN "unwritten" ELSE "catchup"
    OBVIOUS
  <2>2. pc = "catchup"
    BY <1>1, <1>2, <2>1
  <2>3. rd' = [rd EXCEPT !.pc = pc, !.id = spawned, !.tail = st.stable]
    BY <2>1 DEF OpenRead
  <2> QED
    BY <2>2, <2>3
<1>4. /\ rd' \in Reader /\ rd'.pc = "catchup" /\ rd'.tail = st.stable /\ rd'.next = rd.next
      /\ rd'.got = rd.got
  BY <1>1, <1>3 DEF Reader
<1>5. UNCHANGED <<script, wal, flushed, gone, st, reqs, follow>>
  BY DEF OpenRead, streamVars
<1> QED
  BY <1>1, <1>2, <1>4, <1>5, ReaderMoves

LEMMA FollowReading ==
    ASSUME Inv, Reading, Follow
    PROVE  Reading'
<1>1. /\ rd \in Reader /\ follow \in Follower /\ Position
      /\ rd.next \in Nat /\ rd.tail \in Nat
      /\ Delivers(rd.got, rd.next) /\ st.up /\ (follow.live => st.up)
      /\ st.stable \in Nat /\ st.stable <= TailAt(flushed) /\ TailAt(flushed) \in Nat
      /\ rd.pc = "catchup" /\ rd.next = rd.tail
  BY ReadingFacts DEF Follow, Connected
<1>2. UNCHANGED <<script, wal, flushed, gone, st, reqs>>
  BY DEF Follow, dbVars
<1>3. rd.next <= st.stable /\ rd.next <= TailAt(flushed)
  BY <1>1 DEF Position
<1>4. CASE rd.next = st.stable
  <2>1. PICK none : none = <<>>
    OBVIOUS
  <2>2. none \in Seq(Nat) /\ Leads(none, rd.next) /\ Reach(none, rd.next) = rd.next
    BY <2>1 DEF Leads, Reach
  <2>3. follow' = [live |-> TRUE, lagged |-> FALSE, buf |-> none] /\ rd' = [rd EXCEPT !.pc = "follow"]
    BY <1>4, <2>1 DEF Follow
  <2>4. follow' \in Follower /\ follow'.buf = none
    BY <2>2, <2>3 DEF Follower
  <2>5. rd' \in Reader /\ rd'.pc = "follow" /\ rd'.tail = rd.tail /\ rd'.next = rd.next
        /\ rd'.got = rd.got
    BY <1>1, <2>3 DEF Reader
  <2> QED
    BY <1>1, <1>2, <1>3, <1>4, <2>2, <2>4, <2>5, ReaderMoves
<1>5. CASE rd.next # st.stable
  <2>1. follow' = follow /\ rd' = [rd EXCEPT !.tail = st.stable]
    BY <1>5 DEF Follow
  <2>2. rd' \in Reader /\ rd'.pc = "catchup" /\ rd'.tail = st.stable /\ rd'.next = rd.next
        /\ rd'.got = rd.got
    BY <1>1, <2>1 DEF Reader
  <2> QED
    BY <1>1, <1>2, <1>3, <2>1, <2>2, ReaderMoves
<1> QED
  BY <1>4, <1>5

LEMMA LeaveReading ==
    ASSUME Inv, Reading, Lag \/ ReadError
    PROVE  Reading'
<1>1. /\ rd \in Reader /\ Position
      /\ rd.next \in Nat /\ rd.tail \in Nat
      /\ Delivers(rd.got, rd.next) /\ TailAt(flushed) \in Nat
      /\ (st.up => st.stable \in Nat)
      /\ Unsubscribed \in Follower /\ ~Unsubscribed.live
  BY ReadingFacts
<1>2. UNCHANGED <<script, wal, flushed, gone, st, reqs>> /\ follow' = Unsubscribed
      /\ \/ rd.pc = "follow" /\ rd' = [rd EXCEPT !.pc = "catchup"]
         \/ rd' = [rd EXCEPT !.pc = "idle"]
  BY DEF Lag, ReadError, dbVars
<1>3. /\ rd' \in Reader /\ rd'.tail = rd.tail /\ rd'.next = rd.next /\ rd'.got = rd.got
      /\ rd'.pc = "idle" \/ (rd'.pc = "catchup" /\ rd.pc = "follow")
  BY <1>1, <1>2 DEF Reader
<1>4. /\ rd.next <= TailAt(flushed) /\ rd.tail <= TailAt(flushed)
      /\ st.up => rd.next <= st.stable /\ rd.tail <= st.stable
      /\ rd.pc = "follow" => rd.next = rd.tail
  BY <1>1 DEF Position
<1> QED
  BY <1>1, <1>2, <1>3, <1>4, ReaderMoves

\* Each durable position holds a record.
LEMMA RecordAt ==
    ASSUME Inv, Contents, NEW s \in Nat, s < TailAt(flushed)
    PROVE  \E r \in Durable : r.seq = s
<1>1. TailAt(flushed) \in Nat /\ s + 1 \in 1..TailAt(flushed) /\ Spelled /\ Line /\ PlacedFacts
  BY SpelledHolds, LineHolds, PlacedHolds DEF Line
<1>2. PICK w \in Writes : w.start < s + 1 /\ s + 1 <= End(w) /\ End(w) <= TailAt(flushed)
  BY <1>1 DEF Spelled
<1>3. w.start \in Nat /\ End(w) \in Nat /\ WriteFor(w) /\ Placed(w.req) /\ End(w) = w.start + w.n
  BY <1>1, <1>2 DEF Line, Placed
<1>4. reqs[w.req].at = w.start /\ EndOf(w.req) = End(w)
  BY <1>3 DEF WriteFor, EndOf
<1>5. s \in reqs[w.req].at..EndOf(w.req) - 1
  BY <1>2, <1>3, <1>4
<1>6. [seq |-> s, req |-> w.req] \in Durable
  BY <1>1, <1>3, <1>5 DEF PlacedFacts
<1> QED
  BY <1>6

LEMMA CatchUpReading ==
    ASSUME Inv, Contents, Reading, CatchUp
    PROVE  Reading'
<1>1. /\ rd \in Reader /\ follow \in Follower /\ Position
      /\ rd.next \in Nat /\ rd.tail \in Nat /\ rd.got \in Seq(Record)
      /\ TailAt(flushed) \in Nat /\ (follow.live => st.up)
      /\ (st.up => st.stable \in Nat)
      /\ rd.pc = "catchup" /\ rd.next < rd.tail
  BY ReadingFacts DEF CatchUp, Broadcasted
<1>2. UNCHANGED <<script, wal, flushed, gone, st, reqs, follow>>
  BY DEF CatchUp, streamVars
<1>3. PICK found : found = {r \in Visible : rd.next <= r.seq /\ r.seq < rd.tail}
  OBVIOUS
<1>4. PICK x : x = IF found = {} THEN rd.tail ELSE Max(SeqNums(found)) + 1
  OBVIOUS
<1>5. rd' = [rd EXCEPT !.got = Delivered(found), !.next = x]
  BY <1>3, <1>4 DEF CatchUp
<1>6. /\ found \in SUBSET Durable
      /\ \A r \in found : rd.next <= r.seq /\ r.seq < rd.tail /\ r.seq \in Nat
      /\ \A r \in Durable : rd.next <= r.seq /\ r.seq < rd.tail => r.seq \in gone \/ r \in found
  <2>1. \A r : r \in Visible <=> r \in Durable /\ r.seq \notin gone
    BY DEF Visible, Durable
  <2>2. \A r \in Durable : r.seq \in Nat
    BY DurableTypes DEF Record
  <2> QED
    BY <1>3, <2>1, <2>2
<1>7. /\ x \in Nat /\ rd.next <= x /\ x <= rd.tail
      /\ \A r \in found : r.seq < x
  <2>1. CASE found = {}
    BY <1>1, <1>4, <2>1
  <2>2. CASE found # {}
    <3>1. PICK S, m : S = SeqNums(found) /\ m = Max(S)
      OBVIOUS
    <3>2. S \in SUBSET Nat /\ (\A s \in S : rd.next <= s /\ s < rd.tail) /\ \E s \in S : TRUE
      BY <1>6, <2>2, <3>1 DEF SeqNums
    <3>3. PICK e \in S : TRUE
      BY <3>2
    <3>4. ASSUME NEW s \in S PROVE s <= rd.tail
      <4>1. s \in Nat /\ s < rd.tail
        BY <3>2
      <4> QED
        BY <1>1, <4>1
    <3>5. m \in S /\ \A s \in S : m >= s
      BY <1>1, <3>1, <3>2, <3>3, <3>4, LargestExists
    <3>6. x = m + 1
      BY <1>4, <2>2, <3>1
    <3>7. \A r \in found : r.seq \in S
      BY <3>1 DEF SeqNums
    <3> QED
      BY <1>1, <1>6, <3>2, <3>5, <3>6, <3>7
  <2> QED
    BY <2>1, <2>2
<1>8. ASSUME NEW s \in rd.next..x - 1
      PROVE  s \in gone \/ \E r \in found : r.seq = s
  <2>1. s \in Nat /\ rd.next <= s /\ s < rd.tail /\ s < TailAt(flushed)
    BY <1>1, <1>7 DEF Position
  <2>2. PICK r \in Durable : r.seq = s
    BY <2>1, RecordAt
  <2> QED
    BY <1>6, <2>1, <2>2
<1>9. Delivered(found) \in Seq(Record) /\ Delivers(Delivered(found), x)
  BY <1>6, <1>7, <1>8, DeliveredFacts
<1>10. /\ rd' \in Reader /\ rd'.pc = "catchup" /\ rd'.tail = rd.tail /\ rd'.next = x
       /\ rd'.got = Delivered(found)
  <2>1. PICK g : g = Delivered(found)
    OBVIOUS
  <2>2. rd' = [rd EXCEPT !.got = g, !.next = x] /\ g \in Seq(Record)
    BY <1>5, <1>9, <2>1
  <2> QED
    BY <1>1, <1>7, <2>1, <2>2 DEF Reader
<1>11. /\ x <= TailAt(flushed) /\ rd.tail <= TailAt(flushed)
       /\ st.up => x <= st.stable /\ rd.tail <= st.stable
  BY <1>1, <1>7 DEF Position
<1> QED
  BY <1>1, <1>2, <1>7, <1>9, <1>10, <1>11, ReaderMoves

LEMMA ReceiveReading ==
    ASSUME Inv, Reading, Receive
    PROVE  Reading'
<1>1. /\ rd \in Reader /\ follow \in Follower /\ Position /\ Broadcasted
      /\ rd.next \in Nat /\ rd.tail \in Nat /\ rd.got \in Seq(Record)
      /\ TailAt(flushed) \in Nat /\ (st.up => st.stable \in Nat)
      /\ rd.pc = "follow" /\ ~follow.lagged /\ follow.buf # <<>>
  BY ReadingFacts DEF Receive
<1>2. UNCHANGED <<script, wal, flushed, gone, st, reqs>>
  BY DEF Receive, dbVars
<1>3. PICK B, C, id, x : B = follow.buf /\ C = Tail(B) /\ id = Head(B) /\ x = EndOf(id)
  OBVIOUS
<1>4. /\ B \in Seq(Nat) /\ B # <<>> /\ id = B[1] /\ 1 \in DOMAIN B /\ Len(B) \in Nat
      /\ C \in Seq(Nat) /\ Len(C) = Len(B) - 1 /\ DOMAIN C = 1..Len(B) - 1
      /\ \A k \in DOMAIN C : k \in Nat /\ k + 1 \in DOMAIN B /\ C[k] = B[k + 1]
      /\ C # <<>> => Len(C) \in DOMAIN C
  <2>1. B \in Seq(Nat) /\ B # <<>>
    BY <1>1, <1>3 DEF Follower
  <2>2. C \in Seq(Nat) /\ Len(C) = Len(B) - 1 /\ \A k \in 1..Len(B) - 1 : C[k] = B[k + 1]
    BY <1>3, <2>1, HeadTailProperties
  <2> QED
    BY <1>3, <2>1, <2>2
<1>5. Leads(B, rd.next) /\ (follow.live => st.up) /\ (follow.live => Reach(B, rd.next) = st.stable)
  BY <1>1, <1>3 DEF Broadcasted
<1>6. /\ Placed(id) /\ reqs[id].at = rd.next /\ (st.up => x <= st.stable)
      /\ id \in Nat /\ x \in Nat /\ rd.next < x /\ rd.next <= x /\ x <= TailAt(flushed)
      /\ \A s \in rd.next..x - 1 : [seq |-> s, req |-> id] \in Durable
  <2>1. Placed(id) /\ reqs[id].at = rd.next /\ (st.up => x <= st.stable)
    BY <1>3, <1>4, <1>5 DEF Leads
  <2>2. /\ id \in Nat /\ x \in Nat /\ rd.next < x /\ x <= TailAt(flushed)
        /\ \A s \in rd.next..x - 1 : [seq |-> s, req |-> id] \in Durable
    BY <1>3, <2>1, PlacedHolds DEF PlacedFacts
  <2> QED
    BY <1>1, <2>1, <2>2
<1>7. PICK S : S = {[seq |-> s, req |-> id] : s \in rd.next..x - 1}
  OBVIOUS
<1>8. /\ S \in SUBSET Durable
      /\ \A r \in S : rd.next <= r.seq /\ r.seq < x
      /\ \A s \in rd.next..x - 1 : s \in gone \/ \E r \in S : r.seq = s
  <2>1. \A s \in rd.next..x - 1 : rd.next <= s /\ s < x
    BY <1>1, <1>6
  <2>2. ASSUME NEW r \in S PROVE r \in Durable /\ rd.next <= r.seq /\ r.seq < x
    <3>1. PICK s \in rd.next..x - 1 : r = [seq |-> s, req |-> id]
      BY <1>7
    <3> QED
      BY <1>6, <2>1, <3>1
  <2>3. ASSUME NEW s \in rd.next..x - 1 PROVE \E r \in S : r.seq = s
    <3>1. [seq |-> s, req |-> id] \in S /\ [seq |-> s, req |-> id].seq = s
      BY <1>7
    <3> QED
      BY <3>1
  <2> QED
    BY <2>2, <2>3
<1>9. Delivered(S) \in Seq(Record) /\ Delivers(Delivered(S), x)
  BY <1>6, <1>8, DeliveredFacts
<1>10. /\ rd' = [rd EXCEPT !.got = Delivered(S), !.next = x, !.tail = x]
       /\ follow' = [follow EXCEPT !.buf = C]
  <2>1. reqs[id].at + InputOf(id).n = x /\ reqs[id].at = rd.next
    BY <1>3, <1>6 DEF EndOf
  <2>2. Head(follow.buf) = id /\ Tail(follow.buf) = C
    BY <1>3
  <2>3. follow' = [follow EXCEPT !.buf = C]
    BY <2>2, Zenon DEF Receive
  <2>4. rd' = [rd EXCEPT !.got = Delivered(S), !.next = x, !.tail = x]
    <3> DEFINE Reads(i, lo, hi) ==
                 rd' = [rd EXCEPT !.got = Delivered({[seq |-> s, req |-> i] : s \in lo..hi - 1}),
                                  !.next = hi, !.tail = hi]
               first == Head(follow.buf)
               start == reqs[first].at
    <3>1. Reads(first, start, start + InputOf(first).n)
      BY Zenon DEF Receive
    <3> HIDE DEF Reads
    <3>2. Reads(id, rd.next, x)
      BY <2>1, <2>2, <3>1
    <3> QED
      BY <1>7, <3>2, Zenon DEF Reads
  <2> QED
    BY <2>3, <2>4
<1>11. /\ rd' \in Reader /\ rd'.pc = "follow" /\ rd'.tail = x /\ rd'.next = x
       /\ rd'.got = Delivered(S)
  <2>1. PICK g : g = Delivered(S)
    OBVIOUS
  <2>2. rd' = [rd EXCEPT !.got = g, !.next = x, !.tail = x] /\ g \in Seq(Record)
    BY <1>9, <1>10, <2>1
  <2> QED
    BY <1>1, <1>6, <2>1, <2>2 DEF Reader
<1>12. follow' \in Follower /\ follow'.buf = C /\ follow'.live = follow.live
  BY <1>1, <1>4, <1>10 DEF Follower
<1>13. Leads(C, x) /\ Reach(C, x) = Reach(B, rd.next)
  <2>1. ASSUME NEW k \in DOMAIN C
        PROVE  /\ C[k] \in DOMAIN reqs /\ Placed(C[k])
               /\ st.up => EndOf(C[k]) <= st.stable
               /\ reqs[C[k]].at = IF k = 1 THEN x ELSE EndOf(C[k - 1])
    <3>1. /\ B[k + 1] \in DOMAIN reqs /\ Placed(B[k + 1])
          /\ st.up => EndOf(B[k + 1]) <= st.stable
          /\ reqs[B[k + 1]].at = IF k + 1 = 1 THEN rd.next ELSE EndOf(B[k + 1 - 1])
          /\ C[k] = B[k + 1] /\ k \in 1..Len(B) - 1
      <4>1. k + 1 \in DOMAIN B /\ C[k] = B[k + 1] /\ k \in 1..Len(B) - 1
        BY <1>4
      <4> QED
        BY <1>5, <4>1 DEF Leads
    <3>2. k + 1 # 1 /\ k + 1 - 1 = k
      BY <1>4, <3>1
    <3>3. EndOf(B[k]) = IF k = 1 THEN x ELSE EndOf(C[k - 1])
      <4>1. CASE k = 1
        BY <1>3, <1>4, <4>1
      <4>2. CASE k # 1
        <5>1. k \in 1..Len(B) - 1 /\ Len(B) \in Nat
          BY <1>4, <3>1
        <5>2. k - 1 \in 1..Len(B) - 1 /\ k - 1 + 1 = k
          BY <4>2, <5>1
        <5>3. C[k - 1] = B[k - 1 + 1]
          BY <1>4, <5>2
        <5> QED
          BY <4>2, <5>2, <5>3
      <4> QED
        BY <4>1, <4>2
    <3> QED
      BY <3>1, <3>2, <3>3
  <2>2. Reach(C, x) = Reach(B, rd.next)
    <3>1. Reach(B, rd.next) = EndOf(B[Len(B)])
      BY <1>4 DEF Reach
    <3>2. CASE C = <<>>
      <4>1. Len(B) = 1
        BY <1>4, <3>2
      <4> QED
        BY <1>3, <1>4, <3>1, <3>2, <4>1 DEF Reach
    <3>3. CASE C # <<>>
      <4>1. Len(C) \in DOMAIN C /\ Len(C) + 1 = Len(B)
        BY <1>4, <3>3
      <4>2. C[Len(C)] = B[Len(C) + 1]
        BY <1>4, <4>1
      <4> QED
        BY <3>1, <3>3, <4>1, <4>2 DEF Reach
    <3> QED
      BY <3>2, <3>3
  <2> QED
    BY <2>1, <2>2 DEF Leads
<1> QED
  BY <1>1, <1>2, <1>5, <1>6, <1>9, <1>11, <1>12, <1>13, ReaderMoves

LEMMA InitReading == Init => Reading
<1> SUFFICES ASSUME Init PROVE Reading
  OBVIOUS
<1>1. Inv /\ wal = <<>> /\ flushed = 0 /\ ~st.up
  BY InitInv DEF Init, StreamInit, Down
<1>2. PICK none : none = <<>>
  OBVIOUS
<1>3. none \in Seq(Nat) /\ none \in Seq(Record) /\ DOMAIN none = {}
  BY <1>2
<1>4. follow = [live |-> FALSE, lagged |-> FALSE, buf |-> none]
      /\ \E pc \in {"idle", "absent"} :
            rd = [pc |-> pc, id |-> 0, next |-> 0, tail |-> 0, got |-> none]
  BY <1>2 DEF Init, StreamInit, NewReader
<1>5. follow \in Follower /\ ~follow.live
  BY <1>3, <1>4 DEF Follower
<1>6. /\ rd \in Reader /\ rd.pc \in {"idle", "absent"} /\ rd.next = 0 /\ rd.tail = 0
      /\ rd.got = none
  BY <1>3, <1>4 DEF Reader
<1>7. TailAt(flushed) \in Nat
  BY <1>1, LineHolds DEF Line
<1>8. Position
  BY <1>1, <1>6, <1>7 DEF Position
<1>9. Delivers(rd.got, rd.next)
  BY <1>3, <1>6 DEF Delivers
<1> QED
  BY <1>5, <1>6, <1>8, <1>9 DEF Reading, Broadcasted

LEMMA StepReading ==
    ASSUME Inv, Inv', Contents, Reading, [Next]_vars
    PROVE  Reading'
<1>1. CASE StreamStep /\ UNCHANGED <<cl, rd>>
  BY <1>1, ServerReading, CompleteWriteReading
<1>2. ASSUME NEW p \in Producers, ProducerStep(p)
      PROVE  Reading'
  BY <1>2, SessionReading
<1>3. CASE ReaderStep
  BY <1>3, OpenReadReading, CatchUpReading, FollowReading, ReceiveReading, LeaveReading DEF ReaderStep
<1>4. CASE UNCHANGED vars
  <2>1. SameRequests /\ Durably /\ (st.up => st.stable \in Nat)
    BY <1>4, FutTypes DEF vars, streamVars, dbVars, SameRequests, Durably, Inv, Types
  <2>2. UNCHANGED <<st, follow, gone, rd>> /\ (follow.live => st.up)
    BY <1>4 DEF vars, streamVars, dbVars, Reading, Broadcasted
  <2> QED
    BY <2>1, <2>2, ReadingStays
<1> QED
  BY <1>1, <1>2, <1>3, <1>4 DEF Next

\* A read session (s2-server read.rs, s2-sdk session/read.rs) is given the durable
\* records in order, none twice, and skips none that was not trimmed, through
\* scans, broadcasts, lags and reconnections; no restart of the streamer leaves it
\* beyond the end of the stream.
THEOREM ReaderSeesLogCorrect ==
    ASSUME ~StallPastDormancy
    PROVE  Spec => []ReaderSeesLog
<1>1. Init => Inv /\ Whole /\ Reading
  BY InitInv, InitWhole, InitReading
<1>2. Inv /\ Whole /\ Reading /\ [Next]_vars => (Inv /\ Whole /\ Reading)'
  BY StepInv, StepWhole, StepReading DEF Whole
<1>3. Inv /\ Reading => ReaderSeesLog
  <2> SUFFICES ASSUME Inv, Reading PROVE ReaderSeesLog
    OBVIOUS
  <2>1. rd \in Reader /\ Delivers(rd.got, rd.next)
    BY ReadingFacts
  <2>2. rd.pc # "unwritten"
    BY <2>1 DEF Reader
  <2> QED
    BY <2>1, <2>2 DEF Delivers, ReaderSeesLog
<1> QED
  BY <1>1, <1>2, <1>3, PTL DEF Spec

-----------------------------------------------------------------------------
(* The queue of replies *)

InOrderOfWaiting(q) == \A i, j \in DOMAIN q : i < j => q[i].dep <= q[j].dep

\* In a queue in that order, those that wait for no more than x come first.
LEMMA FirstWaiters ==
    ASSUME NEW q \in Seq(Waiter), InOrderOfWaiting(q), NEW x \in Nat,
           NEW c, c = Cardinality({i \in DOMAIN q : q[i].dep <= x})
    PROVE  /\ c \in 0..Len(q)
           /\ \A i \in DOMAIN q : q[i].dep <= x <=> i <= c
<1> DEFINE S == {i \in DOMAIN q : q[i].dep <= x}
           n == Len(q)
<1>1. n \in Nat /\ DOMAIN q = 1..n /\ \A i \in 1..n : q[i].dep \in Nat
  <2>1. \A i \in DOMAIN q : q[i] \in Waiter
    OBVIOUS
  <2> QED
    BY <2>1 DEF Waiter
<1>2. S \subseteq Nat /\ \A i \in S : i \in 1..n /\ i <= n
  BY <1>1
<1>3. CASE S = {}
  <2>1. c = 0
    BY <1>3, FS_EmptySet
  <2>2. \A i \in DOMAIN q : ~(q[i].dep <= x) /\ ~(i <= 0)
    BY <1>1, <1>3
  <2>3. 0 \in 0..Len(q)
    BY <1>1
  <2> QED
    BY <2>1, <2>2, <2>3, Zenon
<1>4. CASE S # {}
  <2>1. PICK e : e \in S
    BY <1>4
  <2>2. PICK m : m \in S /\ \A i \in S : m >= i
    <3> HIDE DEF S, n
    <3>1. Max(S) \in S /\ \A i \in S : Max(S) >= i
      BY <1>1, <1>2, <2>1, LargestExists
    <3> QED
      BY <3>1
  <2>3. m \in 1..n /\ m \in Nat
    BY <1>1, <1>2, <2>2
  <2>4. \A i \in 1..n : i \in S <=> i <= m
    <3> SUFFICES ASSUME NEW i \in 1..n PROVE i \in S <=> i <= m
      OBVIOUS
    <3>1. i \in S => i <= m
      BY <1>1, <2>2, <2>3
    <3>2. ASSUME i <= m PROVE i \in S
      <4>1. CASE i = m
        BY <2>2, <4>1
      <4>2. CASE i < m
        <5>1. q[i].dep <= q[m].dep /\ q[m].dep <= x
          BY <1>1, <2>2, <2>3, <4>2 DEF InOrderOfWaiting
        <5> QED
          BY <1>1, <2>3, <5>1
      <4> QED
        BY <2>3, <3>2, <4>1, <4>2
    <3> QED
      BY <3>1, <3>2
  <2>5. S = 1..m
    BY <1>2, <2>3, <2>4
  <2>6. c = m
    <3>1. Cardinality(1..m) = m
      BY <2>3, FS_Interval
    <3> QED
      BY <2>5, <3>1
  <2>7. \A i \in DOMAIN q : q[i].dep <= x <=> i \in S
    OBVIOUS
  <2>8. m \in 0..Len(q) /\ DOMAIN q = 1..n
    BY <1>1, <2>3
  <2> HIDE DEF S, n
  <2> QED
    BY <2>4, <2>6, <2>7, <2>8, Zenon
<1> QED
  BY <1>3, <1>4

\* What is where after an insertion.
Inserted(r, q, e, c) ==
    /\ Len(r) = Len(q) + 1
    /\ \A i \in 1..c : r[i] = q[i]
    /\ r[c + 1] = e
    /\ \A i \in c + 1..Len(q) : r[i + 1] = q[i]

LEMMA InsertIs ==
    ASSUME NEW q \in Seq(Waiter), NEW e \in Waiter, NEW c \in 0..Len(q),
           NEW k, k = c + 1, NEW r, r = InsertAt(q, k, e)
    PROVE  r \in Seq(Waiter) /\ Inserted(r, q, e, c)
<1> DEFINE n == Len(q)
           a == SubSeq(q, 1, k - 1)
           b == SubSeq(q, k, n)
<1>1. n \in Nat /\ c \in Nat /\ c <= n /\ r = a \o <<e>> \o b
  <2>1. n \in Nat /\ c \in Nat /\ c <= n
    OBVIOUS
  <2>2. r = a \o <<e>> \o b
    BY DEF InsertAt
  <2> QED
    BY <2>1, <2>2
<1>2. a \in Seq(Waiter) /\ Len(a) = c /\ \A i \in 1..c : a[i] = q[i]
  <2>1. k - 1 = c /\ \A i \in 1..c : q[i] \in Waiter
    BY <1>1
  <2> QED
    BY <1>1, <2>1
<1>3. b \in Seq(Waiter) /\ Len(b) = n - c /\ \A i \in 1..n - c : b[i] = q[c + i]
  BY <1>1
<1> HIDE DEF n, a, b
<1>4. PICK d : d = a \o <<e>>
  OBVIOUS
<1>5. d \in Seq(Waiter) /\ Len(d) = c + 1 /\ (\A i \in 1..c : d[i] = q[i]) /\ d[c + 1] = e
  BY <1>1, <1>2, <1>4
<1>6. r = d \o b
  BY <1>1, <1>4
<1>7. r \in Seq(Waiter) /\ Len(r) = n + 1
  <2>1. c + 1 + (n - c) = n + 1
    BY <1>1
  <2>2. r \in Seq(Waiter) /\ Len(r) = Len(d) + Len(b)
    <3>1. d \in Seq(Waiter) /\ b \in Seq(Waiter)
      BY <1>3, <1>5
    <3> QED
      BY <3>1, <1>6, ConcatProperties, Zenon
  <2> QED
    BY <1>3, <1>5, <2>1, <2>2
<1>8. /\ \A i \in 1..c + 1 : r[i] = d[i]
      /\ \A i \in 1..n - c : r[c + 1 + i] = b[i]
  <2>1. \A i \in 1..Len(d) + Len(b) : r[i] = IF i <= Len(d) THEN d[i] ELSE b[i - Len(d)]
    BY <1>3, <1>5, <1>6, ConcatProperties
  <2>2. \A i \in 1..c + 1 : i \in 1..c + 1 + (n - c) /\ i <= c + 1
    BY <1>1
  <2>3. \A i \in 1..n - c : /\ c + 1 + i \in 1..c + 1 + (n - c) /\ ~(c + 1 + i <= c + 1)
                             /\ c + 1 + i - (c + 1) = i
    BY <1>1
  <2>4. \A i \in 1..c + 1 + (n - c) : r[i] = IF i <= c + 1 THEN d[i] ELSE b[i - (c + 1)]
    BY <1>3, <1>5, <2>1
  <2>5. ASSUME NEW i \in 1..n - c PROVE r[c + 1 + i] = b[i]
    <3>1. PICK j : j = c + 1 + i
      OBVIOUS
    <3>2. j \in 1..c + 1 + (n - c) /\ ~(j <= c + 1) /\ j - (c + 1) = i
      BY <2>3, <3>1
    <3>3. r[j] = b[i]
      BY <2>4, <3>2
    <3> QED
      BY <3>1, <3>3
  <2> QED
    BY <2>2, <2>4, <2>5
<1>9. ASSUME NEW i \in c + 1..n PROVE r[i + 1] = q[i]
  <2>1. i - c \in 1..n - c /\ c + (i - c) = i /\ c + 1 + (i - c) = i + 1
    BY <1>1
  <2>2. r[c + 1 + (i - c)] = b[i - c]
    BY <1>8, <2>1
  <2> QED
    BY <1>3, <2>1, <2>2
<1>10. (\A i \in 1..c : r[i] = q[i]) /\ r[c + 1] = e
  <2>1. c + 1 \in 1..c + 1 /\ \A i \in 1..c : i \in 1..c + 1
    BY <1>1
  <2> QED
    BY <1>5, <1>8, <2>1
<1> QED
  BY <1>7, <1>9, <1>10 DEF n, Inserted

\* Queue r holds what q held, and e.
Joined(r, q, e) ==
    /\ \A i \in DOMAIN r : r[i] = e \/ \E j \in DOMAIN q : r[i] = q[j]
    /\ \A j \in DOMAIN q : \E i \in DOMAIN r : r[i] = q[j]
    /\ \E i \in DOMAIN r : r[i] = e

LEMMA EnqueueOrder ==
    ASSUME NEW q \in Seq(Waiter), NEW e \in Waiter, InOrderOfWaiting(q),
           NEW r, r = Enqueue(q, e)
    PROVE  r \in Seq(Waiter) /\ InOrderOfWaiting(r) /\ Joined(r, q, e)
<1>1. PICK c : c = Cardinality({i \in DOMAIN q : q[i].dep <= e.dep})
  OBVIOUS
<1>2. Len(q) \in Nat /\ DOMAIN q = 1..Len(q) /\ e.dep \in Nat
  BY DEF Waiter
<1>3. c \in 0..Len(q) /\ \A i \in DOMAIN q : q[i].dep <= e.dep <=> i <= c
  BY <1>1, <1>2, FirstWaiters
<1>4. PICK k : k = c + 1 /\ r = InsertAt(q, k, e)
  BY <1>1 DEF Enqueue
<1>5. /\ r \in Seq(Waiter) /\ Len(r) = Len(q) + 1
      /\ \A i \in 1..c : r[i] = q[i]
      /\ r[c + 1] = e
      /\ \A i \in c + 1..Len(q) : r[i + 1] = q[i]
  <2>1. c \in 0..Len(q)
    BY <1>3
  <2>2. r \in Seq(Waiter) /\ Inserted(r, q, e, c)
    BY <1>4, <2>1, InsertIs
  <2> QED
    BY <2>2 DEF Inserted
<1>6. DOMAIN r = 1..Len(q) + 1
  BY <1>2, <1>5
<1>7. ASSUME NEW i \in DOMAIN r
      PROVE  \/ i \in 1..c /\ i \in DOMAIN q /\ r[i] = q[i]
             \/ i = c + 1 /\ r[i] = e
             \/ i - 1 \in c + 1..Len(q) /\ i - 1 \in DOMAIN q /\ r[i] = q[i - 1]
  <2>1. i \in 1..c \/ i = c + 1 \/ (i - 1 \in c + 1..Len(q) /\ i - 1 + 1 = i)
    BY <1>2, <1>3, <1>6
  <2>2. i \in 1..c => i \in DOMAIN q
    BY <1>2, <1>3
  <2>3. i - 1 \in c + 1..Len(q) => i - 1 \in DOMAIN q
    BY <1>2, <1>3
  <2>4. CASE i - 1 \in c + 1..Len(q) /\ i - 1 + 1 = i
    <3>1. r[i - 1 + 1] = q[i - 1]
      BY <1>5, <2>4
    <3> QED
      BY <2>3, <2>4, <3>1
  <2> QED
    BY <1>5, <2>1, <2>2, <2>4
<1>8. \A i \in DOMAIN q : q[i].dep \in Nat
  <2>1. \A i \in DOMAIN q : q[i] \in Waiter
    OBVIOUS
  <2> QED
    BY <2>1 DEF Waiter
<1>9. InOrderOfWaiting(r)
  <2> SUFFICES ASSUME NEW i \in DOMAIN r, NEW j \in DOMAIN r, i < j
               PROVE  r[i].dep <= r[j].dep
    BY DEF InOrderOfWaiting
  <2>1. i \in Nat /\ j \in Nat /\ c \in Nat
    BY <1>2, <1>3, <1>6
  <2>2. \A l, m \in DOMAIN q : l < m => q[l].dep <= q[m].dep
    BY DEF InOrderOfWaiting
  <2>3. CASE i \in 1..c /\ i \in DOMAIN q /\ r[i] = q[i]
    <3>1. q[i].dep <= e.dep
      BY <1>3, <2>1, <2>3
    <3>2. CASE j \in 1..c /\ j \in DOMAIN q /\ r[j] = q[j]
      BY <2>2, <2>3, <3>2
    <3>3. CASE j = c + 1 /\ r[j] = e
      BY <2>3, <3>1, <3>3
    <3>4. CASE j - 1 \in c + 1..Len(q) /\ j - 1 \in DOMAIN q /\ r[j] = q[j - 1]
      <4>1. i < j - 1
        BY <2>1, <2>3, <3>4
      <4> QED
        BY <2>2, <2>3, <3>4, <4>1
    <3> QED
      BY <1>7, <3>2, <3>3, <3>4
  <2>4. CASE i = c + 1 /\ r[i] = e
    <3>1. j - 1 \in c + 1..Len(q) /\ j - 1 \in DOMAIN q /\ r[j] = q[j - 1]
      BY <1>7, <2>1, <2>4
    <3>2. ~(q[j - 1].dep <= e.dep)
      BY <1>3, <2>1, <3>1
    <3> QED
      BY <1>2, <1>8, <2>4, <3>1, <3>2
  <2>5. CASE i - 1 \in c + 1..Len(q) /\ i - 1 \in DOMAIN q /\ r[i] = q[i - 1]
    <3>1. j - 1 \in c + 1..Len(q) /\ j - 1 \in DOMAIN q /\ r[j] = q[j - 1]
      BY <1>7, <2>1, <2>5
    <3>2. i - 1 < j - 1
      BY <2>1
    <3> QED
      BY <2>2, <2>5, <3>1, <3>2
  <2> QED
    BY <1>7, <2>3, <2>4, <2>5
<1>10. ASSUME NEW j \in DOMAIN q PROVE \E i \in DOMAIN r : r[i] = q[j]
  <2>1. CASE j \in 1..c
    <3>1. j \in DOMAIN r /\ r[j] = q[j]
      BY <1>2, <1>3, <1>5, <1>6, <2>1
    <3> QED
      BY <3>1
  <2>2. CASE j \in c + 1..Len(q)
    <3>1. j + 1 \in DOMAIN r /\ r[j + 1] = q[j]
      BY <1>2, <1>3, <1>5, <1>6, <2>2
    <3> QED
      BY <3>1
  <2> QED
    BY <1>2, <1>3, <2>1, <2>2
<1>11. c + 1 \in DOMAIN r /\ r[c + 1] = e
  BY <1>2, <1>3, <1>5, <1>6
<1>12. \A i \in DOMAIN r : r[i] = e \/ \E j \in DOMAIN q : r[i] = q[j]
  BY <1>7
<1> QED
  BY <1>5, <1>9, <1>10, <1>11, <1>12 DEF Joined

-----------------------------------------------------------------------------
(* Who waits for what.  A pending request is in the queue, which is in the   *)
(* order of what its replies wait for, positions that are assigned and not   *)
(* durable; every write in flight has its waiter.                            *)

Queued ==
    /\ InOrderOfWaiting(st.queue)
    /\ \A i \in DOMAIN st.queue : st.stable < st.queue[i].dep /\ st.queue[i].dep <= st.next
    /\ \A id \in DOMAIN reqs : reqs[id].reply = "pending" =>
        \E i \in DOMAIN st.queue : st.queue[i].req = id
    /\ \A k \in DOMAIN st.futs : \E i \in DOMAIN st.queue :
        st.queue[i].ok /\ st.queue[i].req = st.futs[k].write.req

\* What the server has promised a connected session lies below the tail.
Promised == \A p \in Producers :
    cl[p].pc = "open" /\ Connected(cl[p]) => sess[p].last <= st.next

Waiting == (st.up => Queued) /\ Promised

LEMMA QueuedStays ==
    ASSUME Queued, Answered, st'.queue = st.queue, st'.stable = st.stable, st'.next = st.next,
           \A k \in DOMAIN st'.futs : \E j \in DOMAIN st.futs : st'.futs[k].write = st.futs[j].write
    PROVE  Queued'
<1>1. InOrderOfWaiting(st.queue)'
  BY DEF Queued, InOrderOfWaiting
<1>2. ASSUME NEW id \in DOMAIN reqs', reqs'[id].reply = "pending"
      PROVE  \E i \in DOMAIN st'.queue : st'.queue[i].req = id
  <2>1. id \in DOMAIN reqs /\ reqs[id].reply = "pending"
    BY <1>2 DEF Answered
  <2> QED
    BY <2>1 DEF Queued
<1>3. ASSUME NEW k \in DOMAIN st'.futs
      PROVE  \E i \in DOMAIN st'.queue :
                st'.queue[i].ok /\ st'.queue[i].req = st'.futs[k].write.req
  <2>1. PICK j \in DOMAIN st.futs : st'.futs[k].write = st.futs[j].write
    OBVIOUS
  <2>2. PICK i \in DOMAIN st.queue : st.queue[i].ok /\ st.queue[i].req = st.futs[j].write.req
    BY DEF Queued
  <2> QED
    BY <2>1, <2>2
<1>4. \A i \in DOMAIN st'.queue : st'.stable < st'.queue[i].dep /\ st'.queue[i].dep <= st'.next
  BY DEF Queued
<1> QED
  BY <1>1, <1>2, <1>3, <1>4 DEF Queued

LEMMA PromisedStays ==
    ASSUME Inv, Promised, UNCHANGED <<cl, sess>>,
           \/ ~st'.up
           \/ st'.up /\ st.up /\ spawned' = spawned /\ st'.next = st.next
    PROVE  Promised'
<1> SUFFICES ASSUME NEW p \in Producers, cl'[p].pc = "open", Connected(cl[p])'
             PROVE  sess'[p].last <= st'.next
  BY DEF Promised
<1>1. st'.up /\ cl'[p].id = spawned'
  BY DEF Connected
<1>2. cl[p].pc = "open" /\ Connected(cl[p])
  BY <1>1 DEF Connected
<1> QED
  BY <1>1, <1>2 DEF Promised

\* The oldest write is durable: those it answers come first in the queue.
LEMMA CompleteWriteWaiting ==
    ASSUME Inv, Waiting, CompleteWrite, UNCHANGED <<cl, rd>>
    PROVE  Waiting'
<1>1. /\ st.up /\ st.futs # <<>> /\ Head(st.futs).at \in 1..flushed
      /\ UNCHANGED <<spawned, sess, cl>> /\ Queued /\ Promised /\ Held
  BY DEF CompleteWrite, Waiting, Inv
<1>2. Answered /\ Completed
  BY CompleteWriteKeeps
<1>3. PICK stable : stable = End(st.futs[1].write)
  OBVIOUS
<1>4. Promised'
  <2>1. CASE st' = Down
    BY <1>1, <2>1, PromisedStays DEF Down
  <2>2. CASE st' # Down
    <3>1. st'.up /\ st'.next = st.next
      BY <1>2, <2>2 DEF Completed, Streaming
    <3> QED
      BY <1>1, <3>1, PromisedStays
  <2> QED
    BY <2>1, <2>2
<1>5. ASSUME st' # Down
      PROVE  Queued'
  <2>1. /\ st'.stable = stable /\ st'.next = st.next /\ st'.futs = Tail(st.futs)
        /\ st' \in Streaming
    BY <1>2, <1>3, <1>5 DEF Completed
  <2>2. /\ st.queue \in Seq(Waiter) /\ st \in Streaming /\ st.futs \in Seq(Fut)
        /\ Len(st.futs) \in Nat /\ st.next \in Nat
    BY <1>1, FutTypes
  <2>3. /\ stable \in Nat /\ 1 \in DOMAIN st.futs /\ Head(st.futs) = st.futs[1]
        /\ \A k \in DOMAIN st.futs : k # 1 => stable <= st.futs[k].write.start
    BY <1>1, <1>3, HeadLeads
  <2>4. PICK c : c = Cardinality(Unblocked(stable))
    OBVIOUS
  <2>5. c \in 0..Len(st.queue) /\ \A i \in DOMAIN st.queue : st.queue[i].dep <= stable <=> i <= c
    <3>1. PICK w : w = st.queue
      OBVIOUS
    <3>2. w \in Seq(Waiter) /\ InOrderOfWaiting(w)
      BY <1>1, <2>2, <3>1 DEF Queued
    <3>3. c = Cardinality({i \in DOMAIN w : w[i].dep <= stable})
      BY <2>4, <3>1 DEF Unblocked
    <3>4. c \in 0..Len(w) /\ \A i \in DOMAIN w : w[i].dep <= stable <=> i <= c
      BY <2>3, <3>2, <3>3, FirstWaiters
    <3> QED
      BY <3>1, <3>4
  <2>6. stable = Head(st.futs).write.start + Head(st.futs).write.n
    BY <1>3, <2>3 DEF End
  <2>7. /\ st' = [st EXCEPT !.stable = stable, !.futs = Tail(st.futs),
                            !.queue = SubSeq(st.queue, c + 1, Len(st.queue))]
        /\ reqs' = Replies(stable)
    BY <1>5, <2>4, <2>6 DEF CompleteWrite
  <2>8. PICK q, n : q = SubSeq(st.queue, c + 1, n) /\ n = Len(st.queue)
    OBVIOUS
  <2>9. st'.queue = q
    BY <2>2, <2>7, <2>8 DEF Streaming
  <2>10. n \in Nat /\ c \in 0..n /\ DOMAIN st.queue = 1..n /\ \A i \in 1..n : st.queue[i] \in Waiter
    BY <2>2, <2>5, <2>8
  <2>11. /\ q \in Seq(Waiter) /\ Len(q) = n - c
         /\ \A i \in 1..n - c : q[i] = st.queue[c + i]
    <3>1. \A i \in c + 1..n : st.queue[i] \in Waiter
      BY <2>10
    <3> QED
      BY <2>2, <2>8, <2>10, <3>1
  <2>12. /\ DOMAIN q = 1..n - c
         /\ \A i \in DOMAIN q : c + i \in DOMAIN st.queue /\ q[i] = st.queue[c + i] /\ c < c + i
    BY <2>10, <2>11
  <2>13. \A i \in DOMAIN st.queue : ~(i <= c) => i - c \in DOMAIN q /\ q[i - c] = st.queue[i]
    <3> SUFFICES ASSUME NEW i \in DOMAIN st.queue, ~(i <= c)
                 PROVE  i - c \in DOMAIN q /\ q[i - c] = st.queue[i]
      OBVIOUS
    <3>1. i - c \in 1..n - c /\ c + (i - c) = i
      BY <2>10
    <3> QED
      BY <2>11, <2>12, <3>1
  <2>14. InOrderOfWaiting(q)
    <3> SUFFICES ASSUME NEW i \in DOMAIN q, NEW j \in DOMAIN q, i < j
                 PROVE  q[i].dep <= q[j].dep
      BY DEF InOrderOfWaiting
    <3>1. c + i < c + j
      BY <2>10, <2>12
    <3>2. st.queue[c + i].dep <= st.queue[c + j].dep
      BY <1>1, <2>12, <3>1 DEF Queued, InOrderOfWaiting
    <3> QED
      BY <2>12, <3>2
  <2>15. ASSUME NEW i \in DOMAIN q
         PROVE  stable < q[i].dep /\ q[i].dep <= st.next
    <3>1. c + i \in DOMAIN st.queue /\ q[i] = st.queue[c + i] /\ ~(c + i <= c)
      BY <2>10, <2>12
    <3>2. ~(q[i].dep <= stable) /\ q[i].dep <= st.next
      BY <1>1, <2>5, <3>1 DEF Queued
    <3>3. q[i].dep \in Nat
      BY <2>10, <3>1 DEF Waiter
    <3> QED
      BY <2>3, <3>2, <3>3
  <2>16. ASSUME NEW id \in DOMAIN reqs', reqs'[id].reply = "pending"
         PROVE  \E i \in DOMAIN q : q[i].req = id
    <3>1. id \in DOMAIN reqs /\ reqs[id].reply = "pending"
      BY <1>2, <2>16 DEF Answered
    <3>2. PICK i \in DOMAIN st.queue : st.queue[i].req = id
      BY <1>1, <3>1 DEF Queued
    <3>3. ~(st.queue[i].dep <= stable)
      <4> SUFFICES ASSUME st.queue[i].dep <= stable PROVE FALSE
        OBVIOUS
      <4>1. PICK mine : mine = {j \in Unblocked(stable) : st.queue[j].req = id}
        OBVIOUS
      <4>2. i \in mine
        BY <3>2, <4>1 DEF Unblocked
      <4>3. \E ok \in {"ok", "rejected"} : reqs'[id] = [reqs[id] EXCEPT !.reply = ok]
        BY <2>7, <3>1, <4>1, <4>2 DEF Replies
      <4>4. reqs[id] \in Message
        BY <3>1 DEF Inv, Types
      <4>5. reqs'[id].reply \in {"ok", "rejected"}
        BY <4>3, <4>4 DEF Message
      <4> QED
        BY <2>16, <4>5
    <3>4. ~(i <= c)
      BY <2>5, <3>3
    <3> QED
      BY <2>13, <3>2, <3>4
  <2>17. ASSUME NEW k \in DOMAIN st'.futs
         PROVE  \E i \in DOMAIN q : q[i].ok /\ q[i].req = st'.futs[k].write.req
    <3>1. k + 1 \in DOMAIN st.futs /\ st'.futs[k] = st.futs[k + 1] /\ k + 1 # 1
      <4>1. /\ Tail(st.futs) \in Seq(Fut) /\ Len(Tail(st.futs)) = Len(st.futs) - 1
            /\ \A l \in 1..Len(st.futs) - 1 :
                l + 1 \in DOMAIN st.futs /\ Tail(st.futs)[l] = st.futs[l + 1]
        BY <1>1, ShorterPipeline
      <4>2. k \in 1..Len(st.futs) - 1
        BY <2>1, <4>1
      <4> QED
        BY <2>1, <2>2, <4>1, <4>2
    <3>2. PICK w : w = st.futs[k + 1].write
      OBVIOUS
    <3>3. PICK i \in DOMAIN st.queue : st.queue[i].ok /\ st.queue[i].req = w.req
      BY <1>1, <3>1, <3>2 DEF Queued
    <3>4. /\ w.start < End(w) /\ End(w) \in Nat /\ w.start \in Nat
          /\ w.start = reqs[w.req].at /\ w.n = InputOf(w.req).n
      BY <1>1, <3>1, <3>2, FutTypes
    <3>5. stable <= w.start
      BY <2>3, <3>1, <3>2
    <3>6. st.queue[i].dep = End(w)
      <4>1. st.queue[i].dep = reqs[w.req].at + InputOf(w.req).n
        BY <1>1, <3>3 DEF Held
      <4> QED
        BY <3>4, <4>1 DEF End
    <3>7. ~(st.queue[i].dep <= stable)
      BY <2>3, <3>4, <3>5, <3>6
    <3>8. ~(i <= c)
      BY <2>5, <3>7
    <3> QED
      BY <2>13, <3>1, <3>2, <3>3, <3>8
  <2> QED
    BY <2>1, <2>9, <2>14, <2>15, <2>16, <2>17 DEF Queued
<1>6. st'.up => st' # Down
  BY DEF Down
<1> QED
  BY <1>4, <1>5, <1>6 DEF Waiting

\* A message reached the streamer: its own reply, if it is held back, is queued,
\* and so is that of every write.
LEMMA SentQueued ==
    ASSUME Inv, Queued, st.up, NEW r, Submitted(r),
           st'.queue \in Seq(Waiter), InOrderOfWaiting(st'.queue),
           st'.stable = st.stable, st.next <= st'.next, st'.next \in Nat,
           \A j \in DOMAIN st.queue : \E i \in DOMAIN st'.queue : st'.queue[i] = st.queue[j],
           \A i \in DOMAIN st'.queue :
               \/ \E j \in DOMAIN st.queue : st'.queue[i] = st.queue[j]
               \/ st.stable < st'.queue[i].dep /\ st'.queue[i].dep <= st'.next,
           r.reply = "pending" =>
               \E i \in DOMAIN st'.queue : st'.queue[i].req = Len(reqs) + 1,
           \A k \in DOMAIN st'.futs :
               \/ \E j \in DOMAIN st.futs : st'.futs[k].write = st.futs[j].write
               \/ \E i \in DOMAIN st'.queue :
                    st'.queue[i].ok /\ st'.queue[i].req = st'.futs[k].write.req
    PROVE  Queued'
<1>1. st.stable \in Nat /\ st.next \in Nat /\ st.queue \in Seq(Waiter)
  BY FutTypes
<1>2. ASSUME NEW i \in DOMAIN st'.queue
      PROVE  st'.stable < st'.queue[i].dep /\ st'.queue[i].dep <= st'.next
  <2>1. ASSUME NEW j \in DOMAIN st.queue, st'.queue[i] = st.queue[j]
        PROVE  st'.stable < st'.queue[i].dep /\ st'.queue[i].dep <= st'.next
    <3>1. st.stable < st.queue[j].dep /\ st.queue[j].dep <= st.next
      BY DEF Queued
    <3>2. st.queue[j] \in Waiter
      BY <1>1
    <3>3. st.queue[j].dep \in Nat
      BY <3>2 DEF Waiter
    <3> QED
      BY <1>1, <2>1, <3>1, <3>3
  <2> QED
    BY <2>1
<1>3. ASSUME NEW id \in DOMAIN reqs', reqs'[id].reply = "pending"
      PROVE  \E i \in DOMAIN st'.queue : st'.queue[i].req = id
  <2>1. CASE id \in DOMAIN reqs
    <3>1. reqs[id].reply = "pending"
      BY <1>3, <2>1 DEF Submitted
    <3>2. PICK j \in DOMAIN st.queue : st.queue[j].req = id
      BY <2>1, <3>1 DEF Queued
    <3> QED
      BY <3>2
  <2>2. CASE id = Len(reqs) + 1
    BY <1>3, <2>2 DEF Submitted
  <2> QED
    BY <2>1, <2>2 DEF Submitted
<1>4. ASSUME NEW k \in DOMAIN st'.futs
      PROVE  \E i \in DOMAIN st'.queue :
                st'.queue[i].ok /\ st'.queue[i].req = st'.futs[k].write.req
  <2>1. ASSUME NEW j \in DOMAIN st.futs, st'.futs[k].write = st.futs[j].write
        PROVE  \E i \in DOMAIN st'.queue :
                  st'.queue[i].ok /\ st'.queue[i].req = st'.futs[k].write.req
    <3>1. PICK l \in DOMAIN st.queue : st.queue[l].ok /\ st.queue[l].req = st.futs[j].write.req
      BY DEF Queued
    <3>2. PICK i \in DOMAIN st'.queue : st'.queue[i] = st.queue[l]
      OBVIOUS
    <3> QED
      BY <2>1, <3>1, <3>2
  <2> QED
    BY <2>1
<1> QED
  BY <1>2, <1>3, <1>4 DEF Queued, InOrderOfWaiting

\* What a session was promised stays below the tail when one of them is served.
LEMMA SentPromised ==
    ASSUME Inv, Promised, st.up, UNCHANGED spawned, NEW p \in Producers,
           \A q \in Producers : q # p => cl'[q] = cl[q] /\ sess'[q] = sess[q],
           cl'[p].id = cl[p].id, cl'[p].pc = cl[p].pc,
           st.next \in Nat, st'.next \in Nat, st.next <= st'.next,
           sess \in [Producers -> Session],
           sess'[p].last = sess[p].last \/ sess'[p].last = st'.next
    PROVE  Promised'
<1> SUFFICES ASSUME NEW q \in Producers, cl'[q].pc = "open", Connected(cl[q])'
             PROVE  sess'[q].last <= st'.next
  BY DEF Promised
<1>1. cl[q].pc = "open" /\ Connected(cl[q])
  BY DEF Connected
<1>2. sess[q].last <= st.next /\ sess[q].last \in Nat
  BY <1>1 DEF Promised, Session
<1> QED
  BY <1>2

LEMMA DropWaiting ==
    ASSUME Inv, Waiting, NEW p \in Producers, NEW b \in 1..Batches(p), Drop(p, b),
           st.up, UNCHANGED <<script, wal, spawned>>,
           \A q \in Producers : q # p => cl'[q] = cl[q],
           cl'[p].id = cl[p].id, cl'[p].pc = cl[p].pc
    PROVE  Waiting'
<1>1. PICK r : r = Request(p, b, -1, "lost", 0, <<>>)
  OBVIOUS
<1>2. r \in Message /\ r.reply = "lost"
  <2> DEFINE none == <<>>
  <2>1. b \in Nat \ {0}
    BY BatchOf DEF Inv
  <2>2. "lost" \in Replied /\ -1 \in Nat \cup {-1} /\ none \in Seq(FenceState)
    BY DEF Replied
  <2>3. r = Request(p, b, -1, "lost", 0, none)
    BY <1>1
  <2> HIDE DEF none
  <2> QED
    BY <2>1, <2>2, <2>3, RequestIs
<1>3. UNCHANGED <<st, sess>> /\ reqs' = Append(reqs, r)
  BY <1>1 DEF Drop
<1>4. Submitted(r)
  BY <1>2, <1>3, SubmittedIs
<1>5. st.queue \in Seq(Waiter) /\ st.next \in Nat /\ Queued /\ Promised
  BY FutTypes DEF Waiting
<1>6. Queued'
  BY <1>2, <1>3, <1>4, <1>5, SentQueued DEF Queued
<1>7. Promised'
  BY <1>3, <1>5, SentPromised DEF Inv, Types
<1> QED
  BY <1>6, <1>7 DEF Waiting

LEMMA RefuseWaiting ==
    ASSUME Inv, Whole, Waiting, NEW p \in Producers, NEW b \in 1..Batches(p),
           Refuse(p, b, script.of[p].in[b]), cl[p].pc = "open", Connected(cl[p]),
           st.up, UNCHANGED <<script, wal, spawned>>,
           \A q \in Producers : q # p => cl'[q] = cl[q],
           cl'[p].id = cl[p].id, cl'[p].pc = cl[p].pc
    PROVE  Waiting'
<1>a. PICK in : in = script.of[p].in[b]
  OBVIOUS
<1>b. PICK dep : dep = Max({Dependency(in), sess[p].last})
  OBVIOUS
<1>c. PICK saw : saw = IF TokenMismatch(in) THEN <<st.fence>> ELSE <<>>
  OBVIOUS
<1>d. PICK reply : reply = IF dep <= st.stable THEN "rejected" ELSE "pending"
  OBVIOUS
<1>e. PICK r : r = Request(p, b, -1, reply, dep, saw)
  OBVIOUS
<1>f. PICK new, e : new = Len(reqs) + 1 /\ e = [req |-> new, dep |-> dep, ok |-> FALSE]
  OBVIOUS
<1>1. Types /\ Current /\ st \in Streaming /\ sess \in [Producers -> Session] /\ Queued /\ Promised
      /\ st.queue \in Seq(Waiter) /\ st.stable \in Nat
  BY FutTypes DEF Inv, Types, Whole, Waiting
<1>2. st.next \in Nat /\ st.fence \in FenceState /\ st.fence.ap \in Nat
  BY <1>1 DEF Streaming, FenceState
<1>3. dep \in Nat /\ dep <= st.next
  <2>1. Dependency(in) \in Nat /\ Dependency(in) <= st.next
    BY <1>1, <1>2 DEF Dependency, Current
  <2>2. sess[p].last \in Nat /\ sess[p].last <= st.next
    BY <1>1 DEF Session, Promised
  <2>3. Dependency(in) \in Int /\ sess[p].last \in Int
    BY <2>1, <2>2
  <2>4. dep \in {Dependency(in), sess[p].last}
    BY <1>b, <2>3, MinMaxOfTwo
  <2> QED
    BY <2>1, <2>2, <2>4
<1>4. saw \in Seq(FenceState)
  BY <1>2, <1>c
<1>5. r \in Message /\ r.reply = reply
  <2>1. b \in Nat \ {0} /\ -1 \in Nat \cup {-1} /\ reply \in Replied
    BY <1>1, <1>d, BatchOf DEF Replied
  <2> QED
    BY <1>3, <1>4, <1>e, <2>1, RequestIs
<1>6. /\ reqs' = Append(reqs, r) /\ sess' = [sess EXCEPT ![p].poisoned = TRUE]
      /\ st' = IF dep <= st.stable THEN st ELSE [st EXCEPT !.queue = Enqueue(st.queue, e)]
  BY <1>a, <1>b, <1>c, <1>d, <1>e, <1>f DEF Refuse
<1>7. Submitted(r)
  BY <1>5, <1>6, SubmittedIs
<1>8. Queued' /\ st'.next = st.next
  <2>1. CASE dep <= st.stable
    <3>1. st' = st /\ r.reply # "pending"
      BY <1>5, <1>6, <1>d, <2>1
    <3>2. Queued'
      BY <1>1, <1>2, <1>7, <3>1, SentQueued DEF Queued
    <3> QED
      BY <3>1, <3>2
  <2>2. CASE ~(dep <= st.stable)
    <3>1. PICK q : q = Enqueue(st.queue, e)
      OBVIOUS
    <3>2. /\ st'.queue = q /\ st'.next = st.next /\ st'.stable = st.stable /\ st'.futs = st.futs
      <4>1. st' = [st EXCEPT !.queue = q]
        BY <1>6, <2>2, <3>1
      <4> QED
        BY <1>1, <4>1 DEF Streaming
    <3>3. e \in Waiter /\ e.dep = dep /\ e.req = new
      <4>1. new \in Nat
        BY <1>1, <1>f DEF Types
      <4> QED
        BY <1>3, <1>f, <4>1 DEF Waiter
    <3>4. q \in Seq(Waiter) /\ InOrderOfWaiting(q) /\ Joined(q, st.queue, e)
      <4>1. PICK w : w = st.queue
        OBVIOUS
      <4>2. w \in Seq(Waiter) /\ InOrderOfWaiting(w) /\ q = Enqueue(w, e)
        BY <1>1, <3>1, <4>1 DEF Queued
      <4>3. q \in Seq(Waiter) /\ InOrderOfWaiting(q) /\ Joined(q, w, e)
        BY <3>3, <4>2, EnqueueOrder
      <4> QED
        BY <4>1, <4>3
    <3>5. st.stable < dep
      BY <1>1, <1>3, <2>2
    <3>6. \A i \in DOMAIN q : \/ \E j \in DOMAIN st.queue : q[i] = st.queue[j]
                              \/ st.stable < q[i].dep /\ q[i].dep <= st.next
      BY <1>3, <3>3, <3>4, <3>5 DEF Joined
    <3>7. \E i \in DOMAIN q : q[i].req = Len(reqs) + 1
      BY <1>f, <3>3, <3>4 DEF Joined
    <3>8. st.next <= st'.next /\ st'.next \in Nat
      BY <1>2, <3>2
    <3>9. Queued'
      BY <1>1, <1>7, <3>2, <3>4, <3>6, <3>7, <3>8, SentQueued DEF Joined
    <3> QED
      BY <3>2, <3>9
  <2> QED
    BY <2>1, <2>2
<1>9. Promised'
  <2>1. sess'[p].last = sess[p].last /\ \A q \in Producers : q # p => sess'[q] = sess[q]
    BY <1>1, <1>6 DEF Session
  <2>2. st.next <= st'.next /\ st'.next \in Nat
    BY <1>2, <1>8
  <2> QED
    BY <1>1, <1>2, <2>1, <2>2, SentPromised
<1> QED
  BY <1>8, <1>9 DEF Waiting

LEMMA AcceptWaiting ==
    ASSUME Inv, Waiting, NEW p \in Producers, NEW b \in 1..Batches(p),
           Accept(p, b, script.of[p].in[b]),
           st.up, UNCHANGED <<script, wal, spawned>>,
           \A q \in Producers : q # p => cl'[q] = cl[q],
           cl'[p].id = cl[p].id, cl'[p].pc = cl[p].pc
    PROVE  Waiting'
<1>a. PICK in : in = script.of[p].in[b]
  OBVIOUS
<1>b. PICK s : s = Applied(st, in, st.next)
  OBVIOUS
<1>c. PICK lo, hi, new : lo = st.next /\ hi = st.next + in.n /\ new = Len(reqs) + 1
  OBVIOUS
<1>d. PICK w : w = WriteOf(s, new, lo, in.n)
  OBVIOUS
<1>e. PICK r : r = Request(p, b, lo, "pending", hi, <<>>)
  OBVIOUS
<1>f. PICK f, e : f = [at |-> 0, write |-> w] /\ e = [req |-> new, dep |-> hi, ok |-> TRUE]
  OBVIOUS
<1>1. Types /\ st \in Streaming /\ st.futs \in Seq(Fut) /\ Len(st.futs) \in Nat
      /\ sess \in [Producers -> Session] /\ Queued /\ Promised
      /\ st.queue \in Seq(Waiter) /\ st.stable \in Nat /\ st.next \in Nat /\ Len(reqs) \in Nat
      /\ st.stable <= st.next
  <2>1. st.stable <= st.next
    BY DEF Inv, Upright, Chain
  <2> QED
    BY <2>1, FutTypes DEF Inv, Types, Waiting
<1>2. in \in AllInputs /\ IsBatch(in) /\ in.n \in Nat /\ in.n > 0 /\ b \in Nat \ {0}
  <2>1. Types
    BY <1>1
  <2>2. /\ b \in Nat \ {0}
        /\ script.of[p].in[b] \in AllInputs /\ IsBatch(script.of[p].in[b])
    BY <2>1, BatchOf
  <2>3. in \in AllInputs /\ IsBatch(in)
    BY <2>2, <1>a
  <2>4. in.n \in Nat \ {0}
    BY <2>3 DEF IsBatch
  <2> QED
    BY <2>2, <2>3, <2>4
<1>3. lo \in Nat /\ hi \in Nat /\ lo < hi /\ new \in Nat
  BY <1>1, <1>2, <1>c
<1>4. s \in Streaming /\ s.futs = st.futs /\ s.queue = st.queue /\ s.stable = st.stable
  <2>1. st \in Streaming /\ st.next \in Nat
    BY <1>1
  <2>2. in \in AllInputs /\ IsBatch(in)
    BY <1>2
  <2> QED
    BY <2>1, <2>2, <1>b, AppliedFacts
<1>5. w \in Entry /\ w.req = new
  <2>1. PICK v : v = WriteOf(s, new, lo, in.n)
    OBVIOUS
  <2>2. v \in Entry /\ v.req = new
    BY <1>2, <1>3, <1>4, <2>1, WriteOfFacts
  <2> QED
    BY <1>d, <2>1, <2>2
<1>6. r \in Message /\ r.reply = "pending"
  <2> DEFINE none == <<>>
  <2>1. "pending" \in Replied /\ lo \in Nat \cup {-1} /\ none \in Seq(FenceState)
    BY <1>3 DEF Replied
  <2>2. r = Request(p, b, lo, "pending", hi, none)
    BY <1>e
  <2> HIDE DEF none
  <2> QED
    BY <1>2, <1>3, <2>1, <2>2, RequestIs
<1>7. PICK fs, q : fs = Append(st.futs, f) /\ q = Append(st.queue, e)
  OBVIOUS
<1>8. /\ reqs' = Append(reqs, r) /\ sess' = [sess EXCEPT ![p].last = hi]
      /\ st' = [s EXCEPT !.next = hi, !.futs = fs, !.queue = q]
  BY <1>4, <1>7, <1>a, <1>b, <1>c, <1>d, <1>e, <1>f DEF Accept
<1>9. Submitted(r)
  BY <1>6, <1>8, SubmittedIs
<1>10. st'.next = hi /\ st'.futs = fs /\ st'.queue = q /\ st'.stable = st.stable
  BY <1>4, <1>8 DEF Streaming
<1>11. f \in Fut /\ f.write = w /\ e \in Waiter /\ e.req = new /\ e.dep = hi /\ e.ok
  BY <1>3, <1>5, <1>f DEF Fut, Waiter
<1>12. PICK m, n : m = Len(st.futs) /\ n = Len(st.queue)
  OBVIOUS
<1>13. /\ m \in Nat /\ DOMAIN st.futs = 1..m /\ DOMAIN fs = 1..m + 1
       /\ (\A k \in 1..m : fs[k] = st.futs[k]) /\ fs[m + 1] = f
  BY <1>1, <1>7, <1>11, <1>12
<1>14. /\ n \in Nat /\ DOMAIN st.queue = 1..n /\ DOMAIN q = 1..n + 1 /\ q \in Seq(Waiter)
       /\ (\A k \in 1..n : q[k] = st.queue[k]) /\ q[n + 1] = e
  BY <1>1, <1>7, <1>11, <1>12
<1>15. \A k \in 1..m + 1 : k \in 1..m \/ k = m + 1
  BY <1>13
<1>16. \A k \in 1..n + 1 : k \in 1..n \/ k = n + 1
  BY <1>14
<1>17. \A k \in 1..n : k \in 1..n + 1 /\ k < n + 1 /\ ~(n + 1 < k)
  BY <1>14
<1>18. \A k \in 1..n : st.queue[k].dep <= hi
  <2> SUFFICES ASSUME NEW k \in 1..n PROVE st.queue[k].dep <= hi
    OBVIOUS
  <2>1. st.queue[k].dep <= st.next /\ st.queue[k] \in Waiter
    <3>1. k \in DOMAIN st.queue /\ st.queue[k] \in Waiter
      BY <1>1, <1>14
    <3> QED
      BY <1>1, <3>1 DEF Queued
  <2>2. st.queue[k].dep \in Nat
    BY <2>1 DEF Waiter
  <2> QED
    BY <1>3, <1>c, <2>1, <2>2
<1>19. InOrderOfWaiting(q)
  <2> SUFFICES ASSUME NEW i \in DOMAIN q, NEW j \in DOMAIN q, i < j
               PROVE  q[i].dep <= q[j].dep
    BY DEF InOrderOfWaiting
  <2>1. CASE j \in 1..n
    <3>1. i \in 1..n
      BY <1>14, <1>16, <1>17, <2>1
    <3> QED
      BY <1>1, <1>14, <2>1, <3>1 DEF Queued, InOrderOfWaiting
  <2>2. CASE j = n + 1
    <3>1. i \in 1..n
      BY <1>14, <1>16, <2>2
    <3> QED
      BY <1>11, <1>14, <1>18, <2>2, <3>1
  <2> QED
    BY <1>14, <1>16, <2>1, <2>2
<1>20. \A j \in DOMAIN st.queue : \E i \in DOMAIN q : q[i] = st.queue[j]
  BY <1>14, <1>17
<1>21. n + 1 \in DOMAIN q /\ st.stable < e.dep /\ e.dep <= hi
  BY <1>1, <1>3, <1>11, <1>14, <1>c
<1>22. \A i \in DOMAIN q : \/ \E j \in DOMAIN st.queue : q[i] = st.queue[j]
                           \/ st.stable < q[i].dep /\ q[i].dep <= hi
  BY <1>14, <1>16, <1>21
<1>23. \E i \in DOMAIN q : q[i].ok /\ q[i].req = new
  BY <1>11, <1>14, <1>21
<1>24. \A k \in DOMAIN fs : \/ \E j \in DOMAIN st.futs : fs[k].write = st.futs[j].write
                            \/ \E i \in DOMAIN q : q[i].ok /\ q[i].req = fs[k].write.req
  BY <1>5, <1>11, <1>13, <1>15, <1>23
<1>25. st.next <= st'.next /\ st'.next \in Nat
  BY <1>3, <1>10, <1>c
<1>26. Queued'
  <2>1. \E i \in DOMAIN q : q[i].req = Len(reqs) + 1
    BY <1>23, <1>c
  <2> QED
    BY <1>1, <1>9, <1>10, <1>14, <1>19, <1>20, <1>22, <1>24, <1>25, <2>1, SentQueued
<1>27. Promised'
  <2>1. sess'[p].last = st'.next /\ \A v \in Producers : v # p => sess'[v] = sess[v]
    BY <1>1, <1>8, <1>10 DEF Session
  <2> QED
    BY <1>1, <1>25, <2>1, SentPromised
<1> QED
  BY <1>26, <1>27 DEF Waiting

LEMMA SendWaiting ==
    ASSUME Inv, Whole, Waiting, NEW p \in Producers, Send(p)
    PROVE  Waiting'
<1>1. PICK b \in 1..Batches(p) :
            /\ st.up /\ cl[p].pc = "open" /\ Connected(cl[p])
            /\ UNCHANGED <<script, wal, flushed, gone, spawned, bg>>
            /\ \A q \in Producers : q # p => cl'[q] = cl[q]
            /\ cl'[p].id = cl[p].id /\ cl'[p].pc = cl[p].pc
            /\ \/ Drop(p, b)
               \/ Refuse(p, b, script.of[p].in[b])
               \/ Accept(p, b, script.of[p].in[b])
  BY SendIs
<1>2. CASE Drop(p, b)
  BY <1>1, <1>2, DropWaiting
<1>3. CASE Refuse(p, b, script.of[p].in[b])
  BY <1>1, <1>3, RefuseWaiting
<1>4. CASE Accept(p, b, script.of[p].in[b])
  BY <1>1, <1>4, AcceptWaiting
<1> QED
  BY <1>1, <1>2, <1>3, <1>4

LEMMA ServerWaiting ==
    ASSUME Inv, Whole, Waiting, StreamStep, UNCHANGED <<cl, rd>>
    PROVE  Waiting'
<1>1. Types /\ Promised /\ Following /\ Truthful /\ Settled
  BY DEF Waiting, Whole, Inv
<1>2. CASE StartStreamer
  <2>1. /\ ~st.up /\ st' = Streamer(TailAt(flushed), FenceAt(flushed), TrimAt(flushed))
        /\ UNCHANGED <<reqs, sess>> /\ spawned' = spawned + 1
    BY <1>2 DEF StartStreamer
  <2>2. st'.queue = <<>> /\ st'.futs = <<>>
    BY <2>1 DEF Streamer
  <2>3. Queued'
    <3>1. \A id \in DOMAIN reqs : reqs[id].reply # "pending"
      BY <1>1, <2>1 DEF Truthful
    <3> QED
      BY <2>1, <2>2, <3>1 DEF Queued, InOrderOfWaiting
  <2>4. Promised'
    <3> SUFFICES ASSUME NEW p \in Producers, Connected(cl[p])' PROVE FALSE
      BY DEF Promised
    <3>1. cl[p].id = spawned + 1
      BY <2>1 DEF Connected
    <3>2. cl[p].id <= spawned /\ spawned \in Nat
      BY <1>1 DEF Following, Types
    <3> QED
      BY <3>1, <3>2
  <2> QED
    BY <2>3, <2>4 DEF Waiting
<1>3. CASE Dormancy \/ FailWrite \/ Crash
  <2>1. ~st'.up /\ UNCHANGED <<cl, sess>>
    BY <1>3 DEF Dormancy, FailWrite, Crash, Exit, Down
  <2> QED
    BY <1>1, <2>1, PromisedStays DEF Waiting
<1>4. CASE PollWrite
  <2>1. PICK i \in DOMAIN st.futs : st' = [st EXCEPT !.futs[i].at = Len(wal) + 1]
    BY <1>4 DEF PollWrite
  <2>2. st.up /\ st \in Streaming /\ st.futs \in Seq(Fut) /\ UNCHANGED <<spawned, sess, cl>>
    BY <1>4, FutTypes DEF PollWrite
  <2>3. PICK fs, x : fs = [st.futs EXCEPT ![i].at = x] /\ x = Len(wal) + 1
    OBVIOUS
  <2>4. st' = [st EXCEPT !.futs = fs]
    BY <2>1, <2>2, <2>3 DEF Streaming
  <2>5. /\ st'.up /\ st'.queue = st.queue /\ st'.stable = st.stable /\ st'.next = st.next
        /\ st'.futs = fs
    BY <2>2, <2>4 DEF Streaming
  <2>6. \A k \in DOMAIN fs : k \in DOMAIN st.futs /\ fs[k].write = st.futs[k].write
    <3>1. \A k \in DOMAIN st.futs : st.futs[k] \in Fut
      BY <2>2
    <3> QED
      BY <2>2, <2>3, <3>1 DEF Fut
  <2>7. Answered
    <3>1. ~Flush
      BY <1>4 DEF PollWrite, Flush, Types, Inv
    <3> QED
      BY <3>1, StreamQuiet DEF Quiet
  <2>8. Queued'
    BY <2>2, <2>5, <2>6, <2>7, QueuedStays DEF Waiting
  <2>9. Promised'
    BY <1>1, <2>2, <2>5, PromisedStays
  <2> QED
    BY <2>8, <2>9 DEF Waiting
<1>5. CASE Flush \/ Restart \/ ListTrim \/ DeleteRecords \/ FinalizeTrim
  <2>1. UNCHANGED <<script, st, spawned, sess, cl, reqs>>
    BY <1>5 DEF Flush, Restart, ListTrim, DeleteRecords, FinalizeTrim, dbVars
  <2>2. Answered
    BY <1>1, <2>1, NobodyAnswered
  <2>3. Promised'
    BY <1>1, <2>1, PromisedStays
  <2>4. ASSUME st.up PROVE Queued'
    BY <2>1, <2>2, <2>4, QueuedStays DEF Waiting
  <2> QED
    BY <2>1, <2>3, <2>4 DEF Waiting
<1>6. CASE CompleteWrite
  BY <1>6, CompleteWriteWaiting
<1> QED
  BY <1>2, <1>3, <1>4, <1>5, <1>6 DEF StreamStep

LEMMA SessionWaiting ==
    ASSUME Inv, Waiting, NEW p \in Producers, ProducerStep(p), ~Send(p)
    PROVE  Waiting'
<1>1. Types /\ Promised /\ Answered /\ sess \in [Producers -> Session] /\ cl \in [Producers -> Client]
  BY SessionQuiet DEF Waiting, Inv, Types, Quiet
<1>2. UNCHANGED <<st, spawned>>
  BY DEF ProducerStep, Connect, Refused, Ack, SessionError, Disconnect, streamVars
<1>3. ASSUME st.up PROVE Queued'
  BY <1>1, <1>2, <1>3, QueuedStays DEF Waiting
<1>4. Promised'
  <2> SUFFICES ASSUME NEW q \in Producers, cl'[q].pc = "open", Connected(cl[q])'
               PROVE  sess'[q].last <= st.next
    BY <1>2 DEF Promised
  <2>1. st.up /\ cl'[q].id = spawned
    BY <1>2 DEF Connected
  <2>2. CASE Connect(p)
    <3>1. sess' = [sess EXCEPT ![p] = NewSession] /\ \A v \in Producers : v # p => cl'[v] = cl[v]
      BY <1>1, <2>2 DEF Connect
    <3>2. CASE q = p
      <4>1. sess'[q].last = 0 /\ st.next \in Nat
        BY <1>1, <2>1, <3>1, <3>2, FutTypes DEF NewSession
      <4> QED
        BY <4>1
    <3>3. CASE q # p
      <4>1. sess'[q] = sess[q] /\ cl'[q] = cl[q]
        BY <1>1, <3>1, <3>3
      <4> QED
        BY <1>1, <2>1, <4>1 DEF Promised, Connected
    <3> QED
      BY <3>2, <3>3
  <2>3. CASE Refused(p)
    <3>1. cl' = [cl EXCEPT ![p].pc = "failed"] /\ sess' = sess
      BY <2>3 DEF Refused, streamVars
    <3>2. q # p
      BY <1>1, <3>1 DEF Client
    <3>3. cl'[q] = cl[q]
      BY <1>1, <3>1, <3>2
    <3> QED
      BY <1>1, <2>1, <3>1, <3>3 DEF Promised, Connected
  <2>4. CASE Ack(p)
    <3>1. sess' = sess /\ cl[p].pc = "open"
      BY <2>4 DEF Ack, streamVars
    <3>2. cl'[q].id = cl[q].id /\ (q # p => cl'[q] = cl[q])
      <4>1. PICK a, b, i, s, r : cl' = [cl EXCEPT ![p] =
                [cl[p] EXCEPT !.pc = a, !.acks = b, !.infl = i, !.sent = s, !.retries = 0, !.resend = r]]
        BY <2>4 DEF Ack
      <4> QED
        BY <1>1, <4>1 DEF Client
    <3> QED
      BY <1>1, <2>1, <3>1, <3>2 DEF Promised, Connected
  <2>5. CASE SessionError(p) \/ Disconnect(p)
    <3>1. PICK retryable \in BOOLEAN : AfterError(p, retryable)
      BY <2>5 DEF SessionError, Disconnect
    <3>2. PICK c \in Client : cl' = [cl EXCEPT ![p] = c] /\ c.pc # "open"
      BY <1>1, <3>1, AfterErrorIs DEF Inv
    <3>3. q # p
      BY <1>1, <3>2 DEF Client
    <3>4. cl'[q] = cl[q] /\ sess' = sess
      BY <1>1, <2>5, <3>2, <3>3 DEF SessionError, Disconnect, streamVars
    <3> QED
      BY <1>1, <2>1, <3>4 DEF Promised, Connected
  <2> QED
    BY <2>2, <2>3, <2>4, <2>5 DEF ProducerStep
<1> QED
  BY <1>2, <1>3, <1>4 DEF Waiting

LEMMA StepWaiting ==
    ASSUME Inv, Whole, Waiting, [Next]_vars
    PROVE  Waiting'
<1>1. CASE StreamStep /\ UNCHANGED <<cl, rd>>
  BY <1>1, ServerWaiting
<1>2. ASSUME NEW p \in Producers, ProducerStep(p)
      PROVE  Waiting'
  BY <1>2, SendWaiting, SessionWaiting
<1>3. CASE ReaderStep \/ UNCHANGED vars
  <2>1. UNCHANGED <<script, st, spawned, reqs, sess, cl>>
    BY <1>3 DEF ReaderStep, OpenRead, CatchUp, Follow, Receive, Lag, ReadError, vars, streamVars, dbVars
  <2>2. Answered
    BY <2>1, NobodyAnswered DEF Inv
  <2>3. Promised'
    BY <2>1, PromisedStays DEF Waiting
  <2>4. ASSUME st.up PROVE Queued'
    BY <2>1, <2>2, <2>4, QueuedStays DEF Waiting
  <2> QED
    BY <2>1, <2>3, <2>4 DEF Waiting
<1> QED
  BY <1>1, <1>2, <1>3 DEF Next

LEMMA InitWaiting == Init => Waiting
<1> SUFFICES ASSUME Init PROVE Waiting
  OBVIOUS
<1>1. ~st.up
  BY DEF Init, StreamInit, Down
<1> QED
  BY <1>1 DEF Waiting, Promised, Connected

\* No append is ever forgotten (streamer.rs, append.rs): a reply that is held
\* back is in the queue of the running streamer, which is in the order of the
\* positions the replies wait for, and each of these is assigned and not durable
\* yet, so that the writes in flight answer everybody and free every permit.
THEOREM NobodyForgottenCorrect ==
    ASSUME ~StallPastDormancy
    PROVE  Spec => []NobodyForgotten
<1>1. Init => Inv /\ Whole /\ Waiting
  BY InitInv, InitWhole, InitWaiting
<1>2. Inv /\ Whole /\ Waiting /\ [Next]_vars => (Inv /\ Whole /\ Waiting)'
  BY StepInv, StepWhole, StepWaiting
<1>3. Inv /\ Waiting => NobodyForgotten
  <2> SUFFICES ASSUME Inv, Waiting PROVE NobodyForgotten
    OBVIOUS
  <2>1. \A id \in DOMAIN reqs : reqs[id].reply = "pending" => st.up
    BY DEF Inv, Truthful
  <2> QED
    BY <2>1 DEF Waiting, Queued, InOrderOfWaiting, NobodyForgotten
<1> QED
  BY <1>1, <1>2, <1>3, PTL DEF Spec

-----------------------------------------------------------------------------
(* What is left of the type invariant *)

\* A session has sent no more than it has in flight.
Budgeted == \A p \in Producers : cl[p].infl \in Nat /\ Len(cl[p].sent) <= cl[p].infl

Deleted == gone \subseteq SeqNums(Durable)

Failures == faults \in 0..script.faults

Buffered == Len(follow.buf) <= MaxLag

LEMMA OneBudget ==
    ASSUME cl \in [Producers -> Client], Budgeted, NEW p \in Producers, NEW c,
           cl' = [cl EXCEPT ![p] = c], c.infl \in Nat, Len(c.sent) <= c.infl
    PROVE  Budgeted'
<1> SUFFICES ASSUME NEW q \in Producers
             PROVE  cl'[q].infl \in Nat /\ Len(cl'[q].sent) <= cl'[q].infl
  BY DEF Budgeted
<1>1. CASE q = p
  BY <1>1
<1>2. CASE q # p
  BY <1>2 DEF Budgeted
<1> QED
  BY <1>1, <1>2

LEMMA SessionBudget ==
    ASSUME Inv, Budgeted, NEW p \in Producers, ProducerStep(p)
    PROVE  Budgeted'
<1>a. PICK o : o = cl[p]
  OBVIOUS
<1>b. PICK none : none = <<>>
  OBVIOUS
<1>1. /\ Types /\ cl \in [Producers -> Client] /\ o \in Client /\ o.sent \in Seq(Nat)
      /\ Len(o.sent) \in Nat /\ o.infl \in Nat /\ Len(o.sent) <= o.infl
      /\ Len(none) = 0
  BY <1>a, <1>b, ClientFacts DEF Inv, Types, Budgeted
<1>2. CASE Connect(p)
  <2>1. PICK r, c : c = [o EXCEPT !.pc = "open", !.id = spawned, !.sent = none, !.resend = r]
                    /\ cl' = [cl EXCEPT ![p] = c]
    BY <1>2, <1>a, <1>b DEF Connect
  <2>2. c.sent = none /\ c.infl = o.infl /\ Len(c.sent) <= c.infl
    BY <1>1, <2>1 DEF Client
  <2> QED
    BY <1>1, <2>1, <2>2, OneBudget
<1>3. CASE Refused(p)
  <2>1. PICK c : c = [o EXCEPT !.pc = "failed"] /\ cl' = [cl EXCEPT ![p] = c]
    BY <1>1, <1>3, <1>a DEF Refused
  <2>2. c.sent = o.sent /\ c.infl = o.infl
    BY <1>1, <2>1 DEF Client
  <2> QED
    BY <1>1, <2>1, <2>2, OneBudget
<1>4. CASE Send(p)
  <2>1. PICK ss, i, c : /\ ss = Append(o.sent, Len(reqs) + 1) /\ i = Max({o.infl, Len(o.sent) + 1})
                        /\ c = [o EXCEPT !.sent = ss, !.infl = i]
    OBVIOUS
  <2>2. cl' = [cl EXCEPT ![p] = c]
    BY <1>1, <1>4, <1>a, <2>1 DEF Send
  <2>3. c.sent = ss /\ c.infl = i
    BY <1>1, <2>1 DEF Client
  <2>4. i \in Nat /\ Len(o.sent) + 1 <= i
    <3>1. PICK l : l = Len(o.sent)
      OBVIOUS
    <3>2. l \in Nat /\ l + 1 \in Int /\ o.infl \in Int
      BY <1>1, <3>1
    <3>3. i \in {o.infl, l + 1} /\ i >= l + 1
      BY <2>1, <3>1, <3>2, MinMaxOfTwo
    <3> QED
      BY <1>1, <3>1, <3>2, <3>3
  <2>5. Len(ss) = Len(o.sent) + 1
    <3>1. Len(reqs) + 1 \in Nat
      BY <1>1 DEF Types
    <3> QED
      BY <1>1, <2>1, <3>1
  <2> QED
    BY <1>1, <2>2, <2>3, <2>4, <2>5, OneBudget
<1>5. CASE Ack(p)
  <2>1. PICK ts, i, c, a, b, r :
            /\ ts = Tail(o.sent) /\ i = o.infl - 1
            /\ c = [o EXCEPT !.pc = a, !.acks = b, !.infl = i, !.sent = ts, !.retries = 0, !.resend = r]
            /\ cl' = [cl EXCEPT ![p] = c]
    BY <1>1, <1>5, <1>a DEF Ack
  <2>2. c.sent = ts /\ c.infl = i
    BY <1>1, <2>1 DEF Client
  <2>3. Len(ts) = Len(o.sent) - 1 /\ Len(o.sent) > 0
    <3>1. o.sent # <<>>
      BY <1>5, <1>a DEF Ack
    <3> QED
      BY <1>1, <2>1, <3>1, HeadTailProperties
  <2>4. i \in Nat /\ Len(ts) <= i
    BY <1>1, <2>1, <2>3
  <2> QED
    BY <1>1, <2>1, <2>2, <2>4, OneBudget
<1>6. CASE SessionError(p) \/ Disconnect(p)
  <2>1. PICK retryable \in BOOLEAN : AfterError(p, retryable)
    BY <1>6 DEF SessionError, Disconnect
  <2>2. PICK c \in Client : cl' = [cl EXCEPT ![p] = c] /\ c.infl = o.infl /\ c.sent = none
    BY <1>1, <1>a, <1>b, <2>1, AfterErrorIs
  <2>3. Len(c.sent) <= c.infl /\ c.infl \in Nat
    BY <1>1, <2>2
  <2> QED
    BY <1>1, <2>2, <2>3, OneBudget
<1> QED
  BY <1>2, <1>3, <1>4, <1>5, <1>6 DEF ProducerStep

LEMMA StepBudget ==
    ASSUME Inv, Budgeted, [Next]_vars
    PROVE  Budgeted'
<1>1. ASSUME NEW p \in Producers, ProducerStep(p)
      PROVE  Budgeted'
  BY <1>1, SessionBudget
<1>2. CASE cl' = cl
  BY <1>2 DEF Budgeted
<1>3. (StreamStep /\ UNCHANGED <<cl, rd>>) \/ ReaderStep \/ UNCHANGED vars => cl' = cl
  BY DEF ReaderStep, OpenRead, CatchUp, Follow, Receive, Lag, ReadError, vars, streamVars
<1> QED
  BY <1>1, <1>2, <1>3 DEF Next

\* Only records that are durable are deleted.
LEMMA StepDeleted ==
    ASSUME Inv, Deleted, [Next]_vars
    PROVE  Deleted'
<1>1. CASE DeleteRecords
  <2>1. gone' \subseteq gone \cup SeqNums(Durable) /\ UNCHANGED <<wal, flushed>>
    BY <1>1 DEF DeleteRecords, Durable
  <2>2. Durable' = Durable
    BY <2>1 DEF Durable, RecordsAt
  <2> QED
    BY <2>1, <2>2 DEF Deleted, SeqNums
<1>2. CASE gone' = gone /\ Durably
  <2>1. Durable \subseteq Durable'
    BY <1>2, DurableStays
  <2>2. SeqNums(Durable) \subseteq SeqNums(Durable)'
    BY <2>1 DEF SeqNums
  <2> QED
    BY <1>2, <2>2 DEF Deleted
<1>3. CASE StreamStep /\ UNCHANGED <<cl, rd>> /\ ~DeleteRecords
  <2>1. gone' = gone
    BY <1>3 DEF StreamStep, StartStreamer, Dormancy, PollWrite, Flush, CompleteWrite, FailWrite,
                Crash, Restart, ListTrim, FinalizeTrim, dbVars
  <2>2. CASE Flush
    <3>1. flushed \in Nat /\ flushed' = flushed + 1 /\ wal' = wal
      BY <2>2 DEF Flush, Inv, Types
    <3>2. Durably
      BY <3>1 DEF Durably
    <3> QED
      BY <1>2, <2>1, <3>2
  <2>3. CASE ~Flush
    BY <1>2, <1>3, <2>1, <2>3, StreamQuiet DEF Quiet
  <2> QED
    BY <2>2, <2>3
<1>4. CASE UNCHANGED <<wal, flushed, gone>>
  <2>1. Durably
    BY <1>4 DEF Durably, Inv, Types
  <2> QED
    BY <1>2, <1>4, <2>1
<1>5. ASSUME NEW p \in Producers, ProducerStep(p)
      PROVE  UNCHANGED <<wal, flushed, gone>>
  BY <1>5 DEF ProducerStep, Connect, Refused, Send, HandleAppend, Ack, SessionError, Disconnect,
              streamVars, dbVars
<1>6. ReaderStep \/ UNCHANGED vars => UNCHANGED <<wal, flushed, gone>>
  BY DEF ReaderStep, OpenRead, CatchUp, Follow, Receive, Lag, ReadError, vars, streamVars, dbVars
<1> QED
  BY <1>1, <1>3, <1>4, <1>5, <1>6 DEF Next

\* No behaviour has more faults than its script.
LEMMA StepFailures ==
    ASSUME Inv, Failures, [Next]_vars
    PROVE  Failures'
<1>1. script' = script
  <2>1. StreamStep => script' = script
    BY DEF StreamStep, StartStreamer, Dormancy, PollWrite, Flush, CompleteWrite, FailWrite,
           Crash, Restart, ListTrim, DeleteRecords, FinalizeTrim
  <2>2. \A p \in Producers : ProducerStep(p) => script' = script
    BY DEF ProducerStep, Connect, Refused, Send, HandleAppend, Ack, SessionError, Disconnect, streamVars
  <2>3. ReaderStep \/ UNCHANGED vars => script' = script
    BY DEF ReaderStep, OpenRead, CatchUp, Follow, Receive, Lag, ReadError, vars, streamVars
  <2> QED
    BY <2>1, <2>2, <2>3 DEF Next
<1>2. faults' = faults \/ (faults < script.faults /\ faults' = faults + 1)
  <2>1. StreamStep => faults' = faults \/ (faults < script.faults /\ faults' = faults + 1)
    BY DEF StreamStep, StartStreamer, Dormancy, PollWrite, Flush, CompleteWrite, FailWrite,
           Crash, Restart, ListTrim, DeleteRecords, FinalizeTrim
  <2>2. \A p \in Producers :
            ProducerStep(p) => faults' = faults \/ (faults < script.faults /\ faults' = faults + 1)
    BY DEF ProducerStep, Connect, Refused, Send, HandleAppend, Ack, SessionError, Disconnect, streamVars
  <2>3. ReaderStep \/ UNCHANGED vars => faults' = faults
    BY DEF ReaderStep, OpenRead, CatchUp, Follow, Receive, Lag, ReadError, vars, streamVars
  <2> QED
    BY <2>1, <2>2, <2>3 DEF Next
<1>3. script.faults \in Nat
  BY ScriptAssumption DEF Inv, Types
<1> QED
  BY <1>1, <1>2, <1>3 DEF Failures

\* The channel of a follower holds no more than MaxLag batches.
LEMMA StepBuffered ==
    ASSUME Inv, Reading, Buffered, [Next]_vars
    PROVE  Buffered'
<1>a. PICK none : none = <<>>
  OBVIOUS
<1>b. MaxLag \in Nat /\ MaxLag > 0 /\ Len(none) = 0
  BY <1>a, StreamAssumption
<1>c. follow \in Follower /\ follow.buf \in Seq(Nat) /\ Len(follow.buf) \in Nat
  BY DEF Reading, Follower
<1>1. CASE follow'.buf = follow.buf \/ follow'.buf = none
  BY <1>1, <1>b DEF Buffered
<1>2. CASE CompleteWrite
  <2>1. PICK id, ended : /\ id = Head(st.futs).write.req
                         /\ follow' = IF ended THEN [Broadcast(id) EXCEPT !.live = FALSE] ELSE Broadcast(id)
    BY <1>2 DEF CompleteWrite
  <2>2. id \in Nat
    <3>1. st.up /\ st.futs # <<>>
      BY <1>2 DEF CompleteWrite
    <3>2. st.futs \in Seq(Fut)
      BY <3>1, FutTypes
    <3>3. Head(st.futs) \in Fut
      BY <3>1, <3>2
    <3> QED
      BY <2>1, <3>3 DEF Fut, Entry
  <2>3. PICK B, f : B = follow.buf /\ f = Broadcast(id)
    OBVIOUS
  <2>4. B \in Seq(Nat) /\ Len(B) \in Nat /\ Len(B) <= MaxLag
    BY <1>c, <2>3 DEF Buffered
  <2>5. f \in Follower /\ (f.buf = B \/ Len(f.buf) <= MaxLag)
    <3>1. CASE ~follow.live
      BY <1>c, <2>3, <3>1 DEF Broadcast
    <3>2. CASE follow.live /\ Len(B) < MaxLag
      <4>1. PICK C : C = Append(B, id)
        OBVIOUS
      <4>2. C \in Seq(Nat) /\ Len(C) = Len(B) + 1
        BY <2>2, <2>4, <4>1
      <4>3. f = [follow EXCEPT !.buf = C]
        BY <2>3, <3>2, <4>1 DEF Broadcast
      <4>4. f \in Follower /\ f.buf = C
        BY <1>c, <4>2, <4>3 DEF Follower
      <4> QED
        BY <1>b, <2>4, <3>2, <4>2, <4>4
    <3>3. CASE follow.live /\ ~(Len(B) < MaxLag)
      <4>1. PICK t, D : t = Tail(B) /\ D = Append(t, id)
        OBVIOUS
      <4>2. B # <<>>
        BY <1>a, <1>b, <3>3
      <4>3. t \in Seq(Nat) /\ Len(t) = Len(B) - 1
        BY <2>4, <4>1, <4>2, HeadTailProperties
      <4>4. D \in Seq(Nat) /\ Len(D) = Len(B)
        BY <2>2, <2>4, <4>1, <4>3
      <4>5. f = [follow EXCEPT !.buf = D, !.lagged = TRUE]
        BY <2>3, <3>3, <4>1 DEF Broadcast
      <4>6. f \in Follower /\ f.buf = D
        BY <1>c, <4>4, <4>5 DEF Follower
      <4> QED
        BY <2>4, <4>4, <4>6
    <3> QED
      BY <3>1, <3>2, <3>3
  <2>6. follow'.buf = f.buf
    <3>1. CASE follow' = f
      BY <3>1
    <3>2. CASE follow' = [f EXCEPT !.live = FALSE]
      BY <2>5, <3>2 DEF Follower
    <3> QED
      BY <2>1, <2>3, <3>1, <3>2
  <2> QED
    BY <2>3, <2>4, <2>5, <2>6 DEF Buffered
<1>3. CASE Receive
  <2>1. PICK t : t = Tail(follow.buf)
    OBVIOUS
  <2>2. follow'.buf = t /\ follow.buf # <<>>
    BY <1>3, <1>c, <2>1 DEF Receive, Follower
  <2>3. Len(t) = Len(follow.buf) - 1
    BY <1>c, <2>1, <2>2, HeadTailProperties
  <2> QED
    BY <1>b, <1>c, <2>2, <2>3 DEF Buffered
<1>4. CASE (StreamStep /\ ~CompleteWrite) \/ (ReaderStep /\ ~Receive) \/ UNCHANGED vars
  <2>1. \/ follow' = follow
        \/ \E b : follow' = [follow EXCEPT !.live = b]
        \/ \E l, b : follow' = [live |-> l, lagged |-> b, buf |-> none]
    BY <1>4, <1>a DEF StreamStep, StartStreamer, Dormancy, PollWrite, Flush, FailWrite, Crash, Restart,
        ListTrim, DeleteRecords, FinalizeTrim, Exit, ReaderStep, OpenRead, CatchUp, Follow, Lag,
        ReadError, Unsubscribed, vars, streamVars
  <2>2. follow'.buf = follow.buf \/ follow'.buf = none
    BY <1>c, <2>1 DEF Follower
  <2> QED
    BY <1>1, <2>2
<1>5. ASSUME NEW p \in Producers, ProducerStep(p)
      PROVE  follow' = follow
  BY <1>5 DEF ProducerStep, Connect, Refused, Send, HandleAppend, Ack, SessionError, Disconnect, streamVars
<1> QED
  BY <1>1, <1>2, <1>3, <1>4, <1>5 DEF Next

\* The writes in flight are of different requests, and each has its waiter.
LEMMA EachHasItsWaiter ==
    ASSUME Inv, st.up, Queued
    PROVE  Len(st.futs) <= Len(st.queue)
<1>1. PICK m, n : m = Len(st.futs) /\ n = Len(st.queue)
  OBVIOUS
<1>2. m \in Nat /\ n \in Nat /\ DOMAIN st.futs = 1..m /\ DOMAIN st.queue = 1..n
  BY <1>1, FutTypes
<1>3. PICK f : f = [k \in 1..m |-> CHOOSE i \in 1..n : st.queue[i].req = st.futs[k].write.req]
  OBVIOUS
<1>4. \A k \in 1..m : f[k] \in 1..n /\ st.queue[f[k]].req = st.futs[k].write.req
  <2> SUFFICES ASSUME NEW k \in 1..m
               PROVE  f[k] \in 1..n /\ st.queue[f[k]].req = st.futs[k].write.req
    OBVIOUS
  <2>1. \E i \in 1..n : st.queue[i].req = st.futs[k].write.req
    BY <1>2 DEF Queued
  <2>2. f[k] = CHOOSE i \in 1..n : st.queue[i].req = st.futs[k].write.req
    BY <1>3
  <2> QED
    BY <2>1, <2>2
<1>5. ASSUME NEW j \in 1..m, NEW k \in 1..m, j < k
      PROVE  f[j] # f[k]
  <2>1. End(st.futs[j].write) <= st.futs[k].write.start
    BY <1>2, <1>5 DEF Inv, Upright, Chain
  <2>2. /\ st.futs[j].write.start < End(st.futs[j].write)
        /\ st.futs[j].write.start \in Nat /\ End(st.futs[j].write) \in Nat
        /\ st.futs[j].write.start = reqs[st.futs[j].write.req].at
        /\ st.futs[k].write.start = reqs[st.futs[k].write.req].at
        /\ st.futs[k].write.start \in Nat
    BY <1>2, FutTypes
  <2>3. st.futs[j].write.start # st.futs[k].write.start
    BY <2>1, <2>2
  <2>4. st.futs[j].write.req # st.futs[k].write.req
    BY <2>2, <2>3
  <2> QED
    BY <1>4, <2>4
<1>6. f \in Injection(1..m, 1..n)
  <2>1. f \in [1..m -> 1..n]
    <3>1. f = [k \in 1..m |-> f[k]]
      BY <1>3
    <3> QED
      BY <1>4, <3>1
  <2>2. \A j, k \in 1..m : f[j] = f[k] => j = k
    BY <1>2, <1>5
  <2> QED
    BY <2>1, <2>2 DEF Injection, IsInjective
<1>7. Cardinality(1..m) = m /\ Cardinality(1..n) = n /\ IsFiniteSet(1..n)
  <2>1. 0 \in Int /\ 1 \in Int /\ m \in Int /\ n \in Int
    BY <1>2
  <2>2. /\ Cardinality(1..m) = (IF 1 > m THEN 0 ELSE m - 1 + 1)
        /\ Cardinality(1..n) = (IF 1 > n THEN 0 ELSE n - 1 + 1)
        /\ IsFiniteSet(1..n)
    BY <2>1, FS_Interval
  <2> QED
    BY <1>2, <2>2
<1>8. Cardinality(1..m) <= Cardinality(1..n)
  BY <1>6, <1>7, FS_Injection
<1> QED
  BY <1>1, <1>7, <1>8

LEMMA InitRest == Init => Budgeted /\ Deleted /\ Failures /\ Buffered
<1> SUFFICES ASSUME Init PROVE Budgeted /\ Deleted /\ Failures /\ Buffered
  OBVIOUS
<1>a. PICK none : none = <<>>
  OBVIOUS
<1>b. Len(none) = 0 /\ MaxLag \in Nat
  BY <1>a, StreamAssumption
<1>1. Budgeted
  <2> SUFFICES ASSUME NEW p \in Producers
               PROVE  cl[p].infl \in Nat /\ Len(cl[p].sent) <= cl[p].infl
    BY DEF Budgeted
  <2>1. cl[p].infl = 0 /\ cl[p].sent = none
    BY <1>a DEF Init, NewProducer
  <2> QED
    BY <1>b, <2>1
<1>2. Deleted
  BY DEF Init, StreamInit, Deleted
<1>3. Failures
  BY ScriptAssumption DEF Init, StreamInit, Failures
<1>4. Buffered
  <2>1. follow.buf = none
    BY <1>a DEF Init, StreamInit
  <2> QED
    BY <1>b, <2>1 DEF Buffered
<1> QED
  BY <1>1, <1>2, <1>3, <1>4

LEMMA WellTyped ==
    ASSUME Inv, Waiting, Reading, Budgeted, Deleted, Failures, Buffered
    PROVE  TypeOK
<1>1. Types
  BY DEF Inv
<1>2. /\ script \in Scripts /\ flushed \in 0..Len(wal) /\ dbUp \in BOOLEAN
      /\ spawned \in Nat /\ faults \in 0..script.faults
      /\ Len(follow.buf) <= MaxLag
      /\ gone \subseteq SeqNums(RecordsAt(flushed))
  BY <1>1 DEF Types, Failures, Buffered, Deleted, Durable
<1>3. \A i \in DOMAIN wal : wal[i].op \in {"batch", "trimmed", "drop"}
  <2>1. \A i \in DOMAIN wal : wal[i] \in Entry
    BY <1>1 DEF Types
  <2> QED
    BY <2>1 DEF Entry
<1>4. st.up => st.stable <= st.next /\ Len(st.futs) <= Len(st.queue)
  BY EachHasItsWaiter DEF Waiting, Inv, Upright, Chain
<1>5. \A id \in DOMAIN reqs : reqs[id].reply \in Replied /\ reqs[id].at \in Nat \cup {-1}
  <2>1. \A id \in DOMAIN reqs : reqs[id] \in Message
    BY <1>1 DEF Types
  <2> QED
    BY <2>1 DEF Message
<1>6. sess \in [Producers -> [poisoned : BOOLEAN, last : Nat]]
  BY <1>1 DEF Types, Session
<1>7. bg.pc \in {"idle", "delete", "finalize"}
  BY <1>1 DEF Types, Trimmer
<1>8. ASSUME NEW p \in Producers
      PROVE  /\ cl[p].pc \in {"idle", "open", "done", "failed"}
             /\ cl[p].infl \in 0..Batches(p)
             /\ Len(cl[p].sent) <= cl[p].infl
  <2>1. PICK o : o = cl[p]
    OBVIOUS
  <2>2. o \in Client /\ o.pc \in {"idle", "open", "done", "failed"}
    BY <1>1, <2>1 DEF Types, Client
  <2>3. Len(o.acks) + o.infl <= Batches(p) /\ o.infl \in Nat /\ Len(o.sent) <= o.infl
    BY <1>1, <2>1 DEF Types, Budgeted
  <2>4. Len(o.acks) \in Nat
    BY <2>2 DEF Client
  <2>5. Batches(p) \in Nat
    BY <1>1, ScriptAssumption DEF Types, Batches
  <2>6. o.infl \in 0..Batches(p)
    BY <2>3, <2>4, <2>5
  <2> QED
    BY <2>1, <2>2, <2>3, <2>6
<1>9. rd.pc \in {"idle", "catchup", "follow", "unwritten", "absent"}
  BY DEF Reading, Reader
<1> QED
  BY <1>2, <1>3, <1>4, <1>5, <1>6, <1>7, <1>8, <1>9 DEF TypeOK

\* The type invariant, with what it says of the bounded parts: a stream deletes
\* nothing that is not durable (stream_trim.rs), each write in flight has its
\* waiter (streamer.rs), a session has sent no more than it has in flight
\* (session/append.rs), and a follower's channel never holds more than its
\* capacity (FOLLOWER_MAX_LAG).
THEOREM LogTypeCorrect ==
    ASSUME ~StallPastDormancy
    PROVE  Spec => []TypeOK
<1> DEFINE All == /\ Inv /\ Whole /\ Reading /\ Waiting
                  /\ Budgeted /\ Deleted /\ Failures /\ Buffered
<1>1. Init => All
  BY InitInv, InitWhole, InitReading, InitWaiting, InitRest
<1>2. All /\ [Next]_vars => All'
  <2> SUFFICES ASSUME All, [Next]_vars PROVE All'
    OBVIOUS
  <2>1. Inv' /\ Waiting' /\ Budgeted' /\ Deleted' /\ Failures' /\ Buffered'
    BY StepInv, StepWaiting, StepBudget, StepDeleted, StepFailures, StepBuffered
  <2>2. Whole' /\ Reading'
    BY <2>1, StepWhole, StepReading DEF Whole
  <2> QED
    BY <2>1, <2>2
<1>3. All => TypeOK
  BY WellTyped
<1> QED
  BY <1>1, <1>2, <1>3, PTL DEF Spec
=============================================================================
