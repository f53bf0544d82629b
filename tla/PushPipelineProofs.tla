------------------------- MODULE PushPipelineProofs -------------------------
(***************************************************************************)
(* Proofs about PushPipeline, for any number of pushes, subscriptions and  *)
(* restarts, and with or without failures.                                 *)
(***************************************************************************)
EXTENDS PushPipeline, SequenceTheorems, FiniteSetTheorems, TLAPS

-----------------------------------------------------------------------------
(* The inductive invariant *)

Distinct(s) == \A i, j \in 1..Len(s) : s[i] = s[j] => i = j

\* TypeOK, with sequences whose length is bounded by what is in them instead.
Types ==
    /\ pushes \in Nat /\ spawned \in Nat /\ log \in Nat
    /\ log + spawned <= pushes /\ pushes <= MaxPushes
    /\ subs \in Seq(Hooks) /\ Distinct(subs)
    /\ todo \in Seq(Hooks) /\ Distinct(todo)
    /\ removed \in SUBSET Hooks
    /\ pc \in {"recv", "list", "notify"}
    /\ position \in Nat /\ current \in Nat /\ committed \in Nat
    /\ queue \in Seq(Nat)
    /\ handled \in SUBSET Offsets
    /\ failed \in SUBSET Offsets
    /\ notices \in [Offsets -> [Hooks -> Nat]]
    /\ restarts \in Nat /\ restarts <= MaxRestarts

\* The consumer is within the partition, and beyond what it has committed.
Consumer ==
    /\ committed < position /\ position <= log + 1
    /\ pc = "recv" => current = 0
    /\ pc # "recv" => current > committed /\ position = current + 1
    /\ pc = "notify" => todo # <<>>

\* Every message the consumer has passed was handled or failed.
Passed ==
    \A o \in 1..position - 1 : o \in handled \cup failed \/ o = current

\* The commits in flight are increasing, beyond the one on record and below
\* the message in hand.
Queued ==
    /\ \A i, j \in 1..Len(queue) : i < j => queue[i] < queue[j]
    /\ \A i \in 1..Len(queue) :
        /\ committed < queue[i] /\ queue[i] < position
        /\ pc # "recv" => queue[i] < current

\* Is the process still to notify subscription h of message o?
Waiting(o, h) ==
    \/ o >= position
    \/ o = current /\ pc = "list"
    \/ o = current /\ pc = "notify" /\ \E k \in 1..Len(todo) : todo[k] = h

\* Earlier processes sent one notification each, this one none before its turn.
Notified ==
    \A o \in Offsets, h \in Hooks :
        /\ notices[o][h] <= restarts + 1
        /\ Waiting(o, h) => notices[o][h] <= restarts

Inv == Types /\ Consumer /\ Passed /\ Queued /\ Notified

-----------------------------------------------------------------------------
(* Sequences without repetitions *)

LEMMA AppendDistinct ==
    ASSUME NEW S, NEW s \in Seq(S), NEW x \in S, Distinct(s),
           \A k \in DOMAIN s : s[k] # x
    PROVE  Append(s, x) \in Seq(S) /\ Distinct(Append(s, x))
BY DEF Distinct

LEMMA RemoveDistinct ==
    ASSUME NEW S, NEW s \in Seq(S), Distinct(s), NEW k \in DOMAIN s,
           NEW t, t = [i \in 1..Len(s) - 1 |-> s[IF i < k THEN i ELSE i + 1]]
    PROVE  t \in Seq(S) /\ Distinct(t)
<1>1. Len(s) - 1 \in Nat /\ k \in 1..Len(s)
  OBVIOUS
<1>2. \A i \in 1..Len(s) - 1 : s[IF i < k THEN i ELSE i + 1] \in S
  OBVIOUS
<1>3. t \in [1..Len(s) - 1 -> S]
  BY <1>1, <1>2
<1>4. t \in Seq(S) /\ Len(t) = Len(s) - 1
  BY <1>1, <1>3
<1>5. Distinct(t)
  BY <1>1, <1>4 DEF Distinct
<1> QED
  BY <1>4, <1>5

LEMMA TailDistinct ==
    ASSUME NEW S, NEW s \in Seq(S), s # <<>>, Distinct(s)
    PROVE  /\ Tail(s) \in Seq(S) /\ Distinct(Tail(s))
           /\ Head(s) \in S
           /\ \A k \in 1..Len(Tail(s)) : Tail(s)[k] # Head(s)
           /\ \A k \in 1..Len(Tail(s)) : \E j \in 1..Len(s) : Tail(s)[k] = s[j]
BY HeadTailProperties DEF Distinct

\* So many elements and no more.
LEMMA DistinctIsShort ==
    ASSUME NEW S, IsFiniteSet(S), NEW s \in Seq(S), Distinct(s)
    PROVE  s \in SeqOf(S)
<1>1. s \in [1..Len(s) -> S] /\ Len(s) \in Nat
  OBVIOUS
<1>2. s \in Injection(1..Len(s), S)
  BY <1>1 DEF Distinct, Injection, IsInjective
<1>3. Cardinality(1..Len(s)) = Len(s)
  <2>1. Cardinality(1..Len(s)) = IF 1 > Len(s) THEN 0 ELSE Len(s) - 1 + 1
    BY <1>1, 1 \in Int, Len(s) \in Int, FS_Interval, Zenon
  <2> QED
    BY <1>1, <2>1
<1>4. Len(s) <= Cardinality(S) /\ Cardinality(S) \in Nat
  BY <1>2, <1>3, FS_Injection, FS_CardinalityType
<1> QED
  BY <1>1, <1>4 DEF SeqOf

-----------------------------------------------------------------------------
(* The invariant is inductive *)

LEMMA InitInv == Init => Inv
BY PipelineAssumption DEF Init, Inv, Types, Distinct, Consumer, Passed, Queued,
   Notified, Waiting, Offsets

LEMMA Growing ==
    ASSUME NEW p \in Nat, NEW m \in Nat, NEW n \in Nat, p <= m + 1, n >= m
    PROVE  p <= n + 1
OBVIOUS

\* The server and the subscriptions do not touch what the consumer holds.
LEMMA OthersInv ==
    ASSUME Inv, log' >= log, Types',
           UNCHANGED <<consumerVars, commitVars, history>>
    PROVE  Inv'
<1>1. Consumer'
  <2>1. log \in Nat /\ log' \in Nat /\ position \in Nat
    BY DEF Inv, Types
  <2>2. UNCHANGED <<pc, position, current, todo, committed>>
    BY DEF consumerVars, commitVars
  <2>3. Consumer
    BY DEF Inv
  <2>4. position' <= log' + 1
    <3>1. position <= log + 1
      BY <2>3 DEF Consumer
    <3>2. position' = position
      BY <2>2
    <3> QED
      BY <2>1, <3>1, <3>2, Growing
  <2> QED
    BY <2>2, <2>3, <2>4, Zenon DEF Consumer
<1>2. Passed' /\ Queued' /\ Notified'
  BY DEF Inv, Passed, Queued, Notified, Waiting, consumerVars, commitVars,
     history
<1> QED
  BY <1>1, <1>2 DEF Inv

LEMMA ServerInv ==
    ASSUME Inv, Push \/ Publish \/ PublishFails
    PROVE  Inv'
<1>1. Types
  BY DEF Inv
<1>2. /\ pushes' \in Nat /\ spawned' \in Nat /\ log' \in Nat
      /\ log' + spawned' =< pushes' /\ pushes' =< MaxPushes
      /\ log' >= log
  BY <1>1, PipelineAssumption DEF Types, Push, Publish, PublishFails
<1>3. UNCHANGED <<hookVars, consumerVars, commitVars, history>>
  BY DEF Push, Publish, PublishFails
<1>4. Types'
  BY <1>1, <1>2, <1>3 DEF Types, hookVars, consumerVars, commitVars, history
<1> QED
  BY <1>2, <1>3, <1>4, OthersInv

LEMMA HooksInv ==
    ASSUME Inv, NEW h \in Hooks, Subscribe(h) \/ Unsubscribe(h)
    PROVE  Inv'
<1>1. subs' \in Seq(Hooks) /\ Distinct(subs')
  <2>1. CASE Subscribe(h)
    BY <2>1, AppendDistinct DEF Inv, Types, Subscribe
  <2>2. CASE Unsubscribe(h)
    <3>1. PICK k \in DOMAIN subs :
            subs' = [i \in 1..Len(subs) - 1 |->
                        subs[IF i < k THEN i ELSE i + 1]]
      BY <2>2 DEF Unsubscribe
    <3> QED
      BY <3>1, RemoveDistinct DEF Inv, Types
  <2> QED
    BY <2>1, <2>2
<1>2. UNCHANGED <<producerVars, consumerVars, commitVars, history>>
      /\ removed' \in SUBSET Hooks
  BY DEF Subscribe, Unsubscribe, Inv, Types
<1>3. Types' /\ log' >= log
  BY <1>1, <1>2 DEF Inv, Types, Distinct, producerVars, consumerVars,
     commitVars, history
<1> QED
  BY <1>2, <1>3, OthersInv

LEMMA ReceiveInv ==
    ASSUME Inv, Receive
    PROVE  Inv'
<1> USE DEF Receive, Inv, Types, Consumer, producerVars, hookVars, commitVars,
            history
<1>1. Types' /\ Consumer'
  BY DEF Distinct
<1>2. Passed'
  BY DEF Passed
<1>3. Queued'
  BY DEF Queued
<1>4. Notified'
  <2>1. \A o \in Offsets, h \in Hooks : Waiting(o, h)' => Waiting(o, h)
    BY DEF Waiting, Offsets
  <2> QED
    BY <2>1 DEF Notified
<1> QED
  BY <1>1, <1>2, <1>3, <1>4

\* What the message in hand leaves behind, whether Ok or Err is returned.
LEMMA ReturnInv ==
    ASSUME Inv, pc # "recv", ReturnOk \/ ReturnErr,
           UNCHANGED <<producerVars, hookVars>>,
           notices' \in [Offsets -> [Hooks -> Nat]],
           \A o \in Offsets, h \in Hooks :
              /\ notices'[o][h] <= restarts + 1
              /\ o > current => notices'[o][h] = notices[o][h]
    PROVE  Inv'
<1> USE PipelineAssumption
    DEF Inv, Types, Consumer, producerVars, hookVars
<1>1. current \in Offsets /\ current < position
  BY DEF Offsets
<1>2. /\ queue' \in Seq(Nat)
      /\ queue' = queue \/ queue' = Append(queue, current)
      /\ handled' \in SUBSET Offsets /\ failed' \in SUBSET Offsets
      /\ handled \subseteq handled' /\ failed \subseteq failed'
      /\ current \in handled' \cup failed'
      /\ pc' = "recv" /\ current' = 0 /\ todo' = <<>>
      /\ UNCHANGED <<position, committed, restarts>>
  <2>1. CASE ReturnOk
    <3>1. queue' = queue \/ queue' = Append(queue, current)
      BY <2>1 DEF ReturnOk
    <3>2. queue' \in Seq(Nat)
      <4>1. queue \in Seq(Nat) /\ current \in Nat
        OBVIOUS
      <4>2. Append(queue, current) \in Seq(Nat)
        BY <4>1
      <4> QED
        BY <3>1, <4>1, <4>2
    <3> QED
      BY <1>1, <2>1, <3>1, <3>2 DEF ReturnOk
  <2>2. CASE ReturnErr
    BY <1>1, <2>2 DEF ReturnErr
  <2> QED
    BY <2>1, <2>2
<1>3. Types' /\ Consumer'
  BY <1>2 DEF Distinct
<1>4. Passed'
  BY <1>2 DEF Passed
<1>5. Queued'
  <2>1. CASE queue' = queue
    BY <1>1, <1>2, <2>1 DEF Queued
  <2>2. CASE queue' = Append(queue, current)
    <3>1. /\ Len(queue') = Len(queue) + 1 /\ Len(queue) \in Nat
          /\ \A i \in 1..Len(queue) : queue'[i] = queue[i]
          /\ queue'[Len(queue) + 1] = current
      BY <2>2
    <3>2. \A i \in 1..Len(queue) : queue[i] \in Nat /\ queue[i] < current
      BY DEF Queued
    <3>3. \A i \in 1..Len(queue') :
            /\ committed' < queue'[i]
            /\ queue'[i] < position'
      <4>1. SUFFICES ASSUME NEW i \in 1..Len(queue')
                     PROVE  committed < queue'[i] /\ queue'[i] < position
        BY <1>2
      <4>2. CASE i \in 1..Len(queue)
        BY <3>1, <4>2 DEF Queued
      <4>3. CASE i = Len(queue) + 1
        BY <1>1, <3>1, <4>3
      <4> QED
        BY <3>1, <4>2, <4>3
    <3>4. \A i, j \in 1..Len(queue') : i < j => queue'[i] < queue'[j]
      <4>1. SUFFICES ASSUME NEW i \in 1..Len(queue'),
                            NEW j \in 1..Len(queue'), i < j
                     PROVE  queue'[i] < queue'[j]
        OBVIOUS
      <4>2. i \in 1..Len(queue)
        BY <3>1, <4>1
      <4>3. CASE j \in 1..Len(queue)
        BY <3>1, <4>1, <4>2, <4>3 DEF Queued
      <4>4. CASE j = Len(queue) + 1
        BY <3>1, <3>2, <4>2, <4>4
      <4> QED
        BY <3>1, <4>3, <4>4
    <3> QED
      BY <1>2, <3>3, <3>4 DEF Queued
  <2> QED
    BY <1>2, <2>1, <2>2
<1>6. Notified'
  <2>1. \A o \in Offsets, h \in Hooks : Waiting(o, h)' =>
            notices'[o][h] = notices[o][h] /\ Waiting(o, h)
    <3> SUFFICES ASSUME NEW o \in Offsets, NEW h \in Hooks, Waiting(o, h)'
                 PROVE  notices'[o][h] = notices[o][h] /\ Waiting(o, h)
      OBVIOUS
    <3>1. o \in Nat /\ o # 0
      BY DEF Offsets
    <3>2. o >= position /\ o > current
      BY <1>1, <1>2, <3>1 DEF Waiting, Offsets
    <3> QED
      BY <3>2 DEF Waiting
  <2> QED
    BY <1>2, <2>1 DEF Notified
<1> QED
  BY <1>3, <1>4, <1>5, <1>6

LEMMA ListWebhooksInv ==
    ASSUME Inv, ListWebhooks
    PROVE  Inv'
<1>1. UNCHANGED <<notices, producerVars, hookVars>> /\ pc = "list"
  BY DEF ListWebhooks
<1>2. CASE subs = <<>>
  <2>1. ReturnOk
    BY <1>2 DEF ListWebhooks
  <2> QED
    BY <1>1, <2>1, ReturnInv DEF Inv, Types, Notified
<1>3. CASE subs # <<>>
  <2>1. /\ pc' = "notify" /\ todo' = subs
        /\ UNCHANGED <<position, current, commitVars, handled, failed,
                       restarts>>
    BY <1>3 DEF ListWebhooks
  <2> USE <1>1, <2>1 DEF Inv, Types, producerVars, hookVars, commitVars
  <2>2. Types' /\ Consumer'
    BY <1>3 DEF Consumer, Distinct
  <2>3. Passed' /\ Queued'
    BY DEF Passed, Queued
  <2>4. Notified'
    BY DEF Notified, Waiting
  <2> QED
    BY <2>2, <2>3, <2>4
<1> QED
  BY <1>2, <1>3

LEMMA ListFailsInv ==
    ASSUME Inv, ListFails
    PROVE  Inv'
<1>1. /\ UNCHANGED <<notices, producerVars, hookVars>>
      /\ pc = "list" /\ ReturnErr
  BY DEF ListFails
<1> QED
  BY <1>1, ReturnInv DEF Inv, Types, Notified

\* A post changes one count, of a subscription that was waiting.
LEMMA PostedFacts ==
    ASSUME Inv, pc = "notify"
    PROVE  /\ todo # <<>> /\ Head(todo) \in Hooks /\ current \in Offsets
           /\ Posted \in [Offsets -> [Hooks -> Nat]]
           /\ \A o \in Offsets, h \in Hooks :
                /\ Posted[o][h] <= restarts + 1
                /\ o # current \/ h # Head(todo) => Posted[o][h] = notices[o][h]
<1> USE DEF Inv, Types
<1>1. todo # <<>> /\ current \in Offsets
  BY PipelineAssumption DEF Consumer, Offsets
<1>2. Head(todo) \in Hooks
  BY <1>1
<1>3. Head(todo) = todo[1] /\ 1 \in 1..Len(todo)
  BY <1>1
<1>4. notices[current][Head(todo)] <= restarts
  BY <1>1, <1>2, <1>3 DEF Notified, Waiting
<1>5. Posted \in [Offsets -> [Hooks -> Nat]]
  BY <1>1, <1>2 DEF Posted
<1>6. \A o \in Offsets, h \in Hooks : Posted[o][h] =
        IF o = current /\ h = Head(todo) THEN notices[o][h] + 1
        ELSE notices[o][h]
  BY <1>1, <1>2 DEF Posted
<1>7. \A o \in Offsets, h \in Hooks : Posted[o][h] <= restarts + 1
  <2>1. SUFFICES ASSUME NEW o \in Offsets, NEW h \in Hooks
                 PROVE  Posted[o][h] <= restarts + 1
    OBVIOUS
  <2>2. CASE o = current /\ h = Head(todo)
    BY <1>1, <1>2, <1>4, <1>6, <2>2
  <2>3. CASE ~(o = current /\ h = Head(todo))
    BY <1>6, <2>3 DEF Notified
  <2> QED
    BY <2>2, <2>3
<1> QED
  BY <1>1, <1>2, <1>5, <1>6, <1>7

LEMMA NotifyInv ==
    ASSUME Inv, Notify
    PROVE  Inv'
<1>1. /\ pc = "notify" /\ notices' = Posted
      /\ UNCHANGED <<producerVars, hookVars>>
  BY DEF Notify
<1>2. CASE Len(todo) = 1
  <2>1. ReturnOk
    BY <1>2 DEF Notify
  <2>2. \A o \in Offsets : o > current => o # current
    BY DEF Offsets, Inv, Types
  <2> QED
    BY <1>1, <2>1, <2>2, PostedFacts, ReturnInv
<1>3. CASE Len(todo) # 1
  <2>1. /\ todo' = Tail(todo)
        /\ UNCHANGED <<pc, position, current, commitVars, handled, failed,
                       restarts>>
    BY <1>3 DEF Notify
  <2>2. todo' \in Seq(Hooks) /\ Distinct(todo')
    BY <1>1, <2>1, PostedFacts, TailDistinct DEF Inv, Types
  <2>3. todo' # <<>>
    <3>1. todo \in Seq(Hooks) /\ todo # <<>>
      BY <1>1, PostedFacts DEF Inv, Types
    <3>2. Len(Tail(todo)) = Len(todo) - 1 /\ Len(todo) \in Nat \ {0}
      BY <3>1, HeadTailProperties
    <3>3. Len(todo') # 0
      BY <1>3, <2>1, <3>2
    <3> QED
      BY <3>3
  <2>4. Types'
    BY <1>1, <2>1, <2>2, PostedFacts
    DEF Inv, Types, Distinct, producerVars, hookVars, commitVars
  <2>5. Consumer'
    BY <1>1, <2>1, <2>3 DEF Inv, Consumer, producerVars, commitVars
  <2>6. Passed' /\ Queued'
    BY <2>1 DEF Inv, Passed, Queued, commitVars
  <2>7. Notified'
    <3>1. /\ \A k \in 1..Len(todo') : todo'[k] # Head(todo)
          /\ \A k \in 1..Len(todo') : \E j \in 1..Len(todo) :
                todo'[k] = todo[j]
      BY <1>1, <2>1, PostedFacts, TailDistinct DEF Inv, Types
    <3>2. \A o \in Offsets, h \in Hooks : Waiting(o, h)' =>
            Waiting(o, h) /\ (o # current \/ h # Head(todo))
      <4>1. SUFFICES ASSUME NEW o \in Offsets, NEW h \in Hooks,
                            Waiting(o, h)'
                     PROVE  Waiting(o, h) /\ (o # current \/ h # Head(todo))
        OBVIOUS
      <4>2. CASE o >= position
        BY <1>1, <4>2 DEF Waiting, Inv, Types, Consumer, Offsets
      <4>3. CASE ~(o >= position)
        BY <1>1, <2>1, <3>1, <4>1, <4>3 DEF Waiting
      <4> QED
        BY <4>2, <4>3
    <3> QED
      BY <1>1, <2>1, <3>2, PostedFacts DEF Inv, Notified
  <2> QED
    BY <2>4, <2>5, <2>6, <2>7 DEF Inv
<1> QED
  BY <1>2, <1>3

LEMMA NotifyFailsInv ==
    ASSUME Inv, NotifyFails
    PROVE  Inv'
<1>1. /\ pc = "notify" /\ ReturnErr /\ notices' \in {notices, Posted}
      /\ UNCHANGED <<producerVars, hookVars>>
  BY DEF NotifyFails
<1>2. \A o \in Offsets : o > current => o # current
  BY DEF Offsets, Inv, Types
<1>3. CASE notices' = notices
  BY <1>1, <1>3, ReturnInv DEF Inv, Types, Notified
<1>4. CASE notices' = Posted
  BY <1>1, <1>2, <1>4, PostedFacts, ReturnInv
<1> QED
  BY <1>1, <1>3, <1>4

\* The oldest commit leaves the queue, and the broker may have it on record.
LEMMA CommitInv ==
    ASSUME Inv, ApplyCommit \/ LoseCommit
    PROVE  Inv' /\ committed' >= committed
<1> USE DEF Inv, Types
<1>1. /\ queue # <<>> /\ queue' = Tail(queue)
      /\ committed' = committed \/ committed' = Head(queue)
      /\ UNCHANGED <<producerVars, hookVars, consumerVars, history>>
  BY DEF ApplyCommit, LoseCommit
<1>2. /\ queue' \in Seq(Nat)
      /\ Len(queue) \in Nat /\ Len(queue') = Len(queue) - 1
      /\ \A i \in 1..Len(queue') : queue'[i] = queue[i + 1]
  BY <1>1, HeadTailProperties
<1>3. 1 \in 1..Len(queue) /\ Head(queue) = queue[1] /\ queue[1] \in Nat
  BY <1>1
<1>4. /\ committed < queue[1] /\ queue[1] < position
      /\ pc # "recv" => queue[1] < current
  BY <1>3 DEF Queued
<1>5. /\ committed' \in Nat /\ committed' >= committed
      /\ committed' <= queue[1]
  BY <1>1, <1>3, <1>4
<1> USE <1>1 DEF producerVars, hookVars, consumerVars, history
<1>6. Types'
  BY <1>2, <1>5 DEF Distinct
<1>7. Consumer'
  BY <1>3, <1>4, <1>5 DEF Consumer
<1>8. Queued'
  <2>1. \A i \in 1..Len(queue') : i + 1 \in 1..Len(queue)
    BY <1>2
  <2>2. \A i \in 1..Len(queue') :
            queue[1] < queue'[i] /\ queue[i + 1] \in Nat
    BY <1>2, <1>3, <2>1 DEF Queued
  <2>3. \A i \in 1..Len(queue') :
            /\ committed' < queue'[i] /\ queue'[i] < position'
            /\ pc' # "recv" => queue'[i] < current'
    BY <1>2, <1>3, <1>5, <2>1, <2>2 DEF Queued
  <2>4. \A i, j \in 1..Len(queue') : i < j => queue'[i] < queue'[j]
    BY <1>2, <2>1 DEF Queued
  <2> QED
    BY <2>3, <2>4 DEF Queued
<1>9. Passed' /\ Notified'
  BY DEF Passed, Notified, Waiting
<1> QED
  BY <1>5, <1>6, <1>7, <1>8, <1>9

LEMMA RestartInv ==
    ASSUME Inv, Restart
    PROVE  Inv'
<1> USE PipelineAssumption
    DEF Inv, Types, Consumer, Restart, producerVars, hookVars
<1>1. Types' /\ Consumer'
  BY DEF Distinct
<1>2. Passed'
  BY DEF Passed
<1>3. Queued'
  BY DEF Queued
<1>4. Notified'
  BY DEF Notified
<1> QED
  BY <1>1, <1>2, <1>3, <1>4

LEMMA StepInv == Inv /\ [Next]_vars => Inv'
<1> SUFFICES ASSUME Inv, [Next]_vars
             PROVE  Inv'
  OBVIOUS
<1>1. CASE Push \/ Publish \/ PublishFails
  BY <1>1, ServerInv
<1>2. CASE \E h \in Hooks : Subscribe(h) \/ Unsubscribe(h)
  BY <1>2, HooksInv
<1>3. CASE Consume
  BY <1>3, ReceiveInv, ListWebhooksInv, NotifyInv DEF Consume
<1>4. CASE ListFails \/ NotifyFails
  BY <1>4, ListFailsInv, NotifyFailsInv
<1>5. CASE ApplyCommit \/ LoseCommit
  BY <1>5, CommitInv
<1>6. CASE Restart
  BY <1>6, RestartInv
<1>7. CASE UNCHANGED vars
  <2> USE <1>7 DEF vars, producerVars, hookVars, consumerVars, commitVars,
              history
  <2>1. Types' /\ log' >= log
    BY DEF Inv, Types, Distinct
  <2> QED
    BY <2>1, OthersInv
<1> QED
  BY <1>1, <1>2, <1>3, <1>4, <1>5, <1>6, <1>7 DEF Next

THEOREM SpecInv == Spec => []Inv
BY InitInv, StepInv, PTL DEF Spec

-----------------------------------------------------------------------------
(* What follows from it *)

\* The types of rows, offsets and sequences, for any number of pushes; the
\* queue of commits is bounded by the messages, although commits are async.
THEOREM PushTypeCorrect == Spec => []TypeOK
<1>1. Inv => TypeOK
  <2> SUFFICES ASSUME Inv
               PROVE  TypeOK
    OBVIOUS
  <2>1. subs \in SeqOf(Hooks) /\ todo \in SeqOf(Hooks)
    BY PipelineAssumption, DistinctIsShort DEF Inv, Types
  <2>2. queue \in SeqOf(Offsets)
    <3>a. /\ queue \in Seq(Nat) /\ Len(queue) \in Nat
          /\ \A i \in 1..Len(queue) : queue[i] \in Nat
      BY DEF Inv, Types
    <3>b. /\ committed \in Nat /\ position \in Nat /\ position <= MaxPushes + 1
          /\ MaxPushes \in Nat
      BY PipelineAssumption DEF Inv, Types, Consumer
    <3>c. /\ \A i, j \in 1..Len(queue) : i < j => queue[i] < queue[j]
          /\ \A i \in 1..Len(queue) : committed < queue[i] /\ queue[i] < position
      BY DEF Inv, Queued
    <3>1. \A i \in 1..Len(queue) : queue[i] \in Offsets
      BY <3>a, <3>b, <3>c DEF Offsets
    <3>2. queue \in Seq(Offsets)
      BY <3>1, <3>a
    <3>3. Distinct(queue)
      <4> SUFFICES ASSUME NEW i \in 1..Len(queue), NEW j \in 1..Len(queue),
                          queue[i] = queue[j]
                   PROVE  i = j
        BY DEF Distinct
      <4>1. i \in Nat /\ j \in Nat /\ queue[i] \in Nat
        BY <3>a
      <4>2. ~(i < j) /\ ~(j < i)
        BY <3>c, <4>1
      <4> QED
        BY <4>1, <4>2
    <3>4. IsFiniteSet(Offsets)
      BY PipelineAssumption, FS_Interval DEF Offsets
    <3> QED
      BY <3>2, <3>3, <3>4, DistinctIsShort
  <2>3. /\ pushes \in 0..MaxPushes /\ spawned \in 0..MaxPushes
        /\ log \in 0..MaxPushes /\ position \in 1..(MaxPushes + 1)
        /\ current \in Offsets \cup {0} /\ committed \in Offsets \cup {0}
        /\ restarts \in 0..MaxRestarts
    BY PipelineAssumption DEF Inv, Types, Consumer, Offsets
  <2> QED
    BY <2>1, <2>2, <2>3 DEF Inv, Types, TypeOK
<1> QED
  BY <1>1, SpecInv, PTL

\* No message below the committed offset is passed over: crashes and restarts
\* at any point, with commits in flight or lost, only ever go back.
THEOREM SkippedOnlyIfFailedCorrect == Spec => []SkippedOnlyIfFailed
<1>1. Inv => SkippedOnlyIfFailed
  BY DEF Inv, Types, Consumer, Passed, SkippedOnlyIfFailed
<1> QED
  BY <1>1, SpecInv, PTL

\* A fan-out notifies a subscription once at most, whatever is subscribed or
\* deleted meanwhile; r restarts make r + 1 notifications at most.
THEOREM DuplicatesOnlyByRestartCorrect == Spec => []DuplicatesOnlyByRestart
<1>1. Inv => DuplicatesOnlyByRestart
  BY DEF Inv, Notified, DuplicatesOnlyByRestart
<1> QED
  BY <1>1, SpecInv, PTL

\* The broker's record of the group only moves forward.
THEOREM CommitNeverRegressesCorrect == Spec => CommitNeverRegresses
<1>1. Inv /\ [Next]_vars => [committed' >= committed]_vars
  <2> SUFFICES ASSUME Inv, Next
               PROVE  committed' >= committed
    OBVIOUS
  <2>1. CASE ApplyCommit \/ LoseCommit
    BY <2>1, CommitInv
  <2>2. CASE ~(ApplyCommit \/ LoseCommit)
    <3>1. committed' = committed
      BY <2>2 DEF Next, Push, Publish, PublishFails, Subscribe, Unsubscribe,
         Consume, Receive, ListWebhooks, Notify, ListFails, NotifyFails,
         ReturnOk, ReturnErr, Restart, commitVars
    <3> QED
      BY <3>1 DEF Inv, Types
  <2> QED
    BY <2>1, <2>2
<1> QED
  BY <1>1, SpecInv, PTL DEF Spec, CommitNeverRegresses

-----------------------------------------------------------------------------
(* The abstract channel *)

\* Commits in flight are of messages that were handled.
OnlyHandled == \A i \in 1..Len(queue) : queue[i] \in handled

LEMMA ReturnHandled ==
    ASSUME Inv, OnlyHandled, ReturnOk \/ ReturnErr
    PROVE  OnlyHandled'
<1>1. queue \in Seq(Nat) /\ current \in Nat
  BY DEF Inv, Types
<1>2. CASE queue' = queue /\ handled \subseteq handled'
  BY <1>2 DEF OnlyHandled
<1>3. CASE queue' = Append(queue, current) /\ handled' = handled \cup {current}
  <2>1. /\ Len(queue') = Len(queue) + 1 /\ Len(queue) \in Nat
        /\ \A i \in 1..Len(queue) : queue'[i] = queue[i]
        /\ queue'[Len(queue) + 1] = current
    BY <1>1, <1>3
  <2> SUFFICES ASSUME NEW i \in 1..Len(queue')
               PROVE  queue'[i] \in handled'
    BY DEF OnlyHandled
  <2>2. i \in 1..Len(queue) \/ i = Len(queue) + 1
    BY <2>1
  <2> QED
    BY <1>3, <2>1, <2>2 DEF OnlyHandled
<1> QED
  BY <1>2, <1>3 DEF ReturnOk, ReturnErr

LEMMA OnlyHandledStep ==
    ASSUME Inv, OnlyHandled, [Next]_vars
    PROVE  OnlyHandled'
<1>1. CASE UNCHANGED <<queue, handled>>
  BY <1>1 DEF OnlyHandled
<1>2. CASE ReturnOk \/ ReturnErr
  BY <1>2, ReturnHandled
<1>3. CASE ApplyCommit \/ LoseCommit
  <2>1. queue # <<>> /\ queue' = Tail(queue) /\ handled' = handled
    BY <1>3 DEF ApplyCommit, LoseCommit, history
  <2>2. /\ Len(queue) \in Nat /\ Len(queue') = Len(queue) - 1
        /\ \A i \in 1..Len(queue') : queue'[i] = queue[i + 1]
    BY <2>1, HeadTailProperties DEF Inv, Types
  <2> QED
    BY <2>1, <2>2 DEF OnlyHandled
<1>4. CASE Restart
  BY <1>4 DEF Restart, OnlyHandled
<1>5. \/ UNCHANGED <<queue, handled>> \/ ReturnOk \/ ReturnErr
      \/ ApplyCommit \/ LoseCommit \/ Restart
  BY DEF Next, Push, Publish, PublishFails, Subscribe, Unsubscribe, Consume,
         Receive, ListWebhooks, Notify, ListFails, NotifyFails, vars,
         commitVars, history
<1> QED
  BY <1>1, <1>2, <1>3, <1>4, <1>5

\* What the channel sees of a step that is none of its own.
LEMMA ChannelStill ==
    ASSUME UNCHANGED <<log, handled, failed, notices, committed, restarts>>
    PROVE  UNCHANGED Channel!channelVars
BY DEF Channel!channelVars

LEMMA SendStep == Publish => Channel!ChannelNext
BY DEF Publish, Channel!ChannelNext, Channel!SendEvent, hookVars, commitVars,
       history

LEMMA StartOverStep == Inv /\ Restart => Channel!ChannelNext
<1> SUFFICES ASSUME Inv, Restart PROVE Channel!ChannelNext
  OBVIOUS
<1>1. restarts' + 1 = (restarts + 1) + 1
  BY DEF Restart, Inv, Types
<1> QED
  BY <1>1 DEF Restart, Channel!ChannelNext, Channel!StartOver, producerVars

\* The broker records a commit beyond the one on record.
LEMMA AcknowledgeStep ==
    ASSUME Inv, OnlyHandled, ApplyCommit
    PROVE  Channel!ChannelNext
<1>1. PICK e : e = Head(queue)
  OBVIOUS
<1>2. e = queue[1] /\ 1 \in 1..Len(queue)
  BY <1>1 DEF ApplyCommit, Inv, Types
<1>3. e \in handled /\ e > committed /\ e \in Offsets
  BY <1>2 DEF OnlyHandled, Inv, Types, Queued
<1>4. DOMAIN notices = Offsets
  BY DEF Inv, Types
<1>5. Channel!Acknowledge(e)
  BY <1>1, <1>3 DEF ApplyCommit, Channel!Acknowledge, producerVars, history
<1> QED
  BY <1>3, <1>4, <1>5 DEF Channel!ChannelNext

\* The message in hand is beyond the committed offset, and all before it were
\* passed: it is its turn.
LEMMA TurnOfCurrent ==
    ASSUME Inv, pc # "recv"
    PROVE  current \in Offsets /\ Channel!InTurn(current)
<1> USE DEF Inv, Types, Consumer
<1>1. current \in Offsets /\ committed < current /\ current <= log
  BY PipelineAssumption DEF Offsets
<1>2. \A o \in 1..current - 1 : o \in handled \cup failed
  BY <1>1 DEF Passed, Offsets
<1> QED
  BY <1>1, <1>2 DEF Channel!InTurn

LEMMA PostedHeard ==
    ASSUME Inv, pc = "notify", notices' = Posted
    PROVE  \E s \in DOMAIN notices[current] : Channel!Hears(s, current)
<1> USE DEF Inv, Types
<1>1. PICK s : s = Head(todo)
  OBVIOUS
<1>2. s \in Hooks /\ current \in Offsets /\ todo # <<>>
  BY <1>1, PostedFacts
<1>3. notices[current][s] < restarts + 1
  <2>1. s = todo[1] /\ 1 \in 1..Len(todo)
    BY <1>1, <1>2
  <2> QED
    BY <1>2, <2>1 DEF Notified, Waiting
<1>4. Channel!Hears(s, current)
  BY <1>1, <1>3 DEF Channel!Hears, Posted
<1> QED
  BY <1>2, <1>4

\* A notification or the end of the message in hand, or both.
LEMMA DeliverStep ==
    ASSUME Inv, pc # "recv",
           UNCHANGED <<producerVars, committed, restarts>>,
           notices' = notices \/ (pc = "notify" /\ notices' = Posted),
           \/ UNCHANGED <<handled, failed>>
           \/ ReturnOk
           \/ ReturnErr
    PROVE  Channel!ChannelNext
<1>1. PICK e : e = current
  OBVIOUS
<1>2. e \in Offsets /\ Channel!InTurn(e) /\ DOMAIN notices = Offsets
  BY <1>1, TurnOfCurrent DEF Inv, Types
<1>3. \/ UNCHANGED notices
      \/ \E s \in DOMAIN notices[e] : Channel!Hears(s, e)
  BY <1>1, PostedHeard
<1>4. \/ UNCHANGED <<handled, failed>>
      \/ handled' = handled \cup {e} /\ UNCHANGED failed
      \/ failed' = failed \cup {e} /\ UNCHANGED handled
  BY <1>1 DEF ReturnOk, ReturnErr
<1>5. Channel!Deliver(e)
  BY <1>2, <1>3, <1>4 DEF Channel!Deliver, producerVars
<1> QED
  BY <1>2, <1>5 DEF Channel!ChannelNext

LEMMA ChannelStep ==
    ASSUME Inv, OnlyHandled, [Next]_vars
    PROVE  [Channel!ChannelNext]_Channel!channelVars
<1>1. CASE Publish
  BY <1>1, SendStep
<1>2. CASE ListWebhooks
  <2>1. pc # "recv" /\ UNCHANGED <<notices, producerVars, committed, restarts>>
    BY <1>2 DEF ListWebhooks, ReturnOk, commitVars
  <2>2. UNCHANGED <<handled, failed>> \/ ReturnOk
    BY <1>2 DEF ListWebhooks
  <2> QED
    BY <2>1, <2>2, DeliverStep
<1>3. CASE Notify
  <2>1. /\ pc = "notify" /\ notices' = Posted
        /\ UNCHANGED <<producerVars, committed, restarts>>
    BY <1>3 DEF Notify, ReturnOk, commitVars
  <2>2. UNCHANGED <<handled, failed>> \/ ReturnOk
    BY <1>3 DEF Notify
  <2> QED
    BY <2>1, <2>2, DeliverStep
<1>4. CASE ListFails \/ NotifyFails
  <2>1. /\ pc # "recv" /\ UNCHANGED <<producerVars, committed, restarts>>
        /\ notices' = notices \/ (pc = "notify" /\ notices' = Posted)
        /\ ReturnErr
    BY <1>4 DEF ListFails, NotifyFails, ReturnErr
  <2> QED
    BY <2>1, DeliverStep
<1>5. CASE ApplyCommit
  BY <1>5, AcknowledgeStep
<1>6. CASE Restart
  BY <1>6, StartOverStep
<1>7. CASE \/ Push \/ PublishFails \/ Receive \/ LoseCommit
           \/ \E h \in Hooks : Subscribe(h) \/ Unsubscribe(h)
           \/ UNCHANGED vars
  <2>1. UNCHANGED <<log, handled, failed, notices, committed, restarts>>
    BY <1>7 DEF Push, PublishFails, Receive, LoseCommit, Subscribe,
           Unsubscribe, vars, producerVars, commitVars, history
  <2> QED
    BY <2>1, ChannelStill
<1> QED
  BY <1>1, <1>2, <1>3, <1>4, <1>5, <1>6, <1>7 DEF Next, Consume

LEMMA ChannelStart == Init => OnlyHandled /\ Channel!ChannelInit
BY DEF Init, OnlyHandled, Channel!ChannelInit

\* The pipeline implements the ordered at-least-once channel.
THEOREM ImplementsChannelCorrect == Spec => ImplementsChannel
<1>1. Init => OnlyHandled /\ Channel!ChannelInit
  BY ChannelStart
<1>2. Inv /\ OnlyHandled /\ [Next]_vars
         => OnlyHandled' /\ [Channel!ChannelNext]_Channel!channelVars
  BY OnlyHandledStep, ChannelStep
<1> QED
  BY <1>1, <1>2, SpecInv, PTL DEF Spec, ImplementsChannel, Channel!ChannelSpec
=============================================================================
