---------------------------- MODULE PushPipeline ----------------------------
(***************************************************************************)
(* From a push to its Slack notifications: the background task of the      *)
(* post-receive handler publishes an event to Kafka                        *)
(* (handler/internal/process_post_receive.rs, service/webhook/event.rs),   *)
(* and gitdot-consumer reads the partition of the repository, notifies the *)
(* subscribed channels one after the other and commits offsets             *)
(* (gitdot-consumer app/runner.rs, service/webhook/slack.rs).              *)
(*                                                                         *)
(* One repository, so one partition and one consumer.  A message is known  *)
(* by its offset, counted from 1; "committed" is the last committed one.   *)
(***************************************************************************)
EXTENDS Naturals, Sequences, FiniteSets

CONSTANTS
    Hooks,          \* rows of webhook.slack_webhooks that may exist
    MaxPushes,      \* bound: how many pushes there are
    MaxRestarts,    \* bound: how often the consumer restarts
    CanFail         \* may a call to Kafka, Postgres or the Slack bot fail?

ASSUME PipelineAssumption ==
    /\ IsFiniteSet(Hooks)
    /\ MaxPushes \in Nat
    /\ MaxRestarts \in Nat
    /\ CanFail \in BOOLEAN

VARIABLES
    pushes,     \* pushes accepted so far
    spawned,    \* publish tasks still running
    log,        \* messages in the partition
    subs,       \* the subscriptions, oldest first
    removed,    \* subscriptions that were deleted
    pc,         \* what the consumer awaits: a message, the list, a channel
    position,   \* the offset the consumer reads next
    current,    \* the offset in its hands
    todo,       \* the subscriptions it has not yet notified
    queue,      \* commits sent to the broker, in order
    committed,  \* the offset the broker has on record for the group
    handled,    \* offsets for which handle_message has returned Ok
    failed,     \* offsets for which it has returned Err
    notices,    \* how often a subscription was notified of an offset
    restarts    \* restarts so far

producerVars == <<pushes, spawned, log>>
hookVars == <<subs, removed>>
consumerVars == <<pc, position, current, todo>>
commitVars == <<queue, committed>>
history == <<handled, failed, notices, restarts>>
vars == <<producerVars, hookVars, consumerVars, commitVars, history>>

Offsets == 1..MaxPushes

SeqOf(S) == UNION {[1..n -> S] : n \in 0..Cardinality(S)}

TypeOK ==
    /\ pushes \in 0..MaxPushes
    /\ spawned \in 0..MaxPushes
    /\ log \in 0..MaxPushes
    /\ subs \in SeqOf(Hooks)
    /\ removed \in SUBSET Hooks
    /\ pc \in {"recv", "list", "notify"}
    /\ position \in 1..(MaxPushes + 1)
    /\ current \in Offsets \cup {0}
    /\ todo \in SeqOf(Hooks)
    /\ queue \in SeqOf(Offsets)
    /\ committed \in Offsets \cup {0}
    /\ handled \in SUBSET Offsets
    /\ failed \in SUBSET Offsets
    /\ notices \in [Offsets -> [Hooks -> Nat]]
    /\ restarts \in 0..MaxRestarts

Init ==
    /\ pushes = 0
    /\ spawned = 0
    /\ log = 0
    /\ subs = <<>>
    /\ removed = {}
    /\ pc = "recv"
    /\ position = 1
    /\ current = 0
    /\ todo = <<>>
    /\ queue = <<>>
    /\ committed = 0
    /\ handled = {}
    /\ failed = {}
    /\ notices = [o \in Offsets |-> [h \in Hooks |-> 0]]
    /\ restarts = 0

-----------------------------------------------------------------------------
(* The server *)

\* process_post_receive spawns the task and answers at once.
Push ==
    /\ pushes < MaxPushes
    /\ pushes' = pushes + 1
    /\ spawned' = spawned + 1
    /\ UNCHANGED <<log, hookVars, consumerVars, commitVars, history>>

\* publish_repo_push: the event is in the partition.
Publish ==
    /\ spawned > 0
    /\ spawned' = spawned - 1
    /\ log' = log + 1
    /\ UNCHANGED <<pushes, hookVars, consumerVars, commitVars, history>>

\* The pusher, the commits or Kafka fail: the error is logged, the event gone.
PublishFails ==
    /\ CanFail
    /\ spawned > 0
    /\ spawned' = spawned - 1
    /\ UNCHANGED <<pushes, log, hookVars, consumerVars, commitVars, history>>

Subscribe(h) ==
    /\ h \notin removed
    /\ \A k \in DOMAIN subs : subs[k] # h
    /\ subs' = Append(subs, h)
    /\ UNCHANGED <<removed, producerVars, consumerVars, commitVars, history>>

Unsubscribe(h) ==
    /\ \E k \in DOMAIN subs :
        /\ subs[k] = h
        /\ subs' = [i \in 1..Len(subs) - 1 |-> subs[IF i < k THEN i ELSE i + 1]]
    /\ removed' = removed \cup {h}
    /\ UNCHANGED <<producerVars, consumerVars, commitVars, history>>

-----------------------------------------------------------------------------
(* The loop of the consumer *)

\* handle_message returns Ok; commit_message queues the offset, and an error
\* of its own is only logged.
ReturnOk ==
    /\ pc' = "recv"
    /\ current' = 0
    /\ todo' = <<>>
    /\ handled' = handled \cup {current}
    /\ \/ queue' = Append(queue, current)
       \/ CanFail /\ queue' = queue
    /\ UNCHANGED <<position, committed, failed, restarts>>

\* Mutant: a failed message is read again.
RetryInPlace ==
    /\ pc' = "recv"
    /\ current' = 0
    /\ todo' = <<>>
    /\ position' = current
    /\ failed' = failed \cup {current}
    /\ UNCHANGED <<queue, committed, handled, restarts>>

\* Mutant: a failed message is committed like any other.
ReturnErrAndCommit ==
    /\ pc' = "recv"
    /\ current' = 0
    /\ todo' = <<>>
    /\ failed' = failed \cup {current}
    /\ queue' = Append(queue, current)
    /\ UNCHANGED <<position, committed, handled, restarts>>

\* handle_message returns Err: nothing is committed, and the loop goes on to
\* the next message.
ReturnErr ==
    /\ pc' = "recv"
    /\ current' = 0
    /\ todo' = <<>>
    /\ failed' = failed \cup {current}
    /\ UNCHANGED <<position, queue, committed, handled, restarts>>

\* Mutant: the offset is committed before the message is handled.
ReceiveAndCommit ==
    /\ pc = "recv"
    /\ position <= log
    /\ current' = position
    /\ position' = position + 1
    /\ pc' = "list"
    /\ queue' = Append(queue, position)
    /\ UNCHANGED <<todo, committed, producerVars, hookVars, history>>

Receive ==
    /\ pc = "recv"
    /\ position <= log
    /\ current' = position
    /\ position' = position + 1
    /\ pc' = "list"
    /\ UNCHANGED <<todo, producerVars, hookVars, commitVars, history>>

\* list_slack_webhooks; without a subscription there is nothing to do.
ListWebhooks ==
    /\ pc = "list"
    /\ IF subs = <<>>
       THEN ReturnOk
       ELSE /\ pc' = "notify"
            /\ todo' = subs
            /\ UNCHANGED <<position, current, commitVars, handled, failed,
                           restarts>>
    /\ UNCHANGED <<notices, producerVars, hookVars>>

ListFails ==
    /\ CanFail
    /\ pc = "list"
    /\ ReturnErr
    /\ UNCHANGED <<notices, producerVars, hookVars>>

Posted == [notices EXCEPT ![current][Head(todo)] = @ + 1]

\* The next channel of the fan-out is notified; Ok after the last.
Notify ==
    /\ pc = "notify"
    /\ notices' = Posted
    /\ IF Len(todo) = 1
       THEN ReturnOk
       ELSE /\ todo' = Tail(todo)
            /\ UNCHANGED <<pc, position, current, commitVars, handled, failed,
                           restarts>>
    /\ UNCHANGED <<producerVars, hookVars>>

\* The post fails, before or after it had its effect: the batch is aborted.
NotifyFails ==
    /\ CanFail
    /\ pc = "notify"
    /\ notices' \in {notices, Posted}
    /\ ReturnErr
    /\ UNCHANGED <<producerVars, hookVars>>

\* CommitMode::Async: the broker records the oldest commit in flight ...
ApplyCommit ==
    /\ queue # <<>>
    /\ committed' = Head(queue)
    /\ queue' = Tail(queue)
    /\ UNCHANGED <<producerVars, hookVars, consumerVars, history>>

\* ... or refuses it.
LoseCommit ==
    /\ CanFail
    /\ queue # <<>>
    /\ queue' = Tail(queue)
    /\ UNCHANGED <<committed, producerVars, hookVars, consumerVars, history>>

\* Mutant: auto.offset.reset applies although an offset is on record.
RestartLatest ==
    /\ restarts < MaxRestarts
    /\ restarts' = restarts + 1
    /\ pc' = "recv"
    /\ position' = log + 1
    /\ current' = 0
    /\ todo' = <<>>
    /\ queue' = <<>>
    /\ UNCHANGED <<committed, handled, failed, notices, producerVars, hookVars>>

\* Mutant: commits of the previous process still arrive after the restart.
RestartWithQueue ==
    /\ restarts < MaxRestarts
    /\ restarts' = restarts + 1
    /\ pc' = "recv"
    /\ position' = committed + 1
    /\ current' = 0
    /\ todo' = <<>>
    /\ UNCHANGED <<commitVars, handled, failed, notices, producerVars, hookVars>>

\* Mutant: the new process skips the message after the committed one.
RestartPastNext ==
    /\ restarts < MaxRestarts
    /\ restarts' = restarts + 1
    /\ pc' = "recv"
    /\ position' = committed + 2
    /\ current' = 0
    /\ todo' = <<>>
    /\ queue' = <<>>
    /\ UNCHANGED <<committed, handled, failed, notices, producerVars, hookVars>>

\* The process stops, by a signal between two messages or by a crash at any
\* point, and a new one reads on from the committed offset.
Restart ==
    /\ restarts < MaxRestarts
    /\ restarts' = restarts + 1
    /\ pc' = "recv"
    /\ position' = committed + 1
    /\ current' = 0
    /\ todo' = <<>>
    /\ queue' = <<>>
    /\ UNCHANGED <<committed, handled, failed, notices, producerVars, hookVars>>

-----------------------------------------------------------------------------

Consume == Receive \/ ListWebhooks \/ Notify

Next ==
    \/ Push \/ Publish \/ PublishFails
    \/ \E h \in Hooks : Subscribe(h) \/ Unsubscribe(h)
    \/ Consume \/ ListFails \/ NotifyFails
    \/ ApplyCommit \/ LoseCommit
    \/ Restart

Spec == Init /\ [][Next]_vars

\* The consumer keeps polling its stream and its handler.
FairSpec == Spec /\ WF_vars(Consume)

-----------------------------------------------------------------------------
(* Properties *)

\* A message below the committed offset has been handled, unless its handler
\* failed: crashes, restarts and lost or late commits alone lose nothing.
SkippedOnlyIfFailed == \A o \in 1..committed : o \in handled \cup failed

\* A subscription gets the notification of a push once per run of the
\* consumer at most: only a restart makes duplicates.
DuplicatesOnlyByRestart ==
    \A o \in Offsets, h \in Hooks : notices[o][h] <= restarts + 1

\* The committed offset of the group never moves back, although commits are
\* asynchronous and a restarted consumer handles old messages again.
CommitNeverRegresses == [][committed' >= committed]_vars

\* Every published event is handled or fails, across restarts.
EventuallyHandled ==
    \A o \in Offsets : log >= o ~> o \in handled \cup failed

\* Whatever fails, is lost or restarts, the pipeline behind Kafka implements an
\* ordered at-least-once channel: notifications of an event go out only after
\* all events before it in the partition were handled or failed, and only a
\* handled event is ever committed.
Channel == INSTANCE EventChannel WITH
    sent <- log,
    done <- handled,
    givenUp <- failed,
    heard <- notices,
    acknowledged <- committed,
    runs <- restarts + 1

ImplementsChannel == Channel!ChannelSpec

\* "At-least-once delivery - offsets are committed only after the handler
\* returns Ok, so failed messages are redelivered" (gitdot-consumer/README.md):
\* a message below the committed offset has been handled.
FailedIsRedelivered == \A o \in 1..committed : o \in handled
=============================================================================
