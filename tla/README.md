# A TLA+ verification of gitdot

gitdot is a git host: a Rust backend (`gitdot-core` holds the services, thin
binaries expose them), a command line client with a CI runner, a Kafka consumer
that notifies Slack, a fork of the S2 stream store for CI logs, and a web front
end. This directory holds TLA+ models of the parts of the backend in which
several requests, processes or statements interleave, the TLC runs that check
them on small instances, and TLAPS proofs for every instance.

The backend has almost no in-memory state. Its state is Postgres (through
`sqlx`, one statement at a time, nearly always without a transaction), Redis,
Kafka, and directories on disk. What is hard is therefore what happens *between*
two awaits of a handler: another request, a timeout, a failed call, a crash.
Every module takes one SQL statement, one Redis command or one remote call as
one atomic step.

## 1. Inventory

| Component | State | Operations | What is hard | What makes it correct |
|---|---|---|---|---|
| Session tokens (`service/authentication/session.rs`) | `auth.sessions`, Redis grace entries | login, `refresh_session`, `logout`, expiry | concurrent refreshes of one token, retried `SET NX`, request timeouts between statements | one live session per family, idempotent replay, reuse detection, a revoked family stays revoked |
| Account (`account.rs`) | `deleted_at` | `delete_account`, e-mail changes | logins and refreshes in flight | a deleted user gets no session |
| CI scheduling (`service/ci/{build,task}.rs`) | `ci.builds`, `ci.tasks` | `create_build`, `poll_task`, `update_task`, `unblock_tasks`, `get_build` | concurrent fan-out, claims, reports; unguarded updates | exclusive claims, dependency order, no lost wake-up, stable verdicts, unique numbers |
| CI configuration (`gitdot-config`) | - | `CiConfig::new`, `validate_ci_config` | a depth-first search written by hand | it accepts exactly what can be built to an end |
| CI runner (`gitdot-cli command/runner`) | semaphore, jobs | poll loop, job | calls that fail on any side | capacity is conserved |
| Push events (`process_post_receive.rs`, `webhook/event.rs`) | Kafka partition | publish in the background | lost and reordered publications | - |
| Push consumer (`gitdot-consumer`) | position, committed offset | receive, list, notify, commit, restart | failure in the middle of a fan-out, asynchronous commits, restarts | at-least-once unless the handler failed, offsets never move back |
| Repository lifecycle (`service/core/repository.rs`, `user.rs`) | `core.repositories`, directories | create, delete, owner rename | disk and database change separately, hand-written compensation | a row has its directory and the reverse |
| Migration and mirroring (`service/migration.rs`, `webhook/github.rs`) | migration rows, mirrors | start, per-repository worker, push events | background work, partial failure | every migrated repository reaches a final status |
| Auth codes, e-mail verification (`session.rs`, `account.rs`) | `auth.auth_codes`, `auth.email_verification_codes`, `core.user_emails`, Redis cooldown | send, verify, accounts created by logins | non-atomic invalidate and create, concurrent guesses, an address that several accounts claim | one verifiable code, bounded attempts, one owner of an address |
| Device authorization (`device.rs`) | `auth.device_authorizations` | request, approve, poll | read, create, expire in three statements | the token is retrieved once |
| Runner registration (`ci/runner.rs`) | `ci.runners`, tokens | create, refresh, delete | delete and create of tokens | one valid token |
| Reviews (`service/core/review.rs`) | `core.{reviews,diffs,revisions}`, git refs | push, publish, judge, merge | concurrent pushes on stale snapshots, half-done pushes, a target that moves | dense numbers, rows and refs agree, a merge contains what was reviewed |
| Authorization, organizations, questions, webhooks, tokens, metrics | rows | single-statement CRUD and decisions | little | - |
| S2 log streams (`s2-server`, `s2-sdk`) | the streamer task, slatedb, client sessions | append, read, fence, trim, delete | pipelined writes, replies that wait, retries, crashes, lagging readers | one append-only log, truthful answers, gapless reads |
| HTTP layers, CLI, web | - | conversion and routing | - | - |

How they interact: a push ends in the post-receive handler, which publishes an
event in the background and answers; the consumer turns events into
notifications. CI builds are rows that runners poll over HTTP; runners report
back over HTTP. Sessions and account deletion meet only in the tables
`auth.sessions` and `core.users` and in Redis; the two code services meet in
`core.user_emails`. A CI task's output goes to an S2
stream that `create_build` creates; the streams know nothing of CI. A push to
`refs/for/...` is handed to the review service by proc-receive instead of
moving a branch; merging a review moves the target branch, like any push.

At this commit the CI services and handlers are complete, but the CI routers are
not merged into `create_router` of `gitdot-server/src/app.rs`; and the CI
migration still declares `ci.builds.build_config` as `NOT NULL` while the
`INSERT` of `create` does not name it. `CiScheduler` models the services,
handlers and the runner as written, with the columns the code uses.

`PROJECT.json` lists the hazards with their source lines.

## 2. Modules

| Module | What it is |
|---|---|
| `SessionRotation` | refresh-token rotation, logout, login tail, account deletion |
| `SessionReuse` | the same with the history of reuse answers, for the finding |
| `MCSessionRotation` | symmetry for TLC |
| `SessionRotationProofs` | TLAPS proofs |
| `OneTimeCode` | what a service that mails codes promises, abstractly |
| `EmailCodes` | login codes, e-mail verification, accounts created by logins; implements `OneTimeCode` |
| `MCEmailCodes` | symmetry for TLC |
| `EmailCodesProofs` | TLAPS proofs |
| `CiConfig` | the checks of a `.gitdot-ci.toml`, `check_dag` included |
| `JobQueue` | what the CI promises about its tasks, abstractly |
| `CiScheduler` | builds, tasks, runners; extends `CiConfig`, implements `JobQueue` |
| `MCCiScheduler` | configuration files for TLC, and what `check_dag` should accept |
| `CiSchedulerProofs` | TLAPS proofs |
| `EventChannel` | what the push pipeline promises to its subscribers, abstractly |
| `PushPipeline` | from a push to its Slack notifications; implements `EventChannel` |
| `PushPipelineProofs` | TLAPS proofs |
| `AppendLog` | what an S2 stream promises, abstractly |
| `LogStream` | the server side of a stream: streamer, slatedb, trim task |
| `LogSession` | composes it with the SDK's append and read sessions; implements `AppendLog` |
| `MCLogSession` | the client scripts for TLC |
| `LogSessionProofs` | TLAPS proofs: the write-ahead log, the pipeline, replies |
| `LogContentsProofs` | TLAPS proofs: the contents of the stream, readers, the refinement, the queue of replies, types |
| `ReviewFlow` | stacked reviews: pushes, publishing, merges |
| `MCReviewFlow` | stacks, conflicts and symmetry for TLC |
| `ReviewFlowProofs` | TLAPS proofs |

Definitions called "Mutant" in a comment are plausible mistakes in the code at
that place. They are not part of any specification; each property is shown to
fail when the definition below a mutant is replaced by it.

### SessionRotation

A request is a process with a program counter that names the await it performs
next. Tokens are values; a token and its hash are the same value, because the
table and the cache key only see the hash. `sessions[t]` is the row for token
`t`, with its state (absent, live, revoked), family and user; `grace[t]` the
Redis entry. `LoadSession` reads the row and remembers whether `revoked_at` was
set (`seen`); everything after works with that stale copy, as the code does.
`ClaimRotation` is `SET NX`; its parameter `heard` says whether the reply
arrived. If it did not, `with_retry` sends the command again and the caller
believes another worker has won. `RevokeOld` and `CreateReplacement` are the two
statements after a won claim. `Fail` ends a handler at any await: an error, a
crash, or the 10-second `TimeoutLayer` of `gitdot-auth`.

Time enters through one fact only: a request lives for 10 seconds at most, a
grace entry for 600. So an entry outlives the request that set it and all
requests on the same token that overlap with that one. `watch[t]` holds these;
`ExpireGrace` waits until they have ended, unless `Evicts` says that Redis may
drop the entry early.

The two logins (`verify_auth_code`, `exchange_github_code`) are `BeginLogin` (the
account is read) and `CreateLoginSession`; the code check in between and the
creation of an account do not touch the session state and are in `EmailCodes`.

### EmailCodes and OneTimeCode

Login codes and codes for another address of an account live in two tables and
two services of the same shape. A *slot* is what a code is good for: `<<u, None>>`
the login of `u`, `<<u, e>>` the address `e` for `u`; a code and its hash are one
value. A handler takes one step per SQL statement, transaction or Redis command;
its first access to shared data and its start are one step. `Fail` ends it
anywhere.

Sending is `LimitLogin` or `BeginAdd` and `LimitEmail` (`SET NX` of a cooldown key),
`FindAccount`, `CheckTaken` and `CreateUser` for a login, then `Invalidate` and
`CreateCode`, two statements without a transaction. The cooldown of 30 seconds
outlives its request, which ends after 10, so of the Redis key only this
matters: while a request that got it is running, nobody else gets it (`Admits`).
`limited` says whether Redis works; if not, the code sends anyway.

Checking is one transaction around `SELECT ... FOR UPDATE`. Postgres evaluates
the query in a snapshot (`SelectCode`), waits for the row lock and then looks at the
row again, so that what is locked is a code of the snapshot that is *still*
unused (`Lockable`, `Locks`). `WrongCode` counts a miss and burns the code with the
last one; `AcceptLogin` consumes it, and `MarkVerified` and `CreateSession` follow
as statements of their own; `AcceptEmail` consumes it and verifies the address in
one transaction, which `RejectEmail` rolls back if the unique index on verified
addresses objects. `BeginGitHub` to `AddGitHubEmails` are the part of a GitHub login
that creates accounts and addresses.

`OneTimeCode` is what the comment "exactly one code is verifiable at a time" promises:
each slot has at most one valid code, which is replaced, redeemed once, or burned by
wrong guesses. `ImplementsOneTimeCode` maps the unused codes of a slot to its
valid ones; expiry only shortens their use and is not in the abstract module.

Not modelled: sending the mail, avatars, sessions (`SessionRotation`). Worth knowing
and not the subject of a property: the comment of `verify_auth_code` in the trait
says that every failure answers `Unauthorized`, being locked out included, but the
guess that uses up the attempts answers `TooManyAttempts`.

### CiConfig, CiScheduler and JobQueue

`CiConfig` translates the ten checks of `validate_ci_config` over a parsed file,
one operator each; `Dfs` is the nested function of `check_dag`, with its three
colors, as a recursive function of a node and the state of the search.
`CiScheduler` starts from a file that these checks accept: `plan` is what
`create_build` takes from it, `Trigger` says which of its builds a request
selects, and `Tasks` and `Deps` are the tasks that a build gets and the
dependencies that are left after its `filter_map`. A behaviour of `Scenarios`
has one file and is either calm (no call fails, no process stops) or not.

`phase` and `number` belong to `create_build`: `NumberBuild` evaluates
`MAX(number) + 1` in the snapshot of the `INSERT`, and `InsertBuild` commits it
or meets the unique index; after that, `CreateStream` and `InsertTask` are the
futures of `try_join_all` in any order, and `AbortBuild` drops those that are
left. `status`, `runner` and `created` are columns of `ci.tasks`; `created_at` is
a rank. `poll`, `polled`, `permits` and `jobs` are the runner process. `update_task` is two
statements, so `ReportSuccess` and `UnblockTasks` are two steps, with
`unblocking` in between and `HandlerDies` as the way to lose the second.
`NoDepOpen` keeps the meaning of the SQL: a join over `waits_for`, in which a
dependency without a row does not appear.

A job that fails (`JobFails`) keeps the row as it is: `run.rs` only prints the
error. `LosePoll` covers every reason for which a runner does not learn of a
task that was claimed for it, the request timeout of the server included. All
builds are of one repository that every runner may serve.

`JobQueue` forgets builds, polls, streams and the jobs of runners. Jobs `Enter` with the
jobs they need, are `Release`d when these have succeeded, are `Take`n oldest first
by one worker, `Start` and `End`. `ImplementsJobQueue` maps the columns of
`ci.tasks` to it, and the needs of a task to those of its dependencies that were
inserted before it: that is all the code can promise, as the run `ci_dependency` shows.
A failed fan-out, a lost claim, a job that dies or a lost `unblock_tasks` are
stutters: a job may stop on its way, but never goes another one. `claim_task` is one
step; in Postgres `SKIP LOCKED` passes over a row that a concurrent claim has
locked, so two claims that overlap may commit in either order, and one may overtake
another that is rolled back.

### PushPipeline and EventChannel

One repository has one partition and one consumer. A message is its offset.
`queue` holds the commits sent and not yet recorded (`CommitMode::Async`); the
broker (`ApplyCommit`, `LoseCommit`) is external. `Restart` is a signal or a
crash at any point; the new process reads on from the committed offset
(`enable.auto.commit` is false, `auto.offset.reset` earliest). `handled`,
`failed`, `notices` and `restarts` are history. A subscription is a row; a
channel that is subscribed again is a new row.

`EventChannel` is a channel that delivers at least once and in order. An event is
delivered in its turn: not acknowledged, and all before it done or given up. A
subscriber hears of it at most once per run of the receiver, and only an event that
was done is acknowledged. `ImplementsChannel` maps the partition to the events sent,
the committed offset to the acknowledgement, and `restarts` to the runs. Receiving,
listing the subscriptions and commits in flight are not visible in it. The order is
that of the partition; that two pushes may be published in the opposite order is
upstream of it.

### LogStream, LogSession and AppendLog

`st` is the state of the streamer task: the fencing token and the trim point,
each with the position up to which it has been applied (`ap`), the durable tail
(`stable`), the assigned tail (`next`), the writes in flight (`futs`) and the
replies that are held back (`queue`). A message of `HandleAppend` is accepted,
refused (token or sequence number) or dropped (poisoned session, stream being
deleted). `Accept` assigns positions at once and pipelines the write; its reply
waits until the position is durable. A refusal waits, too: for the durability
of what it is based on (`Dependency`) and of what its session was promised
before. `CompleteWrite` is the durability of the oldest write: it moves the
tail, sends the replies, feeds the follower, and ends the streamer after a
terminal trim.

slatedb is external and modelled as a write-ahead log of write batches of which
a prefix is durable; the key-value view (`TailAt`, `FenceAt`, `TrimAt`,
`RecordsAt`) is computed from that prefix. `Crash` and `FailWrite` end the
process or the streamer; `Restart` keeps the durable prefix. The trim task lists
a trim point, deletes the records, and finalizes unless a newer point was
written.

An append session pipelines the batches of its script, resends what was not
acknowledged after a reconnection, and stops when its retry policy, the error
or the backoff tells it to (`AfterError`). The read session scans storage up to
the tail, subscribes, falls back to a scan when it lags, and reconnects where
it stopped.

`AppendLog` is the abstract stream: a log that only grows, appends that commit
atomically, at most once, and only if their conditions hold *at that point of the
durable log*, and answers that agree with the log. `ImplementsLog` maps the
durable records (a crash leaves nothing else) to that log, and the requests to
its requests.

Scripts submit what a client can: a batch has records, and a trim point is a
sequence number, thus at most `MaxSeq` (`IsBatch`).

Simplifications: writes enter slatedb in the order in which they are first
polled; the four reads of `start_streamer` are one step (between two streamers
of a stream nothing but the trim task writes); the append semaphore counts
records; a stream has one follower. Not modelled: timestamps, retention and
delete-on-empty, basins, re-creating a deleted stream, the codecs.

### ReviewFlow

A commit is the sequence of the patches from the root to it, so `RevList`,
patch equality and cherry-picks are operations on sequences; commits do not
change, and git operations that only read or create them belong to the step
that uses the result. `rev_list` sorts by commit date and nothing else, and
dates are the author's, so `RevList` is the set of *all* orders of the new
commits; with the constant `InOrder` dates increase from parent to child, and
the only order is parents first. A handler (`req[h]`) takes one step per SQL statement and per ref
update; there is no transaction and no lock around them. `seen` is the one
snapshot that `process_review_update` or `merge_review_diff` reads at its
start and decides upon throughout. `Visit` chooses what is done for the next
commit of a push: a new diff, a new revision, or, if the patch is unchanged, a
rewrite of the existing revision in place. A merge fast-forwards if the
recorded parent of the first diff is the target's head, and cherry-picks
otherwise; the final `update_ref` on the branch is forced. `Die` is a failed
call or a crash at any await.

`PushTarget` is another user's push to the target. `landed` is history. The
unique constraints of the tables are the guards of `CreateDiff` and
`CreateRevision`; `create_ref` fails on an existing ref. Verdicts, comments,
reviewers, titles and messages are rows nobody else decides upon and are left
out; one review is followed.

A patch is atomic: a cherry-pick finds all of it on the target or none, and a
commit whose patch has landed in part is not modelled. The rebase half of
`RevisionKeepsPatch` is to be read with that in mind (such a pick would leave
the rest of the patch in the revision). Stacks are linear; merge commits in a
push are left out.

Some behaviour of this code is worth knowing and is not the subject of a
property, because nothing in the repository promises otherwise: after a merge of
the first diffs, a push matches the remaining commits with diffs *by position*
and reopens merged ones; a merge takes draft diffs of an open review, too; a push
that stops between `create_diff` and `create_revision` leaves a review on which
every later push and merge fails; a merge that stops at a conflict leaves the
diffs before it rebased.

## 3. Runs

| Run | Instance | What it shows |
|---|---|---|
| `session_safety` | 3 tokens, 3 requests, failures | one live session per family; idempotent replay; a dead family stays dead; a deleted user gets no session; only a failure leaves a replacement without a session |
| `session_reuse` (violation) | 3 tokens, 2 requests | a family whose reuse was answered with `TokenRevoked` can get a live session |
| `email_codes` | 2 accounts, 2 addresses, 2 codes, 2 requests, 2 attempts; with and without a working Redis | a code is accepted once and compared with a bounded number of guesses; who logs in owns the address; implements `OneTimeCode` while Redis limits the sends |
| `ci_builds` | 2 builds, 2 runners; without failures every file over 3 tasks, with failures one of 2 tasks and 2 triggers | dependency order, exclusive execution, conserved permits, build numbers, final verdicts; implements `JobQueue`; whatever the validator accepts comes to an end |
| `ci_dependency` (violation) | 1 build, a task with 2 dependencies, 1 runner | a task is released before a dependency that has no row yet |
| `push_pipeline` | 3 pushes, 2 subscriptions, 1 restart, failures | skipped only after a failure, no duplicates without a restart, commits move forward, implements `EventChannel`; everything is handled or fails |
| `push_redelivery` (violation) | 2 pushes, 1 subscription | a failed message is not redelivered |
| `log_session` | 2 append sessions, 1 reader, the scripts of `MCLogSession`, at most 2 faults | implements `AppendLog`; acknowledged is durable, refusals rest on durable facts, session order under retries, gapless reads, trims delete only what they name, no record beyond the tail of a new streamer; whoever waits for a reply is in the queue, in order; everybody is answered, everything is delivered |
| `log_stall` (violation) | one script, `StallPastDormancy`: a write may outlast the dormancy timeout | a streamer can start from a tail with durable records behind it |
| `review_revisions` | 2 handlers, 3 requests, pushes of 1 or 2 commits in any order of dates, failures | dense numbers, a revision keeps its patch, refs agree with rows, a merge that rebases stops at its position |
| `review_order` (violation) | 1 handler, a stack of 2 commits in any order of dates, no failures | a merge brings in a patch from beyond its position |
| `review_merge` (violation) | 1 handler, no failures | a merge drops commits from the target branch |

**Bounds.** Three tokens are a login and two rotations, enough for a replay of
the token before the last, while three requests let a refresh, its rival and a
reuse, logout or deletion overlap. In `email_codes` two requests meet in
every pair of steps of sending, checking and GitHub logins; two addresses and two
accounts are what it takes to contest an address as a primary and as a secondary
one; two codes are one and its replacement; two attempts make a guess that burns
and one that does not. Codes run out, which only stops sending. Two builds are needed for a number conflict,
two runners for a race of claims, and a task with two dependencies, which finish
on different runners, for a race of wake-ups. In the calm scenarios of
`ci_builds` every `waits_for` over three tasks is offered: all that are cyclic, and
of the others one of each renaming. The validator must reject the cyclic ones,
since a build of theirs would never end (`BuildEnds`), and accept the others; `CheckDagExact`
compares it with acyclicity on all 512. In the faulty scenario `b2` selects
`deploy` without its dependency, so that the filter of `create_build` matters. Three pushes let a failed message lie between two others; one restart
is enough to handle messages again and to lose commits in flight. `MaxPushes`
and `MaxRestarts` are the only bounds in guards; `push_pipeline` stops when they
are used up and does not check for deadlock. Fresh tokens run out in the session
runs, which only stops new logins and rotations.

`log_session` follows one of a few scripts per behaviour: two writers of which
one fences the other, two that race for sequence numbers, trims below, at and
beyond the tail, the deletion of the stream, and a reader that follows a writer
with a channel of one batch (`MaxLag`). Batches have one or two records, so that
positions and batches differ; `faults` bounds crashes, failed writes, dormancy
and broken connections; `MaxSeq` only has to lie beyond every position reached.
In `review_revisions` two handlers suffice for every pair of requests to race,
and the third request can meet the leftovers of two that died or finished. `MCSpec` starts
either before the review or with a published one of two diffs, because getting
there takes several requests; `Published` is a state that the program reaches by
a push and publications. `MaxDiffs` = 2 gives a merge of a proper prefix,
and a child that can be listed before its parent. The patch that conflicts with
the target is `a`: when `b` is listed first, a rebase stops after its first pick.

**Fairness.** `CiScheduler`: in calm behaviours a runner's loop, its jobs and a handler between
its two statements keep running (`Calmly`); nothing about `create_build` and its
futures, or about behaviours with failures. The conclusion of a command is weakly fair: a command that never ends
is outside the property. `PushPipeline`: the consumer keeps polling; nothing about
producers, the broker's commits or restarts.
`LogSession`: the streamer, the trim task, every append session and the reader
run when they can, storage makes progress, a server that died is restarted;
no fault is forced. `ReviewFlow` has no liveness property: nothing retries a
request that failed; neither have `EmailCodes` and `SessionRotation`. A refresh takes
a fixed number of steps, so what matters of "the token handed out becomes a
session" is that nothing but a failure of the winner stops it:
`OrphanedOnlyByFailure`, an action property that holds with every failure allowed.

**Findings.** The violation runs each contrast a sentence in the
repository with the code; `PROJECT.json` quotes both sides.

* `session_reuse`: login `t1`; a refresh turns it into `t2`; the grace entry of
  `t1` expires; a refresh of `t2` claims, revokes `t2` and pauses; `t1` is
  replayed, the family is revoked and the caller is told so; the first refresh
  goes on and inserts a live `t3`.
* `ci_dependency`: `deploy` and `build` are inserted, `build` runs and succeeds,
  `unblock_tasks` finds no open dependency of `deploy` because the row of `test`
  does not exist yet.
* `log_stall`: a write is in flight, no message and no completed write arrives
  for 60 seconds, the run loop ends; the next streamer reads the durable tail,
  then the old write becomes durable behind it.
* `review_merge`: `x` is on the target; the author's commit `a` sits on the root
  and is pushed for review, recorded with the target's head as its parent; the
  merge finds the head equal to that parent, fast-forwards the branch to `a` and
  `x` is gone.
* `review_order`: the author pushes `a` and on top of it `b`, which is dated
  before `a` (a clock set back, or `git rebase --committer-date-is-author-date`
  after reordering); the diff at position 1 is `b`, at position 2 `a`. A merge
  up to position 1 finds the target unmoved and fast-forwards it to the commit
  of `b`, which contains `a`. By the same path a merge up to position 2 moves the
  target to `a` alone and marks `b` merged.
* `push_redelivery`: the handler of message 1 fails, message 2 succeeds and
  commits offset 2.

## 4. Proofs

For all values of the constants, under the assumptions named in the modules:

* **`SessionRotationProofs`.** `TypeCorrect`, `DeletedUserCorrect` and
  `DeadFamilyCorrect` hold with and without eviction. `OneLiveCorrect` and
  `IdempotentReplayCorrect` assume `~Evicts`. "One live session per family" is
  not inductive: a rotation has a moment at which the old session is revoked and
  the new one is not yet inserted. The invariant therefore speaks of *potential*
  sessions: live ones, and replacements that a request between its claim and
  its insert is still going to create (`OnePotential`). That only the request
  recorded in `claimer` can be in that section, and that its grace entry is
  still there, is `WinnerInv`; it rests on `watch`, that is, on the fact that an
  entry outlives the request that set it. `Shape` collects what is needed about
  program counters, rows and watches. `DeletedUserCorrect` needs, besides
  `Shape`, that two rotations never insert the same token (`Fresh`), since
  otherwise a row could change its user. `OrphanedCorrect` needs what the request
  recorded in `claimer` is doing (`ClaimerInv`): it is on its way to inserting
  the token in the entry, or it lost the reply of its claim. It holds with eviction too.
* **`EmailCodesProofs`.** `Inv` says that an unused code has a guess left and was not
  accepted (`CodeState`), that an address is verified for one account
  (`OneOwner`), and what the record of a request knows at each step (`Knows`): the
  account it found has its address as the primary one, the codes it saw are
  codes of its slot, and before it creates a session the address is verified for
  the account. `KnowsKept` shows once that nothing another request does takes this
  away, since accounts, verified addresses and codes are only added. From it follow
  `TypeCorrect`, `BudgetKept` and `LoginOwns`, with and without a rate limit.
  `OneCodeValid` is the refinement. Two requests can replace a code in two
  statements each and leave one, because of `Cooled`: of two requests with one
  cooldown key one is running (`OneIssuer`), so the slot that `Invalidate` has cleared
  is still clear at `CreateCode` (`Cleared`); `SameKey` is the link from slots to keys. It
  needs `CodeAssumption`: finitely many codes, and a `None` that is no slot.
* **`CiSchedulerProofs`.** The invariant `IInv` has the parts `Rows` (a row
  exists exactly when it has a creation rank, below the clock), `Dense` and `Unique`
  (numbers), `Claims` (which status and runner a task has at each point of the
  job that owns it, and that a task being handed out has no job), and
  `DependencyOrder` itself, which becomes inductive together with these. From it
  follow `CiTypeCorrect`, `DependencyOrderCorrect`, `SingleExecutionCorrect`,
  `BuildNumbersCorrect`, `LifecycleCorrect` (a task's status only moves forward) and
  `VerdictIsFinalCorrect`. They hold for any file, accepted or not: all
  they use is that `plan` never changes.
  `PermitsConserved` needs more than its own truth: that the running jobs of a
  runner are a finite set, which holds because each step spawns at most one
  (`Permits`), and that a job which ends was one of them.
  `ImplementsJobQueueCorrect` needs no more than `IInv`. `Rows` says that an inserted task is
  younger than all rows and its earlier dependencies have entered (`EnterStep`), and that a
  dependency which `unblock_tasks` does not find was not inserted earlier (`ReleaseStep`);
  `JobStatus` says that a report finds its task assigned or running although the
  `UPDATE` does not ask (`ReportStep`).
* **`PushPipelineProofs`.** The invariant relates the four positions of the
  pipeline: `Consumer` (committed offset, position, message in hand), `Queued`
  (commits in flight increase, lie beyond the recorded one and below the message
  in hand) and `Passed` (every message behind the position was handled or failed).
  The broker may apply or lose commits in any order that this allows, so
  `SkippedOnlyIfFailedCorrect` and `CommitNeverRegressesCorrect` follow.
  `Notified` counts: a process that is still to notify a subscription of a message
  has not done so, and each earlier process did it at most once
  (`DuplicatesOnlyByRestartCorrect`). `PushTypeCorrect` also needs that a fan-out
  has no repetitions (`Distinct`), which bounds its length.
  `ImplementsChannelCorrect` adds `OnlyHandled`: the commits in flight are of handled
  messages. `TurnOfCurrent` is the step at which `Consumer` and `Passed` come together:
  the message in hand lies beyond the committed offset, and all before it were handled
  or failed.

* **`ReviewFlowProofs`.** A handler decides everything upon one stale snapshot, so
  the invariant says what of a snapshot stays true: rows are added and rewritten,
  never taken away, and a rewrite keeps position, number and the patch the row
  was created for (`More`). `SeenStands` is therefore stable: a revision that
  was read may have another commit by now, but still *stands for* (`Stands`) the
  patch that was read, or for nothing if a rebase found that patch on the target.
  `SoundGrows` proves this stability once, for all actions. `Visited` and
  `Visiting` say which rows a push has written at each of its steps, and
  `Pushing` that a commit it pushes consists of landed patches and, if parents are
  listed first, those of the commits up to it; this makes `Sources` (every patch in a
  revision's commit has landed or was reviewed at or before its position, under
  `InOrder`) inductive. `MergeStopsAtPositionCorrect` follows under the assumption
  `InOrder`, for the fast-forward as well as for the rebase; `review_order` shows that
  it is needed. It is the one property that is proved and checked by no passing
  run. `RebaseStopsAtPositionCorrect` does without it: what a rebase builds
  (`Merging`) starts from the target and grows by the patch of one reviewed diff at a
  time, whatever else is in that diff's commit. The other theorems hold for any order,
  too. `Table` gives `RowsDenseCorrect`: a number that is inserted is one more than one
  that was read, and the constraint lets only one of two racing pushes have it.
  `ReviewTypeCorrect` bounds the revision numbers by the requests that have begun. `Counted`
  is why: the number of a revision at a position, plus the number of handlers that may
  still create one there (`Creators`), is at most `started`. A request creates one
  revision per position at most, because it leaves `Creators` when it does; two handlers
  that read the same highest number are two creators, of which the constraint stops one.
  The theorems start from `Init`; the runs also start from `Published`.

* **`LogSessionProofs`.** For any scripts, sessions, limits and faults, under
  `ScriptAssumption` and `~StallPastDormancy` (a streamer does not give up while one of
  its writes is in flight; `log_stall` shows that without it the first theorem is
  false). `Inv` says of storage that the batches of the
  write-ahead log follow one another without gaps (`Laid`) and that nothing of an
  earlier process is still in flight when there is no streamer (`Settled`). Of a running
  streamer `Upright` says that its writes in flight are the undurable end of the log
  (`InFlight`, `Chain`), that its fencing token, trim point and tail are what the
  log accounts for (`Accounted`), and that a terminal trim is the last it accepts. `Held`
  says what replies wait for; `Truthful` that a reply names the position at which its
  batch was written and that this write is durable. `Growing` and `Acknowledged` carry this
  over to the clients, through reconnections. `NoRecordsPastTailCorrect`: a streamer starts
  from a tail that no durable or pending record lies behind.
  `AckedIsDurableCorrect`: an acknowledged batch is in the durable log, where it
  was said to be.

* **`LogContentsProofs`.** Under the same assumptions, what is *in* the batches. `Inv`
  places writes and replies but says nothing of tokens, sessions or trims, so none of
  the theorems here follows from it. The idea is to look at one sequence, `Writes`: the
  batches in the log together with those in flight. Only three things happen to it: an
  accepted append makes it longer, a crash or a failed write cuts its end off, everything
  else leaves it. `Whole` states its parts about this sequence, so that each needs an
  argument for growing and one for being cut (`ContentsStay`, `RefusalsStay`,
  `TrimsStay`, `FollowingStay`):
  - `Contents`: the positions below a batch are taken, its conditions held there
    (`InForce` is the token set by the last fence below a position), its session's
    batch before it lies below it, and nothing follows a terminal trim;
  - `Current`: the token, trim point and tail that the streamer keeps in memory are those
    at the end of the writes, although a restart reads them from the durable part;
  - `Marked`: the marks that the trim task writes into the log store no trim point, and
    behind a stored terminal trim the first one drops the stream;
  - `Refusals`: a refusal rests on a token that is in force below the position that its
    reply waits for, so a crash that cuts this fence off also loses the reply;
  - `Trimming`, `Trimmed`: what the trim task deletes was named by a durable command;
  - `Following`: as long as a session is connected and not poisoned, its requests
    are in the log or in flight, in the order of its batches.

  From it follow `TrimmedOnlyIfAskedCorrect`, `RejectionIsDurableCorrect` and
  `SessionOrderCorrect`. `ReaderSeesLogCorrect` adds `Reading`: the reader is never ahead of the
  tail the streamer has announced, what it has got is the log up to its position but
  for deleted records (`Delivers`), and while it follows, the batches in its channel are
  durable and lead from its position to the tail (`Leads`, `Reach`) unless it has lagged.
  That a scan is delivered in order rests on a counting argument about `Delivered`: the
  number of records before a record is an injection into as many numbers as there are
  records, and therefore meets each of them (`RankFacts`).

  `ImplementsLogCorrect` is the refinement of `AppendLog`. `Spelled` relates `DurableLog`, which
  the mapping computes from storage, to the durable writes. Of the steps, `Flush` of a batch is
  `AbsCommit` (`CommitStep`): the entry that becomes durable is the next one of `Writes`, so by
  `Contents` its conditions hold at the end of the durable log (`TokenAtEnd`,
  `NextDurable`), and the durable log grows by exactly its records (`LogGrows`). `Send` is
  `AbsSubmit` (`SubmitStep`). All others answer requests or leave the mapped
  state alone (`AnswerStep`, from `Truthful`). An append thus takes effect when it becomes
  durable, not when it is acknowledged.

  `NobodyForgottenCorrect` is the safety half of "everybody is answered" and holds without
  fairness: whose reply is held back is in the streamer's queue, and waits there for a position
  beyond the durable tail that has been assigned. `CompleteWrite` releases the
  front of the queue only, so that is enough because the queue is in the order of what its
  replies wait for; `Enqueue` keeps it so. A refusal that rests on nothing undurable is answered
  at once, an accepted append waits for a write that is in flight, and a streamer that ends
  drops its queue and its callers together.

  `LogTypeCorrect` adds the budgets. The queue has at most as many replies as there are
  requests (`EachHasItsWaiter`: one place each, an injection); what a session has sent
  fits the permits it has taken (`Budgeted`), the follower's channel holds at most `MaxLag`
  batches (`Buffered`), what the trim task deleted was durable (`Deleted`), and every failure was
  paid from the script's `faults` (`Failures`).

Model-checked only: the liveness properties (`BuildEnds`, `EventuallyHandled`, `EventuallyAnswered`, `EventuallyDelivered`),
which are beyond the prover; and that `CheckDag` accepts exactly the acyclic
files, an induction over data. Every invariant and action property of the passing
runs is also a theorem.

## 5. What is left out

The order was to model what interleaves most first: sessions, CI scheduling, the
push pipeline, log streams, reviews and mailed codes, each with its
proofs and, where a component promises something simple, with an abstract module that
it implements. What could follow:

1. The life of a repository: create, delete and owner rename over rows and
   directories, with the compensations; then the migration worker and the GitHub
   mirror. The abstract promise is that rows and directories correspond whenever
   no request is in flight.
2. Device authorization (request, approve, poll) and the tokens of CI runners;
   what a logout means for a token that was already rotated.
3. Cursor pagination as an algorithm; timestamps and retention of log streams.

Left out on purpose: authorization decisions and CRUD services (single reads and
writes), HTTP conversion, the web front end, metrics, and cryptography.
