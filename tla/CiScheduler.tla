----------------------------- MODULE CiScheduler -----------------------------
(***************************************************************************)
(* CI of gitdot: builds fanned out into tasks (service/ci/build.rs), tasks *)
(* claimed, updated and unblocked in the ci.tasks table                    *)
(* (service/ci/task.rs, repository/ci/task.rs), and the runners that poll  *)
(* for them and report back (gitdot-cli command/runner/run.rs).            *)
(*                                                                         *)
(* One SQL statement, one S2 call or one HTTP exchange is one step.  The   *)
(* builds belong to one repository, which every runner's owner owns.  The  *)
(* UUID of a task is named by its build and its name in the configuration. *)
(* Every build reads the same .gitdot-ci.toml, in the commit it was asked  *)
(* for; CiConfig says which files create_build accepts.                    *)
(***************************************************************************)
EXTENDS CiConfig

CONSTANTS
    Builds,         \* the create_build requests
    Trigger,        \* the trigger that the ref of a request selects
    Names,          \* the task names there are
    Scenarios,      \* what may happen: [file, calm], a .gitdot-ci.toml and
                    \* whether no call fails and no process stops
    Runners,        \* gitdot-runner processes
    NumExecutors,   \* config.num_executors
    None            \* SQL NULL

ASSUME RunnerAssumption ==
    /\ None \notin Runners
    /\ NumExecutors \in Nat

Ids == Builds \X Names

BuildOf(i) == i[1]

VARIABLES
    plan,           \* the accepted file: [tasksOf, waitsFor]
    calm,           \* no call fails and no process stops
    phase,          \* how far create_build has come
    number,         \* the number of a build, once it is computed
    streams,        \* tasks whose S2 log stream exists
    status,         \* ci.tasks.status
    runner,         \* ci.tasks.runner_id
    created,        \* ci.tasks.created_at, as a rank; 0 for no row
    clock,          \* the next rank
    poll,           \* the runner's one outstanding poll_task call
    polled,         \* the task that call has claimed
    permits,        \* free permits of the runner's semaphore
    jobs,           \* the tokio tasks that a runner has spawned
    unblocking      \* update_task calls between UPDATE and unblock_tasks

buildVars == <<phase, number, streams>>
taskVars == <<status, runner, created, clock>>
runnerVars == <<poll, polled, permits, jobs>>
configVars == <<plan, calm>>
vars == <<configVars, buildVars, taskVars, runnerVars, unblocking>>

\* The tasks that create_build makes for b.
Tasks(b) == {i \in Ids : /\ BuildOf(i) = b
                         /\ Trigger[b] \in DOMAIN plan.tasksOf
                         /\ i[2] \in plan.tasksOf[Trigger[b]]}

\* waits_for as create_build stores it: filter_map drops the dependencies
\* that are not part of this build.
Deps(i) == {d \in Tasks(BuildOf(i)) : <<i[2], d[2]>> \in plan.waitsFor}

Phase == {"none", "numbered", "fanout", "done", "aborted"}

Status == {"absent", "blocked", "pending", "assigned", "running",
           "success", "failure"}

\* A job is delivered, marked running, initialised; its command passed or
\* failed; a success waits for the answer to its report.
Active == {"delivered", "marked", "ready", "passed", "failed", "reported"}

TypeOK ==
    /\ phase \in [Builds -> Phase]
    /\ number \in [Builds -> Nat]
    /\ streams \in SUBSET Ids
    /\ status \in [Ids -> Status]
    /\ runner \in [Ids -> Runners \cup {None}]
    /\ created \in [Ids -> Nat]
    /\ clock \in Nat \ {0}
    /\ poll \in [Runners -> {"idle", "waiting", "claimed"}]
    /\ polled \in [Runners -> Ids \cup {None}]
    /\ permits \in [Runners -> Nat]
    /\ jobs \in [Runners -> [Ids -> Active \cup {"none", "ended"}]]
    /\ unblocking \in SUBSET Ids

Init ==
    /\ \E s \in Scenarios :
          /\ ValidateCiConfig(s.file)
          /\ plan = [tasksOf |-> TasksOf(s.file), waitsFor |-> WaitsFor(s.file)]
          /\ calm = s.calm
    /\ phase = [b \in Builds |-> "none"]
    /\ number = [b \in Builds |-> 0]
    /\ streams = {}
    /\ status = [i \in Ids |-> "absent"]
    /\ runner = [i \in Ids |-> None]
    /\ created = [i \in Ids |-> 0]
    /\ clock = 1
    /\ poll = [r \in Runners |-> "idle"]
    /\ polled = [r \in Runners |-> None]
    /\ permits = [r \in Runners |-> NumExecutors]
    /\ jobs = [r \in Runners |-> [i \in Ids |-> "none"]]
    /\ unblocking = {}

-----------------------------------------------------------------------------
(* create_build *)

\* The builds whose row is in ci.builds.
Inserted == {b \in Builds : phase[b] \in {"fanout", "done", "aborted"}}

\* COALESCE(MAX(number), 0) + 1, in the snapshot of the INSERT statement.
NextNumber(n) ==
    /\ \A b \in Inserted : number[b] < n
    /\ n = 1 \/ \E b \in Inserted : number[b] + 1 = n

NumberBuild(b, n) ==
    /\ phase[b] = "none"
    /\ Trigger[b] \in DOMAIN plan.tasksOf
    /\ NextNumber(n)
    /\ number' = [number EXCEPT ![b] = n]
    /\ phase' = [phase EXCEPT ![b] = "numbered"]
    /\ UNCHANGED <<streams, taskVars, runnerVars, unblocking>>

\* Mutant: no UNIQUE (repository_id, number).
NeverTaken(b) == FALSE

\* The unique index finds the number among the rows committed meanwhile.
NumberTaken(b) == \E c \in Inserted : number[c] = number[b]

\* The row is inserted, or the request fails and may be sent again.
InsertBuild(b) ==
    /\ phase[b] = "numbered"
    /\ IF NumberTaken(b)
       THEN /\ phase' = [phase EXCEPT ![b] = "none"]
            /\ number' = [number EXCEPT ![b] = 0]
       ELSE /\ phase' = [phase EXCEPT ![b] = "fanout"]
            /\ UNCHANGED number
    /\ UNCHANGED <<streams, taskVars, runnerVars, unblocking>>

\* The futures of try_join_all: a log stream and then a row for every task.
CreateStream(i) ==
    /\ phase[BuildOf(i)] = "fanout"
    /\ i \in Tasks(BuildOf(i)) \ streams
    /\ streams' = streams \cup {i}
    /\ UNCHANGED <<phase, number, taskVars, runnerVars, unblocking>>

InsertTask(i) ==
    /\ phase[BuildOf(i)] = "fanout"
    /\ i \in streams
    /\ status[i] = "absent"
    /\ status' = [status EXCEPT ![i] =
                     IF Deps(i) = {} THEN "pending" ELSE "blocked"]
    /\ created' = [created EXCEPT ![i] = clock]
    /\ clock' = clock + 1
    /\ UNCHANGED <<buildVars, runner, runnerVars, unblocking>>

FinishBuild(b) ==
    /\ phase[b] = "fanout"
    /\ \A i \in Tasks(b) : status[i] # "absent"
    /\ phase' = [phase EXCEPT ![b] = "done"]
    /\ UNCHANGED <<number, streams, taskVars, runnerVars, unblocking>>

\* S2 or the database fails, or the request is dropped: the futures that are
\* left are never polled again, and what was inserted stays.
AbortBuild(b) ==
    /\ ~calm
    /\ phase[b] = "fanout"
    /\ phase' = [phase EXCEPT ![b] = "aborted"]
    /\ UNCHANGED <<number, streams, taskVars, runnerVars, unblocking>>

-----------------------------------------------------------------------------
(* A runner's loop, and poll_task behind it *)

\* Mutant: the semaphore lets everyone through.
BeginPollUnbounded(r) ==
    /\ poll[r] = "idle"
    /\ permits' = [permits EXCEPT ![r] = @ - 1]
    /\ poll' = [poll EXCEPT ![r] = "waiting"]
    /\ UNCHANGED <<buildVars, taskVars, polled, jobs, unblocking>>

\* A permit, then GET /task/poll.
BeginPoll(r) ==
    /\ poll[r] = "idle"
    /\ permits[r] > 0
    /\ permits' = [permits EXCEPT ![r] = @ - 1]
    /\ poll' = [poll EXCEPT ![r] = "waiting"]
    /\ UNCHANGED <<buildVars, taskVars, polled, jobs, unblocking>>

\* Mutant: the subquery of claim_task without status = 'pending'.
AnyUnfinished(i) == status[i] \in {"pending", "assigned", "running"}

Claimable(i) == status[i] = "pending"

\* Mutant: claim_task without ORDER BY created_at.
ClaimAnyTask(r, i) ==
    /\ poll[r] = "waiting"
    /\ Claimable(i)
    /\ status' = [status EXCEPT ![i] = "assigned"]
    /\ runner' = [runner EXCEPT ![i] = r]
    /\ poll' = [poll EXCEPT ![r] = "claimed"]
    /\ polled' = [polled EXCEPT ![r] = i]
    /\ UNCHANGED <<buildVars, created, clock, permits, jobs, unblocking>>

\* claim_task: the oldest pending task becomes assigned to the runner.
ClaimTask(r, i) ==
    /\ poll[r] = "waiting"
    /\ Claimable(i)
    /\ \A j \in Ids : Claimable(j) => created[i] <= created[j]
    /\ status' = [status EXCEPT ![i] = "assigned"]
    /\ runner' = [runner EXCEPT ![i] = r]
    /\ poll' = [poll EXCEPT ![r] = "claimed"]
    /\ polled' = [polled EXCEPT ![r] = i]
    /\ UNCHANGED <<buildVars, created, clock, permits, jobs, unblocking>>

\* The deadline passes and the last claim_task has found nothing.
PollTimeout(r) ==
    /\ poll[r] = "waiting"
    /\ \A i \in Ids : ~Claimable(i)
    /\ poll' = [poll EXCEPT ![r] = "idle"]
    /\ permits' = [permits EXCEPT ![r] = @ + 1]
    /\ UNCHANGED <<buildVars, taskVars, polled, jobs, unblocking>>

\* Mutant: the permit is dropped in the loop, not moved into the job.
DeliverAndRelease(r) ==
    /\ poll[r] = "claimed"
    /\ poll' = [poll EXCEPT ![r] = "idle"]
    /\ polled' = [polled EXCEPT ![r] = None]
    /\ permits' = [permits EXCEPT ![r] = @ + 1]
    /\ jobs' = [jobs EXCEPT ![r][polled[r]] = "delivered"]
    /\ UNCHANGED <<buildVars, taskVars, unblocking>>

\* The repository is read, a task JWT is issued, the reply arrives, and the
\* runner spawns a job that owns the permit.
DeliverTask(r) ==
    /\ poll[r] = "claimed"
    /\ poll' = [poll EXCEPT ![r] = "idle"]
    /\ polled' = [polled EXCEPT ![r] = None]
    /\ jobs' = [jobs EXCEPT ![r][polled[r]] = "delivered"]
    /\ UNCHANGED <<buildVars, taskVars, permits, unblocking>>

\* The call fails, possibly after it has claimed a task.
LosePoll(r) ==
    /\ ~calm
    /\ poll[r] # "idle"
    /\ poll' = [poll EXCEPT ![r] = "idle"]
    /\ polled' = [polled EXCEPT ![r] = None]
    /\ permits' = [permits EXCEPT ![r] = @ + 1]
    /\ UNCHANGED <<buildVars, taskVars, jobs, unblocking>>

-----------------------------------------------------------------------------
(* A runner's job, and update_task behind it *)

\* The job ends and drops its permit.
EndJob(r, i) ==
    /\ jobs' = [jobs EXCEPT ![r][i] = "ended"]
    /\ permits' = [permits EXCEPT ![r] = @ + 1]

MoveJob(r, i, pc) ==
    /\ jobs' = [jobs EXCEPT ![r][i] = pc]
    /\ UNCHANGED permits

\* Mutant: the job does not wait for the answer to "running".
MarkRunningLate(r, i) ==
    /\ jobs[r][i] \in {"delivered", "ended"}
    /\ status' = [status EXCEPT ![i] = "running"]
    /\ IF jobs[r][i] = "delivered"
       THEN MoveJob(r, i, "marked")
       ELSE UNCHANGED <<jobs, permits>>
    /\ UNCHANGED <<buildVars, runner, created, clock, poll, polled, unblocking>>

\* update_task(id, "running")
MarkRunning(r, i) ==
    /\ jobs[r][i] = "delivered"
    /\ status' = [status EXCEPT ![i] = "running"]
    /\ MoveJob(r, i, "marked")
    /\ UNCHANGED <<buildVars, runner, created, clock, poll, polled, unblocking>>

Initialize(r, i) ==
    /\ jobs[r][i] = "marked"
    /\ MoveJob(r, i, "ready")
    /\ UNCHANGED <<buildVars, taskVars, poll, polled, unblocking>>

Execute(r, i, outcome) ==
    /\ jobs[r][i] = "ready"
    /\ MoveJob(r, i, outcome)
    /\ UNCHANGED <<buildVars, taskVars, poll, polled, unblocking>>

ReportFailure(r, i) ==
    /\ jobs[r][i] = "failed"
    /\ status' = [status EXCEPT ![i] = "failure"]
    /\ EndJob(r, i)
    /\ UNCHANGED <<buildVars, runner, created, clock, poll, polled, unblocking>>

\* Mutant: update_task without its second statement.
ReportOnly(r, i) ==
    /\ jobs[r][i] = "passed"
    /\ status' = [status EXCEPT ![i] = "success"]
    /\ MoveJob(r, i, "reported")
    /\ UNCHANGED <<buildVars, runner, created, clock, poll, polled, unblocking>>

\* The UPDATE of update_task(id, "success") ...
ReportSuccess(r, i) ==
    /\ jobs[r][i] = "passed"
    /\ status' = [status EXCEPT ![i] = "success"]
    /\ unblocking' = unblocking \cup {i}
    /\ MoveJob(r, i, "reported")
    /\ UNCHANGED <<buildVars, runner, created, clock, poll, polled>>

\* Mutant: one finished dependency is enough.
SomeDepDone(j) == \E d \in Deps(j) : status[d] \in {"absent", "success"}

\* NOT EXISTS over a join: a dependency without a row does not count.
NoDepOpen(j) == \A d \in Deps(j) : status[d] \in {"absent", "success"}

\* ... and then unblock_tasks, for the build of the task.
UnblockTasks(i) ==
    /\ i \in unblocking
    /\ status' = [j \in Ids |->
          IF BuildOf(j) = BuildOf(i) /\ status[j] = "blocked" /\ NoDepOpen(j)
          THEN "pending" ELSE status[j]]
    /\ unblocking' = unblocking \ {i}
    /\ UNCHANGED <<buildVars, runner, created, clock, runnerVars>>

\* The answer arrives and the job cleans up.
ConfirmReport(r, i) ==
    /\ jobs[r][i] = "reported"
    /\ i \notin unblocking
    /\ EndJob(r, i)
    /\ UNCHANGED <<buildVars, taskVars, poll, polled, unblocking>>

\* An update_task call or initialize fails, or the runner process stops.
JobFails(r, i) ==
    /\ ~calm
    /\ jobs[r][i] \in Active
    /\ EndJob(r, i)
    /\ UNCHANGED <<buildVars, taskVars, poll, polled, unblocking>>

\* update_task is cut off between its two statements.
HandlerDies(i) ==
    /\ ~calm
    /\ i \in unblocking
    /\ unblocking' = unblocking \ {i}
    /\ UNCHANGED <<buildVars, taskVars, runnerVars>>

-----------------------------------------------------------------------------

\* create_build at work on b.
BuildStep(b) ==
    \/ \E n \in {1} \cup {number[c] + 1 : c \in Builds} : NumberBuild(b, n)
    \/ InsertBuild(b)
    \/ \E i \in Ids : BuildOf(i) = b /\ (CreateStream(i) \/ InsertTask(i))
    \/ FinishBuild(b)

\* The main loop of runner r.
LoopStep(r) ==
    \/ BeginPoll(r)
    \/ \E i \in Ids : ClaimTask(r, i)
    \/ PollTimeout(r)
    \/ DeliverTask(r)

\* The job of runner r for task i.
JobStep(r, i) ==
    \/ MarkRunning(r, i)
    \/ Initialize(r, i)
    \/ \E outcome \in {"passed", "failed"} : Execute(r, i, outcome)
    \/ ReportFailure(r, i)
    \/ ReportSuccess(r, i)
    \/ ConfirmReport(r, i)

Step ==
    \/ \E b \in Builds : BuildStep(b) \/ AbortBuild(b)
    \/ \E r \in Runners :
          \/ LoopStep(r)
          \/ LosePoll(r)
          \/ \E i \in Ids : JobStep(r, i) \/ JobFails(r, i)
    \/ \E i \in Ids : UnblockTasks(i) \/ HandlerDies(i)

Next == Step /\ UNCHANGED configVars

Spec == Init /\ [][Next]_vars

\* A runner keeps looping and finishes what it has spawned, and a handler
\* that has started returns: tokio polls every ready task.  Nothing is assumed
\* of behaviours in which calls fail and processes stop.
Calmly(Action) == calm /\ Action /\ UNCHANGED configVars

FairSpec ==
    /\ Spec
    /\ \A r \in Runners :
          /\ WF_vars(Calmly(LoopStep(r)))
          /\ WF_vars(Calmly(\E i \in Ids : JobStep(r, i)))
    /\ WF_vars(Calmly(\E i \in Ids : UnblockTasks(i)))

-----------------------------------------------------------------------------
(* Properties *)

\* get_build: the status of a build, from the task rows there are.
BuildStatus(b) ==
    LET rows == {i \in Ids : BuildOf(i) = b /\ status[i] # "absent"} IN
    CASE \E i \in rows : status[i] = "failure" -> "failure"
      [] rows # {} /\ \A i \in rows : status[i] = "success" -> "success"
      [] OTHER -> "running"

\* A task that may run or has run.
Released(i) == status[i] \notin {"absent", "blocked"}

InsertedBefore(d, i) == created[d] # 0 /\ created[d] < created[i]

\* A task is released only after the success of every dependency whose row
\* was inserted before its own, whatever order the inserts, reports and
\* unblock_tasks statements of concurrent requests take.
DependencyOrder ==
    \A i \in Ids : Released(i) =>
       \A d \in Deps(i) : InsertedBefore(d, i) => status[d] = "success"

\* Claiming is exclusive for good: a task is handed to one runner only, and
\* one that claim_task is handing out has never been handed out before.
SingleExecution ==
    /\ \A r \in Runners, i \in Ids : jobs[r][i] # "none" => runner[i] = r
    /\ \A r \in Runners : poll[r] = "claimed" =>
          \A s \in Runners : jobs[s][polled[r]] = "none"

\* Permits are conserved: every permit of a runner is free, held by its poll
\* or owned by one running job, so that at most num_executors tasks execute
\* at a time and no failure path leaks capacity.
PermitsConserved ==
    \A r \in Runners :
       permits[r] + Cardinality({i \in Ids : jobs[r][i] \in Active})
          + (IF poll[r] = "idle" THEN 0 ELSE 1) = NumExecutors

\* Build numbers are unique and have no gaps although concurrent INSERTs
\* compute them from snapshots.
BuildNumbers ==
    /\ \A b, c \in Inserted : number[b] = number[c] => b = c
    /\ \A b \in Inserted :
          number[b] = 1 \/ \E c \in Inserted : number[c] + 1 = number[b]

\* Once the fan-out of a build has ended, the Success or Failure that
\* get_build reports is final, although update_task accepts any transition.
VerdictIsFinal ==
    [][\A b \in Builds :
          phase[b] \in {"done", "aborted"} /\ BuildStatus(b) # "running"
             => BuildStatus(b)' = BuildStatus(b)]_vars

\* The fan-out of b has ended, and no task came too late for it: a blocked
\* task has a dependency whose unblock_tasks is still to come.
FannedOut(b) ==
    /\ phase[b] = "done"
    /\ \A i \in Tasks(b) : status[i] = "blocked" =>
          \E d \in Deps(i) : status[d] # "success" \/ d \in unblocking

\* Whatever dependencies validate_ci_config accepts, and however the reports of
\* two dependencies interleave, no wake-up is lost: if no task came too late
\* and nothing fails, all tasks are run or one has failed.
BuildEnds ==
    \A b \in Builds : (calm /\ FannedOut(b)) ~> BuildStatus(b) # "running"

\* Builds, polls, reports and unblock_tasks together implement a queue that
\* runs every task once, for one runner, after the dependencies that were
\* inserted before it, and hands out the oldest pending task first.
Queue == INSTANCE JobQueue WITH
    Workers <- Runners,
    Nobody <- None,
    state <- status,
    owner <- runner,
    needs <- [i \in Ids |-> {d \in Ids : InsertedBefore(d, i) /\ d \in Deps(i)}],
    arrival <- created

ImplementsJobQueue == Queue!QueueSpec

\* "Transitions a build's blocked tasks to pending once all of their waits_for
\* dependencies have status = 'success'" (repository/ci/task.rs).
ReleasedAfterAllDependencies ==
    \A i \in Ids : Released(i) => \A d \in Deps(i) : status[d] = "success"
=============================================================================
