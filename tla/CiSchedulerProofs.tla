------------------------- MODULE CiSchedulerProofs -------------------------
(***************************************************************************)
(* Proofs about CiScheduler, for every configuration, any number of builds *)
(* and runners, and with or without failures.                              *)
(***************************************************************************)
EXTENDS CiScheduler, FiniteSetTheorems, TLAPS

-----------------------------------------------------------------------------
(* The inductive invariant *)

\* A task has a row exactly when it has a rank, and ranks are in the past.
Rows ==
    \A i \in Ids : /\ created[i] = 0 <=> status[i] = "absent"
                   /\ created[i] < clock

\* The number of a build was 1 or one more than that of an inserted build.
Dense ==
    \A b \in Builds : phase[b] # "none" =>
       number[b] = 1 \/ \E c \in Inserted : number[c] + 1 = number[b]

Unique == \A b, c \in Inserted : number[b] = number[c] => b = c

\* Who owns a task, and what its job says about its status.
JobOwner ==
    \A r \in Runners, i \in Ids : jobs[r][i] # "none" =>
       runner[i] = r /\ status[i] \notin {"absent", "blocked", "pending"}

JobStatus ==
    \A r \in Runners, i \in Ids :
       /\ jobs[r][i] = "delivered" => status[i] = "assigned"
       /\ jobs[r][i] \in {"marked", "ready", "passed", "failed"}
             => status[i] = "running"

\* A task in a poll_task reply has a runner and no job yet.
Handout ==
    \A r \in Runners : poll[r] = "claimed" =>
       /\ polled[r] \in Ids
       /\ runner[polled[r]] = r
       /\ status[polled[r]] = "assigned"
       /\ \A s \in Runners : jobs[s][polled[r]] = "none"

Claims == JobOwner /\ JobStatus /\ Handout

IInv == TypeOK /\ Rows /\ Dense /\ Unique /\ Claims /\ DependencyOrder


-----------------------------------------------------------------------------
(* Facts about the identifiers, and the actions sorted by what they write *)

LEMMA IdFacts ==
    /\ \A i \in Ids : BuildOf(i) \in Builds
    /\ \A i \in Ids : Deps(i) \subseteq Ids
BY DEF Ids, BuildOf, Deps, Tasks

\* Actions on ci.builds.
BuildRow(b) ==
    \/ \E n \in {1} \cup {number[c] + 1 : c \in Builds} : NumberBuild(b, n)
    \/ InsertBuild(b)
    \/ FinishBuild(b)
    \/ AbortBuild(b)

\* Actions of the runner's loop other than claim_task and the hand-over.
LoopOnly(r) == BeginPoll(r) \/ PollTimeout(r) \/ LosePoll(r)

\* Actions that move a job without touching its row.
JobOnly(r, i) ==
    \/ Initialize(r, i)
    \/ Execute(r, i, "passed")
    \/ Execute(r, i, "failed")
    \/ ConfirmReport(r, i)
    \/ JobFails(r, i)

\* Every step is one of these.
LEMMA StepCases ==
    ASSUME [Next]_vars
    PROVE  \/ UNCHANGED vars
           \/ \E b \in Builds : BuildRow(b)
           \/ \E i \in Ids : CreateStream(i)
           \/ \E i \in Ids : InsertTask(i)
           \/ \E r \in Runners : LoopOnly(r)
           \/ \E r \in Runners, i \in Ids : ClaimTask(r, i)
           \/ \E r \in Runners : DeliverTask(r)
           \/ \E r \in Runners, i \in Ids : MarkRunning(r, i)
           \/ \E r \in Runners, i \in Ids : JobOnly(r, i)
           \/ \E r \in Runners, i \in Ids : ReportFailure(r, i)
           \/ \E r \in Runners, i \in Ids : ReportSuccess(r, i)
           \/ \E i \in Ids : UnblockTasks(i)
           \/ \E i \in Ids : HandlerDies(i)
<1>1. CASE \E b \in Builds : BuildStep(b) \/ AbortBuild(b)
  BY <1>1, Zenon DEF BuildStep, BuildRow
<1>2. CASE \E r \in Runners : LoopStep(r) \/ LosePoll(r)
  BY <1>2, Zenon DEF LoopStep, LoopOnly
<1>3. CASE \E r \in Runners : \E i \in Ids : JobStep(r, i) \/ JobFails(r, i)
  BY <1>3 DEF JobStep, JobOnly
<1>4. CASE \E i \in Ids : UnblockTasks(i) \/ HandlerDies(i)
  BY <1>4, Zenon
<1> QED
  BY <1>1, <1>2, <1>3, <1>4, Zenon DEF Next, Step

-----------------------------------------------------------------------------
(* What the actions of a group have in common *)

LEMMA BuildRowFacts ==
    ASSUME TypeOK, NEW b \in Builds, BuildRow(b)
    PROVE  /\ phase' \in [Builds -> Phase]
           /\ number' \in [Builds -> Nat]
           /\ \A c \in Builds : phase[c] \in {"done", "aborted"} =>
                 phase'[c] = phase[c]
           /\ UNCHANGED <<streams, taskVars, runnerVars, unblocking>>
<1> USE DEF TypeOK, Phase
<1>1. CASE \E n \in {1} \cup {number[c] + 1 : c \in Builds} : NumberBuild(b, n)
  BY <1>1 DEF NumberBuild
<1>2. CASE InsertBuild(b) /\ NumberTaken(b)
  <2>1. /\ phase[b] = "numbered"
        /\ phase' = [phase EXCEPT ![b] = "none"]
        /\ number' = [number EXCEPT ![b] = 0]
        /\ UNCHANGED <<streams, taskVars, runnerVars, unblocking>>
    BY <1>2 DEF InsertBuild
  <2> QED
    BY <2>1
<1>5. CASE InsertBuild(b) /\ ~NumberTaken(b)
  BY <1>5 DEF InsertBuild
<1>3. CASE FinishBuild(b)
  BY <1>3 DEF FinishBuild
<1>4. CASE AbortBuild(b)
  BY <1>4 DEF AbortBuild
<1> QED
  BY <1>1, <1>2, <1>3, <1>4, <1>5 DEF BuildRow

LEMMA LoopOnlyFacts ==
    ASSUME TypeOK, NEW r \in Runners, LoopOnly(r)
    PROVE  /\ poll' \in [Runners -> {"idle", "waiting", "claimed"}]
           /\ polled' \in [Runners -> Ids \cup {None}]
           /\ permits' \in [Runners -> Nat]
           /\ \A s \in Runners : poll'[s] = "claimed" =>
                 poll[s] = "claimed" /\ polled'[s] = polled[s]
           /\ UNCHANGED <<buildVars, taskVars, jobs, unblocking>>
<1> USE DEF TypeOK
<1>1. CASE BeginPoll(r)
  BY <1>1 DEF BeginPoll
<1>2. CASE PollTimeout(r)
  BY <1>2 DEF PollTimeout
<1>3. CASE LosePoll(r)
  BY <1>3 DEF LosePoll
<1> QED
  BY <1>1, <1>2, <1>3 DEF LoopOnly

LEMMA JobOnlyFacts ==
    ASSUME TypeOK, NEW r \in Runners, NEW i \in Ids, JobOnly(r, i)
    PROVE  /\ jobs' \in [Runners -> [Ids -> Active \cup {"none", "ended"}]]
           /\ permits' \in [Runners -> Nat]
           /\ jobs[r][i] # "none"
           /\ jobs'[r][i] \in {"ready", "passed", "failed"} =>
                 jobs[r][i] \in {"marked", "ready"}
           /\ jobs'[r][i] \in {"ready", "passed", "failed", "ended"}
           /\ \A s \in Runners, j \in Ids :
                 s # r \/ j # i => jobs'[s][j] = jobs[s][j]
           /\ UNCHANGED <<buildVars, taskVars, poll, polled, unblocking>>
<1> USE DEF TypeOK, Active
<1>1. CASE Initialize(r, i)
  BY <1>1 DEF Initialize, MoveJob
<1>2. ASSUME NEW outcome \in {"passed", "failed"}, Execute(r, i, outcome)
      PROVE  /\ jobs' = [jobs EXCEPT ![r][i] = outcome]
             /\ jobs[r][i] = "ready"
             /\ UNCHANGED <<permits, buildVars, taskVars, poll, polled, unblocking>>
  BY <1>2 DEF Execute, MoveJob
<1>5. CASE Execute(r, i, "passed")
  <2>1. jobs' = [jobs EXCEPT ![r][i] = "passed"] /\ jobs[r][i] = "ready"
    BY <1>2, <1>5
  <2>2. UNCHANGED <<permits, buildVars, taskVars, poll, polled, unblocking>>
    BY <1>2, <1>5
  <2> QED
    BY <2>1, <2>2
<1>6. CASE Execute(r, i, "failed")
  <2>1. jobs' = [jobs EXCEPT ![r][i] = "failed"] /\ jobs[r][i] = "ready"
    BY <1>2, <1>6
  <2>2. UNCHANGED <<permits, buildVars, taskVars, poll, polled, unblocking>>
    BY <1>2, <1>6
  <2> QED
    BY <2>1, <2>2
<1>3. CASE ConfirmReport(r, i)
  BY <1>3 DEF ConfirmReport, EndJob
<1>4. CASE JobFails(r, i)
  BY <1>4 DEF JobFails, EndJob
<1> QED
  BY <1>1, <1>3, <1>4, <1>5, <1>6 DEF JobOnly

-----------------------------------------------------------------------------
(* Types *)

LEMMA TypeStep ==
    ASSUME TypeOK, [Next]_vars
    PROVE  TypeOK'
<1> USE DEF TypeOK
<1>1. CASE UNCHANGED vars
  BY <1>1 DEF vars, buildVars, taskVars, runnerVars
<1>2. ASSUME NEW b \in Builds, BuildRow(b) PROVE TypeOK'
  BY <1>2, BuildRowFacts DEF taskVars, runnerVars
<1>3. ASSUME NEW i \in Ids, CreateStream(i) PROVE TypeOK'
  BY <1>3 DEF CreateStream, taskVars, runnerVars
<1>4. ASSUME NEW i \in Ids, InsertTask(i) PROVE TypeOK'
  BY <1>4 DEF InsertTask, Status, buildVars, runnerVars
<1>5. ASSUME NEW r \in Runners, LoopOnly(r) PROVE TypeOK'
  BY <1>5, LoopOnlyFacts DEF buildVars, taskVars
<1>6. ASSUME NEW r \in Runners, NEW i \in Ids, ClaimTask(r, i) PROVE TypeOK'
  BY <1>6 DEF ClaimTask, Status, buildVars
<1>7. ASSUME NEW r \in Runners, DeliverTask(r) PROVE TypeOK'
  BY <1>7 DEF DeliverTask, Active, buildVars, taskVars
<1>8. ASSUME NEW r \in Runners, NEW i \in Ids, MarkRunning(r, i) PROVE TypeOK'
  BY <1>8 DEF MarkRunning, MoveJob, Active, Status, buildVars
<1>9. ASSUME NEW r \in Runners, NEW i \in Ids, JobOnly(r, i) PROVE TypeOK'
  BY <1>9, JobOnlyFacts DEF buildVars, taskVars
<1>10. ASSUME NEW r \in Runners, NEW i \in Ids, ReportFailure(r, i)
       PROVE  TypeOK'
  BY <1>10 DEF ReportFailure, EndJob, Active, Status, buildVars
<1>11. ASSUME NEW r \in Runners, NEW i \in Ids, ReportSuccess(r, i)
       PROVE  TypeOK'
  BY <1>11 DEF ReportSuccess, MoveJob, Active, Status, buildVars
<1>12. ASSUME NEW i \in Ids, UnblockTasks(i) PROVE TypeOK'
  BY <1>12 DEF UnblockTasks, Status, buildVars, runnerVars
<1>13. ASSUME NEW i \in Ids, HandlerDies(i) PROVE TypeOK'
  BY <1>13 DEF HandlerDies, buildVars, taskVars, runnerVars
<1> HIDE DEF TypeOK
<1> QED
  BY StepCases, <1>1, <1>2, <1>3, <1>4, <1>5, <1>6, <1>7, <1>8, <1>9, <1>10,
     <1>11, <1>12, <1>13, Zenon

-----------------------------------------------------------------------------
(* The life cycle of a task.  update_task writes any status it is given;   *)
(* the claims and the order of a job's own calls keep tasks to this one.   *)

Lifecycle(i) ==
    \/ status'[i] = status[i]
    \/ /\ status[i] = "absent"
       /\ phase[BuildOf(i)] = "fanout"
       /\ status'[i] \in {"blocked", "pending"}
    \/ status[i] = "blocked" /\ status'[i] = "pending"
    \/ status[i] = "pending" /\ status'[i] = "assigned"
    \/ status[i] = "assigned" /\ status'[i] = "running"
    \/ status[i] = "running" /\ status'[i] \in {"success", "failure"}

LEMMA LifecycleStep ==
    ASSUME TypeOK, Claims, [Next]_vars
    PROVE  \A i \in Ids : Lifecycle(i)
<1> SUFFICES ASSUME NEW k \in Ids
             PROVE  Lifecycle(k)
  OBVIOUS
<1> USE DEF Lifecycle, TypeOK
<1>1. CASE UNCHANGED status
  BY <1>1
<1>2. ASSUME NEW i \in Ids, InsertTask(i) PROVE Lifecycle(k)
  BY <1>2 DEF InsertTask
<1>3. ASSUME NEW r \in Runners, NEW i \in Ids, ClaimTask(r, i)
      PROVE  Lifecycle(k)
  BY <1>3 DEF ClaimTask, Claimable
<1>4. ASSUME NEW r \in Runners, NEW i \in Ids, MarkRunning(r, i)
      PROVE  Lifecycle(k)
  BY <1>4 DEF MarkRunning, Claims, JobStatus
<1>5. ASSUME NEW r \in Runners, NEW i \in Ids, ReportFailure(r, i)
      PROVE  Lifecycle(k)
  BY <1>5 DEF ReportFailure, Claims, JobStatus
<1>6. ASSUME NEW r \in Runners, NEW i \in Ids, ReportSuccess(r, i)
      PROVE  Lifecycle(k)
  BY <1>6 DEF ReportSuccess, Claims, JobStatus
<1>7. ASSUME NEW i \in Ids, UnblockTasks(i) PROVE Lifecycle(k)
  BY <1>7 DEF UnblockTasks
<1>8. ASSUME \/ UNCHANGED vars
             \/ \E b \in Builds : BuildRow(b)
             \/ \E i \in Ids : CreateStream(i)
             \/ \E r \in Runners : LoopOnly(r)
             \/ \E r \in Runners : DeliverTask(r)
             \/ \E r \in Runners, i \in Ids : JobOnly(r, i)
             \/ \E i \in Ids : HandlerDies(i)
      PROVE  UNCHANGED status
  BY <1>8, BuildRowFacts, LoopOnlyFacts, JobOnlyFacts
     DEF vars, taskVars, CreateStream, DeliverTask, HandlerDies
<1> HIDE DEF Lifecycle, TypeOK
<1> QED
  BY StepCases, <1>1, <1>2, <1>3, <1>4, <1>5, <1>6, <1>7, <1>8

-----------------------------------------------------------------------------
(* The parts of the invariant, one lemma each *)

LEMMA RowsStep ==
    ASSUME TypeOK, Rows, Claims, [Next]_vars
    PROVE  Rows'
<1>1. ASSUME NEW i \in Ids, InsertTask(i) PROVE Rows'
  BY <1>1 DEF InsertTask, Rows, TypeOK
<1>2. CASE UNCHANGED <<created, clock>> /\ ~\E i \in Ids : InsertTask(i)
  <2>1. ASSUME NEW k \in Ids
        PROVE  status'[k] = "absent" <=> status[k] = "absent"
    <3>1. CASE UNCHANGED status
      BY <3>1
    <3>2. CASE \E r \in Runners, i \in Ids :
                  ClaimTask(r, i) \/ MarkRunning(r, i)
      BY <3>2 DEF ClaimTask, Claimable, MarkRunning, Claims, JobStatus, TypeOK
    <3>3. CASE \E r \in Runners, i \in Ids :
                  ReportFailure(r, i) \/ ReportSuccess(r, i)
      BY <3>3 DEF ReportFailure, ReportSuccess, Claims, JobStatus, TypeOK
    <3>4. CASE \E i \in Ids : UnblockTasks(i)
      BY <3>4 DEF UnblockTasks
    <3>5. CASE \/ UNCHANGED vars
               \/ \E b \in Builds : BuildRow(b)
               \/ \E i \in Ids : CreateStream(i)
               \/ \E r \in Runners : LoopOnly(r)
               \/ \E r \in Runners : DeliverTask(r)
               \/ \E r \in Runners, i \in Ids : JobOnly(r, i)
               \/ \E i \in Ids : HandlerDies(i)
      BY <3>1, <3>5, BuildRowFacts, LoopOnlyFacts, JobOnlyFacts
         DEF vars, taskVars, CreateStream, DeliverTask, HandlerDies
    <3> QED
      BY StepCases, <1>2, <3>2, <3>3, <3>4, <3>5
  <2> QED
    BY <1>2, <2>1 DEF Rows
<1>3. \/ \E i \in Ids : InsertTask(i)
      \/ UNCHANGED <<created, clock>>
  BY StepCases, BuildRowFacts, LoopOnlyFacts, JobOnlyFacts
     DEF vars, taskVars, CreateStream, ClaimTask, DeliverTask, MarkRunning,
         ReportFailure, ReportSuccess, UnblockTasks, HandlerDies
<1> QED
  BY <1>1, <1>2, <1>3

LEMMA NumbersStep ==
    ASSUME TypeOK, Dense, Unique, [Next]_vars
    PROVE  Dense' /\ Unique'
<1> USE DEF TypeOK, Inserted
<1>1. CASE UNCHANGED <<phase, number>>
  BY <1>1 DEF Dense, Unique
<1>2. ASSUME NEW b \in Builds,
             NEW n \in {1} \cup {number[c] + 1 : c \in Builds},
             NumberBuild(b, n)
      PROVE  Dense' /\ Unique'
  <2>1. /\ phase[b] = "none"
        /\ phase' = [phase EXCEPT ![b] = "numbered"]
        /\ number' = [number EXCEPT ![b] = n]
        /\ n = 1 \/ \E c \in Inserted : number[c] + 1 = n
    BY <1>2 DEF NumberBuild, NextNumber
  <2>2. Inserted' = Inserted
    BY <2>1
  <2>3. \A c \in Inserted : number'[c] = number[c]
    BY <2>1
  <2> HIDE DEF Inserted
  <2>4. Dense'
    BY <2>1, <2>2, <2>3 DEF Dense
  <2>5. Unique'
    BY <2>2, <2>3 DEF Unique
  <2> QED
    BY <2>4, <2>5
<1>3. ASSUME NEW b \in Builds, InsertBuild(b) PROVE Dense' /\ Unique'
  <2>1. CASE NumberTaken(b)
    <3>1. /\ phase[b] = "numbered"
          /\ phase' = [phase EXCEPT ![b] = "none"]
          /\ number' = [number EXCEPT ![b] = 0]
      BY <1>3, <2>1 DEF InsertBuild
    <3>2. Inserted' = Inserted
      BY <3>1
    <3>3. \A c \in Inserted : number'[c] = number[c]
      BY <3>1
    <3> HIDE DEF Inserted
    <3>4. Dense'
      BY <3>1, <3>2, <3>3 DEF Dense
    <3>5. Unique'
      BY <3>2, <3>3 DEF Unique
    <3> QED
      BY <3>4, <3>5
  <2>2. CASE ~NumberTaken(b)
    <3>1. /\ phase[b] = "numbered"
          /\ phase' = [phase EXCEPT ![b] = "fanout"]
          /\ number' = number
      BY <1>3, <2>2 DEF InsertBuild
    <3>2. Inserted' = Inserted \cup {b}
      BY <3>1
    <3> HIDE DEF Inserted
    <3>3. Dense'
      BY <3>1, <3>2 DEF Dense
    <3>4. Unique'
      BY <2>2, <3>1, <3>2 DEF Unique, NumberTaken
    <3> QED
      BY <3>3, <3>4
  <2> QED
    BY <2>1, <2>2
<1>4. ASSUME NEW b \in Builds, FinishBuild(b) \/ AbortBuild(b)
      PROVE  Dense' /\ Unique'
  <2>1. Inserted' = Inserted /\ number' = number
    BY <1>4 DEF FinishBuild, AbortBuild
  <2>2. \A c \in Builds : phase[c] = "none" <=> phase'[c] = "none"
    BY <1>4 DEF FinishBuild, AbortBuild
  <2> HIDE DEF Inserted
  <2> QED
    BY <2>1, <2>2 DEF Dense, Unique
<1>5. \/ \E b \in Builds : BuildRow(b)
      \/ UNCHANGED <<phase, number>>
  BY StepCases, LoopOnlyFacts, JobOnlyFacts
     DEF vars, buildVars, CreateStream, InsertTask, ClaimTask, DeliverTask,
         MarkRunning, ReportFailure, ReportSuccess, UnblockTasks, HandlerDies
<1> QED
  BY <1>1, <1>2, <1>3, <1>4, <1>5 DEF BuildRow

LEMMA ClaimsStep ==
    ASSUME TypeOK, Claims, [Next]_vars
    PROVE  Claims'
<1> USE DEF TypeOK
<1>1. CASE UNCHANGED <<status, runner, poll, polled, jobs>>
  BY <1>1 DEF Claims, JobOwner, JobStatus, Handout
<1>2. ASSUME NEW i \in Ids, InsertTask(i) PROVE Claims'
  <2>1. /\ status[i] = "absent"
        /\ \A k \in Ids : k # i => status'[k] = status[k]
        /\ UNCHANGED <<runner, poll, polled, jobs>>
    BY <1>2 DEF InsertTask, runnerVars
  <2>2. \A r \in Runners : jobs[r][i] = "none"
    BY <2>1 DEF Claims, JobOwner
  <2>3. \A r \in Runners : poll[r] = "claimed" => polled[r] # i
    BY <2>1 DEF Claims, Handout
  <2>4. JobOwner'
    BY <2>1, <2>2 DEF Claims, JobOwner
  <2>5. JobStatus'
    BY <2>1, <2>2 DEF Claims, JobStatus
  <2>6. Handout'
    BY <2>1, <2>3 DEF Claims, Handout
  <2> QED
    BY <2>4, <2>5, <2>6 DEF Claims
<1>3. ASSUME NEW r \in Runners, LoopOnly(r) PROVE Claims'
  <2>1. UNCHANGED <<status, runner, jobs>>
    BY <1>3, LoopOnlyFacts DEF taskVars
  <2>2. Handout'
    BY <1>3, <2>1, LoopOnlyFacts DEF Claims, Handout
  <2> QED
    BY <2>1, <2>2 DEF Claims, JobOwner, JobStatus
<1>4. ASSUME NEW r \in Runners, NEW i \in Ids, ClaimTask(r, i) PROVE Claims'
  <2>1. /\ status[i] = "pending"
        /\ poll[r] = "waiting"
        /\ status' = [status EXCEPT ![i] = "assigned"]
        /\ runner' = [runner EXCEPT ![i] = r]
        /\ poll' = [poll EXCEPT ![r] = "claimed"]
        /\ polled' = [polled EXCEPT ![r] = i]
        /\ jobs' = jobs
    BY <1>4 DEF ClaimTask, Claimable
  <2>2. \A s \in Runners : jobs[s][i] = "none"
    BY <2>1 DEF Claims, JobOwner
  <2>3. \A s \in Runners : poll[s] = "claimed" => polled[s] # i
    BY <2>1 DEF Claims, Handout
  <2>4. JobOwner'
    BY <2>1, <2>2 DEF Claims, JobOwner
  <2>5. JobStatus'
    BY <2>1, <2>2 DEF Claims, JobStatus
  <2>6. Handout'
    BY <2>1, <2>2, <2>3 DEF Claims, Handout
  <2> QED
    BY <2>4, <2>5, <2>6 DEF Claims
<1>5. ASSUME NEW r \in Runners, DeliverTask(r) PROVE Claims'
  <2> DEFINE i == polled[r]
  <2>1. /\ i \in Ids
        /\ runner[i] = r
        /\ status[i] = "assigned"
        /\ \A s \in Runners : jobs[s][i] = "none"
    BY <1>5 DEF DeliverTask, Claims, Handout
  <2>2. /\ poll' = [poll EXCEPT ![r] = "idle"]
        /\ polled' = [polled EXCEPT ![r] = None]
        /\ jobs' = [jobs EXCEPT ![r][i] = "delivered"]
        /\ UNCHANGED <<status, runner>>
    BY <1>5 DEF DeliverTask, taskVars
  <2>3. \A s \in Runners : s # r /\ poll[s] = "claimed" => polled[s] # i
    BY <2>1 DEF Claims, Handout
  <2> HIDE DEF i
  <2>4. JobOwner'
    BY <2>1, <2>2 DEF Claims, JobOwner
  <2>5. JobStatus'
    BY <2>1, <2>2 DEF Claims, JobStatus
  <2>6. Handout'
    BY <2>1, <2>2, <2>3 DEF Claims, Handout
  <2> QED
    BY <2>4, <2>5, <2>6 DEF Claims
<1>6. ASSUME NEW r \in Runners, NEW i \in Ids, NEW pc, NEW st,
             \/ jobs[r][i] = "delivered" /\ pc = "marked" /\ st = "running"
             \/ jobs[r][i] = "failed" /\ pc = "ended" /\ st = "failure"
             \/ jobs[r][i] = "passed" /\ pc = "reported" /\ st = "success",
             jobs' = [jobs EXCEPT ![r][i] = pc],
             status' = [status EXCEPT ![i] = st],
             UNCHANGED <<runner, poll, polled>>
      PROVE  Claims'
  <2>1. runner[i] = r /\ jobs[r][i] # "none"
    BY <1>6 DEF Claims, JobOwner
  <2>2. \A s \in Runners : s # r => jobs[s][i] = "none"
    BY <2>1 DEF Claims, JobOwner
  <2>3. \A s \in Runners : poll[s] = "claimed" => polled[s] # i
    BY <2>1 DEF Claims, Handout
  <2>4. JobOwner'
    BY <1>6, <2>1, <2>2 DEF Claims, JobOwner
  <2>5. JobStatus'
    BY <1>6, <2>2 DEF Claims, JobStatus
  <2>6. Handout'
    BY <1>6, <2>3 DEF Claims, Handout
  <2> QED
    BY <2>4, <2>5, <2>6 DEF Claims
<1>7. ASSUME NEW r \in Runners, NEW i \in Ids,
             MarkRunning(r, i) \/ ReportFailure(r, i) \/ ReportSuccess(r, i)
      PROVE  Claims'
  <2>1. CASE MarkRunning(r, i)
    BY <1>6, <2>1 DEF MarkRunning, MoveJob
  <2>2. CASE ReportFailure(r, i)
    BY <1>6, <2>2 DEF ReportFailure, EndJob
  <2>3. CASE ReportSuccess(r, i)
    BY <1>6, <2>3 DEF ReportSuccess, MoveJob
  <2> QED
    BY <1>7, <2>1, <2>2, <2>3
<1>8. ASSUME NEW r \in Runners, NEW i \in Ids, JobOnly(r, i) PROVE Claims'
  <2>1. /\ jobs[r][i] # "none"
        /\ jobs'[r][i] \in {"ready", "passed", "failed"} =>
              jobs[r][i] \in {"marked", "ready"}
        /\ jobs'[r][i] \in {"ready", "passed", "failed", "ended"}
        /\ \A s \in Runners, j \in Ids :
              s # r \/ j # i => jobs'[s][j] = jobs[s][j]
        /\ UNCHANGED <<status, runner, poll, polled>>
    BY <1>8, JobOnlyFacts DEF taskVars
  <2>2. \A s \in Runners : poll[s] = "claimed" => polled[s] # i
    BY <2>1 DEF Claims, Handout
  <2>3. JobOwner'
    BY <2>1 DEF Claims, JobOwner
  <2>4. JobStatus'
    BY <2>1 DEF Claims, JobStatus
  <2>5. Handout'
    BY <2>1, <2>2 DEF Claims, Handout
  <2> QED
    BY <2>3, <2>4, <2>5 DEF Claims
<1>9. ASSUME NEW i \in Ids, UnblockTasks(i) PROVE Claims'
  <2>1. /\ \A k \in Ids : \/ status'[k] = status[k]
                          \/ status[k] = "blocked" /\ status'[k] = "pending"
        /\ UNCHANGED <<runner, poll, polled, jobs>>
    BY <1>9 DEF UnblockTasks, runnerVars
  <2>2. JobOwner'
    BY <2>1 DEF Claims, JobOwner
  <2>3. JobStatus'
    BY <2>1 DEF Claims, JobOwner, JobStatus
  <2>4. Handout'
    BY <2>1 DEF Claims, Handout
  <2> QED
    BY <2>2, <2>3, <2>4 DEF Claims
<1>10. ASSUME \/ UNCHANGED vars
              \/ \E b \in Builds : BuildRow(b)
              \/ \E i \in Ids : CreateStream(i)
              \/ \E i \in Ids : HandlerDies(i)
       PROVE  UNCHANGED <<status, runner, poll, polled, jobs>>
  BY <1>10, BuildRowFacts
     DEF vars, taskVars, runnerVars, CreateStream, HandlerDies
<1> HIDE DEF TypeOK
<1> QED
  BY StepCases, <1>1, <1>2, <1>3, <1>4, <1>5, <1>7, <1>8, <1>9, <1>10

\* Success is stable, a rank never changes once it is given, and a later row
\* never gets an earlier rank; so only unblock_tasks has something to show.
LEMMA DependencyStep ==
    ASSUME TypeOK, Rows, Claims, DependencyOrder, [Next]_vars
    PROVE  DependencyOrder'
<1> USE IdFacts
<1>0. \A k \in Ids : Deps(k)' = Deps(k)
  BY DEF Deps, Tasks, Next, vars, configVars
<1>1. \A k \in Ids : status[k] = "success" => status'[k] = "success"
  BY LifecycleStep DEF Lifecycle
<1>2. ASSUME NEW i \in Ids, InsertTask(i) PROVE DependencyOrder'
  <2>1. /\ status[i] = "absent"
        /\ status'[i] = IF Deps(i) = {} THEN "pending" ELSE "blocked"
        /\ created'[i] = clock
        /\ \A k \in Ids : k # i => /\ status'[k] = status[k]
                                   /\ created'[k] = created[k]
    BY <1>2 DEF InsertTask, TypeOK
  <2> SUFFICES ASSUME NEW k \in Ids, NEW d \in Deps(k),
                      Released(k)', InsertedBefore(d, k)'
               PROVE  status'[d] = "success"
    BY <1>0 DEF DependencyOrder
  <2>2. k # i
    BY <2>1 DEF Released
  <2>3. d # i
    BY <2>1, <2>2 DEF InsertedBefore, Rows, TypeOK
  <2> QED
    BY <1>1, <2>1, <2>2, <2>3 DEF DependencyOrder, Released, InsertedBefore
<1>3. CASE UNCHANGED created /\ ~\E i \in Ids : UnblockTasks(i) \/ InsertTask(i)
  <2>1. \A k \in Ids : Released(k)' => Released(k)
    <3>1. CASE UNCHANGED status
      BY <3>1 DEF Released
    <3>2. CASE \E r \in Runners, i \in Ids :
                  ClaimTask(r, i) \/ MarkRunning(r, i)
      BY <3>2 DEF ClaimTask, Claimable, MarkRunning, Claims, JobStatus, TypeOK,
                  Released
    <3>3. CASE \E r \in Runners, i \in Ids :
                  ReportFailure(r, i) \/ ReportSuccess(r, i)
      BY <3>3 DEF ReportFailure, ReportSuccess, Claims, JobStatus, TypeOK,
                  Released
    <3>4. CASE \/ UNCHANGED vars
               \/ \E b \in Builds : BuildRow(b)
               \/ \E i \in Ids : CreateStream(i)
               \/ \E r \in Runners : LoopOnly(r)
               \/ \E r \in Runners : DeliverTask(r)
               \/ \E r \in Runners, i \in Ids : JobOnly(r, i)
               \/ \E i \in Ids : HandlerDies(i)
      BY <3>1, <3>4, BuildRowFacts, LoopOnlyFacts, JobOnlyFacts
         DEF vars, taskVars, CreateStream, DeliverTask, HandlerDies
    <3> QED
      BY StepCases, <1>3, <3>2, <3>3, <3>4
  <2> QED
    BY <1>0, <1>1, <1>3, <2>1 DEF DependencyOrder, InsertedBefore
<1>4. ASSUME NEW i \in Ids, UnblockTasks(i) PROVE DependencyOrder'
  <2>1. /\ UNCHANGED created
        /\ \A k \in Ids :
              \/ status'[k] = status[k]
              \/ status[k] = "blocked" /\ NoDepOpen(k)
    BY <1>4 DEF UnblockTasks
  <2> SUFFICES ASSUME NEW k \in Ids, NEW d \in Deps(k),
                      Released(k)', InsertedBefore(d, k)'
               PROVE  status'[d] = "success"
    BY <1>0 DEF DependencyOrder
  <2>2. CASE status'[k] = status[k]
    BY <1>1, <2>1, <2>2 DEF DependencyOrder, Released, InsertedBefore
  <2>3. CASE NoDepOpen(k)
    <3>1. created[d] # 0
      BY <2>1 DEF InsertedBefore
    <3> QED
      BY <1>1, <2>3, <3>1 DEF NoDepOpen, Rows
  <2> QED
    BY <2>1, <2>2, <2>3
<1>5. \/ \E i \in Ids : UnblockTasks(i) \/ InsertTask(i)
      \/ UNCHANGED created
  BY StepCases, BuildRowFacts, LoopOnlyFacts, JobOnlyFacts
     DEF vars, taskVars, CreateStream, ClaimTask, DeliverTask, MarkRunning,
         ReportFailure, ReportSuccess, HandlerDies
<1> QED
  BY <1>2, <1>3, <1>4, <1>5

-----------------------------------------------------------------------------
(* The theorems *)

LEMMA InitInv == Init => IInv
<1> SUFFICES ASSUME Init PROVE IInv
  OBVIOUS
<1>1. TypeOK
  BY RunnerAssumption DEF Init, TypeOK, Phase, Status
<1>2. Rows
  BY DEF Init, Rows
<1>3. Dense /\ Unique
  BY DEF Init, Dense, Unique, Inserted
<1>4. Claims
  BY DEF Init, Claims, JobOwner, JobStatus, Handout
<1>5. DependencyOrder
  BY DEF Init, DependencyOrder, Released
<1> QED
  BY <1>1, <1>2, <1>3, <1>4, <1>5 DEF IInv

LEMMA StepInv == IInv /\ [Next]_vars => IInv'
BY TypeStep, RowsStep, NumbersStep, ClaimsStep, DependencyStep DEF IInv

\* The invariant holds throughout: in particular a task that poll_task has
\* claimed is owned by one runner, whose job alone writes its row.
THEOREM InvariantCorrect == Spec => []IInv
<1>1. Init => IInv
  BY InitInv
<1>2. IInv /\ [Next]_vars => IInv'
  BY StepInv
<1> QED
  BY <1>1, <1>2, PTL DEF Spec

\* Type correctness of the CI tables and of the runners.
THEOREM CiTypeCorrect == Spec => []TypeOK
BY InvariantCorrect, PTL DEF IInv

\* unblock_tasks respects every dependency inserted before its dependent.
THEOREM DependencyOrderCorrect == Spec => []DependencyOrder
BY InvariantCorrect, PTL DEF IInv

\* claim_task hands a task to one runner, once.
THEOREM SingleExecutionCorrect == Spec => []SingleExecution
<1>1. IInv => SingleExecution
  BY DEF IInv, Claims, JobOwner, Handout, SingleExecution
<1> QED
  BY <1>1, InvariantCorrect, PTL

\* Build numbers are unique and without gaps.
THEOREM BuildNumbersCorrect == Spec => []BuildNumbers
<1>1. IInv => BuildNumbers
  BY DEF IInv, Dense, Unique, Inserted, BuildNumbers
<1> QED
  BY <1>1, InvariantCorrect, PTL

\* Every task goes through its life cycle in order.
THEOREM LifecycleCorrect == Spec => [][\A i \in Ids : Lifecycle(i)]_vars
<1>1. IInv /\ [Next]_vars => [\A i \in Ids : Lifecycle(i)]_vars
  BY LifecycleStep DEF IInv
<1> QED
  BY <1>1, InvariantCorrect, PTL DEF Spec

\* The verdict of get_build on a build whose fan-out has ended is final.
THEOREM VerdictIsFinalCorrect == Spec => VerdictIsFinal
<1> DEFINE Final ==
        \A b \in Builds :
           phase[b] \in {"done", "aborted"} /\ BuildStatus(b) # "running"
              => BuildStatus(b)' = BuildStatus(b)
<1>1. ASSUME IInv, [Next]_vars PROVE Final
  <2> SUFFICES ASSUME NEW b \in Builds, phase[b] \in {"done", "aborted"},
                      BuildStatus(b) # "running"
               PROVE  BuildStatus(b)' = BuildStatus(b)
    OBVIOUS
  <2>1. \A i \in Ids : Lifecycle(i)
    BY <1>1, LifecycleStep DEF IInv
  <2>2. \A i \in Ids : BuildOf(i) = b =>
           /\ status'[i] = "absent" <=> status[i] = "absent"
           /\ status[i] \in {"success", "failure"} => status'[i] = status[i]
    BY <2>1 DEF Lifecycle
  <2> DEFINE rows == {i \in Ids : BuildOf(i) = b /\ status[i] # "absent"}
  <2>3. rows' = rows
    BY <2>2
  <2>4. CASE \E i \in rows : status[i] = "failure"
    <3>1. BuildStatus(b) = "failure"
      BY <2>4 DEF BuildStatus
    <3>2. \E i \in rows' : status'[i] = "failure"
      BY <2>2, <2>3, <2>4
    <3>3. BuildStatus(b)' = "failure"
      BY <3>2 DEF BuildStatus
    <3> QED
      BY <3>1, <3>3
  <2>5. CASE rows # {} /\ \A i \in rows : status[i] = "success"
    <3>1. BuildStatus(b) = "success"
      BY <2>5 DEF BuildStatus
    <3>2. rows' # {} /\ \A i \in rows' : status'[i] = "success"
      BY <2>2, <2>3, <2>5
    <3>3. BuildStatus(b)' = "success"
      BY <3>2 DEF BuildStatus
    <3> QED
      BY <3>1, <3>3
  <2> QED
    BY <2>4, <2>5 DEF BuildStatus
<1>2. IInv /\ [Next]_vars => [Final]_vars
  BY <1>1
<1> QED
  BY <1>2, InvariantCorrect, PTL DEF Spec, VerdictIsFinal

-----------------------------------------------------------------------------
(* Permits.  The jobs of a runner are finitely many because each step spawns *)
(* one at most, whatever the number of builds and tasks.                     *)

ActiveJobs(r) == {i \in Ids : jobs[r][i] \in Active}

Permits ==
    \A r \in Runners :
       /\ IsFiniteSet(ActiveJobs(r))
       /\ permits[r] + Cardinality(ActiveJobs(r))
             + (IF poll[r] = "idle" THEN 0 ELSE 1) = NumExecutors

\* A runner whose jobs stay active or inactive keeps its balance if the
\* permits and the poll do.
LEMMA SameBalance ==
    ASSUME TypeOK, Permits, NEW r \in Runners,
           \A i \in Ids : jobs'[r][i] \in Active <=> jobs[r][i] \in Active,
           permits'[r] + (IF poll'[r] = "idle" THEN 0 ELSE 1)
              = permits[r] + (IF poll[r] = "idle" THEN 0 ELSE 1),
           permits'[r] \in Nat
    PROVE  /\ IsFiniteSet(ActiveJobs(r)')
           /\ permits'[r] + Cardinality(ActiveJobs(r)')
                 + (IF poll'[r] = "idle" THEN 0 ELSE 1) = NumExecutors
<1>1. ActiveJobs(r)' = ActiveJobs(r)
  BY DEF ActiveJobs
<1>2. IsFiniteSet(ActiveJobs(r)) /\ Cardinality(ActiveJobs(r)) \in Nat
  BY FS_CardinalityType DEF Permits
<1>3. permits[r] \in Nat
  BY DEF TypeOK
<1> QED
  BY <1>1, <1>2, <1>3 DEF Permits

\* A permit moves from the poll to a job, or from a job back.
LEMMA JobStarts ==
    ASSUME TypeOK, Permits, NEW r \in Runners, NEW k \in Ids,
           jobs[r][k] \notin Active, jobs'[r][k] \in Active,
           \A i \in Ids \ {k} : jobs'[r][i] = jobs[r][i],
           permits'[r] = permits[r], poll[r] # "idle", poll'[r] = "idle"
    PROVE  /\ IsFiniteSet(ActiveJobs(r)')
           /\ permits'[r] + Cardinality(ActiveJobs(r)')
                 + (IF poll'[r] = "idle" THEN 0 ELSE 1) = NumExecutors
<1>1. ActiveJobs(r)' = ActiveJobs(r) \cup {k} /\ k \notin ActiveJobs(r)
  BY DEF ActiveJobs
<1>2. IsFiniteSet(ActiveJobs(r)) /\ Cardinality(ActiveJobs(r)) \in Nat
  BY FS_CardinalityType DEF Permits
<1>3. /\ IsFiniteSet(ActiveJobs(r)')
      /\ Cardinality(ActiveJobs(r)') = Cardinality(ActiveJobs(r)) + 1
  BY <1>1, <1>2, FS_AddElement
<1>4. permits[r] \in Nat
  BY DEF TypeOK
<1> QED
  BY <1>2, <1>3, <1>4 DEF Permits

LEMMA JobEnds ==
    ASSUME TypeOK, Permits, NEW r \in Runners, NEW k \in Ids,
           jobs[r][k] \in Active, jobs'[r][k] \notin Active,
           \A i \in Ids \ {k} : jobs'[r][i] = jobs[r][i],
           permits'[r] = permits[r] + 1, poll'[r] = poll[r]
    PROVE  /\ IsFiniteSet(ActiveJobs(r)')
           /\ permits'[r] + Cardinality(ActiveJobs(r)')
                 + (IF poll'[r] = "idle" THEN 0 ELSE 1) = NumExecutors
<1>1. ActiveJobs(r)' = ActiveJobs(r) \ {k} /\ k \in ActiveJobs(r)
  BY DEF ActiveJobs
<1>2. IsFiniteSet(ActiveJobs(r)) /\ Cardinality(ActiveJobs(r)) \in Nat
  BY FS_CardinalityType DEF Permits
<1>3. /\ IsFiniteSet(ActiveJobs(r)')
      /\ Cardinality(ActiveJobs(r)') = Cardinality(ActiveJobs(r)) - 1
  BY <1>1, <1>2, FS_RemoveElement
<1>4. permits[r] \in Nat
  BY DEF TypeOK
<1> QED
  BY <1>2, <1>3, <1>4 DEF Permits

\* What the steps do to the balance of a runner.
LEMMA PermitsStep ==
    ASSUME IInv, Permits, [Next]_vars
    PROVE  Permits'
<1> USE DEF IInv
<1> SUFFICES ASSUME NEW s \in Runners
             PROVE  /\ IsFiniteSet(ActiveJobs(s)')
                    /\ permits'[s] + Cardinality(ActiveJobs(s)')
                          + (IF poll'[s] = "idle" THEN 0 ELSE 1) = NumExecutors
  BY DEF Permits
<1>1. permits'[s] \in Nat /\ permits[s] \in Nat
  BY TypeStep DEF TypeOK
<1>2. CASE /\ permits'[s] = permits[s] /\ poll'[s] = poll[s]
           /\ \A i \in Ids : jobs'[s][i] = jobs[s][i]
  BY <1>1, <1>2, SameBalance
<1>3. CASE UNCHANGED vars \/ (\E b \in Builds : BuildRow(b))
           \/ (\E i \in Ids : CreateStream(i) \/ InsertTask(i)
                              \/ UnblockTasks(i) \/ HandlerDies(i))
  <2>1. UNCHANGED runnerVars
    BY <1>3, BuildRowFacts
       DEF vars, CreateStream, InsertTask, UnblockTasks, HandlerDies
  <2> QED
    BY <1>2, <2>1 DEF runnerVars
<1>4. ASSUME NEW r \in Runners, LoopOnly(r) \/ \E i \in Ids : ClaimTask(r, i)
      PROVE  permits'[s] + (IF poll'[s] = "idle" THEN 0 ELSE 1)
                = permits[s] + (IF poll[s] = "idle" THEN 0 ELSE 1)
             /\ UNCHANGED jobs
  <2> USE DEF TypeOK
  <2>1. CASE BeginPoll(r)
    BY <1>1, <2>1 DEF BeginPoll
  <2>2. CASE PollTimeout(r)
    BY <1>1, <2>2 DEF PollTimeout
  <2>3. CASE LosePoll(r)
    BY <1>1, <2>3 DEF LosePoll
  <2>4. CASE \E i \in Ids : ClaimTask(r, i)
    BY <1>1, <2>4 DEF ClaimTask
  <2> QED
    BY <1>4, <2>1, <2>2, <2>3, <2>4 DEF LoopOnly
<1>5. ASSUME NEW r \in Runners, DeliverTask(r)
      PROVE  /\ IsFiniteSet(ActiveJobs(s)')
             /\ permits'[s] + Cardinality(ActiveJobs(s)')
                   + (IF poll'[s] = "idle" THEN 0 ELSE 1) = NumExecutors
  <2>1. /\ poll[r] = "claimed" /\ polled[r] \in Ids
        /\ jobs[r][polled[r]] = "none"
    BY <1>5 DEF DeliverTask, Claims, Handout
  <2>2. CASE s # r
    BY <1>2, <1>5, <2>2 DEF DeliverTask, TypeOK
  <2>3. CASE s = r
    <3>1. /\ jobs'[r][polled[r]] = "delivered"
          /\ \A i \in Ids \ {polled[r]} : jobs'[r][i] = jobs[r][i]
          /\ permits'[r] = permits[r] /\ poll'[r] = "idle"
      BY <1>5, <2>1 DEF DeliverTask, TypeOK
    <3>2. "none" \notin Active /\ "delivered" \in Active
      BY DEF Active
    <3> QED
      BY <2>1, <2>3, <3>1, <3>2, JobStarts
  <2> QED
    BY <2>2, <2>3
<1>6. ASSUME NEW r \in Runners, NEW i \in Ids, NEW pc \in Active,
             jobs[r][i] \in Active, MoveJob(r, i, pc), UNCHANGED poll
      PROVE  /\ IsFiniteSet(ActiveJobs(s)')
             /\ permits'[s] + Cardinality(ActiveJobs(s)')
                   + (IF poll'[s] = "idle" THEN 0 ELSE 1) = NumExecutors
  <2>1. \A j \in Ids : jobs'[s][j] \in Active <=> jobs[s][j] \in Active
    BY <1>6 DEF MoveJob, TypeOK
  <2> QED
    BY <1>1, <1>6, <2>1, SameBalance DEF MoveJob
<1>7. ASSUME NEW r \in Runners, NEW i \in Ids,
             jobs[r][i] \in Active, EndJob(r, i), UNCHANGED poll
      PROVE  /\ IsFiniteSet(ActiveJobs(s)')
             /\ permits'[s] + Cardinality(ActiveJobs(s)')
                   + (IF poll'[s] = "idle" THEN 0 ELSE 1) = NumExecutors
  <2>1. CASE s # r
    BY <1>2, <1>7, <2>1 DEF EndJob, TypeOK
  <2>2. CASE s = r
    <3>1. /\ jobs'[r][i] = "ended"
          /\ \A j \in Ids \ {i} : jobs'[r][j] = jobs[r][j]
          /\ permits'[r] = permits[r] + 1
      BY <1>7 DEF EndJob, TypeOK
    <3>2. "ended" \notin Active
      BY DEF Active
    <3> QED
      BY <1>7, <2>2, <3>1, <3>2, JobEnds
  <2> QED
    BY <2>1, <2>2
<1>8. ASSUME NEW r \in Runners, NEW i \in Ids,
             MarkRunning(r, i) \/ JobOnly(r, i) \/ ReportFailure(r, i)
                \/ ReportSuccess(r, i)
      PROVE  /\ jobs[r][i] \in Active /\ UNCHANGED poll
             /\ EndJob(r, i) \/ \E pc \in Active : MoveJob(r, i, pc)
  BY <1>8 DEF MarkRunning, JobOnly, Initialize, Execute, ConfirmReport, JobFails,
     ReportFailure, ReportSuccess, Active
<1> QED
  <2>1. CASE \E r \in Runners : LoopOnly(r) \/ \E i \in Ids : ClaimTask(r, i)
    BY <1>1, <1>4, <2>1, SameBalance
  <2>2. CASE \E r \in Runners, i \in Ids :
                MarkRunning(r, i) \/ JobOnly(r, i) \/ ReportFailure(r, i)
                   \/ ReportSuccess(r, i)
    BY <1>6, <1>7, <1>8, <2>2
  <2> QED
    BY StepCases, <1>3, <1>5, <2>1, <2>2

\* Whatever fails on either side of a poll, a delivery or a report, a runner
\* neither loses capacity nor runs more jobs than it has executors.
THEOREM PermitsConservedCorrect == Spec => []PermitsConserved
<1>1. Init => Permits
  <2> SUFFICES ASSUME Init, NEW r \in Runners
               PROVE  /\ IsFiniteSet(ActiveJobs(r))
                      /\ permits[r] + Cardinality(ActiveJobs(r))
                            + (IF poll[r] = "idle" THEN 0 ELSE 1) = NumExecutors
    BY DEF Permits
  <2>1. ActiveJobs(r) = {}
    BY DEF Init, ActiveJobs, Active
  <2> QED
    BY <2>1, FS_EmptySet, RunnerAssumption DEF Init
<1>2. IInv /\ Permits /\ [Next]_vars => Permits'
  BY PermitsStep
<1>3. Permits => PermitsConserved
  BY DEF Permits, ActiveJobs, PermitsConserved
<1> QED
  BY <1>1, <1>2, <1>3, InvariantCorrect, PTL DEF Spec

-----------------------------------------------------------------------------
(* The abstract job queue *)

\* The dependencies of each task whose rows were inserted before its own.
Waits == [i \in Ids |-> {d \in Ids : InsertedBefore(d, i) /\ d \in Deps(i)}]

LEMMA DepsStay == [Next]_vars => \A i \in Ids : Deps(i)' = Deps(i)
BY DEF Deps, Tasks, Next, vars, configVars

\* What the mapping shows changes only with status, runner_id and created_at.
LEMMA WaitsStay ==
    ASSUME [Next]_vars, UNCHANGED created
    PROVE  Waits' = Waits
BY DepsStay DEF Waits, InsertedBefore

LEMMA QueueStill ==
    ASSUME [Next]_vars, UNCHANGED <<status, runner, created>>
    PROVE  UNCHANGED Queue!queueVars
BY WaitsStay DEF Queue!queueVars, Waits

\* An inserted row is the youngest, and waits for rows there are.
LEMMA EnterStep ==
    ASSUME TypeOK, Rows, [Next]_vars, NEW i \in Ids, InsertTask(i)
    PROVE  Queue!QueueNext
<1>0. PICK wanted : wanted = Waits'[i]
  OBVIOUS
<1>1. /\ status[i] = "absent"
      /\ status' = [status EXCEPT ![i] =
                       IF Deps(i) = {} THEN "pending" ELSE "blocked"]
      /\ created' = [created EXCEPT ![i] = clock]
      /\ UNCHANGED runner
      /\ status \in [Ids -> Status]
      /\ created \in [Ids -> Nat]
      /\ clock \in Nat
  BY DEF InsertTask, TypeOK
<1>2. \A k \in Ids : created[k] < clock
  BY DEF Rows
<1>3. wanted \in SUBSET Queue!Entered
  <2> SUFFICES ASSUME NEW d \in Ids, InsertedBefore(d, i)'
               PROVE  status[d] # "absent"
    BY <1>0, <1>1 DEF Waits, Queue!Entered, Queue!Jobs
  <2>1. d # i
    BY <1>1 DEF InsertedBefore
  <2>2. created[d] # 0
    BY <1>1, <2>1 DEF InsertedBefore
  <2> QED
    BY <2>2 DEF Rows
<1>4. \/ status' = [status EXCEPT ![i] = "blocked"]
      \/ wanted = {} /\ status' = [status EXCEPT ![i] = "pending"]
  <2>1. Deps(i) = {} => wanted = {}
    BY <1>0, DepsStay DEF Waits
  <2> QED
    BY <1>1, <2>1
<1>5. ASSUME NEW k \in Ids, k # i
      PROVE  Waits'[k] = Waits[k]
  <2> SUFFICES ASSUME NEW d \in Ids
               PROVE  InsertedBefore(d, k)' <=> InsertedBefore(d, k)
    BY DepsStay DEF Waits
  <2>1. CASE d = i
    BY <1>1, <1>2, <1>5, <2>1 DEF InsertedBefore, Rows
  <2>2. CASE d # i
    BY <1>1, <1>5, <2>2 DEF InsertedBefore
  <2> QED
    BY <2>1, <2>2
<1>6. Waits' = [Waits EXCEPT ![i] = wanted]
  BY <1>0, <1>5 DEF Waits
<1>7. /\ \A k \in Ids : created[k] < created'[i]
      /\ created' = [created EXCEPT ![i] = created'[i]]
  BY <1>1, <1>2
<1>8. Queue!Enter(i, wanted)
  BY <1>1, <1>3, <1>4, <1>6, <1>7 DEF Queue!Enter, Queue!Jobs, Waits
<1>9. i \in Queue!Jobs
  BY <1>1 DEF Queue!Jobs
<1> QED
  BY <1>3, <1>8, <1>9 DEF Queue!QueueNext

\* claim_task takes the oldest pending task.
LEMMA TakeStep ==
    ASSUME TypeOK, [Next]_vars, NEW r \in Runners, NEW i \in Ids, ClaimTask(r, i)
    PROVE  Queue!QueueNext
<1>1. /\ status[i] = "pending"
      /\ \A j \in Ids : status[j] = "pending" => created[i] <= created[j]
      /\ status' = [status EXCEPT ![i] = "assigned"]
      /\ runner' = [runner EXCEPT ![i] = r]
      /\ UNCHANGED created
      /\ DOMAIN status = Ids
  BY DEF ClaimTask, Claimable, TypeOK
<1>2. Queue!Take(i, r)
  BY <1>1, WaitsStay DEF Queue!Take, Queue!Jobs, Waits
<1> QED
  BY <1>1, <1>2 DEF Queue!QueueNext, Queue!Jobs

\* A report of the job that owns a task starts or ends it.
LEMMA ReportStep ==
    ASSUME TypeOK, Claims, [Next]_vars, NEW r \in Runners, NEW i \in Ids,
           MarkRunning(r, i) \/ ReportFailure(r, i) \/ ReportSuccess(r, i)
    PROVE  Queue!QueueNext
<1>1. UNCHANGED <<runner, created>> /\ DOMAIN status = Ids
  BY DEF MarkRunning, ReportFailure, ReportSuccess, TypeOK
<1> DEFINE Moves(from, to) ==
        status[i] = from /\ status' = [status EXCEPT ![i] = to]
<1>2. \/ Moves("assigned", "running")
      \/ Moves("running", "success")
      \/ Moves("running", "failure")
  BY DEF MarkRunning, ReportFailure, ReportSuccess, Claims, JobStatus
<1>3. Queue!Start(i) \/ Queue!End(i)
  BY <1>1, <1>2, WaitsStay
     DEF Queue!Start, Queue!End, Queue!Move, Waits
<1> QED
  BY <1>1, <1>3 DEF Queue!QueueNext, Queue!Jobs

\* unblock_tasks releases tasks whose earlier dependencies have succeeded: a
\* dependency it does not find has no row, so it was not inserted earlier.
LEMMA ReleaseStep ==
    ASSUME TypeOK, Rows, [Next]_vars, NEW i \in Ids, UnblockTasks(i)
    PROVE  Queue!QueueNext
<1> DEFINE ready == {j \in Ids : /\ BuildOf(j) = BuildOf(i)
                                 /\ status[j] = "blocked"
                                 /\ NoDepOpen(j)}
<1>1. /\ status' = [j \in Ids |-> IF j \in ready THEN "pending" ELSE status[j]]
      /\ UNCHANGED <<runner, created>>
      /\ DOMAIN status = Ids
  BY DEF UnblockTasks, TypeOK
<1>2. ASSUME NEW j \in ready
      PROVE  \A d \in Waits[j] : status[d] = "success"
  BY <1>2 DEF Waits, NoDepOpen, InsertedBefore, Rows
<1>3. ready \in SUBSET {j \in Queue!Jobs : Queue!Releasable(j)}
  BY <1>1, <1>2 DEF Queue!Releasable, Queue!Jobs, Waits
<1>4. Queue!Release(ready)
  BY <1>1, <1>3, WaitsStay DEF Queue!Release, Queue!Jobs, Waits
<1> QED
  BY <1>3, <1>4 DEF Queue!QueueNext

LEMMA QueueStep ==
    ASSUME IInv, [Next]_vars
    PROVE  [Queue!QueueNext]_Queue!queueVars
<1> USE DEF IInv
<1>1. CASE \E i \in Ids : InsertTask(i)
  BY <1>1, EnterStep
<1>2. CASE \E r \in Runners, i \in Ids : ClaimTask(r, i)
  BY <1>2, TakeStep
<1>3. CASE \E r \in Runners, i \in Ids :
              MarkRunning(r, i) \/ ReportFailure(r, i) \/ ReportSuccess(r, i)
  BY <1>3, ReportStep
<1>4. CASE \E i \in Ids : UnblockTasks(i)
  BY <1>4, ReleaseStep
<1>5. CASE \/ UNCHANGED vars
           \/ \E b \in Builds : BuildRow(b)
           \/ \E i \in Ids : CreateStream(i)
           \/ \E r \in Runners : LoopOnly(r)
           \/ \E r \in Runners : DeliverTask(r)
           \/ \E r \in Runners, i \in Ids : JobOnly(r, i)
           \/ \E i \in Ids : HandlerDies(i)
  <2>1. UNCHANGED <<status, runner, created>>
    BY <1>5, BuildRowFacts, LoopOnlyFacts, JobOnlyFacts
       DEF vars, taskVars, CreateStream, DeliverTask, HandlerDies
  <2> QED
    BY <2>1, QueueStill
<1> QED
  BY StepCases, <1>1, <1>2, <1>3, <1>4, <1>5

LEMMA QueueStart == Init => Queue!QueueInit
BY DEF Init, Queue!QueueInit, Queue!Jobs, InsertedBefore

\* Builds, polls, reports and unblock_tasks implement the job queue.
THEOREM ImplementsJobQueueCorrect == Spec => ImplementsJobQueue
<1>1. Init => Queue!QueueInit
  BY QueueStart
<1>2. IInv /\ [Next]_vars => [Queue!QueueNext]_Queue!queueVars
  BY QueueStep
<1> QED
  BY <1>1, <1>2, InvariantCorrect, PTL DEF Spec, ImplementsJobQueue, Queue!QueueSpec
=============================================================================
