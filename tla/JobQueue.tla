------------------------------ MODULE JobQueue ------------------------------
(***************************************************************************)
(* What the CI of gitdot promises about its tasks, without builds, polls,  *)
(* rows and reports: a queue of jobs that may need each other.  A job runs *)
(* once, for one worker, and ends with one verdict; it is taken up only    *)
(* after those it needs have succeeded, and of the jobs that are ready the *)
(* oldest is taken first.  CiScheduler shows that it implements this.      *)
(***************************************************************************)
EXTENDS Naturals

CONSTANTS
    Workers,        \* who may take a job
    Nobody          \* the owner of a job that was not taken

VARIABLES
    state,          \* for each job how far it is
    owner,          \* the worker that took it
    needs,          \* the jobs that it has to wait for
    arrival         \* when it entered the queue, as a rank

queueVars == <<state, owner, needs, arrival>>

Jobs == DOMAIN state

Entered == {j \in Jobs : state[j] # "absent"}

QueueInit ==
    /\ state = [j \in Jobs |-> "absent"]
    /\ owner = [j \in Jobs |-> Nobody]
    /\ needs = [j \in Jobs |-> {}]
    /\ arrival = [j \in Jobs |-> 0]

\* A job enters behind all others.  It may need any of them; one that needs
\* none may still have to be released.
Enter(j, wanted) ==
    /\ state[j] = "absent"
    /\ wanted \subseteq Entered
    /\ \/ state' = [state EXCEPT ![j] = "blocked"]
       \/ wanted = {} /\ state' = [state EXCEPT ![j] = "pending"]
    /\ needs' = [needs EXCEPT ![j] = wanted]
    /\ \A k \in Jobs : arrival[k] < arrival'[j]
    /\ arrival' = [arrival EXCEPT ![j] = arrival'[j]]
    /\ UNCHANGED owner

Releasable(j) ==
    state[j] = "blocked" /\ \A k \in needs[j] : state[k] = "success"

\* Some of the jobs whose needs are met become ready.
Release(ready) ==
    /\ ready \subseteq {j \in Jobs : Releasable(j)}
    /\ state' = [j \in Jobs |-> IF j \in ready THEN "pending" ELSE state[j]]
    /\ UNCHANGED <<owner, needs, arrival>>

\* Worker w takes the oldest job that is ready.
Take(j, w) ==
    /\ state[j] = "pending"
    /\ \A k \in Jobs : state[k] = "pending" => arrival[j] <= arrival[k]
    /\ state' = [state EXCEPT ![j] = "assigned"]
    /\ owner' = [owner EXCEPT ![j] = w]
    /\ UNCHANGED <<needs, arrival>>

\* A job that was taken keeps its owner, is started and ends.
Move(j, from, to) ==
    /\ state[j] = from
    /\ state' = [state EXCEPT ![j] = to]
    /\ UNCHANGED <<owner, needs, arrival>>

Start(j) == Move(j, "assigned", "running")

End(j) == Move(j, "running", "success") \/ Move(j, "running", "failure")

QueueNext ==
    \/ \E ready \in SUBSET {j \in Jobs : Releasable(j)} : Release(ready)
    \/ \E j \in Jobs :
          \/ \E wanted \in SUBSET Entered : Enter(j, wanted)
          \/ \E w \in Workers : Take(j, w)
          \/ Start(j)
          \/ End(j)

QueueSpec == QueueInit /\ [][QueueNext]_queueVars
=============================================================================
