--------------------------- MODULE MCCiScheduler ---------------------------
(***************************************************************************)
(* Scenarios of CiScheduler for TLC.  In the calm ones b1 selects all      *)
(* tasks, and every way in which they may wait for each other is tried,    *)
(* but for renamed copies of what check_dag should accept.  In the faulty  *)
(* one "deploy" waits for "build"; b2 selects "deploy" without it, which   *)
(* create_build drops from waits_for.                                      *)
(***************************************************************************)
EXTENDS CiScheduler, TLC

CONSTANTS b1, b2, build, test, deploy, main, pull

Task(n, waits) == [name |-> n, blank |-> FALSE, waits_for |-> waits]

\* All tasks, run by a push to the main branch.
MainFile(waits) ==
    [builds |-> <<[trigger |-> main, tasks |-> <<build, test, deploy>>]>>,
     tasks |-> <<Task(build, waits[build]), Task(test, waits[test]),
                 Task(deploy, waits[deploy])>>]

BothFile ==
    [builds |-> <<[trigger |-> main, tasks |-> <<build, deploy>>],
                  [trigger |-> pull, tasks |-> <<deploy>>]>>,
     tasks |-> <<Task(build, {}), Task(deploy, {build})>>]

MCTrigger == b1 :> main @@ b2 :> pull

Waits == [Names -> SUBSET Names]

\* Reference definition: every set of tasks has one that waits for no other
\* of the set.
Acyclic(waits) ==
    \A S \in SUBSET Names : S # {} => \E n \in S : waits[n] \cap S = {}

ASSUME CheckDagExact == \A w \in Waits : CheckDag(MainFile(w)) <=> Acyclic(w)

Sorted(waits) ==
    waits[build] = {} /\ waits[test] \subseteq {build} /\ waits[deploy] \subseteq {build, test}

AllScenarios ==
    {[file |-> MainFile(w), calm |-> TRUE] : w \in {v \in Waits : Sorted(v) \/ ~Acyclic(v)}}
    \cup {[file |-> BothFile, calm |-> FALSE]}

CalmScenario ==
    {[file |-> MainFile([n \in Names |-> IF n = deploy THEN {build, test} ELSE {}]),
      calm |-> TRUE]}
=============================================================================
