------------------------------ MODULE CiConfig ------------------------------
(***************************************************************************)
(* .gitdot-ci.toml as gitdot-config reads it (ci.rs), and the checks it    *)
(* must pass before create_build uses it (validate.rs).                    *)
(*                                                                         *)
(* A file has builds, each a trigger and a list of task names, and tasks,  *)
(* each a name, whether its command is blank, and the names in waits_for.  *)
(* Only whether there are errors matters, not their texts.                 *)
(***************************************************************************)
EXTENDS Naturals, SequencesExt, FiniteSetsExt

Defined(file) == {t.name : t \in Range(file.tasks)}

Referenced(file) == UNION {Range(b.tasks) : b \in Range(file.builds)}

AllDifferent(s) == \A j, k \in DOMAIN s : s[j] = s[k] => j = k

CheckNonEmpty(file) == file.builds # <<>> /\ file.tasks # <<>>

CheckDuplicateTaskNames(file) ==
    AllDifferent([k \in DOMAIN file.tasks |-> file.tasks[k].name])

CheckDuplicateBuildTriggers(file) ==
    AllDifferent([k \in DOMAIN file.builds |-> file.builds[k].trigger])

CheckEmptyBuildTaskLists(file) == \A b \in Range(file.builds) : b.tasks # <<>>

CheckEmptyCommands(file) == \A t \in Range(file.tasks) : ~t.blank

CheckTaskReferences(file) == Referenced(file) \subseteq Defined(file)

CheckDuplicateTaskRefs(file) == \A b \in Range(file.builds) : AllDifferent(b.tasks)

CheckNoOrphanedTasks(file) == Defined(file) \subseteq Referenced(file)

CheckWaitsForUnknown(file) ==
    \A t \in Range(file.tasks) : t.waits_for \subseteq Defined(file)

-----------------------------------------------------------------------------
(* check_dag: a depth-first search for an edge back to a gray node *)

Adj(file) ==
    [n \in Defined(file) |->
        {t.name : t \in {u \in Range(file.tasks) : n \in u.waits_for}}]

SearchState(N) ==
    [color : [N -> {"white", "gray", "black"}], cyclic : BOOLEAN]

\* The nested function dfs: node is gray while its successors are visited.
Dfs(adj) ==
    LET N == DOMAIN adj
        visit[node \in N, s \in SearchState(N)] ==
            LET Step(next, t) ==
                    CASE t.color[next] = "gray" -> [t EXCEPT !.cyclic = TRUE]
                      [] t.color[next] = "white" -> visit[next, t]
                      [] OTHER -> t
                after == FoldSet(Step, [s EXCEPT !.color[node] = "gray"], adj[node])
            IN  [after EXCEPT !.color[node] = "black"]
    IN  visit

Unvisited(adj) == [color |-> [n \in DOMAIN adj |-> "white"], cyclic |-> FALSE]

CheckDag(file) ==
    LET adj == Adj(file)
        dfs == Dfs(adj)
        Start(n, s) == IF s.color[n] = "white" THEN dfs[n, s] ELSE s
    IN  ~FoldSet(Start, Unvisited(adj), DOMAIN adj).cyclic

-----------------------------------------------------------------------------

\* CiConfig::new succeeds.
ValidateCiConfig(file) ==
    /\ CheckNonEmpty(file)
    /\ CheckDuplicateTaskNames(file)
    /\ CheckDuplicateBuildTriggers(file)
    /\ CheckEmptyBuildTaskLists(file)
    /\ CheckEmptyCommands(file)
    /\ CheckTaskReferences(file)
    /\ CheckDuplicateTaskRefs(file)
    /\ CheckNoOrphanedTasks(file)
    /\ CheckWaitsForUnknown(file)
    /\ CheckDag(file)

\* What create_build takes from a file: the tasks of each trigger ...
TasksOf(file) ==
    [tr \in {b.trigger : b \in Range(file.builds)} |->
        UNION {Range(b.tasks) : b \in {c \in Range(file.builds) : c.trigger = tr}}]

\* ... and which task waits for which.
WaitsFor(file) == UNION {{t.name} \X t.waits_for : t \in Range(file.tasks)}
=============================================================================
