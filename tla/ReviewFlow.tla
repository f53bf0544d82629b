----------------------------- MODULE ReviewFlow -----------------------------
(***************************************************************************)
(* Stacked code reviews of gitdot-core (service/core/review.rs, with       *)
(* repository/core/review.rs for the tables and client/git.rs for the      *)
(* repository): a push to refs/for/<branch> opens a review with one diff   *)
(* per commit, further pushes revise the diffs, and a merge rebases the    *)
(* diffs up to a position and moves the target branch.                     *)
(*                                                                         *)
(* A request handler takes one step per await that reads or writes shared  *)
(* state: a SQL statement or a ref.  Commits are immutable, so listing     *)
(* them, comparing their patches and cherry-picking them are part of the   *)
(* step that uses the result.  No handler holds a lock or a transaction.   *)
(*                                                                         *)
(* A commit is the sequence of patches from the root to it.  One review is *)
(* followed, from before its creation.                                     *)
(***************************************************************************)
EXTENDS Naturals, SequencesExt

CONSTANTS
    Handlers,       \* requests in flight at once
    DirectPatches,  \* patches others may push to the target branch
    Stacks,         \* what the author may have on top of a target commit
    Conflicts,      \* pairs {p, q} of patches that touch the same lines
    Empty,          \* the patch of a commit that changes nothing
    MaxRequests,    \* BOUND: requests ever started
    MaxDiffs,       \* BOUND: commits in one push
    CanFail,        \* may a call fail or a handler die between two steps?
    InOrder         \* do the dates of commits increase from parent to child?

VARIABLES
    target,     \* the commit refs/heads/<target_branch> points to
    review,     \* core.reviews.status, "none" before the row exists
    diffs,      \* core.diffs: position |-> status
    revisions,  \* core.revisions, with the patch each was created for
    revRefs,    \* refs/reviews/<id>/diffs/<position>/revisions/<number>
    curRefs,    \* refs/reviews/<id>/diffs/<position>/current
    headRef,    \* refs/reviews/<id>/head
    req,        \* the request handlers
    started,    \* how many requests have been started
    landed      \* every patch the target branch ever held (history)

vars == <<target, review, diffs, revisions, revRefs, curRefs, headRef, req,
          started, landed>>

-----------------------------------------------------------------------------
(* Commits *)

Patches == {Empty} \cup DirectPatches \cup UNION {Range(s) : s \in Stacks}

ASSUME ReviewAssumption ==
    /\ Stacks \subseteq Seq(Patches)
    /\ MaxRequests \in Nat /\ MaxDiffs \in Nat
    /\ CanFail \in BOOLEAN /\ InOrder \in BOOLEAN

Positions == 1..MaxDiffs
Numbers == 1..(MaxRequests + 1)

Nil == <<>>     \* the root commit, and "no commit" for a ref

PatchOf(c) == IF c = Nil THEN Empty ELSE Last(c)

\* What rev_list(old, new).rev() may be: the commits of new that old lacks, the
\* oldest first by their dates alone (Sort::TIME, without TOPOLOGICAL).  Dates
\* are the author's: equal or out of order, a child may come before its parent.
RevList(old, new) ==
    LET shared == Max({n \in 0..Min({Len(old), Len(new)}) :
                        SubSeq(old, 1, n) = SubSeq(new, 1, n)})
        added == 1..(Len(new) - shared)
        orders == {o \in [added -> added] :
                    /\ \A i, j \in added : o[i] = o[j] => i = j
                    /\ InOrder => \A i \in added : o[i] = i}
    IN  {[i \in added |-> SubSeq(new, 1, shared + o[i])] : o \in orders}

\* A three-way merge of commit c onto `onto': what differs between c's own
\* parent and onto collides with c's patch, unless onto already has the patch.
PickConflicts(c, onto) ==
    /\ PatchOf(c) \notin Range(onto)
    /\ \E q \in Range(onto) \cup Range(Front(c)) :
        /\ ~(q \in Range(onto) /\ q \in Range(Front(c)))
        /\ {PatchOf(c), q} \in Conflicts

\* Mutant: c is merged with everything below it.
MergeWhole(c, onto) == onto \o SelectSeq(c, LAMBDA q : q \notin Range(onto))

\* ABSTRACTION: onto has all of a patch or nothing of it.
CherryPick(c, onto) ==
    Append(onto, IF PatchOf(c) \in Range(onto) THEN Empty ELSE PatchOf(c))

-----------------------------------------------------------------------------
(* Rows, snapshots and handlers *)

NoRevision == [position |-> 0, number |-> 0, commit |-> Nil, parent |-> Nil,
               origin |-> Empty]

RevisionsOf(p) == {r \in revisions : r.position = p}

\* revisions.first(): the query orders them by number, latest first.
Latest(p) ==
    IF RevisionsOf(p) = {} THEN NoRevision
    ELSE CHOOSE r \in RevisionsOf(p) :
            \A s \in RevisionsOf(p) : s.number <= r.number

\* get_review_by_id, get_review_by_number: one SELECT.
Snapshot == [status |-> review, diffs |-> diffs,
             latest |-> [p \in Positions |-> Latest(p)]]

NoSnapshot == [status |-> "none", diffs |-> [p \in Positions |-> "none"],
               latest |-> [p \in Positions |-> NoRevision]]

Idle == [op |-> "idle", pc |-> "idle", new |-> Nil, upTo |-> 0,
         seen |-> NoSnapshot, commits |-> <<>>, i |-> 0, parent |-> Nil]

Init ==
    /\ target = Nil
    /\ review = "none"
    /\ diffs = [p \in Positions |-> "none"]
    /\ revisions = {}
    /\ revRefs = [p \in Positions |-> [n \in Numbers |-> Nil]]
    /\ curRefs = [p \in Positions |-> Nil]
    /\ headRef = Nil
    /\ req = [h \in Handlers |-> Idle]
    /\ started = 0
    /\ landed = {}

At(h, pc) == req[h].pc = pc

Goto(h, pc) == req' = [req EXCEPT ![h].pc = pc]

\* The handler returns, with a response or with the error of the call.
Return(h) == req' = [req EXCEPT ![h] = Idle]

Rows == <<review, diffs, revisions>>
Refs == <<target, revRefs, curRefs, headRef>>

-----------------------------------------------------------------------------
(* Requests *)

Begin(h, r) ==
    /\ req[h] = Idle
    /\ started < MaxRequests
    /\ started' = started + 1
    /\ req' = [req EXCEPT ![h] = r]
    /\ UNCHANGED <<Rows, Refs, landed>>

\* What the author may push: a stack on any commit of the target branch,
\* on its tip or on an older one.
Pushable ==
    {SubSeq(target, 1, n) \o s : n \in 0..Len(target), s \in Stacks}

\* proc-receive for refs/for/<branch>; the model follows one such review.
StartCreate(h) ==
    /\ review = "none"
    /\ \A k \in Handlers : req[k].op # "create"
    /\ \E c \in Pushable :
        Begin(h, [Idle EXCEPT !.op = "create", !.pc = "resolve", !.new = c])

\* proc-receive for refs/for/<branch>/<number>.
StartUpdate(h) ==
    /\ review # "none"
    /\ \E c \in Pushable :
        Begin(h, [Idle EXCEPT !.op = "update", !.pc = "read", !.new = c])

StartMerge(h) ==
    /\ review # "none"
    /\ \E p \in Positions :
        Begin(h, [Idle EXCEPT !.op = "merge", !.pc = "read", !.upTo = p])

StartPublish(h) ==
    /\ review # "none"
    /\ Begin(h, [Idle EXCEPT !.op = "publish", !.pc = "read"])

StartPublishDiff(h) ==
    /\ review # "none"
    /\ \E p \in Positions :
        Begin(h, [Idle EXCEPT !.op = "publish_diff", !.pc = "read",
                              !.upTo = p])

\* Mutant: the position of the merge is not looked at.
DiffsToMergeAll(seen, upTo) ==
    {p \in Positions : seen.diffs[p] \notin {"none", "merged"}}

\* The diffs a merge up to a position takes: every one that is not merged.
DiffsToMerge(seen, upTo) ==
    {p \in Positions : p <= upTo /\ seen.diffs[p] \notin {"none", "merged"}}

\* May the handler go on with what it read?
Admits(r, seen) ==
    CASE r.op = "update" -> TRUE
      [] r.op = "merge" ->
            /\ seen.status = "open"
            /\ DiffsToMerge(seen, r.upTo) # {}
            /\ \A p \in DiffsToMerge(seen, r.upTo) :
                    seen.latest[p] # NoRevision
      [] r.op = "publish" ->
            /\ seen.status = "draft"
            /\ \A p \in Positions : seen.diffs[p] # "draft"
      [] r.op = "publish_diff" ->
            /\ seen.status = "draft"
            /\ seen.diffs[r.upTo] = "draft"

ReadReview(h) ==
    /\ At(h, "read")
    /\ IF Admits(req[h], Snapshot)
       THEN req' = [req EXCEPT
                ![h].seen = Snapshot,
                ![h].pc = IF req[h].op \in {"update", "merge"} THEN "resolve"
                          ELSE req[h].op]
       ELSE Return(h)
    /\ UNCHANGED <<Rows, Refs, started, landed>>

-----------------------------------------------------------------------------
(* create_review and process_review_update *)

\* Mutant: a push to an existing diff never makes a new revision.
VisitInPlace(r, i) ==
    IF i > Len(r.commits) THEN [r EXCEPT !.pc = "head"]
    ELSE IF r.seen.diffs[i] = "none" THEN [r EXCEPT !.pc = "diff", !.i = i]
    ELSE IF r.seen.latest[i] = NoRevision THEN Idle
    ELSE [r EXCEPT !.pc = "sha", !.i = i]

\* What is done for the i-th commit: its position is i.
Visit(r, i) ==
    IF i > Len(r.commits) THEN [r EXCEPT !.pc = "head"]
    ELSE IF r.seen.diffs[i] = "none" THEN [r EXCEPT !.pc = "diff", !.i = i]
    ELSE IF r.seen.latest[i] = NoRevision THEN Idle     \* has no revisions
    ELSE [r EXCEPT !.pc = IF PatchOf(r.seen.latest[i].commit)
                                = PatchOf(r.commits[i])
                          THEN "sha" ELSE "revision",
                   !.i = i]

Commit(h) == req[h].commits[req[h].i]

\* previous_sha: the commit before, the resolved target before the first.
Previous(h) == IF req[h].i = 1 THEN req[h].parent
               ELSE req[h].commits[req[h].i - 1]

Existing(h) == req[h].seen.diffs[req[h].i] # "none"

Number(h) == req[h].seen.latest[req[h].i].number

NextCommit(h) == req' = [req EXCEPT ![h] = Visit(req[h], req[h].i + 1)]

\* Resolve the target and list the commits pushed on top of it.
ResolvePush(h) ==
    /\ At(h, "resolve") /\ req[h].op \in {"create", "update"}
    /\ \E commits \in RevList(target, req[h].new) :
        LET r == [req[h] EXCEPT !.commits = commits, !.parent = target]
        IN  /\ Len(commits) <= MaxDiffs
            /\ req' = [req EXCEPT ![h] =
                    IF commits = <<>> THEN Idle
                    ELSE IF req[h].op = "create" THEN [r EXCEPT !.pc = "insert"]
                    ELSE Visit(r, 1)]
    /\ UNCHANGED <<Rows, Refs, started, landed>>

InsertReview(h) ==
    /\ At(h, "insert")
    /\ review' = "draft"
    /\ req' = [req EXCEPT ![h] = Visit(req[h], 1)]
    /\ UNCHANGED <<diffs, revisions, Refs, started, landed>>

\* create_diff: UNIQUE (review_id, position).
CreateDiff(h) ==
    /\ At(h, "diff")
    /\ IF diffs[req[h].i] = "none"
       THEN /\ diffs' = [diffs EXCEPT ![req[h].i] = "draft"]
            /\ Goto(h, "revision")
       ELSE Return(h) /\ UNCHANGED diffs
    /\ UNCHANGED <<review, revisions, Refs, started, landed>>

\* Mutant: the table lacks UNIQUE (diff_id, number).
NeverExists(p, n) == FALSE

\* UNIQUE (diff_id, number).
RevisionExists(p, n) == \E r \in revisions : r.position = p /\ r.number = n

\* Mutant: the insert ignores a conflict and the push goes on to the ref.
CreateRevisionOrSkip(h) ==
    /\ At(h, "revision")
    /\ revisions' = IF RevisionExists(req[h].i, Number(h) + 1) THEN revisions
                    ELSE revisions \cup
                        {[position |-> req[h].i, number |-> Number(h) + 1,
                          commit |-> Commit(h), parent |-> Previous(h),
                          origin |-> PatchOf(Commit(h))]}
    /\ Goto(h, "ref")
    /\ UNCHANGED <<review, diffs, Refs, started, landed>>

CreateRevision(h) ==
    /\ At(h, "revision")
    /\ IF RevisionExists(req[h].i, Number(h) + 1)
       THEN Return(h) /\ UNCHANGED revisions
       ELSE /\ revisions' = revisions \cup
                {[position |-> req[h].i, number |-> Number(h) + 1,
                  commit |-> Commit(h), parent |-> Previous(h),
                  origin |-> PatchOf(Commit(h))]}
            /\ Goto(h, "ref")
    /\ UNCHANGED <<review, diffs, Refs, started, landed>>

\* create_ref refuses to overwrite a ref.
CreateRevisionRef(h) ==
    /\ At(h, "ref")
    /\ IF revRefs[req[h].i][Number(h) + 1] = Nil
       THEN /\ revRefs' = [revRefs EXCEPT ![req[h].i][Number(h) + 1] = Commit(h)]
            /\ Goto(h, "current")
       ELSE Return(h) /\ UNCHANGED revRefs
    /\ UNCHANGED <<Rows, target, curRefs, headRef, started, landed>>

\* The patch is the one already under review: only its commit changes.
WithCommit(rows, p, n, commit, parent) ==
    {IF r.position = p /\ r.number = n
     THEN [r EXCEPT !.commit = commit, !.parent = parent] ELSE r : r \in rows}

UpdateRevisionSha(h) ==
    /\ At(h, "sha")
    /\ revisions' = WithCommit(revisions, req[h].i, Number(h), Commit(h),
                               Previous(h))
    /\ Goto(h, "revision_ref")
    /\ UNCHANGED <<review, diffs, Refs, started, landed>>

UpdateRevisionRef(h) ==
    /\ At(h, "revision_ref")
    /\ revRefs' = [revRefs EXCEPT ![req[h].i][Number(h)] = Commit(h)]
    /\ Goto(h, "current")
    /\ UNCHANGED <<Rows, target, curRefs, headRef, started, landed>>

Unmodified(h) == /\ Existing(h)
                 /\ PatchOf(req[h].seen.latest[req[h].i].commit)
                        = PatchOf(Commit(h))

\* The first current ref of a diff is created, a later one is overwritten.
SetCurrentRef(h) ==
    /\ At(h, "current")
    /\ IF Existing(h) \/ curRefs[req[h].i] = Nil
       THEN /\ curRefs' = [curRefs EXCEPT ![req[h].i] = Commit(h)]
            /\ IF Existing(h) /\ ~Unmodified(h) THEN Goto(h, "reopen")
               ELSE NextCommit(h)
       ELSE Return(h) /\ UNCHANGED curRefs
    /\ UNCHANGED <<Rows, target, revRefs, headRef, started, landed>>

Reopen(h) ==
    /\ At(h, "reopen")
    /\ diffs' = [diffs EXCEPT ![req[h].i] = "open"]
    /\ NextCommit(h)
    /\ UNCHANGED <<review, revisions, Refs, started, landed>>

\* create_ref for a new review, update_ref for an existing one; touching
\* reviews.updated_at and reading the review back change nothing kept here.
SetHeadRef(h) ==
    /\ At(h, "head")
    /\ headRef' = IF req[h].op = "update" \/ headRef = Nil THEN req[h].new
                  ELSE headRef
    /\ Return(h)
    /\ UNCHANGED <<Rows, target, revRefs, curRefs, started, landed>>

-----------------------------------------------------------------------------
(* merge_review_diff *)

ToMerge(h) == DiffsToMerge(req[h].seen, req[h].upTo)

Least(S, p) == p \in S /\ \A q \in S : p <= q

\* The revision that is merged for the diff at position p.
RevisionToMerge(h, p) == req[h].seen.latest[p]

\* The next diff of the merge in order of position, or what follows the last.
NextDiff(h, pc, after) ==
    LET rest == {p \in ToMerge(h) : p > req[h].i}
    IN  \/ rest = {} /\ Goto(h, after)
        \/ \E p \in rest :
            /\ Least(rest, p)
            /\ req' = [req EXCEPT ![h].pc = pc, ![h].i = p]

\* Fast-forward when the target is the recorded parent of the first diff,
\* otherwise rebase the diffs one by one.
ResolveMerge(h) ==
    /\ At(h, "resolve") /\ req[h].op = "merge"
    /\ \E first, last \in ToMerge(h) :
        /\ Least(ToMerge(h), first)
        /\ \A p \in ToMerge(h) : p <= last
        /\ req' = [req EXCEPT ![h] =
            IF RevisionToMerge(h, first).parent = target
            THEN [req[h] EXCEPT !.pc = "advance",
                                !.parent = RevisionToMerge(h, last).commit]
            ELSE [req[h] EXCEPT !.pc = "pick", !.i = first, !.parent = target]]
    /\ UNCHANGED <<Rows, Refs, started, landed>>

\* cherry_pick_commit and update_revision_sha.
PickDiff(h) ==
    /\ At(h, "pick")
    /\ LET old == RevisionToMerge(h, req[h].i)
           new == CherryPick(old.commit, req[h].parent)
       IN  IF PickConflicts(old.commit, req[h].parent)
           THEN Return(h) /\ UNCHANGED revisions
           ELSE /\ revisions' = WithCommit(revisions, old.position, old.number,
                                           new, req[h].parent)
                /\ req' = [req EXCEPT ![h].pc = "pick_ref", ![h].parent = new]
    /\ UNCHANGED <<review, diffs, Refs, started, landed>>

PickRef(h) ==
    /\ At(h, "pick_ref")
    /\ curRefs' = [curRefs EXCEPT ![req[h].i] = req[h].parent]
    /\ NextDiff(h, "pick", "advance")
    /\ UNCHANGED <<Rows, target, revRefs, headRef, started, landed>>

\* update_ref on the target branch is forced.
AdvanceTarget(h) ==
    /\ At(h, "advance")
    /\ target' = req[h].parent
    /\ landed' = landed \cup Range(target')
    /\ \E p \in ToMerge(h) :
        /\ Least(ToMerge(h), p)
        /\ req' = [req EXCEPT ![h].pc = "mark", ![h].i = p]
    /\ UNCHANGED <<Rows, revRefs, curRefs, headRef, started>>

\* Mutant: the diff is given the status of a finished review.
MarkClosed(h) ==
    /\ At(h, "mark")
    /\ diffs' = [diffs EXCEPT ![req[h].i] = "closed"]
    /\ NextDiff(h, "mark", "close")
    /\ UNCHANGED <<review, revisions, Refs, started, landed>>

MarkMerged(h) ==
    /\ At(h, "mark")
    /\ diffs' = [diffs EXCEPT ![req[h].i] = "merged"]
    /\ NextDiff(h, "mark", "close")
    /\ UNCHANGED <<review, revisions, Refs, started, landed>>

\* all_merged is judged on what was read at the start.
CloseReview(h) ==
    /\ At(h, "close")
    /\ LET seen == req[h].seen
       IN  review' = IF \A p \in Positions :
                            \/ seen.diffs[p] \in {"none", "merged"}
                            \/ p <= req[h].upTo
                     THEN "closed" ELSE review
    /\ Return(h)
    /\ UNCHANGED <<diffs, revisions, Refs, started, landed>>

-----------------------------------------------------------------------------
(* Publishing *)

PublishReview(h) ==
    /\ At(h, "publish")
    /\ review' = "open"
    /\ Return(h)
    /\ UNCHANGED <<diffs, revisions, Refs, started, landed>>

PublishReviewDiff(h) ==
    /\ At(h, "publish_diff")
    /\ diffs' = [diffs EXCEPT ![req[h].upTo] = "open"]
    /\ Return(h)
    /\ UNCHANGED <<review, revisions, Refs, started, landed>>

-----------------------------------------------------------------------------
(* The environment *)

\* Someone pushes a commit to the target branch with git.
PushTarget ==
    /\ \E p \in DirectPatches \ landed :
        /\ target' = Append(target, p)
        /\ landed' = landed \cup {p}
    /\ UNCHANGED <<Rows, revRefs, curRefs, headRef, req, started>>

\* A call fails, with or without effect, or the server stops.
Die(h) ==
    /\ CanFail
    /\ req[h] # Idle
    /\ Return(h)
    /\ UNCHANGED <<Rows, Refs, started, landed>>

Next ==
    \/ PushTarget
    \/ \E h \in Handlers :
        \/ StartCreate(h) \/ StartUpdate(h) \/ StartMerge(h)
        \/ StartPublish(h) \/ StartPublishDiff(h)
        \/ ReadReview(h)
        \/ ResolvePush(h) \/ InsertReview(h) \/ CreateDiff(h)
        \/ CreateRevision(h) \/ CreateRevisionRef(h)
        \/ UpdateRevisionSha(h) \/ UpdateRevisionRef(h)
        \/ SetCurrentRef(h) \/ Reopen(h) \/ SetHeadRef(h)
        \/ ResolveMerge(h) \/ PickDiff(h) \/ PickRef(h)
        \/ AdvanceTarget(h) \/ MarkMerged(h) \/ CloseReview(h)
        \/ PublishReview(h) \/ PublishReviewDiff(h)
        \/ Die(h)

Spec == Init /\ [][Next]_vars

-----------------------------------------------------------------------------
(* Properties *)

Commits == Seq(Patches)

Revision == [position : Positions, number : Numbers, commit : Commits,
             parent : Commits, origin : Patches]

ReviewStatus == {"none", "draft", "open", "closed"}
DiffStatus == {"none", "draft", "open", "merged"}

\* Types of the rows (migrations/20260402024735), the refs and the handlers.
TypeOK ==
    /\ target \in Commits
    /\ review \in ReviewStatus
    /\ diffs \in [Positions -> DiffStatus]
    /\ \A r \in revisions : r \in Revision
    /\ revRefs \in [Positions -> [Numbers -> Commits]]
    /\ curRefs \in [Positions -> Commits]
    /\ headRef \in Commits
    /\ started \in 0..MaxRequests
    /\ landed \subseteq Patches
    /\ \A h \in Handlers :
        /\ req[h].op \in {"idle", "create", "update", "merge", "publish",
                          "publish_diff"}
        /\ req[h].new \in Commits /\ req[h].parent \in Commits
        /\ req[h].commits \in Seq(Commits)
        /\ req[h].seen.diffs \in [Positions -> DiffStatus]

\* Concurrent pushes to one review and pushes that die half-way leave diffs
\* at positions 1..m and revisions numbered 1..n, each once: get_review and
\* the revision refs address them by these numbers.
RowsDense ==
    /\ \A p \in Positions : diffs[p] # "none" =>
            \A q \in 1..p : diffs[q] # "none"
    /\ \A p \in Positions :
        /\ RevisionsOf(p) # {} => diffs[p] # "none"
        /\ {r.number : r \in RevisionsOf(p)} = 1..Cardinality(RevisionsOf(p))

\* A push or a merge that rewrites a revision in place never changes what the
\* reviewers of that revision judged: its commit has the patch the revision
\* was created for, or no change at all when a rebase found it on the target.
RevisionKeepsPatch ==
    \A r \in revisions : PatchOf(r.commit) \in {r.origin, Empty}

\* Rows and refs are written by separate calls, and still a revision ref names
\* the patch of the revision with its number, and a current ref the patch of
\* some revision of its diff.
RefsMatchRevisions ==
    \A p \in Positions :
        /\ \A n \in Numbers : revRefs[p][n] # Nil =>
            \E r \in RevisionsOf(p) :
                r.number = n /\ PatchOf(revRefs[p][n]) \in {r.origin, Empty}
        /\ curRefs[p] # Nil =>
            \E r \in RevisionsOf(p) : PatchOf(curRefs[p]) \in {r.origin, Empty}

\* The patches that the merge of h brings to the target branch were reviewed at
\* the positions it was asked for.
StaysBelow(h) ==
    Range(target') \ landed \subseteq {Empty} \cup
        {r.origin : r \in {s \in revisions : s.position <= req[h].upTo}}

\* "Merges all open diffs up to and including the given position": whatever a
\* merge brings to the target branch was reviewed at one of those positions,
\* whether it fast-forwards or rebases and whatever was pushed meanwhile.  The
\* code keeps to it when the dates of commits increase along a stack (InOrder):
\* a fast-forward to a commit brings in what is below it, reviewed or not.
MergeStopsAtPosition ==
    [][\A h \in Handlers : AdvanceTarget(h) => StaysBelow(h)]_vars

\* A merge that rebases keeps to it whatever the dates are, since each diff is
\* picked on its own (i is 0 until the first pick): on snapshots that pushes
\* and other merges made stale, in any order of the positions.
RebaseStopsAtPosition ==
    [][\A h \in Handlers :
            AdvanceTarget(h) /\ req[h].i > 0 => StaysBelow(h)]_vars

\* A merge advances the target branch: no commit that was on it is dropped.
BranchOnlyAdvances == [][IsPrefix(target, target')]_vars
=============================================================================
