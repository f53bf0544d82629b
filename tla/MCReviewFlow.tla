---------------------------- MODULE MCReviewFlow ----------------------------
(* Instances of ReviewFlow for TLC: a stack of two commits and a stack of one *)
(* other commit, which lands at the position of the first.                   *)
EXTENDS ReviewFlow

CONSTANTS a, b, c, x, h1, h2

MCStacks == {<<a, b>>, <<c>>}

\* Without an order of dates the first stack alone is two different ones.
MCStack == {<<a, b>>}

\* The second patch of the stack cannot be rebased onto x, ...
MCConflicts == {{b, x}}

\* ... or the first one, which may have the position of the second.
MCFirstConflicts == {{a, x}}

\* The review a create_review of <<a, b>>, two publish_review_diff and a
\* publish_review leave, on an empty target branch.
Published ==
    /\ target = Nil
    /\ review = "open"
    /\ diffs = [p \in Positions |-> "open"]
    /\ revisions =
        {[position |-> 1, number |-> 1, commit |-> <<a>>, parent |-> Nil,
          origin |-> a],
         [position |-> 2, number |-> 1, commit |-> <<a, b>>, parent |-> <<a>>,
          origin |-> b]}
    /\ revRefs = [p \in Positions |-> [n \in Numbers |->
                    IF n = 1 THEN SubSeq(<<a, b>>, 1, p) ELSE Nil]]
    /\ curRefs = [p \in Positions |-> SubSeq(<<a, b>>, 1, p)]
    /\ headRef = <<a, b>>
    /\ req = [h \in Handlers |-> Idle]
    /\ started = 0
    /\ landed = {}

\* Three requests reach a published review, and three more what pushes, merges
\* and deaths make of it.
MCSpec == (Init \/ Published) /\ [][Next]_vars

HandlerSymmetry == Permutations(Handlers)
=============================================================================
