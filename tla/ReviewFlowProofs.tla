-------------------------- MODULE ReviewFlowProofs --------------------------
(***************************************************************************)
(* Proofs about ReviewFlow, for any number of request handlers, requests,  *)
(* commits in a push and patches, and with or without failures.            *)
(***************************************************************************)
EXTENDS ReviewFlow, FiniteSetTheorems, SequenceTheorems, NaturalsInduction, TLAPS

-----------------------------------------------------------------------------
(* The set operators *)

\* Bounded sets of numbers have a largest member.
LEMMA LargestExists ==
    ASSUME NEW S \in SUBSET Nat, NEW b \in Nat, NEW e \in S,
           \A s \in S : s <= b
    PROVE  Max(S) \in S /\ \A s \in S : Max(S) >= s
<1> DEFINE T == {k \in Nat : k <= b /\ b - k \in S}
<1>1. b - e \in T /\ T \subseteq Nat
  OBVIOUS
<1>2. PICK k \in T : \A j \in T : ~(<<j, k>> \in OpToRel(<, Nat))
  BY <1>1, NatLessThanWellFounded, WFMin
<1>3. \A j \in T : ~(j < k)
  BY <1>2 DEF OpToRel
<1>4. b - k \in S
  OBVIOUS
<1>5. \A s \in S : b - k >= s
  <2> SUFFICES ASSUME NEW s \in S
               PROVE  b - k >= s
    OBVIOUS
  <2>1. b - s \in T
    OBVIOUS
  <2> QED
    BY <1>3, <2>1
<1> QED
  BY <1>4, <1>5 DEF Max

\* The larger and the smaller of two numbers.
LEMMA MinMaxOfTwo ==
    ASSUME NEW a \in Int, NEW b \in Int
    PROVE  /\ Max({a, b}) \in {a, b} /\ Max({a, b}) >= a /\ Max({a, b}) >= b
           /\ Min({a, b}) \in {a, b} /\ Min({a, b}) <= a /\ Min({a, b}) <= b
<1>1. (\E x \in {a, b} : \A y \in {a, b} : x >= y)
      /\ (\E x \in {a, b} : \A y \in {a, b} : x =< y)
  <2>1. CASE a <= b
    BY <2>1
  <2>2. CASE b <= a
    BY <2>2
  <2> QED
    BY <2>1, <2>2
<1>2. Min({a, b}) \in {a, b} /\ \A y \in {a, b} : Min({a, b}) =< y
  BY <1>1 DEF Min
<1>3. Max({a, b}) \in {a, b} /\ \A y \in {a, b} : Max({a, b}) >= y
  BY <1>1 DEF Max
<1> QED
  BY <1>2, <1>3

-----------------------------------------------------------------------------
(* The inductive invariant.  Its parts take the rows as parameters: R for  *)
(* revisions, d for diffs, L for landed, r for the record of a handler.    *)

Row == [position : Positions, number : Nat \ {0}, commit : Commits,
        parent : Commits, origin : Patches]

Seen == [status : ReviewStatus, diffs : [Positions -> DiffStatus],
         latest : [Positions -> Row \cup {NoRevision}]]

Ops == {"idle", "create", "update", "merge", "publish", "publish_diff"}

Steps == {"idle", "read", "resolve", "insert", "diff", "revision", "ref", "sha",
          "revision_ref", "current", "reopen", "head", "pick", "pick_ref",
          "advance", "mark", "close", "publish", "publish_diff"}

Handler == [op : Ops, pc : Steps, new : Commits, upTo : Nat, seen : Seen,
            commits : Seq(Commits), i : Nat, parent : Commits]

Types ==
    /\ target \in Commits
    /\ review \in ReviewStatus
    /\ diffs \in [Positions -> DiffStatus]
    /\ revisions \in SUBSET Row
    /\ revRefs \in [Positions -> [Numbers -> Commits]]
    /\ curRefs \in [Positions -> Commits]
    /\ req \in [Handlers -> Handler]

\* There is a revision n of the diff at p.
HasRow(R, p, n) == \E s \in R : s.position = p /\ s.number = n

\* There is one, and x is its patch, or nothing of it is left.
Stands(R, p, n, x) ==
    \E s \in R : s.position = p /\ s.number = n /\ x \in {s.origin, Empty}

\* What was ever reviewed at the positions up to p.
Reviewed(R, p) ==
    {Empty} \cup {s.origin : s \in {t \in R : t.position <= p}}

\* The UNIQUE constraint, and numbers without gaps.
Table(R) ==
    /\ \A s, t \in R : s.position = t.position /\ s.number = t.number => s = t
    /\ \A p \in Positions : \E m \in Nat :
        \A n \in Nat : HasRow(R, p, n) <=> n \in 1..m

\* The patch of a revision is the one it was created for.
Kept(R) == \A s \in R : PatchOf(s.commit) \in {s.origin, Empty}

\* Diffs without gaps, and a diff for each revision.
DiffsDense(R, d) ==
    /\ \A p \in Positions : d[p] # "none" => \A q \in 1..p : d[q] # "none"
    /\ \A s \in R : d[s.position] # "none"

\* Every ref names a patch that a row of its diff stands for.
RefsStand ==
    \A p \in Positions :
        /\ \A n \in Numbers : revRefs[p][n] # Nil =>
            Stands(revisions, p, n, PatchOf(revRefs[p][n]))
        /\ curRefs[p] # Nil =>
            \E n \in Nat : Stands(revisions, p, n, PatchOf(curRefs[p]))

\* Where the patches of commits come from, when their dates are in order; when
\* not, a commit may hold what nobody reviewed up to its position.
Sources(R, L) ==
    InOrder => \A s \in R :
        Range(s.commit) \subseteq L \cup Reviewed(R, s.position)

\* The history variable is true of the target branch.
Landed == Range(target) \subseteq landed

\* A revision that a handler has read may have been rewritten since, but it
\* still exists, for the same patch.
SeenStands(r, R, L) ==
    \A p \in Positions : r.seen.latest[p] # NoRevision =>
        /\ r.seen.latest[p].position = p
        /\ Stands(R, p, r.seen.latest[p].number,
                  PatchOf(r.seen.latest[p].commit))
        /\ InOrder =>
            Range(r.seen.latest[p].commit) \subseteq L \cup Reviewed(R, p)

\* Diffs are never taken away.
SeenDiffs(r, d) ==
    \A p \in Positions : r.seen.diffs[p] # "none" => d[p] # "none"

AtCommit == {"diff", "revision", "ref", "current", "sha", "revision_ref",
             "reopen"}

\* A commit of a push consists of what has landed and of the patches of the
\* commits up to it, if a commit is listed after its parent.
Pushing(r, d, R, L) ==
    r.pc \in AtCommit \cup {"insert"} =>
        /\ Len(r.commits) <= MaxDiffs
        /\ InOrder => \A j \in 1..Len(r.commits) : Range(r.commits[j]) \subseteq
                L \cup {PatchOf(r.commits[k]) : k \in 1..j}

\* The commits before the i-th one have their diffs and revisions.
Visited(r, i, d, R) ==
    \A j \in 1..i - 1 :
        d[j] # "none" /\ PatchOf(r.commits[j]) \in Reviewed(R, j)

\* Where a push is: which row it has written and which ref comes next.
Visiting(r, d, R) ==
    r.pc \in AtCommit =>
        /\ r.i \in 1..Len(r.commits)
        /\ Visited(r, r.i, d, R)
        /\ r.pc # "diff" => d[r.i] # "none"
        /\ r.pc \in {"sha", "revision_ref"} =>
            /\ r.seen.latest[r.i] # NoRevision
            /\ PatchOf(r.seen.latest[r.i].commit) = PatchOf(r.commits[r.i])
        /\ r.pc = "ref" =>
            Stands(R, r.i, r.seen.latest[r.i].number + 1,
                   PatchOf(r.commits[r.i]))
        /\ r.pc \in {"current", "reopen"} =>
            \E n \in Nat : Stands(R, r.i, n, PatchOf(r.commits[r.i]))

AtMerge == {"pick", "pick_ref", "mark"}

\* A merge builds on what has landed and was reviewed up to its diff: a rebase
\* in any case, a fast-forward (which never was at a diff) if dates are in order.
Merging(r, R, L) ==
    /\ r.op = "merge" /\ r.pc \in {"read", "resolve"} => r.i = 0
    /\ r.pc \in AtMerge \cup {"advance"} => r.op = "merge"
    /\ r.op = "merge" /\ r.pc # "read" =>
        \A p \in DiffsToMerge(r.seen, r.upTo) : r.seen.latest[p] # NoRevision
    /\ r.pc \in AtMerge => r.i \in DiffsToMerge(r.seen, r.upTo)
    /\ r.pc \in {"pick", "pick_ref"} =>
        Range(r.parent) \subseteq L \cup Reviewed(R, r.i)
    /\ r.pc = "pick_ref" =>
        \E n \in Nat : Stands(R, r.i, n, PatchOf(r.parent))
    /\ r.pc = "advance" /\ (InOrder \/ r.i > 0) =>
        Range(r.parent) \subseteq L \cup Reviewed(R, r.upTo)

\* What a request was let through with.
Publishing(r) ==
    /\ r.pc = "read" => r.op \in {"update", "merge", "publish", "publish_diff"}
    /\ r.op = "publish_diff" => r.upTo \in Positions
    /\ r.pc = "publish_diff" =>
        r.op = "publish_diff" /\ r.seen.diffs[r.upTo] # "none"

\* All of this for one handler.
Sound(r, d, R, L) ==
    /\ SeenStands(r, R, L) /\ SeenDiffs(r, d)
    /\ Pushing(r, d, R, L) /\ Visiting(r, d, R)
    /\ Merging(r, R, L) /\ Publishing(r)

Handled == \A h \in Handlers : Sound(req[h], diffs, revisions, landed)

Stored ==
    /\ Table(revisions) /\ Kept(revisions) /\ DiffsDense(revisions, diffs)
    /\ RefsStand /\ Sources(revisions, landed) /\ Landed

Inv == Types /\ Stored /\ Handled

-----------------------------------------------------------------------------
(* Rows are added and rewritten, never taken away *)

More(R, R2) ==
    \A s \in R : \E t \in R2 :
        t.position = s.position /\ t.number = s.number /\ t.origin = s.origin

\* What stands for a patch before such a change stands for it after.
LEMMA MoreStands ==
    ASSUME NEW R, NEW R2, More(R, R2), NEW p, NEW n, NEW x,
           Stands(R, p, n, x)
    PROVE  Stands(R2, p, n, x)
BY DEF More, Stands

\* Nothing that was reviewed is forgotten.
LEMMA MoreReviewed ==
    ASSUME NEW R, NEW R2, More(R, R2), NEW p
    PROVE  Reviewed(R, p) \subseteq Reviewed(R2, p)
BY DEF More, Reviewed

\* Further positions have more that was reviewed.
LEMMA ReviewedGrows ==
    ASSUME NEW R \in SUBSET Row, NEW p \in Nat, NEW q \in Nat, p <= q
    PROVE  Reviewed(R, p) \subseteq Reviewed(R, q)
<1>1. \A s \in R : s.position \in Nat
  BY DEF Row, Positions
<1> QED
  BY <1>1 DEF Reviewed

\* A patch that a revision stands for is a reviewed one.
LEMMA StandsReviewed ==
    ASSUME NEW R \in SUBSET Row, NEW p \in Nat, NEW n, NEW x,
           Stands(R, p, n, x)
    PROVE  x \in Reviewed(R, p)
BY DEF Stands, Reviewed

\* What a handler relies on outlives every such change.
LEMMA SoundGrows ==
    ASSUME NEW r \in Handler, NEW d, NEW R, NEW L, NEW d2, NEW R2, NEW L2,
           Sound(r, d, R, L), More(R, R2), L \subseteq L2,
           \A p \in Positions : d[p] # "none" => d2[p] # "none"
    PROVE  Sound(r, d2, R2, L2)
<1> USE DEF Sound
<1>1. SeenStands(r, R2, L2)
  BY MoreStands, MoreReviewed DEF SeenStands
<1>2. SeenDiffs(r, d2)
  BY DEF SeenDiffs
<1>3. Pushing(r, d2, R2, L2)
  BY DEF Pushing
<1>4. Visiting(r, d2, R2)
  <2> SUFFICES ASSUME r.pc \in AtCommit
               PROVE  Visiting(r, d2, R2)
    BY DEF Visiting
  <2>1. /\ Len(r.commits) \in Nat /\ Len(r.commits) <= MaxDiffs
        /\ r.i \in 1..Len(r.commits)
    BY DEF Pushing, Visiting, Handler
  <2>2. \A j \in 1..r.i : j \in Positions
    BY <2>1, ReviewAssumption DEF Positions
  <2>3. Visited(r, r.i, d2, R2)
    BY <2>1, <2>2, MoreReviewed DEF Visiting, Visited
  <2>4. r.pc # "diff" => d2[r.i] # "none"
    BY <2>1, <2>2 DEF Visiting
  <2> QED
    BY <2>3, <2>4, MoreStands DEF Visiting
<1>5. Merging(r, R2, L2)
  BY MoreStands, MoreReviewed DEF Merging
<1> QED
  BY <1>1, <1>2, <1>3, <1>4, <1>5

-----------------------------------------------------------------------------
(* Commits *)

\* Every commit has a patch, the root the empty one.
LEMMA PatchOfType ==
    ASSUME NEW c \in Commits
    PROVE  PatchOf(c) \in Patches
<1>1. CASE c = Nil
  BY <1>1 DEF PatchOf, Patches
<1>2. CASE c # Nil
  <2>1. Len(c) \in 1..Len(c)
    BY <1>2 DEF Commits, Nil
  <2> QED
    BY <1>2, <2>1 DEF PatchOf, Last, Commits
<1> QED
  BY <1>1, <1>2

\* Cherry-picking adds the patch of the commit, or an empty one.
LEMMA CherryPickFacts ==
    ASSUME NEW c \in Commits, NEW onto \in Commits
    PROVE  /\ CherryPick(c, onto) \in Commits
           /\ PatchOf(CherryPick(c, onto)) \in {PatchOf(c), Empty}
           /\ Range(CherryPick(c, onto))
                 \subseteq Range(onto) \cup {PatchOf(c), Empty}
<1> DEFINE x == IF PatchOf(c) \in Range(onto) THEN Empty ELSE PatchOf(c)
<1>1. x \in Patches /\ x \in {PatchOf(c), Empty}
  BY PatchOfType DEF Patches
<1>2. CherryPick(c, onto) = Append(onto, x)
  BY DEF CherryPick
<1> HIDE DEF x
<1>3. /\ Append(onto, x) \in Commits
      /\ Append(onto, x) # Nil
      /\ Last(Append(onto, x)) = x
  BY <1>1 DEF Commits, Nil, Last
<1>4. Range(Append(onto, x)) \subseteq Range(onto) \cup {x}
  BY <1>1 DEF Commits, Range
<1> QED
  BY <1>1, <1>2, <1>3, <1>4 DEF PatchOf

\* A prefix of a commit is a commit, with the patch at its end.
LEMMA SubSeqOfCommit ==
    ASSUME NEW c \in Commits, NEW n \in 0..Len(c)
    PROVE  /\ SubSeq(c, 1, n) \in Commits
           /\ Len(SubSeq(c, 1, n)) = n
           /\ \A m \in 1..n : SubSeq(c, 1, n)[m] = c[m]
           /\ n > 0 => PatchOf(SubSeq(c, 1, n)) = c[n]
<1>1. n \in Nat /\ Len(c) \in Nat /\ \A m \in 1..n : c[m] \in Patches
  BY DEF Commits
<1>2. /\ SubSeq(c, 1, n) \in Seq(Patches)
      /\ Len(SubSeq(c, 1, n)) = IF 1 <= n THEN n - 1 + 1 ELSE 0
      /\ \A m \in 1..n - 1 + 1 : SubSeq(c, 1, n)[m] = c[1 + m - 1]
  BY <1>1, 1 \in Int, n \in Int, SubSeqProperties
<1>3. Len(SubSeq(c, 1, n)) = n
  BY <1>1, <1>2
<1>4. \A m \in 1..n : SubSeq(c, 1, n)[m] = c[m]
  BY <1>1, <1>2
<1>5. n > 0 => PatchOf(SubSeq(c, 1, n)) = c[n]
  <2> SUFFICES ASSUME n > 0
               PROVE  PatchOf(SubSeq(c, 1, n)) = c[n]
    OBVIOUS
  <2>1. SubSeq(c, 1, n) # Nil
    BY <1>1, <1>3 DEF Nil
  <2> QED
    BY <1>1, <1>3, <1>4, <2>1 DEF PatchOf, Last
<1> QED
  BY <1>2, <1>3, <1>4, <1>5 DEF Commits

\* The commits of a push, parents first, end in the patches they add, on top of
\* the old ones.
LEMMA RevListFacts ==
    ASSUME NEW old \in Commits, NEW new \in Commits, NEW l \in RevList(old, new)
    PROVE  /\ l \in Seq(Commits)
           /\ InOrder => \A j \in 1..Len(l) :
                Range(l[j]) \subseteq Range(old) \cup {PatchOf(l[k]) : k \in 1..j}
<1> DEFINE m == Min({Len(old), Len(new)})
           S == {n \in 0..m : SubSeq(old, 1, n) = SubSeq(new, 1, n)}
           shared == Max(S)
           list == [i \in 1..(Len(new) - shared) |-> SubSeq(new, 1, shared + i)]
<1>1. Len(old) \in Nat /\ Len(new) \in Nat
  BY DEF Commits
<1>2. m \in Nat /\ m <= Len(old) /\ m <= Len(new)
  <2>1. \A x, y \in Int : /\ Min({x, y}) \in {x, y}
                           /\ Min({x, y}) <= x /\ Min({x, y}) <= y
    BY MinMaxOfTwo
  <2>2. Len(old) \in Int /\ Len(new) \in Int
    BY <1>1
  <2>3. m \in {Len(old), Len(new)} /\ m <= Len(old) /\ m <= Len(new)
    BY <2>1, <2>2
  <2> QED
    BY <1>1, <2>3
<1> HIDE DEF m
<1>3. 0 \in S
  <2>1. SubSeq(old, 1, 0) = <<>> /\ SubSeq(new, 1, 0) = <<>>
    BY SubSeqEmpty
  <2> QED
    BY <1>2, <2>1
<1>4. shared \in S
  <2>1. S \in SUBSET Nat /\ \A s \in S : s <= m
    BY <1>2
  <2> HIDE DEF S
  <2> QED
    BY <1>2, <1>3, <2>1, LargestExists
<1>6. PICK o \in [1..(Len(new) - shared) -> 1..(Len(new) - shared)] :
        /\ InOrder => \A i \in 1..(Len(new) - shared) : o[i] = i
        /\ l = [i \in 1..(Len(new) - shared) |-> SubSeq(new, 1, shared + o[i])]
  BY DEF RevList, m
<1> HIDE DEF shared
<1>5. /\ shared \in Nat /\ shared <= Len(old) /\ shared <= Len(new)
      /\ SubSeq(old, 1, shared) = SubSeq(new, 1, shared)
  BY <1>1, <1>2, <1>4
<1> HIDE DEF S
<1>7. \A n \in 1..shared : new[n] \in Range(old)
  <2> SUFFICES ASSUME NEW n \in 1..shared
               PROVE  new[n] \in Range(old)
    OBVIOUS
  <2>1. shared \in 0..Len(old) /\ shared \in 0..Len(new)
    BY <1>1, <1>5
  <2>2. new[n] = old[n]
    BY <1>5, <2>1, SubSeqOfCommit
  <2>3. n \in DOMAIN old
    BY <1>1, <1>5 DEF Commits
  <2> QED
    BY <2>2, <2>3 DEF Range
<1>8. Len(new) - shared \in Nat
  BY <1>1, <1>5
<1>9. \A i \in 1..(Len(new) - shared) :
        /\ SubSeq(new, 1, shared + i) \in Commits
        /\ Len(SubSeq(new, 1, shared + i)) = shared + i
        /\ \A n \in 1..shared + i : SubSeq(new, 1, shared + i)[n] = new[n]
        /\ PatchOf(SubSeq(new, 1, shared + i)) = new[shared + i]
  <2> SUFFICES ASSUME NEW i \in 1..(Len(new) - shared)
               PROVE  shared + i \in 0..Len(new) /\ shared + i > 0
    BY SubSeqOfCommit
  <2> QED
    BY <1>1, <1>5
<1>10. list \in Seq(Commits) /\ Len(list) = Len(new) - shared
  <2>1. list \in [1..(Len(new) - shared) -> Commits]
    BY <1>9
  <2> HIDE DEF list
  <2> QED
    BY <1>8, <2>1
<1>11. ASSUME NEW j \in 1..Len(list)
       PROVE  Range(list[j]) \subseteq
                Range(old) \cup {PatchOf(list[k]) : k \in 1..j}
  <2>1. j \in 1..(Len(new) - shared)
    BY <1>10
  <2>2. /\ list[j] \in Commits /\ Len(list[j]) = shared + j
        /\ \A n \in 1..shared + j : list[j][n] = new[n]
    BY <1>9, <2>1
  <2>3. ASSUME NEW n \in 1..shared + j
        PROVE  new[n] \in Range(old) \cup {PatchOf(list[k]) : k \in 1..j}
    <3>1. CASE n <= shared
      BY <1>5, <1>7, <3>1
    <3>2. CASE n > shared
      <4>1. n - shared \in 1..j /\ n - shared \in 1..(Len(new) - shared)
        BY <1>5, <1>8, <2>1, <3>2
      <4>2. PatchOf(list[n - shared]) = new[shared + (n - shared)]
        BY <1>9, <4>1
      <4>3. shared + (n - shared) = n
        BY <1>5
      <4> QED
        BY <4>1, <4>2, <4>3
    <3>3. n <= shared \/ n > shared
      BY <1>5, <2>1
    <3> QED
      BY <3>1, <3>2, <3>3, Zenon
  <2>4. DOMAIN list[j] = 1..shared + j
    BY <2>2 DEF Commits
  <2> QED
    BY <2>2, <2>3, <2>4 DEF Range
<1>12. l \in Seq(Commits)
  <2>1. l \in [1..(Len(new) - shared) -> Commits]
    BY <1>6, <1>9
  <2> QED
    BY <1>8, <2>1
<1>13. InOrder => l = list
  BY <1>6
<1> HIDE DEF list
<1> QED
  BY <1>11, <1>12, <1>13

-----------------------------------------------------------------------------
(* The table of revisions *)

\* A row that is there stays there.
LEMMA MoreHasRow ==
    ASSUME NEW R, NEW R2, More(R, R2), NEW p, NEW n, HasRow(R, p, n)
    PROVE  HasRow(R2, p, n)
BY DEF More, HasRow

\* A new revision has the number after the last one.
LEMMA AddRow ==
    ASSUME NEW R \in SUBSET Row, NEW row \in Row, Table(R),
           ~HasRow(R, row.position, row.number),
           row.number = 1 \/ HasRow(R, row.position, row.number - 1)
    PROVE  Table(R \cup {row}) /\ More(R, R \cup {row})
<1> DEFINE R2 == R \cup {row}
           q == row.position
           k == row.number
<1>1. q \in Positions /\ k \in Nat /\ k > 0
  BY DEF Row
<1>2. \A s, t \in R2 : s.position = t.position /\ s.number = t.number => s = t
  BY DEF Table, HasRow
<1>3. ASSUME NEW p \in Positions
      PROVE  \E m \in Nat : \A n \in Nat : HasRow(R2, p, n) <=> n \in 1..m
  <2>1. PICK m \in Nat : \A n \in Nat : HasRow(R, p, n) <=> n \in 1..m
    BY <1>3 DEF Table
  <2>2. CASE p # q
    <3>1. \A n \in Nat : HasRow(R2, p, n) <=> HasRow(R, p, n)
      BY <2>2 DEF HasRow
    <3> QED
      BY <2>1, <3>1
  <2>3. CASE p = q
    <3>1. \A n \in Nat : HasRow(R2, p, n) <=> HasRow(R, p, n) \/ n = k
      BY <2>3 DEF HasRow
    <3>2. k \notin 1..m
      BY <1>1, <2>1, <2>3
    <3>3. k = 1 \/ k - 1 \in 1..m
      <4>1. CASE k = 1
        BY <4>1
      <4>2. CASE HasRow(R, q, k - 1)
        <5>1. k - 1 \in Nat
          BY <1>1
        <5> QED
          BY <2>1, <2>3, <4>2, <5>1
      <4> QED
        BY <4>1, <4>2
    <3>4. k = m + 1
      BY <1>1, <3>2, <3>3
    <3> HIDE DEF k, R2
    <3>5. \A n \in Nat : HasRow(R2, p, n) <=> n \in 1..m + 1
      BY <2>1, <3>1, <3>4
    <3> QED
      BY <3>5
  <2> QED
    BY <2>2, <2>3
<1>4. More(R, R2)
  BY DEF More
<1> QED
  BY <1>2, <1>3, <1>4 DEF Table

\* A revision is rewritten in place.
LEMMA RewriteRow ==
    ASSUME NEW R \in SUBSET Row, Table(R), Kept(R),
           NEW p, NEW n, NEW c \in Commits, NEW parent \in Commits,
           Stands(R, p, n, PatchOf(c)),
           NEW R2, R2 = WithCommit(R, p, n, c, parent)
    PROVE  /\ R2 \in SUBSET Row /\ Table(R2) /\ Kept(R2)
           /\ More(R, R2) /\ More(R2, R)
           /\ \A t \in R2 : t \in R \/ (t.position = p /\ t.commit = c)
<1> DEFINE New(s) == IF s.position = p /\ s.number = n
                     THEN [s EXCEPT !.commit = c, !.parent = parent] ELSE s
<1>1. R2 = {New(s) : s \in R}
  BY DEF WithCommit
<1>2. ASSUME NEW s \in R
      PROVE  /\ New(s) \in Row
             /\ New(s).position = s.position /\ New(s).number = s.number
             /\ New(s).origin = s.origin
             /\ \/ New(s) = s
                \/ s.position = p /\ s.number = n /\ New(s).commit = c
  <2>1. s \in Row
    BY <1>2
  <2>2. CASE s.position = p /\ s.number = n
    <3>1. New(s) = [s EXCEPT !.commit = c, !.parent = parent]
      BY <2>2
    <3> HIDE DEF New
    <3> QED
      BY <2>1, <2>2, <3>1 DEF Row
  <2>3. CASE ~(s.position = p /\ s.number = n)
    <3>1. New(s) = s
      BY <2>3
    <3> HIDE DEF New
    <3> QED
      BY <2>1, <3>1 DEF Row
  <2> QED
    BY <2>2, <2>3
<1> HIDE DEF New
<1>3. R2 \in SUBSET Row /\ More(R, R2) /\ More(R2, R)
  BY <1>1, <1>2 DEF More
<1>4. \A s, t \in R2 : s.position = t.position /\ s.number = t.number => s = t
  BY <1>1, <1>2 DEF Table
<1>5. \A q \in Positions, k \in Nat : HasRow(R2, q, k) <=> HasRow(R, q, k)
  BY <1>3, MoreHasRow
<1>6. Table(R2)
  BY <1>4, <1>5 DEF Table
<1>7. ASSUME NEW s \in R
      PROVE  PatchOf(New(s).commit) \in {New(s).origin, Empty}
  <2>1. CASE New(s) = s
    BY <2>1 DEF Kept
  <2>2. CASE s.position = p /\ s.number = n /\ New(s).commit = c
    <3>1. PICK t \in R : /\ t.position = p /\ t.number = n
                         /\ PatchOf(c) \in {t.origin, Empty}
      BY DEF Stands
    <3>2. t = s
      BY <2>2, <3>1 DEF Table
    <3> QED
      BY <1>2, <2>2, <3>1, <3>2
  <2> QED
    BY <1>2, <2>1, <2>2
<1>8. Kept(R2)
  BY <1>1, <1>7 DEF Kept
<1>9. \A t \in R2 : t \in R \/ (t.position = p /\ t.commit = c)
  BY <1>1, <1>2
<1> QED
  BY <1>3, <1>6, <1>8, <1>9

-----------------------------------------------------------------------------
(* The handlers *)

\* A handler h becomes r, and no row is lost.
LEMMA Acting ==
    ASSUME Types, Handled, NEW h \in Handlers, NEW r \in Handler,
           req' = [req EXCEPT ![h] = r],
           More(revisions, revisions'), landed \subseteq landed',
           \A p \in Positions : diffs[p] # "none" => diffs'[p] # "none",
           Sound(r, diffs', revisions', landed')
    PROVE  req' \in [Handlers -> Handler] /\ Handled'
<1>1. req' \in [Handlers -> Handler]
  BY DEF Types
<1>2. ASSUME NEW k \in Handlers
      PROVE  Sound(req'[k], diffs', revisions', landed')
  <2>1. CASE k = h
    BY <2>1 DEF Types
  <2>2. CASE k # h
    <3>1. req'[k] = req[k] /\ req[k] \in Handler
      BY <2>2 DEF Types
    <3>2. Sound(req[k], diffs, revisions, landed)
      BY DEF Handled
    <3>3. Sound(req[k], diffs', revisions', landed')
      BY <3>1, <3>2, SoundGrows
    <3> QED
      BY <3>1, <3>3
  <2> QED
    BY <2>1, <2>2
<1> QED
  BY <1>1, <1>2 DEF Handled

\* A step that leaves the table alone loses nothing.
LEMMA MoreSelf == ASSUME NEW R PROVE More(R, R)
BY DEF More

\* An idle handler relies on nothing.
LEMMA IdleFacts ==
    /\ Idle \in Handler
    /\ \A d, R, L : Sound(Idle, d, R, L)
<1>1. Nil \in Commits /\ <<>> \in Seq(Commits)
  BY DEF Nil, Commits
<1>2. Empty \in Patches
  BY DEF Patches
<1>3. NoSnapshot \in Seen
  BY DEF NoSnapshot, Seen, ReviewStatus, DiffStatus
<1>4. Idle \in Handler
  BY <1>1, <1>3 DEF Idle, Handler, Ops, Steps
<1>5. \A p \in Positions : NoSnapshot.diffs[p] = "none"
                           /\ NoSnapshot.latest[p] = NoRevision
  BY DEF NoSnapshot
<1>6. Idle.pc = "idle" /\ Idle.op = "idle" /\ Idle.seen = NoSnapshot
  BY DEF Idle
<1> QED
  BY <1>4, <1>5, <1>6
  DEF Sound, SeenStands, SeenDiffs, Pushing, Visiting, Merging, Publishing,
      AtCommit, AtMerge

\* The invariant holds before the review exists.
THEOREM InitInv == Init => Inv
<1> SUFFICES ASSUME Init
             PROVE  Inv
  OBVIOUS
<1>1. Nil \in Commits /\ Range(Nil) = {}
  BY DEF Nil, Commits, Range
<1>2. Types
  BY <1>1, IdleFacts DEF Types, Init, ReviewStatus, DiffStatus
<1>3. Table({}) /\ Kept({}) /\ Sources({}, landed)
  <2>1. \A n \in Nat : n \notin 1..0
    OBVIOUS
  <2>2. 0 \in Nat
    OBVIOUS
  <2> QED
    BY <2>1, <2>2 DEF Table, Kept, Sources, HasRow
<1>4. DiffsDense(revisions, diffs) /\ RefsStand /\ Landed
  BY <1>1 DEF Init, DiffsDense, RefsStand, Landed
<1>5. Handled
  BY IdleFacts DEF Handled, Init
<1> QED
  BY <1>2, <1>3, <1>4, <1>5 DEF Inv, Stored, Init

\* The handler returns, or goes on after a step that only it has seen.
LEMMA Returning ==
    ASSUME Types, Handled, NEW h \in Handlers, Return(h),
           More(revisions, revisions'), landed \subseteq landed',
           \A p \in Positions : diffs[p] # "none" => diffs'[p] # "none"
    PROVE  req' \in [Handlers -> Handler] /\ Handled'
BY IdleFacts, Acting DEF Return

\* A step that changes the review's status, or nothing, next to its handler.
LEMMA Quiet ==
    ASSUME Inv, NEW h \in Handlers, NEW r \in Handler,
           req' = [req EXCEPT ![h] = r], Sound(r, diffs, revisions, landed),
           review' \in ReviewStatus,
           UNCHANGED <<target, diffs, revisions, revRefs, curRefs, landed>>
    PROVE  Inv'
<1>1. More(revisions, revisions')
  BY MoreSelf
<1>2. req' \in [Handlers -> Handler] /\ Handled'
  BY <1>1, Acting DEF Inv
<1>3. Types'
  BY <1>2 DEF Inv, Types
<1>4. Stored'
  BY DEF Inv, Stored, RefsStand, Landed
<1> QED
  BY <1>2, <1>3, <1>4 DEF Inv

\* The same for a handler that returns.
LEMMA QuietReturn ==
    ASSUME Inv, NEW h \in Handlers, Return(h), review' \in ReviewStatus,
           UNCHANGED <<target, diffs, revisions, revRefs, curRefs, landed>>
    PROVE  Inv'
BY IdleFacts, Quiet DEF Return

\* What the invariant says of one handler.
LEMMA HandlerType ==
    ASSUME Inv, NEW h \in Handlers
    PROVE  req[h] \in Handler /\ Sound(req[h], diffs, revisions, landed)
BY DEF Inv, Types, Handled

\* Goto changes the program counter only.
LEMMA Going ==
    ASSUME Inv, NEW h \in Handlers, NEW pc \in Steps, Goto(h, pc)
    PROVE  /\ [req[h] EXCEPT !.pc = pc] \in Handler
           /\ req' = [req EXCEPT ![h] = [req[h] EXCEPT !.pc = pc]]
<1>1. req[h] \in Handler
  BY HandlerType
<1>2. [req[h] EXCEPT !.pc = pc] \in Handler
  BY <1>1 DEF Handler
<1>3. req' = [req EXCEPT ![h] = [req[h] EXCEPT !.pc = pc]]
  BY DEF Goto, Inv, Types
<1> QED
  BY <1>2, <1>3

\* The first row of the query for a diff's revisions is one of them.
LEMMA LatestFacts ==
    ASSUME Types, Table(revisions), NEW p \in Positions,
           Latest(p) # NoRevision
    PROVE  Latest(p) \in revisions /\ Latest(p).position = p
<1>1. PICK s \in revisions : s.position = p
  BY DEF Latest, RevisionsOf
<1>2. PICK m \in Nat : \A n \in Nat : HasRow(revisions, p, n) <=> n \in 1..m
  BY DEF Table
<1>3. \A t \in RevisionsOf(p) : t.number \in 1..m
  BY <1>2 DEF Types, Row, RevisionsOf, HasRow
<1>4. m \in 1..m
  BY <1>1, <1>3 DEF RevisionsOf
<1>5. PICK t \in RevisionsOf(p) : t.number = m
  BY <1>2, <1>4 DEF HasRow, RevisionsOf
<1>6. \A u \in RevisionsOf(p) : u.number <= t.number
  BY <1>3, <1>5
<1>7. Latest(p) \in RevisionsOf(p)
  BY <1>1, <1>6 DEF Latest, RevisionsOf
<1> QED
  BY <1>7 DEF RevisionsOf

\* What get_review_by_id returns is true when it returns.
LEMMA SnapshotFacts ==
    ASSUME Inv
    PROVE  /\ Snapshot \in Seen
           /\ \A r : r.seen = Snapshot =>
                SeenStands(r, revisions, landed) /\ SeenDiffs(r, diffs)
<1>1. ASSUME NEW p \in Positions, Latest(p) # NoRevision
      PROVE  /\ Latest(p) \in Row /\ Latest(p).position = p
             /\ Stands(revisions, p, Latest(p).number,
                       PatchOf(Latest(p).commit))
             /\ InOrder => Range(Latest(p).commit)
                    \subseteq landed \cup Reviewed(revisions, p)
  <2>1. Latest(p) \in revisions /\ Latest(p).position = p
    BY <1>1, LatestFacts DEF Inv, Stored
  <2>2. PatchOf(Latest(p).commit) \in {Latest(p).origin, Empty}
    BY <2>1 DEF Inv, Stored, Kept
  <2>3. Stands(revisions, p, Latest(p).number, PatchOf(Latest(p).commit))
    BY <2>1, <2>2 DEF Stands
  <2> QED
    BY <2>1, <2>3 DEF Inv, Types, Stored, Sources
<1>2. [p \in Positions |-> Latest(p)] \in [Positions -> Row \cup {NoRevision}]
  BY <1>1
<1>3. Snapshot \in Seen
  BY <1>2 DEF Snapshot, Seen, Inv, Types
<1>4. /\ Snapshot.diffs = diffs
      /\ \A p \in Positions : Snapshot.latest[p] = Latest(p)
  BY DEF Snapshot
<1>5. ASSUME NEW r, r.seen = Snapshot
      PROVE  SeenStands(r, revisions, landed) /\ SeenDiffs(r, diffs)
  <2> HIDE DEF Snapshot
  <2>1. SeenDiffs(r, diffs)
    BY <1>4, <1>5 DEF SeenDiffs
  <2>2. SeenStands(r, revisions, landed)
    BY <1>1, <1>4, <1>5 DEF SeenStands
  <2> QED
    BY <2>1, <2>2
<1> QED
  BY <1>3, <1>5

\* Each commit of a push begins with what is right for its position.
LEMMA VisitFacts ==
    ASSUME NEW r \in Handler, NEW i \in Nat \ {0}, NEW d, NEW R, NEW L,
           SeenStands(r, R, L), SeenDiffs(r, d),
           Len(r.commits) <= MaxDiffs,
           InOrder => \A j \in 1..Len(r.commits) : Range(r.commits[j]) \subseteq
                L \cup {PatchOf(r.commits[k]) : k \in 1..j},
           Visited(r, i, d, R),
           r.op = "merge" =>
                \A p \in DiffsToMerge(r.seen, r.upTo) :
                    r.seen.latest[p] # NoRevision,
           r.op = "publish_diff" => r.upTo \in Positions
    PROVE  Visit(r, i) \in Handler /\ Sound(Visit(r, i), d, R, L)
<1>1. Len(r.commits) \in Nat
  BY DEF Handler
<1>2. CASE i > Len(r.commits)
  <2> DEFINE q == [r EXCEPT !.pc = "head"]
  <2>1. Visit(r, i) = q
    BY <1>2 DEF Visit
  <2>2. q \in Handler
    BY DEF Handler, Steps
  <2>3. q.pc = "head" /\ q.op = r.op /\ q.seen = r.seen /\ q.upTo = r.upTo
    BY DEF Handler
  <2> HIDE DEF q
  <2>4. Sound(q, d, R, L)
    BY <2>3 DEF Sound, SeenStands, SeenDiffs, Pushing, Visiting, Merging,
                Publishing, AtCommit, AtMerge
  <2> QED
    BY <2>1, <2>2, <2>4
<1>3. CASE i <= Len(r.commits)
  <2>1. i \in 1..Len(r.commits) /\ i \in Positions
    BY <1>1, <1>3, ReviewAssumption DEF Positions
  <2>2. ASSUME NEW pc \in {"diff", "sha", "revision"},
               pc # "diff" => d[i] # "none",
               pc = "sha" =>
                    /\ r.seen.latest[i] # NoRevision
                    /\ PatchOf(r.seen.latest[i].commit) = PatchOf(r.commits[i]),
               NEW q, q = [r EXCEPT !.pc = pc, !.i = i]
        PROVE  q \in Handler /\ Sound(q, d, R, L)
    <3>1. q \in Handler
      BY <2>2 DEF Handler, Steps
    <3>2. /\ q.pc = pc /\ q.i = i /\ q.op = r.op /\ q.seen = r.seen
          /\ q.upTo = r.upTo /\ q.commits = r.commits
      BY <2>2 DEF Handler
    <3>3. SeenStands(q, R, L) /\ SeenDiffs(q, d) /\ Pushing(q, d, R, L)
      BY <3>2 DEF SeenStands, SeenDiffs, Pushing
    <3>4. Visiting(q, d, R)
      BY <2>1, <2>2, <3>2 DEF Visiting, Visited
    <3>5. Merging(q, R, L) /\ Publishing(q)
      BY <2>2, <3>2 DEF Merging, Publishing, AtMerge
    <3> QED
      BY <3>1, <3>3, <3>4, <3>5 DEF Sound
  <2>3. CASE r.seen.diffs[i] = "none"
    <3>1. Visit(r, i) = [r EXCEPT !.pc = "diff", !.i = i]
      BY <1>1, <1>3, <2>3 DEF Visit
    <3> QED
      BY <2>2, <3>1
  <2>4. CASE r.seen.diffs[i] # "none" /\ r.seen.latest[i] = NoRevision
    <3>1. Visit(r, i) = Idle
      BY <1>1, <1>3, <2>4 DEF Visit
    <3> QED
      BY <3>1, IdleFacts
  <2>5. CASE r.seen.diffs[i] # "none" /\ r.seen.latest[i] # NoRevision
    <3>1. d[i] # "none"
      BY <2>1, <2>5 DEF SeenDiffs
    <3>2. CASE PatchOf(r.seen.latest[i].commit) = PatchOf(r.commits[i])
      <4>1. Visit(r, i) = [r EXCEPT !.pc = "sha", !.i = i]
        BY <1>1, <1>3, <2>5, <3>2 DEF Visit, Handler
      <4> QED
        BY <2>2, <2>5, <3>1, <3>2, <4>1
    <3>3. CASE PatchOf(r.seen.latest[i].commit) # PatchOf(r.commits[i])
      <4>1. Visit(r, i) = [r EXCEPT !.pc = "revision", !.i = i]
        BY <1>1, <1>3, <2>5, <3>3 DEF Visit, Handler
      <4> QED
        BY <2>2, <3>1, <4>1
    <3> QED
      BY <3>2, <3>3
  <2> QED
    BY <2>3, <2>4, <2>5
<1> QED
  BY <1>1, <1>2, <1>3

-----------------------------------------------------------------------------
(* Requests that begin, read and resolve *)

\* A request that begins has read nothing yet.
LEMMA BeginStep ==
    ASSUME Inv, NEW h \in Handlers, NEW c \in Commits, NEW p \in Nat,
           NEW r \in {[Idle EXCEPT !.op = "create", !.pc = "resolve", !.new = c],
                      [Idle EXCEPT !.op = "update", !.pc = "read", !.new = c],
                      [Idle EXCEPT !.op = "merge", !.pc = "read", !.upTo = p],
                      [Idle EXCEPT !.op = "publish", !.pc = "read"],
                      [Idle EXCEPT !.op = "publish_diff", !.pc = "read",
                                   !.upTo = p]},
           r.op = "publish_diff" => p \in Positions,
           Begin(h, r)
    PROVE  Inv'
<1>1. Idle \in Handler /\ Idle.seen = NoSnapshot /\ Idle.i = 0
  BY IdleFacts DEF Idle
<1>2. r \in Handler
  BY ZenonT(60), <1>1 DEF Handler, Ops, Steps
<1>3. /\ r.seen = NoSnapshot /\ r.i = 0
      /\ r.pc \in {"resolve", "read"}
      /\ r.pc = "read" => r.op \in {"update", "merge", "publish", "publish_diff"}
      /\ r.pc = "resolve" => r.op = "create"
      /\ r.op = "publish_diff" => r.upTo \in Positions
  BY <1>1 DEF Handler
<1>4. \A q \in Positions : NoSnapshot.diffs[q] = "none"
                           /\ NoSnapshot.latest[q] = NoRevision
  BY DEF NoSnapshot
<1>5. Sound(r, diffs, revisions, landed)
  BY <1>3, <1>4
  DEF Sound, SeenStands, SeenDiffs, Pushing, Visiting, Merging, Publishing,
      AtCommit, AtMerge
<1>6. review' \in ReviewStatus
  BY DEF Begin, Rows, Inv, Types
<1> QED
  BY <1>2, <1>5, <1>6, Quiet DEF Begin, Rows, Refs

\* What an author may push is a commit.
LEMMA PushableType ==
    ASSUME Inv, NEW c \in Pushable
    PROVE  c \in Commits
<1>1. PICK n \in 0..Len(target), s \in Stacks : c = SubSeq(target, 1, n) \o s
  BY DEF Pushable
<1>2. SubSeq(target, 1, n) \in Commits
  BY SubSeqOfCommit DEF Inv, Types
<1>3. s \in Commits
  BY ReviewAssumption DEF Commits
<1> QED
  BY <1>1, <1>2, <1>3 DEF Commits

\* Reading the review, and the early returns that follow.
LEMMA ReadReviewStep ==
    ASSUME Inv, NEW h \in Handlers, ReadReview(h)
    PROVE  Inv'
<1> DEFINE r == req[h]
           pc == IF r.op \in {"update", "merge"} THEN "resolve" ELSE r.op
           q == [r EXCEPT !.seen = Snapshot, !.pc = pc]
<1>1. r \in Handler /\ Sound(r, diffs, revisions, landed) /\ r.pc = "read"
  BY HandlerType DEF ReadReview, At
<1>2. review' \in ReviewStatus
  BY DEF ReadReview, Rows, Inv, Types
<1>3. CASE ~Admits(r, Snapshot)
  BY <1>2, <1>3, QuietReturn DEF ReadReview, Rows, Refs
<1>4. CASE Admits(r, Snapshot)
  <2>1. r.op \in {"update", "merge", "publish", "publish_diff"}
    BY <1>1 DEF Sound, Publishing
  <2>2. pc \in {"resolve", "publish", "publish_diff"}
    BY <2>1
  <2>3. req' = [req EXCEPT ![h].seen = Snapshot, ![h].pc = pc]
    BY <1>4 DEF ReadReview
  <2>4. req' = [req EXCEPT ![h] = q]
    <3> HIDE DEF pc, Snapshot
    <3> QED
      BY <2>3 DEF Inv, Types
  <2>5. Snapshot \in Seen
    BY SnapshotFacts
  <2>6. q \in Handler
    <3> HIDE DEF pc, Snapshot
    <3> QED
      BY <1>1, <2>2, <2>5 DEF Handler, Steps
  <2>7. /\ q.seen = Snapshot /\ q.pc = pc /\ q.op = r.op /\ q.upTo = r.upTo
        /\ q.i = r.i
    <3> HIDE DEF pc, Snapshot
    <3> QED
      BY <1>1 DEF Handler
  <2>8. r.op = "merge" =>
            \A p \in DiffsToMerge(Snapshot, r.upTo) :
                Snapshot.latest[p] # NoRevision
    BY <1>4 DEF Admits
  <2>9. /\ r.op = "publish_diff" => r.upTo \in Positions
        /\ pc = "publish_diff" =>
            r.op = "publish_diff" /\ Snapshot.diffs[r.upTo] # "none"
    BY <1>1, <1>4, <2>1 DEF Sound, Publishing, Admits
  <2>n. r.op = "merge" => r.i = 0
    BY <1>1 DEF Sound, Merging
  <2> HIDE DEF q, pc, Snapshot
  <2>10. SeenStands(q, revisions, landed) /\ SeenDiffs(q, diffs)
    BY <2>7, SnapshotFacts
  <2>11. Pushing(q, diffs, revisions, landed) /\ Visiting(q, diffs, revisions)
    BY <2>2, <2>7 DEF Pushing, Visiting, AtCommit
  <2>12. Merging(q, revisions, landed)
    BY <2>2, <2>7, <2>8, <2>n DEF Merging, AtMerge
  <2>13. Publishing(q)
    BY <2>2, <2>7, <2>9 DEF Publishing
  <2> QED
    BY <1>2, <2>4, <2>6, <2>10, <2>11, <2>12, <2>13, Quiet
    DEF Sound, ReadReview, Rows, Refs
<1> QED
  BY <1>3, <1>4

\* Listing the commits of a push on top of the resolved target.
LEMMA ResolvePushStep ==
    ASSUME Inv, NEW h \in Handlers, ResolvePush(h)
    PROVE  Inv'
<1>0. PICK commits \in RevList(target, req[h].new) :
        /\ Len(commits) <= MaxDiffs
        /\ req' = [req EXCEPT ![h] =
                IF commits = <<>> THEN Idle
                ELSE IF req[h].op = "create"
                     THEN [req[h] EXCEPT !.commits = commits, !.parent = target,
                                         !.pc = "insert"]
                ELSE Visit([req[h] EXCEPT !.commits = commits,
                                          !.parent = target], 1)]
  BY DEF ResolvePush
<1> DEFINE r == [req[h] EXCEPT !.commits = commits, !.parent = target]
<1>1. /\ req[h] \in Handler /\ Sound(req[h], diffs, revisions, landed)
      /\ req[h].pc = "resolve" /\ req[h].op \in {"create", "update"}
  BY HandlerType DEF ResolvePush, At
<1>2. review' \in ReviewStatus
  BY DEF ResolvePush, Rows, Inv, Types
<1>3. target \in Commits /\ req[h].new \in Commits
      /\ Range(target) \subseteq landed
  BY <1>1 DEF Inv, Types, Stored, Landed, Handler
<1>4. /\ commits \in Seq(Commits)
      /\ InOrder => \A j \in 1..Len(commits) : Range(commits[j]) \subseteq
            landed \cup {PatchOf(commits[k]) : k \in 1..j}
  BY <1>3, RevListFacts
<1>5. Len(commits) <= MaxDiffs
  BY <1>0
<1>6. req' = [req EXCEPT ![h] =
                IF commits = <<>> THEN Idle
                ELSE IF req[h].op = "create" THEN [r EXCEPT !.pc = "insert"]
                ELSE Visit(r, 1)]
  BY <1>0
<1>7. /\ r \in Handler /\ r.seen = req[h].seen /\ r.op = req[h].op
      /\ r.pc = "resolve" /\ r.commits = commits
  BY <1>1, <1>3, <1>4 DEF Handler
<1> HIDE DEF r
<1>8. SeenStands(r, revisions, landed) /\ SeenDiffs(r, diffs)
  BY <1>1, <1>7 DEF Sound, SeenStands, SeenDiffs
<1>9. CASE commits = <<>>
  <2>1. Return(h)
    BY <1>6, <1>9 DEF Return
  <2> QED
    BY <1>2, <2>1, QuietReturn DEF ResolvePush, Rows, Refs
<1>10. CASE commits # <<>> /\ req[h].op = "create"
  <2> DEFINE q == [r EXCEPT !.pc = "insert"]
  <2>1. req' = [req EXCEPT ![h] = q]
    BY <1>6, <1>10
  <2>2. q \in Handler
    BY <1>7 DEF Handler, Steps
  <2>3. /\ q.pc = "insert" /\ q.op = "create" /\ q.seen = r.seen
        /\ q.commits = commits
    BY <1>7, <1>10 DEF Handler
  <2> HIDE DEF q
  <2>4. Sound(q, diffs, revisions, landed)
    BY <1>4, <1>5, <1>8, <2>3
    DEF Sound, SeenStands, SeenDiffs, Pushing, Visiting, Merging, Publishing,
        AtCommit, AtMerge
  <2> QED
    BY <1>2, <2>1, <2>2, <2>4, Quiet DEF ResolvePush, Rows, Refs
<1>11. CASE commits # <<>> /\ req[h].op = "update"
  <2>1. req' = [req EXCEPT ![h] = Visit(r, 1)]
    BY <1>6, <1>11
  <2>2. Visited(r, 1, diffs, revisions)
    BY DEF Visited
  <2>3. Visit(r, 1) \in Handler
        /\ Sound(Visit(r, 1), diffs, revisions, landed)
    BY SMTT(30), <1>4, <1>5, <1>7, <1>8, <1>11, <2>2, VisitFacts
  <2> QED
    BY <1>2, <2>1, <2>3, Quiet DEF ResolvePush, Rows, Refs
<1> QED
  BY <1>1, <1>9, <1>10, <1>11

-----------------------------------------------------------------------------
(* Pushes *)

\* A new program counter leaves the rest of a handler alone.
LEMMA PcFacts ==
    ASSUME NEW r \in Handler, NEW pc \in Steps,
           NEW q, q = [r EXCEPT !.pc = pc]
    PROVE  /\ q \in Handler
           /\ q.pc = pc /\ q.op = r.op /\ q.upTo = r.upTo /\ q.seen = r.seen
           /\ q.commits = r.commits /\ q.i = r.i /\ q.parent = r.parent
BY DEF Handler

\* A handler at a commit goes on with the same commit.
LEMMA CommitGoesOn ==
    ASSUME NEW r \in Handler, NEW d, NEW R, NEW L, Sound(r, d, R, L),
           r.pc \in AtCommit, d[r.i] # "none",
           NEW pc \in AtCommit \ {"diff"},
           pc \in {"sha", "revision_ref"} => r.pc \in {"sha", "revision_ref"},
           pc = "ref" => Stands(R, r.i, r.seen.latest[r.i].number + 1,
                                PatchOf(r.commits[r.i])),
           pc \in {"current", "reopen"} =>
                \E n \in Nat : Stands(R, r.i, n, PatchOf(r.commits[r.i])),
           NEW q, q = [r EXCEPT !.pc = pc]
    PROVE  q \in Handler /\ Sound(q, d, R, L)
<1>1. pc \in Steps
  BY DEF AtCommit, Steps
<1>2. /\ q \in Handler
      /\ q.pc = pc /\ q.op = r.op /\ q.upTo = r.upTo /\ q.seen = r.seen
      /\ q.commits = r.commits /\ q.i = r.i /\ q.parent = r.parent
  BY <1>1, PcFacts
<1>3. SeenStands(q, R, L) /\ SeenDiffs(q, d) /\ Pushing(q, d, R, L)
  BY <1>2 DEF Sound, SeenStands, SeenDiffs, Pushing
<1>4. Visiting(q, d, R)
  BY <1>2 DEF Sound, Visiting, Visited
<1>5. Merging(q, R, L)
  <2>1. pc \notin AtMerge \cup {"advance", "read", "resolve"} /\ r.pc # "read"
    BY DEF AtCommit, AtMerge
  <2>2. pc \notin {"pick", "pick_ref"}
    BY <2>1 DEF AtMerge
  <2> QED
    BY <1>2, <2>1, <2>2 DEF Sound, Merging
<1>6. Publishing(q)
  BY <1>2 DEF Sound, Publishing, AtCommit
<1> QED
  BY <1>2, <1>3, <1>4, <1>5, <1>6 DEF Sound

\* After the current ref, or the reopening, the next commit has its turn.
LEMMA CommitDone ==
    ASSUME NEW r \in Handler, NEW d, NEW R \in SUBSET Row, NEW L,
           Sound(r, d, R, L), r.pc \in {"current", "reopen"}
    PROVE  /\ Visit(r, r.i + 1) \in Handler
           /\ Sound(Visit(r, r.i + 1), d, R, L)
<1>1. r.pc \in AtCommit /\ r.pc # "diff" /\ r.pc # "read"
  BY DEF AtCommit
<1>2. Len(r.commits) \in Nat /\ r.i \in 1..Len(r.commits)
  BY <1>1 DEF Handler, Sound, Visiting
<1>3. PatchOf(r.commits[r.i]) \in Reviewed(R, r.i)
  <2>1. PICK n \in Nat : Stands(R, r.i, n, PatchOf(r.commits[r.i]))
    BY <1>1 DEF Sound, Visiting
  <2> QED
    BY <1>2, <2>1, StandsReviewed
<1>4. Visited(r, r.i + 1, d, R)
  <2>1. Visited(r, r.i, d, R) /\ d[r.i] # "none"
    BY <1>1 DEF Sound, Visiting
  <2> SUFFICES ASSUME NEW j \in 1..r.i + 1 - 1
               PROVE  /\ d[j] # "none"
                      /\ PatchOf(r.commits[j]) \in Reviewed(R, j)
    BY <1>2 DEF Visited
  <2>2. CASE j = r.i
    BY <1>3, <2>1, <2>2
  <2>3. CASE j # r.i
    <3>1. j \in 1..r.i - 1
      BY <1>2, <2>3
    <3> QED
      BY <2>1, <3>1 DEF Visited
  <2> QED
    BY <2>2, <2>3
<1>5. /\ SeenStands(r, R, L) /\ SeenDiffs(r, d)
      /\ Len(r.commits) <= MaxDiffs
      /\ InOrder => \A j \in 1..Len(r.commits) : Range(r.commits[j]) \subseteq
                L \cup {PatchOf(r.commits[k]) : k \in 1..j}
  BY <1>1 DEF Sound, Pushing
<1>6. /\ r.op = "merge" => \A p \in DiffsToMerge(r.seen, r.upTo) :
                                r.seen.latest[p] # NoRevision
      /\ r.op = "publish_diff" => r.upTo \in Positions
  BY <1>1 DEF Sound, Merging, Publishing
<1>7. r.i + 1 \in Nat \ {0}
  BY <1>2
<1> QED
  BY <1>4, <1>5, <1>6, <1>7, VisitFacts

\* Once its own patch has a revision, all of a commit is reviewed or landed, as
\* its parents were listed before it.
LEMMA CommitReviewed ==
    ASSUME NEW r \in Handler, NEW d, NEW R \in SUBSET Row, NEW L,
           Sound(r, d, R, L), r.pc \in AtCommit,
           NEW n, Stands(R, r.i, n, PatchOf(r.commits[r.i]))
    PROVE  InOrder => Range(r.commits[r.i]) \subseteq L \cup Reviewed(R, r.i)
<1>1. Len(r.commits) \in Nat /\ r.i \in 1..Len(r.commits)
  BY DEF Handler, Sound, Visiting
<1>2. InOrder => Range(r.commits[r.i]) \subseteq
            L \cup {PatchOf(r.commits[k]) : k \in 1..r.i}
  BY <1>1 DEF Sound, Pushing
<1>3. ASSUME NEW k \in 1..r.i
      PROVE  PatchOf(r.commits[k]) \in Reviewed(R, r.i)
  <2>1. CASE k = r.i
    BY <1>1, <2>1, StandsReviewed
  <2>2. CASE k # r.i
    <3>1. k \in 1..r.i - 1 /\ k \in Nat /\ r.i \in Nat /\ k <= r.i
      BY <1>1, <2>2
    <3>2. PatchOf(r.commits[k]) \in Reviewed(R, k)
      BY <3>1 DEF Sound, Visiting, Visited
    <3> QED
      BY <3>1, <3>2, ReviewedGrows
  <2> QED
    BY <2>1, <2>2
<1> QED
  BY <1>2, <1>3

\* What a handler at a commit works with.
LEMMA CommitTypes ==
    ASSUME Inv, NEW h \in Handlers, req[h].pc \in AtCommit
    PROVE  /\ req[h] \in Handler /\ Sound(req[h], diffs, revisions, landed)
           /\ req[h].i \in Positions
           /\ Commit(h) \in Commits /\ Commit(h) = req[h].commits[req[h].i]
           /\ Previous(h) \in Commits
           /\ Number(h) \in Nat
           /\ Number(h) = req[h].seen.latest[req[h].i].number
           /\ req[h].pc # "diff" => diffs[req[h].i] # "none"
<1>1. req[h] \in Handler /\ Sound(req[h], diffs, revisions, landed)
  BY HandlerType
<1>2. /\ Len(req[h].commits) \in Nat /\ Len(req[h].commits) <= MaxDiffs
      /\ req[h].i \in 1..Len(req[h].commits)
  BY <1>1 DEF Handler, Sound, Pushing, Visiting
<1>3. req[h].i \in Positions
  BY <1>2, ReviewAssumption DEF Positions
<1>4. Commit(h) \in Commits
  BY <1>1, <1>2 DEF Commit, Handler
<1>5. Previous(h) \in Commits
  <2>1. CASE req[h].i = 1
    BY <1>1, <2>1 DEF Previous, Handler
  <2>2. CASE req[h].i # 1
    <3>1. req[h].i - 1 \in 1..Len(req[h].commits)
      BY <1>2, <2>2
    <3> QED
      BY <1>1, <2>2, <3>1 DEF Previous, Handler
  <2> QED
    BY <2>1, <2>2
<1>6. Number(h) \in Nat
  <2>1. req[h].seen.latest[req[h].i] \in Row \cup {NoRevision}
    BY <1>1, <1>3 DEF Handler, Seen
  <2> QED
    BY <2>1 DEF Number, Row, NoRevision
<1> QED
  BY <1>1, <1>3, <1>4, <1>5, <1>6
  DEF Commit, Number, Sound, Visiting

\* create_review inserts the row of the review.
LEMMA InsertReviewStep ==
    ASSUME Inv, NEW h \in Handlers, InsertReview(h)
    PROVE  Inv'
<1> DEFINE r == req[h]
<1>1. /\ r \in Handler /\ Sound(r, diffs, revisions, landed)
      /\ r.pc = "insert"
  BY HandlerType DEF InsertReview, At
<1>2. req' = [req EXCEPT ![h] = Visit(r, 1)]
  BY DEF InsertReview
<1>3. review' \in ReviewStatus
  BY DEF InsertReview, ReviewStatus
<1> HIDE DEF r
<1>4. /\ SeenStands(r, revisions, landed) /\ SeenDiffs(r, diffs)
      /\ Len(r.commits) <= MaxDiffs
      /\ InOrder => \A j \in 1..Len(r.commits) : Range(r.commits[j]) \subseteq
                landed \cup {PatchOf(r.commits[k]) : k \in 1..j}
  BY <1>1 DEF Sound, Pushing
<1>5. /\ r.op = "merge" =>
            \A p \in DiffsToMerge(r.seen, r.upTo) :
                r.seen.latest[p] # NoRevision
      /\ r.op = "publish_diff" => r.upTo \in Positions
  BY <1>1 DEF Sound, Merging, Publishing
<1>6. Visited(r, 1, diffs, revisions)
  BY DEF Visited
<1>7. Visit(r, 1) \in Handler
      /\ Sound(Visit(r, 1), diffs, revisions, landed)
  <2>1. 1 \in Nat \ {0}
    OBVIOUS
  <2> QED
    BY <1>1, <1>4, <1>5, <1>6, <2>1, VisitFacts
<1> QED
  BY <1>7, <1>2, <1>3, Quiet DEF InsertReview, Refs

\* The last step of a push writes the head ref.
LEMMA SetHeadRefStep ==
    ASSUME Inv, NEW h \in Handlers, SetHeadRef(h)
    PROVE  Inv'
BY QuietReturn DEF SetHeadRef, Rows, Inv, Types

\* A diff gets a status; those before it have theirs.
LEMMA DiffWritten ==
    ASSUME Inv, NEW p \in Positions, NEW x \in DiffStatus, x # "none",
           \A q \in 1..p - 1 : diffs[q] # "none",
           diffs' = [diffs EXCEPT ![p] = x], UNCHANGED revisions
    PROVE  /\ diffs' \in [Positions -> DiffStatus]
           /\ DiffsDense(revisions', diffs')
           /\ \A q \in Positions : diffs[q] # "none" => diffs'[q] # "none"
           /\ diffs'[p] # "none"
<1>1. /\ diffs' \in [Positions -> DiffStatus]
      /\ \A q \in Positions : diffs'[q] = IF q = p THEN x ELSE diffs[q]
  BY DEF Inv, Types
<1>2. ASSUME NEW q \in Positions, diffs'[q] # "none", NEW k \in 1..q
      PROVE  diffs'[k] # "none"
  <2>1. k \in Positions
    BY ReviewAssumption DEF Positions
  <2>2. CASE k = p
    BY <1>1, <2>1, <2>2
  <2>3. CASE k # p /\ q = p
    <3>1. k \in 1..p - 1
      BY <2>3 DEF Positions
    <3> QED
      BY <1>1, <2>1, <2>3, <3>1
  <2>4. CASE k # p /\ q # p
    BY <1>1, <1>2, <2>1, <2>4 DEF Inv, Stored, DiffsDense
  <2> QED
    BY <2>2, <2>3, <2>4
<1>3. \A s \in revisions : diffs'[s.position] # "none"
  <2>1. \A s \in revisions : s.position \in Positions
    BY DEF Inv, Types, Row
  <2> QED
    BY <1>1, <2>1 DEF Inv, Stored, DiffsDense
<1>4. DiffsDense(revisions', diffs')
  BY <1>2, <1>3 DEF DiffsDense
<1> QED
  BY <1>1, <1>4

\* Only the diffs and a handler have changed.
LEMMA DiffStep ==
    ASSUME Inv, NEW h \in Handlers, NEW r \in Handler,
           req' = [req EXCEPT ![h] = r],
           Sound(r, diffs', revisions, landed),
           diffs' \in [Positions -> DiffStatus],
           DiffsDense(revisions', diffs'),
           \A q \in Positions : diffs[q] # "none" => diffs'[q] # "none",
           UNCHANGED <<review, revisions, target, revRefs, curRefs, landed>>
    PROVE  Inv'
<1>1. More(revisions, revisions')
  BY MoreSelf
<1>2. req' \in [Handlers -> Handler] /\ Handled'
  BY <1>1, Acting DEF Inv
<1>3. Types'
  BY <1>2 DEF Inv, Types
<1>4. Stored'
  BY DEF Inv, Stored, RefsStand, Landed
<1> QED
  BY <1>2, <1>3, <1>4 DEF Inv

\* create_diff adds the diff after the last one, or fails on the constraint.
LEMMA CreateDiffStep ==
    ASSUME Inv, NEW h \in Handlers, CreateDiff(h)
    PROVE  Inv'
<1>1. req[h].pc = "diff" /\ req[h].pc \in AtCommit
  BY DEF CreateDiff, At, AtCommit
<1>2. /\ req[h] \in Handler /\ Sound(req[h], diffs, revisions, landed)
      /\ req[h].i \in Positions
  BY <1>1, CommitTypes
<1>3. CASE diffs[req[h].i] = "none"
  <2>1. /\ diffs' = [diffs EXCEPT ![req[h].i] = "draft"]
        /\ Goto(h, "revision")
    BY <1>3 DEF CreateDiff
  <2>2. \A j \in 1..req[h].i - 1 : diffs[j] # "none"
    BY <1>1, <1>2 DEF Sound, Visiting, Visited
  <2>3. /\ diffs' \in [Positions -> DiffStatus]
        /\ DiffsDense(revisions', diffs')
        /\ \A q \in Positions : diffs[q] # "none" => diffs'[q] # "none"
        /\ diffs'[req[h].i] # "none"
    BY <1>2, <2>1, <2>2, DiffWritten DEF CreateDiff, DiffStatus
  <2> DEFINE q == [req[h] EXCEPT !.pc = "revision"]
  <2>4. req' = [req EXCEPT ![h] = q]
    BY <2>1, Going DEF Steps
  <2>5. Sound(req[h], diffs', revisions, landed)
    BY <1>2, <2>3, MoreSelf, SoundGrows
  <2>6. q \in Handler /\ Sound(q, diffs', revisions, landed)
    BY <1>1, <1>2, <2>3, <2>5, CommitGoesOn DEF AtCommit
  <2> QED
    BY <2>3, <2>4, <2>6, DiffStep DEF CreateDiff, Refs
<1>4. CASE diffs[req[h].i] # "none"
  BY <1>4, QuietReturn DEF CreateDiff, Refs, Inv, Types
<1> QED
  BY <1>3, <1>4

\* A new revision reopens its diff.
LEMMA ReopenStep ==
    ASSUME Inv, NEW h \in Handlers, Reopen(h)
    PROVE  Inv'
<1>1. req[h].pc = "reopen" /\ req[h].pc \in AtCommit
  BY DEF Reopen, At, AtCommit
<1>2. /\ req[h] \in Handler /\ Sound(req[h], diffs, revisions, landed)
      /\ req[h].i \in Positions /\ diffs[req[h].i] # "none"
  BY <1>1, CommitTypes
<1>3. \A j \in 1..req[h].i - 1 : diffs[j] # "none"
  BY <1>1, <1>2 DEF Sound, Visiting, Visited
<1>4. /\ diffs' \in [Positions -> DiffStatus]
      /\ DiffsDense(revisions', diffs')
      /\ \A q \in Positions : diffs[q] # "none" => diffs'[q] # "none"
  BY <1>2, <1>3, DiffWritten DEF Reopen, DiffStatus
<1>5. Sound(req[h], diffs', revisions, landed)
  BY <1>2, <1>4, MoreSelf, SoundGrows
<1>6. /\ Visit(req[h], req[h].i + 1) \in Handler
      /\ Sound(Visit(req[h], req[h].i + 1), diffs', revisions, landed)
  BY <1>1, <1>2, <1>5, CommitDone DEF Inv, Types
<1> QED
  BY <1>4, <1>6, DiffStep DEF Reopen, NextCommit, Refs

\* Only the revisions and a handler have changed.
LEMMA RowStep ==
    ASSUME Inv, NEW h \in Handlers, NEW r \in Handler,
           req' = [req EXCEPT ![h] = r],
           Sound(r, diffs, revisions', landed),
           revisions' \in SUBSET Row, Table(revisions'), Kept(revisions'),
           More(revisions, revisions'), Sources(revisions', landed),
           \A s \in revisions' : diffs[s.position] # "none",
           UNCHANGED <<review, diffs, target, revRefs, curRefs, landed>>
    PROVE  Inv'
<1>1. req' \in [Handlers -> Handler] /\ Handled'
  BY Acting DEF Inv
<1>2. Types'
  BY <1>1 DEF Inv, Types
<1>3. RefsStand'
  BY MoreStands DEF Inv, Stored, RefsStand
<1>4. DiffsDense(revisions', diffs') /\ Landed'
  BY DEF Inv, Stored, DiffsDense, Landed
<1> QED
  BY <1>1, <1>2, <1>3, <1>4 DEF Inv, Stored

\* create_revision adds the number after the one that was read, or fails on
\* the constraint because another push was faster.
LEMMA CreateRevisionStep ==
    ASSUME Inv, NEW h \in Handlers, CreateRevision(h)
    PROVE  Inv'
<1> DEFINE i == req[h].i
           n == Number(h) + 1
           row == [position |-> i, number |-> n, commit |-> Commit(h),
                   parent |-> Previous(h), origin |-> PatchOf(Commit(h))]
<1>1. req[h].pc = "revision" /\ req[h].pc \in AtCommit
  BY DEF CreateRevision, At, AtCommit
<1>2. /\ req[h] \in Handler /\ Sound(req[h], diffs, revisions, landed)
      /\ i \in Positions
      /\ Commit(h) \in Commits /\ Commit(h) = req[h].commits[req[h].i]
      /\ Previous(h) \in Commits
      /\ Number(h) \in Nat
      /\ Number(h) = req[h].seen.latest[req[h].i].number
      /\ diffs[i] # "none"
  BY <1>1, CommitTypes
<1>3. CASE RevisionExists(i, n)
  BY <1>3, QuietReturn DEF CreateRevision, Refs, Inv, Types
<1>4. CASE ~RevisionExists(i, n)
  <2>1. revisions' = revisions \cup {row} /\ Goto(h, "ref")
    BY <1>4 DEF CreateRevision
  <2>2. row \in Row
    BY <1>2, PatchOfType DEF Row
  <2>3. /\ row.position = i /\ row.number = n /\ row.commit = Commit(h)
        /\ row.origin = PatchOf(Commit(h))
    OBVIOUS
  <2> HIDE DEF row
  <2>4. ~HasRow(revisions, i, n)
    BY <1>4 DEF RevisionExists, HasRow
  <2>5. n = 1 \/ HasRow(revisions, i, n - 1)
    <3>1. CASE req[h].seen.latest[i] = NoRevision
      <4>1. Number(h) = 0
        BY <3>1 DEF Number, NoRevision
      <4> QED
        BY <4>1
    <3>2. CASE req[h].seen.latest[i] # NoRevision
      <4>1. HasRow(revisions, i, Number(h))
        BY <1>2, <3>2 DEF Sound, SeenStands, Stands, HasRow
      <4>2. Number(h) = n - 1
        BY <1>2
      <4> QED
        BY <4>1, <4>2
    <3> QED
      BY <3>1, <3>2
  <2>6. Table(revisions') /\ More(revisions, revisions')
    BY <2>1, <2>2, <2>3, <2>4, <2>5, AddRow DEF Inv, Types, Stored
  <2>7. revisions' \in SUBSET Row
    BY <2>1, <2>2 DEF Inv, Types
  <2>8. Kept(revisions') /\ \A s \in revisions' : diffs[s.position] # "none"
    BY <1>2, <2>1, <2>3 DEF Inv, Stored, Kept, DiffsDense
  <2>9. Stands(revisions', i, n, PatchOf(Commit(h)))
    BY <2>1, <2>3 DEF Stands
  <2>10. Sound(req[h], diffs, revisions', landed)
    BY <1>2, <2>6, SoundGrows
  <2>11. Sources(revisions', landed)
    <3>1. InOrder => Range(row.commit) \subseteq landed \cup Reviewed(revisions', i)
      BY <1>1, <1>2, <2>3, <2>7, <2>9, <2>10, CommitReviewed
    <3>2. InOrder => \A s \in revisions :
            Range(s.commit) \subseteq landed \cup Reviewed(revisions', s.position)
      BY <2>6, MoreReviewed DEF Inv, Stored, Sources
    <3> QED
      BY <2>1, <2>3, <3>1, <3>2 DEF Sources
  <2> DEFINE q == [req[h] EXCEPT !.pc = "ref"]
  <2>12. req' = [req EXCEPT ![h] = q]
    BY <2>1, Going DEF Steps
  <2>13. q \in Handler /\ Sound(q, diffs, revisions', landed)
    BY <1>1, <1>2, <2>9, <2>10, CommitGoesOn DEF AtCommit
  <2> QED
    BY <2>6, <2>7, <2>8, <2>11, <2>12, <2>13, RowStep DEF CreateRevision, Refs
<1> QED
  BY <1>3, <1>4

\* A revision is rewritten with a commit whose patch stands for it.
LEMMA Rewritten ==
    ASSUME Inv, NEW p \in Positions, NEW n, NEW c \in Commits,
           NEW parent \in Commits, Stands(revisions, p, n, PatchOf(c)),
           InOrder => Range(c) \subseteq landed \cup Reviewed(revisions, p),
           revisions' = WithCommit(revisions, p, n, c, parent)
    PROVE  /\ revisions' \in SUBSET Row /\ Table(revisions')
           /\ Kept(revisions') /\ More(revisions, revisions')
           /\ Sources(revisions', landed)
           /\ \A s \in revisions' : diffs[s.position] # "none"
<1>1. /\ revisions' \in SUBSET Row /\ Table(revisions')
      /\ Kept(revisions') /\ More(revisions, revisions')
      /\ More(revisions', revisions)
      /\ \A t \in revisions' : t \in revisions \/ (t.position = p /\ t.commit = c)
  BY RewriteRow DEF Inv, Types, Stored
<1>2. ASSUME InOrder, NEW t \in revisions'
      PROVE  Range(t.commit) \subseteq landed \cup Reviewed(revisions', t.position)
  <2>1. CASE t \in revisions
    BY <1>1, <1>2, <2>1, MoreReviewed DEF Inv, Stored, Sources
  <2>2. CASE t.position = p /\ t.commit = c
    BY <1>1, <1>2, <2>2, MoreReviewed
  <2> QED
    BY <1>1, <1>2, <2>1, <2>2
<1>3. \A s \in revisions' : diffs[s.position] # "none"
  BY <1>1 DEF More, Inv, Stored, DiffsDense
<1> QED
  BY <1>1, <1>2, <1>3 DEF Sources

\* update_revision_sha for an unmodified patch.
LEMMA UpdateRevisionShaStep ==
    ASSUME Inv, NEW h \in Handlers, UpdateRevisionSha(h)
    PROVE  Inv'
<1>1. req[h].pc = "sha" /\ req[h].pc \in AtCommit
  BY DEF UpdateRevisionSha, At, AtCommit
<1>2. /\ req[h] \in Handler /\ Sound(req[h], diffs, revisions, landed)
      /\ req[h].i \in Positions
      /\ Commit(h) \in Commits /\ Commit(h) = req[h].commits[req[h].i]
      /\ Previous(h) \in Commits
      /\ Number(h) = req[h].seen.latest[req[h].i].number
      /\ diffs[req[h].i] # "none"
  BY <1>1, CommitTypes
<1>3. Stands(revisions, req[h].i, Number(h), PatchOf(Commit(h)))
  <2>1. /\ req[h].seen.latest[req[h].i] # NoRevision
        /\ PatchOf(req[h].seen.latest[req[h].i].commit) = PatchOf(Commit(h))
    BY <1>1, <1>2 DEF Sound, Visiting
  <2> QED
    BY <1>2, <2>1 DEF Sound, SeenStands
<1>4. InOrder => Range(Commit(h)) \subseteq landed \cup Reviewed(revisions, req[h].i)
  BY <1>1, <1>2, <1>3, CommitReviewed DEF Inv, Types
<1>5. /\ revisions' \in SUBSET Row /\ Table(revisions')
      /\ Kept(revisions') /\ More(revisions, revisions')
      /\ Sources(revisions', landed)
      /\ \A s \in revisions' : diffs[s.position] # "none"
  BY <1>2, <1>3, <1>4, Rewritten DEF UpdateRevisionSha
<1>6. Sound(req[h], diffs, revisions', landed)
  BY <1>2, <1>5, SoundGrows
<1> DEFINE q == [req[h] EXCEPT !.pc = "revision_ref"]
<1>7. req' = [req EXCEPT ![h] = q]
  BY Going DEF UpdateRevisionSha, Steps
<1>8. q \in Handler /\ Sound(q, diffs, revisions', landed)
  BY <1>1, <1>2, <1>6, CommitGoesOn DEF AtCommit
<1> QED
  BY <1>5, <1>7, <1>8, RowStep DEF UpdateRevisionSha, Refs

\* Only the refs of diffs and a handler have changed.
LEMMA RefStep ==
    ASSUME Inv, NEW h \in Handlers, NEW r \in Handler,
           req' = [req EXCEPT ![h] = r],
           Sound(r, diffs, revisions, landed),
           revRefs' \in [Positions -> [Numbers -> Commits]],
           curRefs' \in [Positions -> Commits], RefsStand',
           UNCHANGED <<review, diffs, revisions, target, landed>>
    PROVE  Inv'
<1>1. More(revisions, revisions')
  BY MoreSelf
<1>2. req' \in [Handlers -> Handler] /\ Handled'
  BY <1>1, Acting DEF Inv
<1>3. Types'
  BY <1>2 DEF Inv, Types
<1>4. Stored'
  BY DEF Inv, Stored, Landed
<1> QED
  BY <1>2, <1>3, <1>4 DEF Inv

\* A revision ref is set to a commit that stands for the revision.
LEMMA RevisionRefSet ==
    ASSUME Inv, NEW p \in Positions, NEW n, NEW c \in Commits,
           Stands(revisions, p, n, PatchOf(c)),
           revRefs' = [revRefs EXCEPT ![p][n] = c],
           UNCHANGED <<revisions, curRefs>>
    PROVE  revRefs' \in [Positions -> [Numbers -> Commits]] /\ RefsStand'
<1>1. \A q \in Positions, k \in Numbers :
        revRefs'[q][k] = IF q = p /\ k = n THEN c ELSE revRefs[q][k]
  BY DEF Inv, Types
<1>2. revRefs' \in [Positions -> [Numbers -> Commits]]
  BY DEF Inv, Types
<1>3. RefsStand'
  BY <1>1 DEF Inv, Stored, RefsStand
<1> QED
  BY <1>2, <1>3

\* A current ref is set to a commit that stands for some revision.
LEMMA CurrentRefSet ==
    ASSUME Inv, NEW p \in Positions, NEW n \in Nat, NEW c \in Commits,
           Stands(revisions, p, n, PatchOf(c)),
           curRefs' = [curRefs EXCEPT ![p] = c],
           UNCHANGED <<revisions, revRefs>>
    PROVE  curRefs' \in [Positions -> Commits] /\ RefsStand'
<1>1. \A q \in Positions : curRefs'[q] = IF q = p THEN c ELSE curRefs[q]
  BY DEF Inv, Types
<1>2. curRefs' \in [Positions -> Commits]
  BY DEF Inv, Types
<1>3. RefsStand'
  BY <1>1 DEF Inv, Stored, RefsStand
<1> QED
  BY <1>2, <1>3

\* The ref of a new revision is created.
LEMMA CreateRevisionRefStep ==
    ASSUME Inv, NEW h \in Handlers, CreateRevisionRef(h)
    PROVE  Inv'
<1> DEFINE i == req[h].i
           n == Number(h) + 1
<1>1. req[h].pc = "ref" /\ req[h].pc \in AtCommit
  BY DEF CreateRevisionRef, At, AtCommit
<1>2. /\ req[h] \in Handler /\ Sound(req[h], diffs, revisions, landed)
      /\ i \in Positions
      /\ Commit(h) \in Commits /\ Commit(h) = req[h].commits[req[h].i]
      /\ Number(h) \in Nat
      /\ Number(h) = req[h].seen.latest[req[h].i].number
      /\ diffs[i] # "none"
  BY <1>1, CommitTypes
<1>3. Stands(revisions, i, n, PatchOf(Commit(h)))
  BY <1>1, <1>2 DEF Sound, Visiting
<1>4. CASE revRefs[i][n] = Nil
  <2>1. revRefs' = [revRefs EXCEPT ![i][n] = Commit(h)] /\ Goto(h, "current")
    BY <1>4 DEF CreateRevisionRef
  <2>2. revRefs' \in [Positions -> [Numbers -> Commits]] /\ RefsStand'
    <3> HIDE DEF i, n
    <3> QED
      BY <1>2, <1>3, <2>1, RevisionRefSet DEF CreateRevisionRef, Rows
  <2> DEFINE q == [req[h] EXCEPT !.pc = "current"]
  <2>3. req' = [req EXCEPT ![h] = q]
    BY <2>1, Going DEF Steps
  <2>4. q \in Handler /\ Sound(q, diffs, revisions, landed)
    <3>1. n \in Nat
      BY <1>2
    <3> QED
      BY <1>1, <1>2, <1>3, <3>1, CommitGoesOn DEF AtCommit
  <2> QED
    BY <2>2, <2>3, <2>4, RefStep DEF CreateRevisionRef, Rows, Inv, Types
<1>5. CASE revRefs[i][n] # Nil
  BY <1>5, QuietReturn DEF CreateRevisionRef, Rows, Inv, Types
<1> QED
  BY <1>4, <1>5

\* The ref of a rewritten revision is moved.
LEMMA UpdateRevisionRefStep ==
    ASSUME Inv, NEW h \in Handlers, UpdateRevisionRef(h)
    PROVE  Inv'
<1>1. req[h].pc = "revision_ref" /\ req[h].pc \in AtCommit
  BY DEF UpdateRevisionRef, At, AtCommit
<1>2. /\ req[h] \in Handler /\ Sound(req[h], diffs, revisions, landed)
      /\ req[h].i \in Positions
      /\ Commit(h) \in Commits /\ Commit(h) = req[h].commits[req[h].i]
      /\ Number(h) \in Nat
      /\ Number(h) = req[h].seen.latest[req[h].i].number
      /\ diffs[req[h].i] # "none"
  BY <1>1, CommitTypes
<1>3. Stands(revisions, req[h].i, Number(h), PatchOf(Commit(h)))
  <2>1. /\ req[h].seen.latest[req[h].i] # NoRevision
        /\ PatchOf(req[h].seen.latest[req[h].i].commit) = PatchOf(Commit(h))
    BY <1>1, <1>2 DEF Sound, Visiting
  <2> QED
    BY <1>2, <2>1 DEF Sound, SeenStands
<1>4. revRefs' \in [Positions -> [Numbers -> Commits]] /\ RefsStand'
  BY <1>2, <1>3, RevisionRefSet DEF UpdateRevisionRef, Rows
<1> DEFINE q == [req[h] EXCEPT !.pc = "current"]
<1>5. req' = [req EXCEPT ![h] = q]
  BY Going DEF UpdateRevisionRef, Steps
<1>6. q \in Handler /\ Sound(q, diffs, revisions, landed)
  BY <1>1, <1>2, <1>3, CommitGoesOn DEF AtCommit
<1> QED
  BY <1>4, <1>5, <1>6, RefStep DEF UpdateRevisionRef, Rows, Inv, Types

\* The current ref of the diff is created or moved.
LEMMA SetCurrentRefStep ==
    ASSUME Inv, NEW h \in Handlers, SetCurrentRef(h)
    PROVE  Inv'
<1> DEFINE i == req[h].i
<1>1. req[h].pc = "current" /\ req[h].pc \in AtCommit
  BY DEF SetCurrentRef, At, AtCommit
<1>2. /\ req[h] \in Handler /\ Sound(req[h], diffs, revisions, landed)
      /\ i \in Positions
      /\ Commit(h) \in Commits /\ Commit(h) = req[h].commits[req[h].i]
      /\ diffs[i] # "none"
  BY <1>1, CommitTypes
<1>3. PICK n \in Nat : Stands(revisions, i, n, PatchOf(Commit(h)))
  BY <1>1, <1>2 DEF Sound, Visiting
<1>4. CASE Existing(h) \/ curRefs[i] = Nil
  <2>1. curRefs' = [curRefs EXCEPT ![i] = Commit(h)]
    BY <1>4 DEF SetCurrentRef
  <2>2. curRefs' \in [Positions -> Commits] /\ RefsStand'
    BY <1>2, <1>3, <2>1, CurrentRefSet DEF SetCurrentRef, Rows
  <2>3. CASE Goto(h, "reopen")
    <3> DEFINE q == [req[h] EXCEPT !.pc = "reopen"]
    <3>1. req' = [req EXCEPT ![h] = q]
      BY <2>3, Going DEF Steps
    <3>2. q \in Handler /\ Sound(q, diffs, revisions, landed)
      BY <1>1, <1>2, <1>3, CommitGoesOn DEF AtCommit
    <3> QED
      BY <2>2, <3>1, <3>2, RefStep DEF SetCurrentRef, Rows, Inv, Types
  <2>4. CASE NextCommit(h)
    <3> DEFINE q == Visit(req[h], req[h].i + 1)
    <3>1. q \in Handler /\ Sound(q, diffs, revisions, landed)
      BY <1>1, <1>2, CommitDone DEF Inv, Types
    <3> QED
      BY <2>2, <2>4, <3>1, RefStep
      DEF NextCommit, SetCurrentRef, Rows, Inv, Types
  <2> QED
    BY <1>4, <2>3, <2>4 DEF SetCurrentRef
<1>5. CASE ~(Existing(h) \/ curRefs[i] = Nil)
  BY <1>5, QuietReturn DEF SetCurrentRef, Rows, Inv, Types
<1> QED
  BY <1>4, <1>5

-----------------------------------------------------------------------------
(* Merges *)

\* A merge goes on with another diff, or with what follows the diffs.
LEMMA MergeGoesOn ==
    ASSUME NEW r, NEW d, NEW R, NEW L, Sound(r, d, R, L),
           r.op = "merge", r.pc # "read",
           NEW q, q.seen = r.seen, q.op = r.op, q.upTo = r.upTo,
           q.pc \in AtMerge \cup {"advance", "close"},
           q.pc \in AtMerge => q.i \in DiffsToMerge(r.seen, r.upTo),
           q.pc \in {"pick", "pick_ref"} =>
                Range(q.parent) \subseteq L \cup Reviewed(R, q.i),
           q.pc = "pick_ref" =>
                \E n \in Nat : Stands(R, q.i, n, PatchOf(q.parent)),
           q.pc = "advance" /\ (InOrder \/ q.i > 0) =>
                Range(q.parent) \subseteq L \cup Reviewed(R, q.upTo)
    PROVE  Sound(q, d, R, L)
<1>1. q.pc \notin AtCommit \cup {"insert", "read", "resolve", "publish_diff"}
  BY DEF AtCommit, AtMerge
<1>2. SeenStands(q, R, L) /\ SeenDiffs(q, d)
  BY DEF Sound, SeenStands, SeenDiffs
<1>3. Pushing(q, d, R, L) /\ Visiting(q, d, R) /\ Publishing(q)
  BY <1>1 DEF Pushing, Visiting, Publishing
<1>4. Merging(q, R, L)
  BY <1>1 DEF Sound, Merging
<1> QED
  BY <1>2, <1>3, <1>4 DEF Sound

\* What a merge works with.
LEMMA MergeTypes ==
    ASSUME Inv, NEW h \in Handlers, req[h].op = "merge", req[h].pc # "read"
    PROVE  /\ req[h] \in Handler /\ Sound(req[h], diffs, revisions, landed)
           /\ \A p \in ToMerge(h) :
                /\ p \in Positions /\ p <= req[h].upTo
                /\ diffs[p] # "none"
                /\ RevisionToMerge(h, p).commit \in Commits
                /\ RevisionToMerge(h, p).position = p
                /\ RevisionToMerge(h, p).number \in Nat
                /\ Stands(revisions, p, RevisionToMerge(h, p).number,
                          PatchOf(RevisionToMerge(h, p).commit))
                /\ InOrder => Range(RevisionToMerge(h, p).commit)
                        \subseteq landed \cup Reviewed(revisions, p)
                /\ Reviewed(revisions, p)
                        \subseteq Reviewed(revisions, req[h].upTo)
<1>1. req[h] \in Handler /\ Sound(req[h], diffs, revisions, landed)
  BY HandlerType
<1>2. ASSUME NEW p \in ToMerge(h)
      PROVE  /\ p \in Positions /\ p <= req[h].upTo
             /\ diffs[p] # "none"
             /\ RevisionToMerge(h, p).commit \in Commits
             /\ RevisionToMerge(h, p).position = p
             /\ RevisionToMerge(h, p).number \in Nat
             /\ Stands(revisions, p, RevisionToMerge(h, p).number,
                       PatchOf(RevisionToMerge(h, p).commit))
             /\ InOrder => Range(RevisionToMerge(h, p).commit)
                     \subseteq landed \cup Reviewed(revisions, p)
             /\ Reviewed(revisions, p)
                     \subseteq Reviewed(revisions, req[h].upTo)
  <2>1. p \in Positions /\ p <= req[h].upTo /\ req[h].seen.diffs[p] # "none"
    BY DEF ToMerge, DiffsToMerge
  <2>2. RevisionToMerge(h, p) # NoRevision
    BY <1>1 DEF Sound, Merging, ToMerge, RevisionToMerge
  <2>3. RevisionToMerge(h, p) \in Row
    BY <1>1, <2>1, <2>2 DEF RevisionToMerge, Handler, Seen
  <2>4. p \in Nat /\ req[h].upTo \in Nat
    BY <1>1, <2>1 DEF Positions, Handler
  <2>5. Reviewed(revisions, p) \subseteq Reviewed(revisions, req[h].upTo)
    BY <2>1, <2>4, ReviewedGrows DEF Inv, Types
  <2>6. /\ RevisionToMerge(h, p).position = p
        /\ Stands(revisions, p, RevisionToMerge(h, p).number,
                  PatchOf(RevisionToMerge(h, p).commit))
        /\ InOrder => Range(RevisionToMerge(h, p).commit)
                \subseteq landed \cup Reviewed(revisions, p)
    BY <1>1, <2>1, <2>2 DEF Sound, SeenStands, RevisionToMerge
  <2>7. diffs[p] # "none"
    BY <1>1, <2>1 DEF Sound, SeenDiffs
  <2>8. RevisionToMerge(h, p).commit \in Commits
        /\ RevisionToMerge(h, p).number \in Nat
    BY <2>3 DEF Row
  <2> QED
    BY <2>1, <2>5, <2>6, <2>7, <2>8
<1> QED
  BY <1>1, <1>2

\* A merge changes its program counter and the diff it is at, nothing else.
LEMMA NextDiffFacts ==
    ASSUME Inv, NEW h \in Handlers, NEW pc \in Steps, NEW after \in Steps,
           NextDiff(h, pc, after)
    PROVE  \E q \in Handler :
                /\ req' = [req EXCEPT ![h] = q]
                /\ q.op = req[h].op /\ q.upTo = req[h].upTo
                /\ q.seen = req[h].seen /\ q.parent = req[h].parent
                /\ \/ q.pc = after
                   \/ q.pc = pc /\ q.i \in ToMerge(h) /\ q.i > req[h].i
<1>1. req[h] \in Handler
  BY HandlerType
<1>2. CASE Goto(h, after)
  <2> DEFINE q == [req[h] EXCEPT !.pc = after]
  <2>1. q \in Handler /\ req' = [req EXCEPT ![h] = q]
    BY <1>2, Going
  <2>2. /\ q.op = req[h].op /\ q.upTo = req[h].upTo /\ q.seen = req[h].seen
        /\ q.parent = req[h].parent /\ q.pc = after
    BY <1>1 DEF Handler
  <2> HIDE DEF q
  <2> QED
    BY <2>1, <2>2
<1>3. CASE \E p \in ToMerge(h) :
            /\ p > req[h].i
            /\ req' = [req EXCEPT ![h].pc = pc, ![h].i = p]
  <2>1. PICK p \in ToMerge(h) :
            /\ p > req[h].i
            /\ req' = [req EXCEPT ![h].pc = pc, ![h].i = p]
    BY <1>3
  <2>2. p \in Nat
    BY DEF ToMerge, DiffsToMerge, Positions
  <2> DEFINE q == [req[h] EXCEPT !.pc = pc, !.i = p]
  <2>3. q \in Handler
    BY <1>1, <2>2 DEF Handler
  <2>4. req' = [req EXCEPT ![h] = q]
    BY <2>1 DEF Inv, Types
  <2>5. /\ q.op = req[h].op /\ q.upTo = req[h].upTo /\ q.seen = req[h].seen
        /\ q.parent = req[h].parent /\ q.pc = pc /\ q.i = p
    BY <1>1 DEF Handler
  <2> HIDE DEF q
  <2> QED
    BY <2>1, <2>3, <2>4, <2>5
<1> QED
  BY <1>2, <1>3 DEF NextDiff

\* A merge finds that it can fast-forward, or starts to rebase.
LEMMA ResolveMergeStep ==
    ASSUME Inv, NEW h \in Handlers, ResolveMerge(h)
    PROVE  Inv'
<1>1. req[h].op = "merge" /\ req[h].pc = "resolve"
  BY DEF ResolveMerge, At
<1>2. req[h] \in Handler /\ Sound(req[h], diffs, revisions, landed)
  BY HandlerType
<1>3. PICK first, last \in ToMerge(h) :
        req' = [req EXCEPT ![h] =
            IF RevisionToMerge(h, first).parent = target
            THEN [req[h] EXCEPT !.pc = "advance",
                                !.parent = RevisionToMerge(h, last).commit]
            ELSE [req[h] EXCEPT !.pc = "pick", !.i = first, !.parent = target]]
  BY DEF ResolveMerge
<1>4. review' \in ReviewStatus
  BY DEF ResolveMerge, Rows, Inv, Types
<1>5. CASE RevisionToMerge(h, first).parent = target
  <2> DEFINE q == [req[h] EXCEPT !.pc = "advance",
                                 !.parent = RevisionToMerge(h, last).commit]
  <2>1. req' = [req EXCEPT ![h] = q]
    BY <1>3, <1>5
  <2>2. /\ RevisionToMerge(h, last).commit \in Commits
        /\ InOrder => Range(RevisionToMerge(h, last).commit)
                \subseteq landed \cup Reviewed(revisions, req[h].upTo)
    BY <1>1, MergeTypes
  <2>3. q \in Handler
    BY <1>2, <2>2 DEF Handler, Steps
  <2>4. /\ q.pc = "advance" /\ q.op = req[h].op /\ q.upTo = req[h].upTo
        /\ q.seen = req[h].seen
        /\ q.parent = RevisionToMerge(h, last).commit /\ q.i = 0
    BY <1>1, <1>2 DEF Handler, Sound, Merging
  <2> HIDE DEF q
  <2>5. Sound(q, diffs, revisions, landed)
    BY <1>1, <1>2, <2>2, <2>4, MergeGoesOn DEF AtMerge
  <2> QED
    BY <1>4, <2>1, <2>3, <2>5, Quiet DEF ResolveMerge, Rows, Refs
<1>6. CASE RevisionToMerge(h, first).parent # target
  <2> DEFINE q == [req[h] EXCEPT !.pc = "pick", !.i = first, !.parent = target]
  <2>1. req' = [req EXCEPT ![h] = q]
    BY <1>3, <1>6
  <2>2. first \in Nat /\ target \in Commits /\ Range(target) \subseteq landed
    BY DEF ToMerge, DiffsToMerge, Positions, Inv, Types, Stored, Landed
  <2>3. q \in Handler
    BY <1>2, <2>2 DEF Handler, Steps
  <2>4. /\ q.pc = "pick" /\ q.op = req[h].op /\ q.upTo = req[h].upTo
        /\ q.seen = req[h].seen /\ q.i = first /\ q.parent = target
    BY <1>2 DEF Handler
  <2> HIDE DEF q
  <2>5. Sound(q, diffs, revisions, landed)
    BY <1>1, <1>2, <1>3, <2>2, <2>4, MergeGoesOn DEF AtMerge, ToMerge
  <2> QED
    BY <1>4, <2>1, <2>3, <2>5, Quiet DEF ResolveMerge, Rows, Refs
<1> QED
  BY <1>5, <1>6

\* A rebased diff keeps its patch in the row that is rewritten.
LEMMA PickDiffStep ==
    ASSUME Inv, NEW h \in Handlers, PickDiff(h)
    PROVE  Inv'
<1> DEFINE i == req[h].i
           old == RevisionToMerge(h, i)
           new == CherryPick(old.commit, req[h].parent)
<1>1. /\ req[h] \in Handler /\ Sound(req[h], diffs, revisions, landed)
      /\ req[h].pc = "pick"
  BY HandlerType DEF PickDiff, At
<1>2. /\ req[h].op = "merge" /\ i \in ToMerge(h)
      /\ Range(req[h].parent) \subseteq landed \cup Reviewed(revisions, i)
  BY <1>1 DEF Sound, Merging, AtMerge, ToMerge
<1>3. /\ i \in Positions
      /\ old.commit \in Commits /\ old.position = i /\ old.number \in Nat
      /\ Stands(revisions, i, old.number, PatchOf(old.commit))
  BY <1>1, <1>2, MergeTypes
<1>4. req[h].parent \in Commits
  BY <1>1 DEF Handler
<1>5. CASE Return(h) /\ UNCHANGED revisions
  BY <1>5, QuietReturn DEF PickDiff, Refs, Inv, Types
<1>6. CASE /\ revisions' = WithCommit(revisions, old.position, old.number,
                                      new, req[h].parent)
           /\ req' = [req EXCEPT ![h].pc = "pick_ref", ![h].parent = new]
  <2>1. /\ new \in Commits
        /\ PatchOf(new) \in {PatchOf(old.commit), Empty}
        /\ Range(new) \subseteq Range(req[h].parent)
                                    \cup {PatchOf(old.commit), Empty}
    BY <1>3, <1>4, CherryPickFacts
  <2> HIDE DEF new
  <2>2. Stands(revisions, i, old.number, PatchOf(new))
    BY <1>3, <2>1 DEF Stands
  <2>3. PatchOf(old.commit) \in Reviewed(revisions, i)
    BY <1>3, StandsReviewed DEF Inv, Types, Positions
  <2>4. Range(new) \subseteq landed \cup Reviewed(revisions, i)
    BY <1>2, <2>1, <2>3 DEF Reviewed
  <2>5. /\ revisions' \in SUBSET Row /\ Table(revisions')
        /\ Kept(revisions') /\ More(revisions, revisions')
        /\ Sources(revisions', landed)
        /\ \A s \in revisions' : diffs[s.position] # "none"
    BY <1>3, <1>4, <1>6, <2>1, <2>2, <2>4, Rewritten
  <2> DEFINE q == [req[h] EXCEPT !.pc = "pick_ref", !.parent = new]
  <2>6. q \in Handler
    BY <1>1, <2>1 DEF Handler, Steps
  <2>7. req' = [req EXCEPT ![h] = q]
    BY <1>6 DEF Inv, Types
  <2>8. /\ q.pc = "pick_ref" /\ q.op = req[h].op /\ q.upTo = req[h].upTo
        /\ q.seen = req[h].seen /\ q.i = i /\ q.parent = new
    BY <1>1 DEF Handler
  <2> HIDE DEF q, i, old
  <2>9. Sound(req[h], diffs, revisions', landed)
    BY <1>1, <2>5, SoundGrows
  <2>10. /\ Stands(revisions', i, old.number, PatchOf(new))
         /\ Range(new) \subseteq landed \cup Reviewed(revisions', i)
    BY <2>2, <2>4, <2>5, MoreStands, MoreReviewed
  <2>11. Sound(q, diffs, revisions', landed)
    BY <1>1, <1>2, <1>3, <2>8, <2>9, <2>10, MergeGoesOn DEF AtMerge, ToMerge
  <2> QED
    BY <2>5, <2>6, <2>7, <2>11, RowStep DEF PickDiff, Refs
<1> QED
  BY <1>5, <1>6 DEF PickDiff

\* A rebased diff moves its current ref, and the next one builds on it.
LEMMA PickRefStep ==
    ASSUME Inv, NEW h \in Handlers, PickRef(h)
    PROVE  Inv'
<1> DEFINE i == req[h].i
<1>1. /\ req[h] \in Handler /\ Sound(req[h], diffs, revisions, landed)
      /\ req[h].pc = "pick_ref"
  BY HandlerType DEF PickRef, At
<1>2. /\ req[h].op = "merge" /\ i \in ToMerge(h)
      /\ Range(req[h].parent) \subseteq landed \cup Reviewed(revisions, i)
  BY <1>1 DEF Sound, Merging, AtMerge, ToMerge
<1>3. PICK n \in Nat : Stands(revisions, i, n, PatchOf(req[h].parent))
  BY <1>1 DEF Sound, Merging
<1>4. /\ i \in Positions /\ i \in Nat
      /\ Reviewed(revisions, i) \subseteq Reviewed(revisions, req[h].upTo)
  BY <1>1, <1>2, MergeTypes DEF Positions
<1>5. req[h].parent \in Commits
  BY <1>1 DEF Handler
<1>6. curRefs' \in [Positions -> Commits] /\ RefsStand'
  BY <1>3, <1>4, <1>5, CurrentRefSet DEF PickRef, Rows
<1>n. NextDiff(h, "pick", "advance") /\ "pick" \in Steps /\ "advance" \in Steps
  BY DEF PickRef, Steps
<1>7. PICK q \in Handler :
        /\ req' = [req EXCEPT ![h] = q]
        /\ q.op = req[h].op /\ q.upTo = req[h].upTo
        /\ q.seen = req[h].seen /\ q.parent = req[h].parent
        /\ \/ q.pc = "advance"
           \/ q.pc = "pick" /\ q.i \in ToMerge(h) /\ q.i > i
  BY <1>n, NextDiffFacts
<1>8. CASE q.pc = "advance"
  <2>1. Sound(q, diffs, revisions, landed)
    BY <1>1, <1>2, <1>4, <1>7, <1>8, MergeGoesOn DEF AtMerge
  <2> QED
    BY <1>6, <1>7, <2>1, RefStep DEF PickRef, Rows, Inv, Types
<1>9. CASE q.pc = "pick" /\ q.i \in ToMerge(h) /\ q.i > i
  <2>1. q.i \in Nat /\ i <= q.i
    BY <1>4, <1>9 DEF ToMerge, DiffsToMerge, Positions
  <2>2. Reviewed(revisions, i) \subseteq Reviewed(revisions, q.i)
    BY <1>4, <2>1, ReviewedGrows DEF Inv, Types
  <2>3. Sound(q, diffs, revisions, landed)
    BY <1>1, <1>2, <1>7, <1>9, <2>2, MergeGoesOn DEF AtMerge, ToMerge
  <2> QED
    BY <1>6, <1>7, <2>3, RefStep DEF PickRef, Rows, Inv, Types
<1> QED
  BY <1>7, <1>8, <1>9

\* The target branch gets the commit of the last diff.
LEMMA AdvanceTargetStep ==
    ASSUME Inv, NEW h \in Handlers, AdvanceTarget(h)
    PROVE  Inv'
<1>1. /\ req[h] \in Handler /\ Sound(req[h], diffs, revisions, landed)
      /\ req[h].pc = "advance"
  BY HandlerType DEF AdvanceTarget, At
<1>2. req[h].op = "merge" /\ req[h].parent \in Commits
  BY <1>1 DEF Sound, Merging, Handler
<1>3. PICK p \in ToMerge(h) : req' = [req EXCEPT ![h].pc = "mark", ![h].i = p]
  BY DEF AdvanceTarget
<1> DEFINE q == [req[h] EXCEPT !.pc = "mark", !.i = p]
<1>4. q \in Handler
  <2>1. p \in Nat
    BY DEF ToMerge, DiffsToMerge, Positions
  <2> QED
    BY <1>1, <2>1 DEF Handler, Steps
<1>5. req' = [req EXCEPT ![h] = q]
  BY <1>3 DEF Inv, Types
<1>6. /\ q.pc = "mark" /\ q.op = req[h].op /\ q.upTo = req[h].upTo
      /\ q.seen = req[h].seen /\ q.i = p
  BY <1>1 DEF Handler
<1> HIDE DEF q
<1>7. landed \subseteq landed' /\ Landed'
  BY DEF AdvanceTarget, Landed
<1>8. UNCHANGED <<review, diffs, revisions, revRefs, curRefs>>
  BY DEF AdvanceTarget, Rows
<1>9. More(revisions, revisions')
  BY <1>8, MoreSelf
<1>10. Sound(q, diffs', revisions', landed')
  <2>1. Sound(q, diffs, revisions, landed)
    BY <1>1, <1>2, <1>6, MergeGoesOn DEF AtMerge, ToMerge
  <2> QED
    BY <1>4, <1>7, <1>8, <1>9, <2>1, SoundGrows
<1>11. req' \in [Handlers -> Handler] /\ Handled'
  BY <1>4, <1>5, <1>7, <1>8, <1>9, <1>10, Acting DEF Inv
<1>12. Types'
  BY <1>2, <1>8, <1>11 DEF AdvanceTarget, Inv, Types
<1>13. Stored'
  BY <1>7, <1>8 DEF Inv, Stored, RefsStand, Sources
<1> QED
  BY <1>11, <1>12, <1>13 DEF Inv

\* Merged diffs are marked one by one.
LEMMA MarkMergedStep ==
    ASSUME Inv, NEW h \in Handlers, MarkMerged(h)
    PROVE  Inv'
<1> DEFINE i == req[h].i
<1>1. /\ req[h] \in Handler /\ Sound(req[h], diffs, revisions, landed)
      /\ req[h].pc = "mark"
  BY HandlerType DEF MarkMerged, At
<1>2. req[h].op = "merge" /\ i \in ToMerge(h)
  BY <1>1 DEF Sound, Merging, AtMerge, ToMerge
<1>3. i \in Positions /\ diffs[i] # "none"
  BY <1>1, <1>2, MergeTypes
<1>4. \A k \in 1..i - 1 : diffs[k] # "none"
  <2>1. \A k \in 1..i - 1 : k \in 1..i
    BY <1>3 DEF Positions
  <2> QED
    BY <1>3, <2>1 DEF Inv, Stored, DiffsDense
<1>5. /\ diffs' \in [Positions -> DiffStatus]
      /\ DiffsDense(revisions', diffs')
      /\ \A k \in Positions : diffs[k] # "none" => diffs'[k] # "none"
  BY <1>3, <1>4, DiffWritten DEF MarkMerged, DiffStatus
<1>n. NextDiff(h, "mark", "close") /\ "mark" \in Steps /\ "close" \in Steps
  BY DEF MarkMerged, Steps
<1>6. PICK q \in Handler :
        /\ req' = [req EXCEPT ![h] = q]
        /\ q.op = req[h].op /\ q.upTo = req[h].upTo
        /\ q.seen = req[h].seen /\ q.parent = req[h].parent
        /\ \/ q.pc = "close"
           \/ q.pc = "mark" /\ q.i \in ToMerge(h) /\ q.i > i
  BY <1>n, NextDiffFacts
<1>7. Sound(q, diffs, revisions, landed)
  BY <1>1, <1>2, <1>6, MergeGoesOn DEF AtMerge, ToMerge
<1>8. Sound(q, diffs', revisions, landed)
  BY <1>5, <1>7, MoreSelf, SoundGrows
<1> QED
  BY <1>5, <1>6, <1>8, DiffStep DEF MarkMerged, Refs

-----------------------------------------------------------------------------
(* The other steps, and the theorems *)

\* publish_review_diff opens a diff that was read as a draft.
LEMMA PublishReviewDiffStep ==
    ASSUME Inv, NEW h \in Handlers, PublishReviewDiff(h)
    PROVE  Inv'
<1> DEFINE p == req[h].upTo
<1>1. /\ req[h] \in Handler /\ Sound(req[h], diffs, revisions, landed)
      /\ req[h].pc = "publish_diff"
  BY HandlerType DEF PublishReviewDiff, At
<1>2. p \in Positions /\ diffs[p] # "none"
  BY <1>1 DEF Sound, Publishing, SeenDiffs
<1>3. \A k \in 1..p - 1 : diffs[k] # "none"
  <2>1. \A k \in 1..p - 1 : k \in 1..p
    BY <1>2 DEF Positions
  <2> QED
    BY <1>2, <2>1 DEF Inv, Stored, DiffsDense
<1>4. /\ diffs' \in [Positions -> DiffStatus]
      /\ DiffsDense(revisions', diffs')
      /\ \A k \in Positions : diffs[k] # "none" => diffs'[k] # "none"
  BY <1>2, <1>3, DiffWritten DEF PublishReviewDiff, DiffStatus
<1>5. Idle \in Handler /\ Sound(Idle, diffs', revisions, landed)
  BY IdleFacts
<1> QED
  BY <1>4, <1>5, DiffStep DEF PublishReviewDiff, Return, Refs

\* Somebody else pushes to the target branch.
LEMMA PushTargetStep ==
    ASSUME Inv, PushTarget
    PROVE  Inv'
<1>1. PICK p \in DirectPatches :
        target' = Append(target, p) /\ landed' = landed \cup {p}
  BY DEF PushTarget
<1>2. p \in Patches
  BY DEF Patches
<1>3. UNCHANGED <<review, diffs, revisions, revRefs, curRefs, req>>
  BY DEF PushTarget, Rows
<1>4. target' \in Commits /\ Range(target') \subseteq Range(target) \cup {p}
  BY <1>1, <1>2 DEF Inv, Types, Commits, Range
<1>5. Types'
  BY <1>3, <1>4 DEF Inv, Types
<1>6. Landed'
  BY <1>1, <1>4 DEF Inv, Stored, Landed
<1>7. Stored'
  BY <1>1, <1>3, <1>6 DEF Inv, Stored, RefsStand, Sources
<1>8. Handled'
  BY <1>1, <1>3, MoreSelf, SoundGrows DEF Inv, Types, Handled
<1> QED
  BY <1>5, <1>7, <1>8 DEF Inv

\* Every request begins in one of the ways of BeginStep.
LEMMA StartStep ==
    ASSUME Inv, NEW h \in Handlers,
           \/ StartCreate(h) \/ StartUpdate(h) \/ StartMerge(h)
           \/ StartPublish(h) \/ StartPublishDiff(h)
    PROVE  Inv'
<1>1. Idle \in Handler /\ Nil \in Commits /\ 0 \in Nat
  BY IdleFacts DEF Nil, Commits
<1>2. CASE StartCreate(h)
  <2>1. PICK c \in Pushable :
            Begin(h, [Idle EXCEPT !.op = "create", !.pc = "resolve", !.new = c])
    BY <1>2 DEF StartCreate
  <2>2. [Idle EXCEPT !.op = "create", !.pc = "resolve", !.new = c].op = "create"
    BY <1>1 DEF Handler
  <2> QED
    BY <1>1, <2>1, <2>2, PushableType, BeginStep
<1>3. CASE StartUpdate(h)
  <2>1. PICK c \in Pushable :
            Begin(h, [Idle EXCEPT !.op = "update", !.pc = "read", !.new = c])
    BY <1>3 DEF StartUpdate
  <2>2. [Idle EXCEPT !.op = "update", !.pc = "read", !.new = c].op = "update"
    BY <1>1 DEF Handler
  <2> QED
    BY <1>1, <2>1, <2>2, PushableType, BeginStep
<1>4. CASE StartMerge(h)
  <2>1. PICK p \in Positions :
            Begin(h, [Idle EXCEPT !.op = "merge", !.pc = "read", !.upTo = p])
    BY <1>4 DEF StartMerge
  <2>2. [Idle EXCEPT !.op = "merge", !.pc = "read", !.upTo = p].op = "merge"
    BY <1>1 DEF Handler
  <2>3. p \in Nat
    BY DEF Positions
  <2> QED
    BY <1>1, <2>1, <2>2, <2>3, BeginStep
<1>5. CASE StartPublish(h)
  <2>1. [Idle EXCEPT !.op = "publish", !.pc = "read"].op = "publish"
    BY <1>1 DEF Handler
  <2> QED
    BY <1>1, <1>5, <2>1, BeginStep DEF StartPublish
<1>6. CASE StartPublishDiff(h)
  <2>1. PICK p \in Positions :
            Begin(h, [Idle EXCEPT !.op = "publish_diff", !.pc = "read",
                                  !.upTo = p])
    BY <1>6 DEF StartPublishDiff
  <2>2. p \in Nat
    BY DEF Positions
  <2> QED
    BY <1>1, <2>1, <2>2, BeginStep
<1> QED
  BY <1>2, <1>3, <1>4, <1>5, <1>6

\* Steps that end a request without touching diffs, revisions or refs.
LEMMA FinishStep ==
    ASSUME Inv, NEW h \in Handlers,
           CloseReview(h) \/ PublishReview(h) \/ Die(h)
    PROVE  Inv'
<1>1. /\ Return(h)
      /\ UNCHANGED <<target, diffs, revisions, revRefs, curRefs, landed>>
  BY DEF CloseReview, PublishReview, Die, Rows, Refs
<1>2. review' \in ReviewStatus
  BY DEF CloseReview, PublishReview, Die, Rows, Inv, Types, ReviewStatus
<1> QED
  BY <1>1, <1>2, QuietReturn

\* Every step of every handler, and of the environment, keeps the invariant.
THEOREM StepInv == Inv /\ [Next]_vars => Inv'
<1> SUFFICES ASSUME Inv, [Next]_vars
             PROVE  Inv'
  OBVIOUS
<1>1. CASE UNCHANGED vars
  BY <1>1 DEF vars, Inv, Types, Stored, RefsStand, Landed, Handled
<1>2. CASE PushTarget
  BY <1>2, PushTargetStep
<1>3. ASSUME NEW h \in Handlers,
             \/ StartCreate(h) \/ StartUpdate(h) \/ StartMerge(h)
             \/ StartPublish(h) \/ StartPublishDiff(h)
             \/ ReadReview(h)
             \/ ResolvePush(h) \/ InsertReview(h) \/ CreateDiff(h)
             \/ CreateRevision(h) \/ CreateRevisionRef(h)
             \/ UpdateRevisionSha(h) \/ UpdateRevisionRef(h)
             \/ SetCurrentRef(h) \/ Reopen(h) \/ SetHeadRef(h)
             \/ ResolveMerge(h) \/ PickDiff(h) \/ PickRef(h)
             \/ AdvanceTarget(h) \/ MarkMerged(h) \/ CloseReview(h)
             \/ PublishReview(h) \/ PublishReviewDiff(h)
             \/ Die(h)
      PROVE  Inv'
  BY <1>3, StartStep, ReadReviewStep, ResolvePushStep, InsertReviewStep,
     CreateDiffStep, CreateRevisionStep, CreateRevisionRefStep,
     UpdateRevisionShaStep, UpdateRevisionRefStep, SetCurrentRefStep,
     ReopenStep, SetHeadRefStep, ResolveMergeStep, PickDiffStep, PickRefStep,
     AdvanceTargetStep, MarkMergedStep, FinishStep, PublishReviewDiffStep
<1> QED
  BY <1>1, <1>2, <1>3 DEF Next

\* The inductive invariant holds throughout.
THEOREM ReviewInv == Spec => []Inv
BY InitInv, StepInv, PTL DEF Spec

\* The numbers of a diff's revisions count them.
LEMMA NumbersDense ==
    ASSUME Inv, NEW p \in Positions
    PROVE  {r.number : r \in RevisionsOf(p)} = 1..Cardinality(RevisionsOf(p))
<1> DEFINE T == RevisionsOf(p)
<1>1. PICK m \in Nat : \A n \in Nat : HasRow(revisions, p, n) <=> n \in 1..m
  BY DEF Inv, Stored, Table
<1>2. /\ \A r \in T : r.number \in 1..m
      /\ \A n \in 1..m : \E r \in T : r.number = n
  BY <1>1 DEF HasRow, RevisionsOf, Inv, Types, Row
<1>3. \A r, s \in T : r.number = s.number => r = s
  BY DEF RevisionsOf, Inv, Stored, Table
<1> HIDE DEF T
<1> DEFINE f == [n \in 1..m |-> CHOOSE r \in T : r.number = n]
<1>4. f \in Bijection(1..m, T)
  <2>1. \A n \in 1..m : f[n] \in T /\ f[n].number = n
    BY <1>2
  <2>2. f \in [1..m -> T]
    BY <2>1
  <2> HIDE DEF f
  <2>3. \A i, j \in 1..m : f[i] = f[j] => i = j
    BY <2>1
  <2>4. \A r \in T : \E n \in 1..m : f[n] = r
    BY <1>2, <1>3, <2>1
  <2> QED
    BY <2>2, <2>3, <2>4 DEF Bijection, Injection, Surjection, IsInjective
<1>5. IsFiniteSet(1..m) /\ Cardinality(1..m) = m
  BY <1>1, FS_Interval
<1>6. Cardinality(T) = m
  <2>1. ExistsBijection(1..m, T)
    BY <1>4 DEF ExistsBijection
  <2> QED
    BY <1>5, <2>1, FS_Bijection
<1>7. {r.number : r \in T} = 1..m
  BY <1>2
<1> QED
  BY <1>6, <1>7 DEF T

\* Concurrent and half-done pushes leave diffs 1..m and revisions 1..n: for
\* every number of handlers, requests and commits.
THEOREM RowsDenseCorrect == Spec => []RowsDense
<1>1. Inv => RowsDense
  BY NumbersDense DEF Inv, Stored, DiffsDense, RowsDense, RevisionsOf
<1> QED
  BY <1>1, ReviewInv, PTL

\* No push or merge that rewrites a revision in place changes its patch.
THEOREM RevisionKeepsPatchCorrect == Spec => []RevisionKeepsPatch
<1>1. Inv => RevisionKeepsPatch
  BY DEF Inv, Stored, Kept, RevisionKeepsPatch
<1> QED
  BY <1>1, ReviewInv, PTL

\* Refs and rows, written by separate calls, agree on the patch.
THEOREM RefsMatchRevisionsCorrect == Spec => []RefsMatchRevisions
<1>1. Inv => RefsMatchRevisions
  BY DEF Inv, Stored, RefsStand, Stands, RefsMatchRevisions, RevisionsOf
<1> QED
  BY <1>1, ReviewInv, PTL

\* A merge brings to the target only what was reviewed up to its position, as
\* long as the dates of commits increase from parent to child: rev_list sorts by
\* nothing else.
THEOREM MergeStopsAtPositionCorrect ==
    ASSUME InOrder
    PROVE  Spec => MergeStopsAtPosition
<1>1. ASSUME Inv, NEW h \in Handlers, AdvanceTarget(h)
      PROVE  StaysBelow(h)
  <2>1. target' = req[h].parent /\ req[h].pc = "advance"
    BY <1>1 DEF AdvanceTarget, At
  <2>2. Range(target') \subseteq landed \cup Reviewed(revisions, req[h].upTo)
    BY <1>1, <2>1, HandlerType DEF Sound, Merging
  <2> QED
    BY <2>2 DEF Reviewed, StaysBelow
<1>2. Inv => [\A h \in Handlers : AdvanceTarget(h) => StaysBelow(h)]_vars
  BY <1>1
<1> QED
  BY <1>2, ReviewInv, PTL DEF MergeStopsAtPosition

\* A merge that rebases keeps to its position in any order of the commits.
THEOREM RebaseStopsAtPositionCorrect == Spec => RebaseStopsAtPosition
<1>1. ASSUME Inv, NEW h \in Handlers, AdvanceTarget(h), req[h].i > 0
      PROVE  StaysBelow(h)
  <2>1. target' = req[h].parent /\ req[h].pc = "advance"
    BY <1>1 DEF AdvanceTarget, At
  <2>2. Range(target') \subseteq landed \cup Reviewed(revisions, req[h].upTo)
    BY <1>1, <2>1, HandlerType DEF Sound, Merging
  <2> QED
    BY <2>2 DEF Reviewed, StaysBelow
<1>2. Inv => [\A h \in Handlers :
                AdvanceTarget(h) /\ req[h].i > 0 => StaysBelow(h)]_vars
  BY <1>1
<1> QED
  BY <1>2, ReviewInv, PTL DEF RebaseStopsAtPosition

-----------------------------------------------------------------------------
(* Revision numbers are bounded by the requests: a request creates one      *)
(* revision per position at most.                                           *)

\* The request may still create a revision at position p.
Creating(r, p) ==
    \/ r.pc \in {"read", "resolve"} /\ r.op \in {"create", "update"}
    \/ r.pc = "insert"
    \/ r.pc \in AtCommit /\ r.i < p
    \/ r.pc \in {"diff", "revision"} /\ r.i = p

Creators(p) == {h \in Handlers : Creating(req[h], p)}

\* The requests that have created the revisions at p, and those that still may.
Counted ==
    /\ started \in 0..MaxRequests /\ landed \subseteq Patches /\ headRef \in Commits
    /\ \A p \in Positions :
        /\ IsFiniteSet(Creators(p)) /\ Cardinality(Creators(p)) <= started
        /\ \A n \in Nat : HasRow(revisions, p, n) =>
            n + Cardinality(Creators(p)) <= started

\* A step of one handler that adds no row and no creator.
LEMMA CountStays ==
    ASSUME Counted, NEW h \in Handlers, started' = started, landed' \subseteq Patches,
           headRef' \in Commits,
           \A p \in Positions, n \in Nat :
                HasRow(revisions', p, n) => HasRow(revisions, p, n),
           \A g \in Handlers : g # h => req'[g] = req[g],
           \A p \in Positions : Creating(req'[h], p) => Creating(req[h], p)
    PROVE  Counted'
<1>1. started' \in 0..MaxRequests /\ started \in Nat
  BY DEF Counted
<1>2. ASSUME NEW p \in Positions
      PROVE  /\ IsFiniteSet(Creators(p)') /\ Cardinality(Creators(p)') <= started'
             /\ \A n \in Nat : HasRow(revisions', p, n) =>
                    n + Cardinality(Creators(p)') <= started'
  <2>1. Creators(p)' \subseteq Creators(p)
    BY DEF Creators
  <2>2. /\ IsFiniteSet(Creators(p)) /\ Cardinality(Creators(p)) <= started
        /\ \A n \in Nat : HasRow(revisions, p, n) =>
                n + Cardinality(Creators(p)) <= started
    BY DEF Counted
  <2>3. /\ IsFiniteSet(Creators(p)')
        /\ Cardinality(Creators(p)') <= Cardinality(Creators(p))
    BY <2>1, <2>2, FS_Subset
  <2>4. Cardinality(Creators(p)') \in Nat /\ Cardinality(Creators(p)) \in Nat
    BY <2>2, <2>3, FS_CardinalityType
  <2> QED
    BY <1>1, <2>2, <2>3, <2>4
<1> QED
  BY <1>1, <1>2 DEF Counted

\* A request that begins may create revisions, and counts.
LEMMA CountBegin ==
    ASSUME Inv, Counted, NEW h \in Handlers, NEW r, Begin(h, r)
    PROVE  Counted'
<1>1. /\ started \in Nat /\ started' = started + 1 /\ started' \in 0..MaxRequests
      /\ UNCHANGED <<revisions, landed, headRef>> /\ landed \subseteq Patches
      /\ headRef \in Commits
      /\ \A g \in Handlers : g # h => req'[g] = req[g]
  BY ReviewAssumption DEF Begin, Counted, Rows, Refs, Inv, Types
<1>2. ASSUME NEW p \in Positions
      PROVE  /\ IsFiniteSet(Creators(p)') /\ Cardinality(Creators(p)') <= started'
             /\ \A n \in Nat : HasRow(revisions', p, n) =>
                    n + Cardinality(Creators(p)') <= started'
  <2>1. Creators(p)' \subseteq Creators(p) \cup {h}
    BY <1>1 DEF Creators
  <2>2. /\ IsFiniteSet(Creators(p)) /\ Cardinality(Creators(p)) <= started
        /\ \A n \in Nat : HasRow(revisions, p, n) =>
                n + Cardinality(Creators(p)) <= started
    BY DEF Counted
  <2>3. /\ IsFiniteSet(Creators(p) \cup {h})
        /\ Cardinality(Creators(p)) \in Nat
        /\ Cardinality(Creators(p) \cup {h}) <= Cardinality(Creators(p)) + 1
    <3> DEFINE S == Creators(p)
    <3>1. IsFiniteSet(S) /\ Cardinality(S) \in Nat
      BY <2>2, FS_CardinalityType
    <3> HIDE DEF S
    <3>2. /\ IsFiniteSet(S \cup {h})
          /\ Cardinality(S \cup {h}) =
                IF h \in S THEN Cardinality(S) ELSE Cardinality(S) + 1
      BY <3>1, FS_AddElement
    <3>3. Cardinality(S \cup {h}) <= Cardinality(S) + 1
      BY <3>1, <3>2
    <3> QED
      BY <3>1, <3>2, <3>3 DEF S
  <2>4. /\ IsFiniteSet(Creators(p)')
        /\ Cardinality(Creators(p)') <= Cardinality(Creators(p) \cup {h})
    BY <2>1, <2>3, FS_Subset
  <2>5. Cardinality(Creators(p)') \in Nat /\ Cardinality(Creators(p) \cup {h}) \in Nat
    BY <2>3, <2>4, FS_CardinalityType
  <2> QED
    BY <1>1, <2>2, <2>3, <2>4, <2>5
<1> QED
  BY <1>1, <1>2 DEF Counted

\* A new revision has the number after one that was read, and its request
\* creates no other at this position.
LEMMA CountCreateRevision ==
    ASSUME Inv, Counted, NEW h \in Handlers, CreateRevision(h)
    PROVE  Counted'
<1> DEFINE i == req[h].i
           k == Number(h)
<1>1. /\ req[h] \in Handler /\ Sound(req[h], diffs, revisions, landed)
      /\ req[h].pc = "revision" /\ started' = started /\ landed' = landed
      /\ landed \subseteq Patches /\ headRef' = headRef /\ headRef \in Commits
  BY HandlerType DEF CreateRevision, At, Refs, Counted
<1>2. /\ i \in Positions /\ i \in Nat /\ k \in Nat
      /\ req[h].seen.latest[i] \in Row \cup {NoRevision}
  <2>1. Len(req[h].commits) \in Nat /\ i \in 1..Len(req[h].commits)
        /\ Len(req[h].commits) <= MaxDiffs
    BY <1>1 DEF Sound, Visiting, Pushing, AtCommit, Handler
  <2>2. i \in Positions
    BY <2>1, ReviewAssumption DEF Positions
  <2>3. req[h].seen.latest[i] \in Row \cup {NoRevision}
    BY <1>1, <2>2 DEF Handler, Seen
  <2> QED
    BY <2>1, <2>2, <2>3 DEF Number, Row, NoRevision
<1>3. \A g \in Handlers : g # h => req'[g] = req[g]
  BY DEF CreateRevision, Return, Goto, Inv, Types
<1>4. \A p \in Positions : Creating(req'[h], p) => Creating(req[h], p) /\ p # i
  <2>1. req'[h] = Idle \/ req'[h] = [req[h] EXCEPT !.pc = "ref"]
    BY DEF CreateRevision, Return, Goto, Inv, Types
  <2>2. CASE req'[h] = Idle
    BY <2>2 DEF Creating, Idle, AtCommit
  <2>3. CASE req'[h] = [req[h] EXCEPT !.pc = "ref"]
    <3>1. req'[h].pc = "ref" /\ req'[h].i = i /\ req'[h].op = req[h].op
      BY <1>1, <2>3 DEF Handler
    <3> QED
      BY <1>1, <1>2, <3>1 DEF Creating, AtCommit, Positions
  <2> QED
    BY <2>1, <2>2, <2>3
<1>5. CASE revisions' = revisions
  BY <1>1, <1>3, <1>4, <1>5, CountStays
<1>6. CASE revisions' = revisions \cup
                {[position |-> i, number |-> k + 1,
                  commit |-> Commit(h), parent |-> Previous(h),
                  origin |-> PatchOf(Commit(h))]}
  <2>1. \A p, n : HasRow(revisions', p, n) =>
            HasRow(revisions, p, n) \/ (p = i /\ n = k + 1)
    BY <1>6 DEF HasRow
  <2>2. started \in Nat /\ started' \in 0..MaxRequests
    BY <1>1 DEF Counted
  <2>3. ASSUME NEW p \in Positions
        PROVE  /\ IsFiniteSet(Creators(p)') /\ Cardinality(Creators(p)') <= started'
               /\ \A n \in Nat : HasRow(revisions', p, n) =>
                    n + Cardinality(Creators(p)') <= started'
    <3>1. /\ IsFiniteSet(Creators(p)) /\ Cardinality(Creators(p)) <= started
          /\ \A n \in Nat : HasRow(revisions, p, n) =>
                n + Cardinality(Creators(p)) <= started
      BY DEF Counted
    <3>2. Creators(p)' \subseteq Creators(p)
      BY <1>3, <1>4 DEF Creators
    <3>3. /\ IsFiniteSet(Creators(p)')
          /\ Cardinality(Creators(p)') <= Cardinality(Creators(p))
          /\ Cardinality(Creators(p)') \in Nat /\ Cardinality(Creators(p)) \in Nat
      BY <3>1, <3>2, FS_Subset, FS_CardinalityType
    <3>4. CASE p # i
      BY <1>1, <2>1, <2>2, <3>1, <3>3, <3>4
    <3>5. CASE p = i
      <4>1. h \in Creators(p) /\ h \notin Creators(p)'
        BY <1>1, <1>4, <1>6, <3>5 DEF Creators, Creating
      <4>2. Creators(p)' \subseteq Creators(p) \ {h}
        BY <3>2, <4>1
      <4>3. /\ IsFiniteSet(Creators(p) \ {h})
            /\ Cardinality(Creators(p) \ {h}) = Cardinality(Creators(p)) - 1
        BY <3>1, <4>1, FS_RemoveElement
      <4>4. Cardinality(Creators(p)') <= Cardinality(Creators(p)) - 1
        BY <4>2, <4>3, FS_Subset
      <4>5. k + Cardinality(Creators(p)) <= started
        <5>1. CASE req[h].seen.latest[i] = NoRevision
          BY <2>2, <3>1, <3>3, <5>1 DEF Number, NoRevision
        <5>2. CASE req[h].seen.latest[i] # NoRevision
          <6>1. HasRow(revisions, i, k)
            BY <1>1, <1>2, <5>2 DEF Sound, SeenStands, Stands, HasRow, Number
          <6> QED
            BY <1>2, <3>1, <3>5, <6>1
        <5> QED
          BY <5>1, <5>2
      <4>6. k + 1 + Cardinality(Creators(p)') <= started
        BY <1>2, <2>2, <3>3, <4>4, <4>5
      <4> HIDE DEF k, i
      <4>7. ASSUME NEW n \in Nat, HasRow(revisions', p, n)
            PROVE  n + Cardinality(Creators(p)') <= started
        <5>1. HasRow(revisions, p, n) \/ n = k + 1
          BY <2>1, <4>7
        <5>2. CASE HasRow(revisions, p, n)
          BY <2>2, <3>1, <3>3, <5>2
        <5>3. CASE n = k + 1
          BY <4>6, <5>3
        <5> QED
          BY <5>1, <5>2, <5>3
      <4> QED
        BY <1>1, <2>2, <3>1, <3>3, <4>7
    <3> QED
      BY <3>4, <3>5
  <2> QED
    BY <1>1, <2>2, <2>3 DEF Counted
<1> QED
  BY <1>5, <1>6 DEF CreateRevision

\* A push that turns to its i-th commit has none to create before it.
LEMMA VisitCreating ==
    ASSUME NEW r \in Handler, NEW i \in Nat, NEW p \in Nat,
           Creating(Visit(r, i), p)
    PROVE  i <= p
<1>1. \/ Visit(r, i) = [r EXCEPT !.pc = "head"]
      \/ Visit(r, i) = Idle
      \/ \E pc \in {"diff", "sha", "revision"} :
            Visit(r, i) = [r EXCEPT !.pc = pc, !.i = i]
  BY DEF Visit
<1>2. CASE Visit(r, i) = [r EXCEPT !.pc = "head"]
  BY <1>2 DEF Creating, AtCommit, Handler
<1>3. CASE Visit(r, i) = Idle
  BY <1>3 DEF Creating, AtCommit, Idle
<1>4. ASSUME NEW pc \in {"diff", "sha", "revision"},
             Visit(r, i) = [r EXCEPT !.pc = pc, !.i = i]
      PROVE  i <= p
  <2>1. Visit(r, i).pc = pc /\ Visit(r, i).i = i
    BY <1>4 DEF Handler
  <2> QED
    BY <2>1 DEF Creating
<1> QED
  BY <1>1, <1>2, <1>3, <1>4

\* A step inside the visit of a commit makes no creator.
LEMMA GotoCreating ==
    ASSUME Inv, NEW h \in Handlers, NEW pc \in AtCommit \ {"diff"}, Goto(h, pc),
           req[h].pc \in AtCommit, pc = "revision" => req[h].pc = "diff",
           NEW p \in Positions, Creating(req'[h], p)
    PROVE  Creating(req[h], p)
<1>1. req'[h].pc = pc /\ req'[h].i = req[h].i
  BY DEF Goto, Inv, Types, Handler
<1> QED
  BY <1>1 DEF Creating, AtCommit

\* The steps of a request that create no revision.
LEMMA CountOther ==
    ASSUME Inv, Inv', Counted, NEW h \in Handlers,
           \/ ReadReview(h)
           \/ ResolvePush(h) \/ InsertReview(h) \/ CreateDiff(h)
           \/ CreateRevisionRef(h) \/ UpdateRevisionSha(h)
           \/ UpdateRevisionRef(h) \/ SetCurrentRef(h) \/ Reopen(h)
           \/ SetHeadRef(h) \/ ResolveMerge(h) \/ PickDiff(h) \/ PickRef(h)
           \/ AdvanceTarget(h) \/ MarkMerged(h) \/ CloseReview(h)
           \/ PublishReview(h) \/ PublishReviewDiff(h) \/ Die(h)
    PROVE  Counted'
<1>1. /\ req[h] \in Handler /\ Types /\ Types' /\ landed \subseteq Patches
      /\ headRef \in Commits
  BY HandlerType DEF Inv, Counted
<1>2. started' = started
  BY DEF ReadReview, ResolvePush, InsertReview, CreateDiff, CreateRevisionRef,
     UpdateRevisionSha, UpdateRevisionRef, SetCurrentRef, Reopen, SetHeadRef,
     ResolveMerge, PickDiff, PickRef, AdvanceTarget, MarkMerged, CloseReview,
     PublishReview, PublishReviewDiff, Die
<1>3. landed' \subseteq Patches
  <2>1. Range(target') \subseteq Patches
    BY <1>1 DEF Types, Commits, Range
  <2> QED
    BY <1>1, <2>1 DEF ReadReview, ResolvePush, InsertReview, CreateDiff,
       CreateRevisionRef, UpdateRevisionSha, UpdateRevisionRef, SetCurrentRef,
       Reopen, SetHeadRef, ResolveMerge, PickDiff, PickRef, AdvanceTarget,
       MarkMerged, CloseReview, PublishReview, PublishReviewDiff, Die
<1>h. headRef' \in Commits
  BY <1>1 DEF ReadReview, ResolvePush, InsertReview, CreateDiff, Refs,
     CreateRevisionRef, UpdateRevisionSha, UpdateRevisionRef, SetCurrentRef,
     Reopen, SetHeadRef, ResolveMerge, PickDiff, PickRef, AdvanceTarget,
     MarkMerged, CloseReview, PublishReview, PublishReviewDiff, Die, Handler
<1>4. \A p \in Positions, n \in Nat :
        HasRow(revisions', p, n) => HasRow(revisions, p, n)
  <2>1. CASE revisions' = revisions
    BY <2>1
  <2>2. CASE \E p, n, c, q : revisions' = WithCommit(revisions, p, n, c, q)
    <3>1. \A s \in revisions' : \E t \in revisions :
            s.position = t.position /\ s.number = t.number
      BY <1>1, <2>2 DEF WithCommit, Types, Row
    <3> QED
      BY <3>1 DEF HasRow
  <2>3. revisions' = revisions
        \/ \E p, n, c, q : revisions' = WithCommit(revisions, p, n, c, q)
    BY DEF ReadReview, ResolvePush, InsertReview, CreateDiff, Rows,
       CreateRevisionRef, UpdateRevisionSha, UpdateRevisionRef, SetCurrentRef,
       Reopen, SetHeadRef, ResolveMerge, PickDiff, PickRef, AdvanceTarget,
       MarkMerged, CloseReview, PublishReview, PublishReviewDiff, Die
  <2> QED
    BY <2>1, <2>2, <2>3
<1>5. \A g \in Handlers : g # h => req'[g] = req[g]
  <2>1. \E q : req' = [req EXCEPT ![h] = q]
    BY <1>1 DEF ReadReview, ResolvePush, InsertReview, CreateDiff, Return, Goto,
       NextCommit, NextDiff, CreateRevisionRef, UpdateRevisionSha,
       UpdateRevisionRef, SetCurrentRef, Reopen, SetHeadRef, ResolveMerge,
       PickDiff, PickRef, AdvanceTarget, MarkMerged, CloseReview,
       PublishReview, PublishReviewDiff, Die
  <2> QED
    BY <1>1, <2>1 DEF Types
<1>6. \A p \in Positions : Creating(req'[h], p) => Creating(req[h], p)
  <2>1. /\ req'[h] \in Handler /\ req[h].i \in Nat
        /\ \A p \in Positions : p \in Nat
        /\ \A q : req' = [req EXCEPT ![h] = q] => req'[h] = q
    BY <1>1 DEF Types, Positions, Handler
  <2>2. CASE Return(h)
    <3>1. req'[h] = Idle
      BY <2>1, <2>2 DEF Return
    <3> QED
      BY <3>1 DEF Creating, Idle, AtCommit
  <2>4. CASE ReadReview(h) /\ ~Return(h)
    <3>1. /\ req[h].pc = "read" /\ req'[h].op = req[h].op
          /\ req'[h].pc = IF req[h].op \in {"update", "merge"} THEN "resolve"
                          ELSE req[h].op
      BY <1>1, <2>4 DEF ReadReview, At, Types, Handler
    <3>2. req[h].op \in Ops
      BY <1>1 DEF Handler
    <3> QED
      BY <3>1, <3>2 DEF Creating, Ops, AtCommit
  <2>5. CASE ResolvePush(h) \/ InsertReview(h)
    BY <2>5 DEF ResolvePush, InsertReview, At, Creating
  <2>6. CASE (CreateDiff(h) \/ CreateRevisionRef(h)) /\ ~Return(h)
    <3>1. \/ req[h].pc = "diff" /\ Goto(h, "revision")
          \/ req[h].pc = "ref" /\ Goto(h, "current")
      BY <2>6 DEF CreateDiff, CreateRevisionRef, At
    <3> QED
      BY <3>1, GotoCreating DEF AtCommit
  <2>7. CASE UpdateRevisionSha(h) \/ UpdateRevisionRef(h)
    <3>1. \/ req[h].pc = "sha" /\ Goto(h, "revision_ref")
          \/ req[h].pc = "revision_ref" /\ Goto(h, "current")
      BY <2>7 DEF UpdateRevisionSha, UpdateRevisionRef, At
    <3> QED
      BY <3>1, GotoCreating DEF AtCommit
  <2>8. CASE (SetCurrentRef(h) \/ Reopen(h)) /\ ~Return(h)
    <3>1. /\ req[h].pc \in {"current", "reopen"}
          /\ \/ req[h].pc = "current" /\ Goto(h, "reopen")
             \/ NextCommit(h)
      BY <2>8 DEF SetCurrentRef, Reopen, At
    <3>2. CASE req[h].pc = "current" /\ Goto(h, "reopen")
      BY <3>2, GotoCreating DEF AtCommit
    <3>3. CASE NextCommit(h)
      <4>1. req'[h] = Visit(req[h], req[h].i + 1)
        BY <2>1, <3>3 DEF NextCommit
      <4>2. \A p \in Positions : Creating(req'[h], p) => req[h].i + 1 <= p
        BY <1>1, <2>1, <4>1, VisitCreating
      <4> QED
        BY <2>1, <3>1, <4>2 DEF Creating, AtCommit
    <3> QED
      BY <3>1, <3>2, <3>3
  <2>9. CASE /\ ~Return(h)
             /\ \/ ResolveMerge(h) \/ PickDiff(h) \/ PickRef(h)
                \/ AdvanceTarget(h) \/ MarkMerged(h)
    <3>1. req'[h].pc \in {"advance", "pick", "pick_ref", "mark", "close"}
      <4>1. CASE ResolveMerge(h)
        <5>1. PICK q : /\ req' = [req EXCEPT ![h] = q]
                       /\ \E c : q \in {[req[h] EXCEPT !.pc = "advance", !.parent = c],
                                        [req[h] EXCEPT !.pc = "pick", !.i = c,
                                                       !.parent = target]}
          <6>1. PICK first, last \in ToMerge(h) : req' = [req EXCEPT ![h] =
                    IF RevisionToMerge(h, first).parent = target
                    THEN [req[h] EXCEPT !.pc = "advance",
                                        !.parent = RevisionToMerge(h, last).commit]
                    ELSE [req[h] EXCEPT !.pc = "pick", !.i = first, !.parent = target]]
            BY <4>1 DEF ResolveMerge
          <6> QED
            BY <6>1
        <5>2. q.pc \in {"advance", "pick"}
          BY <1>1, <5>1 DEF Handler
        <5> QED
          BY <2>1, <5>1, <5>2
      <4>2. CASE PickDiff(h) /\ ~Return(h)
        BY <1>1, <4>2 DEF PickDiff, Types, Handler
      <4>3. CASE AdvanceTarget(h)
        BY <1>1, <4>3 DEF AdvanceTarget, Types, Handler
      <4>4. ASSUME NEW pc \in Steps, NEW after \in Steps, NextDiff(h, pc, after)
            PROVE  req'[h].pc \in {pc, after}
        BY <1>1, <4>4 DEF NextDiff, Goto, Types, Handler
      <4>5. CASE PickRef(h) \/ MarkMerged(h)
        BY <4>4, <4>5 DEF PickRef, MarkMerged, Steps
      <4> QED
        BY <2>9, <4>1, <4>2, <4>3, <4>5
    <3> QED
      BY <3>1 DEF Creating, AtCommit
  <2> QED
    BY <2>2, <2>4, <2>5, <2>6, <2>7, <2>8, <2>9
    DEF SetHeadRef, CloseReview, PublishReview, PublishReviewDiff, Die
<1> QED
  BY <1>2, <1>3, <1>h, <1>4, <1>5, <1>6, CountStays

THEOREM CountStep == Inv /\ Counted /\ [Next]_vars => Counted'
<1> SUFFICES ASSUME Inv, Counted, [Next]_vars
             PROVE  Counted'
  OBVIOUS
<1>1. Inv'
  BY StepInv
<1>2. CASE UNCHANGED vars
  BY <1>2 DEF vars, Counted, Creators
<1>3. CASE PushTarget
  <2>1. /\ UNCHANGED <<revisions, req, started, headRef>>
        /\ landed' \subseteq landed \cup DirectPatches
    BY <1>3 DEF PushTarget, Rows
  <2> QED
    BY <2>1 DEF Counted, Creators, Patches
<1>4. ASSUME NEW h \in Handlers,
             \/ StartCreate(h) \/ StartUpdate(h) \/ StartMerge(h)
             \/ StartPublish(h) \/ StartPublishDiff(h)
      PROVE  Counted'
  BY <1>4, CountBegin DEF StartCreate, StartUpdate, StartMerge, StartPublish,
     StartPublishDiff
<1> QED
  BY <1>1, <1>2, <1>3, <1>4, CountCreateRevision, CountOther DEF Next

\* Types of the rows, refs and handlers, for any number of requests: above
\* all, no revision number exceeds the number of requests.
THEOREM ReviewTypeCorrect == Spec => []TypeOK
<1>1. Init => Counted
  <2> SUFFICES ASSUME Init
               PROVE  Counted
    OBVIOUS
  <2>1. \A p : Creators(p) = {}
    BY DEF Init, Creators, Creating, Idle, AtCommit
  <2>2. \A p, n : ~HasRow(revisions, p, n)
    BY DEF Init, HasRow
  <2> QED
    <3>1. IsFiniteSet({}) /\ Cardinality({}) = 0
      BY FS_EmptySet
    <3>2. started = 0 /\ landed = {} /\ headRef \in Commits /\ 0 \in 0..MaxRequests
      BY ReviewAssumption DEF Init, Nil, Commits
    <3> QED
      BY <2>1, <2>2, <3>1, <3>2 DEF Counted
<1>2. Inv /\ Counted => TypeOK
  <2> SUFFICES ASSUME Inv, Counted
               PROVE  TypeOK
    OBVIOUS
  <2>1. ASSUME NEW r \in revisions
        PROVE  r \in Revision
    <3>1. r \in Row /\ HasRow(revisions, r.position, r.number)
      BY DEF Inv, Types, HasRow
    <3>2. /\ r.number \in Nat \ {0} /\ r.position \in Positions
          /\ started \in 0..MaxRequests
      BY <3>1 DEF Row, Counted
    <3>3. /\ IsFiniteSet(Creators(r.position))
          /\ r.number + Cardinality(Creators(r.position)) <= started
      BY <3>1, <3>2 DEF Counted
    <3>4. Cardinality(Creators(r.position)) \in Nat
      BY <3>3, FS_CardinalityType
    <3>5. r.number \in Numbers
      BY <3>2, <3>3, <3>4, ReviewAssumption DEF Numbers
    <3> QED
      BY <3>1, <3>5 DEF Row, Revision
  <2>2. ASSUME NEW h \in Handlers
        PROVE  /\ req[h].op \in Ops
               /\ req[h].new \in Commits /\ req[h].parent \in Commits
               /\ req[h].commits \in Seq(Commits)
               /\ req[h].seen.diffs \in [Positions -> DiffStatus]
    BY DEF Inv, Types, Handler, Seen
  <2>3. /\ target \in Commits /\ review \in ReviewStatus
        /\ diffs \in [Positions -> DiffStatus]
        /\ revRefs \in [Positions -> [Numbers -> Commits]]
        /\ curRefs \in [Positions -> Commits]
        /\ headRef \in Commits
        /\ started \in 0..MaxRequests /\ landed \subseteq Patches
    BY DEF Inv, Types, Counted
  <2> QED
    BY <2>1, <2>2, <2>3 DEF TypeOK, Ops
<1> QED
  BY <1>1, <1>2, CountStep, InitInv, StepInv, PTL DEF Spec
=============================================================================
