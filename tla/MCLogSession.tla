--------------------------- MODULE MCLogSession ---------------------------
EXTENDS LogSession

CONSTANTS p1, p2, blue

Batch(kind, n, arg, tok, match) == [kind |-> kind, n |-> n, arg |-> arg, tok |-> tok, match |-> match]

Data(n) == Batch("data", n, Unset, Unset, -1)
DataUnder(tok) == Batch("data", 1, Unset, tok, -1)
DataAt(n, seq) == Batch("data", n, Unset, Unset, seq)
Fence(tok) == Batch("fence", 1, tok, Unset, -1)
FenceAt0(tok) == Batch("fence", 1, tok, Unset, 0)
TrimTo(point) == Batch("trim", 1, point, Unset, -1)
Delete == Batch("terminal", 1, MaxSeq, Unset, -1)

Retrying(in) == [all |-> TRUE, in |-> in]
Careful(in) == [all |-> FALSE, in |-> in]

\* A writer is fenced off by another one; two writers race for sequence
\* numbers; a stream is trimmed, beyond its end too, and deleted; a reader
\* follows a writer.
Case(reads, bound, one, two) == [read |-> reads, faults |-> bound, of |-> p1 :> one @@ p2 :> two]

MCScripts == {
    Case(FALSE, 2, Retrying(<<Data(2), DataUnder(NoToken)>>), Careful(<<FenceAt0(blue)>>)),
    Case(FALSE, 1, Retrying(<<Fence(blue), DataUnder(blue)>>), Retrying(<<DataUnder(NoToken)>>)),
    Case(FALSE, 2, Careful(<<DataAt(2, 0), DataAt(1, 2)>>), Careful(<<DataAt(2, 0)>>)),
    Case(FALSE, 1, Retrying(<<TrimTo(3), Data(2)>>), Careful(<<TrimTo(2)>>)),
    Case(TRUE, 1, Retrying(<<Data(1)>>), Careful(<<Delete>>)),
    Case(TRUE, 1, Retrying(<<Data(1), Data(2), Data(1)>>), Careful(<<>>)) }
===========================================================================
