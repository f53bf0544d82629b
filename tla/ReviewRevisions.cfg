SPECIFICATION MCSpec
CONSTANTS
    a = a
    b = b
    c = c
    x = x
    h1 = h1
    h2 = h2
    Empty = Empty
    Handlers = {h1, h2}
    DirectPatches = {x}
    Stacks <- MCStacks
    Conflicts <- MCFirstConflicts
    MaxRequests = 3
    MaxDiffs = 2
    CanFail = TRUE
    InOrder = FALSE
SYMMETRY HandlerSymmetry
INVARIANTS
    TypeOK
    RowsDense
    RevisionKeepsPatch
    RefsMatchRevisions
PROPERTY RebaseStopsAtPosition

CHECK_DEADLOCK FALSE
