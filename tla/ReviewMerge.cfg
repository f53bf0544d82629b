SPECIFICATION Spec
CONSTANTS
    a = a
    b = b
    c = c
    x = x
    h1 = h1
    h2 = h2
    Empty = Empty
    Handlers = {h1}
    DirectPatches = {x}
    Stacks <- MCStacks
    Conflicts <- MCConflicts
    MaxRequests = 4
    MaxDiffs = 2
    CanFail = FALSE
    InOrder = TRUE
PROPERTY BranchOnlyAdvances

CHECK_DEADLOCK FALSE
