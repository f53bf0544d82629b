SPECIFICATION Spec
CONSTANTS
    a = a
    b = b
    c = c
    x = x
    h1 = h1
    h2 = h2
    Empty = Empty
    Handlers = {h1}
    DirectPatches = {}
    Stacks <- MCStack
    Conflicts <- MCConflicts
    MaxRequests = 5
    MaxDiffs = 2
    CanFail = FALSE
    InOrder = FALSE
PROPERTY MergeStopsAtPosition

CHECK_DEADLOCK FALSE
