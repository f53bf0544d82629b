SPECIFICATION Spec
CONSTANTS
    Hooks = {h1}
    MaxPushes = 2
    MaxRestarts = 1
    CanFail = TRUE
INVARIANT FailedIsRedelivered
CHECK_DEADLOCK FALSE
