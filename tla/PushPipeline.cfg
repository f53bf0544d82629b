SPECIFICATION FairSpec
CONSTANTS
    Hooks = {h1, h2}
    MaxPushes = 3
    MaxRestarts = 1
    CanFail = TRUE
INVARIANTS TypeOK SkippedOnlyIfFailed DuplicatesOnlyByRestart
PROPERTIES CommitNeverRegresses ImplementsChannel EventuallyHandled
CHECK_DEADLOCK FALSE
