SPECIFICATION Spec
CONSTANTS
    Tokens = {t1, t2, t3}
    Requests = {r1, r2, r3}
    Users = {u1}
    None = None
    CanFail = TRUE
    Evicts = FALSE
SYMMETRY Symmetry
INVARIANTS TypeOK OneLivePerFamily IdempotentReplay
PROPERTIES DeadFamilyStaysDead DeletedUserGetsNoSession OrphanedOnlyByFailure
