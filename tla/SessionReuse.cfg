SPECIFICATION ReuseSpec
CONSTANTS
    Tokens = {t1, t2, t3}
    Requests = {r1, r2}
    Users = {u1}
    None = None
    CanFail = FALSE
    Evicts = FALSE
INVARIANT ReusedFamilyIsRevoked
