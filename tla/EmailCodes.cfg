SPECIFICATION Spec
CONSTANTS
    Users = {u1, u2}
    Emails = {e1, e2}
    Codes = {c1, c2}
    Handlers = {h1, h2}
    MaxAttempts = 2
    None = None
SYMMETRY Symmetry
INVARIANTS TypeOK GuessBudget LoginOwnsAddress
PROPERTIES ImplementsOneTimeCode
