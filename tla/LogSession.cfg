SPECIFICATION FairSpec
CONSTANTS
    p1 = p1
    p2 = p2
    blue = blue
    Producers = {p1, p2}
    Unset = Unset
    NoToken = NoToken
    Scripts <- MCScripts
    MaxSeq = 40
    InflightMax = 3
    MaxLag = 1
    MaxRetries = 2
    StallPastDormancy = FALSE
INVARIANTS TypeOK AckedIsDurable RejectionIsDurable SessionOrder ReaderSeesLog TrimmedOnlyIfAsked NoRecordsPastTail NobodyForgotten
PROPERTIES ImplementsLog EventuallyAnswered EventuallyDelivered
CHECK_DEADLOCK FALSE
