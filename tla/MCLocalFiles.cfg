CONSTANTS
    Procs = {p1, p2, p3}
    None = None
    s1 = s1
    s2 = s2
    c1 = c1
    c2 = c2
    Absent = Absent
    Malformed = Malformed
    plain = plain
    nonced = nonced
    n1 = n1
    Calls = {plain, nonced, fill}
    Op <- MCOp
    Sessions = {s1, s2}
    ClaimIds = {c1, c2}
    Claim <- MCClaim
    MaxAttempts = 2
    Nonces = {n1}
    NoNonce = NoNonce
    Fill = Fill
    Unusable = Unusable
    Directory = Directory
SPECIFICATION SpecAll
CHECK_DEADLOCK FALSE
INVARIANTS
    ExitLosesNothing
    NoStrangerKilled
PROPERTIES
    ImplementsMutex
    LockIsKept
    ImplementsRecord
    DeadlineHolds
    CallsEnd
