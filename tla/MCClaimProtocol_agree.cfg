CONSTANTS
    s1 = s1
    s2 = s2
    s3 = s3
    Sessions = {s1, s2}
    Ids <- TwoIds
    Nonce <- TwoNonces
    OldId = 8
    HandoffId = 9
    Branches = {1}
    Strangers = {FALSE}
    StaleAge = 2
    HumanGated = FALSE
    MaxSec = 3
    MaxLog = 4
SPECIFICATION Spec
CHECK_DEADLOCK FALSE
INVARIANTS
    ResolversAgree
