SPECIFICATION Spec
CONSTANTS
    Sessions = {"s1", "s2", "s3"}
    Posters = {"me", "other"}
    MaxHeads = 2
INVARIANTS
    AcceptanceMasksNothing
CHECK_DEADLOCK FALSE
