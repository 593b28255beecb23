CONSTANTS
    agent = agent
    person = person
    primary = primary
    nobody = nobody
    actions = actions
    check = check
    Scenes = {"review", "twins", "companion", "push", "waiver", "claim", "mixed"}
    MaxHeads = 2
    MaxWords = 1
    MaxReviews = 2
    MaxTicks = 3
    MaxChanges = 6
SPECIFICATION FairSpec
CHECK_DEADLOCK FALSE
INVARIANTS
    VerdictWasTrueOnce
    StaleRunsAreReported
PROPERTIES
    SettledTurnsGreen
