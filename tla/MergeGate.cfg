CONSTANTS
    agent = agent
    person = person
    bot = bot
    check = check
    primary = primary
    nobody = nobody
    Scenes = {"comments", "thread", "checks", "claim", "wait", "sole-owner", "two-owners"}
    MaxHeads = 2
    MaxTime = 3
    MaxWords = 3
    MaxRuns = 2
SPECIFICATION FairSpec
CHECK_DEADLOCK FALSE
INVARIANTS
    NothingUnseen
    AnsweredOneByOne
    MergedOnItsChecks
    AdminOnlyForSoleOwner
PROPERTIES
    MergeableIsMerged
