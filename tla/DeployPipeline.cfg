SPECIFICATION FairSpec
CONSTANTS
    NumTypes = 2
    Text <- RestoringText
    MaxEdits = 1
    MaxDay = 1
    MaxPushes = 1
    MaxQueue = 1
INVARIANTS
    FetchComplete
PROPERTIES
    SkippedOnlyWhenCurrent
    NeverGoesBack
    SiteCatchesUp
CHECK_DEADLOCK FALSE
