SPECIFICATION Spec
CONSTANTS
    MaxItems = 3
    Interval = 3
    NoTimer = NoTimer
PROPERTIES
    ResumesWhereVisitorLeft
CHECK_DEADLOCK FALSE
