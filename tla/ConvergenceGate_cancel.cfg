CONSTANTS
    agent = agent
    person = person
    primary = primary
    nobody = nobody
    actions = actions
    check = check
    Scenes = {"push"}
    MaxHeads = 2
    MaxWords = 1
    MaxReviews = 2
    MaxTicks = 3
    MaxChanges = 6
SPECIFICATION Spec
CHECK_DEADLOCK FALSE
PROPERTIES
    InFlightRunSurvives
