CONSTANTS
    Names <- FourNames
    Predefined <- ThreePredefined
    Features <- OneFeature
    Kindless <- OneKindless
    Weight <- OneWeight
    NoHandler = NoHandler
    Handlers = {handler}
    FixedMax = 2
    SleepStates = {0, 3, 5}
    Situations <- MalformedSleep
    MaxStarts = 1
SPECIFICATION LSpec
INVARIANT EntersGivenState
CHECK_DEADLOCK FALSE
