CONSTANTS
    Names <- FourNames
    Predefined <- ThreePredefined
    Features <- OneFeature
    Kindless <- OneKindless
    Weight <- OneWeight
    NoHandler = NoHandler
    Handlers = {handler}
    FixedMax = 2
    SleepStates = {0, 3, 5}
    Situations <- MCSituations
    MaxStarts = 2
SPECIFICATION LSpec
INVARIANTS ResetRestores LocksExist SleepsAsTold
PROPERTY ImplementsPromise
CHECK_DEADLOCK FALSE
