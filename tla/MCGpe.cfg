CONSTANTS
    Gpes = {1, 2}
    Boots <- MCBoots
    HandlerKinds <- MCKinds
    LoadedAml <- MCLoadedAml
    Slots = {w1}
    Devices = {dev}
    NoDevice = NoDevice
    None = None
    MaxUsers = 2
    MaxCalls = 3
    MaxFires = 1
    MaxFaults = 1
SPECIFICATION FairSpec
INVARIANTS BlockSound EnabledAsAsked
PROPERTY StormEnds
CHECK_DEADLOCK FALSE
