\* A handler allocation that fails leaves the mutex held, and AML may wait for
\* a handler that evaluates AML: the system may stop.
CONSTANTS
    t1 = t1
    t2 = t2
    dev = dev
    f = f
    g = g
    h1 = h1
    h2 = h2
    w1 = w1
    w2 = w2
    Root = Root
    None = None
    Threads <- TwoThreads
    Devices <- OneDevice
    Callbacks <- TwoCallbacks
    Cells <- TwoHandlers
    Works <- TwoWorks
    MaxCalls = 4
    MaxFaults = 1
    Evaluating <- OneEvaluating
SPECIFICATION FairSpec
INVARIANTS HandlersSound DeliveredExactly
PROPERTY NotifyHeard
CHECK_DEADLOCK FALSE
