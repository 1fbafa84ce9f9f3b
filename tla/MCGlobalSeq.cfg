CONSTANTS
    t1 = t1
    t2 = t2
    Threads <- TwoThreads
    NoThread = NoThread
    HasLock = TRUE
    MaxSpins = 3
    MaxSeq = 3
    MaxDepth = 2
SPECIFICATION Spec
INVARIANT ReturnedSeqValid
