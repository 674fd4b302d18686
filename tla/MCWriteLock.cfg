\* Three threads under fairness: bursts of two, one re-entry.
SPECIFICATION FairSpec
CONSTANTS
    t1 = t1
    t2 = t2
    t3 = t3
    NoThread = NoThread
    Threads <- MCThreeThreads
    MaxHeartbeatBurst = 2
    MaxSendBurst = 2
    MaxDepth = 2
INVARIANTS
    NextIsAwake
    BoundedOvertaking
PROPERTIES
    EveryWaiterEnters
