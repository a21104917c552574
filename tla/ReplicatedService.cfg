SPECIFICATION Spec
CONSTANTS
    k1 = k1
    o1 = o1
    o2 = o2
    Modes <- BothModes
    Keys <- OneKey
    Sole = k1
    Observers <- TwoObservers
    ObserveWhileRebinding = FALSE
    MaxLives = 2
    MaxSeq = 2
    MaxRevision = 3
INVARIANTS TypeOK NoGap OneSubscription HandlersFollow
PROPERTIES ReadyMeansSubscribed ImplementsReplication
CHECK_DEADLOCK FALSE
