CONSTANTS
    t1 = t1
    t2 = t2
    main = main
    EmptyString = EmptyString
    None = None
    Thread <- MCThread
    owner = main
    Sender <- MCSender
    Level <- MCLevel
    min_level = 1
    Marker = EmptyString
    Message <- MCMessage
    NoMessage = None
    QueueBound = 4
    MaxRecords = 3
SPECIFICATION FairSpec
CHECK_DEADLOCK FALSE
INVARIANTS
    NoLostWakeup
    NothingLost
    StopDrains
PROPERTIES
    FifoSpec
    StopReturns
    Written
