SPECIFICATION FairSpec
CONSTANTS
    ServerHB = FALSE
    ClientHB = FALSE
    MaxSend <- TwoOne
    QueueBound = 2
    TimerBound = 2
    WireCap = 2
    BigMsgs <- NoBig
    MayCut = FALSE
INVARIANTS
    OneReader
    Framed
    InOrder
PROPERTIES
    QuietAfterClose
    Delivered
    CloseSpreads
