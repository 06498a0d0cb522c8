SPECIFICATION Spec
CONSTANTS
    ServerHB = FALSE
    ClientHB = FALSE
    MaxSend <- ServerThree
    QueueBound = 3
    TimerBound = 3
    WireCap = 2
    BigMsgs <- NoBig
    MayCut = FALSE
INVARIANT InOrder
