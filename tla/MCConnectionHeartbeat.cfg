SPECIFICATION FairSpec
CONSTANTS
    ServerHB = TRUE
    ClientHB = TRUE
    MaxSend <- ClientOne
    QueueBound = 1
    TimerBound = 2
    WireCap = 1
    BigMsgs <- NoBig
    MayCut = TRUE
INVARIANTS
    WriteHeld
    WriterAlive
    ClosedIsQuiet
    EventsOnce
PROPERTIES
    LostPeerDetected
