SPECIFICATION Spec
CONSTANTS
    ServerHB = TRUE
    ClientHB = TRUE
    MaxSend <- ClientOne
    QueueBound = 2
    TimerBound = 2
    WireCap = 2
    BigMsgs <- NoBig
    MayCut = FALSE
INVARIANT HeartbeatStops
