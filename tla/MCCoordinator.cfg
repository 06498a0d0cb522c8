SPECIFICATION FairSpec
CONSTANTS
    a = a
    b = b
    d = d
    c1 = c1
    c2 = c2
    bad = bad
    Default = Default
    Worker <- Trio
    Cookie <- Places
    cookieOf <- TwinCookie
    MayCrash = TRUE
CHECK_DEADLOCK FALSE
INVARIANTS
    CookiesOnce
    NoUnexpectedMessage
PROPERTIES
    RendezvousSpec
    Meeting
    StopLetsGo
    WorkersLetGo
