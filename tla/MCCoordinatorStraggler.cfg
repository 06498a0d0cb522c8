SPECIFICATION FairSpec
CONSTANTS
    a = a
    b = b
    d = d
    c1 = c1
    c2 = c2
    bad = bad
    Default = Default
    Worker <- Trio
    Cookie <- Places
    cookieOf <- StrangerCookie
    MayCrash = FALSE
CHECK_DEADLOCK FALSE
PROPERTY StopsClean
