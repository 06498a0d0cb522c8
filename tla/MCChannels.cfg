CONSTANTS
    s1 = s1
    s2 = s2
    r1 = r1
    r2 = r2
    m1 = m1
    m2 = m2
    None = None
    Sender <- MCSender
    Receiver <- MCReceiver
    Message <- MCMessage
    NoMessage = None
    QueueBound = 3
    buffer_size = 3
    Reorders = FALSE
SPECIFICATION ChannelsSpec
INVARIANTS
    NoLostWakeup
PROPERTIES
    FifoSpec
    NobodySleepsOn
    RingFifoSpec
    CallsReturn
