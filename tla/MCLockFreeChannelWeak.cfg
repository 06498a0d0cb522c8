CONSTANTS
    m1 = m1
    m2 = m2
    None = None
    Message <- MCMessage
    NoMessage = None
    buffer_size = 3
    Reorders = TRUE
SPECIFICATION RingFairSpec
PROPERTY RingFifoSpec
