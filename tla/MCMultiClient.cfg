SPECIFICATION FairSpec
CONSTANTS
    a = a
    b = b
    s0 = s0
    s1 = s1
    Client <- Clients
    Server <- Servers
    Model = {"sort", "chat"}
    address_book <- Book
    MaxSend <- Sends
    Mortal <- Crashing
CHECK_DEADLOCK FALSE
INVARIANTS
    BooksAgree
    NoNullPointer
    SortRunsClean
PROPERTIES
    ExchangeSpec
    Answered
    SortDone
