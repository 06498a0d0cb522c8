CONSTANTS
    f1 = f1
    f2 = f2
    f3 = f3
    f4 = f4
    null = null
    Letter <- MCLetter
    MaxName = 4
    MaxLabel = 3
    INT_MAX = 99999
    Byte = 16
    sizeof_size_t = 2
    sizeof_int = 2
    min_capacity = 3
    Func <- MCFunc
    mangled <- Mangled
    ArgTypes <- MCArgTypes
    nullptr = null
    Null = null
    saved <- create_string
    loaded <- create_from_string
    Buffers <- MCBuffers
    MaxExes = 3
    MaxBlocks = 3
    MaxRaw = 2
    Strings <- MCStrings
    Lines <- MCLines
    Tokens <- MCTokens
    Ports <- MCPorts
    Bytes <- MCBytes
    Messages <- MCMessages
    Values <- MCValues
    Args <- MCArgs
SPECIFICATION ProgramSpec
CHECK_DEADLOCK FALSE
INVARIANT StartChecked
