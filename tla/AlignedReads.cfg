CONSTANTS
    None = None
    Requests <- MCRequests
    Worlds <- MCWorlds
    MaxMoves = 1
    MaxErrors = 1
SPECIFICATION SafeSpec
INVARIANT AlignedReadsAgree
CHECK_DEADLOCK FALSE
