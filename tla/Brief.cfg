CONSTANTS
    None = None
    Requests <- MCRequests
    Worlds <- MCWorlds
    MaxMoves = 1
    MaxErrors = 1
SPECIFICATION Spec
INVARIANTS EverySectionAccounted OppositionOutweighed
PROPERTY AlwaysAnswered
CHECK_DEADLOCK FALSE
