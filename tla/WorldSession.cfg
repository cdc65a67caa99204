SPECIFICATION Spec
CONSTANTS
    MaxConns = 3
    MaxSessions = 2
    MaxQueued = 1
    MaxHolders = 1
CHECK_DEADLOCK FALSE
INVARIANTS
    TypeOK
    SocketOwnership
    NoStaleTimer
PROPERTIES
    PlayerLeaves
    RequestAnswered
