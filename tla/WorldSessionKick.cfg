SPECIFICATION Spec
CONSTANTS
    MaxConns = 1
    MaxSessions = 1
    MaxQueued = 1
    MaxHolders = 1
CHECK_DEADLOCK FALSE
PROPERTY EmptyLeaves
