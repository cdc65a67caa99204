SPECIFICATION Spec
CONSTANTS
    MaxConns = 1
    MaxSessions = 1
    MaxQueued = 2
    MaxHolders = 2
CHECK_DEADLOCK FALSE
INVARIANT PlayersOwned
