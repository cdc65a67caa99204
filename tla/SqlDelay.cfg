SPECIFICATION Spec
CONSTANTS
    Clients = {world, net}
    Detached = {net}
    World = world
    DelayThread = delay
    NoThread = none
    MaxRequests = 3
    MaxTransaction = 2
CHECK_DEADLOCK FALSE
INVARIANTS
    TypeOK
    DirectDurable
PROPERTIES
    StoreSpec
    AllExecuted
    CallbacksRun
