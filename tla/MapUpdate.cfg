SPECIFICATION Spec
CONSTANTS
    Maps = {azeroth, outland, dungeon}
    Workers = {one, two}
    NoMap = null
CHECK_DEADLOCK FALSE
INVARIANTS
    TypeOK
    RequestsCounted
PROPERTIES
    TickSpec
    TickEnds
    ShutdownEnds
