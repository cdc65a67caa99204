SPECIFICATION Spec
CONSTANTS
    Maps = {azeroth, outland, dungeon}
    Workers = {one, two}
    NoMap = null
CHECK_DEADLOCK FALSE
INVARIANT UnsafeAlone
