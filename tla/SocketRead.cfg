SPECIFICATION Spec
CONSTANTS
    NumFrames = 3
    BodySizes = {0, 1}
    HeaderSize = 2
    BufferSize = 3
    AsioResetsErrno = TRUE
CHECK_DEADLOCK FALSE
INVARIANTS
    TypeOK
    NothingLost
    ProcessedInOrder
    CipherInStep
PROPERTIES
    FramesProcessed
