SPECIFICATION Spec
CONSTANTS
    NumFrames = 1
    BodySizes = {4}
    HeaderSize = 2
    BufferSize = 4
    AsioResetsErrno = TRUE
CHECK_DEADLOCK FALSE
PROPERTY FramesProcessed
