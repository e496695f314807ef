SPECIFICATION Spec
CONSTANTS
    MaxFrames = 3
    QueueCount = 1
    NumPics = 1
    MaxFormats = 1
    NumChunks = 2
INVARIANT RewindsOnError
CHECK_DEADLOCK FALSE
