SPECIFICATION FairSpec
CONSTANTS
    MaxFrames = 3
    QueueCount = 1
    NumPics = 1
    MaxFormats = 1
    NumChunks = 2
INVARIANTS
    EndsAtShortChunk
    DestroyedAfterEvent
    FramesFreedOnce
    NoCallIntoDestructor
    DisplayRestored
    FileClosedTwice
PROPERTIES
    PlayEnds
    InterruptEnds
\* The process may hang in the handler: a callback waits for a lock of main().
CHECK_DEADLOCK FALSE
