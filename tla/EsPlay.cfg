SPECIFICATION Spec
CONSTANTS
    MaxFrames = 3
    QueueCount = 1
    NumPics = 2
    MaxFormats = 2
INVARIANTS
    IndInv
    PictureOwnership
    DumpReadsOwnAddress
    InputMemorySafe
    ReturnedFramesKept
    NothingLostAtDestroy
    NobodyInReturnedPlayer
    FailedInitHangs
    UnwritableOutputHangs
PROPERTIES
    DisplaysAsLent
