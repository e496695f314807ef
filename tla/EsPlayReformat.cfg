SPECIFICATION Spec
CONSTANTS
    MaxFrames = 2
    QueueCount = 1
    NumPics = 1
    MaxFormats = 2
INVARIANTS
    DumpReadsLiveMemory
