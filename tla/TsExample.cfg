SPECIFICATION FairSpec
CONSTANTS
    Room = 1
    NumChunks = 3
    WriteRetries = 1
INVARIANTS
    OsdOnAtEnd
    StoppedBeforeRelease
    SessionUsedWhileLive
PROPERTIES
    FeedsFile
    PlaybackEnds
