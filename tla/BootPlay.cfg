SPECIFICATION BootFairSpec
CONSTANTS
    Room = 1
    NumChunks = 3
    WriteRetries = 1
INVARIANTS
    SessionUsedWhileLive
    OnlySignalEndsMissing
PROPERTIES
    FeedsFile
    PlaybackEnds
