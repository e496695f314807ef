SPECIFICATION Spec
CONSTANTS
    Room = 1
    NumChunks = 3
    WriteRetries = 1
INVARIANTS
    MissingFileReturns
