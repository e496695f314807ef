SPECIFICATION Spec
CONSTANTS
    PacketSize = 2
    MaxUnits = 4
    MaxBuffers = 2
    MaxCalls = 2
    RetryNum = 1
INVARIANTS
    TypeOK
    KeyInForce
    WrittenOnce
    AllWritten
    MisalignedStaysStuck
