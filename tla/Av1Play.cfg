SPECIFICATION FairSpec
CONSTANTS
    MaxInstances = 2
    MaxUnits = 4
    MaxShared = 3
    BufferUnits = 3
INVARIANTS
    TypeOK
    UnitsInOrder
    CutsAtPictureEnds
    ExitMeansNothingSent
PROPERTIES
    MainReturns
CHECK_DEADLOCK FALSE
