SPECIFICATION FairSpec
CONSTANTS
    r1 = r1
    Readers <- MCReaders
    ShmSize = 3
    Sizes <- MCSizes
    AddSizes <- MCAddSizes
    MayDie <- MCEverybody
    MaxClears = 1
    MaxCalls = 3
    MaxReads = 2
INVARIANTS
    TypeOK
    Excluded
    LeftLocked
    ReadsFresh
PROPERTIES
    ServerEnds
    ReadsEnd
\* The program's and the reader's calls are bounded, and the server may be destroyed.
CHECK_DEADLOCK FALSE
