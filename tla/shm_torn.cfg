SPECIFICATION Spec
CONSTANTS
    r1 = r1
    Readers <- MCReaders
    ShmSize = 3
    Sizes <- MCSizes
    AddSizes <- MCNobody
    MayDie <- MCNobody
    MaxClears = 0
    MaxCalls = 3
    MaxReads = 2
INVARIANTS
    ReadsWhole
\* The program's and the reader's calls are bounded, and the server may be destroyed.
CHECK_DEADLOCK FALSE
