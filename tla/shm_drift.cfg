SPECIFICATION Spec
CONSTANTS
    Kinds <- MCOnlyRequests
    ShmSize = 3
    Retention = 1
    Sizes <- MCSizes
    PopArgs <- MCPopArgs
    SizeMod = 64
    MaxTime = 2
    MaxMsgs = 4
PROPERTIES
    PutKept
