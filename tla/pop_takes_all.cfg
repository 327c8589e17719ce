SPECIFICATION Spec
CONSTANTS
    Kinds <- MCOnlyRegular
    ShmSize = 3
    Retention = 1
    Sizes <- MCSizes
    PopArgs <- MCPopArgs
    SizeMod = 64
    MaxTime = 2
    MaxMsgs = 3
PROPERTIES
    PopReturnsAsked
