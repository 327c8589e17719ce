SPECIFICATION USpec
CONSTANTS
    c1 = c1
    c2 = c2
    t1 = t1
    t2 = t2
    Clients <- MCTwo
    Topics <- MCTopics
    Calls <- MCOwnTopics
    Resend <- MCAlways
    Epoch <- MCEpochTwo
    PutTopics <- MCNone
    MaxRetries = 0
    InOrder = TRUE
    MaxCalls = 2
    MaxPuts = 1
    MaxResets = 0
    MayPrune = TRUE
INVARIANTS
    TypeOK
    PutOnce
    ReturnMeansDone
    PopLosesNothing
PROPERTIES
    IsRpc
\* The numbers of calls and puts are bounded, and the server may be destroyed.
CHECK_DEADLOCK FALSE
