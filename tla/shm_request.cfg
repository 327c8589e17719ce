SPECIFICATION SFairSpec
CONSTANTS
    c1 = c1
    t1 = t1
    t2 = t2
    Clients <- MCClients
    Topics <- MCTopics
    ShmTopics <- MCShm
    Local <- MCLocal
    Calls <- MCCalls
    Resend = {TRUE, FALSE}
    Epoch <- MCEpoch
    PutTopics <- MCNone
    MaxRetries = 1
    InOrder = TRUE
    MaxCalls = 2
    MaxPuts = 0
    MaxResets = 1
    MayPrune = TRUE
INVARIANTS
    STypeOK
    GivenOwn
    ReturnsOwnRun
    FileThere
    NoSegmentLeft
PROPERTIES
    IsRpc
    SThreadReturns
\* The number of calls is bounded, and the server may be destroyed.
CHECK_DEADLOCK FALSE
