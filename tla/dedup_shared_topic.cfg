SPECIFICATION Spec
CONSTANTS
    c1 = c1
    c2 = c2
    t1 = t1
    t2 = t2
    Clients <- MCTwo
    Topics <- MCTopic
    Calls <- MCSharedTopic
    Resend <- MCAlways
    Epoch <- MCEpochTwo
    PutTopics <- MCNone
    MaxRetries = 1
    InOrder = TRUE
    MaxCalls = 1
    MaxPuts = 0
    MaxResets = 0
    MayPrune = FALSE
INVARIANTS
    AtMostOnce
\* The numbers of calls and puts are bounded, and the server may be destroyed.
CHECK_DEADLOCK FALSE
