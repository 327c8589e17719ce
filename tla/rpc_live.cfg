SPECIFICATION FairSpec
CONSTANTS
    c1 = c1
    c2 = c2
    t1 = t1
    t2 = t2
    Clients <- MCTwo
    Topics <- MCTopic
    Calls <- MCSharedLive
    Resend <- MCBoth
    Epoch <- MCEpochTwo
    PutTopics <- MCNone
    MaxRetries = 0
    InOrder = FALSE
    MaxCalls = 1
    MaxPuts = 0
    MaxResets = 1
    MayPrune = TRUE
INVARIANTS
    Handshake
    AnswersOwn
PROPERTIES
    RunsAwaited
    CallsEnd
    ThreadReturns
\* The numbers of calls and puts are bounded, and the server may be destroyed.
CHECK_DEADLOCK FALSE
