SPECIFICATION Spec
CONSTANTS
    HalfWord = 16
    LenBytes = 1
    TimeBytes = 2
    MaxTopic = 3
    TopicSizes <- MCTopicSizes
    BlockSizes <- MCBlockSizes
    MaxBlocks = 3
INVARIANTS
    TypeOK
    ReceivedAsSent
    NeverRefused
\* A run is the life of one message, which ends when it is received.
CHECK_DEADLOCK FALSE
