SPECIFICATION FairSpec
CONSTANTS
    EXPORTERS = 1
    QueueDepth <- MCQueueDepth
    PULL_DEPTH = 1
    MAX_TICK = 3
    MAX_PULLS = 2
INVARIANTS
    ChannelsInOrder
    FreshReply
    DrainedOnShutdown
PROPERTIES
    PollerNeverBlocks
    ShutdownTerminates
CHECK_DEADLOCK FALSE
