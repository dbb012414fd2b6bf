SPECIFICATION FairSpec
CONSTANTS
    Capacity = 1
    ChannelCapacity = 1
    MaxMessages = 2
    Batches <- MCBatches
    MaxPublished = 3
INVARIANTS
    TypeOK
    CompletionIsLast
    AnswersInOrder
    BatchOutcome
    DoneMeansAnswered
    ItemsInOrder
PROPERTIES
    EveryMessageSettles
    TaskEndsAtNextItem
CHECK_DEADLOCK FALSE
