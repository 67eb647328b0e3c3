CONSTANTS
    HASH_BITS = 4
    self = self
    a1 = a1
    a2 = a2
    a3 = a3
    a4 = a4
    a5 = a5
    f1 = f1
    Self <- MCSelf
    Key <- MCKey
    Files <- MCFiles
    FileAnswers <- MCFileAnswers
    Peers <- RoundsPeers
    StartQueues <- RoundsStartQueues
    Answers <- RoundsAnswers
    alpha = 3
    max_hops = 2
    MaxDuplicates = 1
    publish_redundancy = 1
SPECIFICATION FairShareSpec
INVARIANTS
    TypeOK
    QueueWellFormed
    NearestAtHead
    NoLostWakeup
    TwoRoundsOfQueries
    HandledInItsRound
    RemovedIsDeaf
    PublishedToNearest
PROPERTIES
    Termination
    ShareReturns
CHECK_DEADLOCK FALSE
