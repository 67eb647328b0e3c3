CONSTANTS
    HASH_BITS = 4
    self = self
    a1 = a1
    a2 = a2
    a3 = a3
    a4 = a4
    a5 = a5
    f1 = f1
    Self <- MCSelf
    Key <- MCKey
    Files <- MCFiles
    FileAnswers <- MCFileAnswers
    Peers <- PairPeers
    StartQueues <- PairStartQueues
    Answers <- PairAnswers
    alpha = 5
    max_hops = 1
    MaxDuplicates = 1
SPECIFICATION FairSpec
PROPERTY LaterRoundsWait
CHECK_DEADLOCK FALSE
