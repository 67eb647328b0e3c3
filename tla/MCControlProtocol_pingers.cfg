CONSTANTS
    HASH_BITS = 3
    self = self
    a1 = a1
    a2 = a2
    a3 = a3
    t1 = t1
    t2 = t2
    main = main
    Self <- MCSelf
    Peers <- MCPeers
    FriendLists <- MCFriendLists
    Pool = {t1}
    bucketSize = 3
    MaxReceived = 2
SPECIFICATION Spec
INVARIANTS
    SendersAreSeen
CHECK_DEADLOCK FALSE
