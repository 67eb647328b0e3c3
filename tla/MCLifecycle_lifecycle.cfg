CONSTANTS
    HASH_BITS = 8
    HALF_BITS = 2
    WORDS = 2
    Others = {"dht.alpha"}
    Files <- MCFiles
    NodeIds <- MCNodeIds
SPECIFICATION FairSpec
INVARIANTS
    TypeOK
    ParametersSurvive
    DistanceCountsBits
PROPERTIES
    DamageIsPermanent
    QuitEnds
CHECK_DEADLOCK FALSE
