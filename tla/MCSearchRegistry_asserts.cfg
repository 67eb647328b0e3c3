CONSTANTS
    MaxSearches = 2
    MaxWords = 2
    MaxSubs = 3
    max_hops = 1
SPECIFICATION Spec
INVARIANT
    AssertsHold
CHECK_DEADLOCK FALSE
