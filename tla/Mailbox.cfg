CONSTANTS
    t1 = t1
    t2 = t2
    t3 = t3
    NoThread = NoThread
    Threads = {t1, t2, t3}
    Calls <- MixedCalls
    Flags <- MCFlags
    MaxID = 2
    DiskFails = TRUE
SPECIFICATION FairSpec
INVARIANTS CacheMatchesDisk NoResurrection
PROPERTY OnlyNestedBlocks
CHECK_DEADLOCK FALSE
