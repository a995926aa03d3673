CONSTANTS
    c1 = c1
    c2 = c2
    c3 = c3
    Callers = {c1, c2, c3}
    Asks <- MCAsks
    Initial <- MCInitial
    NewIDIndex = 1
    Underivable = {2}
    MaxIndex = 5
    Nil = Nil
    NoCaller = NoCaller
SPECIFICATION FairSpec
INVARIANTS AnsweredAsAsked ListingComplete
PROPERTY EveryCommandEnds
CHECK_DEADLOCK FALSE
