CONSTANTS
    MaxUID = 4
    MaxLen = 6
    Last = Last
    NoMax = NoMax
    TooBig = TooBig
    NoMessage = NoMessage
    Lists <- MCLists
    Queries <- MCQueries
SPECIFICATION FairSpec
INVARIANTS LoopIsSafe ResultIsLowest NumberedRight PanicsExplained
PROPERTIES UidRangesExact  Answered
CHECK_DEADLOCK FALSE
