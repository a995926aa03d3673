CONSTANTS
    Streams = {"msg", "broadcast", "getpubkey"}
    Objects <- MCObjects
    Subscribed = TRUE
    Faults = {"insert", "rpc", "stream"}
    MaxSessions = 2
    MaxOrders = 2
SPECIFICATION FairSpec
INVARIANTS NothingSkipped AckMeansStored CopiesBounded AnswersBounded
PROPERTY AvailableIsDelivered
CHECK_DEADLOCK FALSE
