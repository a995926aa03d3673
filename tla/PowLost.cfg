CONSTANT MaxOrders = 3
SPECIFICATION FairSpec
PROPERTY EveryOrderIsWorkedOn
CHECK_DEADLOCK FALSE
