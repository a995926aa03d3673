CONSTANT MaxOrders = 4
SPECIFICATION FairSpec
INVARIANTS AtMostOnce ListIsServed DiscardsAreBounded
PROPERTIES EverySettled ImplementsOrders
\* The manager stops when nothing is left to run and Run is not called again.
CHECK_DEADLOCK FALSE
