CONSTANTS
    m1 = m1
    m2 = m2
    a1 = a1
    Broadcast = Broadcast
    NoAddress = NoAddress
    Mails <- TwoMails
    Routes <- SameOrMixed
    Addresses = {a1}
    AckBehavior = {a1}
    KnownKeys = {}
    Wirings = {TRUE, FALSE}
    Faults = {"rpc", "send", "expunge", "store", "disk"}
    MaxFailures = 1
    MaxTasks = 3
    MaxOrders = 4
    MaxRestarts = 1
    MaxIMAP = 1
SPECIFICATION Spec
SYMMETRY MailSymmetry
INVARIANTS SentOnce LimboHasAck WaitIsBacked MailKept FiledWasSent ParkedIsFlagged ResentOnlyIfAsked
PROPERTY RemovedIsNotSent
CHECK_DEADLOCK FALSE
