CONSTANTS
    m1 = m1
    m2 = m2
    a1 = a1
    Broadcast = Broadcast
    NoAddress = NoAddress
    Mails <- OneMail
    Routes <- OneRecipient
    Addresses = {a1}
    AckBehavior = {}
    KnownKeys = {}
    Wirings = {FALSE}
    Faults = {}
    MaxFailures = 0
    MaxTasks = 3
    MaxOrders = 4
    MaxRestarts = 0
    MaxIMAP = 0
SPECIFICATION FairSpec
PROPERTY KeyedMailIsSent
CHECK_DEADLOCK FALSE
