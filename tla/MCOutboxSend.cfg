SPECIFICATION FairSpec
CONSTANTS
    Messages = {1, 2}
    Conv <- OneConv
    MaxTries = 2
    MaxRetries = 1
    MaxLost = 1
    MaxDowns = 1
    MaxFaults = 1
    Reports = {}
INVARIANTS
    AcceptedWithinOrders
    InOrder
    SendingIsHeld
PROPERTIES
    QueuedIsSettled
CHECK_DEADLOCK FALSE
