SPECIFICATION FairSpec
CONSTANTS
    Messages = {1}
    Conv <- OneConv
    MaxTries = 1
    MaxRetries = 1
    MaxLost = 0
    MaxDowns = 0
    MaxFaults = 0
    Reports = {"sent", "failed"}
PROPERTIES
    QueueLeftBySending
CHECK_DEADLOCK FALSE
