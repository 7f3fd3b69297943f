SPECIFICATION FairSpec
CONSTANTS
    Messages = {1}
    Conv <- OneConv
    MaxTries = 1
    MaxRetries = 0
    MaxLost = 0
    MaxDowns = 0
    MaxFaults = 0
    Reports = {"delivered", "read"}
PROPERTIES
    StatusNeverBack
CHECK_DEADLOCK FALSE
