SPECIFICATION Spec
CONSTANTS
    Messages = {1}
    Conv <- OneConv
    MaxTries = 1
    MaxRetries = 1
    MaxLost = 0
    MaxDowns = 1
    MaxFaults = 1
    Reports = {"delivered", "failed"}
INVARIANTS
    NoStrandedStatus
PROPERTIES
    SentStaysOut
CHECK_DEADLOCK FALSE
