SPECIFICATION Spec
CONSTANTS
    Agents = {a1}
    MaxTickets = 1
    MaxMessages = 1
    MaxActs = 1
    Asks = {"resolve"}
    Rules = {}
    Bots = {1}
    Distribution = FALSE
    MaxFaults = 0
    MaxDowns = 0
PROPERTY OnlyCounted
CHECK_DEADLOCK FALSE
