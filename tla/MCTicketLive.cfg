SPECIFICATION FairSpec
CONSTANTS
    Agents = {a1}
    MaxTickets = 1
    MaxMessages = 2
    MaxActs = 1
    Asks = {"edit", "reply"}
    Rules = {}
    Bots = {1}
    Distribution = TRUE
    MaxFaults = 1
    MaxDowns = 0
PROPERTIES
    PoolIsHandedOut
    BotLetsGo
CHECK_DEADLOCK FALSE
