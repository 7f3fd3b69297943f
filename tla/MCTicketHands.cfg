SPECIFICATION Spec
CONSTANTS
    Agents = {a1, a2}
    MaxTickets = 1
    MaxMessages = 1
    MaxActs = 2
    Asks = {"greet", "take", "reply"}
    Rules = {"assign_team"}
    Bots = {1}
    Distribution = TRUE
    MaxFaults = 1
    MaxDowns = 0
SYMMETRY Same
INVARIANTS
    ToldOwns
    RoleIsOwner
CHECK_DEADLOCK FALSE
