SPECIFICATION Spec
CONSTANTS
    Agents = {a1, a2}
    MaxTickets = 2
    MaxMessages = 2
    MaxActs = 2
    Asks = {"resolve", "reopen", "edit", "template", "assign"}
    Rules = {"resolve", "assign_user"}
    Bots = {2}
    Distribution = FALSE
    MaxFaults = 0
    MaxDowns = 1
SYMMETRY Same
INVARIANTS
    UnseenStaysOpen
    ListedAwaits
    AwaitingIsUnanswered
PROPERTY ComesBackCounted
CHECK_DEADLOCK FALSE
