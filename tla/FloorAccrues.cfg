SPECIFICATION FloorSpec
CONSTANTS
    Requests = {r1, r2}
    MaxAsked = 2
    MaxTroubles = 0
INVARIANTS
    NothingAccrues
CHECK_DEADLOCK FALSE
