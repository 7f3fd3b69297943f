SPECIFICATION FloorSpec
CONSTANTS
    Requests = {r1, r2}
    MaxAsked = 2
    MaxTroubles = 0
INVARIANTS
    BackOnFloor
CHECK_DEADLOCK FALSE
