SPECIFICATION BridgeSpec
CONSTANTS
    MaxChanges = 1
    MaxPresses = 1
    MaxDrops = 1
INVARIANTS
    PressRunsOnce
CHECK_DEADLOCK FALSE
