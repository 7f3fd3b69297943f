SPECIFICATION Spec
CONSTANTS
    m1 = m1
    m2 = m2
    m3 = m3
    w1 = w1
    w2 = w2
    Messages = {m1, m2}
    Conv <- Convs
    Scores = {}
    MaxNotices = 2
    NSteps = 2
    Workers = {w1, w2}
    MaxEventTries = 2
    MaxJobTries = 2
    MaxDowns = 0
    MaxFaults = 1
    MaxPanics = 0
INVARIANTS
    HandledAsTheyCame
CHECK_DEADLOCK FALSE
