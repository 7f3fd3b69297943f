SPECIFICATION FairSpec
CONSTANTS
    m1 = m1
    m2 = m2
    m3 = m3
    w1 = w1
    w2 = w2
    Messages = {m1, m2}
    Conv <- Convs
    Scores = {m2}
    MaxNotices = 2
    NSteps = 1
    Workers = {w1}
    MaxEventTries = 2
    MaxJobTries = 2
    MaxDowns = 1
    MaxFaults = 1
    MaxPanics = 1
INVARIANTS
    HandledIsStored
PROPERTIES
    NoticesSettled
    WorkEnds
CHECK_DEADLOCK FALSE
