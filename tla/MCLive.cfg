SPECIFICATION FairSpec
CONSTANTS
    NoCall = NoCall
    Calls = {c1}
    Tabs = {a}
    MaxFaults = 2
    MaxStops = 1
    Users = {u1, u2}
    MaxSessions = 2
PROPERTIES
    LineComesBack
    EveryTabStarts
CHECK_DEADLOCK FALSE
