SPECIFICATION SessionSpec
CONSTANTS
    NoCall = NoCall
    Calls = {c1}
    Tabs = {a, b}
    Users = {u1, u2}
    MaxSessions = 2
INVARIANT RightSession
CHECK_DEADLOCK FALSE
