SPECIFICATION TabsSpec
CONSTANTS
    NoCall = NoCall
    NoRequest = NoRequest
    Calls = {c1}
    Tabs = {a, b}
    MaxOpens = 2
    MaxTakes = 2
INVARIANT OneLine
CHECK_DEADLOCK FALSE
