SPECIFICATION Spec
CONSTANTS
    NoText = NoText
    Texts = {t1}
    Files = {f1}
    MaxRoom = 2
    MaxSends = 1
    MaxAsks = 1
    PageLines = 1
    NoCall = NoCall
    NoRequest = NoRequest
    NoNumber = NoNumber
    Calls = {c1, c2}
    Tabs = {a, b}
    MaxFaults = 1
    MaxStops = 1
    TabCalls = {c1}
    MaxOpens = 1
    MaxTakes = 1
    Numbers = {n1, n2}
    MaxReloads = 1
    MaxChanges = 2
    MaxPresses = 1
    MaxDrops = 1
INVARIANTS
    CallFaceHasCall
    EndsBeforeCut
    EveryTalkIsAsked
    FacesAreTrue
PROPERTIES
    CallRecords
    DraftComesBack
CHECK_DEADLOCK FALSE
