SPECIFICATION Spec
CONSTANTS
    NoAccount = NoAccount
    NoChat = NoChat
    NoRow = NoRow
    NoPoll = NoPoll
    NoPart = NoPart
    NoCall = NoCall
    Calls = {c1}
    Tabs = {a, b}
    Users = {u1}
    MaxSessions = 1
    Accounts = {u1}
    MaxTokens = 2
    MaxTries = 2
    MaxStrays = 1
    Chats = {k1}
    Slots = {s1}
    MaxNotes = 1
    PageSize = 1
    NewHomes = {"mine", "unseen"}
    Parts = {p1}
    MaxLog = 3
    MaxPartTries = 1
    MaxReports = 1
    PageRows = 1
    MaxPages = 1
    MaxTexts = 2
    MaxVisits = 1
    MaxChanges = 2
    MaxEdits = 1
    MaxQuick = 1
    MaxMoves = 2
    MaxPolls = 1
    MaxActs = 1
    MaxMore = 1
INVARIANTS
    EndsAreKept
    EachStepOnce
    NoTwins
    TypedIsKept
    ListSettles
PROPERTIES
    NobodyDropped
    NeverBack
CHECK_DEADLOCK FALSE
