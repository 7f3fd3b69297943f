SPECIFICATION InboxSpec
CONSTANTS
    NoChat = NoChat
    NoRow = NoRow
    NoPoll = NoPoll
    Chats = {k1, k2}
    Slots = {s1, s2}
    MaxChanges = 2
    MaxNotes = 0
    PageSize = 1
    NewHomes = {"mine", "unseen"}
INVARIANT NothingMissed
CHECK_DEADLOCK FALSE
