SPECIFICATION FairSpec
CONSTANTS
    Requests = {q1, q2}
    MaxAsked = 2
    MaxTroubles = 1
    Wishers = {w1, w2}
    MaxWishes = 2
    MaxFailures = 1
    NoRoom = NoRoom
    Rooms = {r1}
    OtherEvents = {"group", "game.invite", "typing", "message.deleted", "reaction"}
    MaxWrites = 1
    MaxMoves = 1
    MaxViews = 1
INVARIANTS
    ConfirmedIsSo
PROPERTIES
    LineFollowsRows
    ShownIsSo
    TimeIsCounted
    ListCatchesUp
CHECK_DEADLOCK FALSE
