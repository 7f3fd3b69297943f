-------------------------------- MODULE RoomList --------------------------------
(***************************************************************************)
(* The team chat around its rooms: the list of rooms with their unread      *)
(* counts, kept by overviews asked of the server and by events of the live  *)
(* stream, and everything a person does to a room or its members.           *)
(*                                                                          *)
(* Bounds: MaxWrites messages written; MaxMoves other changes at the server  *)
(* (of the kinds OtherEvents), rooms opened, acts of the person and looks    *)
(* away together; MaxViews overviews under way when the next is polled.      *)
(***************************************************************************)
EXTENDS Naturals, Sequences, FiniteSets

CONSTANTS Rooms, NoRoom, OtherEvents, MaxWrites, MaxMoves, MaxViews

VARIABLES
  theirs,       \* per room of this person: unread messages, mute, and role, at the server
  wrote, moves,
  roomEvents,   \* what the stream carries
  mine,         \* the rooms listed, with what the list knows of them
  views,        \* overviews under way
  again,        \* an overview will be asked for in a moment
  openRoom,     \* the room shown
  detail, detailAsks,   \* the room whose details are held; details under way
  act,          \* the act under way
  looking,      \* the window is visible
  writing,      \* the rooms somebody is typing in
  toast, mentions

listVars == <<mine, views, again>>
detailVars == <<detail, detailAsks>>
pageVars == <<openRoom, act, looking>>
noteVars == <<writing, toast, mentions>>
teamVars == <<theirs, wrote, moves>>
allListVars == <<teamVars, roomEvents, listVars, detailVars, pageVars, noteVars>>

Mutes == {"none", "mentions", "all"}
Roles == {"owner", "admin", "member"}
RoomRow == [unread : 0 .. MaxWrites + MaxMoves, mute : Mutes, role : Roles]
Overview == UNION {[S -> RoomRow] : S \in SUBSET Rooms}
NoAct == [kind |-> "none", room |-> NoRoom]
ActKinds == {"none", "read", "unread", "mentions", "all", "unmute", "leave", "accept", "member"}

RoomListTypeOK ==
  /\ theirs \in Overview /\ DOMAIN mine \subseteq Rooms
  /\ \A r \in DOMAIN mine : mine[r].unread \in Nat /\ mine[r].mute \in Mutes /\ mine[r].role \in Roles
  /\ wrote \in 0 .. MaxWrites /\ moves \in 0 .. MaxMoves
  /\ Len(views) <= MaxViews + MaxWrites + 2 * MaxMoves /\ \A i \in DOMAIN views : views[i].state \in {"asked", "served"} /\ views[i].rows \in Overview
  /\ again \in BOOLEAN /\ openRoom \in Rooms \cup {NoRoom}
  /\ detail \in Rooms \cup {NoRoom} /\ detailAsks \subseteq Rooms
  /\ act.kind \in ActKinds /\ act.room \in Rooms \cup {NoRoom} /\ looking \in BOOLEAN
  /\ writing \subseteq Rooms /\ toast \in BOOLEAN /\ mentions \in 0 .. MaxWrites + MaxMoves

RoomListInit ==
  /\ \E role \in Roles : theirs = [r \in Rooms |-> [unread |-> 0, mute |-> "none", role |-> role]]
  /\ wrote = 0 /\ moves = 0 /\ roomEvents = <<>>
  /\ mine = [r \in {} |-> 0] /\ views = <<[state |-> "asked", rows |-> [r \in {} |-> 0]]>> /\ again = FALSE
  /\ openRoom \in Rooms \cup {NoRoom} /\ detail = NoRoom /\ detailAsks = {openRoom} \cap Rooms /\ act = NoAct /\ looking = TRUE
  /\ writing = {} /\ toast = FALSE /\ mentions = 0

---------------------------------------------------------------------------
(* The server. *)

RoomNote(e) == roomEvents' = Append(roomEvents, e)

TheyWrite(r) ==
  /\ r \in DOMAIN theirs /\ wrote < MaxWrites /\ wrote' = wrote + 1
  /\ theirs' = [theirs EXCEPT ![r].unread = @ + 1]
  /\ \E tagged \in BOOLEAN : RoomNote([type |-> "message", room |-> r, tagged |-> tagged])
  /\ UNCHANGED <<moves, listVars, detailVars, pageVars, noteVars>>

\* What the server tells besides: a group or its members changed (here: the person
\* was removed, or is in it again), an invitation to play, somebody types, a line was deleted, reactions.
TheyTell(r, type) ==
  /\ moves < MaxMoves /\ moves' = moves + 1 /\ RoomNote([type |-> type, room |-> r, tagged |-> FALSE])
  /\ theirs' = IF type # "group" THEN theirs
               ELSE IF r \in DOMAIN theirs THEN [x \in DOMAIN theirs \ {r} |-> theirs[x]]
               ELSE [x \in DOMAIN theirs \cup {r} |-> IF x = r THEN [unread |-> 0, mute |-> "none", role |-> "member"] ELSE theirs[x]]
  /\ UNCHANGED <<wrote, listVars, detailVars, pageVars, noteVars>>

---------------------------------------------------------------------------
(* Overviews. *)

Asked == Append(views, [state |-> "asked", rows |-> [r \in {} |-> 0]])

\* A mutant of PollBegins: no clock asks again.
PollNever == FALSE
PollBegins == Len(views) < MaxViews

\* Every 30 seconds, and some time after a line was deleted.
Poll ==
  /\ PollBegins /\ views' = Asked /\ again' = FALSE
  /\ UNCHANGED <<teamVars, roomEvents, mine, detailVars, pageVars, noteVars>>

ViewServed(i) ==
  /\ views[i].state = "asked" /\ views' = [views EXCEPT ![i] = [state |-> "served", rows |-> theirs]]
  /\ UNCHANGED <<teamVars, roomEvents, mine, again, detailVars, pageVars, noteVars>>

WithoutView(i) == SubSeq(views, 1, i - 1) \o SubSeq(views, i + 1, Len(views))

\* The answer replaces the list, whatever came while it was under way.
ViewAnswered(i) ==
  /\ views[i].state = "served" /\ mine' = views[i].rows /\ views' = WithoutView(i)
  /\ UNCHANGED <<teamVars, roomEvents, again, detailVars, pageVars, noteVars>>

ViewFails(i) ==
  /\ views' = WithoutView(i)
  /\ UNCHANGED <<teamVars, roomEvents, mine, again, detailVars, pageVars, noteVars>>

---------------------------------------------------------------------------
(* Events. *)

\* The stream was down; when it is up again an overview is asked for.
StreamOpensAgain ==
  /\ roomEvents # <<>> /\ roomEvents' = <<>> /\ views' = Asked
  /\ UNCHANGED <<teamVars, mine, again, detailVars, pageVars, noteVars>>

RoomOnScreen(r) == openRoom = r /\ looking
MuteOf(r) == IF r \in DOMAIN mine THEN mine[r].mute ELSE "none"
MayNotify(r, tagged) == ~RoomOnScreen(r) /\ (MuteOf(r) = "none" \/ (MuteOf(r) = "mentions" /\ tagged))

\* A message: its room leads the list with one more unread, or an overview is asked
\* for when the room is not listed; the person is told unless the room is on the
\* screen or muted. A tag stays until it is dismissed, another notice fades.
WriteEvent ==
  /\ roomEvents # <<>> /\ Head(roomEvents).type = "message" /\ roomEvents' = Tail(roomEvents)
  /\ LET e == Head(roomEvents) IN
       /\ writing' = writing \ {e.room}
       /\ IF e.room \in DOMAIN mine
          THEN /\ mine' = [mine EXCEPT ![e.room].unread = IF RoomOnScreen(e.room) THEN @ ELSE @ + 1]
               /\ UNCHANGED views
          ELSE views' = Asked /\ UNCHANGED mine
       /\ mentions' = IF MayNotify(e.room, e.tagged) /\ e.tagged THEN mentions + 1 ELSE mentions
       /\ toast' = (toast \/ (MayNotify(e.room, e.tagged) /\ ~e.tagged))
  /\ UNCHANGED <<teamVars, again, detailVars, pageVars>>

\* A group changed: the list is asked for again, and the details if it is the room shown.
GroupEvent ==
  /\ roomEvents # <<>> /\ Head(roomEvents).type = "group" /\ roomEvents' = Tail(roomEvents)
  /\ views' = Asked
  /\ detailAsks' = IF Head(roomEvents).room = openRoom THEN detailAsks \cup {openRoom} ELSE detailAsks
  /\ UNCHANGED <<teamVars, mine, again, detail, pageVars, noteVars>>

DeletedEvent ==
  /\ roomEvents # <<>> /\ Head(roomEvents).type = "message.deleted" /\ roomEvents' = Tail(roomEvents)
  /\ again' = TRUE
  /\ UNCHANGED <<teamVars, mine, views, detailVars, pageVars, noteVars>>

GameInvite ==
  /\ roomEvents # <<>> /\ Head(roomEvents).type = "game.invite" /\ roomEvents' = Tail(roomEvents)
  /\ mentions' = mentions + 1
  /\ UNCHANGED <<teamVars, listVars, detailVars, pageVars, writing, toast>>

TypingHere ==
  /\ roomEvents # <<>> /\ Head(roomEvents).type = "typing" /\ roomEvents' = Tail(roomEvents)
  /\ writing' = writing \cup {Head(roomEvents).room}
  /\ UNCHANGED <<teamVars, listVars, detailVars, pageVars, toast, mentions>>

\* A reaction to one's own line: shown for a room that is neither muted nor on the screen.
ReactionEvent ==
  /\ roomEvents # <<>> /\ Head(roomEvents).type = "reaction" /\ roomEvents' = Tail(roomEvents)
  /\ toast' = (toast \/ (MuteOf(Head(roomEvents).room) = "none" /\ ~RoomOnScreen(Head(roomEvents).room)))
  /\ UNCHANGED <<teamVars, listVars, detailVars, pageVars, writing, mentions>>

\* After seconds: who was typing no longer is, the notice goes.
TypingFades ==
  /\ writing # {} /\ writing' = {}
  /\ UNCHANGED <<teamVars, roomEvents, listVars, detailVars, pageVars, toast, mentions>>
ToastFades ==
  /\ toast /\ toast' = FALSE
  /\ UNCHANGED <<teamVars, roomEvents, listVars, detailVars, pageVars, writing, mentions>>
DismissMention ==
  /\ mentions > 0 /\ mentions' = mentions - 1
  /\ UNCHANGED <<teamVars, roomEvents, listVars, detailVars, pageVars, writing, toast>>

---------------------------------------------------------------------------
(* The page. *)

Look ==
  /\ looking' = ~looking
  /\ IF looking THEN moves < MaxMoves /\ moves' = moves + 1 ELSE UNCHANGED moves
  /\ UNCHANGED <<theirs, wrote, roomEvents, listVars, detailVars, openRoom, act, noteVars>>

GoTo(r) ==
  /\ openRoom' = r
  /\ detailAsks' = IF r = NoRoom THEN detailAsks ELSE detailAsks \cup {r}
  /\ detail' = IF r = NoRoom THEN NoRoom ELSE detail

OpenRoom(r) ==
  /\ r # openRoom /\ moves < MaxMoves /\ moves' = moves + 1 /\ GoTo(r)
  /\ UNCHANGED <<theirs, wrote, roomEvents, listVars, act, looking, noteVars>>

\* The room's messages are on the screen: the server and the list count them as read.
\* The server may not hear of it.
RoomIsRead ==
  /\ openRoom \in DOMAIN mine /\ detail = openRoom /\ looking /\ mine[openRoom].unread > 0
  /\ mine' = [mine EXCEPT ![openRoom].unread = 0]
  /\ theirs' \in {theirs, [r \in DOMAIN theirs |-> IF r = openRoom THEN [theirs[r] EXCEPT !.unread = 0] ELSE theirs[r]]}
  /\ UNCHANGED <<wrote, moves, roomEvents, views, again, detailVars, pageVars, noteVars>>

\* The answer counts only for the room shown now.
DetailAnswered(r) ==
  /\ r \in detailAsks /\ detailAsks' = detailAsks \ {r}
  /\ detail' = IF r # openRoom THEN detail ELSE IF r \in DOMAIN theirs THEN r ELSE NoRoom
  /\ UNCHANGED <<teamVars, roomEvents, listVars, pageVars, noteVars>>

\* What the menu of a room offers.
RoomMenu(r) ==
  {IF mine[r].unread > 0 THEN "read" ELSE "unread"}
  \cup (IF mine[r].mute # "none" THEN {"unmute"} ELSE {})
  \cup (IF mine[r].mute # "mentions" THEN {"mentions"} ELSE {})
  \cup (IF mine[r].mute # "all" THEN {"all"} ELSE {})
  \cup (IF mine[r].role # "owner" THEN {"leave"} ELSE {})

\* What the menu of another member of role other offers to a person of role own.
MemberMenu(own, other) ==
  IF own = "member" THEN {}
  ELSE (IF other = "member" THEN {"post"} ELSE {})
       \cup (IF own = "owner" /\ other # "owner" THEN {"role", "hand over"} ELSE {})
       \cup (IF other # "owner" THEN {"remove"} ELSE {})

MayAct == act = NoAct /\ moves < MaxMoves
BeginAct(kind, r) == act' = [kind |-> kind, room |-> r] /\ moves' = moves + 1

RoomAct(kind, r) ==
  /\ MayAct /\ r \in DOMAIN mine /\ kind \in RoomMenu(r) /\ BeginAct(kind, r)
  /\ UNCHANGED <<theirs, wrote, roomEvents, listVars, detailVars, openRoom, looking, noteVars>>

\* An invitation is accepted, which the bound does not count: a person accepts
\* only what they are not in.
AcceptInvite(r) ==
  /\ act = NoAct /\ r \notin DOMAIN mine /\ r \notin DOMAIN theirs /\ act' = [kind |-> "accept", room |-> r]
  /\ UNCHANGED <<theirs, wrote, moves, roomEvents, listVars, detailVars, openRoom, looking, noteVars>>

MemberAct(r) ==
  /\ MayAct /\ detail = r /\ openRoom = r /\ r \in DOMAIN mine
  /\ \E other \in Roles : MemberMenu(mine[r].role, other) # {}
  /\ BeginAct("member", r)
  /\ UNCHANGED <<theirs, wrote, roomEvents, listVars, detailVars, openRoom, looking, noteVars>>

\* What an act makes of the person's rooms at the server.
Done(a) ==
  LET r == a.room IN
  CASE a.kind = "leave" -> [x \in DOMAIN theirs \ {r} |-> theirs[x]]
    [] a.kind = "accept" -> [x \in DOMAIN theirs \cup {r} |->
                              IF x \notin DOMAIN theirs THEN [unread |-> 0, mute |-> "none", role |-> "member"] ELSE theirs[x]]
    [] (r \notin DOMAIN theirs /\ a.kind # "accept") \/ a.kind = "member" -> theirs
    [] a.kind = "read" -> [theirs EXCEPT ![r].unread = 0]
    [] a.kind = "unread" -> [theirs EXCEPT ![r].unread = IF @ = 0 THEN 1 ELSE @]
    [] OTHER -> [theirs EXCEPT ![r].mute = IF a.kind = "unmute" THEN "none" ELSE a.kind]

\* The act is answered: an overview is asked for; a room marked unread or left is
\* no longer shown, one that was entered is. An act on a member asks for nothing more
\* than the details it is answered with, which count only for the room shown.
ActDone ==
  /\ act # NoAct /\ act' = NoAct /\ theirs' = Done(act)
  /\ IF act.kind = "member"
     THEN /\ detail' = (IF act.room = openRoom THEN openRoom ELSE detail)
          /\ UNCHANGED <<openRoom, detailAsks, views>>
     ELSE /\ views' = Asked
          /\ IF act.kind \in {"unread", "leave"} /\ openRoom = act.room THEN GoTo(NoRoom)
             ELSE IF act.kind = "accept" THEN GoTo(act.room) ELSE UNCHANGED <<openRoom, detailVars>>
  /\ UNCHANGED <<wrote, moves, roomEvents, mine, again, looking, noteVars>>

ActFails ==
  /\ act # NoAct /\ act' = NoAct
  /\ UNCHANGED <<teamVars, roomEvents, listVars, detailVars, openRoom, looking, noteVars>>

Overviews == \/ Poll \/ \E i \in DOMAIN views : ViewServed(i) \/ ViewAnswered(i)
             \/ \E i \in DOMAIN views : ViewFails(i)
RoomEvents == WriteEvent \/ GroupEvent \/ DeletedEvent \/ GameInvite \/ TypingHere \/ ReactionEvent
RoomListNext ==
  \/ \E r \in Rooms : TheyWrite(r) \/ \E type \in OtherEvents : TheyTell(r, type)
  \/ Overviews \/ RoomEvents \/ StreamOpensAgain \/ TypingFades \/ ToastFades \/ DismissMention \/ Look \/ RoomIsRead
  \/ \E r \in Rooms \cup {NoRoom} : OpenRoom(r)
  \/ \E r \in Rooms : \/ DetailAnswered(r) \/ AcceptInvite(r) \/ MemberAct(r)
                      \/ \E kind \in ActKinds : RoomAct(kind, r)
  \/ ActDone \/ ActFails
RoomListSpec == RoomListInit /\ [][RoomListNext]_allListVars

\* The clock ticks, events that came are handled, the server answers what it is
\* asked, and not every answer is lost for ever.
RoomListFair ==
  /\ WF_allListVars(Poll) /\ WF_allListVars(RoomEvents \/ StreamOpensAgain)
  /\ SF_allListVars(\E i \in DOMAIN views : i = 1 /\ ViewServed(i))
  /\ SF_allListVars(\E i \in DOMAIN views : i = 1 /\ ViewAnswered(i))

---------------------------------------------------------------------------
(* Property. *)

\* The list is the server's, unless the person still looks at a room the server has not
\* heard of being read.
RoomsAgree == \A r \in DOMAIN mine \cup DOMAIN theirs :
                /\ r \in DOMAIN mine \cap DOMAIN theirs
                /\ mine[r] = theirs[r] \/ (openRoom = r /\ mine[r] = [theirs[r] EXCEPT !.unread = mine[r].unread])
\* Events and answers cross, are lost and are counted twice on the way, but the list
\* catches up: once nothing changes any more it agrees with the server for good.
RoomsCatchUp == <>[]RoomsAgree
===============================================================================
