--------------------------------- MODULE Inbox ---------------------------------
(***************************************************************************)
(* The WhatsApp inbox of one person's panel: the server gives every change  *)
(* of a conversation a version and tells the live stream; the panel keeps   *)
(* the conversations it was told of, and fetches what changed after the     *)
(* newest version it knows when the stream comes back, and every minute.    *)
(*                                                                          *)
(* A conversation is its version, its newest message of the customer and    *)
(* where it belongs: mine, the pool, the waiting list, a colleague's,       *)
(* resolved, or "unseen" for one the person may not see.                    *)
(*                                                                          *)
(* Bounds: MaxChanges changes at the server, MaxNotes notices, as many      *)
(* requests under way as Slots, PageSize changes in one answer; a change    *)
(* takes a conversation to one of NewHomes.                                 *)
(***************************************************************************)
EXTENDS Naturals, Sequences, FiniteSets

CONSTANTS Chats, NoChat, NoRow, NoPoll, Slots, MaxChanges, MaxNotes, PageSize, NewHomes

VARIABLES
  rows, newestVersion,   \* the server's conversations and its newest version
  notes,                 \* how many notices it sent
  streaming, pipe,       \* the stream is open; what is on its way on it
  polls,                 \* requests for the list and their answers
  rowsHere, versionHere, \* the panel's conversations and the newest version it knows
  openChat,              \* the conversation on the screen
  typingIn, alerts,      \* who is typing where; the short alerts shown, by chat
  rang                   \* conversations a sound was played for

serverVars == <<rows, newestVersion, notes>>
streamVars == <<streaming, pipe>>
viewVars == <<openChat, typingIn, alerts, rang>>
inboxVars == <<serverVars, streamVars, polls, rowsHere, versionHere, viewVars>>

Homes == {"mine", "pool", "waiting", "others", "resolved", "unseen"}
Rows == [version : 0 .. MaxChanges + Cardinality(Chats), last : 0 .. MaxChanges, home : Homes]
\* "wa.waiting" and "wa.callback" are handled as "wa.assigned" is.
NoticeKinds == {"wa.typing", "wa.assigned", "wa.alert"}

isResolved(r) == r.home = "resolved"
Buckets == {"mine", "waiting", "pool", "team", "resolved"}
inBucket(r, b) == IF b = "team" THEN ~isResolved(r) ELSE r.home = b
\* A message of these conversations is announced with a sound.
Concerns(r) == r.home \in {"mine", "pool", "waiting"}
Visible(c) == rows[c].home # "unseen"

InboxTypeOK ==
  /\ rows \in [Chats -> Rows] /\ rowsHere \in [Chats -> Rows \cup {NoRow}]
  /\ versionHere \in 0 .. newestVersion /\ streaming \in BOOLEAN
  /\ openChat \in Chats \cup {NoChat}
  /\ typingIn \cup alerts \cup rang \subseteq Chats
  /\ \A s \in Slots : polls[s] = NoPoll \/ polls[s].state \in {"asked", "answered"}

InboxInit ==
  /\ \E n \in [Chats -> 1 .. Cardinality(Chats)] : \E h \in [Chats -> {"mine", "unseen"}] :
       /\ \A c, d \in Chats : c # d => n[c] # n[d]
       /\ rows = [c \in Chats |-> [version |-> n[c], last |-> 0, home |-> h[c]]]
  /\ newestVersion = Cardinality(Chats) /\ notes = 0
  /\ streaming = FALSE /\ pipe = <<>>
  /\ polls = [s \in Slots |-> NoPoll]
  /\ rowsHere = [c \in Chats |-> NoRow] /\ versionHere = 0
  /\ openChat = NoChat /\ typingIn = {} /\ alerts = {} /\ rang = {}

---------------------------------------------------------------------------
(* The server. *)

Tell(e) == pipe' = IF streaming THEN Append(pipe, e) ELSE pipe

\* A conversation changes: a message of the customer, an assignment, a closing.
\* Who sees it is told what it became; who no longer sees it, that it is gone.
ChatChanges(c) ==
  \E h \in NewHomes : \E incoming \in BOOLEAN :
    LET r == [version |-> newestVersion + 1, last |-> rows[c].last + (IF incoming THEN 1 ELSE 0), home |-> h] IN
    /\ newestVersion < MaxChanges + Cardinality(Chats)
    /\ incoming => h # "resolved"
    /\ rows' = [rows EXCEPT ![c] = r] /\ newestVersion' = newestVersion + 1
    /\ Tell(IF h = "unseen" THEN [type |-> "wa.gone", chat |-> c]
            ELSE [type |-> "wa.conv", chat |-> c, row |-> r, incoming |-> incoming])
    /\ UNCHANGED <<notes, streaming, polls, rowsHere, versionHere, viewVars>>

Notice(c) ==
  \E k \in NoticeKinds :
    /\ notes < MaxNotes /\ notes' = notes + 1 /\ streaming
    /\ Tell([type |-> k, chat |-> c])
    /\ UNCHANGED <<rows, newestVersion, streaming, polls, rowsHere, versionHere, viewVars>>

---------------------------------------------------------------------------
(* The stream: it reopens after every loss, and says hello first. *)

StreamOpens ==
  /\ ~streaming /\ streaming' = TRUE /\ pipe' = <<[type |-> "hello"]>>
  /\ UNCHANGED <<serverVars, polls, rowsHere, versionHere, viewVars>>

StreamDrops ==
  /\ streaming /\ streaming' = FALSE /\ pipe' = <<>>
  /\ UNCHANGED <<serverVars, polls, rowsHere, versionHere, viewVars>>

---------------------------------------------------------------------------
(* Polls: reload, and sync in rounds of at most PageSize changes. *)

Poll(s, since) ==
  polls' = [polls EXCEPT ![s] = [state |-> "asked", since |-> since,
                                 items |-> [c \in Chats |-> NoRow], hidden |-> {}, top |-> 0]]
Free(s) == s = CHOOSE x \in Slots : polls[x] = NoPoll
SomeFree == \E s \in Slots : polls[s] = NoPoll

\* sync: only what changed after the newest version known, or everything before the first answer.
SyncBegins(s) == SomeFree /\ Free(s) /\ Poll(s, versionHere)

\* The timer, the page shown again, the page opening.
Sync(s) ==
  /\ SyncBegins(s)
  /\ UNCHANGED <<serverVars, streamVars, rowsHere, versionHere, viewVars>>

Reload(s) ==
  /\ SomeFree /\ Free(s) /\ versionHere > 0 /\ Poll(s, 0)
  /\ UNCHANGED <<serverVars, streamVars, rowsHere, versionHere, viewVars>>

\* The rows of an answer: the oldest PageSize changes after since, or the whole inbox.
Changed(since) == {c \in Chats : rows[c].version > since}
InPage(since) ==
  {c \in Changed(since) :
     since = 0 \/ Cardinality({d \in Changed(since) : rows[d].version < rows[c].version}) < PageSize}

\* The newest version is read after the rows, unless the answer is full; a
\* change between the two reads is counted as answered.
Serves(s) ==
  /\ polls[s] # NoPoll /\ polls[s].state = "asked"
  /\ LET p == polls[s]
         page == InPage(p.since)
         full == p.since > 0 /\ Cardinality(page) = PageSize
         last == CHOOSE v \in {rows[c].version : c \in page} : \A c \in page : rows[c].version <= v IN
       polls' = [polls EXCEPT ![s] =
                   [p EXCEPT !.state = "answered",
                             !.items = [c \in Chats |-> IF c \in page /\ Visible(c) THEN rows[c] ELSE NoRow],
                             !.hidden = IF p.since = 0 THEN {} ELSE {c \in page : ~Visible(c)},
                             !.top = IF full THEN last ELSE newestVersion]]
  /\ UNCHANGED <<serverVars, streamVars, rowsHere, versionHere, viewVars>>

\* apply: a row replaces an older one; what is hidden goes, whatever its version.
\* A mutant of it: the answer always wins.
ApplyBlindly(items, hidden) ==
  rowsHere' = [c \in Chats |-> IF c \in hidden THEN NoRow
                               ELSE IF items[c] # NoRow THEN items[c] ELSE rowsHere[c]]
Apply(items, hidden) ==
  rowsHere' = [c \in Chats |->
                 IF c \in hidden THEN NoRow
                 ELSE IF items[c] # NoRow /\ (rowsHere[c] = NoRow \/ rowsHere[c].version <= items[c].version)
                 THEN items[c] ELSE rowsHere[c]]

Known(v) == IF v > versionHere THEN v ELSE versionHere

\* The answer of reload: the panel's list is replaced by it.
Reloaded(s) ==
  /\ polls[s] # NoPoll /\ polls[s].state = "answered" /\ polls[s].since = 0
  /\ rowsHere' = polls[s].items /\ versionHere' = polls[s].top
  /\ polls' = [polls EXCEPT ![s] = NoPoll]
  /\ UNCHANGED <<serverVars, streamVars, viewVars>>

\* A round of sync: a full answer is followed by the next round at once.
Synced(s) ==
  /\ polls[s] # NoPoll /\ polls[s].state = "answered" /\ polls[s].since > 0
  /\ LET p == polls[s]
         n == Cardinality({c \in Chats : p.items[c] # NoRow}) + Cardinality(p.hidden) IN
       /\ Apply(p.items, p.hidden) /\ versionHere' = Known(p.top)
       /\ IF n < PageSize THEN polls' = [polls EXCEPT ![s] = NoPoll] ELSE Poll(s, versionHere')
  /\ UNCHANGED <<serverVars, streamVars, viewVars>>

\* The request fails, before the server saw it or after: another poll tries again.
PollFails(s) ==
  /\ polls[s] # NoPoll /\ polls' = [polls EXCEPT ![s] = NoPoll]
  /\ UNCHANGED <<serverVars, streamVars, rowsHere, versionHere, viewVars>>

---------------------------------------------------------------------------
(* Events: handle. *)

NextIs(type) == pipe # <<>> /\ Head(pipe).type = type /\ pipe' = Tail(pipe)

Hello(s) ==
  /\ NextIs("hello") /\ SyncBegins(s)
  /\ UNCHANGED <<serverVars, streaming, rowsHere, versionHere, viewVars>>

\* A new message of a conversation that concerns the person sounds, unless they
\* are looking at it; a message of a colleague clears who was typing.
ConvEvent ==
  /\ NextIs("wa.conv")
  /\ LET e == Head(pipe)
         before == rowsHere[e.chat]
         fresh == e.incoming /\ (before = NoRow \/ before.last < e.row.last) IN
       /\ versionHere' = Known(e.row.version)
       /\ Apply([c \in Chats |-> IF c = e.chat THEN e.row ELSE NoRow], {})
       /\ rang' = IF fresh /\ openChat # e.chat /\ Concerns(e.row) THEN rang \cup {e.chat} ELSE rang
       /\ typingIn' = IF e.incoming THEN typingIn ELSE typingIn \ {e.chat}
  /\ UNCHANGED <<serverVars, streaming, polls, openChat, alerts>>

GoneEvent ==
  /\ NextIs("wa.gone") /\ rowsHere' = [rowsHere EXCEPT ![Head(pipe).chat] = NoRow]
  /\ UNCHANGED <<serverVars, streaming, polls, versionHere, viewVars>>

TypingEvent ==
  /\ NextIs("wa.typing") /\ typingIn' = typingIn \cup {Head(pipe).chat}
  /\ UNCHANGED <<serverVars, streaming, polls, rowsHere, versionHere, openChat, alerts, rang>>

AlertEvent ==
  /\ \E k \in NoticeKinds \ {"wa.typing"} : NextIs(k)
  /\ alerts' = alerts \cup {Head(pipe).chat}
  /\ rang' = IF Head(pipe).type = "wa.alert" THEN rang ELSE rang \cup {Head(pipe).chat}
  /\ UNCHANGED <<serverVars, streaming, polls, rowsHere, versionHere, openChat, typingIn>>

\* Labels and alerts go by themselves after a while.
Fade ==
  /\ typingIn \cup alerts # {} /\ typingIn' = {} /\ alerts' = {}
  /\ UNCHANGED <<serverVars, streamVars, polls, rowsHere, versionHere, openChat, rang>>

SetOpen(c) ==
  /\ openChat # c /\ openChat' = c /\ rang' = rang \ {c}
  /\ UNCHANGED <<serverVars, streamVars, polls, rowsHere, versionHere, typingIn, alerts>>

\* The conversations under a chip of the list; a row of it is opened by a click.
Listed(b) == {c \in Chats : rowsHere[c] # NoRow /\ inBucket(rowsHere[c], b)}
OpenFromList == \E b \in Buckets : \E c \in Listed(b) : SetOpen(c)

\* A conversation that is not in the list is opened by its address, if the person may see it.
OpenByAddress(c) == rowsHere[c] = NoRow /\ Visible(c) /\ SetOpen(c)

InboxNext ==
  \/ \E c \in Chats : ChatChanges(c) \/ Notice(c)
  \/ StreamOpens \/ StreamDrops
  \/ \E s \in Slots : Sync(s) \/ Reload(s) \/ Serves(s) \/ Reloaded(s) \/ Synced(s) \/ PollFails(s) \/ Hello(s)
  \/ ConvEvent \/ GoneEvent \/ TypingEvent \/ AlertEvent \/ Fade
  \/ OpenFromList \/ (\E c \in Chats : OpenByAddress(c)) \/ SetOpen(NoChat)
InboxSpec == InboxInit /\ [][InboxNext]_inboxVars

---------------------------------------------------------------------------
(* Properties. *)

\* Answers and events come in any order, and the same change comes by both ways:
\* a conversation shown never goes back to an older version of itself, except by a
\* reload, which takes the whole list from the server again.
GoesNotBack ==
  \A c \in Chats :
    rowsHere[c] # NoRow /\ rowsHere'[c] # NoRow /\ rowsHere'[c].version < rowsHere[c].version
      => \E s \in Slots : Reloaded(s)
NeverBack == [][GoesNotBack]_inboxVars

\* The context's own words, "so nothing is missed": once nothing is on its way, a
\* change the panel does not show is one that a later poll still fetches.
NothingMissed ==
  pipe = <<>> /\ versionHere > 0 /\ (\A s \in Slots : polls[s] = NoPoll)
    => \A c \in Chats : \/ rows[c].version > versionHere
                       \/ rowsHere[c] = (IF Visible(c) THEN rows[c] ELSE NoRow)
===============================================================================
