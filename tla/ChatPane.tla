-------------------------------- MODULE ChatPane --------------------------------
(***************************************************************************)
(* The open WhatsApp conversation of one agent: the messages on the screen  *)
(* (pages that are fetched, events of the live stream, what the agent       *)
(* sends), the composer with its draft, and closing the conversation.       *)
(*                                                                          *)
(* The server's messages are the sequence chatLog; a message's id is its    *)
(* place in it. What the agent writes is a sequence of Parts: a text, or    *)
(* files with the text as the first one's caption, each a message of its    *)
(* own. A part that is tried again has a new client id, its try.            *)
(*                                                                          *)
(* Bounds: at most MaxLog messages, MaxPartTries tries, reports up to the rank  *)
(* MaxReports, PageRows messages on a page, MaxPages pages under way.       *)
(***************************************************************************)
EXTENDS Naturals, Sequences, FiniteSets, Functions

CONSTANTS Parts, NoPart, MaxLog, MaxPartTries, MaxReports, PageRows, MaxPages

ASSUME ChatPaneAssumption == NoPart \notin Parts /\ PageRows \in Nat

VARIABLES
  chatLog,              \* the server's messages
  chatClosed,           \* the conversation is resolved
  readUpTo,             \* the newest customer message marked as read
  chatNews,             \* events on their way to the pane
  paneOpen,             \* the agent has the conversation open
  pane,                 \* the rows shown
  pageOf,               \* the page requests under way and their answers
  box, going,           \* the composer's parts; the parts being sent, in order
  noting,               \* the composer writes an internal note
  draft,                \* the parts kept for the conversation when it is left
  partTries, trying,        \* tries begun; the state of the one under way
  closing,              \* the state of the request that closes the conversation
  seen,                 \* the customer's messages that were ever on this agent's screen
  blind                 \* the part under way was begun with no stored message on the screen

logVars == <<chatLog, chatClosed, readUpTo, chatNews>>
partVars == <<box, going, noting, draft, partTries, trying, blind>>
chatVars == <<logVars, paneOpen, pane, pageOf, partVars, closing, seen>>

PageKinds == {"first", "older", "around", "after"}
Directions == {"in", "out", "note"}
StatusRank == [queued |-> 0, sent |-> 1, delivered |-> 2, read |-> 3]
\* A row of the screen or of the server: id 0 is one the server has not stored;
\* try 0 is one without a client id.
Messages == [id : 0 .. MaxLog, try : 0 .. MaxPartTries, part : Parts \cup {NoPart}, direction : Directions,
             status : DOMAIN StatusRank]

ChatPaneTypeOK ==
  /\ \A i \in DOMAIN chatLog : chatLog[i] \in Messages /\ chatLog[i].id = i
  /\ pane \subseteq Messages /\ paneOpen \in BOOLEAN /\ chatClosed \in BOOLEAN
  /\ readUpTo \in 0 .. MaxLog /\ partTries \in 0 .. MaxPartTries
  /\ \A p \in PageKinds : pageOf[p].state \in {"none", "asked", "answered"}
  /\ box \in Seq(Parts) /\ going \in Seq(Parts) /\ draft \in Seq(Parts) /\ noting \in BOOLEAN
  /\ trying \in {"none", "asked", "stored", "refused"} /\ closing \in {"none", "asked", "closed", "unseen", "failed"}
  /\ seen \subseteq 1 .. MaxLog /\ blind \in BOOLEAN

NotAsked == [state |-> "none", rows |-> {}, mark |-> 0]

ChatPaneInit ==
  /\ chatLog = <<[id |-> 1, try |-> 0, part |-> NoPart, direction |-> "in", status |-> "read"]>>
  /\ chatClosed = FALSE /\ readUpTo = 0 /\ chatNews = <<>>
  /\ paneOpen = FALSE /\ pane = {} /\ pageOf = [p \in PageKinds |-> NotAsked]
  /\ box = <<>> /\ going = <<>> /\ noting = FALSE /\ draft = <<>> /\ partTries = 0 /\ trying = "none"
  /\ closing = "none" /\ seen = {} /\ blind = FALSE

---------------------------------------------------------------------------
(* The rows shown. *)

Stored(rows) == {m \in rows : m.id > 0}
OldestRow(rows) == CHOOSE n \in {m.id : m \in Stored(rows)} : \A m \in Stored(rows) : n <= m.id
newestSeen(rows) ==
  IF Stored(rows) = {} THEN 0 ELSE CHOOSE n \in {m.id : m \in Stored(rows)} : \A m \in Stored(rows) : m.id <= n

\* The row a message is put in the place of: the one with its id, or else, not
\* stored yet, the one with its client id.
ById(rows, m) == {x \in rows : x.id > 0 /\ x.id = m.id}
ByTry(rows, m) == {x \in rows : m.try > 0 /\ x.try = m.try}
PlaceOf(rows, m) == IF ById(rows, m) # {} THEN ById(rows, m) ELSE ByTry(rows, m)

\* mergeMessage: the row of a message is replaced, its status never goes back,
\* and the ones sent before a delivered one are delivered too.
MergeInto(rows, old, m) ==
  LET kept == IF \E x \in old : StatusRank[x.status] > StatusRank[m.status]
              THEN [m EXCEPT !.status = (CHOOSE x \in old : TRUE).status] ELSE m
      rank == StatusRank[m.status]
      caughtUp(x) == /\ m.direction = "out" /\ rank >= 2 /\ x.direction = "out" /\ x.id \in 1 .. m.id - 1
                     /\ x.status = "sent" \/ (rank = 3 /\ x.status = "delivered") IN
  {IF caughtUp(x) THEN [x EXCEPT !.status = m.status] ELSE x : x \in (rows \ old) \cup {kept}}
\* A mutant of Merge: the client id is not looked at.
MergeById(rows, m) == MergeInto(rows, ById(rows, m), m)
Merge(rows, m) == MergeInto(rows, PlaceOf(rows, m), m)

\* One by one, the older ones first.
MergeOne(shown, rows, n) ==
  IF \E m \in rows : m.id = n THEN Merge(shown, CHOOSE m \in rows : m.id = n) ELSE shown
MergeAll(shown, rows) ==
  LET merged[n \in 0 .. Len(chatLog)] == IF n = 0 THEN shown ELSE MergeOne(merged[n - 1], rows, n)
  IN  merged[Len(chatLog)]

Show(rows) == pane' = rows /\ seen' = seen \cup {m.id : m \in {x \in rows : x.direction = "in"}}

---------------------------------------------------------------------------
(* The server and its events: MaxLog bounds what the customer writes. *)

Publish(m) == chatNews' = IF paneOpen THEN Append(chatNews, m) ELSE <<>>

CustomerWrites ==
  /\ Cardinality({i \in DOMAIN chatLog : chatLog[i].direction = "in"}) < MaxLog - MaxPartTries
  /\ LET m == [id |-> Len(chatLog) + 1, try |-> 0, part |-> NoPart, direction |-> "in", status |-> "read"] IN
       chatLog' = Append(chatLog, m) /\ Publish(m)
  /\ chatClosed' = FALSE
  /\ UNCHANGED <<readUpTo, paneOpen, pane, pageOf, partVars, closing, seen>>

\* WhatsApp reports how far a message got.
Reported(i) ==
  \E s \in {"sent", "delivered", "read"} :
    /\ chatLog[i].direction = "out" /\ StatusRank[s] > StatusRank[chatLog[i].status]
    /\ StatusRank[s] <= MaxReports
    /\ chatLog' = [chatLog EXCEPT ![i].status = s] /\ Publish(chatLog'[i])
    /\ UNCHANGED <<chatClosed, readUpTo, paneOpen, pane, pageOf, partVars, closing, seen>>

\* The stream hands the pane an event, or it was lost with its connection.
NewsArrives ==
  /\ chatNews # <<>> /\ chatNews' = Tail(chatNews)
  /\ Show(Merge(pane, Head(chatNews)))
  /\ UNCHANGED <<chatLog, chatClosed, readUpTo, paneOpen, pageOf, partVars, closing>>

NewsLost ==
  /\ chatNews # <<>> /\ chatNews' = <<>>
  /\ UNCHANGED <<chatLog, chatClosed, readUpTo, paneOpen, pane, pageOf, partVars, closing, seen>>

---------------------------------------------------------------------------
(* Pages. *)

MorePages == Cardinality({p \in PageKinds : pageOf[p] # NotAsked}) < MaxPages
AskPage(p, mark) == pageOf' = [pageOf EXCEPT ![p] = [state |-> "asked", rows |-> {}, mark |-> mark]]
LogRows(ids) == {chatLog[i] : i \in ids \cap DOMAIN chatLog}

\* A draft comes back to the box.
DraftBack == box' = draft
\* The conversation is opened: the newest page is asked for, the draft is back.
OpenPane ==
  /\ ~paneOpen /\ paneOpen' = TRUE /\ pane' = {} /\ chatNews' = <<>>
  /\ AskPage("first", 0) /\ DraftBack
  /\ UNCHANGED <<chatLog, chatClosed, readUpTo, going, noting, draft, partTries, trying, blind, closing, seen>>

\* Scrolled to the top: the page before the oldest row.
OlderPage ==
  /\ paneOpen /\ MorePages /\ pageOf["older"] = NotAsked /\ pageOf["first"] = NotAsked /\ Stored(pane) # {}
  /\ AskPage("older", OldestRow(pane))
  /\ UNCHANGED <<logVars, paneOpen, pane, partVars, closing, seen>>

\* A search hit that is not on the screen: the page around it.
Jump(i) ==
  /\ paneOpen /\ MorePages /\ pageOf["around"] = NotAsked /\ i \in DOMAIN chatLog /\ i \notin {m.id : m \in pane}
  /\ AskPage("around", i)
  /\ UNCHANGED <<logVars, paneOpen, pane, partVars, closing, seen>>

PageServed(p) ==
  /\ pageOf[p].state = "asked"
  /\ LET k == pageOf[p].mark
         n == Len(chatLog) IN
       pageOf' = [pageOf EXCEPT ![p].state = "answered", ![p].rows =
                    LogRows(CASE p = "first" -> n - PageRows + 1 .. n
                              [] p = "older" -> k - PageRows .. k - 1
                              [] p = "around" -> k .. k + PageRows - 1
                              [] p = "after" -> k + 1 .. n)]
  /\ UNCHANGED <<logVars, paneOpen, pane, partVars, closing, seen>>

\* The first page and a page around a hit replace the rows, an older page joins
\* them, the rows after a refused closing are merged one by one.
PageArrives(p) ==
  /\ pageOf[p].state = "answered" /\ pageOf' = [pageOf EXCEPT ![p] = NotAsked]
  /\ LET rows == pageOf[p].rows IN
       Show(CASE p \in {"first", "around"} -> rows
              [] p = "older" -> pane \cup {m \in rows : \A x \in pane : x.id # m.id}
              [] p = "after" -> MergeAll(pane, rows))
  /\ UNCHANGED <<logVars, paneOpen, partVars, closing>>

PageFails(p) ==
  /\ pageOf[p] # NotAsked /\ pageOf' = [pageOf EXCEPT ![p] = NotAsked]
  /\ UNCHANGED <<logVars, paneOpen, pane, partVars, closing, seen>>

\* What is written first has the text; the files after it are not kept.
TextOf(parts) == IF parts = <<>> THEN <<>> ELSE <<Head(parts)>>
\* The conversation is left: answers on their way change nothing any more, and
\* the text of the box is kept as its draft.
LeavePane ==
  /\ paneOpen /\ paneOpen' = FALSE /\ pane' = {} /\ pageOf' = [p \in PageKinds |-> NotAsked] /\ chatNews' = <<>>
  /\ draft' = TextOf(box) /\ box' = <<>>
  /\ closing' = IF closing = "asked" THEN closing ELSE "none"
  /\ UNCHANGED <<chatLog, chatClosed, readUpTo, going, noting, partTries, trying, blind, seen>>

\* Half a second on the screen: the newest customer message is read.
MarkRead ==
  LET lastIn == newestSeen({m \in pane : m.direction = "in"}) IN
  /\ paneOpen /\ lastIn > readUpTo /\ readUpTo' = lastIn
  /\ UNCHANGED <<chatLog, chatClosed, chatNews, paneOpen, pane, pageOf, partVars, closing, seen>>

---------------------------------------------------------------------------
(* The composer. *)

\* A part is written or chosen; what was said already may be said again.
Write(p) ==
  /\ paneOpen /\ p \notin Range(box) /\ Len(box) < 2 /\ box' = Append(box, p)
  /\ UNCHANGED <<logVars, paneOpen, pane, pageOf, going, noting, draft, partTries, trying, blind, closing, seen>>

\* Between the customer and the colleagues.
SetMode ==
  /\ paneOpen /\ going = <<>> /\ noting' = ~noting
  /\ UNCHANGED <<logVars, paneOpen, pane, pageOf, box, going, draft, partTries, trying, blind, closing, seen>>

\* The row of a part shows at once, before the server has it.
Shown == [id |-> 0, try |-> partTries + 1, part |-> Head(going'), direction |-> IF noting THEN "note" ELSE "out",
          status |-> "queued"]

\* send: the box is emptied; a note carries one part.
Send ==
  /\ paneOpen /\ box # <<>> /\ going = <<>> /\ trying = "none" /\ partTries < MaxPartTries
  /\ noting \/ ~chatClosed
  /\ noting => Len(box) = 1
  /\ going' = box /\ box' = <<>> /\ trying' = "asked" /\ partTries' = partTries + 1
  /\ pane' = pane \cup {Shown} /\ blind' = (Stored(pane) = {})
  /\ UNCHANGED <<logVars, paneOpen, pageOf, noting, draft, closing, seen>>

\* The server stores the part, or refuses it. A note has no client id there.
PartServed ==
  /\ trying = "asked"
  /\ \/ /\ LET m == [id |-> Len(chatLog) + 1, try |-> IF noting THEN 0 ELSE partTries, part |-> Head(going),
                     direction |-> IF noting THEN "note" ELSE "out", status |-> "queued"] IN
             chatLog' = Append(chatLog, m) /\ Publish(m)
        /\ trying' = "stored"
     \/ trying' = "refused" /\ UNCHANGED <<chatLog, chatNews>>
  /\ UNCHANGED <<chatClosed, readUpTo, paneOpen, pane, pageOf, box, going, noting, draft, partTries, blind, closing, seen>>

\* The part is at the server: its row becomes the stored one, and the next part goes.
SendAnswered ==
  /\ trying = "stored"
  /\ LET saved == [(CHOOSE m \in Range(chatLog) : m.part = Head(going) /\ \A x \in Range(chatLog) :
                      x.part = Head(going) => x.id <= m.id) EXCEPT !.try = partTries]
         rows == Merge({m \in pane : m.try # partTries \/ m.id = saved.id}, saved) IN
       IF Len(going) > 1 /\ partTries < MaxPartTries
       THEN /\ going' = Tail(going) /\ trying' = "asked" /\ partTries' = partTries + 1
            /\ IF paneOpen THEN Show(rows \cup {Shown}) ELSE UNCHANGED <<pane, seen>>
            /\ UNCHANGED box
       ELSE /\ going' = <<>> /\ trying' = "none" /\ UNCHANGED <<partTries, box>>
            /\ IF paneOpen THEN Show(rows) ELSE UNCHANGED <<pane, seen>>
  /\ blind' = FALSE
  /\ UNCHANGED <<logVars, paneOpen, pageOf, noting, draft, closing>>

\* The send was refused, or its answer was lost: its row goes, and what did not go
\* is handed back to the box unless something else was written there meanwhile.
SendFails ==
  /\ trying \in {"asked", "stored", "refused"} /\ trying' = "none" /\ going' = <<>>
  /\ pane' = {m \in pane : m.try # partTries} /\ blind' = FALSE
  /\ box' = IF paneOpen /\ box = <<>> THEN going ELSE box
  /\ UNCHANGED <<logVars, paneOpen, pageOf, noting, draft, partTries, closing, seen>>

---------------------------------------------------------------------------
(* Closing the conversation. *)

\* resolveNow tells the server the newest message on the screen.
Resolve ==
  /\ paneOpen /\ ~chatClosed /\ closing = "none"
  /\ \/ /\ \E i \in DOMAIN chatLog : chatLog[i].direction = "in" /\ i > newestSeen(pane) /\ newestSeen(pane) > 0
        /\ closing' = "unseen" /\ UNCHANGED chatClosed
     \/ /\ ~ \E i \in DOMAIN chatLog : chatLog[i].direction = "in" /\ i > newestSeen(pane) /\ newestSeen(pane) > 0
        /\ closing' = "closed" /\ chatClosed' = TRUE
     \/ closing' = "failed" /\ UNCHANGED chatClosed
  /\ UNCHANGED <<chatLog, readUpTo, chatNews, paneOpen, pane, pageOf, partVars, seen>>

\* A refusal for something unseen fetches what came after the newest row.
ResolveRefused ==
  /\ closing \in {"unseen", "failed"} /\ closing' = "none"
  /\ IF closing = "unseen" /\ paneOpen /\ MorePages THEN AskPage("after", newestSeen(pane)) ELSE UNCHANGED pageOf
  /\ UNCHANGED <<logVars, paneOpen, pane, partVars, seen>>

Reopen ==
  /\ paneOpen /\ chatClosed /\ chatClosed' = FALSE /\ closing' = "none"
  /\ UNCHANGED <<chatLog, readUpTo, chatNews, paneOpen, pane, pageOf, partVars, seen>>

ChatPaneNext ==
  \/ CustomerWrites \/ (\E i \in DOMAIN chatLog : Reported(i)) \/ NewsArrives \/ NewsLost
  \/ OpenPane \/ LeavePane \/ OlderPage \/ (\E i \in 1 .. MaxLog : Jump(i)) \/ MarkRead
  \/ \E p \in PageKinds : PageServed(p) \/ PageArrives(p) \/ PageFails(p)
  \/ \E p \in Parts : Write(p)
  \/ SetMode \/ Send \/ PartServed \/ SendAnswered \/ SendFails
  \/ Resolve \/ ResolveRefused \/ Reopen
ChatPaneSpec == ChatPaneInit /\ [][ChatPaneNext]_chatVars

---------------------------------------------------------------------------
(* Properties. *)

\* A message comes to the screen by four ways (the row shown at once, the answer of
\* the send, the event of the stream, a page), in any order: no message to the customer
\* is ever shown twice. But for a part sent before any message had loaded: when its
\* event is lost, and a later message's is not, an older page brings the part while its
\* own row still waits for the answer.
NoTwins ==
  \A a, b \in pane : a # b /\ a.direction = "out" /\ b.direction = "out"
                       => a.id # b.id /\ (a.try = b.try => blind /\ a.try = partTries)

\* The comment of send, "hand back only what did not go": what the box holds and the
\* agent did not write again is not at the server.
HandedBackDidNotGo == [][SendFails /\ box' # box => \A m \in Range(chatLog) : m.part # Head(box')]_chatVars

\* The comment of Composer, "nothing is lost: what was not sent comes back to the box".
NothingIsLost ==
  [][SendFails /\ (\A m \in Range(chatLog) : m.part # Head(going)) => Head(going) \in Range(box') \cup Range(draft')]_chatVars

\* The comment of newestSeen, "a customer message the agent has not seen keeps the
\* chat open", once its first page is loaded.
UnseenKeepsOpen ==
  [][~chatClosed /\ chatClosed' /\ Stored(pane) # {} /\ pageOf["first"] = NotAsked
     => \A i \in DOMAIN chatLog : chatLog[i].direction = "in" => i \in seen]_chatVars
===============================================================================
