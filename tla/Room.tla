---------------------------------- MODULE Room ----------------------------------
(***************************************************************************)
(* One room of the team chat on one person's screen: the messages shown     *)
(* (the page fetched when the room opens, older and newer pages, the page   *)
(* around a search hit, events of the live stream), the composer with the   *)
(* room's draft and the editing of an own message, and the file tray.       *)
(*                                                                          *)
(* The room's messages are the sequence roomLog; an id is a place in it.    *)
(* A text is a member of Texts; what a text is about is left out.           *)
(*                                                                          *)
(* Bounds: MaxRoom messages, MaxSends texts submitted, MaxAsks requests for *)
(* pages under way at a time, PageLines messages on a page.                 *)
(***************************************************************************)
EXTENDS Naturals, Sequences, FiniteSets

CONSTANTS Texts, NoText, Files, MaxRoom, MaxSends, MaxAsks, PageLines

VARIABLES
  roomLog, erased,      \* the server's messages, and the ones that were deleted
  readMark,             \* the newest message the server counts as read by this person
  roomNews,             \* events on their way
  inRoom,               \* the room is open
  lines, linesErased,   \* the messages on the screen, and those shown as deleted
  atTail,               \* nothing newer exists below the lines
  asks,                 \* requests for pages and their answers
  text, roomDraft,           \* the text in the box; the room's draft
  editing, before,      \* the own message being edited; the draft when that began
  sends,                \* what was submitted, in order
  tray                  \* the files: how far each upload got

roomVars == <<roomLog, erased, readMark, roomNews>>
paneVars == <<inRoom, lines, linesErased, atTail, asks>>
boxVars == <<text, roomDraft, editing, before, sends>>
allRoomVars == <<roomVars, paneVars, boxVars, tray>>

Ids == DOMAIN roomLog
\* "page" is the next older or newer page: one of them is asked for at a time.
AskKinds == {"load", "page", "around"}
NoAsk == [state |-> "none", older |-> FALSE, mark |-> 0, ids |-> {}, gone |-> {}, tail |-> TRUE]
\* A submitted text: a new message, or the edit of message edit; here, while the
\* composer that sent it is still on the screen.
Submitted == [text : Texts, edit : 0 .. MaxRoom, state : {"asked", "stored", "refused", "done"}, here : BOOLEAN]
Uploads == {"none", "loading", "ready", "failed"}

RoomTypeOK ==
  /\ \A i \in Ids : roomLog[i] \in [mine : BOOLEAN, text : Texts \cup {NoText}]
  /\ erased \subseteq Ids /\ lines \subseteq Ids /\ linesErased \subseteq lines
  /\ readMark \in 0 .. Len(roomLog) /\ inRoom \in BOOLEAN /\ atTail \in BOOLEAN
  /\ DOMAIN asks = AskKinds /\ \A k \in AskKinds : asks[k].state \in {"none", "asked", "answered"}
  /\ text \in Texts \cup {NoText} /\ roomDraft \in Texts \cup {NoText}
  /\ editing \in 0 .. Len(roomLog) /\ before \in Texts \cup {NoText}
  /\ sends \in Seq(Submitted) /\ tray \in [Files -> Uploads]

NoAsks == [k \in AskKinds |-> NoAsk]
Empty == [f \in Files |-> "none"]

RoomInit ==
  /\ \E t \in Texts : roomLog = <<[mine |-> TRUE, text |-> t]>>
  /\ erased = {} /\ readMark = 0 /\ roomNews = <<>>
  /\ inRoom = FALSE /\ lines = {} /\ linesErased = {} /\ atTail = TRUE /\ asks = NoAsks
  /\ text = NoText /\ roomDraft = NoText /\ editing = 0 /\ before = NoText /\ sends = <<>> /\ tray = Empty

Newest(S) == IF S = {} THEN 0 ELSE CHOOSE i \in S : \A j \in S : j <= i
Oldest(S) == CHOOSE i \in S : \A j \in S : i <= j
Higher(a, b) == IF a > b THEN a ELSE b

---------------------------------------------------------------------------
(* The server and the stream. *)

RoomTell(e) == roomNews' = IF inRoom THEN Append(roomNews, e) ELSE <<>>

TheyWrite ==
  /\ Len(roomLog) < MaxRoom
  /\ roomLog' = Append(roomLog, [mine |-> FALSE, text |-> NoText])
  /\ RoomTell([type |-> "message", id |-> Len(roomLog) + 1])
  /\ UNCHANGED <<erased, readMark, paneVars, boxVars, tray>>

\* By its author on another device, or by one who manages the room.
TheyErase(i) ==
  /\ i \in Ids \ erased /\ erased' = erased \cup {i} /\ RoomTell([type |-> "message.deleted", id |-> i])
  /\ UNCHANGED <<roomLog, readMark, paneVars, boxVars, tray>>

\* The stream was down: what it carried never comes.
RoomNewsLost ==
  /\ roomNews # <<>> /\ roomNews' = <<>>
  /\ UNCHANGED <<roomLog, erased, readMark, paneVars, boxVars, tray>>

MarkReadUpTo(i) == readMark' = Higher(readMark, i)

\* Inside the history a new message belongs below the lines.
MessageEvent ==
  /\ roomNews # <<>> /\ Head(roomNews).type = "message" /\ roomNews' = Tail(roomNews)
  /\ IF atTail THEN lines' = lines \cup {Head(roomNews).id} /\ MarkReadUpTo(Head(roomNews).id)
     ELSE UNCHANGED <<lines, readMark>>
  /\ UNCHANGED <<roomLog, erased, inRoom, linesErased, atTail, asks, boxVars, tray>>

\* The box is filled with the room's draft.
FromDraft == text' = roomDraft
\* Editing ends, by whatever ended it: the draft is in the box again.
EditEnds == editing' = 0 /\ FromDraft

\* The line reads as deleted; if it was being edited, that ends.
ErasedEvent ==
  /\ roomNews # <<>> /\ Head(roomNews).type = "message.deleted" /\ roomNews' = Tail(roomNews)
  /\ LET i == Head(roomNews).id IN
       /\ linesErased' = linesErased \cup ({i} \cap lines)
       /\ IF editing = i THEN EditEnds ELSE UNCHANGED <<editing, text>>
  /\ UNCHANGED <<roomLog, erased, readMark, inRoom, lines, atTail, asks, roomDraft, before, sends, tray>>

---------------------------------------------------------------------------
(* Pages. *)

AskFor(k, older, mark) == asks' = [asks EXCEPT ![k] = [NoAsk EXCEPT !.state = "asked", !.older = older, !.mark = mark]]

\* The room opens: its newest page is asked for and its draft is in the box.
EnterRoom ==
  /\ ~inRoom /\ inRoom' = TRUE /\ lines' = {} /\ linesErased' = {} /\ atTail' = TRUE /\ roomNews' = <<>>
  /\ AskFor("load", FALSE, 0) /\ FromDraft
  /\ UNCHANGED <<roomLog, erased, readMark, roomDraft, editing, before, sends, tray>>

\* The button that leads back from the history.
FewAsks == Cardinality({k \in AskKinds : asks[k] # NoAsk}) < MaxAsks

BackToNewest ==
  /\ inRoom /\ ~atTail /\ FewAsks /\ asks["load"] = NoAsk /\ AskFor("load", FALSE, 0)
  /\ UNCHANGED <<roomVars, inRoom, lines, linesErased, atTail, boxVars, tray>>

\* Scrolled to an end of the lines.
LoadOlder ==
  /\ inRoom /\ FewAsks /\ lines # {} /\ asks["page"] = NoAsk /\ Oldest(lines) > 1 /\ AskFor("page", TRUE, Oldest(lines))
  /\ UNCHANGED <<roomVars, inRoom, lines, linesErased, atTail, boxVars, tray>>
LoadNewer ==
  /\ inRoom /\ FewAsks /\ lines # {} /\ ~atTail /\ asks["page"] = NoAsk /\ AskFor("page", FALSE, Newest(lines))
  /\ UNCHANGED <<roomVars, inRoom, lines, linesErased, atTail, boxVars, tray>>

\* A search hit or a shared file: the page around it, unless its line is shown.
JumpTo(i) ==
  /\ inRoom /\ FewAsks /\ i \in Ids \ lines /\ asks["around"] = NoAsk /\ AskFor("around", FALSE, i)
  /\ UNCHANGED <<roomVars, inRoom, lines, linesErased, atTail, boxVars, tray>>

PageFor(k) ==
  LET a == asks[k]
      n == Len(roomLog) IN
  Ids \cap (CASE k = "load" -> (n + 1) - PageLines .. n
              [] k = "page" /\ a.older -> a.mark - PageLines .. a.mark - 1
              [] k = "page" /\ ~a.older -> a.mark + 1 .. a.mark + PageLines
              [] k = "around" -> a.mark .. (a.mark + PageLines) - 1)

AskServed(k) ==
  /\ asks[k].state = "asked"
  /\ LET page == PageFor(k) IN
       asks' = [asks EXCEPT ![k].state = "answered", ![k].ids = page, ![k].gone = erased \cap page,
                            ![k].tail = (page = {} \/ Newest(page) = Len(roomLog))]
  /\ UNCHANGED <<roomVars, inRoom, lines, linesErased, atTail, boxVars, tray>>

\* The newest page and a page around a hit replace the lines, the others join them.
AskAnswered(k) ==
  /\ asks[k].state = "answered" /\ asks' = [asks EXCEPT ![k] = NoAsk]
  /\ LET a == asks[k]
         joins == k = "page" IN
       /\ lines' = IF joins THEN lines \cup a.ids ELSE a.ids
       /\ linesErased' = IF joins THEN linesErased \cup (a.gone \ lines) ELSE a.gone
       /\ atTail' = IF joins /\ a.older THEN atTail ELSE a.tail
       /\ IF k # "around" /\ ~a.older /\ a.tail /\ a.ids # {} THEN MarkReadUpTo(Newest(a.ids)) ELSE UNCHANGED readMark
  /\ UNCHANGED <<roomLog, erased, roomNews, inRoom, boxVars, tray>>

AskFails(k) ==
  /\ asks[k] # NoAsk /\ asks' = [asks EXCEPT ![k] = NoAsk]
  /\ UNCHANGED <<roomVars, inRoom, lines, linesErased, atTail, boxVars, tray>>

\* The room is left: answers of its requests are dropped, uploads under way are
\* cancelled and the tray is forgotten; the draft stays.
LeaveRoom ==
  /\ inRoom /\ inRoom' = FALSE /\ lines' = {} /\ linesErased' = {} /\ atTail' = TRUE /\ asks' = NoAsks
  /\ roomNews' = <<>> /\ text' = NoText /\ editing' = 0 /\ before' = NoText /\ tray' = Empty
  /\ sends' = [k \in DOMAIN sends |-> [sends[k] EXCEPT !.here = FALSE]]
  /\ UNCHANGED <<roomLog, erased, readMark, roomDraft>>

---------------------------------------------------------------------------
(* The composer. *)

\* The draft is what was typed, but not what is typed into an edit. A mutant of
\* KeepDraft: whatever is in the box is the draft.
KeepDraftAlways(t) == roomDraft' = t
KeepDraft(t) == roomDraft' = IF editing = 0 THEN t ELSE roomDraft

Type(t) ==
  /\ inRoom /\ t # text /\ text' = t /\ KeepDraft(t)
  /\ UNCHANGED <<roomVars, paneVars, editing, before, sends, tray>>

\* What a line offers: its menu, the buttons over it.
RowOffers(i) ==
  IF i \in linesErased THEN {}
  ELSE {"reply", "react"} \cup (IF roomLog[i].mine THEN {"edit", "delete"} ELSE {})
MayEdit(i) == i \in lines /\ "edit" \in RowOffers(i)

\* The text of the message goes into the box.
EditText(i) == text' = roomLog[i].text

\* From the line's menu, its pencil, or the arrow key in an empty box.
StartEdit(i) ==
  /\ inRoom /\ MayEdit(i) /\ editing # i
  /\ editing' = i /\ EditText(i) /\ before' = IF editing = 0 THEN roomDraft ELSE before
  /\ UNCHANGED <<roomVars, paneVars, roomDraft, sends, tray>>

CancelEdit ==
  /\ inRoom /\ editing # 0 /\ EditEnds
  /\ UNCHANGED <<roomVars, paneVars, roomDraft, before, sends, tray>>

\* The room's members changed: the text of an edit is filled in again.
MembersChange ==
  /\ inRoom /\ editing # 0 /\ EditText(editing)
  /\ UNCHANGED <<roomVars, paneVars, roomDraft, editing, before, sends, tray>>

Busy == \E k \in DOMAIN sends : sends[k].here /\ sends[k].state # "done"
Ready == {f \in Files : tray[f] = "ready"}

\* submit: not while one is under way, nor while a file of a new message is loading.
Submit ==
  /\ inRoom /\ ~Busy /\ Len(sends) < MaxSends /\ text # NoText
  /\ editing # 0 => text # roomLog[editing].text
  /\ editing = 0 => \A f \in Files : tray[f] # "loading"
  /\ sends' = Append(sends, [text |-> text, edit |-> editing, state |-> "asked", here |-> TRUE])
  /\ UNCHANGED <<roomVars, paneVars, text, roomDraft, editing, before, tray>>

SendIs(k, state) == sends' = [sends EXCEPT ![k].state = state]

SendServed(k) ==
  /\ sends[k].state = "asked"
  /\ \/ /\ SendIs(k, "stored") /\ (sends[k].edit = 0 => Len(roomLog) < MaxRoom)
        /\ IF sends[k].edit = 0
           THEN /\ roomLog' = Append(roomLog, [mine |-> TRUE, text |-> sends[k].text])
                /\ RoomTell([type |-> "message", id |-> Len(roomLog) + 1])
           ELSE roomLog' = [roomLog EXCEPT ![sends[k].edit].text = sends[k].text] /\ UNCHANGED roomNews
     \/ SendIs(k, "refused") /\ UNCHANGED <<roomLog, roomNews>>
  /\ UNCHANGED <<erased, readMark, paneVars, text, roomDraft, editing, before, tray>>

\* A message is at the server: its line shows, the box, the draft and the tray are
\* emptied. The draft goes also when the answer finds the room left or opened again.
MessageSent(k) ==
  /\ sends[k].state = "stored" /\ sends[k].edit = 0 /\ SendIs(k, "done")
  /\ roomDraft' = NoText
  /\ IF sends[k].here
     THEN /\ \E i \in Ids : /\ roomLog[i].mine /\ roomLog[i].text = sends[k].text /\ lines' = lines \cup {i}
          /\ text' = NoText /\ before' = NoText /\ tray' = Empty
     ELSE UNCHANGED <<lines, text, before, tray>>
  /\ UNCHANGED <<roomVars, inRoom, linesErased, atTail, asks, editing>>

EditSaved(k) ==
  /\ sends[k].state = "stored" /\ sends[k].edit # 0 /\ SendIs(k, "done")
  /\ IF sends[k].here THEN EditEnds ELSE UNCHANGED <<editing, text>>
  /\ UNCHANGED <<roomVars, paneVars, roomDraft, before, tray>>

\* Refused, or its answer lost: the box keeps what it holds.
SubmitFails(k) ==
  /\ sends[k].state # "done" /\ SendIs(k, "done")
  /\ UNCHANGED <<roomVars, paneVars, text, roomDraft, editing, before, tray>>

\* The person's own message, deleted after a question.
EraseOwn(i) ==
  /\ inRoom /\ i \in lines \ erased /\ "delete" \in RowOffers(i)
  /\ erased' = erased \cup {i} /\ linesErased' = linesErased \cup {i}
  /\ RoomTell([type |-> "message.deleted", id |-> i])
  /\ IF editing = i THEN EditEnds ELSE UNCHANGED <<editing, text>>
  /\ UNCHANGED <<roomLog, readMark, inRoom, lines, atTail, asks, roomDraft, before, sends, tray>>

---------------------------------------------------------------------------
(* The file tray. *)

Upload(f, from, to) ==
  /\ inRoom /\ tray[f] \in from /\ tray' = [tray EXCEPT ![f] = to]
  /\ UNCHANGED <<roomVars, paneVars, boxVars>>

AddFile(f) == Upload(f, {"none"}, "loading")
UploadReady(f) == Upload(f, {"loading"}, "ready")
UploadFails(f) == Upload(f, {"loading"}, "failed")
RetryUpload(f) == Upload(f, {"failed"}, "loading")
RemoveFile(f) == Upload(f, {"loading", "ready", "failed"}, "none")

RoomNext ==
  \/ TheyWrite \/ RoomNewsLost \/ MessageEvent \/ ErasedEvent
  \/ EnterRoom \/ LeaveRoom \/ BackToNewest \/ LoadOlder \/ LoadNewer
  \/ \E i \in 1 .. MaxRoom : TheyErase(i) \/ JumpTo(i) \/ StartEdit(i) \/ EraseOwn(i)
  \/ \E k \in AskKinds : AskServed(k) \/ AskAnswered(k) \/ AskFails(k)
  \/ \E t \in Texts \cup {NoText} : Type(t)
  \/ CancelEdit \/ MembersChange \/ Submit
  \/ \E k \in DOMAIN sends : SendServed(k) \/ MessageSent(k) \/ EditSaved(k) \/ SubmitFails(k)
  \/ \E f \in Files : AddFile(f) \/ UploadReady(f) \/ UploadFails(f) \/ RetryUpload(f) \/ RemoveFile(f)
RoomSpec == RoomInit /\ [][RoomNext]_allRoomVars

---------------------------------------------------------------------------
(* Properties. *)

\* The composer's comment, "the draft is saved only outside editing and comes back
\* afterwards": however an edit ends (saved, cancelled, its message deleted by anyone),
\* the box holds what the draft was when the edit began, unless that was sent meanwhile.
GivesDraftBack ==
  inRoom /\ inRoom' /\ editing # 0 /\ editing' = 0
    => text' = before \/ \E k \in DOMAIN sends : sends[k].state = "done" /\ ~sends[k].here
DraftComesBack == [][GivesDraftBack]_allRoomVars

\* The same comment's "it is there again on return, until it is sent".
DraftIsThere == inRoom /\ editing = 0 => roomDraft = text
===============================================================================
