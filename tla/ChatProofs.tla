------------------------------- MODULE ChatProofs -------------------------------
(* Proofs about Room and ChatPane, for any number of messages, texts and pages. *)
EXTENDS Room, ChatPane, SequenceTheorems, WellFoundedInduction, TLAPS

-----------------------------------------------------------------------------
(* Numbers.                                                                 *)

LEMMA LessIsInOrder == \A x, y \in Nat : x < y => <<x, y>> \in OpToRel(<, Nat) BY DEF OpToRel

LEMMA LeastOf == ASSUME NEW S, S \subseteq Nat, S # {} PROVE \E i \in S : \A j \in S : i <= j
<1>1. IsWellFoundedOn(OpToRel(<, Nat), Nat) BY NatLessThanWellFounded
<1> DEFINE R == OpToRel(<, Nat)
<1>2. \A x, y \in Nat : x < y => <<x, y>> \in R BY LessIsInOrder
<1> HIDE DEF R
<1>3. PICK x \in S : \A y \in S : ~ (<<y, x>> \in R)
  BY <1>1, WFMin DEF R
<1>4. \A y \in S : ~(y < x) BY <1>2, <1>3, Zenon
<1> QED BY <1>4, SMT

LEMMA GreatestOf ==
    ASSUME NEW n \in Nat, NEW S, S \subseteq 0 .. n, S # {} PROVE \E i \in S : \A j \in S : j <= i
<1> DEFINE U == {k \in Nat : \A j \in S : j <= k}
<1>1. PICK k \in U : \A i \in U : k <= i
  <2>1. U \subseteq Nat /\ n \in U OBVIOUS
  <2> HIDE DEF U
  <2> QED BY <2>1, LeastOf
<1>2. CASE k \in S BY <1>2
<1>3. CASE k \notin S
  <2>1. \A j \in S : j < k BY <1>3
  <2>2. k > 0
    <3>1. PICK j \in S : j < k BY <2>1
    <3> QED BY <3>1
  <2>3. k - 1 \in U BY <2>1, <2>2
  <2> QED BY <1>1, <2>2, <2>3
<1> QED BY <1>2, <1>3

\* What holds of 0, and of each number after one it holds of, holds of all.
LEMMA Counting == ASSUME NEW S, 0 \in S, \A n \in Nat : n \in S => n + 1 \in S PROVE Nat \subseteq S
<1> SUFFICES ASSUME Nat \ S # {} PROVE FALSE OBVIOUS
<1>1. PICK k \in Nat \ S : \A j \in Nat \ S : k <= j BY LeastOf
<1>2. k # 0 /\ k - 1 \in Nat BY <1>1
<1>3. k - 1 \in S BY <1>1, <1>2
<1> QED BY <1>1, <1>2, <1>3

-----------------------------------------------------------------------------
(* Sequences.                                                               *)

\* A log that grows keeps its places.
LEMMA AppendKeeps ==
    ASSUME NEW S, NEW s \in Seq(S), NEW x \in S
    PROVE  /\ Append(s, x) \in Seq(S) /\ DOMAIN s \subseteq DOMAIN Append(s, x)
           /\ Len(s) + 1 \in DOMAIN Append(s, x) /\ DOMAIN Append(s, x) = DOMAIN s \cup {Len(s) + 1}
           /\ \A i \in DOMAIN s : Append(s, x)[i] = s[i]
           /\ Append(s, x)[Len(s) + 1] = x
OBVIOUS

LEMMA TailKeeps ==
    ASSUME NEW S, NEW s \in Seq(S), s # <<>>
    PROVE  Head(s) \in S /\ Tail(s) \in Seq(S)
OBVIOUS

\* What a sequence holds when it gets longer, or shorter.
LEMMA WhatItHolds ==
    ASSUME NEW S, NEW s \in Seq(S), NEW x \in S
    PROVE  /\ Append(s, x) \in Seq(S) /\ Range(Append(s, x)) \subseteq Range(s) \cup {x}
           /\ s # <<>> => Tail(s) \in Seq(S) /\ Range(Tail(s)) \subseteq Range(s)
<1>1. Append(s, x) \in Seq(S) /\ Range(Append(s, x)) \subseteq Range(s) \cup {x} BY AppendKeeps DEF Range
<1>2. ASSUME s # <<>> PROVE Tail(s) \in Seq(S) /\ Range(Tail(s)) \subseteq Range(s)
  <2>1. Tail(s) \in Seq(S) /\ Len(Tail(s)) = Len(s) - 1 /\ Len(s) \in Nat BY <1>2
  <2>2. \A k \in 1 .. Len(s) - 1 : Tail(s)[k] = s[k + 1] /\ k + 1 \in 1 .. Len(s) BY <1>2, <2>1
  <2>3. DOMAIN Tail(s) = 1 .. Len(s) - 1 /\ DOMAIN s = 1 .. Len(s) BY <2>1
  <2> QED BY <2>1, <2>2, <2>3 DEF Range
<1> QED BY <1>1, <1>2

-----------------------------------------------------------------------------
(* Room: the draft comes back after an edit.                                *)

RoomTexts == Texts \cup {NoText}
RoomMessages == [mine : BOOLEAN, text : RoomTexts]
RoomEvents == [type : {"message", "message.deleted"}, id : Ids]
RoomAsks == [state : {"none", "asked", "answered"}, older : BOOLEAN, mark : Nat, ids : SUBSET Ids, gone : SUBSET Ids,
             tail : BOOLEAN]
RoomSends == [text : RoomTexts, edit : Nat, state : {"asked", "stored", "refused", "done"}, here : BOOLEAN]

\* What is on the screen, on its way or being edited is a message of the room.
RoomShape ==
    /\ roomLog \in Seq(RoomMessages) /\ roomNews \in Seq(RoomEvents)
    /\ lines \subseteq Ids /\ asks \in [AskKinds -> RoomAsks]
    /\ text \in RoomTexts /\ roomDraft \in RoomTexts /\ before \in RoomTexts
    /\ editing \in Ids \cup {0} /\ sends \in Seq(RoomSends)
    /\ \A k \in DOMAIN sends : sends[k].edit \in Ids \cup {0}

\* A message was sent whose composer had left the screen.
SentFromElsewhere == \E k \in DOMAIN sends : sends[k].state = "done" /\ ~sends[k].here
\* While a message is edited the draft is what it was before; a composer that left
\* the screen edits nothing.
DraftWaits ==
    /\ editing # 0 => inRoom
    /\ inRoom /\ editing # 0 => roomDraft = before \/ SentFromElsewhere
DraftInv == RoomShape /\ DraftWaits

LEMMA RoomBegins == ASSUME RoomInit PROVE DraftInv
<1> USE DEF RoomInit
<1>1. PICK t \in Texts : roomLog = <<[mine |-> TRUE, text |-> t]>> OBVIOUS
<1>2. roomLog \in Seq(RoomMessages) BY <1>1 DEF RoomMessages, RoomTexts
<1>3. asks \in [AskKinds -> RoomAsks] BY DEF NoAsks, NoAsk, RoomAsks
<1>4. text \in RoomTexts /\ roomDraft \in RoomTexts /\ before \in RoomTexts BY DEF RoomTexts
<1> QED BY <1>2, <1>3, <1>4 DEF DraftInv, RoomShape, DraftWaits

LEMMA SendMoves ==
    ASSUME NEW k \in DOMAIN sends, NEW st \in {"stored", "refused", "done"}, SendIs(k, st), RoomShape
    PROVE  /\ sends' \in Seq(RoomSends) /\ DOMAIN sends' = DOMAIN sends
           /\ \A j \in DOMAIN sends : sends'[j].edit = sends[j].edit /\ sends'[j].here = sends[j].here
           /\ \A j \in DOMAIN sends : sends[j].state = "done" /\ st = "done" => sends'[j].state = "done"
           /\ \A j \in DOMAIN sends : j # k => sends'[j] = sends[j]
           /\ sends'[k].state = st
<1>1. sends \in Seq(RoomSends) /\ k \in 1 .. Len(sends) BY DEF RoomShape
<1>2. sends[k] \in RoomSends BY <1>1
<1>3. [sends[k] EXCEPT !.state = st] \in RoomSends BY <1>2 DEF RoomSends
<1>4. sends' = [sends EXCEPT ![k] = [sends[k] EXCEPT !.state = st]] BY DEF SendIs
<1>5. sends' \in Seq(RoomSends) /\ DOMAIN sends' = DOMAIN sends BY <1>1, <1>3, <1>4
<1>6. \A j \in DOMAIN sends : sends'[j] = IF j = k THEN [sends[k] EXCEPT !.state = st] ELSE sends[j]
  BY <1>1, <1>4
<1>7. LET r == [sends[k] EXCEPT !.state = st] IN r.edit = sends[k].edit /\ r.here = sends[k].here /\ r.state = st
  BY <1>2 DEF RoomSends
<1> QED BY <1>5, <1>6, <1>7

\* The log only grows, and its texts are texts.
LEMMA LogGrows ==
    ASSUME RoomShape, [RoomNext]_allRoomVars
    PROVE  roomLog' \in Seq(RoomMessages) /\ Ids \subseteq Ids'
<1> USE DEF RoomShape
<1>1. ASSUME NEW m \in RoomMessages, roomLog' = Append(roomLog, m)
      PROVE  roomLog' \in Seq(RoomMessages) /\ Ids \subseteq Ids'
  BY <1>1, AppendKeeps DEF Ids
<1>2. CASE TheyWrite BY <1>1, <1>2 DEF TheyWrite, RoomMessages, RoomTexts
<1>3. ASSUME NEW k \in DOMAIN sends, SendServed(k) PROVE roomLog' \in Seq(RoomMessages) /\ Ids \subseteq Ids'
  <2>1. sends[k] \in RoomSends /\ sends[k].edit \in Ids \cup {0} OBVIOUS
  <2>2. sends[k].text \in RoomTexts BY <2>1 DEF RoomSends
  <2>3. CASE roomLog' = Append(roomLog, [mine |-> TRUE, text |-> sends[k].text])
    BY <1>1, <2>2, <2>3 DEF RoomMessages
  <2>4. CASE sends[k].edit # 0 /\ roomLog' = [roomLog EXCEPT ![sends[k].edit].text = sends[k].text]
    <3>1. sends[k].edit \in DOMAIN roomLog BY <2>1, <2>4 DEF Ids
    <3>2. roomLog[sends[k].edit] \in RoomMessages BY <3>1
    <3>3. [roomLog[sends[k].edit] EXCEPT !.text = sends[k].text] \in RoomMessages
      BY <2>2, <3>2 DEF RoomMessages
    <3> QED BY <2>4, <3>1, <3>3 DEF Ids
  <2>5. CASE roomLog' = roomLog BY <2>5 DEF Ids
  <2> QED BY <1>3, <2>3, <2>4, <2>5 DEF SendServed
<1>4. CASE UNCHANGED roomLog BY <1>4 DEF Ids
<1>5. ASSUME NEW i, TheyErase(i) \/ JumpTo(i) \/ StartEdit(i) \/ EraseOwn(i) PROVE UNCHANGED roomLog
  BY <1>5 DEF TheyErase, JumpTo, StartEdit, EraseOwn, roomVars
<1>6. ASSUME NEW k, \/ AskServed(k) \/ AskAnswered(k) \/ AskFails(k) \/ MessageSent(k) \/ EditSaved(k)
                    \/ SubmitFails(k) \/ Type(k)
      PROVE UNCHANGED roomLog
  BY <1>6 DEF AskServed, AskAnswered, AskFails, MessageSent, EditSaved, SubmitFails, Type, roomVars
<1>7. ASSUME RoomNewsLost \/ MessageEvent \/ ErasedEvent \/ EnterRoom \/ LeaveRoom \/ BackToNewest \/ LoadOlder
             \/ LoadNewer \/ CancelEdit \/ MembersChange \/ Submit \/ UNCHANGED allRoomVars
      PROVE UNCHANGED roomLog
  BY <1>7 DEF RoomNewsLost, MessageEvent, ErasedEvent, EnterRoom, LeaveRoom, BackToNewest, LoadOlder,
              LoadNewer, CancelEdit, MembersChange, Submit, roomVars, allRoomVars
<1>8. ASSUME NEW f, AddFile(f) \/ UploadReady(f) \/ UploadFails(f) \/ RetryUpload(f) \/ RemoveFile(f)
      PROVE UNCHANGED roomLog
  BY <1>8 DEF AddFile, UploadReady, UploadFails, RetryUpload, RemoveFile, Upload, roomVars
<1> QED BY <1>2, <1>3, <1>4, <1>5, <1>6, <1>7, <1>8 DEF RoomNext

\* Requests for pages keep their shape, and what they hold is in the log.
LEMMA AsksKeep ==
    ASSUME RoomShape, Ids \subseteq Ids'
    PROVE  /\ asks \in [AskKinds -> RoomAsks']
           /\ RoomEvents \subseteq RoomEvents'
           /\ roomNews \in Seq(RoomEvents') /\ lines \subseteq Ids' /\ editing \in Ids' \cup {0}
           /\ \A k \in DOMAIN sends : sends[k].edit \in Ids' \cup {0}
           /\ \A m \in Nat, old \in BOOLEAN : [NoAsk EXCEPT !.state = "asked", !.older = old, !.mark = m] \in RoomAsks'
           /\ NoAsk \in RoomAsks'
<1>1. RoomAsks \subseteq RoomAsks' BY DEF RoomAsks
<1>2. RoomEvents \subseteq RoomEvents' BY DEF RoomEvents
<1>3. roomNews \in Seq(RoomEvents') BY <1>2 DEF RoomShape
<1> QED BY <1>1, <1>2, <1>3 DEF RoomShape, NoAsk, RoomAsks

\* The events on their way are of messages of the log.
LEMMA NewsKeeps ==
    ASSUME RoomShape, [RoomNext]_allRoomVars PROVE roomNews' \in Seq(RoomEvents')
<1>a. Ids \subseteq Ids' BY LogGrows
<1>b. roomNews \in Seq(RoomEvents') BY <1>a, AsksKeep
<1>c. <<>> \in Seq(RoomEvents') OBVIOUS
<1>d. ASSUME NEW m \in RoomMessages, roomLog' = Append(roomLog, m) PROVE Len(roomLog) + 1 \in Ids'
  BY <1>d, AppendKeeps DEF Ids, RoomShape
<1>1. ASSUME NEW i \in Ids', NEW type \in {"message", "message.deleted"}, RoomTell([type |-> type, id |-> i])
      PROVE  roomNews' \in Seq(RoomEvents')
  <2>1. [type |-> type, id |-> i] \in RoomEvents' BY DEF RoomEvents
  <2>2. Append(roomNews, [type |-> type, id |-> i]) \in Seq(RoomEvents') BY <1>b, <2>1, AppendKeeps
  <2> QED BY <1>1, <1>c, <2>2 DEF RoomTell
<1>3. CASE TheyWrite
  <2>1. Len(roomLog) + 1 \in Ids' BY <1>3, <1>d DEF TheyWrite, RoomMessages, RoomTexts
  <2> QED BY <1>1, <1>3, <2>1 DEF TheyWrite
<1>4. ASSUME NEW k \in DOMAIN sends, SendServed(k) PROVE roomNews' \in Seq(RoomEvents')
  <2>1. CASE /\ roomLog' = Append(roomLog, [mine |-> TRUE, text |-> sends[k].text])
             /\ RoomTell([type |-> "message", id |-> Len(roomLog) + 1])
    <3>3. sends[k] \in RoomSends BY DEF RoomShape
    <3>1. [mine |-> TRUE, text |-> sends[k].text] \in RoomMessages BY <3>3 DEF RoomSends, RoomMessages
    <3>2. Len(roomLog) + 1 \in Ids' BY <1>d, <2>1, <3>1
    <3> QED BY <1>1, <2>1, <3>2
  <2>2. CASE UNCHANGED roomNews BY <1>b, <2>2
  <2> QED BY <1>4, <2>1, <2>2 DEF SendServed
<1>5. ASSUME NEW i, TheyErase(i) \/ EraseOwn(i) PROVE roomNews' \in Seq(RoomEvents')
  <2>1. i \in Ids' BY <1>a, <1>5 DEF TheyErase, EraseOwn, RoomShape
  <2> QED BY <1>1, <1>5, <2>1 DEF TheyErase, EraseOwn
<1>6. CASE MessageEvent \/ ErasedEvent BY <1>b, <1>6, TailKeeps DEF MessageEvent, ErasedEvent
<1>7. ASSUME RoomNewsLost \/ EnterRoom \/ LeaveRoom PROVE roomNews' \in Seq(RoomEvents')
  BY <1>c, <1>7 DEF RoomNewsLost, EnterRoom, LeaveRoom
<1>8. ASSUME BackToNewest \/ LoadOlder \/ LoadNewer \/ CancelEdit \/ MembersChange \/ Submit \/ UNCHANGED allRoomVars
      PROVE UNCHANGED roomNews
  BY <1>8 DEF BackToNewest, LoadOlder, LoadNewer, CancelEdit, MembersChange, Submit, roomVars, allRoomVars
<1>9. ASSUME NEW k, \/ AskServed(k) \/ AskAnswered(k) \/ AskFails(k) \/ MessageSent(k) \/ EditSaved(k)
                    \/ SubmitFails(k) \/ Type(k) \/ JumpTo(k) \/ StartEdit(k)
      PROVE UNCHANGED roomNews
  BY <1>9 DEF AskServed, AskAnswered, AskFails, MessageSent, EditSaved, SubmitFails, Type, JumpTo, StartEdit, roomVars
<1>10. ASSUME NEW f, AddFile(f) \/ UploadReady(f) \/ UploadFails(f) \/ RetryUpload(f) \/ RemoveFile(f)
       PROVE UNCHANGED roomNews
  BY <1>10 DEF AddFile, UploadReady, UploadFails, RetryUpload, RemoveFile, Upload, roomVars
<1> QED BY <1>b, <1>3, <1>4, <1>5, <1>6, <1>7, <1>8, <1>9, <1>10 DEF RoomNext

\* What is shown and what is asked for is in the log.
LEMMA LinesKeep ==
    ASSUME RoomShape, [RoomNext]_allRoomVars
    PROVE  lines' \subseteq Ids' /\ asks' \in [AskKinds -> RoomAsks']
<1>a. Ids \subseteq Ids' BY LogGrows
<1>b. lines \subseteq Ids' /\ asks \in [AskKinds -> RoomAsks'] /\ NoAsk \in RoomAsks' BY <1>a, AsksKeep
<1> DEFINE Kept == lines' \subseteq Ids' /\ asks' \in [AskKinds -> RoomAsks']
<1>c. ASSUME NEW k, NEW old \in BOOLEAN, NEW m \in Nat, AskFor(k, old, m) PROVE asks' \in [AskKinds -> RoomAsks']
  <2>1. [NoAsk EXCEPT !.state = "asked", !.older = old, !.mark = m] \in RoomAsks' BY <1>a, AsksKeep
  <2> QED BY <1>b, <1>c, <2>1 DEF AskFor
<1>1. CASE MessageEvent
  <2>1. Head(roomNews) \in RoomEvents BY <1>1, TailKeeps DEF MessageEvent, RoomShape
  <2>2. Head(roomNews).id \in Ids' BY <1>a, <2>1 DEF RoomEvents
  <2> QED BY <1>1, <1>b, <2>2 DEF MessageEvent
<1>2. CASE EnterRoom BY <1>2, <1>c DEF EnterRoom
<1>3. CASE LeaveRoom
  <2>1. NoAsks \in [AskKinds -> RoomAsks'] BY <1>b DEF NoAsks
  <2> QED BY <1>3, <2>1 DEF LeaveRoom
<1>4. CASE BackToNewest BY <1>4, <1>b, <1>c DEF BackToNewest
<1>5. CASE LoadOlder \/ LoadNewer
  <2>1. Ids \subseteq Nat BY DEF Ids, RoomShape
  <2>2. lines # {} => Oldest(lines) \in Nat
    <3>1. lines # {} => \E i \in lines : \A j \in lines : i <= j BY <2>1, LeastOf DEF RoomShape
    <3> QED BY <2>1, <3>1 DEF Oldest, RoomShape
  <2>3. lines # {} => Newest(lines) \in Nat
    <3>1. lines \subseteq 0 .. Len(roomLog) /\ Len(roomLog) \in Nat BY DEF Ids, RoomShape
    <3>2. lines # {} => \E i \in lines : \A j \in lines : j <= i BY <3>1, GreatestOf
    <3> QED BY <2>1, <3>2 DEF Newest, RoomShape
  <2> QED BY <1>5, <1>b, <1>c, <2>2, <2>3 DEF LoadOlder, LoadNewer
<1>6. ASSUME NEW i \in 1 .. MaxRoom, JumpTo(i) PROVE Kept
  <2>1. i \in Nat BY <1>6 DEF JumpTo, Ids, RoomShape
  <2> QED BY <1>6, <1>b, <1>c, <2>1 DEF JumpTo
<1>7. ASSUME NEW k \in AskKinds, AskServed(k) PROVE Kept
  <2>1. asks[k] \in RoomAsks BY DEF RoomShape
  <2>2. ASSUME NEW page \in SUBSET Ids, NEW gone \in SUBSET Ids, NEW tail \in BOOLEAN
        PROVE  [asks[k] EXCEPT !.state = "answered", !.ids = page, !.gone = gone, !.tail = tail] \in RoomAsks
    BY <2>1 DEF RoomAsks
  <2>3. PageFor(k) \subseteq Ids BY DEF PageFor
  <2>4. [asks EXCEPT ![k] = [asks[k] EXCEPT !.state = "answered", !.ids = PageFor(k), !.gone = erased \cap PageFor(k),
                                            !.tail = (PageFor(k) = {} \/ Newest(PageFor(k)) = Len(roomLog))]]
          \in [AskKinds -> RoomAsks]
    BY <2>2, <2>3 DEF RoomShape
  <2>5. UNCHANGED Ids BY <1>7 DEF AskServed, roomVars, Ids
  <2>6. UNCHANGED RoomAsks BY <2>5 DEF RoomAsks
  <2>7. asks' \in [AskKinds -> RoomAsks] BY <1>7, <2>4 DEF AskServed
  <2> QED BY <1>7, <1>b, <2>6, <2>7 DEF AskServed
<1>8. ASSUME NEW k \in AskKinds, AskAnswered(k) PROVE Kept
  <2>1. asks[k] \in RoomAsks' BY <1>b
  <2>2. asks[k].ids \subseteq Ids' BY <2>1 DEF RoomAsks
  <2> QED BY <1>8, <1>b, <2>2 DEF AskAnswered
<1>9. ASSUME NEW k \in AskKinds, AskFails(k) PROVE Kept BY <1>9, <1>b DEF AskFails
<1>10. ASSUME NEW k \in DOMAIN sends, MessageSent(k) PROVE Kept
  <2>1. lines' = lines \/ \E i \in Ids : lines' = lines \cup {i} BY <1>10 DEF MessageSent
  <2> QED BY <1>10, <1>a, <1>b, <2>1 DEF MessageSent
<1>11. ASSUME TheyWrite \/ RoomNewsLost \/ ErasedEvent \/ CancelEdit \/ MembersChange \/ Submit \/ UNCHANGED allRoomVars
       PROVE  Kept
  BY <1>11, <1>b DEF TheyWrite, RoomNewsLost, ErasedEvent, CancelEdit, MembersChange, Submit, paneVars, allRoomVars
<1>12. ASSUME NEW k, \/ SendServed(k) \/ EditSaved(k) \/ SubmitFails(k) \/ Type(k) \/ StartEdit(k)
                     \/ TheyErase(k) \/ EraseOwn(k)
       PROVE  Kept
  BY <1>12, <1>b DEF SendServed, EditSaved, SubmitFails, Type, StartEdit, TheyErase, EraseOwn, paneVars
<1>13. ASSUME NEW f, AddFile(f) \/ UploadReady(f) \/ UploadFails(f) \/ RetryUpload(f) \/ RemoveFile(f) PROVE Kept
  BY <1>13, <1>b DEF AddFile, UploadReady, UploadFails, RetryUpload, RemoveFile, Upload, paneVars
<1> QED BY <1>1, <1>2, <1>3, <1>4, <1>5, <1>6, <1>7, <1>8, <1>9, <1>10, <1>11, <1>12, <1>13 DEF RoomNext

\* What the composer holds, and what it sent.
LEMMA BoxKeeps ==
    ASSUME RoomShape, [RoomNext]_allRoomVars
    PROVE  /\ text' \in RoomTexts /\ roomDraft' \in RoomTexts /\ before' \in RoomTexts /\ editing' \in Ids' \cup {0}
           /\ sends' \in Seq(RoomSends) /\ \A k \in DOMAIN sends' : sends'[k].edit \in Ids' \cup {0}
<1>a. Ids \subseteq Ids' BY LogGrows
<1>b. editing \in Ids' \cup {0} /\ (\A k \in DOMAIN sends : sends[k].edit \in Ids' \cup {0}) BY <1>a, AsksKeep
<1>c. /\ text \in RoomTexts /\ roomDraft \in RoomTexts /\ before \in RoomTexts /\ NoText \in RoomTexts
      /\ sends \in Seq(RoomSends)
  BY DEF RoomShape, RoomTexts
<1>d. \A i \in Ids : roomLog[i].text \in RoomTexts
  <2>1. \A i \in Ids : roomLog[i] \in RoomMessages BY DEF RoomShape, Ids
  <2> QED BY <2>1 DEF RoomMessages
<1>e. ASSUME NEW k \in DOMAIN sends, NEW st \in {"stored", "refused", "done"}, SendIs(k, st)
      PROVE  sends' \in Seq(RoomSends) /\ \A j \in DOMAIN sends' : sends'[j].edit \in Ids' \cup {0}
  BY <1>b, <1>e, SendMoves
<1> DEFINE Kept == /\ text' \in RoomTexts /\ roomDraft' \in RoomTexts /\ before' \in RoomTexts /\ editing' \in Ids' \cup {0}
                   /\ sends' \in Seq(RoomSends) /\ \A k \in DOMAIN sends' : sends'[k].edit \in Ids' \cup {0}
<1>1. CASE ErasedEvent BY <1>1, <1>b, <1>c DEF ErasedEvent, EditEnds, FromDraft
<1>2. CASE EnterRoom BY <1>2, <1>b, <1>c DEF EnterRoom, FromDraft
<1>3. CASE LeaveRoom
  <2>1. ASSUME NEW k \in DOMAIN sends PROVE /\ [sends[k] EXCEPT !.here = FALSE] \in RoomSends
                                           /\ [sends[k] EXCEPT !.here = FALSE].edit = sends[k].edit
    <3>1. sends[k] \in RoomSends BY <1>c
    <3> QED BY <3>1 DEF RoomSends
  <2>2. DOMAIN sends = 1 .. Len(sends) /\ Len(sends) \in Nat BY <1>c
  <2>3. [k \in 1 .. Len(sends) |-> [sends[k] EXCEPT !.here = FALSE]] \in Seq(RoomSends) BY <2>1, <2>2
  <2> QED BY <1>3, <1>b, <1>c, <2>1, <2>2, <2>3 DEF LeaveRoom
<1>4. ASSUME NEW t \in Texts \cup {NoText}, Type(t) PROVE Kept
  BY <1>4, <1>b, <1>c DEF Type, KeepDraft, RoomTexts
<1>5. ASSUME NEW i, StartEdit(i) PROVE Kept
  <2>1. i \in Ids BY <1>5 DEF StartEdit, MayEdit, RoomShape
  <2> QED BY <1>5, <1>a, <1>b, <1>c, <1>d, <2>1 DEF StartEdit, EditText
<1>6. CASE CancelEdit BY <1>6, <1>b, <1>c DEF CancelEdit, EditEnds, FromDraft
<1>7. CASE MembersChange
  <2>1. editing \in Ids BY <1>7 DEF MembersChange, RoomShape
  <2> QED BY <1>7, <1>b, <1>c, <1>d, <2>1 DEF MembersChange, EditText
<1>8. CASE Submit
  <2>1. [text |-> text, edit |-> editing, state |-> "asked", here |-> TRUE] \in RoomSends
    <3>1. editing \in Nat BY DEF RoomShape, Ids
    <3> QED BY <1>c, <3>1 DEF RoomSends
  <2> QED BY <1>8, <1>b, <1>c, <2>1, AppendKeeps DEF Submit
<1>9. ASSUME NEW k \in DOMAIN sends, SendServed(k) \/ MessageSent(k) \/ EditSaved(k) \/ SubmitFails(k) PROVE Kept
  BY <1>9, <1>b, <1>c, <1>e DEF SendServed, MessageSent, EditSaved, SubmitFails, EditEnds, FromDraft
<1>10. ASSUME NEW i, EraseOwn(i) PROVE Kept BY <1>10, <1>b, <1>c DEF EraseOwn, EditEnds, FromDraft
<1>11. ASSUME \/ TheyWrite \/ RoomNewsLost \/ MessageEvent \/ BackToNewest \/ LoadOlder \/ LoadNewer
              \/ UNCHANGED allRoomVars
       PROVE  Kept
  BY <1>11, <1>b, <1>c
  DEF TheyWrite, RoomNewsLost, MessageEvent, BackToNewest, LoadOlder, LoadNewer, boxVars, allRoomVars
<1>12. ASSUME NEW k, TheyErase(k) \/ JumpTo(k) \/ AskServed(k) \/ AskAnswered(k) \/ AskFails(k) PROVE Kept
  BY <1>12, <1>b, <1>c DEF TheyErase, JumpTo, AskServed, AskAnswered, AskFails, boxVars
<1>13. ASSUME NEW f, AddFile(f) \/ UploadReady(f) \/ UploadFails(f) \/ RetryUpload(f) \/ RemoveFile(f) PROVE Kept
  BY <1>13, <1>b, <1>c DEF AddFile, UploadReady, UploadFails, RetryUpload, RemoveFile, Upload, boxVars
<1> QED BY <1>1, <1>2, <1>3, <1>4, <1>5, <1>6, <1>7, <1>8, <1>9, <1>10, <1>11, <1>12, <1>13 DEF RoomNext

LEMMA RoomShapeNext == ASSUME RoomShape, [RoomNext]_allRoomVars PROVE RoomShape'
BY LogGrows, NewsKeeps, LinesKeep, BoxKeeps DEF RoomShape

\* Once a message went from a composer that left, it went.
LEMMA SentStays ==
    ASSUME RoomShape, [RoomNext]_allRoomVars, SentFromElsewhere PROVE SentFromElsewhere'
<1> USE DEF SentFromElsewhere
<1>1. PICK k \in DOMAIN sends : sends[k].state = "done" /\ ~sends[k].here OBVIOUS
<1>2. sends \in Seq(RoomSends) /\ sends[k] \in RoomSends BY DEF RoomShape
<1>3. CASE LeaveRoom
  <2>1. sends'[k] = [sends[k] EXCEPT !.here = FALSE] /\ k \in DOMAIN sends' BY <1>3 DEF LeaveRoom
  <2> QED BY <1>1, <1>2, <2>1 DEF RoomSends
<1>4. CASE Submit
  <2>1. sends' = Append(sends, [text |-> text, edit |-> editing, state |-> "asked", here |-> TRUE]) BY <1>4 DEF Submit
  <2>2. [text |-> text, edit |-> editing, state |-> "asked", here |-> TRUE] \in RoomSends
    BY DEF RoomShape, Ids, RoomSends
  <2> QED BY <1>1, <1>2, <2>1, <2>2, AppendKeeps
<1>5. ASSUME NEW j \in DOMAIN sends, SendServed(j) \/ MessageSent(j) \/ EditSaved(j) \/ SubmitFails(j)
      PROVE  SentFromElsewhere'
  <2>1. PICK st \in {"stored", "refused", "done"} : SendIs(j, st) /\ (sends[j].state = "done" => st = "done")
    BY <1>5 DEF SendServed, MessageSent, EditSaved, SubmitFails
  <2> QED BY <1>1, <2>1, SendMoves
<1>6. CASE UNCHANGED sends BY <1>1, <1>6
<1>7. ASSUME \/ TheyWrite \/ RoomNewsLost \/ MessageEvent \/ ErasedEvent \/ EnterRoom \/ BackToNewest \/ LoadOlder
             \/ LoadNewer \/ CancelEdit \/ MembersChange \/ UNCHANGED allRoomVars
      PROVE  UNCHANGED sends
  BY <1>7 DEF TheyWrite, RoomNewsLost, MessageEvent, ErasedEvent, EnterRoom, BackToNewest, LoadOlder,
              LoadNewer, CancelEdit, MembersChange, boxVars, allRoomVars
<1>8. ASSUME NEW i, \/ TheyErase(i) \/ JumpTo(i) \/ StartEdit(i) \/ EraseOwn(i) \/ AskServed(i) \/ AskAnswered(i)
                    \/ AskFails(i) \/ Type(i)
      PROVE  UNCHANGED sends
  BY <1>8 DEF TheyErase, JumpTo, StartEdit, EraseOwn, AskServed, AskAnswered, AskFails, Type, boxVars
<1>9. ASSUME NEW f, AddFile(f) \/ UploadReady(f) \/ UploadFails(f) \/ RetryUpload(f) \/ RemoveFile(f)
      PROVE  UNCHANGED sends
  BY <1>9 DEF AddFile, UploadReady, UploadFails, RetryUpload, RemoveFile, Upload, boxVars
<1> QED BY <1>3, <1>4, <1>5, <1>6, <1>7, <1>8, <1>9 DEF RoomNext

\* The draft waits as long as the edit lasts.
LEMMA DraftWaitsNext == ASSUME DraftInv, [RoomNext]_allRoomVars PROVE DraftWaits'
<1> USE DEF DraftInv, DraftWaits
<1>a. SentFromElsewhere => SentFromElsewhere' BY SentStays
<1>1. CASE ErasedEvent BY <1>1, <1>a DEF ErasedEvent, EditEnds
<1>2. CASE EnterRoom BY <1>2, <1>a DEF EnterRoom
<1>3. CASE LeaveRoom BY <1>3 DEF LeaveRoom
<1>4. ASSUME NEW t, Type(t) PROVE DraftWaits' BY <1>4, <1>a DEF Type, KeepDraft, paneVars
<1>5. ASSUME NEW i, StartEdit(i) PROVE DraftWaits' BY <1>5, <1>a DEF StartEdit, paneVars
<1>6. CASE CancelEdit \/ MembersChange BY <1>6, <1>a DEF CancelEdit, MembersChange, EditEnds, paneVars
<1>7. CASE Submit BY <1>7, <1>a DEF Submit, paneVars
<1>8. ASSUME NEW k \in DOMAIN sends, MessageSent(k) PROVE DraftWaits'
  <2>1. CASE sends[k].here BY <1>8, <2>1, <1>a DEF MessageSent
  <2>2. CASE ~sends[k].here
    <3>1. SentFromElsewhere' BY <1>8, <2>2, SendMoves DEF MessageSent, SentFromElsewhere
    <3> QED BY <1>8, <3>1 DEF MessageSent
  <2> QED BY <2>1, <2>2
<1>9. ASSUME NEW k, SendServed(k) \/ EditSaved(k) \/ SubmitFails(k) PROVE DraftWaits'
  BY <1>9, <1>a DEF SendServed, EditSaved, SubmitFails, EditEnds, paneVars
<1>10. ASSUME NEW i, EraseOwn(i) PROVE DraftWaits' BY <1>10, <1>a DEF EraseOwn, EditEnds
<1>11. ASSUME \/ TheyWrite \/ RoomNewsLost \/ MessageEvent \/ BackToNewest \/ LoadOlder \/ LoadNewer
              \/ UNCHANGED allRoomVars
       PROVE  DraftWaits'
  BY <1>11, <1>a DEF TheyWrite, RoomNewsLost, MessageEvent, BackToNewest, LoadOlder, LoadNewer, boxVars, paneVars, allRoomVars
<1>12. ASSUME NEW k, TheyErase(k) \/ JumpTo(k) \/ AskServed(k) \/ AskAnswered(k) \/ AskFails(k) PROVE DraftWaits'
  BY <1>12, <1>a DEF TheyErase, JumpTo, AskServed, AskAnswered, AskFails, boxVars, paneVars
<1>13. ASSUME NEW f, AddFile(f) \/ UploadReady(f) \/ UploadFails(f) \/ RetryUpload(f) \/ RemoveFile(f) PROVE DraftWaits'
  BY <1>13, <1>a DEF AddFile, UploadReady, UploadFails, RetryUpload, RemoveFile, Upload, boxVars, paneVars
<1> QED BY <1>1, <1>2, <1>3, <1>4, <1>5, <1>6, <1>7, <1>8, <1>9, <1>10, <1>11, <1>12, <1>13 DEF RoomNext

LEMMA EditEndsWithDraft ==
    ASSUME [RoomNext]_allRoomVars, inRoom', editing # 0, editing' = 0 PROVE FromDraft
<1> USE DEF EditEnds
<1>1. ASSUME \/ TheyWrite \/ RoomNewsLost \/ MessageEvent \/ BackToNewest \/ LoadOlder \/ LoadNewer \/ EnterRoom
             \/ MembersChange \/ Submit \/ UNCHANGED allRoomVars
      PROVE  UNCHANGED editing
  BY <1>1 DEF TheyWrite, RoomNewsLost, MessageEvent, BackToNewest, LoadOlder, LoadNewer, EnterRoom, MembersChange,
              Submit, boxVars, allRoomVars
<1>2. ASSUME NEW k, \/ TheyErase(k) \/ JumpTo(k) \/ AskServed(k) \/ AskAnswered(k) \/ AskFails(k) \/ Type(k)
                    \/ SendServed(k) \/ MessageSent(k) \/ SubmitFails(k)
      PROVE  UNCHANGED editing
  BY <1>2 DEF TheyErase, JumpTo, AskServed, AskAnswered, AskFails, Type, SendServed, MessageSent, SubmitFails, boxVars
<1>3. ASSUME NEW f, AddFile(f) \/ UploadReady(f) \/ UploadFails(f) \/ RetryUpload(f) \/ RemoveFile(f)
      PROVE  UNCHANGED editing
  BY <1>3 DEF AddFile, UploadReady, UploadFails, RetryUpload, RemoveFile, Upload, boxVars
<1>4. CASE ErasedEvent BY <1>4 DEF ErasedEvent
<1>5. CASE CancelEdit BY <1>5 DEF CancelEdit
<1>6. CASE LeaveRoom BY <1>6 DEF LeaveRoom
<1>7. ASSUME NEW i \in 1 .. MaxRoom, StartEdit(i) PROVE editing' # 0 BY <1>7 DEF StartEdit
<1>8. ASSUME NEW i, EraseOwn(i) \/ EditSaved(i) PROVE FromDraft BY <1>8 DEF EraseOwn, EditSaved
<1> QED BY <1>1, <1>2, <1>3, <1>4, <1>5, <1>6, <1>7, <1>8 DEF RoomNext

\* However an edit ends, the box holds the draft from before it, unless a message was
\* sent from a composer that had left the screen: Composer.tsx's "the draft is saved
\* only outside editing and comes back afterwards".
THEOREM DraftReturns == RoomSpec => DraftComesBack
<1>1. DraftInv /\ [RoomNext]_allRoomVars => DraftInv' BY RoomShapeNext, DraftWaitsNext DEF DraftInv
<1>2. DraftInv /\ [RoomNext]_allRoomVars => [GivesDraftBack]_allRoomVars
  BY EditEndsWithDraft DEF DraftInv, DraftWaits, GivesDraftBack, FromDraft, SentFromElsewhere
<1> QED BY <1>1, <1>2, RoomBegins, PTL DEF RoomSpec, DraftComesBack

-----------------------------------------------------------------------------
(* ChatPane: no message is shown twice.                                     *)

ChatRows == [id : Nat, try : Nat, part : Parts \cup {NoPart}, direction : Directions, status : DOMAIN StatusRank]
Alike(x, y) == x.id = y.id /\ x.try = y.try /\ x.part = y.part /\ x.direction = y.direction


ChatPages == [state : {"none", "asked", "answered"}, rows : SUBSET ChatRows, mark : Nat]

ChatShape ==
    /\ chatLog \in Seq(ChatRows) /\ chatNews \in Seq(ChatRows) /\ pane \subseteq ChatRows
    /\ pageOf \in [PageKinds -> ChatPages]
    /\ box \in Seq(Parts) /\ going \in Seq(Parts) /\ draft \in Seq(Parts)
    /\ noting \in BOOLEAN /\ blind \in BOOLEAN /\ paneOpen \in BOOLEAN
    /\ partTries \in Nat /\ trying \in {"none", "asked", "stored", "refused"}

\* A message is at its place, and a try is stored once.
LogIsTrue ==
    /\ \A i \in DOMAIN chatLog :
         /\ chatLog[i].id = i
         /\ IF chatLog[i].direction = "out" THEN chatLog[i].try \in 1 .. partTries ELSE chatLog[i].try = 0
    /\ \A i, j \in DOMAIN chatLog :
         chatLog[i].direction = "out" /\ chatLog[j].direction = "out" /\ chatLog[i].try = chatLog[j].try => i = j

\* The places of the customer's copy of a try.
PlacesOf(t) == {i \in DOMAIN chatLog : chatLog[i].direction = "out" /\ chatLog[i].try = t}
\* The stored message of the part under way.
IsSaved(i) ==
    /\ i \in DOMAIN chatLog /\ chatLog[i].part = Head(going)
    /\ IF noting THEN chatLog[i].direction = "note"
       ELSE chatLog[i].direction = "out" /\ chatLog[i].try = partTries
    /\ \A j \in DOMAIN chatLog : j > i => chatLog[j].part = NoPart
SendIsTrue ==
    /\ trying = "none" <=> going = <<>>
    /\ trying # "none" => partTries > 0
    /\ trying = "asked" \/ (noting /\ trying # "none") => PlacesOf(partTries) = {}
    /\ trying = "stored" => \E i \in DOMAIN chatLog : IsSaved(i)

\* The row of the part under way, before the server has it.
PendingRow(x) ==
    /\ x.id = 0 /\ x.try = partTries /\ x.part = Head(going) /\ x.status = "queued"
    /\ x.direction = IF noting THEN "note" ELSE "out"
NoteTry(t) ==
    t <= partTries /\ (t > 0 => PlacesOf(t) = {} /\ (t = partTries => trying # "asked"))
\* A row of a stored message; a note has a client id on the screen only.
Known(x) ==
    /\ x.id \in DOMAIN chatLog /\ x.direction = chatLog[x.id].direction
    /\ IF x.direction = "out" THEN x.try = chatLog[x.id].try ELSE NoteTry(x.try)
Waiting(rows) == \E x \in rows : x.id = 0 /\ x.direction = "out"
PaneIsTrue(rows) ==
    /\ \A x \in rows : IF x.id = 0 THEN PendingRow(x) /\ trying # "none" ELSE Known(x)
    /\ \A x, y \in rows : x.id = y.id => x = y
    /\ Waiting(rows) /\ ~blind => /\ \A x \in Stored(rows) : x.id \notin PlacesOf(partTries)
                                  /\ \E x \in Stored(rows) : \A i \in PlacesOf(partTries) : x.id < i

InLog(x) == x.id \in DOMAIN chatLog /\ x.direction = chatLog[x.id].direction /\ x.try = chatLog[x.id].try
\* What a page holds is in the log, an older one before the row it was asked for.
PagesHold ==
    /\ \A p \in PageKinds : /\ \A x \in pageOf[p].rows : InLog(x)
                            /\ \A x, y \in pageOf[p].rows : x.id = y.id => x = y
    /\ \A x \in pageOf["older"].rows : x.id < pageOf["older"].mark
    /\ pageOf["older"].mark <= Len(chatLog)
\* No older page brings the part that waits; a pane that was left is empty.
PagesAreTrue ==
    /\ PagesHold /\ \A x \in Range(chatNews) : InLog(x)
    /\ Waiting(pane) /\ ~blind => \A i \in PlacesOf(partTries) : pageOf["older"].mark <= i
    /\ ~paneOpen => pane = {} /\ chatNews = <<>> /\ pageOf = [p \in PageKinds |-> NotAsked]
ChatInv == ChatShape /\ LogIsTrue /\ SendIsTrue /\ PaneIsTrue(pane) /\ PagesAreTrue

\* What merging does to the rows, but for their statuses.
LEMMA MergeShape ==
    ASSUME NEW rows \in SUBSET ChatRows, NEW old \in SUBSET rows, NEW m \in ChatRows
    PROVE  LET r == MergeInto(rows, old, m)
           IN  /\ r \subseteq ChatRows
               /\ \A y \in r : Alike(y, m) \/ \E x \in rows \ old : Alike(y, x) /\ (x.id = 0 => y = x)
               /\ \E y \in r : Alike(y, m)
               /\ \A x \in rows \ old : \E y \in r : Alike(y, x)
               /\ (\A x, w \in rows \ old : x.id = w.id => x = w) /\ (\A x \in rows \ old : x.id # m.id)
                    => \A y, z \in r : y.id = z.id => y = z
<1> DEFINE kept == IF \E x \in old : StatusRank[x.status] > StatusRank[m.status]
                   THEN [m EXCEPT !.status = (CHOOSE x \in old : TRUE).status] ELSE m
           rank == StatusRank[m.status]
           caughtUp(x) == /\ m.direction = "out" /\ rank >= 2 /\ x.direction = "out" /\ x.id \in 1 .. m.id - 1
                          /\ x.status = "sent" \/ (rank = 3 /\ x.status = "delivered")
           g(x) == IF caughtUp(x) THEN [x EXCEPT !.status = m.status] ELSE x
           base == (rows \ old) \cup {kept}
           r == {g(x) : x \in base}
<1>1. MergeInto(rows, old, m) = r BY DEF MergeInto
<1>2. kept \in ChatRows /\ Alike(kept, m)
  <2>1. CASE \E x \in old : StatusRank[x.status] > StatusRank[m.status]
    <3>1. (CHOOSE x \in old : TRUE) \in ChatRows BY <2>1
    <3>2. (CHOOSE x \in old : TRUE).status \in DOMAIN StatusRank BY <3>1 DEF ChatRows
    <3> DEFINE s == (CHOOSE x \in old : TRUE).status
    <3>3. kept = [m EXCEPT !.status = s] BY <2>1
    <3> HIDE DEF s, kept
    <3>4. s \in DOMAIN StatusRank BY <3>2 DEF s
    <3> QED BY <3>3, <3>4 DEF ChatRows, Alike
  <2>2. CASE ~ \E x \in old : StatusRank[x.status] > StatusRank[m.status] BY <2>2 DEF Alike
  <2> QED BY <2>1, <2>2
<1>3. \A x \in ChatRows : g(x) \in ChatRows /\ Alike(g(x), x) /\ (x.id = 0 => g(x) = x)
  <2> SUFFICES ASSUME NEW x \in ChatRows PROVE g(x) \in ChatRows /\ Alike(g(x), x) /\ (x.id = 0 => g(x) = x)
    OBVIOUS
  <2>1. [x EXCEPT !.status = m.status] \in ChatRows /\ Alike([x EXCEPT !.status = m.status], x)
    BY DEF ChatRows, Alike
  <2>2. x.id = 0 => ~caughtUp(x) BY DEF ChatRows
  <2> QED BY <2>1, <2>2 DEF Alike
<1> HIDE DEF g, kept
<1>4. base \subseteq ChatRows BY <1>2
<1>5. r \subseteq ChatRows /\ \A y \in r : \E x \in base : y = g(x) /\ Alike(y, x) /\ (x.id = 0 => y = x)
  BY <1>3, <1>4
<1>6. \A x \in base : \E y \in r : y = g(x) /\ Alike(y, x) BY <1>3, <1>4
<1>7. \A y \in r : Alike(y, m) \/ \E x \in rows \ old : Alike(y, x) /\ (x.id = 0 => y = x)
  BY <1>2, <1>5 DEF Alike
<1>8. \E y \in r : Alike(y, m) BY <1>2, <1>6 DEF Alike
<1>9. ASSUME \A x, w \in rows \ old : x.id = w.id => x = w, \A x \in rows \ old : x.id # m.id
      PROVE  \A y, z \in r : y.id = z.id => y = z
  <2>1. \A x, w \in base : x.id = w.id => x = w BY <1>2, <1>9 DEF Alike
  <2> HIDE DEF base, r
  <2> QED BY <1>5, <2>1 DEF Alike
<1> QED BY <1>1, <1>5, <1>6, <1>7, <1>8, <1>9

LEMMA AlikeIsKnown ==
    ASSUME NEW x \in ChatRows, NEW y \in ChatRows, Alike(y, x), Known(x) PROVE Known(y)
BY DEF Alike, Known

\* A merged message, or one the row of which is its own, leaves the screen true.
LEMMA MergeTrue ==
    ASSUME ChatShape, LogIsTrue, NEW rows \in SUBSET ChatRows, PaneIsTrue(rows),
           NEW m \in ChatRows, Known(m), m.direction = "out" \/ m.try = 0 \/ ~Waiting(rows)
    PROVE  /\ Merge(rows, m) \subseteq ChatRows /\ PaneIsTrue(Merge(rows, m))
           /\ Waiting(Merge(rows, m)) => Waiting(rows)
           /\ \E y \in Merge(rows, m) : Alike(y, m)
           /\ \A y \in Merge(rows, m) : y.id = 0 => y \in rows
<1> DEFINE old == PlaceOf(rows, m)
           r == Merge(rows, m)
<1>a. old \subseteq rows BY DEF PlaceOf, ById, ByTry
<1>b. m.id > 0 /\ m.id \in Nat /\ m.id \in DOMAIN chatLog BY DEF Known, ChatShape
<1>c. \A x \in rows : x.id = m.id => x \in old BY <1>b DEF PlaceOf, ById
<1>d. \A x, w \in rows : x.id = w.id => x = w BY DEF PaneIsTrue
<1>1. /\ r \subseteq ChatRows
      /\ \A y \in r : Alike(y, m) \/ \E x \in rows \ old : Alike(y, x) /\ (x.id = 0 => y = x)
      /\ \E y \in r : Alike(y, m)
      /\ \A x \in rows \ old : \E y \in r : Alike(y, x)
      /\ \A y, z \in r : y.id = z.id => y = z
  BY <1>a, <1>c, <1>d, MergeShape DEF Merge
<1> HIDE DEF r, old
<1>2. \A y \in r : y.id = 0 => y \in rows \ old BY <1>1, <1>b DEF Alike
<1>3. \A y \in r : IF y.id = 0 THEN PendingRow(y) /\ trying # "none" ELSE Known(y)
  <2> SUFFICES ASSUME NEW y \in r, y.id # 0 PROVE Known(y) BY <1>2 DEF PaneIsTrue
  <2>1. CASE Alike(y, m) BY <1>1, <2>1, AlikeIsKnown
  <2>2. CASE \E x \in rows \ old : Alike(y, x)
    <3>1. PICK x \in rows : Alike(y, x) BY <2>2
    <3>2. Known(x) BY <3>1 DEF PaneIsTrue, Alike
    <3> QED BY <1>1, <3>1, <3>2, AlikeIsKnown
  <2> QED BY <1>1, <2>1, <2>2
<1>4. Waiting(r) => \E w \in rows \ old : w.id = 0 /\ w.direction = "out" BY <1>2 DEF Waiting
<1>5. ASSUME Waiting(r), ~blind
      PROVE  /\ \A x \in Stored(r) : x.id \notin PlacesOf(partTries)
             /\ \E x \in Stored(r) : \A i \in PlacesOf(partTries) : x.id < i
  <2>1. PICK w \in rows \ old : w.id = 0 /\ w.direction = "out" BY <1>4, <1>5
  <2>2. PendingRow(w) /\ trying # "none" /\ Waiting(rows) BY <2>1 DEF PaneIsTrue, Waiting
  <2>3. \A x \in Stored(rows) : x.id \notin PlacesOf(partTries) BY <1>5, <2>2 DEF PaneIsTrue
  <2>4. PICK b \in Stored(rows) : \A i \in PlacesOf(partTries) : b.id < i BY <1>5, <2>2 DEF PaneIsTrue
  <2>5. m.id \notin PlacesOf(partTries)
    <3> SUFFICES ASSUME m.id \in PlacesOf(partTries) PROVE FALSE OBVIOUS
    <3>1. m.try = partTries /\ partTries > 0 BY DEF PlacesOf, Known, LogIsTrue
    <3>2. w \in ByTry(rows, m) BY <2>1, <2>2, <3>1 DEF ByTry, PendingRow
    <3>3. ById(rows, m) # {} BY <2>1, <3>2 DEF old, PlaceOf
    <3>4. PICK x \in rows : x.id > 0 /\ x.id = m.id BY <3>3 DEF ById
    <3> QED BY <2>3, <3>4 DEF Stored
  <2>6. \A x \in Stored(r) : x.id \notin PlacesOf(partTries)
    <3> SUFFICES ASSUME NEW y \in r, y.id > 0 PROVE y.id \notin PlacesOf(partTries) BY DEF Stored
    <3>1. CASE Alike(y, m) BY <2>5, <3>1 DEF Alike
    <3>2. CASE \E x \in rows \ old : Alike(y, x) BY <2>3, <3>2 DEF Alike, Stored
    <3> QED BY <1>1, <3>1, <3>2
  <2>7. \E y \in r : y.id = b.id
    <3>1. CASE b \notin old BY <1>1, <3>1 DEF Alike, Stored
    <3>2. CASE ById(rows, m) # {} /\ b \in old
      <4>1. b.id = m.id BY <3>2 DEF old, PlaceOf, ById
      <4> QED BY <1>1, <4>1 DEF Alike
    <3>3. CASE ById(rows, m) = {} /\ b \in old
      <4>1. m.try > 0 /\ b.try = m.try /\ b \in rows /\ b.id # m.id
        BY <1>b, <3>3 DEF old, PlaceOf, ById, ByTry, Stored
      <4>2. b.id > 0 /\ Known(b) BY <4>1 DEF Stored, PaneIsTrue
      <4>3. m.direction = "out" BY <2>2, <4>1
      <4>4. m.id \in PlacesOf(m.try) BY <4>3 DEF PlacesOf, Known
      <4>5. b.direction = "out" BY <4>1, <4>2, <4>4 DEF Known, NoteTry
      <4> QED BY <4>1, <4>2, <4>3, <4>5 DEF Known, LogIsTrue
    <3> QED BY <3>1, <3>2, <3>3
  <2>8. PICK y \in r : y.id = b.id BY <2>7
  <2>9. y \in Stored(r) BY <2>4, <2>8 DEF Stored
  <2> QED BY <2>4, <2>6, <2>8, <2>9
<1>6. PaneIsTrue(r) BY <1>1, <1>3, <1>5 DEF PaneIsTrue
<1> QED BY <1>1, <1>2, <1>4, <1>6 DEF r, Waiting

\* Merging one after another gives each row's screen from the one before it.
LEMMA MergeAllSteps ==
    ASSUME NEW shown, NEW rows, Len(chatLog) \in Nat
    PROVE  \E f : /\ f[0] = shown /\ MergeAll(shown, rows) = f[Len(chatLog)]
                  /\ \A n \in 1 .. Len(chatLog) : f[n] = MergeOne(f[n - 1], rows, n)
<1> DEFINE after(s, n) == MergeOne(s, rows, n)
           Steps(g, n) == g = [k \in 0 .. n |-> IF k = 0 THEN shown ELSE after(g[k - 1], k)]
           N == Len(chatLog)
           merged == CHOOSE g : Steps(g, N)
           Can == {n \in Nat : \E g : Steps(g, n)}
<1>1. MergeAll(shown, rows) = merged[N] BY DEF MergeAll
<1> HIDE DEF after
<1>2. 0 \in Can
  <2> DEFINE g == [k \in 0 .. 0 |-> shown]
  <2>1. Steps(g, 0) OBVIOUS
  <2> QED BY <2>1
<1>3. ASSUME NEW n \in Nat, n \in Can PROVE n + 1 \in Can
  <2>1. PICK g : Steps(g, n) BY <1>3
  <2> DEFINE h == [k \in 0 .. n + 1 |-> IF k <= n THEN g[k] ELSE after(g[n], n + 1)]
  <2>2. \A k \in 0 .. n : h[k] = g[k] OBVIOUS
  <2>3. h[n + 1] = after(h[n], n + 1) BY <2>2
  <2>4. \A k \in 1 .. n : h[k] = after(h[k - 1], k) BY <2>1, <2>2
  <2>5. h[0] = shown BY <2>1, <2>2
  <2>6. \A k \in 0 .. n + 1 : h[k] = IF k = 0 THEN shown ELSE after(h[k - 1], k)
    <3> SUFFICES ASSUME NEW k \in 0 .. n + 1 PROVE h[k] = IF k = 0 THEN shown ELSE after(h[k - 1], k) OBVIOUS
    <3> HIDE DEF h
    <3>1. k = 0 \/ k \in 1 .. n \/ k = n + 1 OBVIOUS
    <3> QED BY <3>1, <2>3, <2>4, <2>5
  <2>7. h = [k \in 0 .. n + 1 |-> h[k]] OBVIOUS
  <2> HIDE DEF h
  <2>8. Steps(h, n + 1) BY <2>6, <2>7
  <2> QED BY <2>8
<1>4. N \in Can
  <2> HIDE DEF Can
  <2>1. Nat \subseteq Can BY <1>2, <1>3, Counting
  <2> QED BY <2>1
<1>5. Steps(merged, N) BY <1>4
<1> HIDE DEF merged
<1>6. merged[0] = shown /\ \A n \in 1 .. N : merged[n] = after(merged[n - 1], n) BY <1>5
<1> QED BY <1>1, <1>6 DEF after

LEMMA InLogIsKnown ==
    ASSUME ChatShape, LogIsTrue, NEW x \in ChatRows, InLog(x)
    PROVE  Known(x) /\ x.id \in Nat /\ x.id > 0 /\ (x.direction = "out" \/ x.try = 0)
<1>1. x.direction # "out" => x.try = 0 BY DEF InLog, LogIsTrue
<1>2. 0 <= partTries BY DEF ChatShape
<1> QED BY <1>1, <1>2 DEF InLog, Known, NoteTry, ChatShape

LEMMA MergeAllTrue ==
    ASSUME ChatShape, LogIsTrue, NEW shown \in SUBSET ChatRows, PaneIsTrue(shown),
           NEW rows \in SUBSET ChatRows, \A x \in rows : InLog(x)
    PROVE  /\ MergeAll(shown, rows) \subseteq ChatRows /\ PaneIsTrue(MergeAll(shown, rows))
           /\ Waiting(MergeAll(shown, rows)) => Waiting(shown)
<1> DEFINE N == Len(chatLog)
           True(r) == r \subseteq ChatRows /\ PaneIsTrue(r) /\ (Waiting(r) => Waiting(shown))
<1>1. N \in Nat BY DEF ChatShape
<1>2. PICK f : /\ f[0] = shown /\ MergeAll(shown, rows) = f[N]
               /\ \A n \in 1 .. N : f[n] = MergeOne(f[n - 1], rows, n)
  BY <1>1, MergeAllSteps
<1> DEFINE S == {n \in Nat : n <= N => True(f[n])}
<1>3. 0 \in S BY <1>2
<1>4. ASSUME NEW n \in Nat, n \in S PROVE n + 1 \in S
  <2> SUFFICES ASSUME n + 1 <= N PROVE True(f[n + 1]) OBVIOUS
  <2>1. True(f[n]) /\ n + 1 \in 1 .. N /\ (n + 1) - 1 = n BY <1>1, <1>4
  <2>2. CASE \E m \in rows : m.id = n + 1
    <3> DEFINE m == CHOOSE m \in rows : m.id = n + 1
    <3>1. m \in rows BY <2>2
    <3>2. f[n + 1] = Merge(f[n], m) BY <1>2, <2>1, <2>2 DEF MergeOne
    <3> HIDE DEF m
    <3>3. m \in ChatRows /\ Known(m) /\ (m.direction = "out" \/ m.try = 0) BY <3>1, InLogIsKnown
    <3>4. True(Merge(f[n], m)) BY <2>1, <3>3, MergeTrue
    <3> QED BY <3>2, <3>4
  <2>3. CASE ~ \E m \in rows : m.id = n + 1 BY <1>2, <2>1, <2>3 DEF MergeOne
  <2> QED BY <2>2, <2>3
<1>5. N \in S
  <2> HIDE DEF S
  <2>1. Nat \subseteq S BY <1>3, <1>4, Counting
  <2> QED BY <1>1, <2>1
<1> QED BY <1>1, <1>2, <1>5

-----------------------------------------------------------------------------
(* The steps of ChatPane.                                                   *)

\* A message of the log stays what it is, but for its status.
LogKept == DOMAIN chatLog \subseteq DOMAIN chatLog' /\ \A i \in DOMAIN chatLog : Alike(chatLog'[i], chatLog[i])

\* Only what the customer writes, what is reported and what is stored changes the log.
LEMMA LogStands ==
    ASSUME ChatShape, [ChatPaneNext]_chatVars, ~CustomerWrites, ~PartServed,
           ~ \E i \in DOMAIN chatLog : Reported(i)
    PROVE  UNCHANGED chatLog /\ partTries' \in {partTries, partTries + 1}
<1>1. CASE NewsArrives \/ NewsLost \/ OpenPane \/ LeavePane \/ OlderPage \/ MarkRead \/ SetMode \/ Send
  BY <1>1 DEF NewsArrives, NewsLost, OpenPane, LeavePane, OlderPage, MarkRead, SetMode, Send, logVars, partVars
<1>2. CASE SendAnswered \/ SendFails \/ Resolve \/ ResolveRefused \/ Reopen \/ UNCHANGED chatVars
  BY <1>2 DEF SendAnswered, SendFails, Resolve, ResolveRefused, Reopen, logVars, partVars, chatVars
<1>3. ASSUME NEW i, Jump(i) \/ PageServed(i) \/ PageArrives(i) \/ PageFails(i) \/ Write(i)
      PROVE UNCHANGED chatLog /\ UNCHANGED partTries
  BY <1>3 DEF Jump, PageServed, PageArrives, PageFails, Write, logVars, partVars
<1> QED BY <1>1, <1>2, <1>3 DEF ChatPaneNext

\* What the three do to the log.
LEMMA CustomerAppends ==
    ASSUME ChatInv, CustomerWrites
    PROVE  /\ chatLog' \in Seq(ChatRows) /\ LogKept /\ UNCHANGED partTries
           /\ DOMAIN chatLog' = DOMAIN chatLog \cup {Len(chatLog) + 1}
           /\ LET m == chatLog'[Len(chatLog) + 1]
              IN  m.id = Len(chatLog) + 1 /\ m.try = 0 /\ m.part = NoPart /\ m.direction = "in"
           /\ \A i \in DOMAIN chatLog : chatLog'[i] = chatLog[i]
<1> DEFINE m == [id |-> Len(chatLog) + 1, try |-> 0, part |-> NoPart, direction |-> "in", status |-> "read"]
<1>1. m \in ChatRows /\ chatLog \in Seq(ChatRows) BY DEF ChatRows, Directions, StatusRank, ChatInv, ChatShape
<1>2. chatLog' = Append(chatLog, m) /\ UNCHANGED partTries BY DEF CustomerWrites, partVars
<1>3. m.id = Len(chatLog) + 1 /\ m.try = 0 /\ m.part = NoPart /\ m.direction = "in" OBVIOUS
<1> HIDE DEF m
<1> QED BY <1>1, <1>2, <1>3, AppendKeeps DEF LogKept, Alike

LEMMA PartAppends ==
    ASSUME ChatInv, PartServed, trying' # "refused"
    PROVE  /\ chatLog' \in Seq(ChatRows) /\ LogKept /\ UNCHANGED partTries
           /\ DOMAIN chatLog' = DOMAIN chatLog \cup {Len(chatLog) + 1}
           /\ LET m == chatLog'[Len(chatLog) + 1]
              IN  /\ m.id = Len(chatLog) + 1 /\ m.part = Head(going)
                  /\ m.try = IF noting THEN 0 ELSE partTries
                  /\ m.direction = IF noting THEN "note" ELSE "out"
           /\ \A i \in DOMAIN chatLog : chatLog'[i] = chatLog[i]
<1> DEFINE m == [id |-> Len(chatLog) + 1, try |-> IF noting THEN 0 ELSE partTries, part |-> Head(going),
                 direction |-> IF noting THEN "note" ELSE "out", status |-> "queued"]
<1>1. m \in ChatRows /\ chatLog \in Seq(ChatRows)
  <2>1. Head(going) \in Parts BY DEF PartServed, ChatInv, SendIsTrue, ChatShape
  <2> QED BY <2>1 DEF ChatRows, Directions, StatusRank, ChatInv, ChatShape
<1>2. chatLog' = Append(chatLog, m) /\ UNCHANGED partTries BY DEF PartServed
<1>3. /\ m.id = Len(chatLog) + 1 /\ m.part = Head(going)
      /\ m.try = IF noting THEN 0 ELSE partTries
      /\ m.direction = IF noting THEN "note" ELSE "out"
  OBVIOUS
<1> HIDE DEF m
<1> QED BY <1>1, <1>2, <1>3, AppendKeeps DEF LogKept, Alike

LEMMA ReportedKeeps ==
    ASSUME ChatInv, NEW i \in DOMAIN chatLog, Reported(i)
    PROVE  /\ chatLog' \in Seq(ChatRows) /\ LogKept /\ UNCHANGED partTries /\ DOMAIN chatLog' = DOMAIN chatLog
<1>1. PICK s \in {"sent", "delivered", "read"} : chatLog' = [chatLog EXCEPT ![i].status = s] BY DEF Reported
<1>2. chatLog \in Seq(ChatRows) /\ i \in 1 .. Len(chatLog) /\ chatLog[i] \in ChatRows BY DEF ChatInv, ChatShape
<1>3. [chatLog[i] EXCEPT !.status = s] \in ChatRows /\ Alike([chatLog[i] EXCEPT !.status = s], chatLog[i])
  BY <1>2 DEF ChatRows, StatusRank, Alike
<1>4. chatLog' = [chatLog EXCEPT ![i] = [chatLog[i] EXCEPT !.status = s]] BY <1>1
<1>5. chatLog' \in Seq(ChatRows) /\ DOMAIN chatLog' = DOMAIN chatLog BY <1>2, <1>3, <1>4
<1>6. \A j \in DOMAIN chatLog : Alike(chatLog'[j], chatLog[j]) BY <1>2, <1>3, <1>4 DEF Alike
<1>7. UNCHANGED partTries BY DEF Reported, partVars
<1> QED BY <1>5, <1>6, <1>7 DEF LogKept

\* The log only grows, and stays true.
LEMMA LogNext ==
    ASSUME ChatInv, [ChatPaneNext]_chatVars
    PROVE  chatLog' \in Seq(ChatRows) /\ LogIsTrue' /\ LogKept
<1> USE DEF ChatInv, LogIsTrue
<1>a. partTries \in Nat /\ chatLog \in Seq(ChatRows) BY DEF ChatShape
<1>b. \A i \in DOMAIN chatLog : chatLog[i] \in ChatRows BY <1>a
<1>c. Len(chatLog) + 1 \notin DOMAIN chatLog BY <1>a
<1>d. LogIsTrue OBVIOUS
<1>1. CASE CustomerWrites BY <1>1, <1>a, CustomerAppends
<1>2. CASE PartServed
  <2>1. CASE trying' = "refused"
    <3>1. UNCHANGED chatLog /\ UNCHANGED partTries BY <1>2, <2>1 DEF PartServed
    <3> QED BY <3>1, <1>a DEF LogKept, Alike
  <2>2. CASE trying' # "refused"
    <3>1. ~noting => PlacesOf(partTries) = {} /\ partTries > 0 BY <1>2 DEF PartServed, SendIsTrue
    <3>2. ASSUME NEW i \in DOMAIN chatLog', ~noting, chatLog'[i].direction = "out", chatLog'[i].try = partTries
          PROVE  i = Len(chatLog) + 1
      BY <1>2, <2>2, <3>1, <3>2, PartAppends DEF PlacesOf
    <3> HIDE DEF ChatInv
    <3>3. ChatInv BY DEF ChatInv
    <3> DEFINE n == Len(chatLog) + 1
    <3>4. /\ DOMAIN chatLog' = DOMAIN chatLog \cup {n} /\ UNCHANGED partTries
          /\ chatLog'[n].id = n /\ \A i \in DOMAIN chatLog : chatLog'[i] = chatLog[i]
          /\ chatLog'[n].try = IF noting THEN 0 ELSE partTries
          /\ chatLog'[n].direction = IF noting THEN "note" ELSE "out"
          /\ chatLog' \in Seq(ChatRows) /\ LogKept
      BY <1>2, <2>2, <3>3, PartAppends
    <3> HIDE DEF n
    <3>5. \A i \in DOMAIN chatLog' :
             /\ chatLog'[i].id = i
             /\ IF chatLog'[i].direction = "out" THEN chatLog'[i].try \in 1 .. partTries' ELSE chatLog'[i].try = 0
      BY <1>a, <1>d, <3>1, <3>4
    <3>6. ASSUME NEW i \in DOMAIN chatLog', NEW j \in DOMAIN chatLog', chatLog'[i].direction = "out",
                 chatLog'[j].direction = "out", chatLog'[i].try = chatLog'[j].try
          PROVE  i = j
      <4>1. CASE i = n \/ j = n BY <3>2, <3>4, <3>6, <4>1 DEF n
      <4>2. CASE i # n /\ j # n BY <1>d, <3>4, <3>6, <4>2
      <4> QED BY <4>1, <4>2
    <3> QED BY <3>4, <3>5, <3>6
  <2> QED BY <2>1, <2>2
<1>3. ASSUME NEW i \in DOMAIN chatLog, Reported(i) PROVE chatLog' \in Seq(ChatRows) /\ LogIsTrue' /\ LogKept
  <2>1. chatLog' \in Seq(ChatRows) /\ LogKept /\ UNCHANGED partTries /\ DOMAIN chatLog' = DOMAIN chatLog
    BY <1>3, ReportedKeeps
  <2> QED BY <2>1 DEF LogKept, Alike
<1>4. CASE UNCHANGED chatLog /\ partTries' \in {partTries, partTries + 1}
  <2>1. \A t \in 1 .. partTries : t \in 1 .. partTries' BY <1>a, <1>4
  <2> QED BY <1>a, <1>4, <2>1 DEF LogKept, Alike
<1>5. ChatShape OBVIOUS
<1> QED BY <1>1, <1>2, <1>3, <1>4, <1>5, LogStands

\* The places of a try: a stored part has one of its own, and a new try none.
LEMMA PlacesKept ==
    ASSUME ChatInv, [ChatPaneNext]_chatVars, NEW t \in Nat
    PROVE  /\ PlacesOf(t) \subseteq DOMAIN chatLog /\ (t > partTries => PlacesOf(t) = {})
           /\ PlacesOf(t)' = PlacesOf(t)
              \/ /\ PartServed /\ trying' = "stored" /\ ~noting /\ t = partTries
                 /\ PlacesOf(t)' = PlacesOf(t) \cup {Len(chatLog) + 1}
<1>a. PlacesOf(t) \subseteq DOMAIN chatLog /\ (t > partTries => PlacesOf(t) = {})
  BY DEF PlacesOf, ChatInv, LogIsTrue, ChatShape
<1>b. ChatShape BY DEF ChatInv
<1>1. CASE CustomerWrites
  <2>1. PlacesOf(t)' = PlacesOf(t) BY <1>1, CustomerAppends DEF PlacesOf, LogKept, Alike
  <2> QED BY <1>a, <2>1
<1>2. CASE PartServed
  <2>1. CASE trying' = "refused"
    <3>1. UNCHANGED chatLog BY <1>2, <2>1 DEF PartServed
    <3> QED BY <1>a, <3>1 DEF PlacesOf
  <2>2. CASE trying' # "refused"
    <3> DEFINE n == Len(chatLog) + 1
    <3>1. /\ DOMAIN chatLog' = DOMAIN chatLog \cup {n} /\ \A i \in DOMAIN chatLog : chatLog'[i] = chatLog[i]
          /\ chatLog'[n].try = IF noting THEN 0 ELSE partTries
          /\ chatLog'[n].direction = IF noting THEN "note" ELSE "out"
      BY <1>2, <2>2, PartAppends
    <3>2. n \notin DOMAIN chatLog BY <1>b DEF ChatShape
    <3>3. trying' = "stored" BY <1>2, <2>2 DEF PartServed
    <3> HIDE DEF n
    <3>4. PlacesOf(t)' = PlacesOf(t) \cup {i \in {n} : ~noting /\ t = partTries}
      BY <3>1, <3>2 DEF PlacesOf
    <3>5. CASE ~noting /\ t = partTries BY <1>2, <1>a, <3>3, <3>4, <3>5 DEF n
    <3>6. CASE ~(~noting /\ t = partTries) BY <1>a, <3>4, <3>6
    <3> QED BY <3>5, <3>6
  <2> QED BY <2>1, <2>2
<1>3. ASSUME NEW i \in DOMAIN chatLog, Reported(i) PROVE PlacesOf(t)' = PlacesOf(t)
  BY <1>3, ReportedKeeps DEF PlacesOf, LogKept, Alike
<1>4. CASE UNCHANGED chatLog
  <2>1. PlacesOf(t)' = PlacesOf(t) BY <1>4 DEF PlacesOf
  <2> QED BY <1>a, <2>1
<1> QED BY <1>a, <1>b, <1>1, <1>2, <1>3, <1>4, LogStands

\* The part under way stays what it is until it is answered.
LEMMA SendStands ==
    ASSUME ChatShape, [ChatPaneNext]_chatVars, ~SendAnswered, ~SendFails, ~Send, ~PartServed, ~SetMode
    PROVE  UNCHANGED <<going, noting, partTries, trying, blind>>
<1>1. CASE NewsArrives \/ NewsLost \/ OpenPane \/ LeavePane \/ OlderPage \/ MarkRead \/ CustomerWrites
  BY <1>1 DEF NewsArrives, NewsLost, OpenPane, LeavePane, OlderPage, MarkRead, CustomerWrites, partVars
<1>2. CASE Resolve \/ ResolveRefused \/ Reopen \/ UNCHANGED chatVars
  BY <1>2 DEF Resolve, ResolveRefused, Reopen, partVars, chatVars
<1>3. ASSUME NEW i, Jump(i) \/ PageServed(i) \/ PageArrives(i) \/ PageFails(i) \/ Write(i) \/ Reported(i)
      PROVE  UNCHANGED <<going, noting, partTries, trying, blind>>
  BY <1>3 DEF Jump, PageServed, PageArrives, PageFails, Write, Reported, partVars
<1> QED BY <1>1, <1>2, <1>3 DEF ChatPaneNext

LEMMA SendNext == ASSUME ChatInv, [ChatPaneNext]_chatVars PROVE SendIsTrue'
<1>a. /\ partTries \in Nat /\ trying \in {"none", "asked", "stored", "refused"} /\ chatLog \in Seq(ChatRows)
      /\ going \in Seq(Parts) /\ box \in Seq(Parts) /\ ChatShape
  BY DEF ChatInv, ChatShape
<1>b. SendIsTrue BY DEF ChatInv
<1>c. chatLog' \in Seq(ChatRows) /\ LogKept BY LogNext
<1>d. PlacesOf(partTries + 1) = {} BY <1>a, PlacesKept
<1>1. CASE PartServed
  <2>1. CASE trying' = "refused"
    <3>1. UNCHANGED <<chatLog, going, noting, partTries>> /\ trying = "asked" BY <1>1, <2>1 DEF PartServed
    <3> QED BY <1>b, <2>1, <3>1 DEF SendIsTrue, PlacesOf
  <2>2. CASE trying' # "refused"
    <3> PICK n : n = Len(chatLog) + 1 OBVIOUS
    <3>1. trying' = "stored" /\ trying = "asked" /\ UNCHANGED <<going, noting, partTries>>
      BY <1>1, <2>2 DEF PartServed
    <3>2. /\ DOMAIN chatLog' = DOMAIN chatLog \cup {n} /\ chatLog'[n].part = Head(going)
          /\ chatLog'[n].try = IF noting THEN 0 ELSE partTries
          /\ chatLog'[n].direction = IF noting THEN "note" ELSE "out"
      BY <1>1, <2>2, PartAppends
    <3>3. \A j \in DOMAIN chatLog' : ~(j > n) BY <1>a, <3>2
    <3>4. IsSaved(n)' BY <3>1, <3>2, <3>3 DEF IsSaved
    <3>5. noting => PlacesOf(partTries)' = {}
      <4>1. noting => PlacesOf(partTries)' = PlacesOf(partTries) BY <1>a, <3>1, PlacesKept
      <4> QED BY <1>b, <3>1, <4>1 DEF SendIsTrue
    <3> QED BY <1>b, <3>1, <3>2, <3>4, <3>5 DEF SendIsTrue
  <2> QED BY <2>1, <2>2
<1>2. CASE Send
  <2>1. /\ going' # <<>> /\ trying' = "asked" /\ partTries' = partTries + 1 BY <1>2 DEF Send
  <2>2. PlacesOf(partTries)' = {}
    <3>1. UNCHANGED chatLog BY <1>2 DEF Send, logVars
    <3> QED BY <1>d, <2>1, <3>1 DEF PlacesOf
  <2> QED BY <1>a, <2>1, <2>2 DEF SendIsTrue
<1>3. CASE SendAnswered
  <2>1. CASE Len(going) > 1 /\ partTries < MaxPartTries
    <3>1. going' = Tail(going) /\ trying' = "asked" /\ partTries' = partTries + 1 BY <1>3, <2>1 DEF SendAnswered
    <3>2. going' # <<>>
      <4>1. Len(going) \in Nat /\ Len(Tail(going)) = Len(going) - 1 BY <1>a, <2>1
      <4>2. Len(going) > 1 BY <2>1
      <4>3. Len(Tail(going)) # 0 BY <4>1, <4>2
      <4> QED BY <3>1, <4>3, EmptySeq
    <3>3. PlacesOf(partTries)' = {}
      <4>1. UNCHANGED chatLog BY <1>3 DEF SendAnswered, logVars
      <4> QED BY <1>d, <3>1, <4>1 DEF PlacesOf
    <3> QED BY <1>a, <3>1, <3>2, <3>3 DEF SendIsTrue
  <2>2. CASE ~(Len(going) > 1 /\ partTries < MaxPartTries)
    <3>1. going' = <<>> /\ trying' = "none" BY <1>3, <2>2 DEF SendAnswered
    <3> QED BY <3>1 DEF SendIsTrue
  <2> QED BY <2>1, <2>2
<1>4. CASE SendFails BY <1>4 DEF SendFails, SendIsTrue
<1>5. CASE SetMode
  <2>1. trying = "none" /\ going = <<>> /\ UNCHANGED <<going, trying>> BY <1>5, <1>b DEF SetMode, SendIsTrue
  <2> QED BY <2>1 DEF SendIsTrue
<1>6. CASE ~SendAnswered /\ ~SendFails /\ ~Send /\ ~PartServed /\ ~SetMode
  <2>1. UNCHANGED <<going, noting, partTries, trying>> BY <1>6, <1>a, SendStands
  <2>2. PlacesOf(partTries)' = PlacesOf(partTries) BY <1>6, <1>a, <2>1, PlacesKept
  <2>3. ASSUME NEW i, IsSaved(i) PROVE i \in DOMAIN chatLog' /\ IsSaved(i)'
    <3>1. i \in DOMAIN chatLog' /\ Alike(chatLog'[i], chatLog[i]) BY <1>c, <2>3 DEF LogKept, IsSaved
    <3>2. \A j \in DOMAIN chatLog' : j \in DOMAIN chatLog \/ chatLog'[j].part = NoPart
      <4>1. CASE CustomerWrites BY <4>1, CustomerAppends
      <4>2. CASE ~CustomerWrites
        <5>1. DOMAIN chatLog' = DOMAIN chatLog BY <1>6, <1>a, <4>2, LogStands, ReportedKeeps
        <5> QED BY <5>1
      <4> QED BY <4>1, <4>2
    <3>3. \A j \in DOMAIN chatLog' : j > i => chatLog'[j].part = NoPart
      BY <1>c, <2>3, <3>2 DEF LogKept, Alike, IsSaved
    <3> QED BY <2>1, <2>3, <3>1, <3>3 DEF IsSaved, Alike
  <2> QED BY <1>b, <2>1, <2>2, <2>3 DEF SendIsTrue
<1> QED BY <1>1, <1>2, <1>3, <1>4, <1>5, <1>6

LEMMA TriesGrow ==
    ASSUME ChatInv, [ChatPaneNext]_chatVars
    PROVE  /\ partTries' \in {partTries, partTries + 1}
           /\ trying' = "asked" /\ partTries' = partTries => trying = "asked"
<1>a. ChatShape /\ partTries \in Nat BY DEF ChatInv, ChatShape
<1>1. CASE Send \/ SendFails \/ SetMode \/ PartServed BY <1>1, <1>a DEF Send, SendFails, SetMode, PartServed
<1>2. CASE SendAnswered
  <2>1. CASE Len(going) > 1 /\ partTries < MaxPartTries BY <1>2, <1>a, <2>1 DEF SendAnswered
  <2>2. CASE ~(Len(going) > 1 /\ partTries < MaxPartTries) BY <1>2, <1>a, <2>2 DEF SendAnswered
  <2> QED BY <2>1, <2>2
<1>3. CASE ~SendAnswered /\ ~SendFails /\ ~Send /\ ~PartServed /\ ~SetMode BY <1>3, <1>a, SendStands
<1> QED BY <1>1, <1>2, <1>3

\* What is known of a row stays so.
LEMMA KnownStays ==
    ASSUME ChatInv, [ChatPaneNext]_chatVars, NEW x \in ChatRows
    PROVE  (InLog(x) => InLog(x)') /\ (Known(x) => Known(x)')
<1>1. LogKept BY LogNext
<1>2. InLog(x) => InLog(x)' BY <1>1 DEF InLog, LogKept, Alike
<1>3. ASSUME NEW t \in Nat, NoteTry(t) PROVE NoteTry(t)'
  <2>1. partTries \in Nat /\ t <= partTries BY <1>3 DEF NoteTry, ChatInv, ChatShape
  <2>2. t <= partTries' BY <2>1, TriesGrow
  <2>3. t > 0 => PlacesOf(t)' = {}
    <3>1. PlacesOf(t)' = PlacesOf(t) \/ (PartServed /\ t = partTries) BY PlacesKept
    <3>2. PartServed => trying = "asked" BY DEF PartServed
    <3> QED BY <1>3, <3>1, <3>2 DEF NoteTry
  <2>4. t > 0 /\ t = partTries' => trying' # "asked" BY <1>3, <2>1, TriesGrow DEF NoteTry
  <2> QED BY <2>2, <2>3, <2>4 DEF NoteTry
<1>4. Known(x) => Known(x)'
  <2>1. x.try \in Nat BY DEF ChatRows
  <2> QED BY <1>1, <1>3, <2>1 DEF Known, LogKept, Alike
<1> QED BY <1>2, <1>4

\* While the part under way stays the same, a screen that was true before the
\* step is true after it.
LEMMA SameSend ==
    ASSUME ChatInv, [ChatPaneNext]_chatVars, UNCHANGED <<going, noting, partTries, blind>>,
           trying # "none" => trying' # "none",
           pane' \subseteq ChatRows, PaneIsTrue(pane')
    PROVE  PaneIsTrue(pane)'
<1>a. partTries \in Nat /\ chatLog \in Seq(ChatRows) BY DEF ChatInv, ChatShape
<1>1. \A x \in pane' : IF x.id = 0 THEN PendingRow(x)' /\ trying' # "none" ELSE Known(x)'
  <2> SUFFICES ASSUME NEW x \in pane' PROVE IF x.id = 0 THEN PendingRow(x)' /\ trying' # "none" ELSE Known(x)'
    OBVIOUS
  <2>1. CASE x.id = 0 BY <2>1 DEF PaneIsTrue, PendingRow
  <2>2. CASE x.id # 0
    <3>1. x \in ChatRows /\ Known(x) BY <2>2 DEF PaneIsTrue
    <3> QED BY <2>2, <3>1, KnownStays
  <2> QED BY <2>1, <2>2
<1>2. ASSUME Waiting(pane'), ~blind
      PROVE  /\ \A x \in Stored(pane') : x.id \notin PlacesOf(partTries)'
             /\ \E x \in Stored(pane') : \A i \in PlacesOf(partTries)' : x.id < i
  <2>1. \A x \in Stored(pane') : x.id \in DOMAIN chatLog BY DEF PaneIsTrue, Stored, Known
  <2>2. PlacesOf(partTries)' \subseteq PlacesOf(partTries) \cup {Len(chatLog) + 1}
    <3>1. partTries' = partTries OBVIOUS
    <3> QED BY <1>a, <3>1, PlacesKept
  <2>3. \A x \in Stored(pane') : x.id \notin PlacesOf(partTries) BY <1>2 DEF PaneIsTrue
  <2>4. PICK b \in Stored(pane') : \A i \in PlacesOf(partTries) : b.id < i BY <1>2 DEF PaneIsTrue
  <2>5. \A i \in DOMAIN chatLog : i < Len(chatLog) + 1 /\ i # Len(chatLog) + 1 BY <1>a
  <2> QED BY <2>1, <2>2, <2>3, <2>4, <2>5
<1> QED BY <1>1, <1>2 DEF PaneIsTrue, Waiting, Stored

\* What the other steps put on the screen is true.
LEMMA PaneMoves ==
    ASSUME ChatInv, [ChatPaneNext]_chatVars, ~SendAnswered, ~SendFails, ~Send
    PROVE  pane' \subseteq ChatRows /\ PaneIsTrue(pane') /\ (Waiting(pane') => Waiting(pane))
<1>a. /\ pane \in SUBSET ChatRows /\ chatNews \in Seq(ChatRows) /\ pageOf \in [PageKinds -> ChatPages]
      /\ ChatShape /\ LogIsTrue /\ PaneIsTrue(pane) /\ PagesAreTrue
  BY DEF ChatInv, ChatShape
<1> DEFINE Moved == pane' \subseteq ChatRows /\ PaneIsTrue(pane') /\ (Waiting(pane') => Waiting(pane))
<1>b. CASE UNCHANGED pane BY <1>a, <1>b
<1>c. CASE pane' = {} BY <1>c DEF PaneIsTrue, Waiting
<1>1. CASE NewsArrives
  <2>1. chatNews # <<>> /\ pane' = Merge(pane, Head(chatNews)) BY <1>1 DEF NewsArrives, Show
  <2>2. Head(chatNews) \in ChatRows /\ InLog(Head(chatNews))
    <3>1. 1 \in DOMAIN chatNews /\ Head(chatNews) = chatNews[1] /\ chatNews[1] \in ChatRows BY <1>a, <2>1
    <3>2. Head(chatNews) \in Range(chatNews) BY <3>1 DEF Range
    <3> QED BY <1>a, <3>1, <3>2 DEF PagesAreTrue
  <2> QED BY <1>a, <2>1, <2>2, InLogIsKnown, MergeTrue
<1>2. ASSUME NEW p \in PageKinds, PageArrives(p) PROVE Moved
  <2> DEFINE rows == pageOf[p].rows
  <2>1. /\ rows \in SUBSET ChatRows /\ (\A x \in rows : InLog(x)) /\ \A x, y \in rows : x.id = y.id => x = y
    <3>1. pageOf[p] \in ChatPages BY <1>a
    <3> QED BY <1>a, <3>1 DEF PagesAreTrue, PagesHold, ChatPages
  <2>2. pane' = CASE p \in {"first", "around"} -> rows
                  [] p = "older" -> pane \cup {m \in rows : \A x \in pane : x.id # m.id}
                  [] p = "after" -> MergeAll(pane, rows)
    BY <1>2 DEF PageArrives, Show
  <2>3. CASE p \in {"first", "around"}
    <3>1. pane' = rows BY <2>2, <2>3
    <3>2. \A x \in rows : Known(x) /\ x.id # 0 BY <1>a, <2>1, InLogIsKnown
    <3> HIDE DEF rows
    <3> QED BY <2>1, <3>1, <3>2 DEF PaneIsTrue, Waiting
  <2>4. CASE p = "older"
    <3> DEFINE new == {m \in rows : \A x \in pane : x.id # m.id}
    <3>1. pane' = pane \cup new BY <2>2, <2>4
    <3>2. \A x \in new : Known(x) /\ x.id # 0 /\ x \in ChatRows BY <1>a, <2>1, InLogIsKnown
    <3>3. \A x, y \in pane' : x.id = y.id => x = y BY <1>a, <2>1, <3>1 DEF PaneIsTrue
    <3>4. \A x \in pane' : IF x.id = 0 THEN PendingRow(x) /\ trying # "none" ELSE Known(x)
      BY <1>a, <3>1, <3>2 DEF PaneIsTrue
    <3>5. Waiting(pane') => Waiting(pane) BY <3>1, <3>2 DEF Waiting
    <3>6. ASSUME Waiting(pane'), ~blind
          PROVE  /\ \A x \in Stored(pane') : x.id \notin PlacesOf(partTries)
                 /\ \E x \in Stored(pane') : \A i \in PlacesOf(partTries) : x.id < i
      <4>1. Waiting(pane) BY <3>5, <3>6
      <4>2. \A i \in PlacesOf(partTries) : pageOf["older"].mark <= i BY <1>a, <3>6, <4>1 DEF PagesAreTrue
      <4>3. \A x \in new : x.id < pageOf["older"].mark BY <1>a, <2>4 DEF PagesAreTrue, PagesHold
      <4>4. pageOf["older"].mark \in Nat
        <5>1. pageOf["older"] \in ChatPages BY <1>a DEF PageKinds
        <5> QED BY <5>1 DEF ChatPages
      <4>5. \A i \in PlacesOf(partTries) : i \in Nat BY <1>a DEF PlacesOf, ChatShape
      <4>6. \A x \in new : x.id \in Nat BY <3>2 DEF ChatRows
      <4>7. \A x \in new : x.id \notin PlacesOf(partTries) BY <4>2, <4>3, <4>4, <4>5, <4>6
      <4>8. \A x \in Stored(pane) : x.id \notin PlacesOf(partTries) BY <1>a, <3>6, <4>1 DEF PaneIsTrue
      <4>9. PICK b \in Stored(pane) : \A i \in PlacesOf(partTries) : b.id < i BY <1>a, <3>6, <4>1 DEF PaneIsTrue
      <4> HIDE DEF new
      <4> QED BY <3>1, <4>7, <4>8, <4>9 DEF Stored
    <3> HIDE DEF new
    <3> QED BY <1>a, <3>1, <3>2, <3>3, <3>4, <3>5, <3>6 DEF PaneIsTrue
  <2>5. CASE p = "after"
    <3>1. pane' = MergeAll(pane, rows) BY <2>2, <2>5
    <3> HIDE DEF rows
    <3> QED BY <1>a, <2>1, <3>1, MergeAllTrue
  <2> QED BY <2>3, <2>4, <2>5 DEF PageKinds
<1>3. CASE OpenPane \/ LeavePane BY <1>c, <1>3 DEF OpenPane, LeavePane
<1>4. ASSUME CustomerWrites \/ NewsLost \/ OlderPage \/ MarkRead \/ SetMode \/ PartServed
      PROVE  UNCHANGED pane
  BY <1>4 DEF CustomerWrites, NewsLost, OlderPage, MarkRead, SetMode, PartServed
<1>5. ASSUME Resolve \/ ResolveRefused \/ Reopen \/ UNCHANGED chatVars PROVE UNCHANGED pane
  BY <1>5 DEF Resolve, ResolveRefused, Reopen, chatVars
<1>6. ASSUME NEW i, Reported(i) \/ Jump(i) \/ PageServed(i) \/ PageFails(i) \/ Write(i) PROVE UNCHANGED pane
  BY <1>6 DEF Reported, Jump, PageServed, PageFails, Write
<1> QED BY <1>b, <1>1, <1>2, <1>3, <1>4, <1>5, <1>6 DEF ChatPaneNext

\* A row that shows at once, beside stored ones.
LEMMA ShownIsTrue ==
    ASSUME ChatInv, [ChatPaneNext]_chatVars, partTries' = partTries + 1, trying' # "none", UNCHANGED <<chatLog, noting>>,
           NEW rows \in SUBSET ChatRows, \A x \in rows : Known(x), \A x, y \in rows : x.id = y.id => x = y,
           Head(going') \in Parts,
           pane' = rows \cup {Shown}, ~blind' => rows # {}
    PROVE  pane' \subseteq ChatRows /\ PaneIsTrue(pane)'
<1>a. partTries \in Nat /\ chatLog \in Seq(ChatRows) /\ noting \in BOOLEAN BY DEF ChatInv, ChatShape
<1> PICK s : s = [id |-> 0, try |-> partTries + 1, part |-> Head(going'), direction |-> IF noting THEN "note" ELSE "out",
                  status |-> "queued"]
  OBVIOUS
<1>1. pane' = rows \cup {s} BY DEF Shown
<1>2. s \in ChatRows BY <1>a DEF ChatRows, Directions, StatusRank
<1>3. s.id = 0 /\ PendingRow(s)' BY DEF PendingRow
<1>4. \A x \in rows : x.id # 0 /\ Known(x)' BY <1>a, KnownStays DEF Known
<1>5. PlacesOf(partTries)' = {}
  <2>1. PlacesOf(partTries + 1) = {} BY <1>a, PlacesKept
  <2> QED BY <2>1 DEF PlacesOf
<1>6. \A x, y \in pane' : x.id = y.id => x = y BY <1>1, <1>3, <1>4
<1>7. ~blind' => \E x \in pane' : x.id > 0
  <2>1. \A x \in rows : x.id > 0 BY <1>a DEF Known
  <2> QED BY <1>1, <2>1
<1>8. \A x \in pane' : IF x.id = 0 THEN PendingRow(x)' /\ trying' # "none" ELSE Known(x)' BY <1>1, <1>3, <1>4
<1>9. pane' \subseteq ChatRows BY <1>1, <1>2
<1> QED BY <1>5, <1>6, <1>7, <1>8, <1>9 DEF PaneIsTrue, Stored


\* The message the answer of a send brings: the last one with its part, which is its own.
LEMMA SavedIs ==
    ASSUME ChatInv, trying = "stored"
    PROVE  \E i \in DOMAIN chatLog :
             /\ IsSaved(i)
             /\ chatLog[i] = CHOOSE m \in Range(chatLog) : m.part = Head(going) /\ \A x \in Range(chatLog) :
                               x.part = Head(going) => x.id <= m.id
<1>a. chatLog \in Seq(ChatRows) /\ SendIsTrue /\ LogIsTrue /\ going \in Seq(Parts) BY DEF ChatInv, ChatShape
<1>b. Head(going) \in Parts /\ Head(going) # NoPart BY <1>a, ChatPaneAssumption DEF SendIsTrue
<1>1. PICK i \in DOMAIN chatLog : IsSaved(i) BY <1>a DEF SendIsTrue
<1> DEFINE P(m) == m.part = Head(going) /\ \A x \in Range(chatLog) : x.part = Head(going) => x.id <= m.id
<1>2. \A x \in Range(chatLog) : x.id \in DOMAIN chatLog /\ x = chatLog[x.id] BY <1>a DEF Range, LogIsTrue
<1>3. \A x \in Range(chatLog) : x.part = Head(going) => x.id <= i
  <2> SUFFICES ASSUME NEW x \in Range(chatLog), x.part = Head(going) PROVE x.id <= i OBVIOUS
  <2>1. ~(x.id > i) BY <1>1, <1>2, <1>b DEF IsSaved
  <2> QED BY <1>a, <1>2, <2>1
<1>4. chatLog[i] \in Range(chatLog) /\ chatLog[i].id = i /\ P(chatLog[i]) BY <1>1, <1>3, <1>a DEF Range, IsSaved, LogIsTrue
<1>5. \A m \in Range(chatLog) : P(m) => m = chatLog[i]
  <2> SUFFICES ASSUME NEW m \in Range(chatLog), P(m) PROVE m = chatLog[i] OBVIOUS
  <2>1. i <= m.id /\ m.id <= i BY <1>3, <1>4, <1>b, <1>1 DEF IsSaved
  <2>2. i = m.id BY <1>a, <1>2, <2>1
  <2> QED BY <1>2, <2>2
<1> HIDE DEF P
<1>6. chatLog[i] = CHOOSE m \in Range(chatLog) : P(m) BY <1>4, <1>5
<1> QED BY <1>1, <1>6 DEF P

\* The screen a send leaves.
LEMMA SendKeepsPane == ASSUME ChatInv, [ChatPaneNext]_chatVars, Send PROVE pane' \subseteq ChatRows /\ PaneIsTrue(pane)'
<1>a. /\ PaneIsTrue(pane) /\ SendIsTrue /\ pane \in SUBSET ChatRows /\ box \in Seq(Parts)
  BY DEF ChatInv, ChatShape
<1>1. /\ partTries' = partTries + 1 /\ trying' = "asked" /\ UNCHANGED <<chatLog, noting>>
      /\ pane' = pane \cup {Shown} /\ blind' = (Stored(pane) = {}) /\ Head(going') \in Parts
  BY <1>a DEF Send, logVars
<1>2. \A x \in pane : Known(x) BY <1>a DEF Send, PaneIsTrue
<1>3. \A x, y \in pane : x.id = y.id => x = y BY <1>a DEF PaneIsTrue
<1>4. ~blind' => pane # {} BY <1>1 DEF Stored
<1> QED BY <1>a, <1>1, <1>2, <1>3, <1>4, ShownIsTrue

LEMMA FailKeepsPane == ASSUME ChatInv, [ChatPaneNext]_chatVars, SendFails PROVE pane' \subseteq ChatRows /\ PaneIsTrue(pane)'
<1>a. PaneIsTrue(pane) /\ pane \in SUBSET ChatRows BY DEF ChatInv, ChatShape
<1>1. pane' = {m \in pane : m.try # partTries} BY DEF SendFails
<1>2. \A x \in pane' : x.id # 0 /\ Known(x) BY <1>a, <1>1 DEF PaneIsTrue, PendingRow
<1>3. \A x \in pane' : x.id # 0 /\ Known(x)' BY <1>a, <1>1, <1>2, KnownStays
<1> QED BY <1>a, <1>1, <1>3 DEF PaneIsTrue, Waiting

LEMMA AnswerKeepsPane ==
    ASSUME ChatInv, [ChatPaneNext]_chatVars, SendAnswered
    PROVE  pane' \subseteq ChatRows /\ PaneIsTrue(pane)' /\ (Waiting(pane') => partTries' = partTries + 1)
<1>a. /\ PaneIsTrue(pane) /\ SendIsTrue /\ PagesAreTrue /\ LogIsTrue /\ ChatShape /\ pane \in SUBSET ChatRows
      /\ going \in Seq(Parts) /\ partTries \in Nat /\ chatLog \in Seq(ChatRows)
  BY DEF ChatInv, ChatShape
<1>b. trying = "stored" /\ going # <<>> BY <1>a DEF SendAnswered, SendIsTrue
<1> DEFINE last == CHOOSE m \in Range(chatLog) : m.part = Head(going) /\ \A x \in Range(chatLog) :
                     x.part = Head(going) => x.id <= m.id
           saved == [last EXCEPT !.try = partTries]
           stay == {m \in pane : m.try # partTries \/ m.id = saved.id}
           rows == Merge(stay, saved)
<1>1. PICK i \in DOMAIN chatLog : IsSaved(i) /\ chatLog[i] = last BY <1>b, SavedIs
<1>2. IF Len(going) > 1 /\ partTries < MaxPartTries
      THEN /\ going' = Tail(going) /\ trying' = "asked" /\ partTries' = partTries + 1
           /\ IF paneOpen THEN pane' = rows \cup {Shown} ELSE UNCHANGED pane
      ELSE /\ going' = <<>> /\ trying' = "none" /\ UNCHANGED partTries
           /\ IF paneOpen THEN pane' = rows ELSE UNCHANGED pane
  BY DEF SendAnswered, Show
<1>3. UNCHANGED <<chatLog, noting>> BY DEF SendAnswered, logVars
<1> HIDE DEF last
<1>4. saved \in ChatRows /\ saved.id = i /\ saved.try = partTries /\ saved.direction = chatLog[i].direction /\ i \in Nat /\ i > 0
  <2>1. chatLog[i] \in ChatRows /\ chatLog[i].id = i /\ i \in Nat /\ i > 0 BY <1>a DEF LogIsTrue
  <2> QED BY <1>1, <1>a, <2>1 DEF ChatRows
<1> HIDE DEF saved
<1>5. Known(saved) /\ (noting => saved.direction = "note")
  <2>1. CASE noting
    <3>1. NoteTry(partTries) BY <1>a, <1>b, <2>1 DEF NoteTry, SendIsTrue
    <3> QED BY <1>1, <1>4, <2>1, <3>1 DEF Known, IsSaved
  <2>2. CASE ~noting BY <1>1, <1>4, <2>2 DEF Known, IsSaved
  <2> QED BY <2>1, <2>2
<1>6. stay \in SUBSET ChatRows /\ \A x \in stay : x.id # 0 /\ Known(x)
  BY <1>a, <1>4 DEF PaneIsTrue, PendingRow
<1>7. PaneIsTrue(stay) /\ ~Waiting(stay) BY <1>a, <1>6 DEF PaneIsTrue, Waiting
<1> HIDE DEF stay
<1>8. /\ rows \in SUBSET ChatRows /\ PaneIsTrue(rows) /\ (\E y \in rows : Alike(y, saved))
      /\ \A y \in rows : y.id # 0
  BY <1>a, <1>4, <1>5, <1>6, <1>7, MergeTrue
<1> HIDE DEF rows
<1>9. rows # {} /\ (\A x \in rows : Known(x)) /\ \A x, y \in rows : x.id = y.id => x = y BY <1>8 DEF PaneIsTrue
<1>10. CASE ~paneOpen
  <2>1. pane' = {} BY <1>2, <1>a, <1>10 DEF PagesAreTrue
  <2> QED BY <2>1 DEF PaneIsTrue, Waiting
<1>11. CASE paneOpen /\ Len(going) > 1 /\ partTries < MaxPartTries
  <2>1. /\ going' = Tail(going) /\ trying' # "none" /\ partTries' = partTries + 1 /\ pane' = rows \cup {Shown}
    BY <1>2, <1>11
  <2>2. Head(going') \in Parts
    <3>1. Len(going) > 1 BY <1>11
    <3>2. Tail(going) \in Seq(Parts) /\ Head(Tail(going)) = going[2] /\ going[2] \in Parts BY <1>a, <3>1
    <3> QED BY <2>1, <3>2
  <2> QED BY <1>3, <1>8, <1>9, <2>1, <2>2, ShownIsTrue
<1>12. CASE paneOpen /\ ~(Len(going) > 1 /\ partTries < MaxPartTries)
  <2>1. pane' = rows BY <1>2, <1>12
  <2>2. \A x \in rows : Known(x)' BY <1>8, <1>9, KnownStays
  <2> QED BY <1>8, <1>9, <2>1, <2>2 DEF PaneIsTrue, Waiting
<1> QED BY <1>10, <1>11, <1>12

LEMMA PaneNext == ASSUME ChatInv, [ChatPaneNext]_chatVars PROVE pane' \subseteq ChatRows /\ PaneIsTrue(pane)'
<1>a. ChatShape /\ pane \subseteq ChatRows /\ PaneIsTrue(pane) BY DEF ChatInv, ChatShape
<1>1. CASE Send BY <1>1, SendKeepsPane
<1>2. CASE SendAnswered BY <1>2, AnswerKeepsPane
<1>3. CASE SendFails BY <1>3, FailKeepsPane
<1>4. CASE SetMode
  <2>1. UNCHANGED <<pane, trying>> /\ trying = "none" BY <1>4 DEF SetMode, ChatInv, SendIsTrue
  <2>2. \A x \in pane : x.id # 0 /\ Known(x) BY <1>a, <2>1 DEF PaneIsTrue
  <2>3. \A x \in pane' : x.id # 0 /\ Known(x)' BY <1>a, <2>1, <2>2, KnownStays
  <2> QED BY <1>a, <2>1, <2>3 DEF PaneIsTrue, Waiting
<1>5. CASE ~SendAnswered /\ ~SendFails /\ ~Send /\ ~SetMode
  <2>1. UNCHANGED <<going, noting, partTries, blind>> /\ (trying # "none" => trying' # "none")
    <3>1. CASE PartServed BY <3>1 DEF PartServed
    <3>2. CASE ~PartServed BY <1>a, <1>5, <3>2, SendStands
    <3> QED BY <3>1, <3>2
  <2> QED BY <1>5, <2>1, PaneMoves, SameSend
<1> QED BY <1>1, <1>2, <1>3, <1>4, <1>5

\* The events on their way are of messages of the log.
LEMMA NewsNext ==
    ASSUME ChatInv, [ChatPaneNext]_chatVars
    PROVE  chatNews' \in Seq(ChatRows) /\ (\A x \in Range(chatNews) : InLog(x))'
<1>a. /\ chatNews \in Seq(ChatRows) /\ chatLog \in Seq(ChatRows) /\ ChatShape /\ \A x \in Range(chatNews) : InLog(x)
  BY DEF ChatInv, ChatShape, PagesAreTrue
<1>b. chatLog' \in Seq(ChatRows) /\ LogIsTrue' /\ LogKept BY LogNext
<1> DEFINE True == chatNews' \in Seq(ChatRows) /\ \A x \in Range(chatNews') : InLog(x)'
<1>c. \A x \in Range(chatNews) : InLog(x)'
  <2>1. \A x \in Range(chatNews) : x \in ChatRows BY <1>a DEF Range
  <2> QED BY <1>a, <2>1, KnownStays
<1>d. <<>> \in Seq(ChatRows) /\ Range(<<>>) = {} BY DEF Range
<1>e. ASSUME NEW i \in DOMAIN chatLog', NEW x, x = chatLog'[i], Publish(x) PROVE True
  <2>1. x \in ChatRows /\ InLog(x)' BY <1>b, <1>e DEF InLog, LogIsTrue
  <2>2. Append(chatNews, x) \in Seq(ChatRows) /\ Range(Append(chatNews, x)) \subseteq Range(chatNews) \cup {x}
    BY <1>a, <2>1, WhatItHolds
  <2> QED BY <1>c, <1>d, <1>e, <2>1, <2>2 DEF Publish
<1>1. CASE CustomerWrites
  <2> PICK x : x = [id |-> Len(chatLog) + 1, try |-> 0, part |-> NoPart, direction |-> "in", status |-> "read"]
    OBVIOUS
  <2>1. chatLog' = Append(chatLog, x) /\ Publish(x) BY <1>1 DEF CustomerWrites
  <2>2. Len(chatLog) + 1 \in DOMAIN chatLog' BY <1>1, CustomerAppends
  <2>3. x = chatLog'[Len(chatLog) + 1] BY <1>a, <2>1
  <2> QED BY <1>e, <2>1, <2>2, <2>3
<1>2. CASE PartServed
  <2>1. CASE trying' = "refused" BY <1>2, <2>1, <1>a, <1>c DEF PartServed
  <2>2. CASE trying' # "refused"
    <3> PICK x : x = [id |-> Len(chatLog) + 1, try |-> IF noting THEN 0 ELSE partTries, part |-> Head(going),
                      direction |-> IF noting THEN "note" ELSE "out", status |-> "queued"]
      OBVIOUS
    <3>1. chatLog' = Append(chatLog, x) /\ Publish(x) BY <1>2, <2>2 DEF PartServed
    <3>2. Len(chatLog) + 1 \in DOMAIN chatLog' BY <1>2, <2>2, PartAppends
    <3>3. x = chatLog'[Len(chatLog) + 1] BY <1>a, <3>1
    <3> QED BY <1>e, <3>1, <3>2, <3>3
  <2> QED BY <2>1, <2>2
<1>3. ASSUME NEW i \in DOMAIN chatLog, Reported(i) PROVE True
  <2>1. i \in DOMAIN chatLog' BY <1>b DEF LogKept
  <2>2. Publish(chatLog'[i]) BY <1>3 DEF Reported
  <2> QED BY <1>e, <2>1, <2>2
<1>4. CASE NewsArrives
  <2>1. chatNews # <<>> /\ chatNews' = Tail(chatNews) BY <1>4 DEF NewsArrives
  <2>2. Tail(chatNews) \in Seq(ChatRows) /\ Range(Tail(chatNews)) \subseteq Range(chatNews)
    <3>1. Head(chatNews) \in ChatRows BY <1>a, <2>1
    <3> QED BY <1>a, <2>1, <3>1, WhatItHolds
  <2> QED BY <1>c, <2>1, <2>2
<1>5. CASE NewsLost \/ OpenPane \/ LeavePane BY <1>5, <1>d DEF NewsLost, OpenPane, LeavePane
<1>6. ASSUME OlderPage \/ MarkRead \/ SetMode \/ Send \/ SendAnswered \/ SendFails PROVE UNCHANGED chatNews
  BY <1>6 DEF OlderPage, MarkRead, SetMode, Send, SendAnswered, SendFails, logVars
<1>7. ASSUME Resolve \/ ResolveRefused \/ Reopen \/ UNCHANGED chatVars PROVE UNCHANGED chatNews
  BY <1>7 DEF Resolve, ResolveRefused, Reopen, chatVars, logVars
<1>8. ASSUME NEW i, Jump(i) \/ PageServed(i) \/ PageArrives(i) \/ PageFails(i) \/ Write(i) PROVE UNCHANGED chatNews
  BY <1>8 DEF Jump, PageServed, PageArrives, PageFails, Write, logVars
<1>9. CASE UNCHANGED chatNews BY <1>9, <1>a, <1>c
<1> QED BY <1>1, <1>2, <1>3, <1>4, <1>5, <1>6, <1>7, <1>8, <1>9 DEF ChatPaneNext

\* The row before which an older page is asked for is the oldest stored one shown.
LEMMA OldestIs ==
    ASSUME ChatInv, Stored(pane) # {}
    PROVE  OldestRow(pane) \in DOMAIN chatLog /\ \A x \in Stored(pane) : OldestRow(pane) <= x.id
<1> DEFINE ids == {m.id : m \in Stored(pane)}
<1>1. ids \subseteq DOMAIN chatLog /\ ids # {} BY DEF Stored, ChatInv, PaneIsTrue, Known
<1>2. DOMAIN chatLog \subseteq Nat BY DEF ChatInv, ChatShape
<1>3. \E n \in ids : \A k \in ids : n <= k
  <2> HIDE DEF ids
  <2> QED BY <1>1, <1>2, LeastOf
<1>4. \E n \in ids : \A m \in Stored(pane) : n <= m.id BY <1>3
<1>5. OldestRow(pane) \in ids /\ \A m \in Stored(pane) : OldestRow(pane) <= m.id BY <1>4 DEF OldestRow
<1> QED BY <1>1, <1>5

LEMMA NewestIs == ASSUME ChatInv PROVE newestSeen(pane) \in Nat
<1> DEFINE ids == {m.id : m \in Stored(pane)}
<1>1. ids \subseteq DOMAIN chatLog BY DEF Stored, ChatInv, PaneIsTrue, Known
<1>2. Len(chatLog) \in Nat /\ DOMAIN chatLog \subseteq 0 .. Len(chatLog) BY DEF ChatInv, ChatShape
<1>3. CASE Stored(pane) # {}
  <2>1. ids # {} BY <1>3
  <2>2. \E n \in ids : \A k \in ids : k <= n
    <3> HIDE DEF ids
    <3> QED BY <1>1, <1>2, <2>1, GreatestOf
  <2>3. \E n \in ids : \A m \in Stored(pane) : m.id <= n BY <2>2
  <2>4. newestSeen(pane) \in ids BY <1>3, <2>3 DEF newestSeen
  <2> QED BY <1>1, <1>2, <2>4
<1>4. CASE Stored(pane) = {} BY <1>4 DEF newestSeen
<1> QED BY <1>3, <1>4

\* The pages asked for.
LEMMA PagesNext ==
    ASSUME ChatInv, [ChatPaneNext]_chatVars PROVE pageOf' \in [PageKinds -> ChatPages] /\ PagesHold'
<1>a. /\ pageOf \in [PageKinds -> ChatPages] /\ chatLog \in Seq(ChatRows) /\ PagesHold /\ LogIsTrue
  BY DEF ChatInv, ChatShape, PagesAreTrue, PagesHold
<1>b. chatLog' \in Seq(ChatRows) /\ LogKept BY LogNext
<1>c. Len(chatLog) <= Len(chatLog')
  <2>1. DOMAIN chatLog = 1 .. Len(chatLog) /\ DOMAIN chatLog' = 1 .. Len(chatLog') BY <1>a, <1>b
  <2>2. Len(chatLog) \in Nat /\ Len(chatLog') \in Nat BY <1>a, <1>b
  <2>3. Len(chatLog) > 0 => Len(chatLog) \in 1 .. Len(chatLog') BY <1>b, <2>1, <2>2 DEF LogKept
  <2> QED BY <2>2, <2>3
<1>d. \A p \in PageKinds : pageOf[p] \in ChatPages /\ pageOf[p].rows \subseteq ChatRows /\ pageOf[p].mark \in Nat
  BY <1>a DEF ChatPages
<1>e. \A p \in PageKinds : \A x \in pageOf[p].rows : InLog(x)' BY <1>a, <1>d, KnownStays DEF PagesHold
<1>f. "older" \in PageKinds BY DEF PageKinds
<1> DEFINE True == pageOf' \in [PageKinds -> ChatPages] /\ PagesHold'
\* One page changes, and what it is now is true.
<1>g. ASSUME NEW p \in PageKinds, NEW page \in ChatPages, pageOf' = [pageOf EXCEPT ![p] = page],
             \A x \in page.rows : InLog(x)', \A x, y \in page.rows : x.id = y.id => x = y,
             p = "older" => page.mark <= Len(chatLog) /\ \A x \in page.rows : x.id < page.mark
      PROVE  True
  <2>1. pageOf' \in [PageKinds -> ChatPages] BY <1>a, <1>g
  <2>2. \A q \in PageKinds : pageOf'[q] = IF q = p THEN page ELSE pageOf[q] BY <1>a, <1>g
  <2>3. pageOf'["older"].mark <= Len(chatLog) /\ \A x \in pageOf'["older"].rows : x.id < pageOf'["older"].mark
    BY <1>a, <1>f, <1>g, <2>2 DEF PagesHold
  <2>4. pageOf'["older"].mark \in Nat BY <2>1, <1>f DEF ChatPages
  <2>5. pageOf'["older"].mark <= Len(chatLog') BY <1>a, <1>b, <1>c, <2>3, <2>4
  <2>6. \A q \in PageKinds : /\ \A x \in pageOf'[q].rows : InLog(x)'
                             /\ \A x, y \in pageOf'[q].rows : x.id = y.id => x = y
    BY <1>a, <1>e, <1>g, <2>2 DEF PagesHold
  <2> QED BY <2>1, <2>3, <2>5, <2>6 DEF PagesHold
<1>h. NotAsked \in ChatPages /\ NotAsked.rows = {} /\ NotAsked.mark = 0 /\ 0 <= Len(chatLog)
  BY <1>a DEF NotAsked, ChatPages
<1>i. ASSUME NEW p \in PageKinds, NEW mark \in Nat, AskPage(p, mark), p = "older" => mark <= Len(chatLog) PROVE True
  <2> DEFINE page == [state |-> "asked", rows |-> {}, mark |-> mark]
  <2>1. page \in ChatPages /\ page.rows = {} /\ page.mark = mark BY DEF ChatPages
  <2>2. pageOf' = [pageOf EXCEPT ![p] = page] BY <1>i DEF AskPage
  <2> HIDE DEF page
  <2> QED BY <1>g, <1>i, <2>1, <2>2
<1>j. CASE UNCHANGED pageOf
  <2>1. pageOf["older"].mark <= Len(chatLog') BY <1>a, <1>b, <1>c, <1>d, <1>f DEF PagesHold
  <2> QED BY <1>a, <1>e, <1>j, <2>1 DEF PagesHold
<1>k. ASSUME NEW p \in PageKinds, pageOf' = [pageOf EXCEPT ![p] = NotAsked] PROVE True BY <1>g, <1>h, <1>k
<1>1. CASE OpenPane BY <1>1, <1>i DEF OpenPane, PageKinds
<1>2. CASE LeavePane
  <2>1. pageOf' = [p \in PageKinds |-> NotAsked] BY <1>2 DEF LeavePane
  <2>2. Len(chatLog') \in Nat BY <1>b
  <2> QED BY <1>f, <1>h, <2>1, <2>2 DEF PagesHold
<1>3. CASE OlderPage
  <2>1. OldestRow(pane) \in DOMAIN chatLog BY <1>3, OldestIs DEF OlderPage
  <2>2. OldestRow(pane) \in Nat /\ OldestRow(pane) <= Len(chatLog) BY <1>a, <2>1
  <2> QED BY <1>3, <1>f, <1>i, <2>2 DEF OlderPage
<1>4. ASSUME NEW i, Jump(i) PROVE True
  <2>1. i \in Nat BY <1>4, <1>a DEF Jump
  <2> QED BY <1>4, <1>i, <2>1 DEF Jump, PageKinds
<1>5. ASSUME NEW p \in PageKinds, PageServed(p) PROVE True
  <2> DEFINE k == pageOf[p].mark
             ids == CASE p = "first" -> Len(chatLog) - PageRows + 1 .. Len(chatLog)
                      [] p = "older" -> k - PageRows .. k - 1
                      [] p = "around" -> k .. k + PageRows - 1
                      [] p = "after" -> k + 1 .. Len(chatLog)
             held == LogRows(ids)
             page == [pageOf[p] EXCEPT !.state = "answered", !.rows = held]
  <2>1. pageOf' = [pageOf EXCEPT ![p].state = "answered", ![p].rows = held] BY <1>5 DEF PageServed
  <2>2. p = "older" => \A i \in ids : i < k BY <1>d, ChatPaneAssumption
  <2> HIDE DEF ids
  <2>3. \A x \in held : \E i \in ids \cap DOMAIN chatLog : x = chatLog[i] /\ x.id = i
    BY <1>a DEF LogRows, LogIsTrue
  <2>4. \A x \in held : x \in ChatRows /\ InLog(x)
    <3> SUFFICES ASSUME NEW x \in held PROVE x \in ChatRows /\ InLog(x) OBVIOUS
    <3>1. PICK i \in DOMAIN chatLog : x = chatLog[i] /\ x.id = i BY <2>3
    <3>2. chatLog[i] \in ChatRows BY <1>a
    <3> QED BY <3>1, <3>2 DEF InLog
  <2>5. \A x \in held : InLog(x)' BY <2>4, KnownStays
  <2>6. \A x, y \in held : x.id = y.id => x = y BY <2>3
  <2>7. p = "older" => k <= Len(chatLog) /\ \A x \in held : x.id < k BY <1>a, <2>2, <2>3 DEF PagesHold
  <2> HIDE DEF held
  <2>8. page \in ChatPages /\ page.rows = held /\ page.mark = k BY <1>d, <2>4 DEF ChatPages
  <2>9. pageOf' = [pageOf EXCEPT ![p] = page] BY <1>a, <2>1
  <2> HIDE DEF page, k
  <2>10. p = "older" => page.mark <= Len(chatLog) /\ \A x \in page.rows : x.id < page.mark BY <2>7, <2>8
  <2>11. (\A x \in page.rows : InLog(x)') /\ \A x, y \in page.rows : x.id = y.id => x = y BY <2>5, <2>6, <2>8
  <2>12. page \in ChatPages BY <2>8
  <2> QED BY <1>g, <2>9, <2>10, <2>11, <2>12
<1>6. ASSUME NEW p \in PageKinds, PageArrives(p) \/ PageFails(p) PROVE True BY <1>6, <1>k DEF PageArrives, PageFails
<1>7. CASE ResolveRefused
  <2>1. CASE AskPage("after", newestSeen(pane)) BY <2>1, <1>i, NewestIs DEF PageKinds
  <2> QED BY <1>7, <1>j, <2>1 DEF ResolveRefused
<1>8. ASSUME CustomerWrites \/ NewsArrives \/ NewsLost \/ MarkRead \/ SetMode \/ PartServed PROVE UNCHANGED pageOf
  BY <1>8 DEF CustomerWrites, NewsArrives, NewsLost, MarkRead, SetMode, PartServed
<1>9. ASSUME Send \/ SendAnswered \/ SendFails \/ Resolve \/ Reopen \/ UNCHANGED chatVars PROVE UNCHANGED pageOf
  BY <1>9 DEF Send, SendAnswered, SendFails, Resolve, Reopen, chatVars
<1>10. ASSUME NEW i, Reported(i) \/ Write(i) PROVE UNCHANGED pageOf BY <1>10 DEF Reported, Write
<1> QED BY <1>j, <1>1, <1>2, <1>3, <1>4, <1>5, <1>6, <1>7, <1>8, <1>9, <1>10 DEF ChatPaneNext

\* An older page that is asked for comes before the part that waits.
LEMMA OlderNext ==
    ASSUME ChatInv, [ChatPaneNext]_chatVars, Waiting(pane'), ~blind'
    PROVE  \A i \in PlacesOf(partTries)' : pageOf'["older"].mark <= i
<1>a. /\ partTries \in Nat /\ chatLog \in Seq(ChatRows) /\ pageOf["older"].mark \in Nat
      /\ pageOf \in [PageKinds -> ChatPages] /\ PagesAreTrue /\ PaneIsTrue(pane) /\ SendIsTrue /\ ChatShape
  BY DEF ChatInv, ChatShape, ChatPages, PageKinds
<1>b. \A i \in PlacesOf(partTries) : i \in Nat BY <1>a DEF PlacesOf
<1>1. CASE Send \/ SendAnswered
  <2>1. partTries' = partTries + 1
    <3>1. CASE Send BY <3>1 DEF Send
    <3>2. CASE SendAnswered BY <3>2, AnswerKeepsPane
    <3> QED BY <1>1, <3>1, <3>2
  <2>2. UNCHANGED chatLog BY <1>1 DEF Send, SendAnswered, logVars
  <2>3. PlacesOf(partTries + 1) = {} BY <1>a, PlacesKept
  <2>4. PlacesOf(partTries)' = {} BY <2>1, <2>2, <2>3 DEF PlacesOf
  <2> QED BY <2>4
<1>2. CASE SendFails
  <2>1. \A x \in pane' : x.id # 0 BY <1>2, <1>a DEF SendFails, PaneIsTrue, PendingRow
  <2> QED BY <2>1 DEF Waiting
<1>3. CASE ~Send /\ ~SendAnswered /\ ~SendFails
  <2>1. Waiting(pane) BY <1>3, PaneMoves
  <2>2. UNCHANGED <<partTries, blind>>
    <3>1. CASE PartServed \/ SetMode BY <3>1 DEF PartServed, SetMode
    <3>2. CASE ~PartServed /\ ~SetMode BY <1>3, <1>a, <3>2, SendStands
    <3> QED BY <3>1, <3>2
  <2>3. \A i \in PlacesOf(partTries) : pageOf["older"].mark <= i BY <1>a, <2>1, <2>2 DEF PagesAreTrue
  <2>4. PICK b \in Stored(pane) : \A i \in PlacesOf(partTries) : b.id < i BY <1>a, <2>1, <2>2 DEF PaneIsTrue
  <2>5. b.id \in DOMAIN chatLog BY <1>a DEF Stored, PaneIsTrue, Known
  <2>6. PlacesOf(partTries)' \subseteq PlacesOf(partTries) \cup {Len(chatLog) + 1} BY <1>a, <2>2, PlacesKept
  <2> DEFINE mark == pageOf'["older"].mark
  <2>7. mark \in Nat /\ (mark <= pageOf["older"].mark \/ mark <= b.id)
    <3>1. CASE OlderPage
      <4>1. mark = OldestRow(pane) BY <3>1, <1>a DEF OlderPage, AskPage, PageKinds
      <4>2. OldestRow(pane) \in DOMAIN chatLog /\ OldestRow(pane) <= b.id BY OldestIs
      <4> QED BY <1>a, <4>1, <4>2
    <3>2. ASSUME NEW p \in PageKinds \ {"older"}, NEW m, AskPage(p, m) PROVE mark = pageOf["older"].mark
      BY <3>2, <1>a DEF AskPage, PageKinds
    <3>3. CASE OpenPane \/ (\E i \in 1 .. MaxLog : Jump(i)) \/ ResolveRefused
      <4>1. mark = pageOf["older"].mark BY <3>2, <3>3 DEF OpenPane, Jump, ResolveRefused, PageKinds
      <4> QED BY <1>a, <4>1
    <3>4. CASE \E p \in PageKinds : PageServed(p)
      <4>1. PICK p \in PageKinds : PageServed(p) BY <3>4
      <4>2. mark = pageOf["older"].mark
        <5>1. PICK held : pageOf' = [pageOf EXCEPT ![p].state = "answered", ![p].rows = held] BY <4>1 DEF PageServed
        <5>2. \A q \in PageKinds : pageOf'[q].mark = pageOf[q].mark
          <6>1. \A q \in PageKinds : pageOf[q] \in ChatPages BY <1>a
          <6> QED BY <1>a, <5>1, <6>1 DEF ChatPages
        <5> QED BY <5>2 DEF PageKinds
      <4> QED BY <1>a, <4>2
    <3>5. CASE \E p \in PageKinds : PageArrives(p) \/ PageFails(p)
      <4>1. PICK p \in PageKinds : pageOf' = [pageOf EXCEPT ![p] = NotAsked] BY <3>5 DEF PageArrives, PageFails
      <4>2. mark \in {0, pageOf["older"].mark} BY <1>a, <4>1 DEF NotAsked, PageKinds
      <4> QED BY <1>a, <4>2
    <3>6. CASE LeavePane
      <4>1. mark = 0 BY <3>6 DEF LeavePane, NotAsked, PageKinds
      <4> QED BY <1>a, <4>1
    <3>7. CASE UNCHANGED pageOf BY <1>a, <3>7
    <3>8. ASSUME CustomerWrites \/ NewsArrives \/ NewsLost \/ MarkRead \/ SetMode \/ PartServed PROVE UNCHANGED pageOf
      BY <3>8 DEF CustomerWrites, NewsArrives, NewsLost, MarkRead, SetMode, PartServed
    <3>9. ASSUME Resolve \/ Reopen \/ UNCHANGED chatVars PROVE UNCHANGED pageOf BY <3>9 DEF Resolve, Reopen, chatVars
    <3>10. ASSUME NEW i, Reported(i) \/ Write(i) PROVE UNCHANGED pageOf BY <3>10 DEF Reported, Write
    <3> QED BY <1>3, <3>1, <3>3, <3>4, <3>5, <3>6, <3>7, <3>8, <3>9, <3>10 DEF ChatPaneNext
  <2>8. pageOf["older"].mark <= Len(chatLog) /\ b.id <= Len(chatLog) /\ b.id \in Nat /\ Len(chatLog) \in Nat
    BY <1>a, <2>5 DEF PagesAreTrue, PagesHold
  <2> HIDE DEF mark
  <2>9. \A i \in PlacesOf(partTries) : mark <= i BY <1>a, <1>b, <2>3, <2>4, <2>7, <2>8
  <2>10. mark <= Len(chatLog) + 1 BY <1>a, <2>7, <2>8
  <2> QED BY <2>6, <2>9, <2>10 DEF mark
<1> QED BY <1>1, <1>2, <1>3

\* A pane that was left is empty, and nothing is on its way to it.
LEMMA LeftStaysEmpty ==
    ASSUME ChatInv, [ChatPaneNext]_chatVars, ~paneOpen'
    PROVE  pane' = {} /\ chatNews' = <<>> /\ pageOf' = [p \in PageKinds |-> NotAsked]
<1>a. ~paneOpen => pane = {} /\ chatNews = <<>> /\ pageOf = [p \in PageKinds |-> NotAsked] BY DEF ChatInv, PagesAreTrue
<1>b. NotAsked.state = "none" /\ \A p \in PageKinds : ~paneOpen => pageOf[p] = NotAsked BY <1>a DEF NotAsked
<1>1. CASE CustomerWrites BY <1>a, <1>1 DEF CustomerWrites, Publish
<1>2. ASSUME NEW i, Reported(i) PROVE pane' = {} /\ chatNews' = <<>> /\ pageOf' = [p \in PageKinds |-> NotAsked]
  BY <1>a, <1>2 DEF Reported, Publish
<1>3. CASE NewsArrives \/ NewsLost BY <1>a, <1>3 DEF NewsArrives, NewsLost
<1>4. CASE OpenPane \/ LeavePane \/ OlderPage \/ MarkRead \/ Resolve \/ Reopen \/ SetMode \/ Send
  BY <1>4, <1>a DEF OpenPane, LeavePane, OlderPage, MarkRead, Resolve, Reopen, SetMode, logVars, Send
<1>5. CASE ResolveRefused BY <1>5, <1>a DEF ResolveRefused, logVars
<1>6. ASSUME NEW i, Jump(i) \/ Write(i) PROVE FALSE BY <1>6 DEF Jump, Write
<1>7. ASSUME NEW p \in PageKinds, PageServed(p) \/ PageArrives(p) \/ PageFails(p) PROVE FALSE
  BY <1>7, <1>b DEF PageServed, PageArrives, PageFails
<1>8. CASE PartServed BY <1>8, <1>a DEF PartServed, Publish
<1>9. CASE SendAnswered
  <2>1. UNCHANGED <<paneOpen, pane, chatNews, pageOf>>
    <3>1. UNCHANGED <<paneOpen, chatNews, pageOf>> BY <1>9 DEF SendAnswered, logVars
    <3>2. CASE Len(going) > 1 /\ partTries < MaxPartTries BY <1>9, <3>1, <3>2 DEF SendAnswered
    <3>3. CASE ~(Len(going) > 1 /\ partTries < MaxPartTries) BY <1>9, <3>1, <3>3 DEF SendAnswered
    <3> QED BY <3>1, <3>2, <3>3
  <2> QED BY <1>a, <2>1
<1>10. CASE SendFails BY <1>10, <1>a DEF SendFails, logVars
<1>11. CASE UNCHANGED chatVars BY <1>11, <1>a DEF chatVars, logVars
<1> QED BY <1>1, <1>2, <1>3, <1>4, <1>5, <1>6, <1>7, <1>8, <1>9, <1>10, <1>11 DEF ChatPaneNext

\* The composer keeps its shape.
LEMMA ComposerNext ==
    ASSUME ChatInv, [ChatPaneNext]_chatVars
    PROVE  /\ box' \in Seq(Parts) /\ going' \in Seq(Parts) /\ draft' \in Seq(Parts)
           /\ noting' \in BOOLEAN /\ blind' \in BOOLEAN /\ paneOpen' \in BOOLEAN
           /\ partTries' \in Nat /\ trying' \in {"none", "asked", "stored", "refused"}
<1>a. /\ box \in Seq(Parts) /\ going \in Seq(Parts) /\ draft \in Seq(Parts)
      /\ noting \in BOOLEAN /\ blind \in BOOLEAN /\ paneOpen \in BOOLEAN
      /\ partTries \in Nat /\ trying \in {"none", "asked", "stored", "refused"}
      /\ <<>> \in Seq(Parts)
  BY DEF ChatInv, ChatShape
<1> DEFINE True == /\ box' \in Seq(Parts) /\ going' \in Seq(Parts) /\ draft' \in Seq(Parts)
                   /\ noting' \in BOOLEAN /\ blind' \in BOOLEAN /\ paneOpen' \in BOOLEAN
                   /\ partTries' \in Nat /\ trying' \in {"none", "asked", "stored", "refused"}
<1>1. CASE OpenPane BY <1>1, <1>a DEF OpenPane, DraftBack
<1>2. CASE LeavePane
  <2>1. TextOf(box) \in Seq(Parts) BY <1>a DEF TextOf
  <2> QED BY <1>2, <1>a, <2>1 DEF LeavePane
<1>3. ASSUME NEW p \in Parts, Write(p) PROVE True BY <1>3, <1>a DEF Write
<1>4. CASE SetMode BY <1>4, <1>a DEF SetMode
<1>5. CASE Send BY <1>5, <1>a DEF Send
<1>6. CASE PartServed BY <1>6, <1>a DEF PartServed
<1>7. CASE SendAnswered
  <2>1. CASE Len(going) > 1 /\ partTries < MaxPartTries
    <3>1. Len(going) > 1 BY <2>1
    <3>2. Tail(going) \in Seq(Parts) BY <1>a, <3>1
    <3>3. /\ going' = Tail(going) /\ trying' = "asked" /\ partTries' = partTries + 1
          /\ blind' = FALSE /\ UNCHANGED <<box, noting, draft, paneOpen>>
      BY <1>7, <2>1 DEF SendAnswered
    <3>4. partTries' \in Nat BY <1>a, <3>3
    <3>5. noting' \in BOOLEAN /\ blind' \in BOOLEAN /\ paneOpen' \in BOOLEAN BY <1>a, <3>3
    <3>6. box' \in Seq(Parts) /\ going' \in Seq(Parts) /\ draft' \in Seq(Parts) BY <1>a, <3>2, <3>3
    <3> QED BY <3>3, <3>4, <3>5, <3>6
  <2>2. CASE ~(Len(going) > 1 /\ partTries < MaxPartTries) BY <1>7, <1>a, <2>2 DEF SendAnswered
  <2> QED BY <2>1, <2>2
<1>8. CASE SendFails BY <1>8, <1>a DEF SendFails
<1>9. ASSUME \/ CustomerWrites \/ NewsArrives \/ NewsLost \/ OlderPage \/ MarkRead \/ Resolve \/ ResolveRefused
             \/ Reopen \/ UNCHANGED chatVars
      PROVE  UNCHANGED <<partVars, paneOpen>>
  BY <1>9 DEF CustomerWrites, NewsArrives, NewsLost, OlderPage, MarkRead, Resolve, ResolveRefused, Reopen, chatVars
<1>10. ASSUME NEW i, Reported(i) \/ Jump(i) \/ PageServed(i) \/ PageArrives(i) \/ PageFails(i)
       PROVE  UNCHANGED <<partVars, paneOpen>>
  BY <1>10 DEF Reported, Jump, PageServed, PageArrives, PageFails
<1>11. CASE UNCHANGED <<partVars, paneOpen>> BY <1>11, <1>a DEF partVars
<1> QED BY <1>1, <1>2, <1>3, <1>4, <1>5, <1>6, <1>7, <1>8, <1>9, <1>10, <1>11 DEF ChatPaneNext

LEMMA ChatBegins == ASSUME ChatPaneInit PROVE ChatInv
<1> USE DEF ChatPaneInit
<1>1. PICK m : m = [id |-> 1, try |-> 0, part |-> NoPart, direction |-> "in", status |-> "read"] OBVIOUS
<1>2. chatLog = <<m>> /\ m \in ChatRows /\ m.id = 1 /\ m.direction = "in" /\ m.try = 0
  BY <1>1 DEF ChatRows, Directions, StatusRank
<1>3. chatLog \in Seq(ChatRows) /\ DOMAIN chatLog = {1} /\ chatLog[1] = m /\ Len(chatLog) = 1 BY <1>2
<1>4. pageOf \in [PageKinds -> ChatPages] /\ \A p \in PageKinds : pageOf[p].rows = {} /\ pageOf[p].mark = 0
  BY DEF NotAsked, ChatPages
<1>5. ChatShape
  <2>1. <<>> \in Seq(Parts) /\ <<>> \in Seq(ChatRows) OBVIOUS
  <2> QED BY <1>3, <1>4, <2>1 DEF ChatShape
<1>6. LogIsTrue BY <1>2, <1>3 DEF LogIsTrue
<1>7. SendIsTrue BY DEF SendIsTrue
<1>8. PaneIsTrue(pane) /\ ~Waiting(pane) BY DEF PaneIsTrue, Waiting
<1>9. PagesHold BY <1>3, <1>4 DEF PagesHold, PageKinds
<1>10. Range(chatNews) = {} BY DEF Range
<1>11. PagesAreTrue BY <1>8, <1>9, <1>10 DEF PagesAreTrue
<1> QED BY <1>5, <1>6, <1>7, <1>8, <1>11 DEF ChatInv

LEMMA ChatInvNext == ASSUME ChatInv, [ChatPaneNext]_chatVars PROVE ChatInv'
<1>1. ChatShape' BY LogNext, NewsNext, PaneNext, PagesNext, ComposerNext DEF ChatShape
<1>2. PagesAreTrue'
  <2>1. PagesHold' /\ (\A x \in Range(chatNews) : InLog(x))' BY PagesNext, NewsNext
  <2>2. Waiting(pane)' = Waiting(pane') BY DEF Waiting
  <2> QED BY <2>1, <2>2, OlderNext, LeftStaysEmpty DEF PagesAreTrue
<1> QED BY <1>1, <1>2, LogNext, SendNext, PaneNext DEF ChatInv

\* Whatever way a message to the customer comes to the screen, and in whatever order
\* they come, it is shown once (mergeMessage, loadOlder and send of ChatPane.tsx), but
\* for a part sent before any message had loaded.
THEOREM ShownOnce == ChatPaneSpec => []NoTwins
<1>1. ChatInv => NoTwins
  <2> SUFFICES ASSUME ChatInv, NEW a \in pane, NEW b \in pane, a # b, a.direction = "out", b.direction = "out"
               PROVE  a.id # b.id /\ (a.try = b.try => blind /\ a.try = partTries)
    BY DEF NoTwins
  <2>1. PaneIsTrue(pane) /\ LogIsTrue BY DEF ChatInv
  <2>2. a.id # b.id BY <2>1 DEF PaneIsTrue
  <2> SUFFICES ASSUME a.try = b.try PROVE blind /\ a.try = partTries BY <2>2
  <2>3. ASSUME NEW x \in pane, NEW y \in pane, x.id = 0, y.id # 0, x.direction = "out", y.direction = "out", x.try = y.try
        PROVE  blind /\ x.try = partTries
    <3>1. x.try = partTries /\ Waiting(pane) BY <2>1, <2>3 DEF PaneIsTrue, PendingRow, Waiting
    <3>2. Known(y) /\ y.id \in PlacesOf(partTries) /\ y \in Stored(pane)
      <4>1. Known(y) BY <2>1, <2>3 DEF PaneIsTrue
      <4>2. y.id > 0 BY <4>1 DEF Known, ChatInv, ChatShape
      <4> QED BY <2>3, <3>1, <4>1, <4>2 DEF Known, PlacesOf, Stored
    <3> QED BY <2>1, <3>1, <3>2 DEF PaneIsTrue
  <2>4. CASE a.id # 0 /\ b.id # 0
    <3>1. Known(a) /\ Known(b) BY <2>1, <2>4 DEF PaneIsTrue
    <3> QED BY <2>1, <2>2, <3>1 DEF Known, LogIsTrue
  <2>5. CASE a.id = 0 \/ b.id = 0 BY <2>2, <2>3, <2>5
  <2> QED BY <2>4, <2>5
<1> QED BY <1>1, ChatBegins, ChatInvNext, PTL DEF ChatPaneSpec
=============================================================================
