------------------------------- MODULE PhoneProofs -------------------------------
(* Proofs about DoNotDisturb and Softphone, for every set of calls, every number of  *)
(* requests and every bound.                                                         *)
EXTENDS DoNotDisturb, Softphone, TLAPS

-----------------------------------------------------------------------------------
(* DoNotDisturb: what is confirmed is so.                                            *)

Wish == [on : BOOLEAN, confirmed : BOOLEAN, drift : {0, 1}, none : {FALSE}]
Answers == {"none", "ok", "refused", "busy"}
Places == {"idle", "want", "flush", "sending"}

Hands == [at : Places, on : BOOLEAN, swept : BOOLEAN]
SendTypes == [by : Wishers \cup {"queue"}, on : BOOLEAN, latest : BOOLEAN, answer : Answers]

\* What the proof needs of the types.
QueueTypeOK ==
  /\ wisher \in [Wishers -> Hands]
  /\ wish \in {NoWish} \cup Wish
  /\ send \in {NoSend} \cup SendTypes

\* Who sends or is about to, sends a wish; a send under way means that no wish is
\* confirmed, and brings the wish unless a newer one was made since.
OneSend ==
  /\ wish.none => send = NoSend /\ \A r \in Wishers : wisher[r].at \notin {"flush", "sending"}
  /\ send # NoSend => ~wish.confirmed
  /\ send # NoSend /\ send.latest => send.on = wish.on

\* What the phone system took it has until something else changes it.
TakenIsSo == send.answer = "ok" => line = send.on \/ astray

DndInv == QueueTypeOK /\ OneSend /\ TakenIsSo /\ ConfirmedIsSo

LEMMA DndInvInit == ASSUME DndInit PROVE DndInv
BY DEF DndInit, DndInv, QueueTypeOK, OneSend, TakenIsSo, ConfirmedIsSo, NoWish, NoSend, NoHand, Hands, Places, Wish

USE DEF queueVars, readVars, phoneSystemVars, Failure, At

\* A new wish and what it does to the send under way are of their types.
LEMMA WishForType ==
  ASSUME NEW on \in BOOLEAN, wish \in {NoWish} \cup Wish, send \in {NoSend} \cup SendTypes, WishFor(on)
  PROVE  wish' \in {NoWish} \cup Wish /\ send' \in {NoSend} \cup SendTypes
<1>1. CASE ~wish.none /\ wish.on = on BY <1>1 DEF WishFor
<1>2. CASE ~(~wish.none /\ wish.on = on)
  <2>1. [on |-> on, confirmed |-> FALSE, drift |-> 0, none |-> FALSE] \in Wish BY DEF Wish
  <2>2. wish' \in Wish BY <1>2, <2>1 DEF WishFor
  <2>3. CASE send = NoSend BY <1>2, <2>2, <2>3 DEF WishFor
  <2>4. CASE send # NoSend
    <3>1. [send EXCEPT !.latest = FALSE] \in SendTypes BY <2>4 DEF SendTypes
    <3> QED BY <1>2, <2>2, <2>4, <3>1 DEF WishFor
  <2> QED BY <2>3, <2>4
<1> QED BY <1>1, <1>2

\* What an answer or a report changes of a wish leaves a wish.
LEMMA WishTypes ==
  ASSUME NEW w \in Wish
  PROVE  /\ [w EXCEPT !.confirmed = TRUE, !.drift = 0] \in Wish
         /\ [w EXCEPT !.confirmed = FALSE, !.drift = 0] \in Wish
         /\ [w EXCEPT !.drift = 0] \in Wish /\ [w EXCEPT !.drift = 1] \in Wish
<1>1. ASSUME NEW c \in BOOLEAN, NEW d \in {0, 1} PROVE [w EXCEPT !.confirmed = c, !.drift = d] \in Wish
  BY <1>1 DEF Wish
<1>2. [w EXCEPT !.drift = 0] \in Wish /\ [w EXCEPT !.drift = 1] \in Wish BY DEF Wish
<1> QED BY <1>1, <1>2

\* A send of the wish is a send.
LEMMA SendsType ==
  ASSUME NEW by \in Wishers \cup {"queue"}, wish \in {NoWish} \cup Wish, Sends(by)
  PROVE  send' \in SendTypes
<1>1. CASE wish = NoWish BY <1>1 DEF Sends, SendTypes, Answers, NoWish
<1>2. CASE wish \in Wish BY <1>2 DEF Sends, SendTypes, Answers, Wish
<1> QED BY <1>1, <1>2

\* A request that goes on or leaves is where requests are.
LEMMA HandTypes ==
  ASSUME NEW r, wisher \in [Wishers -> Hands], r \in Wishers
  PROVE  /\ [wisher EXCEPT ![r] = NoHand] \in [Wishers -> Hands]
         /\ [wisher EXCEPT ![r] = [NoHand EXCEPT !.at = "flush"]] \in [Wishers -> Hands]
         /\ \A p \in Places : [wisher EXCEPT ![r].at = p] \in [Wishers -> Hands]
<1>1. NoHand \in Hands /\ [NoHand EXCEPT !.at = "flush"] \in Hands BY DEF NoHand, Hands, Places
<1>2. ASSUME NEW p \in Places PROVE [wisher[r] EXCEPT !.at = p] \in Hands BY <1>2 DEF Hands
<1> QED BY <1>1, <1>2

\* The requests, the queue, the reader and the phone system: one step of each.
LEMMA DndSteps == ASSUME DndInv, [DndNext]_dndVars PROVE DndInv'
<1> USE DEF DndInv, QueueTypeOK
<1> DEFINE Rest == OneSend /\ TakenIsSo /\ ConfirmedIsSo
<1>1. ASSUME NEW r \in Wishers, RowsAsk(r) PROVE DndInv'
  <2>1. PICK on \in BOOLEAN, swept \in BOOLEAN :
          wisher' = [wisher EXCEPT ![r] = [at |-> "want", on |-> on, swept |-> swept]]
    BY <1>1 DEF RowsAsk
  <2>2. [at |-> "want", on |-> on, swept |-> swept] \in Hands BY DEF Hands, Places
  <2>3. wisher' \in [Wishers -> Hands] BY <2>1, <2>2
  <2>4. QueueTypeOK' BY <1>1, <2>3 DEF RowsAsk
  <2>5. Rest' BY <1>1, <2>1 DEF RowsAsk, OneSend, TakenIsSo, ConfirmedIsSo
  <2> QED BY <2>4, <2>5
<1>2. ASSUME NEW r \in Wishers, Want(r) PROVE DndInv'
  <2> DEFINE on == wisher[r].on
  <2>1. on \in BOOLEAN BY DEF Hands
  <2>2. WishFor(on) BY <1>2 DEF Want
  <2>3. wisher' \in [Wishers -> Hands] BY <1>2, HandTypes DEF Want, Leave
  <2>4. wish' \in {NoWish} \cup Wish /\ send' \in {NoSend} \cup SendTypes
    <3> HIDE DEF on
    <3> QED BY <2>1, <2>2, WishForType
  <2>5. QueueTypeOK' BY <2>3, <2>4
  <2>6. Rest'
    <3>1. OneSend' BY <1>2, <2>1, <2>2, HandTypes DEF Want, WishFor, Leave, OneSend, Hands, SendTypes, Wish, NoWish, NoSend, NoHand
    <3>2. TakenIsSo' BY <1>2, <2>1, <2>2 DEF Want, WishFor, TakenIsSo, SendTypes, NoSend
    <3>3. ConfirmedIsSo' BY <1>2, <2>1, <2>2 DEF Want, WishFor, ConfirmedIsSo
    <3> QED BY <3>1, <3>2, <3>3
  <2> QED BY <2>5, <2>6
<1>3. ASSUME NEW r \in Wishers, Flush(r) PROVE DndInv'
  <2>1. CASE wish.confirmed \/ send # NoSend \/ paused
    <3>1. QueueTypeOK' BY <1>3, <2>1, HandTypes DEF Flush, Leave
    <3>2. Rest' BY <1>3, <2>1 DEF Flush, Leave, OneSend, TakenIsSo, ConfirmedIsSo, NoHand
    <3> QED BY <3>1, <3>2
  <2>2. CASE ~(wish.confirmed \/ send # NoSend \/ paused)
    <3>1. Sends(r) /\ wisher' = [wisher EXCEPT ![r].at = "sending"] BY <1>3, <2>2 DEF Flush
    <3>2. send' \in SendTypes BY <3>1, SendsType
    <3>3. wisher' \in [Wishers -> Hands] BY <3>1, HandTypes DEF Places
    <3>4. QueueTypeOK' BY <1>3, <3>2, <3>3 DEF Flush
    <3>5. Rest' BY <1>3, <2>2, <3>1 DEF Flush, Sends, OneSend, TakenIsSo, ConfirmedIsSo
    <3> QED BY <3>4, <3>5
  <2> QED BY <2>1, <2>2
<1>4. CASE RowsAskAlone BY <1>4 DEF RowsAskAlone, OneSend, TakenIsSo, ConfirmedIsSo
<1>5. CASE QueueSends
  <2>1. send' \in SendTypes BY <1>5, SendsType DEF QueueSends
  <2>2. QueueTypeOK' BY <1>5, <2>1 DEF QueueSends
  <2>3. Rest' BY <1>5 DEF QueueSends, Sends, OneSend, TakenIsSo, ConfirmedIsSo
  <2> QED BY <2>2, <2>3
<1>6. CASE PauseEnds BY <1>6 DEF PauseEnds, OneSend, TakenIsSo, ConfirmedIsSo
<1>7. CASE Settle
  <2>1. wisher' \in [Wishers -> Hands]
    <3>1. CASE send.by \notin Wishers BY <1>7, <3>1 DEF Settle
    <3>2. CASE send.by \in Wishers /\ send.answer = "ok"
      <4>1. wisher' = [wisher EXCEPT ![send.by].at = "flush"] BY <1>7, <3>2 DEF Settle
      <4> QED BY <3>2, <4>1, HandTypes DEF Places
    <3>3. CASE send.by \in Wishers /\ send.answer # "ok" BY <1>7, <3>3, HandTypes DEF Settle, Leave
    <3> QED BY <3>1, <3>2, <3>3
  <2>2. CASE send.answer = "ok" /\ send.latest
    <3>1. wish' = [wish EXCEPT !.confirmed = TRUE, !.drift = 0] /\ send' = NoSend BY <1>7, <2>2 DEF Settle
    <3> send # NoSend BY <2>2 DEF NoSend
    <3> ~wish.none /\ send.on = wish.on BY <2>2 DEF OneSend
    <3>2. wish \in Wish /\ send # NoSend /\ ~wish.none /\ send.on = wish.on BY DEF NoWish
    <3>3. wish' \in Wish BY <3>1, <3>2, WishTypes
    <3>4. QueueTypeOK' BY <2>1, <3>1, <3>3
    <3>5. OneSend' /\ TakenIsSo' BY <3>1, <3>2, <3>3 DEF OneSend, TakenIsSo, NoSend, Wish
    <3>6. ConfirmedIsSo' BY <1>7, <2>2, <3>1, <3>2 DEF Settle, ConfirmedIsSo, TakenIsSo, Wish, phoneSystemVars
    <3> QED BY <3>4, <3>5, <3>6
  <2>3. CASE ~(send.answer = "ok" /\ send.latest)
    <3>1. wish' = wish /\ send' = NoSend BY <1>7, <2>3 DEF Settle
    <3>2. ~wish.none BY <1>7 DEF Settle, OneSend, NoSend
    <3>3. QueueTypeOK' BY <2>1, <3>1
    <3>4. Rest' BY <1>7, <3>1, <3>2 DEF Settle, OneSend, TakenIsSo, ConfirmedIsSo, NoSend
    <3> QED BY <3>3, <3>4
  <2> QED BY <2>2, <2>3
<1>8. CASE AsksReport \/ Told \/ ToldNothing \/ ReportFails
  BY <1>8 DEF AsksReport, Told, ToldNothing, ReportFails, OneSend, TakenIsSo, ConfirmedIsSo
<1>9. CASE Observe
  <2>1. CASE wish' = wish BY <1>9, <2>1 DEF Observe, OneSend, TakenIsSo, ConfirmedIsSo
  <2>2. CASE wish' # wish
    <3>1. wish \in Wish /\ wish.confirmed BY <1>9, <2>2 DEF Observe, NoWish
    <3>2. wish' \in Wish BY <1>9, <2>2, <3>1, WishTypes DEF Observe, Drifts
    <3>3. wish'.none = wish.none /\ wish'.on = wish.on /\ (wish'.confirmed => wish.confirmed)
      BY <1>9, <2>2, <3>1 DEF Observe, Drifts, Wish
    <3>4. QueueTypeOK' BY <1>9, <3>2 DEF Observe
    <3>5. Rest' BY <1>9, <3>1, <3>3 DEF Observe, OneSend, TakenIsSo, ConfirmedIsSo
    <3> QED BY <3>4, <3>5
  <2> QED BY <2>1, <2>2
<1>10. CASE ReadsWishes \/ LooksToAdopt BY <1>10 DEF ReadsWishes, LooksToAdopt, OneSend, TakenIsSo, ConfirmedIsSo
<1>11. CASE Adopts
  <2> DEFINE on == found = "on"
  <2>1. on \in BOOLEAN OBVIOUS
  <2>2. WishFor(on) BY <1>11 DEF Adopts
  <2>3. UNCHANGED <<wisher, line, astray>> BY <1>11 DEF Adopts
  <2> HIDE DEF on
  <2>4. QueueTypeOK' BY <2>1, <2>2, <2>3, WishForType
  <2>5. OneSend' BY <2>1, <2>2, <2>3 DEF WishFor, OneSend, SendTypes, Wish, NoWish, NoSend
  <2>6. TakenIsSo' BY <2>1, <2>2, <2>3 DEF WishFor, TakenIsSo, SendTypes, NoSend
  <2>7. ConfirmedIsSo' BY <2>1, <2>2, <2>3 DEF WishFor, ConfirmedIsSo
  <2> QED BY <2>4, <2>5, <2>6, <2>7
<1>12. CASE LineTakes
  <2>1. send \in SendTypes BY <1>12 DEF LineTakes, Unanswered
  <2>2. PICK answer \in {"ok", "busy"} : send' = [send EXCEPT !.answer = answer] BY <1>12 DEF LineTakes
  <2>3. send' \in SendTypes /\ send'.on = send.on /\ send'.latest = send.latest
    BY <2>1, <2>2 DEF SendTypes, Answers
  <2>4. QueueTypeOK' BY <1>12, <2>3 DEF LineTakes
  <2>5. Rest' BY <1>12, <2>1, <2>3 DEF LineTakes, Unanswered, OneSend, TakenIsSo, ConfirmedIsSo
  <2> QED BY <2>4, <2>5
<1>13. CASE LineRefuses
  <2>1. send \in SendTypes BY <1>13 DEF LineRefuses, Unanswered
  <2>2. PICK answer \in {"refused", "busy"} : send' = [send EXCEPT !.answer = answer] BY <1>13 DEF LineRefuses
  <2>3. send' \in SendTypes /\ send'.on = send.on /\ send'.latest = send.latest /\ send'.answer # "ok"
    BY <2>1, <2>2 DEF SendTypes, Answers
  <2>4. QueueTypeOK' BY <1>13, <2>3 DEF LineRefuses
  <2>5. Rest' BY <1>13, <2>1, <2>3 DEF LineRefuses, Unanswered, OneSend, TakenIsSo, ConfirmedIsSo
  <2> QED BY <2>4, <2>5
<1>14. CASE LateArrives BY <1>14 DEF LateArrives, OneSend, TakenIsSo, ConfirmedIsSo
<1>15. CASE ChangedElsewhere BY <1>15 DEF ChangedElsewhere, OneSend, TakenIsSo, ConfirmedIsSo
<1>16. CASE Restart
  <2>1. wish' = NoWish /\ send' = NoSend /\ wisher' = [r \in Wishers |-> NoHand] BY <1>16 DEF Restart
  <2>2. NoHand \in Hands BY DEF NoHand, Hands, Places
  <2>3. QueueTypeOK' BY <2>1, <2>2
  <2>4. Rest' BY <2>1 DEF OneSend, TakenIsSo, ConfirmedIsSo, NoWish, NoSend, NoHand
  <2> QED BY <2>3, <2>4
<1>17. CASE UNCHANGED dndVars BY <1>17 DEF dndVars, OneSend, TakenIsSo, ConfirmedIsSo
<1> QED BY <1>1, <1>2, <1>3, <1>4, <1>5, <1>6, <1>7, <1>8, <1>9, <1>10, <1>11, <1>12,
    <1>13, <1>14, <1>15, <1>16, <1>17 DEF DndNext, GoesOn, Reads

\* However requests, the queue's worker, late answers, restarts and the reader of
\* reports interleave, a wish the queue holds for confirmed is what the phone system
\* has, unless something else changed it since.
THEOREM ConfirmedIsTrue == DndSpec => []ConfirmedIsSo
<1>1. DndInv => ConfirmedIsSo BY DEF DndInv
<1> QED BY <1>1, DndInvInit, DndSteps, PTL DEF DndSpec

HIDE DEF queueVars, readVars, phoneSystemVars, Failure, At

-----------------------------------------------------------------------------------
(* Softphone.                                                                        *)

LEMMA TypeInit == ASSUME PhoneInit PROVE PhoneTypeOK
<1> USE DEF PhoneInit
<1>1. LineTypeOK BY DEF LineTypeOK
<1>2. CallsTypeOK BY DEF CallsTypeOK
<1>3. FaceTypeOK BY DEF FaceTypeOK, Statuses, Tones
<1> QED BY <1>1, <1>2, <1>3 DEF PhoneTypeOK

USE DEF lineVars, waits, callVars, faceVars, bounds, Fault, NoFault

\* The line's own variables.
LEMMA LineTypes == ASSUME LineTypeOK, [PhoneNext]_phoneVars PROVE LineTypeOK'
<1> USE DEF LineTypeOK, Recover
<1>1. CASE GotCredentials BY <1>1, Zenon DEF GotCredentials
<1>2. CASE StartFails BY <1>2, Zenon DEF StartFails
<1>3. CASE UaStarted BY <1>3, Zenon DEF UaStarted
<1>4. CASE RegisterAccepted BY <1>4, Zenon DEF RegisterAccepted
<1>5. CASE RegisterRefused BY <1>5, Zenon DEF RegisterRefused, Refused
<1>6. CASE RegisterUnanswered BY <1>6, Zenon DEF RegisterUnanswered, Refused
<1>7. CASE LineDrops BY <1>7, Zenon DEF LineDrops
<1>8. CASE RegistrationLost BY <1>8, Zenon DEF RegistrationLost
<1>9. CASE RecoverDone BY <1>9, Zenon DEF RecoverDone
<1>10. CASE RetryFires BY <1>10, Zenon DEF RetryFires
<1>11. CASE Watchdog BY <1>11, Zenon DEF Watchdog
<1>12. CASE Disable BY <1>12, Zenon DEF Disable
<1>13. CASE Enable BY <1>13, Zenon DEF Enable
<1>14. CASE Reload BY <1>14, Zenon DEF Reload
<1>15. ASSUME NEW c \in Calls, AcceptFailsDtls(c) PROVE LineTypeOK'
  BY <1>15, Zenon DEF AcceptFailsDtls
<1>16. CASE UNCHANGED lineVars BY <1>16, Zenon
<1>17. CASE CallSteps /\ ~UNCHANGED lineVars
  <2>1. \E c \in Calls : AcceptFailsDtls(c)
    BY <1>17 DEF CallSteps, Invite, LateStop, Answer, Hangup, ToggleHold, Call, InviteSent, InviteThrows,
                 RefusedByPeer, PickedUp, AcceptDone, AcceptFails, Progress, Ended, HoldReturns, Established
  <2> QED BY <2>1, <1>15
<1> QED BY <1>1, <1>2, <1>3, <1>4, <1>5, <1>6, <1>7, <1>8, <1>9, <1>10, <1>11, <1>12,
    <1>13, <1>14, <1>16, <1>17 DEF Line, PhoneNext, phoneVars

Phases == {"start", "answer", "end"}

LEMMA LogType ==
  ASSUME CallsTypeOK, NEW phase \in Phases, Log(phase)
  PROVE  record' \in [Calls -> Seq(Phases)]
<1> USE DEF Phases, CallsTypeOK
<1>1. CASE callId = NoCall BY <1>1 DEF Log
<1>2. CASE callId # NoCall
  <2>1. callId \in Calls /\ record' = [record EXCEPT ![callId] = Append(@, phase)] BY <1>2 DEF Log
  <2>2. Append(record[callId], phase) \in Seq(Phases) BY <2>1
  <2> QED BY <2>1, <2>2
<1> QED BY <1>1, <1>2

LEMMA NextCallIsFresh == ASSUME Fresh # {} PROVE NextCall \in Calls /\ state[NextCall] = "none"
BY DEF NextCall, Fresh

LEMMA BeginType ==
  ASSUME CallsTypeOK, NEW c \in Calls, NEW d \in {"in", "out"}, NEW logged \in BOOLEAN, Begin(c, d, "Initial", logged)
  PROVE  /\ state' \in [Calls -> {"none", "Initial", "Establishing", "Established", "Terminating", "Terminated"}]
         /\ dir' \in [Calls -> {"in", "out"}]
         /\ session' \in Calls \cup {NoCall} /\ callId' \in Calls \cup {NoCall}
         /\ record' \in [Calls -> Seq(Phases)]
<1>1. <<"start">> \in Seq(Phases) BY DEF Phases
<1> QED BY <1>1 DEF Begin, CallsTypeOK, Phases

LEMMA EndCallType ==
  ASSUME CallsTypeOK, NEW c \in Calls, EndCall(c)
  PROVE  /\ state' \in [Calls -> {"none", "Initial", "Establishing", "Established", "Terminating", "Terminated"}]
         /\ dir' = dir /\ left' = left /\ session' = NoCall /\ callId' = NoCall
         /\ record' \in [Calls -> Seq(Phases)]
<1>1. "end" \in Phases /\ Log("end") BY DEF EndCall, Phases
<1>2. record' \in [Calls -> Seq(Phases)] BY <1>1, LogType
<1> QED BY <1>2 DEF EndCall, CallsTypeOK

LEMMA EstablishedType ==
  ASSUME CallsTypeOK, NEW c \in Calls, Established(c), accepting' \subseteq accepting
  PROVE  CallsTypeOK'
<1>1. "answer" \in Phases /\ Log("answer") BY DEF Established, Phases
<1>2. record' \in [Calls -> Seq(Phases)] BY <1>1, LogType
<1> QED BY <1>2 DEF Established, CallsTypeOK, Phases

LEMMA CallsTypes == ASSUME CallsTypeOK, [PhoneNext]_phoneVars PROVE CallsTypeOK'
<1> USE DEF CallsTypeOK
<1>1. CASE UNCHANGED <<callVars, record>> BY <1>1
<1>2. CASE Disable BY <1>2 DEF Disable, Alive
<1>3. CASE Reload
  <2>1. "end" \in Phases BY DEF Phases
  <2>2. record' \in [Calls -> Seq(Phases)] BY <1>3, <2>1, LogType DEF Reload, Phases
  <2> QED BY <1>3, <2>2 DEF Reload, Phases
<1>4. CASE Invite BY <1>4, NextCallIsFresh, BeginType DEF Invite, Phases
<1>5. ASSUME NEW feature \in BOOLEAN, Call(feature) PROVE CallsTypeOK'
  BY <1>5, NextCallIsFresh, BeginType DEF Call, Phases
<1>6. CASE Answer BY <1>6 DEF Answer, MayAnswer
<1>7. CASE Hangup BY <1>7, EndCallType DEF Hangup, Phases
<1>8. CASE ToggleHold
  <2> DEFINE other == ~held
  <2>1. other \in BOOLEAN OBVIOUS
  <2>2. session \in Calls /\ holding' = holding \cup {<<session, other>>} BY <1>8 DEF ToggleHold
  <2> HIDE DEF other
  <2>3. holding' \subseteq Calls \X BOOLEAN BY <2>1, <2>2
  <2> QED BY <1>8, <2>3 DEF ToggleHold
<1>9. ASSUME NEW c \in Calls, InviteSent(c) PROVE CallsTypeOK' BY <1>9 DEF InviteSent
<1>10. ASSUME NEW c \in Calls, InviteThrows(c) PROVE CallsTypeOK' BY <1>10, EndCallType DEF InviteThrows, Phases
<1>11. ASSUME NEW c \in Calls, RefusedByPeer(c) PROVE CallsTypeOK' BY <1>11, EndCallType DEF RefusedByPeer, Phases
<1>12. ASSUME NEW c \in Calls, PickedUp(c) PROVE CallsTypeOK' BY <1>12, EstablishedType DEF PickedUp
<1>13. ASSUME NEW c \in Calls, AcceptDone(c) PROVE CallsTypeOK' BY <1>13, EstablishedType DEF AcceptDone
<1>14. ASSUME NEW c \in Calls, AcceptFails(c) PROVE CallsTypeOK' BY <1>14 DEF AcceptFails
<1>15. ASSUME NEW c \in Calls, AcceptFailsDtls(c) PROVE CallsTypeOK' BY <1>15, EndCallType DEF AcceptFailsDtls, Phases
<1>16. ASSUME NEW c \in Calls, Ended(c) PROVE CallsTypeOK' BY <1>16, EndCallType DEF Ended, Phases
<1>17. ASSUME NEW h \in holding, HoldReturns(h) PROVE CallsTypeOK' BY <1>17 DEF HoldReturns
<1>18. CASE Line /\ ~Disable /\ ~Reload
  BY <1>1, <1>18 DEF Line, GotCredentials, StartFails, UaStarted, RegisterAccepted, RegisterRefused, RegisterUnanswered,
      Refused, LineDrops, RegistrationLost, RecoverDone, RetryFires, Watchdog, Enable
<1>19. CASE LateStop BY <1>1, <1>19 DEF LateStop
<1>20. ASSUME NEW c \in Calls, NEW early \in BOOLEAN, Progress(c, early) PROVE CallsTypeOK'
  BY <1>1, <1>20 DEF Progress
<1> QED BY <1>1, <1>2, <1>3, <1>4, <1>5, <1>6, <1>7, <1>8, <1>9, <1>10, <1>11, <1>12, <1>13, <1>14,
    <1>15, <1>16, <1>17, <1>18, <1>19, <1>20 DEF PhoneNext, CallSteps, phoneVars

LEMMA FaceTypes == ASSUME PhoneTypeOK, [PhoneNext]_phoneVars PROVE FaceTypeOK'
<1> USE DEF FaceTypeOK, Statuses, CallStatuses, Tones, Recover, EndCall, Attach, Detach
<1> FaceTypeOK /\ CallsTypeOK BY DEF PhoneTypeOK
<1>1. CASE UNCHANGED <<faceVars, localEnd>> BY <1>1, Zenon
<1>2. CASE StartFails \/ RegisterAccepted BY <1>2 DEF StartFails, RegisterAccepted
<1>3. CASE RegisterRefused \/ RegisterUnanswered BY <1>3 DEF RegisterRefused, RegisterUnanswered, Refused
<1>4. CASE LineDrops \/ RegistrationLost \/ RetryFires \/ Watchdog
  <2>1. CASE LineDrops BY <2>1 DEF LineDrops
  <2>2. CASE RegistrationLost BY <2>2 DEF RegistrationLost
  <2>3. CASE RetryFires BY <2>3 DEF RetryFires
  <2>4. CASE Watchdog BY <2>4 DEF Watchdog
  <2> QED BY <1>4, <2>1, <2>2, <2>3, <2>4
<1>5. CASE Disable \/ Enable \/ Reload BY <1>5 DEF Disable, Enable, Reload
<1>6. CASE Invite BY <1>6 DEF Invite, Begin
<1>7. ASSUME NEW feature \in BOOLEAN, Call(feature) PROVE FaceTypeOK' BY <1>7 DEF Call, Begin
<1>8. CASE Answer \/ LateStop BY <1>8 DEF Answer, LateStop
<1>9. CASE Hangup BY <1>9 DEF Hangup
<1>10. ASSUME NEW c \in Calls, InviteThrows(c) \/ RefusedByPeer(c) \/ Ended(c) \/ AcceptFailsDtls(c) PROVE FaceTypeOK'
  BY <1>10 DEF InviteThrows, RefusedByPeer, Ended, AcceptFailsDtls
<1>11. ASSUME NEW c \in Calls, PickedUp(c) \/ AcceptDone(c) PROVE FaceTypeOK'
  BY <1>11 DEF PickedUp, AcceptDone, Established
<1>12. ASSUME NEW c \in Calls, AcceptFails(c) PROVE FaceTypeOK' BY <1>12 DEF AcceptFails
<1>13. ASSUME NEW c \in Calls, NEW early \in BOOLEAN, Progress(c, early) PROVE FaceTypeOK'
  BY <1>13 DEF Progress
<1>14. ASSUME NEW h \in holding, HoldReturns(h) PROVE FaceTypeOK'
  <2>1. h \in Calls \X BOOLEAN BY DEF CallsTypeOK
  <2> QED BY <1>14, <2>1 DEF HoldReturns
<1>15. CASE GotCredentials \/ UaStarted \/ RecoverDone \/ ToggleHold
  BY <1>1, <1>15 DEF GotCredentials, UaStarted, RecoverDone, ToggleHold
<1>16. ASSUME NEW c \in Calls, InviteSent(c) PROVE FaceTypeOK' BY <1>1, <1>16 DEF InviteSent
<1> QED BY <1>1, <1>2, <1>3, <1>4, <1>5, <1>6, <1>7, <1>8, <1>9, <1>10, <1>11, <1>12, <1>13, <1>14,
    <1>15, <1>16 DEF PhoneNext, Line, CallSteps, phoneVars

\* Every reachable state of a tab's phone is well typed.
THEOREM PhoneTypeCorrect == PhoneSpec => []PhoneTypeOK
<1>1. ASSUME PhoneTypeOK, [PhoneNext]_phoneVars PROVE PhoneTypeOK'
  BY <1>1, LineTypes, CallsTypes, FaceTypes DEF PhoneTypeOK
<1> QED BY <1>1, TypeInit, PTL DEF PhoneSpec

-----------------------------------------------------------------------------
(* The call face.  A step that ends a call clears the face, and one that      *)
(* shows a call does so for a call the library has.                           *)

FaceClear == status \notin CallStatuses /\ tone \notin {"incoming", "ringback"} /\ audio = NoCall

LEMMA EndCallClears == ASSUME NEW c \in Calls, EndCall(c), tone' \in {"none", "busy"} PROVE FaceClear'
BY DEF EndCall, Detach, FaceClear, CallStatuses

LEMMA FaceStep == ASSUME PhoneTypeOK, CallFaceHasCall, [PhoneNext]_phoneVars PROVE CallFaceHasCall'
<1> USE DEF CallStatuses, Recover
<1> CallsTypeOK /\ FaceTypeOK BY DEF PhoneTypeOK
<1>1. ASSUME UNCHANGED state,
             status' \in CallStatuses => status \in CallStatuses,
             tone' \in {"incoming", "ringback"} => tone \in {"incoming", "ringback"},
             audio' # NoCall => audio # NoCall
      PROVE  CallFaceHasCall'
  BY <1>1 DEF CallFaceHasCall, Alive
<1>2. ASSUME FaceClear' PROVE CallFaceHasCall' BY <1>2 DEF CallFaceHasCall, FaceClear
<1>3. ASSUME NEW c \in Calls, state'[c] \notin {"none", "Terminated"} PROVE CallFaceHasCall'
  BY <1>3 DEF CallFaceHasCall, Alive
<1>4. CASE GotCredentials \/ StartFails \/ UaStarted \/ RegisterAccepted
  BY <1>1, <1>4 DEF GotCredentials, StartFails, UaStarted, RegisterAccepted
<1>5. CASE RegisterRefused \/ RegisterUnanswered
  BY <1>1, <1>5 DEF RegisterRefused, RegisterUnanswered, Refused
<1>6. CASE LineDrops \/ RegistrationLost \/ RecoverDone \/ RetryFires \/ Watchdog
  BY <1>1, <1>6 DEF LineDrops, RegistrationLost, RecoverDone, RetryFires, Watchdog
<1>7. CASE Disable \/ Enable BY <1>1, <1>7 DEF Disable, Enable
<1>8. CASE Reload BY <1>2, <1>8 DEF Reload, FaceClear
<1>9. CASE Invite BY <1>3, <1>9, NextCallIsFresh DEF Invite, Begin, CallsTypeOK
<1>10. ASSUME NEW feature \in BOOLEAN, Call(feature) PROVE CallFaceHasCall'
  BY <1>3, <1>10, NextCallIsFresh DEF Call, Begin, CallsTypeOK
<1>11. CASE LateStop \/ ToggleHold BY <1>1, <1>11 DEF LateStop, ToggleHold
<1>12. CASE Answer
  <2>1. session \in Calls /\ state'[session] = "Establishing" BY <1>12 DEF Answer, MayAnswer, CallsTypeOK
  <2> QED BY <1>3, <2>1
<1>13. CASE Hangup
  <2>1. session \in Calls BY <1>13 DEF Hangup, CallsTypeOK
  <2>2. CASE state[session] = "Initial" BY <1>2, <1>13, <2>1, <2>2, EndCallClears DEF Hangup
  <2>3. CASE state[session] # "Initial" /\ state' = state BY <1>1, <1>13, <2>3 DEF Hangup
  <2>4. CASE state[session] # "Initial" /\ state' # state
    <3>1. state'[session] = "Terminating" BY <1>13, <2>1, <2>4 DEF Hangup, CallsTypeOK
    <3> QED BY <1>3, <2>1, <3>1
  <2> QED BY <2>2, <2>3, <2>4
<1>14. ASSUME NEW c \in Calls, InviteSent(c) PROVE CallFaceHasCall'
  BY <1>3, <1>14 DEF InviteSent, CallsTypeOK
<1>15. ASSUME NEW c \in Calls, InviteThrows(c) PROVE CallFaceHasCall'
  BY <1>1, <1>2, <1>15, EndCallClears DEF InviteThrows
<1>16. ASSUME NEW c \in Calls, RefusedByPeer(c) \/ Ended(c) PROVE CallFaceHasCall'
  BY <1>2, <1>16, EndCallClears DEF RefusedByPeer, Ended
<1>17. ASSUME NEW c \in Calls, PickedUp(c) \/ AcceptDone(c) PROVE CallFaceHasCall'
  BY <1>3, <1>17 DEF PickedUp, AcceptDone, Established, CallsTypeOK
<1>18. ASSUME NEW c \in Calls, AcceptFails(c) PROVE CallFaceHasCall'
  BY <1>1, <1>3, <1>18 DEF AcceptFails, CallsTypeOK
<1>19. ASSUME NEW c \in Calls, AcceptFailsDtls(c) PROVE CallFaceHasCall'
  BY <1>1, <1>2, <1>19, EndCallClears DEF AcceptFailsDtls
<1>20. ASSUME NEW c \in Calls, NEW early \in BOOLEAN, Progress(c, early) PROVE CallFaceHasCall'
  BY <1>3, <1>20 DEF Progress, callVars
<1>21. ASSUME NEW h \in holding, HoldReturns(h) PROVE CallFaceHasCall'
  <2>1. h[1] \in Calls BY DEF CallsTypeOK
  <2> QED BY <1>1, <1>3, <1>21, <2>1 DEF HoldReturns, HoldSent
<1>22. CASE UNCHANGED phoneVars BY <1>1, <1>22 DEF phoneVars
<1> QED BY <1>4, <1>5, <1>6, <1>7, <1>8, <1>9, <1>10, <1>11, <1>12, <1>13, <1>14, <1>15, <1>16, <1>17,
    <1>18, <1>19, <1>20, <1>21, <1>22 DEF PhoneNext, Line, CallSteps

\* However many calls there are and however late an await returns, the phone shows,
\* rings for and plays a call only while the library has one.
THEOREM FaceHasCall == PhoneSpec => []CallFaceHasCall
<1>1. ASSUME PhoneInit PROVE CallFaceHasCall BY <1>1 DEF PhoneInit, CallFaceHasCall, CallStatuses
<1> QED BY <1>1, FaceStep, PhoneTypeCorrect, PTL DEF PhoneSpec

-----------------------------------------------------------------------------
(* The call log.  A step tells it one thing at most, of the call in callId:   *)
(* a new call starts, or the one before is answered or ends.                  *)

\* A call the library does not have yet was never told, and the call the log is
\* written for is open there.
LogIsOpen ==
  /\ \A c \in Calls : state[c] = "none" => record[c] = <<>>
  /\ callId # NoCall => Records!IsOpen(callId)

\* What a step may do to the log.
Silent == UNCHANGED record
Starts(c) == record[c] = <<>> /\ record' = [record EXCEPT ![c] = <<"start">>]
Tells(c, phase) == Records!IsOpen(c) /\ record' = [record EXCEPT ![c] = Append(@, phase)]

LEMMA AppendIsLast ==
  ASSUME NEW s \in Seq(Phases), NEW phase \in Phases
  PROVE  /\ Append(s, phase) # <<>>
         /\ Append(s, phase)[Len(Append(s, phase))] = phase
OBVIOUS

\* The end of the call in callId is told, and callId is cleared.
LEMMA EndTold ==
  ASSUME CallsTypeOK, LogIsOpen, Log("end"), callId' = NoCall,
         \A c \in Calls : state'[c] = "none" => state[c] = "none"
  PROVE  LogIsOpen' /\ (Silent \/ \E c \in Calls : Tells(c, "end"))
<1> "end" \in Phases BY DEF Phases
<1>1. CASE callId = NoCall
  BY <1>1 DEF Log, LogIsOpen, Silent
<1>2. CASE callId # NoCall
  <2>1. callId \in Calls /\ Records!IsOpen(callId) /\ record' = [record EXCEPT ![callId] = Append(@, "end")]
    BY <1>2 DEF CallsTypeOK, LogIsOpen, Log
  <2>2. state[callId] # "none" BY <2>1 DEF LogIsOpen, Records!IsOpen
  <2>3. \A c \in Calls : state'[c] = "none" => record'[c] = <<>>
    BY <2>1, <2>2 DEF LogIsOpen, CallsTypeOK
  <2> QED BY <2>1, <2>3 DEF LogIsOpen, Tells
<1> QED BY <1>1, <1>2

\* An answer is told of the call in callId, which stays open.
LEMMA AnswerTold ==
  ASSUME CallsTypeOK, LogIsOpen, Log("answer"), callId' = callId,
         \A c \in Calls : state'[c] = "none" => state[c] = "none"
  PROVE  LogIsOpen' /\ (Silent \/ \E c \in Calls : Tells(c, "answer"))
<1> "answer" \in Phases BY DEF Phases
<1>1. CASE callId = NoCall
  BY <1>1 DEF Log, LogIsOpen, Silent
<1>2. CASE callId # NoCall
  <2>1. callId \in Calls /\ Records!IsOpen(callId) /\ record' = [record EXCEPT ![callId] = Append(@, "answer")]
    BY <1>2 DEF CallsTypeOK, LogIsOpen, Log
  <2>2. state[callId] # "none" BY <2>1 DEF LogIsOpen, Records!IsOpen
  <2>3. \A c \in Calls : state'[c] = "none" => record'[c] = <<>>
    BY <2>1, <2>2 DEF LogIsOpen, CallsTypeOK
  <2>4. record'[callId] = Append(record[callId], "answer") BY <2>1 DEF CallsTypeOK
  <2>5. record[callId] \in Seq(Phases) BY <2>1 DEF CallsTypeOK, Phases
  <2>6. record'[callId] # <<>> /\ record'[callId][Len(record'[callId])] = "answer"
    BY <2>4, <2>5, AppendIsLast
  <2> QED BY <1>2, <2>1, <2>3, <2>6 DEF LogIsOpen, Tells, Records!IsOpen
<1> QED BY <1>1, <1>2

\* A new call takes the log over, or a feature code leaves it without one.
LEMMA StartTold ==
  ASSUME CallsTypeOK, LogIsOpen, NEW c \in Calls, state[c] = "none", NEW d, NEW logged \in BOOLEAN,
         Begin(c, d, "Initial", logged)
  PROVE  LogIsOpen' /\ (Silent \/ \E x \in Calls : Starts(x))
<1>1. record[c] = <<>> BY DEF LogIsOpen
<1>2. \A x \in Calls : state'[x] = "none" => state[x] = "none" /\ x # c BY DEF Begin, CallsTypeOK
<1>3. CASE logged
  <2>1. record' = [record EXCEPT ![c] = <<"start">>] /\ callId' = c BY <1>3 DEF Begin
  <2>2. record'[c] = <<"start">> BY <2>1 DEF CallsTypeOK
  <2>3. Records!IsOpen(callId)' BY <2>1, <2>2 DEF Records!IsOpen
  <2> QED BY <1>1, <1>2, <2>1, <2>3 DEF LogIsOpen, Starts, CallsTypeOK
<1>4. CASE ~logged BY <1>2, <1>4 DEF Begin, LogIsOpen, Silent
<1> QED BY <1>3, <1>4

\* What a step does to the log, and that the log stays written for an open call.
LEMMA LogStep ==
  ASSUME PhoneTypeOK, LogIsOpen, [PhoneNext]_phoneVars
  PROVE  /\ LogIsOpen'
         /\ \/ Silent
            \/ \E c \in Calls : Starts(c) \/ Tells(c, "answer") \/ Tells(c, "end")
<1> DEFINE Goal == /\ LogIsOpen'
                   /\ \/ Silent
                      \/ \E c \in Calls : Starts(c) \/ Tells(c, "answer") \/ Tells(c, "end")
<1> CallsTypeOK BY DEF PhoneTypeOK
<1> SUFFICES Goal OBVIOUS
<1>1. ASSUME UNCHANGED record, callId' \in {callId, NoCall},
             \A c \in Calls : state'[c] = "none" => state[c] = "none"
      PROVE  Goal
  BY <1>1 DEF LogIsOpen, Silent, Records!IsOpen
<1>2. ASSUME Log("end"), callId' = NoCall, \A c \in Calls : state'[c] = "none" => state[c] = "none" PROVE Goal
  BY <1>2, EndTold
<1>3. ASSUME Log("answer"), callId' = callId, \A c \in Calls : state'[c] = "none" => state[c] = "none" PROVE Goal
  BY <1>3, AnswerTold
<1>4. ASSUME NEW c \in Calls, EndCall(c) PROVE Goal BY <1>2, <1>4 DEF EndCall, CallsTypeOK
<1>5. ASSUME NEW c \in Calls, Established(c) PROVE Goal BY <1>3, <1>5 DEF Established, CallsTypeOK
<1>6. CASE UNCHANGED <<record, callId, state>> BY <1>1, <1>6
<1>7. CASE Line /\ ~Reload
  BY <1>6, <1>7 DEF Line, GotCredentials, StartFails, UaStarted, RegisterAccepted, RegisterRefused, RegisterUnanswered,
      Refused, LineDrops, RegistrationLost, RecoverDone, RetryFires, Watchdog, Disable, Enable
<1>8. CASE Reload
  <2>1. callId' = NoCall /\ (\A c \in Calls : state'[c] = "none" => state[c] = "none") BY <1>8 DEF Reload
  <2> QED BY <1>1, <1>2, <1>8, <2>1 DEF Reload
<1>9. CASE Invite BY <1>9, NextCallIsFresh, StartTold DEF Invite
<1>10. ASSUME NEW feature \in BOOLEAN, Call(feature) PROVE Goal BY <1>10, NextCallIsFresh, StartTold DEF Call
<1>11. CASE LateStop \/ ToggleHold BY <1>6, <1>11 DEF LateStop, ToggleHold
<1>12. CASE Answer BY <1>1, <1>12 DEF Answer, CallsTypeOK
<1>13. CASE Hangup
  <2>1. CASE state[session] = "Initial" BY <1>4, <1>13, <2>1 DEF Hangup, CallsTypeOK
  <2>2. CASE state[session] # "Initial" BY <1>1, <1>13, <2>2 DEF Hangup, CallsTypeOK
  <2> QED BY <2>1, <2>2
<1>14. ASSUME NEW c \in Calls, InviteSent(c) PROVE Goal BY <1>1, <1>14 DEF InviteSent, CallsTypeOK
<1>15. ASSUME NEW c \in Calls, InviteThrows(c) PROVE Goal BY <1>4, <1>6, <1>15 DEF InviteThrows
<1>16. ASSUME NEW c \in Calls, RefusedByPeer(c) \/ Ended(c) PROVE Goal BY <1>4, <1>16 DEF RefusedByPeer, Ended
<1>17. ASSUME NEW c \in Calls, PickedUp(c) \/ AcceptDone(c) PROVE Goal BY <1>5, <1>17 DEF PickedUp, AcceptDone
<1>18. ASSUME NEW c \in Calls, AcceptFails(c) PROVE Goal BY <1>1, <1>18 DEF AcceptFails, CallsTypeOK
<1>19. ASSUME NEW c \in Calls, AcceptFailsDtls(c) PROVE Goal BY <1>4, <1>6, <1>19 DEF AcceptFailsDtls
<1>20. ASSUME NEW c \in Calls, NEW early \in BOOLEAN, Progress(c, early) PROVE Goal
  BY <1>6, <1>20 DEF Progress
<1>21. ASSUME NEW h \in holding, HoldReturns(h) PROVE Goal BY <1>6, <1>21 DEF HoldReturns
<1>22. CASE UNCHANGED phoneVars BY <1>6, <1>22 DEF phoneVars
<1> HIDE DEF Goal
<1> QED BY <1>7, <1>8, <1>9, <1>10, <1>11, <1>12, <1>13, <1>14, <1>15, <1>16, <1>17,
    <1>18, <1>19, <1>20, <1>21, <1>22 DEF PhoneNext, CallSteps

\* One tab's phone implements the call record: each step of it starts a call that
\* was never told, answers or closes an open one, or tells nothing.
THEOREM PhoneKeepsRecord == PhoneSpec => CallRecords
<1>1. ASSUME PhoneInit PROVE Records!Init /\ LogIsOpen
  BY <1>1 DEF PhoneInit, Records!Init, LogIsOpen
<1>2. ASSUME PhoneTypeOK, LogIsOpen, [PhoneNext]_phoneVars PROVE LogIsOpen' /\ [Records!Next]_record
  BY <1>2, LogStep DEF Silent, Starts, Tells, Records!Next, Records!Start, Records!Answer, Records!Close
<1> QED BY <1>1, <1>2, PhoneTypeCorrect, PTL DEF PhoneSpec, CallRecords, Records!Spec
==================================================================================
