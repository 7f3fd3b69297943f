----------------------------- MODULE DoNotDisturb -----------------------------
(***************************************************************************)
(* The do-not-disturb of one agent's extension: what the rows of shifts and *)
(* presence ask for, the queue of wishes in the server's memory             *)
(* (verimor/dnd.go), the reader that compares it with the phone system and  *)
(* with the rows (verimor/service.go), and the phone system.                *)
(*                                                                          *)
(* How the rows change is left to Floor; here they ask for one state and    *)
(* then for another, and the wish follows in a request, or in none when the *)
(* request fails or dies in between.  Clocks are free: a pause ends, and a  *)
(* wish falls due, at any time.  RunDND's first read of the rows and the    *)
(* poller's are the steps of one reader.                                    *)
(***************************************************************************)
EXTENDS Naturals

CONSTANTS Wishers,      \* requests with a wish, at once
          MaxWishes,    \* bound: changes of what the rows ask for
          MaxFailures   \* bound: lost wishes, restarts, and what goes wrong at the phone system

ASSUME DoNotDisturbAssumption == {MaxWishes, MaxFailures} \subseteq Nat

NoWish == [on |-> FALSE, confirmed |-> FALSE, drift |-> 0, none |-> TRUE]
NoSend == [by |-> "nobody", on |-> FALSE, latest |-> FALSE, answer |-> "none"]
NoHand == [at |-> "idle", on |-> FALSE, swept |-> FALSE]

VARIABLES
  rows,       \* what DNDWishes would say: "on", "off", or "none" for who had no shift lately
  wisher,     \* where each request is, and the wish it brings
  wish,       \* the queue's wish for the extension
  send,       \* the send on its way (inflight), whether its wish is still the latest, its answer
  paused,     \* the phone system pushed back, pausedUntil is to come
  at,         \* where the reader of reports and rows is
  found,      \* what DNDWishes said of the extension
  overtaken,  \* the panel asked for a state since the reader's read
  report,     \* what the phone system reports of the extension
  fresh,      \* the report was asked for after the confirmation
  line,       \* do-not-disturb at the phone system
  late,       \* sends given up that the phone system may still take
  astray,     \* history: the phone system's state changed by itself since it took a send
  wished,     \* history: changes of the rows
  failures    \* history: what went wrong

queueVars == <<wish, send, paused>>
readVars == <<at, found, overtaken, report, fresh>>
phoneSystemVars == <<line, late, astray>>
dndVars == <<rows, wisher, queueVars, readVars, phoneSystemVars, wished, failures>>

DndTypeOK ==
  /\ rows \in {"none", "on", "off"}
  /\ wisher \in [Wishers -> [at : {"idle", "want", "flush", "sending"}, on : BOOLEAN, swept : BOOLEAN]]
  /\ wish \in {NoWish} \cup [on : BOOLEAN, confirmed : BOOLEAN, drift : 0 .. 1, none : {FALSE}]
  /\ send \in {NoSend} \cup [by : Wishers \cup {"queue"}, on : BOOLEAN, latest : BOOLEAN,
                             answer : {"none", "ok", "refused", "busy"}]
  /\ at \in {"rest", "asked", "told", "reading", "read", "adopt"} /\ found \in {"none", "on", "off"}
  /\ report \in {"SS_DND", "AVAILABLE", "none"}
  /\ {paused, overtaken, fresh, line, astray} \subseteq BOOLEAN /\ late \subseteq BOOLEAN
  /\ wished \in 0 .. MaxWishes /\ failures \in 0 .. MaxFailures

DndInit ==
  /\ rows \in {"none", "on", "off"}
  /\ wisher = [r \in Wishers |-> NoHand]
  /\ wish = NoWish /\ send = NoSend /\ paused = FALSE
  /\ at = "reading" /\ found = "none" /\ overtaken = FALSE /\ report = "none" /\ fresh = FALSE
  /\ line \in BOOLEAN /\ late = {} /\ astray = FALSE
  /\ wished = 0 /\ failures = 0

Failure == failures < MaxFailures /\ failures' = failures + 1
Leave(r) == wisher' = [wisher EXCEPT ![r] = NoHand]
At(r, place) == wisher[r].at = place

---------------------------------------------------------------------------
(* The queue. *)

\* The rows ask for another state (or the same: a break after a break), and a request
\* brings the wish; the evening sweep (one at a time) only ever asks not to be disturbed.
RowsAsk(r) ==
  /\ At(r, "idle") /\ wished < MaxWishes /\ wished' = wished + 1
  /\ \E on, swept \in BOOLEAN :
       /\ swept => on /\ \A q \in Wishers : ~wisher[q].swept
       /\ rows' = (IF on THEN "on" ELSE "off")
       /\ wisher' = [wisher EXCEPT ![r] = [at |-> "want", on |-> on, swept |-> swept]]
  /\ UNCHANGED <<queueVars, readVars, phoneSystemVars, failures>>
\* The rows change, and the request fails or ends before its wish.
RowsAskAlone ==
  /\ wished < MaxWishes /\ wished' = wished + 1 /\ Failure
  /\ rows' \in {"on", "off"}
  /\ UNCHANGED <<wisher, queueVars, readVars, phoneSystemVars>>

\* A new wish: what is on its way is no longer the latest.
WishFor(on) ==
  IF ~wish.none /\ wish.on = on THEN UNCHANGED <<wish, send>>
  ELSE /\ wish' = [on |-> on, confirmed |-> FALSE, drift |-> 0, none |-> FALSE]
       /\ send' = (IF send = NoSend THEN send ELSE [send EXCEPT !.latest = FALSE])

\* A request's wish, newer than a read of the rows under way; the sweep's waits for the
\* queue, anyone else's is flushed.
Want(r) ==
  /\ At(r, "want") /\ WishFor(wisher[r].on)
  /\ overtaken' = (overtaken \/ (at \in {"reading", "read"} /\ wish' # wish))
  /\ IF wisher[r].swept THEN Leave(r) ELSE wisher' = [wisher EXCEPT ![r] = [NoHand EXCEPT !.at = "flush"]]
  /\ UNCHANGED <<rows, paused, at, found, report, fresh, phoneSystemVars, wished, failures>>

Sends(by) == send' = [by |-> by, on |-> wish.on, latest |-> TRUE, answer |-> "none"]

\* A request sends the latest wish unless it is confirmed, or another send is on its
\* way, or the phone system pushes back; then the queue sends it.
Flush(r) ==
  /\ At(r, "flush")
  /\ IF wish.confirmed \/ send # NoSend \/ paused THEN Leave(r) /\ UNCHANGED send
     ELSE wisher' = [wisher EXCEPT ![r].at = "sending"] /\ Sends(r)
  /\ UNCHANGED <<rows, wish, paused, readVars, phoneSystemVars, wished, failures>>

\* The worker of the queue, at its pace: one send of the extension at a time.
QueueSends ==
  /\ ~wish.none /\ ~wish.confirmed /\ send = NoSend /\ ~paused
  /\ Sends("queue")
  /\ UNCHANGED <<rows, wisher, wish, paused, readVars, phoneSystemVars, wished, failures>>

PauseEnds == paused /\ paused' = FALSE /\ UNCHANGED <<rows, wisher, wish, send, readVars, phoneSystemVars, wished, failures>>

\* A mutant of Settle: a yes confirms whatever is wished for by then.
SettleAny ==
  /\ send.answer # "none" /\ send' = NoSend
  /\ paused' = (send.answer = "busy")
  /\ IF send.answer = "ok" THEN wish' = [wish EXCEPT !.confirmed = TRUE, !.drift = 0] /\ fresh' = FALSE
     ELSE UNCHANGED <<wish, fresh>>
  /\ IF send.by \in Wishers
     THEN IF send.answer = "ok" THEN wisher' = [wisher EXCEPT ![send.by].at = "flush"] ELSE Leave(send.by)
     ELSE UNCHANGED wisher
  /\ UNCHANGED <<rows, at, found, overtaken, report, phoneSystemVars, wished, failures>>
\* The answer to a send: yes confirms the wish it was for, if that is still the latest,
\* and a request looks for a newer one; too busy or no answer pauses the queue.
Settle ==
  /\ send.answer # "none" /\ send' = NoSend
  /\ paused' = CASE send.answer = "ok" -> FALSE [] send.answer = "busy" -> TRUE [] OTHER -> paused
  /\ IF send.answer = "ok" /\ send.latest
     THEN wish' = [wish EXCEPT !.confirmed = TRUE, !.drift = 0] /\ fresh' = FALSE
     ELSE UNCHANGED <<wish, fresh>>
  /\ IF send.by \in Wishers
     THEN IF send.answer = "ok" THEN wisher' = [wisher EXCEPT ![send.by].at = "flush"] ELSE Leave(send.by)
     ELSE UNCHANGED wisher
  /\ UNCHANGED <<rows, at, found, overtaken, report, phoneSystemVars, wished, failures>>

---------------------------------------------------------------------------
(* What the phone system reports, and what the rows say. *)

\* refreshExtensions asks for the states of the extensions: what is told now is newer
\* than any confirmation so far.
AsksReport ==
  /\ at = "rest" /\ at' = "asked" /\ fresh' = TRUE
  /\ UNCHANGED <<rows, wisher, queueVars, found, overtaken, report, phoneSystemVars, wished, failures>>
\* The phone system says whether the extension is disturbed.
Told ==
  /\ at = "asked" /\ at' = "told" /\ report' = IF line THEN "SS_DND" ELSE "AVAILABLE"
  /\ UNCHANGED <<rows, wisher, queueVars, found, overtaken, fresh, phoneSystemVars, wished, failures>>
\* The extension talks or is not registered, which says nothing of it.
ToldNothing ==
  /\ at = "asked" /\ at' = "reading" /\ fresh' = FALSE
  /\ UNCHANGED <<rows, wisher, queueVars, found, overtaken, report, phoneSystemVars, wished, failures>>
ReportFails ==
  /\ at = "asked" /\ at' = "rest" /\ fresh' = FALSE /\ Failure
  /\ UNCHANGED <<rows, wisher, queueVars, found, overtaken, report, phoneSystemVars, wished>>

\* A mutant of Drifts: the wish is never asked for anew.
DriftsOn == [wish EXCEPT !.drift = 1]
\* The second disagreement in a row asks for the wish anew.
Drifts == IF wish.drift = 0 THEN [wish EXCEPT !.drift = 1] ELSE [wish EXCEPT !.confirmed = FALSE, !.drift = 0]
\* A confirmed wish is compared with a fresh report.  ReconcileDND begins.
Observe ==
  /\ at = "told" /\ at' = "reading" /\ report' = "none" /\ fresh' = FALSE
  /\ wish' = IF ~wish.confirmed \/ ~fresh THEN wish
             ELSE IF (report = "SS_DND") = wish.on THEN [wish EXCEPT !.drift = 0] ELSE Drifts
  /\ UNCHANGED <<rows, wisher, send, paused, found, overtaken, phoneSystemVars, wished, failures>>

ReadOver == at' = "rest" /\ found' = "none" /\ overtaken' = FALSE
\* DNDWishes: off for who is on shift and available, on for anyone else with a shift
\* now or lately.
ReadsWishes ==
  /\ at = "reading"
  /\ \/ /\ at' = "read" /\ UNCHANGED <<overtaken, failures>>
        /\ found' = rows
     \/ ReadOver /\ Failure
  /\ UNCHANGED <<rows, wisher, queueVars, report, fresh, phoneSystemVars, wished>>

\* adopt: a difference is taken over unless the panel asked for a state meanwhile; the
\* look and the taking over are apart.
LooksToAdopt ==
  /\ at = "read"
  /\ IF found = "none" \/ (~wish.none /\ (wish.on = (found = "on") \/ overtaken))
     THEN ReadOver ELSE at' = "adopt" /\ overtaken' = FALSE /\ UNCHANGED found
  /\ UNCHANGED <<rows, wisher, queueVars, report, fresh, phoneSystemVars, wished, failures>>
\* A mutant of Adopts: the difference is seen and not taken over.
AdoptsNot == at = "adopt" /\ ReadOver /\ UNCHANGED <<rows, wisher, queueVars, report, fresh, phoneSystemVars, wished, failures>>
Adopts ==
  /\ at = "adopt" /\ at' = "rest" /\ found' = "none" /\ WishFor(found = "on") /\ overtaken' = FALSE
  /\ UNCHANGED <<rows, wisher, paused, report, fresh, phoneSystemVars, wished, failures>>

---------------------------------------------------------------------------
(* The phone system, and restarts. *)

Unanswered == send # NoSend /\ send.answer = "none"
\* A send is taken; its answer may be lost.
LineTakes ==
  /\ Unanswered /\ line' = send.on /\ astray' = FALSE
  /\ \/ send' = [send EXCEPT !.answer = "ok"] /\ UNCHANGED failures
     \/ send' = [send EXCEPT !.answer = "busy"] /\ Failure
  /\ UNCHANGED <<rows, wisher, wish, paused, readVars, late, wished>>
\* It is refused for this extension, or because the phone system is busy, or not answered
\* in time and perhaps taken later.
LineRefuses ==
  /\ Unanswered /\ Failure
  /\ \/ send' = [send EXCEPT !.answer = "refused"] /\ UNCHANGED late
     \/ send' = [send EXCEPT !.answer = "busy"] /\ late' \in {late, late \cup {send.on}}
  /\ UNCHANGED <<rows, wisher, wish, paused, readVars, line, astray, wished>>
LateArrives ==
  /\ \E on \in late : line' = on /\ late' = late \ {on}
  /\ astray' = TRUE
  /\ UNCHANGED <<rows, wisher, queueVars, readVars, wished, failures>>
\* Someone changes the state in the phone system's own panel.
ChangedElsewhere ==
  /\ Failure /\ line' = ~line /\ astray' = TRUE
  /\ UNCHANGED <<rows, wisher, queueVars, readVars, late, wished>>

\* The server stops or dies and is started again: requests and wishes are gone.
Restart ==
  /\ Failure
  /\ wisher' = [r \in Wishers |-> NoHand] /\ wish' = NoWish /\ send' = NoSend /\ paused' = FALSE
  /\ late' \in {late, IF Unanswered THEN late \cup {send.on} ELSE late}
  /\ at' = "reading" /\ found' = "none" /\ overtaken' = FALSE /\ report' = "none" /\ fresh' = FALSE
  /\ UNCHANGED <<rows, line, astray, wished>>

GoesOn(r) == Want(r) \/ Flush(r)
Reads == ReadsWishes \/ LooksToAdopt \/ Adopts
DndNext ==
  \/ \E r \in Wishers : RowsAsk(r) \/ GoesOn(r)
  \/ RowsAskAlone \/ QueueSends \/ PauseEnds \/ Settle
  \/ AsksReport \/ Told \/ ToldNothing \/ ReportFails \/ Observe \/ Reads
  \/ LineTakes \/ LineRefuses \/ LateArrives \/ ChangedElsewhere \/ Restart
DndSpec == DndInit /\ [][DndNext]_dndVars

\* Requests and goroutines go on; the phone system answers, what it still has to take
\* it takes, and it says again and again whether the extension is disturbed; polls tick.
DndFair ==
  /\ \A r \in Wishers : WF_dndVars(GoesOn(r))
  /\ WF_dndVars(QueueSends) /\ WF_dndVars(PauseEnds) /\ WF_dndVars(Settle)
  /\ WF_dndVars(LineTakes) /\ WF_dndVars(LateArrives)
  /\ WF_dndVars(AsksReport) /\ WF_dndVars(Told \/ ToldNothing \/ ReportFails)
  /\ SF_dndVars(Told) /\ WF_dndVars(Observe) /\ WF_dndVars(Reads)

---------------------------------------------------------------------------
(* Properties. *)

\* A wish the queue holds for confirmed is what the phone system has, unless the phone
\* system's state changed by itself since: no late answer, no second send and no newer
\* wish in between confirms what is not so.
ConfirmedIsSo == wish.confirmed => line = wish.on \/ astray

\* Whatever is refused, lost, late, changed elsewhere or forgotten by a restart, in the
\* end the phone system has the state the rows ask for: who is available gets calls,
\* who is on a break or went home gets none.
LineFollowsRows == <>[](rows # "none" => line = (rows = "on"))
===============================================================================
