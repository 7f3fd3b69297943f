--------------------------------- MODULE Bridge --------------------------------
(***************************************************************************)
(* The small phones outside the panel's tab: the extension draws one on      *)
(* every other page and the desktop app has one of its own.  They hold no    *)
(* call.  A panel publishes what its phone does (its face) and runs what the *)
(* small phones ask:                                                         *)
(*   - a panel in the browser ("tab") speaks to the extension's worker,      *)
(*     which speaks to the widgets of the pages;                             *)
(*   - the panel in the desktop app ("own") speaks to the app's process;     *)
(*   - both panels, and the worker ("ext"), also open a socket to the app,   *)
(*     which keeps one of them: the one that came last.                      *)
(*                                                                           *)
(* What is said on one machine arrives in the order it was said.  The        *)
(* keypad and transfer drawers of the widgets, their layout and their clock  *)
(* are left out, and of the commands, those that differ in nothing here.     *)
(*                                                                           *)
(* Bounds: MaxChanges changes of the phones, MaxPresses presses, MaxDrops    *)
(* accidents and choices of the person: a silent socket, a stopped worker,   *)
(* a lost lead, a closed tab, a quit app, a window shown or hidden.          *)
(***************************************************************************)
EXTENDS Naturals, Sequences, FiniteSets

CONSTANTS MaxChanges, MaxPresses, MaxDrops

VARIABLES
  phone, active,        \* of each panel: its face, and whether the line is its own
  keptSocket,           \* whose socket to the app is open: the app keeps one
  app, windows,         \* the app: what its widget shows, and whether its own panel
                        \* has had the line; which windows are shown
  toApp, toWorker,      \* what has been said and not yet heard
  worker,               \* the last face the worker heard
  page,                 \* the widget of another page
  orders, ran, presses, \* what was pressed: under way, run
  changes, drops

bridgeVars == <<phone, active, keptSocket, app, windows, toApp, toWorker, worker, page,
                orders, ran, presses, changes, drops>>

Panels == {"own", "tab"}
Clients == Panels \cup {"ext"}
InACall == {"incoming", "in-call", "calling"}
FaceStatuses == InACall \cup {"registered", "disabled"}
\* A face: the fields of the phone's state the widgets are shown.
Face(s, m) == [status |-> s, muted |-> m]
Disconnected == Face("disconnected", FALSE)
IdleFace == Face("idle", FALSE)
Faces == {Face(s, m) : s \in FaceStatuses, m \in BOOLEAN} \cup {Disconnected, IdleFace}
\* A face with a status that is not known to the app is shown as idle.
CleanState(f) == IF f.status \in FaceStatuses \cup {"idle", "disconnected"} THEN f ELSE IdleFace

\* The buttons a face offers; a page whose panel went silent offers none.
Commands == {"call", "answer", "hangup", "mute"}
PageButtons(f) ==
  CASE f.status = "registered" -> {"call"}
    [] f.status = "incoming" -> {"answer", "hangup"}
    [] f.status = "calling" -> {"hangup"}
    [] f.status = "in-call" -> {"mute", "hangup"}
    [] OTHER -> {}
AppButtons(f) == IF f = Disconnected THEN {} ELSE PageButtons(f)

Messages == [from : Clients \cup {"ipc"}, face : Faces]
Orders == [press : 1 .. MaxPresses, cmd : Commands, by : {"page", "ipc", "socket"}, panel : Panels]
BridgeTypeOK ==
  /\ phone \in [Panels -> {Face(s, m) : s \in FaceStatuses, m \in BOOLEAN}]
  /\ active \in [Panels -> BOOLEAN]
  /\ keptSocket \in Clients \cup {"none"}
  /\ app.on \in BOOLEAN /\ app.face \in Faces /\ app.mixed \in BOOLEAN
  /\ windows \in [widget : BOOLEAN, panel : BOOLEAN, asking : BOOLEAN, put : BOOLEAN]
  /\ \A i \in 1 .. Len(toApp) : toApp[i] \in Messages
  /\ \A i \in 1 .. Len(toWorker) : toWorker[i] \in Faces
  /\ worker \in Faces /\ page.face \in Faces /\ page.open \in BOOLEAN
  /\ page.seen \in {"covered", "plain", "settled"}
  /\ orders \subseteq Orders /\ ran \subseteq Orders /\ presses \in 0 .. MaxPresses
  /\ changes \in 0 .. MaxChanges /\ drops \in 0 .. MaxDrops

\* The app is running and its own panel holds no line; the tab's does, and a
\* page was loaded before anything was said.
BridgeInit ==
  /\ phone = [p \in Panels |-> Face(IF p = "tab" THEN "registered" ELSE "disabled", FALSE)]
  /\ active = [p \in Panels |-> p = "tab"]
  /\ keptSocket = "none"
  /\ app = [on |-> TRUE, face |-> Disconnected, mixed |-> FALSE]
  /\ windows = [widget |-> TRUE, panel |-> TRUE, asking |-> FALSE, put |-> FALSE]
  /\ toApp = <<>> /\ toWorker = <<phone["tab"]>>
  /\ worker = IdleFace /\ page = [face |-> IdleFace, open |-> FALSE, seen |-> "covered"]
  /\ orders = {} /\ ran = {} /\ presses = 0 /\ changes = 0 /\ drops = 0

Drop == drops < MaxDrops /\ drops' = drops + 1

---------------------------------------------------------------------------
(* The panels. *)

Said(c, f) == IF keptSocket = c THEN <<[from |-> c, face |-> f]>> ELSE <<>>
\* A panel that holds the line publishes its face: to the page around it,
\* which is the app's preload or the extension's script, and to its socket.
Publish(p, f) ==
  /\ toApp' = toApp \o (IF p = "own" THEN <<[from |-> "ipc", face |-> f]>> ELSE <<>>) \o Said(p, f)
  /\ toWorker' = IF p = "tab" THEN Append(toWorker, f) ELSE toWorker
Becomes(p, f) ==
  /\ phone' = [phone EXCEPT ![p] = f]
  /\ IF active[p] /\ f # phone[p] THEN Publish(p, f) ELSE UNCHANGED <<toApp, toWorker>>

\* The phone's own life: a call comes, is answered by the other side, ends.
Turns == {<<"registered", "incoming">>, <<"calling", "in-call">>, <<"incoming", "registered">>, <<"in-call", "registered">>}
PhoneTurns(p) ==
  /\ active[p] /\ changes < MaxChanges /\ changes' = changes + 1
  /\ \E t \in Turns : phone[p].status = t[1] /\ Becomes(p, Face(t[2], FALSE))
  /\ UNCHANGED <<active, keptSocket, app, windows, worker, page, orders, ran, presses, drops>>

\* The line goes to another tab or browser and comes back.  The panel without
\* it publishes nothing, not even that its phone is off, and shuts its socket.
Shuts(c) ==
  /\ keptSocket' = IF keptSocket = c THEN "none" ELSE keptSocket
  /\ toApp' = toApp \o Said(c, Disconnected)
LosesLine(p) ==
  /\ active[p] /\ Drop
  /\ active' = [active EXCEPT ![p] = FALSE] /\ phone' = [phone EXCEPT ![p] = Face("disabled", FALSE)]
  /\ Shuts(p)
  /\ UNCHANGED <<app, windows, toWorker, worker, page, orders, ran, presses, changes>>
GetsLine(p) ==
  /\ ~active[p] /\ Drop
  /\ active' = [active EXCEPT ![p] = TRUE] /\ phone' = [phone EXCEPT ![p] = Face("registered", FALSE)]
  /\ Publish(p, phone'[p])
  /\ app' = [app EXCEPT !.mixed = @ \/ p = "own"]
  /\ UNCHANGED <<keptSocket, windows, worker, page, orders, ran, presses, changes>>

---------------------------------------------------------------------------
(* The sockets. *)

\* A panel says hello and its face; the worker its last one, unless idle.
FirstWord(c) == IF c = "ext" THEN worker ELSE phone[c]
\* Who has no socket tries again every few seconds, when all that was said is
\* heard; a panel only while it has the line.  The app takes the newcomer, and
\* shuts the one it had, who finds that at once and becomes a newcomer.
Connects(c) ==
  /\ c # keptSocket /\ app.on /\ (c \in Panels => active[c]) /\ toApp = <<>>
  /\ keptSocket' = c
  /\ toApp' = IF FirstWord(c) = IdleFace THEN toApp ELSE <<[from |-> c, face |-> FirstWord(c)]>>
  /\ UNCHANGED <<phone, active, app, windows, toWorker, worker, page, orders, ran, presses, changes, drops>>
\* Ten seconds without a word on the socket it keeps: the timers of a hidden
\* tab are slower than that.
GoesSilent ==
  /\ app.on /\ keptSocket # "none" /\ toApp = <<>> /\ Drop
  /\ keptSocket' = "none"
  /\ app' = [app EXCEPT !.face = Disconnected]
  /\ UNCHANGED <<phone, active, windows, toApp, toWorker, worker, page, orders, ran, presses, changes>>

---------------------------------------------------------------------------
(* The app. *)

\* It shows what it hears, also from a socket it has shut; a ringing phone
\* brings the widget back.
BroadcastCallState(f) ==
  /\ app' = [app EXCEPT !.face = f]
  /\ windows' = IF f.status = "incoming" THEN [windows EXCEPT !.widget = TRUE, !.put = FALSE] ELSE windows
AppHears ==
  /\ app.on /\ toApp # <<>> /\ toApp' = Tail(toApp)
  /\ LET m == Head(toApp) IN BroadcastCallState(IF m.from = "ipc" THEN m.face ELSE CleanState(m.face))
  /\ UNCHANGED <<phone, active, keptSocket, toWorker, worker, page, orders, ran, presses, changes, drops>>

\* The tray, the hotkeys and the windows' own buttons show and hide them; the
\* question before leaving does so too, or quits.
ClosePanelWindow == windows' = [windows EXCEPT !.panel = FALSE]
ShowPanelWindow == windows' = [windows EXCEPT !.panel = TRUE, !.asking = FALSE]
HideWidget == windows' = [windows EXCEPT !.widget = FALSE, !.put = TRUE]
TogglePanelWindow == windows' = [windows EXCEPT !.panel = ~@]
ToggleWidget == windows' = [windows EXCEPT !.widget = ~@, !.put = windows.widget]
OnlyPanel == windows' = [windows EXCEPT !.widget = FALSE, !.put = TRUE, !.panel = TRUE, !.asking = FALSE]
OnlyWidget == windows' = [windows EXCEPT !.panel = FALSE, !.widget = TRUE, !.put = FALSE, !.asking = FALSE]
SecondInstance == windows' = [windows EXCEPT !.panel = TRUE, !.widget = TRUE, !.put = FALSE]
AsksToLeave == ~windows.asking /\ windows' = [windows EXCEPT !.asking = TRUE]
Stays == windows.asking /\ windows' = [windows EXCEPT !.asking = FALSE]
WindowMoves ==
  /\ app.on /\ Drop
  /\ \/ ShowPanelWindow \/ ClosePanelWindow \/ HideWidget \/ TogglePanelWindow \/ ToggleWidget
     \/ OnlyPanel \/ OnlyWidget \/ SecondInstance \/ AsksToLeave \/ Stays
  /\ UNCHANGED <<phone, active, keptSocket, app, toApp, toWorker, worker, page, orders, ran, presses, changes>>

\* The app's process ends, with its own panel and what was said to it.
QuitApplication ==
  /\ app.on /\ Drop
  /\ app' = [on |-> FALSE, face |-> Disconnected, mixed |-> FALSE] /\ keptSocket' = "none" /\ toApp' = <<>>
  /\ windows' = [windows EXCEPT !.widget = FALSE, !.panel = FALSE, !.asking = FALSE, !.put = FALSE]
  /\ active' = [active EXCEPT !["own"] = FALSE] /\ phone' = [phone EXCEPT !["own"] = Face("disabled", FALSE)]
  /\ orders' = {o \in orders : o.panel # "own" /\ o.by # "socket"}
  /\ UNCHANGED <<toWorker, worker, page, ran, presses, changes>>
AppStarts ==
  /\ ~app.on /\ app' = [app EXCEPT !.on = TRUE]
  /\ windows' = [windows EXCEPT !.widget = TRUE, !.panel = TRUE]
  /\ UNCHANGED <<phone, active, keptSocket, toApp, toWorker, worker, page, orders, ran, presses, changes, drops>>

---------------------------------------------------------------------------
(* The extension. *)

\* A bug to be caught: a page that knows its panel is open waits for the
\* panel to be found closed before it takes another face.
PageHearsOnce(f) == IF page.open THEN page ELSE [page EXCEPT !.face = f, !.open = TRUE]
\* A page takes every face it hears.
PageHears(f) == [page EXCEPT !.face = f, !.open = TRUE]
\* The worker keeps what a panel says, and tells every page and the app.
WorkerHears ==
  /\ toWorker # <<>> /\ toWorker' = Tail(toWorker)
  /\ worker' = Head(toWorker) /\ page' = PageHears(Head(toWorker))
  /\ toApp' = toApp \o Said("ext", Head(toWorker))
  /\ UNCHANGED <<phone, active, keptSocket, app, windows, orders, ran, presses, changes, drops>>
\* The browser stops an idle worker, and starts it again for the next word:
\* it remembers nothing.
WorkerStops ==
  /\ toWorker = <<>> /\ Drop
  /\ worker' = IdleFace
  /\ Shuts("ext")
  /\ UNCHANGED <<phone, active, app, windows, toWorker, page, orders, ran, presses, changes>>
\* A tab was closed and no panel is left in the browser.
LastPanelCloses ==
  /\ ~active["tab"] /\ worker # Disconnected /\ worker' = Disconnected
  /\ toApp' = toApp \o Said("ext", Disconnected)
  /\ UNCHANGED <<phone, active, keptSocket, app, windows, toWorker, page, orders, ran, presses, changes, drops>>

\* The panel's heartbeat shows the widget; its silence hides it.
Heartbeat ==
  /\ active["tab"] /\ ~page.open /\ page' = [page EXCEPT !.open = TRUE]
  /\ UNCHANGED <<phone, active, keptSocket, app, windows, toApp, toWorker, worker, orders, ran, presses, changes, drops>>
HeartbeatMissed ==
  /\ page.open /\ Drop /\ page' = [page EXCEPT !.open = FALSE, !.seen = "covered"]
  /\ UNCHANGED <<phone, active, keptSocket, app, windows, toApp, toWorker, worker, orders, ran, presses, changes>>
\* A page that loads asks the worker for the last face.
PageLoads ==
  /\ Drop /\ page' = [face |-> worker, open |-> FALSE, seen |-> "covered"]
  /\ UNCHANGED <<phone, active, keptSocket, app, windows, toApp, toWorker, worker, orders, ran, presses, changes>>
\* The guard: the widget counts as seen only when it has been plainly shown
\* for a while, and no longer once something hides it.
PlainlyShown ==
  /\ page.open /\ page.seen # "settled"
  /\ page' = [page EXCEPT !.seen = IF @ = "covered" THEN "plain" ELSE "settled"]
  /\ UNCHANGED <<phone, active, keptSocket, app, windows, toApp, toWorker, worker, orders, ran, presses, changes, drops>>
Covered ==
  /\ page.seen # "covered" /\ Drop /\ page' = [page EXCEPT !.seen = "covered"]
  /\ UNCHANGED <<phone, active, keptSocket, app, windows, toApp, toWorker, worker, orders, ran, presses, changes>>

---------------------------------------------------------------------------
(* The presses. *)

\* What the app's process sends goes to its own panel and to the socket it
\* keeps; the worker hands it to the panel of its browser.
SendCommandToPanel(cmd) ==
  LET To(by, p) == [press |-> presses', cmd |-> cmd, by |-> by, panel |-> p] IN
  orders' = orders \cup {To("ipc", "own")}
              \cup (IF keptSocket \in Panels THEN {To("socket", keptSocket)} ELSE {})
              \cup (IF keptSocket = "ext" THEN {To("page", "tab")} ELSE {})
PressWidget ==
  /\ app.on /\ windows.widget /\ presses < MaxPresses /\ presses' = presses + 1
  /\ \E cmd \in AppButtons(app.face) : SendCommandToPanel(cmd)
  /\ UNCHANGED <<phone, active, keptSocket, app, windows, toApp, toWorker, worker, page, ran, changes, drops>>
\* The hotkeys work whatever is shown.
PressHotkey ==
  /\ app.on /\ presses < MaxPresses /\ presses' = presses + 1
  /\ \E cmd \in {"answer", "hangup", "mute"} : SendCommandToPanel(cmd)
  /\ UNCHANGED <<phone, active, keptSocket, app, windows, toApp, toWorker, worker, page, ran, changes, drops>>
PressPage ==
  /\ page.open /\ page.seen = "settled" /\ presses < MaxPresses /\ presses' = presses + 1
  /\ \E cmd \in PageButtons(page.face) :
       orders' = orders \cup {[press |-> presses', cmd |-> cmd, by |-> "page", panel |-> "tab"]}
  /\ UNCHANGED <<phone, active, keptSocket, app, windows, toApp, toWorker, worker, page, ran, changes, drops>>

\* The panel runs a command as its own buttons would, if it holds the line.
\* The answer to a press is what the phone does now, not what was shown.
Runs(o) ==
  LET f == phone[o.panel] IN
  CASE o.cmd = "call" /\ f.status = "registered" -> Face("calling", FALSE)
    [] o.cmd = "answer" /\ f.status = "incoming" -> Face("in-call", FALSE)
    [] o.cmd = "hangup" /\ f.status \in InACall -> Face("registered", FALSE)
    [] o.cmd = "mute" /\ f.status = "in-call" -> [f EXCEPT !.muted = ~@]
    [] OTHER -> f
ExecuteBridgeCommand(o) ==
  /\ o \in orders /\ orders' = orders \ {o}
  /\ IF active[o.panel]
     THEN Becomes(o.panel, Runs(o)) /\ ran' = ran \cup {o}
     ELSE UNCHANGED <<phone, toApp, toWorker, ran>>
  /\ UNCHANGED <<active, keptSocket, app, windows, worker, page, presses, changes, drops>>

BridgeNext ==
  \/ \E p \in Panels : PhoneTurns(p) \/ LosesLine(p) \/ (GetsLine(p) /\ (p = "own" => app.on))
  \/ \E c \in Clients : Connects(c)
  \/ GoesSilent \/ AppHears \/ WindowMoves \/ QuitApplication \/ AppStarts
  \/ WorkerHears \/ WorkerStops \/ LastPanelCloses
  \/ Heartbeat \/ HeartbeatMissed \/ PageLoads \/ PlainlyShown \/ Covered
  \/ PressWidget \/ PressHotkey \/ PressPage \/ \E o \in orders : ExecuteBridgeCommand(o)

BridgeSpec == BridgeInit /\ [][BridgeNext]_bridgeVars

---------------------------------------------------------------------------
(* Properties. *)

\* While the tab's panel has the line, and once all that was said is heard, no
\* small phone shows a call that is not there (the app's only as long as its
\* own panel never had the line): it shows what the panel's phone does, or has
\* no button to press.  Connections that evict
\* each other, silences, restarts of the worker and of the app, and commands
\* under way change nothing in this.  A phone the app shows ringing is on the
\* screen, unless the person put the widget away.
FacesAreTrue ==
  /\ active["tab"] /\ toApp = <<>> /\ toWorker = <<>> =>
       /\ page.face = phone["tab"] \/ PageButtons(page.face) = {}
       /\ ~app.mixed => app.face = phone["tab"] \/ AppButtons(app.face) = {}
  /\ app.on /\ app.face.status = "incoming" => windows.widget \/ windows.put

\* "Also send to bridgeServer (for external browser connections)": a press is
\* run once by a panel, not once by each way that leads there.
PressRunsOnce ==
  \A o, q \in ran : o.press = q.press /\ o.panel = q.panel => o = q
================================================================================
