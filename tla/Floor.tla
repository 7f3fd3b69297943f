-------------------------------- MODULE Floor --------------------------------
(***************************************************************************)
(* One agent's shift and presence: the rows at the server (shift/service.go,*)
(* the presence of verimor/service.go) and what the agent's panel shows of  *)
(* them (ShiftContext, PresenceContext and the buttons that use them).      *)
(*                                                                          *)
(* Every statement of a request is a step of its own.  The wish for the     *)
(* phone that follows a change is left to DoNotDisturb.  The panel polls,   *)
(* reads again on focus, after a change and when a shift begins or ends:    *)
(* at any time.                                                             *)
(***************************************************************************)
EXTENDS Naturals

CONSTANTS Requests,    \* requests of the panel and the evening sweep, at once
          MaxAsked,    \* bound: starts, ends and changes asked for
          MaxTroubles  \* bound: failing statements and lost answers

ASSUME FloorAssumption == {MaxAsked, MaxTroubles} \subseteq Nat

Pauses == {"break"}                  \* break, backoffice and do not disturb: one kind is enough
States == {"available"} \cup Pauses
Idle == [at |-> "idle", kind |-> "none", state |-> "none", shift |-> 0]
Kinds == {"start", "end", "sweep", "set", "status", "shift"}

VARIABLES
  shift,      \* the open row of `shifts`, 0 for none
  lastShift,  \* shifts opened so far
  presence,   \* the row of agent_presence
  stretch,    \* the open row of presence_events, "none" without one
  req,        \* where each request is, its kind, what it read or asks for, and its answer
  active,     \* the panel shows a shift
  shown,      \* the presence the panel shows
  asked,      \* history: starts, ends and changes asked for
  troubles    \* history: what failed

rowVars == <<shift, lastShift, presence, stretch>>
shownVars == <<active, shown>>
floorVars == <<rowVars, req, shownVars, asked, troubles>>

FloorTypeOK ==
  /\ shift \in 0 .. lastShift /\ lastShift \in 0 .. MaxAsked + 1
  /\ presence \in States \cup {"off"} /\ stretch \in States \cup {"none"}
  /\ req \in [Requests -> [at : {"idle", "first", "presence", "stretch", "reads", "ensure", "answered", "failed", "told"},
                           kind : Kinds \cup {"none"}, state : States \cup {"off", "none"}, shift : 0 .. MaxAsked + 1]]
  /\ active \in BOOLEAN /\ shown \in States \cup {"off"}
  /\ asked \in 0 .. MaxAsked /\ troubles \in 0 .. MaxTroubles

\* A new agent, or one on shift for a while; the panel shows it.
FloorInit ==
  /\ \/ shift = 0 /\ presence = "available" /\ stretch = "none" /\ shown = "off"
     \/ shift = 1 /\ presence \in States /\ stretch = presence /\ shown = presence
  /\ lastShift = shift /\ active = (shift # 0)
  /\ req = [r \in Requests |-> Idle]
  /\ asked = 0 /\ troubles = 0

Trouble == troubles < MaxTroubles /\ troubles' = troubles + 1
Is(r, place, kinds) == req[r].at = place /\ req[r].kind \in kinds
Go(r, place) == req' = [req EXCEPT ![r].at = place]
Rest(r) == req' = [req EXCEPT ![r] = Idle]
\* A request that begins; what it reads first is a step of the server's.
Begins(r, kind, state) ==
  /\ req[r] = Idle /\ req' = [req EXCEPT ![r] = [Idle EXCEPT !.at = "first", !.kind = kind, !.state = state]]
Counted == asked < MaxAsked /\ asked' = asked + 1
Busy == \E r \in Requests : req[r].kind \in {"start", "end"}

---------------------------------------------------------------------------
(* The panel asks. *)

\* Mesai Başlat, of the top bar, the welcome card and the phone: where no shift is shown.
PressStart(r) ==
  /\ ~active /\ ~Busy /\ Begins(r, "start", "none") /\ Counted
  /\ UNCHANGED <<rowVars, shownVars, troubles>>
\* Mesaiyi bitir, of the day's summary, which stays open while the shift ends elsewhere.
PressEnd(r) ==
  /\ \A q \in Requests : req[q].kind # "end"
  /\ Begins(r, "end", "none") /\ Counted
  /\ UNCHANGED <<rowVars, shownVars, troubles>>
\* The status bar's choice, the end of a break, or a call placed during one: shown at once.
ChangeState(r, state) ==
  /\ active /\ Begins(r, "set", state) /\ Counted
  /\ shown' = state
  /\ UNCHANGED <<rowVars, active, troubles>>
\* The evening's sweep, one at a time.
SweepFinds(r) ==
  /\ \A q \in Requests : req[q].kind # "sweep"
  /\ Begins(r, "sweep", "none") /\ Counted
  /\ UNCHANGED <<rowVars, shownVars, troubles>>
Polls == {"status", "shift"}
PanelPolls(r, kind) == Begins(r, kind, "none") /\ UNCHANGED <<rowVars, shownVars, asked, troubles>>

---------------------------------------------------------------------------
(* The server. *)

\* The first read: of the open shift, which a start must not find and an end must; a
\* change or a poll of the presence asks whether the agent is on shift, and takes a
\* failure for no.
FirstRead(r) ==
  /\ req[r].at = "first" /\ req[r].kind # "shift"
  /\ \E read \in BOOLEAN :
       LET onShift == read /\ shift # 0
           goesOn == read /\ (onShift <=> req[r].kind # "start")
       IN /\ IF read THEN UNCHANGED troubles ELSE Trouble
          /\ req' = [req EXCEPT ![r].shift = shift,
                                ![r].at = CASE req[r].kind = "status" /\ ~onShift -> "answered"
                                            [] req[r].kind # "status" /\ ~goesOn -> "failed"
                                            [] req[r].kind = "set" /\ goesOn -> "presence"
                                            [] OTHER -> "reads",
                                ![r].state = IF req[r].kind = "status" THEN "off" ELSE @]
  /\ UNCHANGED <<rowVars, shownVars, asked>>

\* The shift's row: one opened meanwhile is a conflict of the unique index.
StartRow(r) ==
  /\ Is(r, "reads", {"start"})
  /\ \/ /\ shift = 0 /\ shift' = lastShift + 1 /\ lastShift' = lastShift + 1
        /\ Go(r, "presence") /\ UNCHANGED troubles
     \/ /\ Go(r, "failed") /\ UNCHANGED <<shift, lastShift>>
        /\ IF shift = 0 THEN Trouble ELSE UNCHANGED troubles
  /\ UNCHANGED <<presence, stretch, shownVars, asked>>
\* Only who closes the row goes on to tell it.
EndRow(r) ==
  /\ Is(r, "reads", {"end", "sweep"})
  /\ \/ /\ shift' = (IF shift = req[r].shift THEN 0 ELSE shift) /\ UNCHANGED troubles
        /\ Go(r, IF shift = req[r].shift THEN "presence" ELSE "answered")
     \/ Trouble /\ Go(r, "failed") /\ UNCHANGED shift
  /\ UNCHANGED <<lastShift, presence, stretch, shownVars, asked>>

\* What a start, a change and an end make of the presence or the stretch.
Becomes(r, gone) ==
  CASE req[r].kind = "start" -> "available" [] req[r].kind = "set" -> req[r].state [] OTHER -> gone
\* SetPresence of a start, an end and a change; a failure ends the change, and what was
\* to be told of a start or an end.
SetPresence(r) ==
  /\ req[r].at = "presence"
  /\ \/ /\ presence' = Becomes(r, "off")
        /\ Go(r, "stretch") /\ UNCHANGED troubles
     \/ /\ Trouble /\ UNCHANGED presence
        /\ Go(r, IF req[r].kind = "set" THEN "failed" ELSE "answered")
  /\ UNCHANGED <<shift, lastShift, stretch, shownVars, asked>>
\* RecordTransition or CloseOpenEvent; a failure is only logged.
SetStretch(r) ==
  /\ req[r].at = "stretch" /\ Go(r, "answered")
  /\ \/ stretch' = Becomes(r, "none") /\ UNCHANGED troubles
     \/ Trouble /\ UNCHANGED stretch
  /\ UNCHANGED <<shift, lastShift, presence, shownVars, asked>>

\* Status of who is on shift: the presence is read (one that cannot be read is available),
\* and a stretch opened for it unless one is open; a failure of that is only logged.
ReadsPresence(r) ==
  /\ Is(r, "reads", {"status"})
  /\ \/ req' = [req EXCEPT ![r].at = "ensure", ![r].state = presence] /\ UNCHANGED troubles
     \/ req' = [req EXCEPT ![r].at = "answered", ![r].state = "available"] /\ Trouble
  /\ UNCHANGED <<rowVars, shownVars, asked>>
\* A mutant of EnsureOpenEvent: no stretch is opened.
EnsureNothing(r) ==
  /\ Is(r, "ensure", {"status"}) /\ Go(r, "answered") /\ UNCHANGED <<rowVars, shownVars, asked, troubles>>
\* The table takes no stretch of who is off.
EnsureOpenEvent(r) ==
  /\ Is(r, "ensure", {"status"}) /\ Go(r, "answered")
  /\ \/ stretch' = (IF stretch = "none" /\ req[r].state # "off" THEN req[r].state ELSE stretch) /\ UNCHANGED troubles
     \/ Trouble /\ UNCHANGED stretch
  /\ UNCHANGED <<shift, lastShift, presence, shownVars, asked>>
\* Current: the open shift, for a poll, and for the answer to a start or an end; the
\* panel asks for it itself when that failed.
ReadsShift(r) ==
  /\ Is(r, "first", {"shift"}) \/ Is(r, "answered", {"start", "end"}) \/ Is(r, "failed", {"start", "end"})
  /\ req' = [req EXCEPT ![r].at = "told", ![r].shift = shift]
  /\ UNCHANGED <<rowVars, shownVars, asked, troubles>>

---------------------------------------------------------------------------
(* The panel is answered. *)

\* A poll, a start or an end says which shift is open.
ShiftTold(r) ==
  /\ req[r].at = "told" /\ active' = (req[r].shift # 0) /\ Rest(r)
  /\ UNCHANGED <<rowVars, shown, asked, troubles>>
\* A change is answered or refused; the presence is polled after either.
ChangeAnswered(r) ==
  /\ req[r].at \in {"answered", "failed"} /\ req[r].kind \in {"set", "sweep"}
  /\ IF req[r].kind = "sweep" THEN Rest(r)
     ELSE req' = [req EXCEPT ![r] = [Idle EXCEPT !.at = "first", !.kind = "status"]]
  /\ UNCHANGED <<rowVars, shownVars, asked, troubles>>
\* A mutant of StatusTold: a poll does not end a pause that is shown.
StatusKept(r) ==
  /\ Is(r, "answered", {"status"}) /\ Rest(r)
  /\ shown' = (IF shown \in Pauses THEN shown ELSE req[r].state)
  /\ UNCHANGED <<rowVars, active, asked, troubles>>
\* What a poll says of the presence is shown, whenever it comes.
StatusTold(r) ==
  /\ Is(r, "answered", {"status"}) /\ Rest(r) /\ shown' = req[r].state
  /\ UNCHANGED <<rowVars, active, asked, troubles>>
\* A request or its answer is lost: the panel keeps what it shows; after a start, an end
\* or a change it reads again.
AnswerLost(r) ==
  /\ req[r].at \in {"first", "answered", "told"} /\ req[r].kind # "sweep" /\ Trouble
  /\ IF req[r].kind \in Polls \/ req[r].at = "told" THEN Rest(r) ELSE Go(r, "failed")
  /\ UNCHANGED <<rowVars, shownVars, asked>>

Serves(r) == FirstRead(r) \/ StartRow(r) \/ EndRow(r) \/ SetPresence(r) \/ SetStretch(r)
             \/ ReadsPresence(r) \/ EnsureOpenEvent(r) \/ ReadsShift(r)
Answered(r) == ShiftTold(r) \/ ChangeAnswered(r) \/ StatusTold(r)
FloorNext ==
  \E r \in Requests :
    \/ PressStart(r) \/ PressEnd(r) \/ SweepFinds(r) \/ \E state \in States : ChangeState(r, state)
    \/ \E kind \in Polls : PanelPolls(r, kind)
    \/ Serves(r) \/ Answered(r) \/ AnswerLost(r)
FloorSpec == FloorInit /\ [][FloorNext]_floorVars

\* The server works and answers, and both polls tick.
FloorFair ==
  /\ \A r \in Requests : WF_floorVars(Serves(r)) /\ WF_floorVars(Answered(r))
  /\ \A kind \in Polls : SF_floorVars(\E r \in Requests : PanelPolls(r, kind))

---------------------------------------------------------------------------
(* Properties. *)

\* A shift ended by the sweep, a change refused after it was shown,
\* answers that cross or are lost: in the end the panel shows the shift and the presence
\* the server has.
ShownIsSo == <>[](active = (shift # 0) /\ shown = (IF shift = 0 THEN "off" ELSE presence))
\* Whoever is on shift and has chosen a state, or never lost it, has a stretch running in
\* the end, whatever failed or crossed: the day's hours go on being counted.  Who is left
\* "off" on shift (BackOnFloor) has none until they choose a state.
TimeIsCounted == <>[](shift # 0 /\ presence # "off" => stretch # "none")

AllIdle == \A r \in Requests : req[r] = Idle
\* "Nothing accrues off shift" (service.go:1162): not so when a change or a poll of the
\* presence read the shift before it ended and goes on after; it runs until the next shift begins.
NothingAccrues == AllIdle /\ shift = 0 /\ troubles = 0 => stretch = "none"
\* Who starts a shift is back on the floor (service.go:154): not so when the end of the
\* shift before is told after the start.
BackOnFloor == AllIdle /\ shift # 0 /\ troubles = 0 => presence # "off"
===============================================================================
