------------------------------- MODULE Softphone -------------------------------
(***************************************************************************)
(* The phone of one panel tab: its line at the phone system, its calls and  *)
(* the call face.                                                           *)
(*                                                                          *)
(* The code is useSoftphone.ts with the components that show it.  What the  *)
(* SIP library does is the environment's: it reports that a registration    *)
(* was taken or refused, that a call rings, is picked up or is over.  A     *)
(* stopped line's calls end later, each by its own event.                   *)
(*                                                                          *)
(* Bounds: Calls are the calls of one run, at most MaxFaults things go      *)
(* wrong on the line, and the phone is switched off or reloaded at most     *)
(* MaxStops times.  What the cards ask about a call is in AfterCall.        *)
(***************************************************************************)
EXTENDS PanelNames, Naturals, Sequences, FiniteSets

CONSTANTS MaxFaults, MaxStops

Tones == {"none", "incoming", "ringback", "busy"}
CallStatuses == {"calling", "ringing", "incoming", "in-call", "held"}
Statuses == CallStatuses \cup {"connecting", "registered", "error", "disabled"}

VARIABLES
  enabled,     \* the shift is on and this tab holds the line
  ua,          \* "none", "credentials", "starting", "running" or "failed"
  connected,   \* the line's socket is open
  accepted,    \* the phone system took the latest registration
  registered,  \* what the library says of it
  asked,       \* a registration is waiting for its answer
  recovering,  \* recover() is under way
  timer,       \* a retry is set
  renewing     \* the line is unregistered to be registered afresh
VARIABLES
  state,       \* each call's state in the library
  dir,         \* "in" or "out"
  session,     \* the call the buttons act on (sessionRef)
  callId,      \* the call the log is written for (callIdRef)
  localEnd,    \* the agent pressed hang up
  opening,     \* calls whose invite() has not returned
  accepting,   \* calls whose accept() has not returned
  holding,     \* <<call, hold?>> whose re-invite has not returned
  left         \* calls of a line that was stopped
VARIABLES
  status, held, tone, lateStop, audio,           \* the call face
  record,                                        \* the call log
  faults, stops                                  \* the bounds

lineVars == <<enabled, ua, connected, accepted, registered, asked, recovering, timer, renewing>>
waits == <<opening, accepting, holding, left>>
callVars == <<state, dir, session, callId, localEnd, waits>>
faceVars == <<status, held, tone, lateStop, audio>>
bounds == <<faults, stops>>
phoneVars == <<lineVars, callVars, faceVars, record, bounds>>

Alive == {c \in Calls : state[c] \notin {"none", "Terminated"}}
Idle == session = NoCall

\* What the screen offers: the keypad on a ready line; on every page a bar while
\* a call is on; answering while it rings; hold and the like while talking.
KeypadShows == status = "registered"
BarShows == status \in CallStatuses
RingButtons == status = "incoming"
TalkButtons == status \in {"in-call", "held"}

\* The remote voice is wired to one call at a time.
Attach(c) == audio' = c
Detach == audio' = NoCall
Fresh == {c \in Calls : state[c] = "none"}
NextCall == CHOOSE c \in Fresh : TRUE

LineTypeOK ==
  /\ ua \in {"none", "credentials", "starting", "running", "failed"}
  /\ enabled \in BOOLEAN /\ connected \in BOOLEAN /\ accepted \in BOOLEAN /\ registered \in BOOLEAN
  /\ asked \in BOOLEAN /\ recovering \in BOOLEAN /\ timer \in BOOLEAN /\ renewing \in BOOLEAN
CallsTypeOK ==
  /\ state \in [Calls -> {"none", "Initial", "Establishing", "Established", "Terminating", "Terminated"}]
  /\ dir \in [Calls -> {"in", "out"}]
  /\ session \in Calls \cup {NoCall} /\ callId \in Calls \cup {NoCall}
  /\ opening \cup accepting \cup left \subseteq Calls
  /\ holding \subseteq Calls \X BOOLEAN
  /\ record \in [Calls -> Seq({"start", "answer", "end"})]
FaceTypeOK ==
  /\ status \in Statuses /\ tone \in Tones /\ audio \in Calls \cup {NoCall}
  /\ localEnd \in BOOLEAN /\ held \in BOOLEAN /\ lateStop \in BOOLEAN
PhoneTypeOK == LineTypeOK /\ CallsTypeOK /\ FaceTypeOK

PhoneInit ==
  /\ enabled = TRUE /\ ua = "credentials" /\ status = "connecting"
  /\ connected = FALSE /\ accepted = FALSE /\ registered = FALSE /\ asked = FALSE
  /\ recovering = FALSE /\ timer = FALSE /\ renewing = FALSE
  /\ state = [c \in Calls |-> "none"] /\ dir = [c \in Calls |-> "in"]
  /\ session = NoCall /\ callId = NoCall /\ localEnd = FALSE
  /\ opening = {} /\ accepting = {} /\ holding = {} /\ left = {}
  /\ held = FALSE /\ tone = "none" /\ lateStop = FALSE /\ audio = NoCall
  /\ record = [c \in Calls |-> <<>>]
  /\ faults = 0 /\ stops = 0

Fault == faults < MaxFaults /\ faults' = faults + 1 /\ UNCHANGED stops
NoFault == UNCHANGED bounds

---------------------------------------------------------------------------
(* The line. *)

\* A mutant of Recovers: a broken socket under an accepted line is not looked at.
RecoversUnaccepted(force) ==
  /\ ua = "running" /\ ~recovering
  /\ force \/ ~accepted \/ ~registered

\* recover(force): one at a time, and nothing to repair on a line that is up.
Recovers(force) ==
  /\ ua = "running" /\ ~recovering
  /\ force \/ ~connected \/ ~accepted \/ ~registered

Recover(force) ==
  IF Recovers(force)
  THEN /\ recovering' = TRUE
       /\ status' = IF Idle /\ status # "error" THEN "connecting" ELSE status
  ELSE UNCHANGED <<recovering, status>>

GotCredentials ==
  /\ ua = "credentials" /\ ua' = "starting"
  /\ UNCHANGED <<enabled, connected, accepted, registered, asked, recovering, timer, renewing,
                 callVars, faceVars, record, bounds>>

\* The credentials, the library or the socket fail: said on screen, not retried.
StartFails ==
  /\ ua \in {"credentials", "starting"} /\ ua' = "failed" /\ status' = "error"
  /\ Fault
  /\ UNCHANGED <<enabled, connected, accepted, registered, asked, recovering, timer, renewing,
                 callVars, held, tone, lateStop, audio, record>>

\* The line is up and asks to be registered; asking may throw, then it is retried.
UaStarted ==
  /\ ua = "starting" /\ ua' = "running" /\ connected' = TRUE
  /\ \/ asked' = TRUE /\ NoFault /\ UNCHANGED timer
     \/ timer' = TRUE /\ Fault /\ UNCHANGED asked
  /\ UNCHANGED <<enabled, accepted, registered, recovering, renewing, callVars, faceVars, record>>

RegisterAccepted ==
  /\ ua = "running" /\ asked /\ connected
  /\ asked' = FALSE /\ accepted' = TRUE /\ registered' = TRUE
  /\ status' = IF Idle THEN "registered" ELSE status
  /\ UNCHANGED <<enabled, ua, connected, recovering, timer, renewing,
                 callVars, held, tone, lateStop, audio, record, bounds>>

\* A no, a refused password or no answer: tried again later.  A registration
\* the library held until now is given up first, which starts recover().
Refused(password) ==
  /\ asked' = FALSE /\ accepted' = FALSE /\ registered' = FALSE /\ timer' = TRUE
  /\ recovering' = (recovering \/ registered)
  /\ status' = IF ~Idle THEN status ELSE IF password THEN "error" ELSE "connecting"
  /\ UNCHANGED <<enabled, ua, connected, renewing,
                 callVars, held, tone, lateStop, audio, record>>

RegisterRefused == ua = "running" /\ asked /\ connected /\ Fault /\ \E p \in BOOLEAN : Refused(p)
RegisterUnanswered == ua = "running" /\ asked /\ ~connected /\ NoFault /\ Refused(FALSE)

\* The socket breaks; the library may or may not hear of it.
LineDrops ==
  /\ ua = "running" /\ connected /\ Fault /\ connected' = FALSE
  /\ \/ recovering' = TRUE /\ ~recovering
        /\ status' = IF Idle /\ status # "error" THEN "connecting" ELSE status
     \/ UNCHANGED <<recovering, status>>
  /\ UNCHANGED <<enabled, ua, accepted, registered, asked, timer, renewing,
                 callVars, held, tone, lateStop, audio, record>>

\* The library gave the registration up: a renewal failed, or the line was
\* unregistered to be registered afresh.
RegistrationLost ==
  /\ ua = "running" /\ registered
  /\ \/ renewing /\ NoFault /\ asked' = TRUE
     \/ ~renewing /\ Fault /\ UNCHANGED asked
  /\ renewing' = FALSE /\ registered' = FALSE /\ accepted' = FALSE
  /\ IF recovering THEN UNCHANGED <<recovering, status>>
     ELSE recovering' = TRUE /\ status' = IF Idle /\ status # "error" THEN "connecting" ELSE status
  /\ UNCHANGED <<enabled, ua, connected, timer, callVars, held, tone, lateStop, audio, record>>

\* recover() reconnects and asks again, or fails and sets the retry.
RecoverDone ==
  /\ ua = "running" /\ recovering /\ recovering' = FALSE
  /\ \/ connected' = TRUE /\ asked' = TRUE /\ NoFault /\ UNCHANGED timer
     \/ timer' = TRUE /\ Fault /\ UNCHANGED <<connected, asked>>
  /\ UNCHANGED <<enabled, ua, accepted, registered, renewing, callVars, faceVars, record>>

RetryFires ==
  /\ ua = "running" /\ timer /\ timer' = FALSE
  /\ Recover(TRUE)
  /\ UNCHANGED <<enabled, ua, connected, accepted, registered, asked, renewing,
                 callVars, held, tone, lateStop, audio, record, bounds>>

\* The look every half minute, and the browser coming online or into view.
Watchdog ==
  /\ Recovers(FALSE) /\ Recover(FALSE)
  /\ UNCHANGED <<enabled, ua, connected, accepted, registered, asked, timer, renewing,
                 callVars, held, tone, lateStop, audio, record, bounds>>

\* The shift ends or another tab takes the line: the effect's clean-up.  Calls
\* of the stopped line end by their own events later.
Disable ==
  /\ enabled /\ stops < MaxStops /\ stops' = stops + 1
  /\ enabled' = FALSE /\ ua' = "none" /\ connected' = FALSE
  /\ accepted' = FALSE /\ registered' = FALSE /\ asked' = FALSE
  /\ recovering' = FALSE /\ timer' = FALSE /\ renewing' = FALSE
  /\ session' = NoCall /\ left' = left \cup Alive
  /\ status' = "disabled" /\ tone' = "none"
  /\ UNCHANGED <<state, dir, callId, localEnd, opening, accepting, holding,
                 held, lateStop, audio, record, faults>>

Enable ==
  /\ ~enabled /\ enabled' = TRUE /\ ua' = "credentials" /\ status' = "connecting"
  /\ UNCHANGED <<connected, accepted, registered, asked, recovering, timer, renewing,
                 callVars, held, tone, lateStop, audio, record, bounds>>

---------------------------------------------------------------------------
(* The calls.  The log is written for callId, whichever call the event is of. *)

Log(phase) == record' = IF callId = NoCall THEN record ELSE [record EXCEPT ![callId] = Append(@, phase)]

\* A new call takes the phone over; a feature code has no call id.
Begin(c, d, s, logged) ==
  /\ state' = [state EXCEPT ![c] = s] /\ dir' = [dir EXCEPT ![c] = d]
  /\ session' = c /\ localEnd' = FALSE
  /\ callId' = IF logged THEN c ELSE NoCall
  /\ record' = IF logged THEN [record EXCEPT ![c] = <<"start">>] ELSE record

\* The phone system rings a line that is registered there, be it until it hears
\* otherwise; a call is taken only while none is on (the library is told to
\* reject it otherwise, which changes nothing).
Invite ==
  /\ ua = "running" /\ connected /\ registered /\ Idle /\ Fresh # {}
  /\ Begin(NextCall, "in", "Initial", TRUE)
  /\ status' = "incoming" /\ tone' = "incoming"
  /\ UNCHANGED <<lineVars, waits, held, lateStop, audio, bounds>>

\* Dialling asks for a line the phone system accepted, as the screen says it.
MayCall == Idle /\ ua = "running" /\ KeypadShows

Call(feature) ==
  /\ MayCall /\ Fresh # {}
  /\ Begin(NextCall, "out", "Initial", ~feature)
  /\ status' = "calling" /\ opening' = opening \cup {NextCall}
  /\ UNCHANGED <<lineVars, accepting, holding, left, held, tone, lateStop, audio, bounds>>

\* The microphone is open and the call goes out.
InviteSent(c) ==
  /\ c \in opening /\ state[c] = "Initial"
  /\ opening' = opening \ {c} /\ state' = [state EXCEPT ![c] = "Establishing"]
  /\ UNCHANGED <<lineVars, dir, session, callId, localEnd, accepting, holding, left,
                 faceVars, record, bounds>>

\* A mutant of EndCall: the call id stays for the next event.
EndCallKeepsId(c) ==
  /\ state' = [state EXCEPT ![c] = "Terminated"]
  /\ Log("end")
  /\ callId' = callId /\ session' = NoCall
  /\ status' = "registered" /\ held' = FALSE /\ Detach
  /\ UNCHANGED <<dir, left>>

\* The session's Terminated handler, as the library reports that c is over.
EndCall(c) ==
  /\ state' = [state EXCEPT ![c] = "Terminated"]
  /\ Log("end")
  /\ callId' = NoCall /\ session' = NoCall
  /\ status' = "registered" /\ held' = FALSE /\ Detach
  /\ UNCHANGED <<dir, left>>

\* The other side hangs up, cancels, or a hang-up of the agent is confirmed;
\* the calls of a stopped line end too.
Ended(c) ==
  /\ c \in Alive /\ (c \in left \/ state[c] # "Initial" \/ dir[c] = "in")
  /\ EndCall(c) /\ tone' = "none"
  /\ UNCHANGED <<lineVars, localEnd, opening, accepting, holding, lateStop, bounds>>

\* invite() fails: no microphone, or the call was cancelled before it went out.
\* Its catch clears the phone, whichever call is on by then.
InviteThrows(c) ==
  /\ c \in opening /\ opening' = opening \ {c}
  /\ IF state[c] = "Terminated"
     THEN /\ session' = NoCall /\ status' = "registered"
          /\ UNCHANGED <<state, dir, callId, left, held, audio, record>>
     ELSE EndCall(c)
  /\ tone' = "none"
  /\ UNCHANGED <<lineVars, localEnd, accepting, holding, lateStop, bounds>>

\* Ringing at the other side, or early media of the phone system.
Progress(c, early) ==
  /\ c \notin left /\ dir[c] = "out" /\ state[c] = "Establishing"
  /\ status' = "ringing"
  /\ tone' = IF early THEN "none" ELSE "ringback"
  /\ IF early THEN Attach(c) ELSE UNCHANGED audio
  /\ UNCHANGED <<lineVars, callVars, held, lateStop, record, bounds>>

\* A refusal reaches both onReject and the Terminated handler, in the library's
\* order: the first to come writes the end, the last one decides the tone.
RefusedByPeer(c) ==
  /\ c \notin left /\ dir[c] = "out" /\ state[c] = "Establishing"
  /\ EndCall(c)
  /\ tone' \in {"none", "busy"} /\ lateStop' = TRUE
  /\ UNCHANGED <<lineVars, localEnd, opening, accepting, holding, bounds>>

\* onReject silences its tone 2.5 seconds later, whatever sounds by then.
LateStop ==
  /\ lateStop /\ lateStop' = FALSE /\ tone' = "none"
  /\ UNCHANGED <<lineVars, callVars, status, held, audio, record, bounds>>

\* The session's Established handler.
Established(c) ==
  /\ state' = [state EXCEPT ![c] = "Established"]
  /\ status' = "in-call" /\ held' = FALSE /\ tone' = "none" /\ Attach(c)
  /\ Log("answer")
  /\ UNCHANGED <<lineVars, dir, session, callId, localEnd, opening, holding, left, lateStop, bounds>>

PickedUp(c) ==
  /\ c \notin left /\ dir[c] = "out" /\ state[c] = "Establishing"
  /\ Established(c) /\ UNCHANGED accepting

\* The button Cevapla: accepting needs the microphone.
MayAnswer == session # NoCall /\ RingButtons /\ dir[session] = "in"
Answer ==
  /\ MayAnswer /\ state[session] = "Initial"
  /\ state' = [state EXCEPT ![session] = "Establishing"] /\ accepting' = accepting \cup {session}
  /\ tone' = "none"
  /\ UNCHANGED <<lineVars, dir, session, callId, localEnd, opening, holding, left,
                 status, held, lateStop, audio, record, bounds>>

AcceptDone(c) ==
  /\ c \in accepting \ left /\ state[c] = "Establishing"
  /\ Established(c) /\ accepting' = accepting \ {c}

\* No microphone, or the caller gave up: said on screen; a call the library
\* puts back to ringing rings again.
AcceptFails(c) ==
  /\ c \in accepting /\ accepting' = accepting \ {c}
  /\ \/ UNCHANGED <<state, tone>>
     \/ /\ state[c] = "Establishing" /\ c \notin left
        /\ state' = [state EXCEPT ![c] = "Initial"] /\ tone' = "incoming"
  /\ UNCHANGED <<lineVars, dir, session, callId, localEnd, opening, holding, left,
                 status, held, lateStop, audio, record, bounds>>

\* An offer without DTLS: the call is declined and the line, no longer held for
\* accepted, is registered afresh.
AcceptFailsDtls(c) ==
  /\ c \in accepting /\ accepting' = accepting \ {c}
  /\ IF c \in Alive
     THEN EndCall(c) /\ tone' = "none"
     ELSE /\ session' = NoCall /\ status' = "registered"
          /\ UNCHANGED <<state, dir, callId, left, held, tone, audio, record>>
  /\ renewing' = (renewing \/ (ua = "running" /\ registered))
  /\ asked' = (asked \/ (ua = "running" /\ ~registered))
  /\ accepted' = FALSE
  /\ UNCHANGED <<enabled, ua, connected, registered, recovering, timer,
                 localEnd, opening, holding, lateStop, bounds>>

\* Hanging up: what it asks of the library depends on the call's state, and
\* while an answer is being opened it asks for nothing.
Hangup ==
  /\ session # NoCall /\ BarShows /\ localEnd' = TRUE /\ tone' = "none"
  /\ IF state[session] = "Initial"
     THEN EndCall(session)
     ELSE /\ state' = IF state[session] = "Established" \/ (dir[session] = "out" /\ state[session] = "Establishing")
                      THEN [state EXCEPT ![session] = "Terminating"] ELSE state
          /\ UNCHANGED <<dir, session, callId, left, status, held, audio, record>>
  /\ UNCHANGED <<lineVars, opening, accepting, holding, lateStop, bounds>>

\* Holding renegotiates the call; the library does not send it for a call that
\* is over by then, and the face changes only once it was sent.
ToggleHold ==
  /\ session # NoCall /\ state[session] = "Established" /\ TalkButtons
  /\ holding' = holding \cup {<<session, ~held>>}
  /\ UNCHANGED <<lineVars, state, dir, session, callId, localEnd, opening, accepting, left,
                 faceVars, record, bounds>>

\* A mutant of HoldSent: the face changes whatever became of the call.
HoldSentAnyway(h) == TRUE
HoldSent(h) == state[h[1]] = "Established"
HoldReturns(h) ==
  /\ h \in holding /\ holding' = holding \ {h}
  /\ IF HoldSent(h)
     THEN held' = h[2] /\ status' = IF h[2] THEN "held" ELSE "in-call"
     ELSE UNCHANGED <<held, status>>
  /\ UNCHANGED <<lineVars, state, dir, session, callId, localEnd, opening, accepting, left,
                 tone, lateStop, audio, record, bounds>>

\* The page goes away: a call on its session is reported by a beacon, the SIP
\* session goes with the page, and the wrap-ups wait in the tab's storage.
Reload ==
  /\ stops < MaxStops /\ stops' = stops + 1
  /\ IF session = NoCall THEN UNCHANGED record ELSE Log("end")
  /\ state' = [c \in Calls |-> IF c \in Alive THEN "Terminated" ELSE state[c]]
  /\ ua' = IF enabled THEN "credentials" ELSE "none"
  /\ status' = IF enabled THEN "connecting" ELSE "disabled"
  /\ connected' = FALSE /\ accepted' = FALSE /\ registered' = FALSE /\ asked' = FALSE
  /\ recovering' = FALSE /\ timer' = FALSE /\ renewing' = FALSE
  /\ session' = NoCall /\ callId' = NoCall /\ localEnd' = FALSE
  /\ opening' = {} /\ accepting' = {} /\ holding' = {} /\ left' = {}
  /\ held' = FALSE /\ tone' = "none" /\ lateStop' = FALSE /\ audio' = NoCall
  /\ UNCHANGED <<enabled, dir, faults>>

Line ==
  \/ GotCredentials \/ StartFails \/ UaStarted
  \/ RegisterAccepted \/ RegisterRefused \/ RegisterUnanswered
  \/ LineDrops \/ RegistrationLost \/ RecoverDone \/ RetryFires \/ Watchdog
  \/ Disable \/ Enable \/ Reload

CallSteps ==
  \/ Invite \/ LateStop \/ Answer \/ Hangup \/ ToggleHold
  \/ \E feature \in BOOLEAN : Call(feature)
  \/ \E c \in Calls :
       \/ InviteSent(c) \/ InviteThrows(c) \/ RefusedByPeer(c) \/ PickedUp(c)
       \/ AcceptDone(c) \/ AcceptFails(c) \/ AcceptFailsDtls(c)
       \/ \E early \in BOOLEAN : Progress(c, early)
       \/ Ended(c)
  \/ \E h \in holding : HoldReturns(h)

PhoneNext == Line \/ CallSteps
PhoneSpec == PhoneInit /\ [][PhoneNext]_phoneVars

\* Answers of the network and the phone system come, timers fire, and the
\* agent need do nothing.
LineFair ==
  /\ WF_phoneVars(GotCredentials) /\ WF_phoneVars(UaStarted)
  /\ WF_phoneVars(RegisterAccepted) /\ WF_phoneVars(RegisterUnanswered)
  /\ WF_phoneVars(RecoverDone) /\ WF_phoneVars(RetryFires) /\ WF_phoneVars(Watchdog)

---------------------------------------------------------------------------
(* Properties. *)

\* The call face, a ringing tone and the remote voice are there only while some
\* call is: no await that returns after a call's end (a hold, an answer, a
\* progress report) may leave the phone ringing or in a call nobody is in.
CallFaceHasCall ==
  (status \in CallStatuses \/ tone \in {"incoming", "ringback"} \/ audio # NoCall) => Alive # {}

\* Each call is opened in the call log once and closed at most once, and nothing is
\* told of it after its close, whichever of hang up, refusal, failure, page close
\* and line stop ends it, and however late.
Records == INSTANCE CallRecord WITH Calls <- Calls, record <- record
CallRecords == Records!Spec

\* A started line that broke, silently or not, or whose registration was lost
\* or refused, is up, accepted and shown as such again once faults stop.
LineComesBack ==
  (ua = "running" /\ (~connected \/ ~accepted \/ status = "connecting"))
    ~> (ua # "running" \/ (connected /\ accepted /\ status # "connecting"))

\* The comment of useSoftphone: the screen says "ready" only while the phone
\* system has accepted the latest registration.
ReadyIsAccepted == status = "registered" => accepted
===============================================================================
