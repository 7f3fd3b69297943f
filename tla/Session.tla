-------------------------------- MODULE Session --------------------------------
(***************************************************************************)
(* Who is signed in: the browser's session cookies and storage, the tabs    *)
(* that share them, and what the server says of the session.                *)
(*                                                                          *)
(* A session is a number; whose tells its user.  A tab has one request      *)
(* under way at a time: who am I (as it starts and now and then) or the end *)
(* of a call of the person it shows.  The server answers with the cookie    *)
(* the request was sent with, and its answer may arrive late.               *)
(*                                                                          *)
(* Bound: MaxSessions sign-ins.  The server or the network may be down       *)
(* whenever it likes, and access tokens run out without end.                *)
(***************************************************************************)
EXTENDS PanelNames, Naturals, Sequences, FiniteSets

CONSTANTS Users, MaxSessions

VARIABLES
  cookie, fresh,      \* the browser's session (0 for none), its access token still works
  lately,             \* a tab renewed it within the last ten seconds
  whose, over         \* each session's user; the sessions the server ended
VARIABLES
  stage,              \* "closed", "loading", "waiting" or "open"
  shown,              \* the session whose user the tab shows, 0 for nobody
  req,                \* the tab's request
  renewal,            \* the tab's renewal: "none", "queued", "asking" or its outcome
  leaving,            \* it is signing out
  told                \* the tab has an unread "signed-out"
VARIABLES
  caller,             \* the session each ended call was made in, 0 before
  stored,             \* ends of calls in the browser's storage
  strayed, logged     \* sent in another person's session; at the server

server == <<whose, over>>
browser == <<cookie, fresh, lately>>
callEnds == <<caller, stored, strayed, logged>>
sessionVars == <<browser, server, stage, shown, req, renewal, leaving, told, callEnds>>

Sessions == 1 .. MaxSessions
Idling == [kind |-> "none", at |-> "idle", with |-> 0, call |-> NoCall, again |-> FALSE]
Kinds == {"none", "start", "recheck", "end"}
Phases == {"idle", "sent", "ok", "refused", "failed", "notOurs", "renewing"}
Working(s) == s # 0 /\ s \notin over
SameUser(s, r) == s # 0 /\ r # 0 /\ whose[s] = whose[r]

SessionTypeOK ==
  /\ cookie \in 0 .. MaxSessions /\ {fresh, lately} \subseteq BOOLEAN
  /\ Len(whose) <= MaxSessions /\ \A s \in DOMAIN whose : whose[s] \in Users
  /\ over \subseteq DOMAIN whose
  /\ stage \in [Tabs -> {"closed", "loading", "waiting", "open"}]
  /\ shown \in [Tabs -> 0 .. MaxSessions]
  /\ req \in [Tabs -> [kind : Kinds, at : Phases, with : 0 .. MaxSessions, call : Calls \cup {NoCall}, again : BOOLEAN]]
  /\ renewal \in [Tabs -> {"none", "queued", "asking", "renewed", "ended", "unknown"}]
  /\ leaving \in [Tabs -> BOOLEAN] /\ told \in [Tabs -> BOOLEAN]
  /\ stored \cup strayed \cup logged \subseteq Calls

\* Somebody signed in earlier; no tab is open.
SessionInit ==
  /\ cookie = 1 /\ fresh = TRUE /\ lately = FALSE
  /\ whose \in [{1} -> Users] /\ over = {}
  /\ stage = [t \in Tabs |-> "closed"] /\ shown = [t \in Tabs |-> 0]
  /\ req = [t \in Tabs |-> Idling] /\ renewal = [t \in Tabs |-> "none"]
  /\ leaving = [t \in Tabs |-> FALSE] /\ told = [t \in Tabs |-> FALSE]
  /\ caller = [c \in Calls |-> 0] /\ stored = {} /\ strayed = {} /\ logged = {}

---------------------------------------------------------------------------
(* A request on its way: sent with the cookie of the moment, answered by the *)
(* server, and its answer handled by the tab.                               *)

Sent(t, kind, c, again) ==
  req' = [req EXCEPT ![t] = [kind |-> kind, at |-> "sent", call |-> c, again |-> again,
                             with |-> IF fresh THEN cookie ELSE 0]]

\* What a call's end is sent with is known only as it is sent.
Strays(t, c, own) ==
  LET s == req'[t].with IN strayed' = IF s = 0 \/ SameUser(s, own) THEN strayed ELSE strayed \cup {c}

Serve(t) ==
  LET r == req[t] IN
  /\ r.at = "sent"
  /\ \/ /\ ~Working(r.with)
        /\ req' = [req EXCEPT ![t].at = "refused"] /\ UNCHANGED logged
     \/ /\ Working(r.with) /\ (r.kind = "end" => SameUser(r.with, caller[r.call]))
        /\ req' = [req EXCEPT ![t].at = "ok"]
        /\ logged' = IF r.kind = "end" THEN logged \cup {r.call} ELSE logged
     \/ /\ Working(r.with) /\ r.kind = "end" /\ ~SameUser(r.with, caller[r.call])
        /\ req' = [req EXCEPT ![t].at = "notOurs"] /\ UNCHANGED logged
  /\ UNCHANGED <<browser, whose, over, stage, shown, renewal, leaving, told, caller, stored, strayed>>

\* No answer, or one that says nothing of the session (a 5xx, a 429).
NoAnswer(t) ==
  /\ req[t].at = "sent" /\ req' = [req EXCEPT ![t].at = "failed"]
  /\ UNCHANGED <<browser, server, stage, shown, renewal, leaving, told, callEnds>>

\* A refused request is sent once more after a renewal, and no third time.
AnswerRefused(t) ==
  /\ req[t].at = "refused" /\ ~req[t].again
  /\ req' = [req EXCEPT ![t].at = "renewing"] /\ renewal' = [renewal EXCEPT ![t] = "queued"]
  /\ UNCHANGED <<browser, server, stage, shown, leaving, told, callEnds>>

\* The tabs take turns; one that comes after another's renewal only asks again.
TakeTurn(t) ==
  /\ renewal[t] = "queued" /\ \A u \in Tabs : renewal[u] # "asking"
  /\ renewal' = [renewal EXCEPT ![t] = IF lately THEN "renewed" ELSE "asking"]
  /\ UNCHANGED <<browser, server, stage, shown, req, leaving, told, callEnds>>

\* A mutant of RenewalFails: an answer that says nothing ends the session.
RenewalFailsEnding(t) == renewal' = [renewal EXCEPT ![t] = "ended"]

\* Tried a few times in vain: nobody knows whether the session is over.
RenewalFails(t) == renewal' = [renewal EXCEPT ![t] = "unknown"]

RenewalLost(t) ==
  /\ renewal[t] = "asking" /\ RenewalFails(t)
  /\ UNCHANGED <<browser, server, stage, shown, req, leaving, told, callEnds>>

Renew(t) ==
  /\ renewal[t] = "asking"
  /\ \/ /\ Working(cookie) /\ fresh' = TRUE /\ lately' = TRUE /\ UNCHANGED cookie
        /\ renewal' = [renewal EXCEPT ![t] = "renewed"]
     \/ /\ ~Working(cookie) /\ cookie' = 0 /\ fresh' = FALSE /\ UNCHANGED lately
        /\ renewal' = [renewal EXCEPT ![t] = "ended"]
  /\ UNCHANGED <<whose, over, stage, shown, req, leaving, told, callEnds>>

RenewedLongAgo ==
  /\ lately /\ lately' = FALSE
  /\ UNCHANGED <<cookie, fresh, server, stage, shown, req, renewal, leaving, told, callEnds>>

Renewed(t) ==
  /\ renewal[t] = "renewed" /\ renewal' = [renewal EXCEPT ![t] = "none"]
  /\ Sent(t, req[t].kind, req[t].call, TRUE)
  /\ IF req[t].kind = "end" THEN Strays(t, req[t].call, caller[req[t].call]) ELSE UNCHANGED strayed
  /\ UNCHANGED <<browser, server, stage, shown, leaving, told, caller, stored, logged>>

\* endSession: the tab shows the sign-in page and everybody's data is wiped.
SignInPage(t) ==
  /\ shown' = [shown EXCEPT ![t] = 0] /\ stored' = {}
  /\ stage' = [stage EXCEPT ![t] = "open"]

SessionEnded(t) ==
  /\ renewal[t] = "ended" \/ (req[t].at = "refused" /\ req[t].again)
  /\ renewal' = [renewal EXCEPT ![t] = "none"] /\ req' = [req EXCEPT ![t] = Idling]
  /\ SignInPage(t)
  /\ UNCHANGED <<browser, server, leaving, told, caller, strayed, logged>>

---------------------------------------------------------------------------
(* Starting, and asking now and then who is signed in. *)

OpenTab(t) ==
  /\ stage[t] = "closed" /\ stage' = [stage EXCEPT ![t] = "loading"] /\ Sent(t, "start", NoCall, FALSE)
  /\ UNCHANGED <<browser, server, shown, renewal, leaving, told, callEnds>>

CloseTab(t) ==
  /\ stage[t] # "closed" /\ stage' = [stage EXCEPT ![t] = "closed"] /\ shown' = [shown EXCEPT ![t] = 0]
  /\ req' = [req EXCEPT ![t] = Idling] /\ renewal' = [renewal EXCEPT ![t] = "none"]
  /\ leaving' = [leaving EXCEPT ![t] = FALSE] /\ told' = [told EXCEPT ![t] = FALSE]
  /\ UNCHANGED <<browser, server, callEnds>>

Recheck(t) ==
  /\ stage[t] = "open" /\ shown[t] # 0 /\ req[t] = Idling
  /\ Sent(t, "recheck", NoCall, FALSE)
  /\ UNCHANGED <<browser, server, stage, shown, renewal, leaving, told, callEnds>>

KnowsWho(t) ==
  /\ req[t].at = "ok" /\ req[t].kind \in {"start", "recheck"} /\ req' = [req EXCEPT ![t] = Idling]
  /\ stage' = [stage EXCEPT ![t] = "open"]
  /\ shown' = [shown EXCEPT ![t] = IF req[t].kind = "recheck" /\ @ = 0 THEN @ ELSE req[t].with]
  /\ UNCHANGED <<browser, server, renewal, leaving, told, callEnds>>

\* A mutant of StaysInDoubt: a tab that could not find out as it started gives up.
StaysInDoubtForGood(t) ==
  /\ req' = [req EXCEPT ![t] = Idling]
  /\ stage' = IF req[t].kind = "start" THEN [stage EXCEPT ![t] = "waiting"] ELSE stage

\* No answer: as it starts a tab waits and asks again, later it keeps its user.
StaysInDoubt(t) ==
  IF req[t].kind = "start"
  THEN Sent(t, "start", NoCall, FALSE) /\ stage' = [stage EXCEPT ![t] = "waiting"]
  ELSE req' = [req EXCEPT ![t] = Idling] /\ UNCHANGED stage

InDoubt(t) ==
  /\ req[t].kind \in {"start", "recheck"}
  /\ req[t].at = "failed" \/ renewal[t] = "unknown"
  /\ renewal' = [renewal EXCEPT ![t] = "none"] /\ StaysInDoubt(t)
  /\ UNCHANGED <<browser, server, shown, leaving, told, callEnds>>

---------------------------------------------------------------------------
(* The sign-in page; its steps are in SignIn. *)

\* finish: the last step's answer set the cookies of a new session.
SignedIn(t) ==
  /\ stage[t] = "open" /\ shown[t] = 0 /\ Len(whose) < MaxSessions
  /\ \E u \in Users : whose' = Append(whose, u)
  /\ cookie' = Len(whose') /\ fresh' = TRUE /\ UNCHANGED lately
  /\ shown' = [shown EXCEPT ![t] = Len(whose')]
  /\ UNCHANGED <<over, stage, req, renewal, leaving, told, callEnds>>

---------------------------------------------------------------------------
(* Signing out. *)

\* The ends still stored get three seconds (RetryEnd, EndDelivered), then the
\* sign-out is sent.
Logout(t) ==
  /\ stage[t] = "open" /\ shown[t] # 0 /\ ~leaving[t]
  /\ leaving' = [leaving EXCEPT ![t] = TRUE]
  /\ UNCHANGED <<browser, server, stage, shown, req, renewal, told, callEnds>>

\* Only a sign-out the server took clears this browser; the other tabs are told.
SignedOut(t) ==
  /\ leaving[t] /\ leaving' = [leaving EXCEPT ![t] = FALSE]
  /\ over' = over \cup ({cookie} \ {0}) /\ cookie' = 0 /\ fresh' = FALSE
  /\ SignInPage(t)
  /\ told' = [u \in Tabs |-> told[u] \/ (u # t /\ stage[u] # "closed")]
  /\ UNCHANGED <<lately, whose, req, renewal, caller, strayed, logged>>

\* Three tries in vain: the session is still open, so the tab stays signed in.
SignOutFails(t) ==
  /\ leaving[t] /\ leaving' = [leaving EXCEPT ![t] = FALSE]
  /\ UNCHANGED <<browser, whose, over, stage, shown, req, renewal, told, callEnds>>

Told(t) ==
  /\ told[t] /\ told' = [told EXCEPT ![t] = FALSE] /\ SignInPage(t)
  /\ UNCHANGED <<browser, server, req, renewal, leaving, caller, strayed, logged>>

---------------------------------------------------------------------------
(* Ends of calls: kept under their person's name until they are at the server. *)

\* A mutant of Remember: what is sent at once is not stored.
RememberNothing(c) == UNCHANGED stored

Remember(c) == stored' = stored \cup {c}

SendEnd(t, c, own) == Sent(t, "end", c, FALSE) /\ Strays(t, c, own)

CallOver(t) ==
  /\ stage[t] = "open" /\ shown[t] # 0 /\ req[t] = Idling
  /\ \E c \in Calls :
       /\ caller[c] = 0 /\ caller' = [caller EXCEPT ![c] = shown[t]]
       /\ Remember(c) /\ SendEnd(t, c, shown[t])
  /\ UNCHANGED <<browser, server, stage, shown, renewal, leaving, told, logged>>

\* Retried after a pause, or by the next page the same person opens.
RetryEnd(t) ==
  /\ stage[t] = "open" /\ req[t] = Idling
  /\ \E c \in stored : SameUser(shown[t], caller[c]) /\ SendEnd(t, c, caller[c])
  /\ UNCHANGED <<browser, server, stage, shown, renewal, leaving, told, caller, stored, logged>>

EndDelivered(t) ==
  /\ req[t].kind = "end" /\ req[t].at \in {"ok", "notOurs"} /\ req' = [req EXCEPT ![t] = Idling]
  /\ stored' = stored \ {req[t].call}
  /\ UNCHANGED <<browser, server, stage, shown, renewal, leaving, told, caller, strayed, logged>>

EndFailed(t) ==
  /\ req[t].kind = "end" /\ (req[t].at = "failed" \/ renewal[t] = "unknown")
  /\ req' = [req EXCEPT ![t] = Idling] /\ renewal' = [renewal EXCEPT ![t] = "none"]
  /\ UNCHANGED <<browser, server, stage, shown, leaving, told, callEnds>>

---------------------------------------------------------------------------
(* What happens to a session: its access token runs out, a quarter of an     *)
(* hour after the last renewal and never between a renewal and the request   *)
(* it lets through, and the server ends it (a week is over, the person was   *)
(* deactivated, or left everywhere).                                        *)

AccessExpires ==
  /\ fresh /\ ~lately /\ fresh' = FALSE
  /\ \A t \in Tabs : renewal[t] # "renewed"
  /\ UNCHANGED <<cookie, lately, whose, over, stage, shown, req, renewal, leaving, told, callEnds>>

EndedByServer ==
  /\ Working(cookie) /\ over' = over \cup {cookie}
  /\ UNCHANGED <<browser, whose, stage, shown, req, renewal, leaving, told, callEnds>>

SessionNext ==
  \/ RenewedLongAgo \/ AccessExpires \/ EndedByServer
  \/ \E t \in Tabs :
       \/ Serve(t) \/ NoAnswer(t) \/ AnswerRefused(t) \/ TakeTurn(t) \/ Renew(t) \/ RenewalLost(t) \/ Renewed(t) \/ SessionEnded(t)
       \/ OpenTab(t) \/ CloseTab(t) \/ Recheck(t) \/ KnowsWho(t) \/ InDoubt(t)
       \/ SignedIn(t) \/ Logout(t) \/ SignedOut(t) \/ SignOutFails(t) \/ Told(t)
       \/ CallOver(t) \/ RetryEnd(t) \/ EndDelivered(t) \/ EndFailed(t)
SessionSpec == SessionInit /\ [][SessionNext]_sessionVars

\* The server is not down for good, neither for first nor for second tries, time
\* passes, and a tab handles what it is told.
SessionFair ==
  /\ WF_sessionVars(RenewedLongAgo)
  /\ \A t \in Tabs :
    /\ \A again \in BOOLEAN : SF_sessionVars(req[t].again = again /\ Serve(t))
    /\ WF_sessionVars(AnswerRefused(t)) /\ SF_sessionVars(Renew(t))
    /\ SF_sessionVars(TakeTurn(t)) /\ WF_sessionVars(Renewed(t)) /\ WF_sessionVars(SessionEnded(t))
    /\ WF_sessionVars(KnowsWho(t)) /\ WF_sessionVars(InDoubt(t))

---------------------------------------------------------------------------
(* Properties. *)

\* A deploy or a network blip signs nobody out: while the server ended no
\* session, no open tab drops the person it shows.
DropsNobody == \A t \in Tabs : over = {} /\ shown[t] # 0 /\ stage'[t] # "closed" /\ over' = {} => shown'[t] # 0
NobodyDropped == [][DropsNobody]_sessionVars

\* The end of a call survives a server that is down: until some session is
\* over, it is stored or at the server.
EndsAreKept == over = {} => \A c \in Calls : caller[c] # 0 => c \in stored \cup logged

\* A tab that starts finds out who is signed in, however long the server is away.
EveryTabStarts == \A t \in Tabs : stage[t] \in {"loading", "waiting"} ~> stage[t] \in {"open", "closed"}

\* The comment of callLogQueue.ts: a call's end is sent only in its person's
\* session, never with the wrong one.
RightSession == strayed = {}
===============================================================================
