------------------------------- MODULE MCLive -------------------------------
(***************************************************************************)
(* Small instances, for TLC, of two parts of the panel that must come to    *)
(* rest by themselves: the phone's line and the session of a tab that       *)
(* starts.  They share no state, so a behaviour moves one of them, `part`,  *)
(* and leaves the other as it began.                                        *)
(***************************************************************************)
EXTENDS Softphone, Session

VARIABLE part

Init ==
  /\ part \in {"line", "session"}
  /\ PhoneInit
  /\ SessionInit /\ (part = "session" \/ \A i \in DOMAIN whose : whose[i] = CHOOSE u \in Users : TRUE)

Next ==
  \/ part = "line" /\ PhoneNext /\ UNCHANGED <<part, sessionVars>>
  \/ part = "session" /\ SessionNext /\ UNCHANGED <<part, phoneVars>>

\* LineFair and SessionFair, each for the behaviours that move its part.
Fairness ==
  /\ WF_phoneVars(part = "line" /\ GotCredentials) /\ WF_phoneVars(part = "line" /\ UaStarted)
  /\ WF_phoneVars(part = "line" /\ RegisterAccepted) /\ WF_phoneVars(part = "line" /\ RegisterUnanswered)
  /\ WF_phoneVars(part = "line" /\ RecoverDone) /\ WF_phoneVars(part = "line" /\ RetryFires)
  /\ WF_phoneVars(part = "line" /\ Watchdog)
  /\ WF_sessionVars(part = "session" /\ RenewedLongAgo)
  /\ \A t \in Tabs :
       /\ \A again \in BOOLEAN : SF_sessionVars(part = "session" /\ req[t].again = again /\ Serve(t))
       /\ WF_sessionVars(part = "session" /\ AnswerRefused(t)) /\ SF_sessionVars(part = "session" /\ Renew(t))
       /\ SF_sessionVars(part = "session" /\ TakeTurn(t)) /\ WF_sessionVars(part = "session" /\ Renewed(t))
       /\ WF_sessionVars(part = "session" /\ SessionEnded(t))
       /\ WF_sessionVars(part = "session" /\ KnowsWho(t)) /\ WF_sessionVars(part = "session" /\ InDoubt(t))

FairSpec == Init /\ [][Next]_<<part, phoneVars, sessionVars>> /\ Fairness
===============================================================================
