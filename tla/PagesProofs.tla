----------------------------- MODULE PagesProofs -----------------------------
(* Proofs about pages of the panel, for every instance: Session, SignIn,    *)
(* Inbox, Forms and Lists.                                                  *)
EXTENDS Session, SignIn, Inbox, Forms, Lists, SequenceTheorems, FiniteSetTheorems, TLAPS

-----------------------------------------------------------------------------
(* What holds in every state.                                              *)

Requests == [kind : Kinds, at : Phases, with : Nat, call : Calls \cup {NoCall}, again : BOOLEAN]
Renewals == {"none", "queued", "asking", "renewed", "ended", "unknown"}

\* Every variable the argument is about keeps its type.
SessionTypes ==
    /\ cookie \in Nat /\ fresh \in BOOLEAN /\ lately \in BOOLEAN
    /\ whose \in Seq(Users)
    /\ stage \in [Tabs -> {"closed", "loading", "waiting", "open"}]
    /\ shown \in [Tabs -> Nat] /\ req \in [Tabs -> Requests] /\ renewal \in [Tabs -> Renewals]
    /\ told \in [Tabs -> BOOLEAN] /\ caller \in [Calls -> Nat]
    /\ stored \subseteq Calls

\* While the server ended no session there is the first one alone, the
\* browser has its cookie, and an access token that was just renewed works.
OneSession ==
    /\ cookie = 1
    /\ lately => fresh
    /\ \A t \in Tabs : renewal[t] # "ended" /\ (renewal[t] = "renewed" => fresh)

\* A tab that is open shows its person, and none was told to leave.
TabIsSignedIn(t) ==
    /\ shown[t] \in {0, 1} /\ (stage[t] = "open" => shown[t] = 1)
    /\ ~told[t]

\* A request whose token ran out is refused at most once: the second try is
\* sent with the renewed one.
RequestIsOurs(r) ==
    /\ r.with \in {0, 1} /\ (r.again => r.with = 1)
    /\ r.at = "refused" => r.with = 0
    /\ r.at = "ok" => r.with = 1
    /\ r.at # "notOurs"
    /\ r.kind = "end" => /\ r.call \in Calls /\ caller[r.call] = 1
                         /\ r.at = "ok" => r.call \in logged

NothingOver ==
    /\ OneSession
    /\ \A t \in Tabs : TabIsSignedIn(t) /\ RequestIsOurs(req[t])
    /\ \A t \in Tabs : req[t].kind = "recheck" => shown[t] = 1
    /\ \A c \in Calls : caller[c] \in {0, 1}
    /\ \A c \in Calls : caller[c] # 0 => c \in stored \cup logged

AllGoesOn == over = {} => NothingOver

LEMMA TypesInit == ASSUME SessionInit PROVE SessionTypes
<1>1. whose \in Seq(Users)
  <2>1. {1} = 1 .. 1 OBVIOUS
  <2>2. whose \in [1 .. 1 -> Users] BY <2>1 DEF SessionInit
  <2> QED BY <2>2, SeqDef
<1> QED BY <1>1 DEF SessionInit, SessionTypes, Idling, Requests, Kinds, Phases, Renewals

LEMMA AllGoesOnInit == ASSUME SessionInit PROVE AllGoesOn
BY DEF SessionInit, AllGoesOn, NothingOver, OneSession, TabIsSignedIn, RequestIsOurs, Idling

USE DEF browser, server, callEnds

-----------------------------------------------------------------------------
(* Types.                                                                  *)
LEMMA SentType ==
    ASSUME SessionTypes, NEW t \in Tabs, NEW k \in Kinds, NEW c \in Calls \cup {NoCall},
           NEW b \in BOOLEAN, Sent(t, k, c, b)
    PROVE  req' \in [Tabs -> Requests]
<1> DEFINE r == [kind |-> k, at |-> "sent", call |-> c, again |-> b,
                 with |-> IF fresh THEN cookie ELSE 0]
<1>1. r \in Requests BY DEF Requests, Phases, SessionTypes
<1>2. req' = [req EXCEPT ![t] = r] BY DEF Sent
<1> HIDE DEF r
<1> QED BY <1>1, <1>2 DEF SessionTypes

LEMMA PhaseType ==
    ASSUME SessionTypes, NEW t \in Tabs, NEW ph \in Phases
    PROVE  [req EXCEPT ![t].at = ph] \in [Tabs -> Requests]
<1>1. [req[t] EXCEPT !.at = ph] \in Requests BY DEF SessionTypes, Requests
<1> QED BY <1>1 DEF SessionTypes

LEMMA IdlingType == Idling \in Requests BY DEF Idling, Requests, Kinds, Phases

LEMMA RequestType == ASSUME SessionTypes, [SessionNext]_sessionVars PROVE req' \in [Tabs -> Requests]
<1> DEFINE Target == req' \in [Tabs -> Requests]
<1> SUFFICES Target OBVIOUS
<1>1. ASSUME UNCHANGED req PROVE Target BY <1>1 DEF SessionTypes
<1>2. ASSUME NEW t \in Tabs, req' = [req EXCEPT ![t] = Idling] PROVE Target
  BY <1>2, IdlingType DEF SessionTypes
<1>3. ASSUME NEW t \in Tabs, NEW ph \in {"ok", "refused", "notOurs", "failed", "renewing"},
             req' = [req EXCEPT ![t].at = ph]
      PROVE  Target
  <2>1. ph \in Phases BY DEF Phases
  <2> QED BY <1>3, <2>1, PhaseType
<1>4. ASSUME NEW t \in Tabs, NEW k \in Kinds, NEW c \in Calls \cup {NoCall}, NEW b \in BOOLEAN,
             Sent(t, k, c, b)
      PROVE  Target
  BY <1>4, SentType
<1> HIDE DEF Target
<1>5. ASSUME NEW t \in Tabs, Serve(t) \/ NoAnswer(t) \/ AnswerRefused(t) PROVE Target
  BY <1>3, <1>5 DEF Serve, NoAnswer, AnswerRefused
<1>6. ASSUME NEW t \in Tabs, Renewed(t) PROVE Target
  <2>1. req[t].kind \in Kinds /\ req[t].call \in Calls \cup {NoCall}
    BY DEF SessionTypes, Requests
  <2> QED BY <1>4, <1>6, <2>1 DEF Renewed
<1>7. {"start", "recheck", "end"} \subseteq Kinds BY DEF Kinds
<1>8. ASSUME NEW t \in Tabs, OpenTab(t) \/ Recheck(t) \/ InDoubt(t) PROVE Target
  BY <1>2, <1>4, <1>7, <1>8 DEF OpenTab, Recheck, InDoubt, StaysInDoubt
<1>9. ASSUME NEW t \in Tabs, CallOver(t) PROVE Target
  <2>1. PICK c \in Calls : Sent(t, "end", c, FALSE) BY <1>9 DEF CallOver, SendEnd
  <2> QED BY <1>4, <1>7, <2>1
<1>10. ASSUME NEW t \in Tabs, RetryEnd(t) PROVE Target
  <2>1. PICK c \in stored : SameUser(shown[t], caller[c]) /\ Sent(t, "end", c, FALSE)
    BY <1>10 DEF RetryEnd, SendEnd
  <2>2. c \in Calls BY DEF SessionTypes
  <2> QED BY <1>4, <1>7, <2>1, <2>2
<1> QED BY <1>1, <1>2, <1>5, <1>6, <1>8, <1>9, <1>10
        DEF SessionNext, RenewedLongAgo, AccessExpires, EndedByServer, TakeTurn, Renew, RenewalLost,
            SessionEnded, CloseTab, KnowsWho, SignedIn, Logout, SignedOut, SignOutFails, Told,
            EndDelivered, EndFailed, sessionVars

LEMMA TypesNext == ASSUME SessionTypes, [SessionNext]_sessionVars PROVE SessionTypes'
<1> USE DEF SessionTypes
<1>1. req' \in [Tabs -> Requests] BY RequestType
<1>2. /\ cookie' \in Nat /\ fresh' \in BOOLEAN /\ lately' \in BOOLEAN
      /\ whose' \in Seq(Users)
  <2> DEFINE Target == /\ cookie' \in Nat /\ fresh' \in BOOLEAN /\ lately' \in BOOLEAN
                       /\ whose' \in Seq(Users)
  <2> SUFFICES Target OBVIOUS
  <2>1. ASSUME UNCHANGED <<browser, whose>> PROVE Target BY <2>1
  <2>2. ASSUME NEW t \in Tabs, SignedIn(t) PROVE Target
    <3>1. PICK u \in Users : whose' = Append(whose, u) BY <2>2 DEF SignedIn
    <3>2. whose' \in Seq(Users) BY <3>1
    <3>3. cookie' = Len(whose') /\ fresh' = TRUE /\ lately' = lately BY <2>2 DEF SignedIn
    <3> QED BY <3>2, <3>3
  <2>3. ASSUME NEW t \in Tabs, Renew(t) \/ SignedOut(t) PROVE Target
    <3>1. cookie' \in {cookie, 0} /\ fresh' \in BOOLEAN /\ lately' \in {lately, TRUE}
          /\ whose' = whose
      BY <2>3, Zenon DEF Renew, SignedOut
    <3>2. cookie \in Nat /\ 0 \in Nat /\ lately \in BOOLEAN /\ whose \in Seq(Users) OBVIOUS
    <3> QED BY <3>1, <3>2, Zenon
  <2>4. ASSUME RenewedLongAgo \/ AccessExpires PROVE Target
    BY <2>4 DEF RenewedLongAgo, AccessExpires
  <2> HIDE DEF Target
  <2> QED BY <2>1, <2>2, <2>3, <2>4
          DEF SessionNext, EndedByServer, Serve, NoAnswer, AnswerRefused, TakeTurn, RenewalLost,
              Renewed, SessionEnded, OpenTab, CloseTab, Recheck, KnowsWho, InDoubt, Logout,
              SignOutFails, Told, CallOver, RetryEnd, EndDelivered, EndFailed, sessionVars
<1>3. /\ stage' \in [Tabs -> {"closed", "loading", "waiting", "open"}]
      /\ shown' \in [Tabs -> Nat]
  <2> DEFINE Target == /\ stage' \in [Tabs -> {"closed", "loading", "waiting", "open"}]
                       /\ shown' \in [Tabs -> Nat]
  <2> SUFFICES Target OBVIOUS
  <2>1. ASSUME UNCHANGED <<stage, shown>> PROVE Target BY <2>1
  <2>2. ASSUME NEW t \in Tabs, SignedIn(t) PROVE Target
    <3>1. whose' \in Seq(Users) BY <1>2
    <3>2. Len(whose') \in Nat BY <3>1
    <3> QED BY <2>2, <3>2 DEF SignedIn
  <2>3. ASSUME NEW t \in Tabs, SignInPage(t) PROVE Target BY <2>3 DEF SignInPage
  <2>4. ASSUME NEW t \in Tabs, OpenTab(t) \/ CloseTab(t) PROVE Target
    <3>1. /\ stage' \in {[stage EXCEPT ![t] = "loading"], [stage EXCEPT ![t] = "closed"]}
          /\ shown' \in {shown, [shown EXCEPT ![t] = 0]}
      BY <2>4, Zenon DEF OpenTab, CloseTab
    <3>2. [stage EXCEPT ![t] = "loading"] \in [Tabs -> {"closed", "loading", "waiting", "open"}]
          /\ [stage EXCEPT ![t] = "closed"] \in [Tabs -> {"closed", "loading", "waiting", "open"}]
          /\ [shown EXCEPT ![t] = 0] \in [Tabs -> Nat]
      OBVIOUS
    <3>3. shown \in [Tabs -> Nat] OBVIOUS
    <3> QED BY <3>1, <3>2, <3>3, Zenon
  <2>5. ASSUME NEW t \in Tabs, KnowsWho(t) PROVE Target
    <3>1. req[t].with \in Nat BY DEF Requests
    <3> QED BY <2>5, <3>1 DEF KnowsWho
  <2>6. ASSUME NEW t \in Tabs, InDoubt(t) PROVE Target BY <2>6 DEF InDoubt, StaysInDoubt
  <2> HIDE DEF Target
  <2> QED BY <2>1, <2>2, <2>3, <2>4, <2>5, <2>6
          DEF SessionNext, RenewedLongAgo, AccessExpires, EndedByServer, Serve, NoAnswer,
              AnswerRefused, TakeTurn, Renew, RenewalLost, Renewed, SessionEnded, Recheck, Logout,
              SignedOut, SignOutFails, Told, CallOver, RetryEnd, EndDelivered, EndFailed, sessionVars
<1>4. renewal' \in [Tabs -> Renewals]
  <2> DEFINE Target == renewal' \in [Tabs -> Renewals]
  <2> SUFFICES Target OBVIOUS
  <2>1. ASSUME UNCHANGED renewal PROVE Target BY <2>1
  <2>2. ASSUME NEW t \in Tabs, NEW r \in {"none", "queued", "unknown"},
               renewal' = [renewal EXCEPT ![t] = r]
        PROVE  Target
    BY <2>2 DEF Renewals
  <2>3. ASSUME NEW t \in Tabs, TakeTurn(t) \/ Renew(t) PROVE Target
    <3>1. \E r \in {"renewed", "asking", "ended"} : renewal' = [renewal EXCEPT ![t] = r]
      BY <2>3, Zenon DEF TakeTurn, Renew
    <3> QED BY <3>1 DEF Renewals
  <2> HIDE DEF Target
  <2> QED BY <2>1, <2>2, <2>3
          DEF SessionNext, RenewedLongAgo, AccessExpires, EndedByServer, Serve, NoAnswer,
              AnswerRefused, RenewalLost, RenewalFails, Renewed, SessionEnded, OpenTab, CloseTab,
              Recheck, KnowsWho, InDoubt, SignedIn, Logout, SignedOut, SignOutFails, Told, CallOver,
              RetryEnd, EndDelivered, EndFailed, sessionVars
<1>5. told' \in [Tabs -> BOOLEAN]
  <2> DEFINE Target == told' \in [Tabs -> BOOLEAN]
  <2> SUFFICES Target OBVIOUS
  <2>1. ASSUME UNCHANGED told PROVE Target BY <2>1
  <2>2. ASSUME NEW t \in Tabs, told' = [told EXCEPT ![t] = FALSE] PROVE Target BY <2>2
  <2>3. ASSUME NEW t \in Tabs, SignedOut(t) PROVE Target
    <3>1. told' = [u \in Tabs |-> told[u] \/ (u # t /\ stage[u] # "closed")]
      BY <2>3 DEF SignedOut
    <3> QED BY <3>1
  <2> HIDE DEF Target
  <2> QED BY <2>1, <2>2, <2>3
          DEF SessionNext, RenewedLongAgo, AccessExpires, EndedByServer, Serve, NoAnswer,
              AnswerRefused, TakeTurn, Renew, RenewalLost, Renewed, SessionEnded, OpenTab, CloseTab,
              Recheck, KnowsWho, InDoubt, SignedIn, Logout, SignOutFails, Told, CallOver, RetryEnd,
              EndDelivered, EndFailed, sessionVars
<1>6. caller' \in [Calls -> Nat] /\ stored' \subseteq Calls
  <2> DEFINE Target == caller' \in [Calls -> Nat] /\ stored' \subseteq Calls
  <2> SUFFICES Target OBVIOUS
  <2>1. ASSUME UNCHANGED <<caller, stored>> PROVE Target BY <2>1
  <2>2. ASSUME NEW t \in Tabs, SignInPage(t), UNCHANGED caller PROVE Target
    BY <2>2 DEF SignInPage
  <2>3. ASSUME NEW t \in Tabs, CallOver(t) PROVE Target
    <3>1. PICK c \in Calls : /\ caller' = [caller EXCEPT ![c] = shown[t]]
                             /\ stored' = stored \cup {c}
      BY <2>3 DEF CallOver, Remember
    <3> QED BY <3>1
  <2>4. ASSUME NEW t \in Tabs, EndDelivered(t) PROVE Target BY <2>4 DEF EndDelivered
  <2> HIDE DEF Target
  <2> QED BY <2>1, <2>2, <2>3, <2>4
          DEF SessionNext, RenewedLongAgo, AccessExpires, EndedByServer, Serve, NoAnswer,
              AnswerRefused, TakeTurn, Renew, RenewalLost, Renewed, SessionEnded, OpenTab, CloseTab,
              Recheck, KnowsWho, InDoubt, SignedIn, Logout, SignedOut, SignOutFails, Told, RetryEnd,
              EndFailed, sessionVars
<1> QED BY <1>1, <1>2, <1>3, <1>4, <1>5, <1>6

-----------------------------------------------------------------------------
(* While nothing is over nobody is sent to the sign-in page.               *)
LEMMA NobodyLeaves ==
    ASSUME SessionTypes, NothingOver, NEW t \in Tabs
    PROVE  /\ ~Told(t) /\ ~SessionEnded(t) /\ ~SignedIn(t)
           /\ SignedOut(t) \/ EndedByServer => over' # {}
<1>1. ~told[t] /\ (stage[t] = "open" => shown[t] = 1) /\ RequestIsOurs(req[t])
  BY DEF NothingOver, TabIsSignedIn
<1>2. cookie = 1 /\ renewal[t] # "ended" BY DEF NothingOver, OneSession
<1>3. ~Told(t) BY <1>1 DEF Told
<1>4. ~SignedIn(t) BY <1>1 DEF SignedIn
<1>5. ~SessionEnded(t) BY <1>1, <1>2 DEF SessionEnded, RequestIsOurs
<1>6. SignedOut(t) => 1 \in over' BY <1>2 DEF SignedOut
<1>7. EndedByServer => 1 \in over' BY <1>2 DEF EndedByServer
<1> QED BY <1>3, <1>4, <1>5, <1>6, <1>7

\* The steps that are left.
Everyday ==
    \/ RenewedLongAgo \/ AccessExpires
    \/ \E t \in Tabs :
         \/ Serve(t) \/ NoAnswer(t) \/ AnswerRefused(t) \/ TakeTurn(t) \/ Renew(t)
         \/ RenewalLost(t) \/ Renewed(t) \/ OpenTab(t) \/ CloseTab(t) \/ Recheck(t) \/ KnowsWho(t)
         \/ InDoubt(t) \/ Logout(t) \/ SignOutFails(t) \/ CallOver(t) \/ RetryEnd(t)
         \/ EndDelivered(t) \/ EndFailed(t)
    \/ UNCHANGED sessionVars

LEMMA OnlyEveryday ==
    ASSUME SessionTypes, NothingOver, over' = {}, [SessionNext]_sessionVars
    PROVE  Everyday
<1>1. CASE UNCHANGED sessionVars BY <1>1 DEF Everyday
<1>2. CASE RenewedLongAgo \/ AccessExpires BY <1>2 DEF Everyday
<1>3. CASE EndedByServer /\ Tabs # {} BY <1>3, NobodyLeaves
<1>4. CASE EndedByServer /\ Tabs = {} BY <1>4 DEF EndedByServer, NothingOver, OneSession
<1>5. ASSUME NEW t \in Tabs PROVE ~(Told(t) \/ SessionEnded(t) \/ SignedIn(t) \/ SignedOut(t))
  BY <1>5, NobodyLeaves
<1> QED BY <1>1, <1>2, <1>3, <1>4, <1>5 DEF SessionNext, Everyday

LEMMA OneSessionNext ==
    ASSUME SessionTypes, NothingOver, over = {}, over' = {}, Everyday
    PROVE  OneSession'
<1> renewal \in [Tabs -> Renewals] BY DEF SessionTypes
<1>1. OneSession BY DEF NothingOver
<1>2. ASSUME UNCHANGED browser,
             \/ UNCHANGED renewal
             \/ \E t \in Tabs, r \in {"none", "queued", "unknown", "asking"} :
                   renewal' = [renewal EXCEPT ![t] = r]
      PROVE  OneSession'
  BY <1>1, <1>2 DEF OneSession
<1>3. ASSUME RenewedLongAgo \/ AccessExpires PROVE OneSession'
  BY <1>1, <1>3 DEF RenewedLongAgo, AccessExpires, OneSession
<1>4. ASSUME NEW t \in Tabs, TakeTurn(t) PROVE OneSession'
  <2>1. CASE lately
    <3>1. renewal' = [renewal EXCEPT ![t] = "renewed"] /\ UNCHANGED browser
      BY <1>4, <2>1 DEF TakeTurn
    <3> QED BY <1>1, <2>1, <3>1 DEF OneSession
  <2>2. CASE ~lately
    <3>1. renewal' = [renewal EXCEPT ![t] = "asking"] /\ UNCHANGED browser
      BY <1>4, <2>2 DEF TakeTurn
    <3> QED BY <1>2, <3>1
  <2> QED BY <2>1, <2>2
<1>5. ASSUME NEW t \in Tabs, Renew(t) PROVE OneSession'
  <2>1. Working(cookie) BY <1>1 DEF OneSession, Working
  <2>2. /\ fresh' = TRUE /\ lately' = TRUE /\ cookie' = cookie
        /\ renewal' = [renewal EXCEPT ![t] = "renewed"]
    BY <1>5, <2>1 DEF Renew
  <2> QED BY <1>1, <2>2 DEF OneSession
<1> QED BY <1>2, <1>3, <1>4, <1>5
        DEF Everyday, Serve, NoAnswer, AnswerRefused, RenewalLost, RenewalFails, Renewed, OpenTab,
            CloseTab, Recheck, KnowsWho, InDoubt, Logout, SignOutFails, CallOver, RetryEnd,
            EndDelivered, EndFailed, sessionVars

\* What a tab shows: its start and its rechecks come back with the session.
LEMMA TabsNext ==
    ASSUME SessionTypes, NothingOver, Everyday, NEW u \in Tabs
    PROVE  /\ TabIsSignedIn(u)'
           /\ shown'[u] # 0 \/ shown[u] = 0 \/ stage'[u] = "closed"
           /\ req[u].kind = "recheck" /\ req'[u].kind = "recheck" => shown'[u] = shown[u]
<1> DEFINE Target == /\ TabIsSignedIn(u)'
                     /\ shown'[u] # 0 \/ shown[u] = 0 \/ stage'[u] = "closed"
                     /\ req[u].kind = "recheck" /\ req'[u].kind = "recheck" => shown'[u] = shown[u]
<1> SUFFICES Target OBVIOUS
<1>1. /\ stage \in [Tabs -> {"closed", "loading", "waiting", "open"}]
      /\ shown \in [Tabs -> Nat] /\ told \in [Tabs -> BOOLEAN] /\ req \in [Tabs -> Requests]
  BY DEF SessionTypes
<1>2. /\ shown[u] \in {0, 1} /\ (stage[u] = "open" => shown[u] = 1) /\ ~told[u]
      /\ (req[u].kind = "recheck" => shown[u] = 1) /\ RequestIsOurs(req[u])
  BY DEF NothingOver, TabIsSignedIn
<1>3. ASSUME UNCHANGED <<shown, told>>, stage'[u] = "open" => stage[u] = "open" PROVE Target
  BY <1>2, <1>3 DEF TabIsSignedIn
<1>4. ASSUME UNCHANGED <<shown, told, stage>> PROVE Target BY <1>3, <1>4
<1>5. ASSUME NEW t \in Tabs, OpenTab(t) PROVE Target
  <2>1. UNCHANGED <<shown, told>> /\ stage' = [stage EXCEPT ![t] = "loading"] BY <1>5 DEF OpenTab
  <2> QED BY <1>1, <1>3, <2>1
<1>6. ASSUME NEW t \in Tabs, InDoubt(t) PROVE Target
  <2>1. UNCHANGED <<shown, told>> /\ stage' \in {stage, [stage EXCEPT ![t] = "waiting"]}
    BY <1>6 DEF InDoubt, StaysInDoubt
  <2> QED BY <1>1, <1>3, <2>1
<1>7. ASSUME NEW t \in Tabs, CloseTab(t) PROVE Target
  <2>1. /\ stage' = [stage EXCEPT ![t] = "closed"] /\ shown' = [shown EXCEPT ![t] = 0]
        /\ told' = [told EXCEPT ![t] = FALSE] /\ req' = [req EXCEPT ![t] = Idling]
    BY <1>7 DEF CloseTab
  <2>2. CASE u = t
    <3>1. req'[u].kind = "none" BY <1>1, <2>1, <2>2 DEF Idling
    <3> QED BY <1>1, <2>1, <2>2, <3>1 DEF TabIsSignedIn
  <2>3. CASE u # t BY <1>1, <1>2, <2>1, <2>3 DEF TabIsSignedIn
  <2> QED BY <2>2, <2>3
<1>8. ASSUME NEW t \in Tabs, KnowsWho(t) PROVE Target
  <2>1. /\ req[t].at = "ok" /\ stage' = [stage EXCEPT ![t] = "open"] /\ told' = told
        /\ shown' = [shown EXCEPT ![t] = IF req[t].kind = "recheck" /\ @ = 0 THEN @ ELSE req[t].with]
        /\ req' = [req EXCEPT ![t] = Idling]
    BY <1>8 DEF KnowsWho
  <2>2. CASE u = t
    <3>1. req[u].with = 1 BY <1>2, <2>1, <2>2 DEF RequestIsOurs
    <3>2. shown'[u] = 1 BY <1>1, <1>2, <2>1, <2>2, <3>1
    <3>3. req'[u].kind = "none" BY <1>1, <2>1, <2>2 DEF Idling
    <3>4. told'[u] = told[u] BY <2>1
    <3> QED BY <1>2, <3>2, <3>3, <3>4 DEF TabIsSignedIn
  <2>3. CASE u # t BY <1>1, <1>2, <2>1, <2>3 DEF TabIsSignedIn
  <2> QED BY <2>2, <2>3
<1> HIDE DEF Target
<1> QED BY <1>4, <1>5, <1>6, <1>7, <1>8
        DEF Everyday, RenewedLongAgo, AccessExpires, Serve, NoAnswer, AnswerRefused, TakeTurn,
            Renew, RenewalLost, Renewed, Recheck, Logout, SignOutFails, CallOver, RetryEnd,
            EndDelivered, EndFailed, sessionVars

\* A request that is sent anew is for the session of the cookie, or for none.
LEMMA SentIsOurs ==
    ASSUME SessionTypes, NothingOver, NEW t \in Tabs, NEW k, NEW c, NEW b \in BOOLEAN,
           Sent(t, k, c, b), b => fresh,
           k = "end" => c \in Calls /\ caller'[c] = 1
    PROVE  RequestIsOurs(req[t])' /\ req'[t].kind = k
<1> DEFINE r == [kind |-> k, at |-> "sent", call |-> c, again |-> b,
                 with |-> IF fresh THEN cookie ELSE 0]
<1>1. req'[t] = r BY DEF Sent, SessionTypes
<1>2. cookie = 1 BY DEF NothingOver, OneSession
<1>3. /\ r.with \in {0, 1} /\ (r.again => r.with = 1) /\ r.at = "sent" /\ r.kind = k /\ r.call = c
  BY <1>2
<1> HIDE DEF r
<1> QED BY <1>1, <1>3 DEF RequestIsOurs

\* The calls' owners stay, and what is at the server stays there.
LEMMA EndsGrow ==
    ASSUME SessionTypes, Everyday
    PROVE  /\ \A c \in Calls : caller[c] # 0 => caller'[c] = caller[c]
           /\ logged \subseteq logged'
<1> caller \in [Calls -> Nat] BY DEF SessionTypes
<1> DEFINE Target == /\ \A c \in Calls : caller[c] # 0 => caller'[c] = caller[c]
                     /\ logged \subseteq logged'
<1> SUFFICES Target OBVIOUS
<1>1. ASSUME UNCHANGED <<caller, logged>> PROVE Target BY <1>1
<1>2. ASSUME NEW t \in Tabs, Serve(t) PROVE Target BY <1>2 DEF Serve
<1>3. ASSUME NEW t \in Tabs, CallOver(t) PROVE Target BY <1>3 DEF CallOver
<1> HIDE DEF Target
<1> QED BY <1>1, <1>2, <1>3
        DEF Everyday, RenewedLongAgo, AccessExpires, NoAnswer, AnswerRefused, TakeTurn, Renew,
            RenewalLost, Renewed, OpenTab, CloseTab, Recheck, KnowsWho, InDoubt, Logout,
            SignOutFails, RetryEnd, EndDelivered, EndFailed, sessionVars

\* A request that stays as it was, or whose answer did not come, stays ours.
LEMMA StaysOurs ==
    ASSUME SessionTypes, NothingOver, Everyday, NEW t \in Tabs,
           \/ req'[t] = req[t]
           \/ req'[t] = Idling
           \/ \E ph \in {"failed", "renewing"} : req'[t] = [req[t] EXCEPT !.at = ph]
    PROVE  RequestIsOurs(req[t])'
<1>1. RequestIsOurs(req[t]) /\ req[t] \in Requests BY DEF NothingOver, SessionTypes
<1>2. req[t].kind = "end" => caller'[req[t].call] = 1 BY <1>1, EndsGrow DEF RequestIsOurs
<1>3. logged \subseteq logged' BY EndsGrow
<1>4. CASE req'[t] = req[t] BY <1>1, <1>2, <1>3, <1>4 DEF RequestIsOurs
<1>5. CASE req'[t] = Idling BY <1>5 DEF RequestIsOurs, Idling
<1>6. ASSUME NEW ph \in {"failed", "renewing"}, req'[t] = [req[t] EXCEPT !.at = ph]
      PROVE  RequestIsOurs(req[t])'
  <2>1. /\ req'[t].kind = req[t].kind /\ req'[t].call = req[t].call /\ req'[t].at = ph
        /\ req'[t].with = req[t].with /\ req'[t].again = req[t].again
    BY <1>1, <1>6 DEF Requests
  <2> QED BY <1>1, <1>2, <2>1 DEF RequestIsOurs
<1> QED BY <1>4, <1>5, <1>6

\* The server's answer: it refuses only what carried no token.
LEMMA ServedIsOurs ==
    ASSUME SessionTypes, NothingOver, over = {}, NEW t \in Tabs, Serve(t)
    PROVE  RequestIsOurs(req[t])' /\ req'[t].kind = req[t].kind
<1> DEFINE r == req[t]
<1>1. r \in Requests /\ RequestIsOurs(r) BY DEF SessionTypes, NothingOver
<1>2. caller' = caller /\ logged \subseteq logged' BY DEF Serve
<1>3. Working(r.with) <=> r.with = 1 BY <1>1 DEF RequestIsOurs, Working
<1>4. ASSUME NEW ph \in {"ok", "refused"}, req' = [req EXCEPT ![t].at = ph],
             ph = "ok" => r.with = 1 /\ (r.kind = "end" => r.call \in logged'),
             ph = "refused" => r.with = 0
      PROVE  RequestIsOurs(req[t])' /\ req'[t].kind = r.kind
  <2>1. /\ req'[t].kind = r.kind /\ req'[t].call = r.call /\ req'[t].at = ph
        /\ req'[t].with = r.with /\ req'[t].again = r.again
    BY <1>1, <1>4 DEF Requests, SessionTypes
  <2> QED BY <1>1, <1>2, <1>4, <2>1 DEF RequestIsOurs
<1>5. r.kind = "end" /\ r.with = 1 => SameUser(r.with, caller[r.call])
  BY <1>1 DEF RequestIsOurs, SameUser
<1>6. CASE ~Working(r.with) /\ req' = [req EXCEPT ![t].at = "refused"]
  <2>1. r.with = 0 BY <1>1, <1>3, <1>6 DEF RequestIsOurs
  <2> QED BY <1>4, <1>6, <2>1
<1>7. CASE /\ Working(r.with) /\ req' = [req EXCEPT ![t].at = "ok"]
           /\ logged' = IF r.kind = "end" THEN logged \cup {r.call} ELSE logged
  <2>1. r.with = 1 /\ (r.kind = "end" => r.call \in logged') BY <1>3, <1>7
  <2> QED BY <1>4, <1>7, <2>1
<1> QED BY <1>3, <1>5, <1>6, <1>7 DEF Serve

LEMMA RequestsNext ==
    ASSUME SessionTypes, NothingOver, over = {}, Everyday, NEW u \in Tabs
    PROVE  /\ RequestIsOurs(req[u])'
           /\ req'[u].kind = "recheck" => req[u].kind = "recheck" \/ Recheck(u)
<1> DEFINE Target == /\ RequestIsOurs(req[u])'
                     /\ req'[u].kind = "recheck" => req[u].kind = "recheck" \/ Recheck(u)
<1> SUFFICES Target OBVIOUS
<1>1. req \in [Tabs -> Requests] /\ req[u] \in Requests BY DEF SessionTypes
<1>2. RequestIsOurs(req[u]) /\ OneSession BY DEF NothingOver
<1>3. ASSUME req'[u] = req[u] PROVE Target BY <1>3, StaysOurs
<1>4. ASSUME req'[u] = Idling PROVE Target
  <2>1. RequestIsOurs(req[u])' BY <1>4, StaysOurs
  <2> QED BY <1>4, <2>1 DEF Idling
<1>5. ASSUME NEW ph \in {"failed", "renewing"}, req' = [req EXCEPT ![u].at = ph] PROVE Target
  <2>1. req'[u] = [req[u] EXCEPT !.at = ph] BY <1>1, <1>5
  <2>2. req'[u].kind = req[u].kind BY <1>1, <2>1 DEF Requests
  <2>3. RequestIsOurs(req[u])' BY <2>1, StaysOurs
  <2> QED BY <2>2, <2>3
<1>6. ASSUME NEW k, NEW c, NEW b \in BOOLEAN, Sent(u, k, c, b), b => fresh,
             k = "end" => c \in Calls /\ caller'[c] = 1,
             k = "recheck" => req[u].kind = "recheck" \/ Recheck(u)
      PROVE  Target
  BY <1>6, SentIsOurs
<1>7. ASSUME NEW t \in Tabs, t # u, Serve(t) PROVE req'[u] = req[u] BY <1>1, <1>7 DEF Serve
<1>8. ASSUME NEW t \in Tabs, t # u,
             \/ \E ph : req' = [req EXCEPT ![t].at = ph]
             \/ req' = [req EXCEPT ![t] = Idling]
             \/ \E k, c, b : Sent(t, k, c, b)
      PROVE  req'[u] = req[u]
  BY <1>1, <1>8 DEF Sent
<1>9. ASSUME Renewed(u) PROVE Target
  <2>1. Sent(u, req[u].kind, req[u].call, TRUE) /\ caller' = caller /\ renewal[u] = "renewed"
    BY <1>9 DEF Renewed
  <2>2. fresh BY <1>2, <2>1 DEF OneSession
  <2>3. req[u].kind = "end" => req[u].call \in Calls /\ caller'[req[u].call] = 1
    BY <1>2, <2>1 DEF RequestIsOurs
  <2> QED BY <1>6, <2>1, <2>2, <2>3
<1>10. ASSUME NEW c \in Calls, caller'[c] = 1, Sent(u, "end", c, FALSE) PROVE Target
  BY <1>6, <1>10
<1>11. ASSUME Sent(u, "start", NoCall, FALSE) PROVE Target BY <1>6, <1>11
<1>12. ASSUME Recheck(u) PROVE Target
  <2>1. Sent(u, "recheck", NoCall, FALSE) BY <1>12 DEF Recheck
  <2> QED BY <1>6, <1>12, <2>1
<1>13. ASSUME CallOver(u) PROVE Target
  <2>1. PICK c \in Calls : caller' = [caller EXCEPT ![c] = shown[u]] /\ Sent(u, "end", c, FALSE)
    BY <1>13 DEF CallOver, SendEnd
  <2>2. shown[u] = 1 BY <1>13 DEF CallOver, NothingOver, TabIsSignedIn
  <2> QED BY <1>10, <2>1, <2>2 DEF SessionTypes
<1>14. ASSUME RetryEnd(u) PROVE Target
  <2>1. PICK c \in stored : SameUser(shown[u], caller[c]) /\ Sent(u, "end", c, FALSE)
    BY <1>14 DEF RetryEnd, SendEnd
  <2>2. c \in Calls /\ caller[c] \in {0, 1} BY DEF SessionTypes, NothingOver
  <2>3. caller[c] = 1 /\ caller' = caller BY <1>14, <2>1, <2>2 DEF SameUser, RetryEnd
  <2> QED BY <1>10, <2>1, <2>2, <2>3
<1>15. ASSUME Serve(u) PROVE Target BY <1>15, ServedIsOurs
<1> HIDE DEF Target
<1>16. ASSUME UNCHANGED req PROVE Target BY <1>3, <1>16
\* A tab's own step, and another tab's.
<1>17. ASSUME \/ Serve(u) \/ NoAnswer(u) \/ AnswerRefused(u) \/ TakeTurn(u) \/ Renew(u)
              \/ RenewalLost(u) \/ Renewed(u) \/ OpenTab(u) \/ CloseTab(u) \/ Recheck(u)
              \/ KnowsWho(u) \/ InDoubt(u) \/ Logout(u) \/ SignOutFails(u) \/ CallOver(u)
              \/ RetryEnd(u) \/ EndDelivered(u) \/ EndFailed(u)
       PROVE  Target
  <2>1. req' = [req EXCEPT ![u] = Idling] => req'[u] = Idling BY <1>1
  <2> QED BY <1>4, <1>5, <1>9, <1>11, <1>12, <1>13, <1>14, <1>15, <1>16, <1>17, <2>1
          DEF NoAnswer, AnswerRefused, TakeTurn, Renew, RenewalLost, OpenTab, CloseTab, KnowsWho,
              InDoubt, StaysInDoubt, Logout, SignOutFails, EndDelivered, EndFailed
<1>18. ASSUME NEW t \in Tabs, t # u,
              \/ Serve(t) \/ NoAnswer(t) \/ AnswerRefused(t) \/ TakeTurn(t) \/ Renew(t)
              \/ RenewalLost(t) \/ Renewed(t) \/ OpenTab(t) \/ CloseTab(t) \/ Recheck(t)
              \/ KnowsWho(t) \/ InDoubt(t) \/ Logout(t) \/ SignOutFails(t) \/ CallOver(t)
              \/ RetryEnd(t) \/ EndDelivered(t) \/ EndFailed(t)
       PROVE  Target
  BY <1>3, <1>7, <1>8, <1>16, <1>18
     DEF NoAnswer, AnswerRefused, TakeTurn, Renew, RenewalLost, Renewed, OpenTab, CloseTab, Recheck,
         KnowsWho, InDoubt, StaysInDoubt, Logout, SignOutFails, CallOver, RetryEnd, SendEnd,
         EndDelivered, EndFailed
<1>19. ASSUME RenewedLongAgo \/ AccessExpires \/ UNCHANGED sessionVars PROVE Target
  BY <1>16, <1>19 DEF RenewedLongAgo, AccessExpires, sessionVars
<1> QED BY <1>17, <1>18, <1>19 DEF Everyday

\* The ends of calls: stored with the call, and taken out when the server has
\* them.
LEMMA EndsNext ==
    ASSUME SessionTypes, NothingOver, over = {}, Everyday
    PROVE  \A c \in Calls : /\ caller'[c] \in {0, 1}
                            /\ caller'[c] # 0 => c \in stored' \cup logged'
<1> DEFINE Target == \A c \in Calls : /\ caller'[c] \in {0, 1}
                                      /\ caller'[c] # 0 => c \in stored' \cup logged'
<1> SUFFICES Target OBVIOUS
<1>1. caller \in [Calls -> Nat] BY DEF SessionTypes
<1>2. \A c \in Calls : caller[c] \in {0, 1} /\ (caller[c] # 0 => c \in stored \cup logged)
  BY DEF NothingOver
<1>3. ASSUME UNCHANGED <<caller, stored>>, logged \subseteq logged' PROVE Target BY <1>2, <1>3
<1>4. ASSUME NEW t \in Tabs, CallOver(t) PROVE Target
  <2>1. PICK c \in Calls : caller' = [caller EXCEPT ![c] = shown[t]] /\ stored' = stored \cup {c}
    BY <1>4 DEF CallOver, Remember
  <2>2. shown[t] = 1 /\ logged' = logged BY <1>4 DEF CallOver, NothingOver, TabIsSignedIn
  <2> QED BY <1>1, <1>2, <2>1, <2>2
<1>5. ASSUME NEW t \in Tabs, EndDelivered(t) PROVE Target
  <2>1. /\ req[t].kind = "end" /\ req[t].at \in {"ok", "notOurs"}
        /\ stored' = stored \ {req[t].call} /\ UNCHANGED <<caller, logged>>
    BY <1>5 DEF EndDelivered
  <2>2. req[t].call \in logged BY <2>1 DEF NothingOver, RequestIsOurs
  <2> QED BY <1>2, <2>1, <2>2
<1> HIDE DEF Target
<1>6. ASSUME UNCHANGED <<caller, stored, logged>> PROVE Target BY <1>3, <1>6
<1>7. ASSUME NEW t \in Tabs, Serve(t) PROVE Target
  <2>1. UNCHANGED <<caller, stored>> /\ logged \subseteq logged' BY <1>7 DEF Serve
  <2> QED BY <1>3, <2>1
<1> QED BY <1>4, <1>5, <1>6, <1>7
        DEF Everyday, RenewedLongAgo, AccessExpires, NoAnswer, AnswerRefused, TakeTurn, Renew,
            RenewalLost, Renewed, OpenTab, CloseTab, Recheck, KnowsWho, InDoubt, Logout,
            SignOutFails, RetryEnd, EndFailed, sessionVars

-----------------------------------------------------------------------------
(* The inductive invariant, and what follows from it.                      *)
SessionInv == SessionTypes /\ AllGoesOn

\* Sessions that are over stay over.
LEMMA OverGrows == ASSUME [SessionNext]_sessionVars PROVE over \subseteq over'
BY DEF SessionNext, RenewedLongAgo, AccessExpires, EndedByServer, Serve, NoAnswer, AnswerRefused,
       TakeTurn, Renew, RenewalLost, Renewed, SessionEnded, OpenTab, CloseTab, Recheck, KnowsWho,
       InDoubt, SignedIn, Logout, SignedOut, SignOutFails, Told, CallOver, RetryEnd, EndDelivered,
       EndFailed, sessionVars

LEMMA AllGoesOnNext == ASSUME SessionInv, [SessionNext]_sessionVars PROVE AllGoesOn'
<1> SUFFICES ASSUME over' = {} PROVE NothingOver' BY DEF AllGoesOn
<1>1. over = {} BY OverGrows
<1>2. SessionTypes /\ NothingOver BY <1>1 DEF SessionInv, AllGoesOn
<1>3. Everyday BY <1>2, OnlyEveryday
<1>4. OneSession' BY <1>1, <1>2, <1>3, OneSessionNext
<1>5. \A t \in Tabs : TabIsSignedIn(t)' /\ RequestIsOurs(req[t])'
  BY <1>1, <1>2, <1>3, TabsNext, RequestsNext
<1>6. ASSUME NEW t \in Tabs, req'[t].kind = "recheck" PROVE shown'[t] = 1
  <2>1. CASE req[t].kind = "recheck"
    <3>1. shown[t] = 1 BY <1>2, <2>1 DEF NothingOver
    <3> QED BY <1>2, <1>3, <1>6, <2>1, <3>1, TabsNext
  <2>2. CASE Recheck(t)
    <3>1. shown[t] = 1 BY <1>2, <2>2 DEF Recheck, NothingOver, TabIsSignedIn
    <3> QED BY <2>2, <3>1 DEF Recheck
  <2> QED BY <1>1, <1>2, <1>3, <1>6, <2>1, <2>2, RequestsNext
<1> QED BY <1>1, <1>2, <1>3, <1>4, <1>5, <1>6, EndsNext DEF NothingOver

LEMMA SessionInductive == SessionSpec => []SessionInv
<1>1. SessionInit => SessionInv BY TypesInit, AllGoesOnInit DEF SessionInv
<1>2. SessionInv /\ [SessionNext]_sessionVars => SessionInv'
  BY TypesNext, AllGoesOnNext DEF SessionInv
<1> QED BY <1>1, <1>2, PTL DEF SessionSpec

\* The end of a call survives a server that is down: until some session is
\* over it is stored or at the server.  A request leaves the storage only
\* with the server's word, and "not yours" is no answer the person's own
\* session can get.
THEOREM EndsKept == SessionSpec => []EndsAreKept
<1>1. SessionInv => EndsAreKept BY DEF SessionInv, AllGoesOn, NothingOver, EndsAreKept
<1> QED BY <1>1, SessionInductive, PTL

\* A deploy or a network blip signs nobody out: while the server ended no
\* session, no refused request, lost renewal or late answer makes an open tab
\* drop the person it shows.
THEOREM NobodyIsDropped == SessionSpec => NobodyDropped
<1>1. ASSUME SessionInv, [SessionNext]_sessionVars PROVE [DropsNobody]_sessionVars
  <2> SUFFICES ASSUME NEW t \in Tabs, over = {}, shown[t] # 0, stage'[t] # "closed", over' = {}
               PROVE  shown'[t] # 0
    BY DEF DropsNobody
  <2>1. SessionTypes /\ NothingOver BY <1>1 DEF SessionInv, AllGoesOn
  <2>2. Everyday BY <1>1, <2>1, OnlyEveryday
  <2> QED BY <2>1, <2>2, TabsNext
<1> QED BY <1>1, SessionInductive, PTL DEF SessionSpec, NobodyDropped

-----------------------------------------------------------------------------
(* The sign-in page.                                                       *)

Demands == [kind : Steps, for : Accounts]
Replies == [says : {"nothing", "no", "session", "password"}, for : Accounts \cup {NoAccount}, token : Nat]
EntryTypes ==
    /\ issued \in Seq(Demands) /\ held \in [Steps -> 0 .. Len(issued)] /\ heard \subseteq 1 .. Len(issued)
    /\ email \in Accounts \cup {NoAccount} /\ checking \in Accounts \cup {NoAccount}
    /\ reply \in Replies

\* The page asks for a password only while it holds no token.
Opening == welcome # NoAccount \/ signedIn # NoAccount
OneThingAsked == checking # NoAccount => held = None /\ ~Opening

\* Until the panel opens, a token the page was told was taken stays only
\* behind the new password that the same account owes.
UsedIsBehind == ~Opening => \A k \in Steps : held[k] \in heard => k # "password" /\ held["password"] # 0

\* Of the steps behind the screen, and of all once the panel opens, the page
\* was told.
WasTold == \A k \in Steps : held[k] \in heard \cup {0} \/ (k = Screen /\ ~Opening)

\* A token held for a kind of step was issued for it.
OfItsKind == \A k \in Steps : held[k] # 0 => issued[held[k]].kind = k

\* An answer is for the call of the screen that awaits it, and a new password
\* is asked for, with a token nobody has, only by another step.
Fits ==
    /\ busy => Screen \in Steps /\ ~Opening
    /\ reply # Waiting => busy
    /\ reply.says = "session" => reply.for \in Accounts
    /\ reply.says = "password" => /\ reply.token \in (1 .. Len(issued)) \ heard
                                  /\ \A k \in Steps : held[k] # reply.token
                                  /\ issued[reply.token].kind = "password" /\ Screen # "password"

EntryInv == EntryTypes /\ OneThingAsked /\ UsedIsBehind /\ WasTold /\ OfItsKind /\ Fits

LEMMA EntryStart == ASSUME SignInInit PROVE EntryInv
<1>1. EntryTypes BY DEF SignInInit, EntryTypes, None, Steps, Replies, Waiting, Reply
<1>2. OneThingAsked /\ UsedIsBehind /\ WasTold /\ OfItsKind
  BY DEF SignInInit, OneThingAsked, UsedIsBehind, WasTold, OfItsKind, None, Steps, Opening
<1>3. Fits BY DEF SignInInit, Fits, Waiting, Reply
<1> QED BY <1>1, <1>2, <1>3 DEF EntryInv

\* The screen of a step shows the token the page holds for it.
LEMMA ScreenHolds == ASSUME Screen \in Steps PROVE held[Screen] # 0 /\ signedIn = NoAccount
BY DEF Screen, Steps

LEMMA ScreenStays == ASSUME UNCHANGED <<held, signedIn>> PROVE Screen' = Screen
BY DEF Screen

\* A demand brings a token nobody used.
LEMMA DemandsNew ==
    ASSUME EntryTypes, NEW k \in Steps, NEW a \in Accounts, Issues(k, a)
    PROVE  /\ issued' \in Seq(Demands) /\ Len(issued') = Len(issued) + 1
           /\ issued'[Len(issued) + 1].kind = k
           /\ \A n \in 1 .. Len(issued) : issued'[n] = issued[n]
<1> DEFINE new == [kind |-> k, for |-> a]
<1>1. new \in Demands /\ issued \in Seq(Demands) /\ new.kind = k BY DEF Demands, EntryTypes
<1>2. issued' = Append(issued, new) BY DEF Issues
<1> HIDE DEF new, Demands
<1> QED BY <1>1, <1>2

\* What the server does to a call reaches the page as its answer only.
LEMMA ServerSteps ==
    ASSUME NoAccount \notin Accounts, EntryInv, NEW i \in DOMAIN issued, Handled(i)
    PROVE  /\ UNCHANGED page
           /\ issued' \in Seq(Demands) /\ Len(issued') \in {Len(issued), Len(issued) + 1}
           /\ \A n \in 1 .. Len(issued) : issued'[n] = issued[n]
           /\ \/ reply' = reply
              \/ /\ busy /\ reply = Waiting /\ i = Token
                 /\ \/ reply' = No
                    \/ \E a \in Accounts : reply' = Reply("session", a, 0)
                    \/ \E a \in Accounts : /\ reply' = Reply("password", a, Len(issued) + 1)
                                           /\ Len(issued') = Len(issued) + 1 /\ issued[i].kind # "password"
                                           /\ issued'[Len(issued) + 1].kind = "password"
<1>0. EntryTypes BY DEF EntryInv
<1>1. issued[i] \in Demands /\ issued[i].for \in Accounts /\ "password" \in Steps
  <2>1. issued[i] \in Demands BY <1>0 DEF EntryTypes
  <2> QED BY <2>1 DEF Demands, Steps
<1>2. UNCHANGED page
  BY DEF Handled, CodeWrong, Refuses, Enrolled, CodeRight, PasswordChanged, StepTaken, Answers
<1>3. ASSUME NEW owing, StepTaken(i, owing), issued[i].kind = "password" => issued[i].for \notin owing
      PROVE  /\ issued' \in Seq(Demands) /\ Len(issued') \in {Len(issued), Len(issued) + 1}
             /\ \A n \in 1 .. Len(issued) : issued'[n] = issued[n]
             /\ \/ reply' = reply
                \/ /\ busy /\ reply = Waiting /\ i = Token
                   /\ \/ reply' = No
                      \/ \E a \in Accounts : reply' = Reply("session", a, 0)
                      \/ \E a \in Accounts : /\ reply' = Reply("password", a, Len(issued) + 1)
                                             /\ Len(issued') = Len(issued) + 1 /\ issued[i].kind # "password"
                                             /\ issued'[Len(issued) + 1].kind = "password"
  <2>1. CASE UNCHANGED issued /\ (Answers(i, No) \/ Answers(i, Reply("session", issued[i].for, 0)))
    BY <1>0, <1>1, <2>1 DEF Answers, EntryTypes
  <2>2. CASE /\ issued[i].for \in owing /\ Issues("password", issued[i].for)
             /\ Answers(i, Reply("password", issued[i].for, Len(issued) + 1))
    <3>1. /\ issued' \in Seq(Demands) /\ Len(issued') = Len(issued) + 1
          /\ issued'[Len(issued) + 1].kind = "password"
          /\ \A n \in 1 .. Len(issued) : issued'[n] = issued[n]
      BY <1>0, <1>1, <2>2, DemandsNew
    <3>2. issued[i].kind # "password" BY <1>3, <2>2
    <3>3. \/ reply' = reply
          \/ busy /\ reply = Waiting /\ i = Token /\ reply' = Reply("password", issued[i].for, Len(issued) + 1)
      BY <2>2 DEF Answers
    <3> QED BY <1>1, <3>1, <3>2, <3>3
  <2> QED BY <1>3, <2>1, <2>2 DEF StepTaken
<1>4. CASE CodeWrong(i) \/ Refuses(i)
  <2>1. issued' = issued /\ Answers(i, No) BY <1>4 DEF CodeWrong, Refuses, tokens
  <2> QED BY <1>0, <1>2, <2>1 DEF Answers, EntryTypes
<1>5. CASE Enrolled(i) \/ CodeRight(i)
  <2>1. StepTaken(i, owes) /\ issued[i].kind # "password" BY <1>5 DEF Enrolled, CodeRight, Takes
  <2> QED BY <1>2, <1>3, <2>1
<1>6. CASE PasswordChanged(i)
  <2>1. StepTaken(i, owes') /\ issued[i].for \notin owes' BY <1>6 DEF PasswordChanged
  <2> QED BY <1>2, <1>3, <2>1
<1> QED BY <1>4, <1>5, <1>6 DEF Handled

\* A call of the screen's token is handled: the page does not move, and what
\* comes back fits it.
LEMMA ServerKeeps ==
    ASSUME NoAccount \notin Accounts, EntryInv, NEW i \in DOMAIN issued, Handled(i)
    PROVE  EntryInv'
<1>0. EntryTypes /\ OneThingAsked /\ UsedIsBehind /\ WasTold /\ OfItsKind /\ Fits BY DEF EntryInv
<1>1. UNCHANGED <<email, checking, welcome, held, busy, signedIn, heard>> /\ Screen' = Screen
  <2>1. UNCHANGED page BY ServerSteps
  <2> QED BY <2>1, ScreenStays DEF page
<1>2. /\ issued' \in Seq(Demands) /\ Len(issued) \in Nat /\ Len(issued') \in {Len(issued), Len(issued) + 1}
      /\ \A n \in 1 .. Len(issued) : issued'[n] = issued[n]
  BY <1>0, ServerSteps DEF EntryTypes
<1>3. OneThingAsked' /\ UsedIsBehind' /\ WasTold'
  BY <1>0, <1>1 DEF OneThingAsked, UsedIsBehind, WasTold, Opening
<1>4. OfItsKind'
  <2> SUFFICES ASSUME NEW k \in Steps, held[k] # 0 PROVE issued'[held[k]].kind = k
    BY <1>1 DEF OfItsKind
  <2>1. held[k] \in 1 .. Len(issued) BY <1>0 DEF EntryTypes
  <2> QED BY <2>1, <1>0, <1>2 DEF OfItsKind
<1>5. held \in [Steps -> 0 .. Len(issued')] /\ heard \subseteq 1 .. Len(issued')
  BY <1>0, <1>2 DEF EntryTypes
<1>6. busy => Screen \in Steps /\ ~Opening BY <1>0 DEF Fits
<1>7. CASE reply' = reply
  <2>1. EntryTypes' BY <1>0, <1>1, <1>2, <1>5, <1>7 DEF EntryTypes
  <2>2. Fits' BY <1>0, <1>1, <1>2, <1>7 DEF Fits, Opening, Waiting, Reply
  <2> QED BY <2>1, <2>2, <1>3, <1>4 DEF EntryInv
<1>8. CASE busy /\ (reply' = No \/ \E a \in Accounts : reply' = Reply("session", a, 0))
  <2>1. EntryTypes' BY <1>0, <1>1, <1>2, <1>5, <1>8 DEF EntryTypes, Replies, No, Reply
  <2>2. Fits' BY <1>1, <1>6, <1>8 DEF Fits, Opening, No, Reply, Waiting
  <2> QED BY <2>1, <2>2, <1>3, <1>4 DEF EntryInv
<1>9. CASE /\ busy /\ i = Token /\ issued[i].kind # "password"
           /\ Len(issued') = Len(issued) + 1 /\ issued'[Len(issued) + 1].kind = "password"
           /\ \E a \in Accounts : reply' = Reply("password", a, Len(issued) + 1)
  <2>1. EntryTypes' BY <1>0, <1>1, <1>2, <1>5, <1>9 DEF EntryTypes, Replies, Reply
  <2>2. Screen # "password" BY <1>0, <1>6, <1>9, ScreenHolds DEF OfItsKind, Token
  <2>3. /\ reply'.says = "password" /\ reply'.token = Len(issued) + 1
    BY <1>9 DEF Reply
  <2>4. /\ Len(issued) + 1 \notin heard /\ \A k \in Steps : held[k] # Len(issued) + 1
    BY <1>0, <1>2 DEF EntryTypes
  <2>5. Fits' BY <1>1, <1>2, <1>6, <1>9, <2>2, <2>3, <2>4 DEF Fits, Opening
  <2> QED BY <2>1, <2>5, <1>3, <1>4 DEF EntryInv
<1> QED BY <1>7, <1>8, <1>9, ServerSteps

\* The page hears that its step was taken: the panel opens, or the new password
\* is asked for with a fresh token.
LEMMA AnswerKeeps == ASSUME NoAccount \notin Accounts, EntryInv, StepAnswered PROVE EntryInv'
<1>0. EntryTypes /\ OneThingAsked /\ UsedIsBehind /\ WasTold /\ OfItsKind /\ Fits BY DEF EntryInv
<1>1. Screen \in Steps /\ ~Opening /\ held[Screen] \in 1 .. Len(issued) /\ held # None
  <2>1. Screen \in Steps /\ ~Opening BY <1>0 DEF StepAnswered, Fits
  <2> QED BY <2>1, <1>0, ScreenHolds DEF EntryTypes, None
<1>2. /\ UNCHANGED <<issued, email, checking, signedIn>> /\ checking = NoAccount /\ ~busy'
      /\ heard' = heard \cup {held[Screen]} /\ reply' = Waiting
  BY <1>0, <1>1 DEF StepAnswered, tokens, Token, OneThingAsked
<1>3. Fits' /\ OneThingAsked' BY <1>2 DEF Fits, OneThingAsked, Waiting, Reply
<1>4. heard' \subseteq 1 .. Len(issued) /\ reply' \in Replies
  BY <1>0, <1>1, <1>2 DEF EntryTypes, Replies, Waiting, Reply
<1>5. CASE reply.says = "session" /\ welcome' = reply.for /\ held' = held
  <2>1. Opening' BY <1>0, <1>5 DEF Fits, Opening
  <2>2. EntryTypes' BY <1>0, <1>2, <1>4, <1>5 DEF EntryTypes
  <2>3. WasTold' BY <1>0, <1>2, <1>5 DEF WasTold
  <2>4. OfItsKind' BY <1>0, <1>2, <1>5 DEF OfItsKind
  <2> QED BY <1>3, <2>1, <2>2, <2>3, <2>4 DEF EntryInv, UsedIsBehind
<1>6. CASE reply.says = "password" /\ held' = [held EXCEPT !["password"] = reply.token]
           /\ welcome' = welcome
  <2>1. /\ reply.token \in (1 .. Len(issued)) \ heard /\ reply.token # held[Screen]
        /\ issued[reply.token].kind = "password" /\ Screen # "password"
    BY <1>0, <1>1, <1>6 DEF Fits
  <2>2. "password" \in Steps /\ held'["password"] = reply.token
        /\ \A k \in Steps \ {"password"} : held'[k] = held[k]
    BY <1>0, <1>6 DEF EntryTypes, Steps
  <2>3. Screen' = "password"
    <3>1. signedIn' = NoAccount /\ held'["password"] # 0 BY <1>1, <1>2, <2>1, <2>2 DEF Opening
    <3> QED BY <3>1 DEF Screen
  <2>4. EntryTypes'
    <3>0. reply.token \in 0 .. Len(issued) BY <1>0, <2>1 DEF EntryTypes
    <3>1. held' \in [Steps -> 0 .. Len(issued)] BY <1>0, <1>6, <3>0 DEF EntryTypes
    <3> QED BY <3>1, <1>0, <1>2, <1>4 DEF EntryTypes
  <2>5. ~Opening' BY <1>1, <1>2, <1>6 DEF Opening
  <2>6. WasTold'
    <3> SUFFICES ASSUME NEW k \in Steps, k # "password" PROVE held[k] \in heard' \cup {0}
      BY <2>2, <2>3, <2>5 DEF WasTold
    <3> QED BY <1>0, <1>2 DEF WasTold
  <2>7. UsedIsBehind' BY <1>2, <2>1, <2>2 DEF UsedIsBehind
  <2>8. OfItsKind' BY <1>0, <1>2, <2>1, <2>2 DEF OfItsKind
  <2> QED BY <1>3, <2>4, <2>6, <2>7, <2>8 DEF EntryInv
<1> QED BY <1>5, <1>6 DEF StepAnswered

LEMMA EntryKept ==
    ASSUME NoAccount \notin Accounts, EntryInv, [SignInNext]_signInVars PROVE EntryInv'
<1>0. EntryTypes /\ OneThingAsked /\ UsedIsBehind /\ WasTold /\ OfItsKind /\ Fits BY DEF EntryInv
\* Steps that leave the tokens of the page, and how far it got, alone.
<1>1. ASSUME UNCHANGED <<issued, held, heard, welcome, signedIn>>, email' \in Accounts \cup {NoAccount},
             checking' \in {checking, NoAccount}, Fits', reply' \in Replies
      PROVE  EntryInv'
  <2>1. Screen' = Screen BY <1>1, ScreenStays
  <2>2. EntryTypes' BY <1>0, <1>1 DEF EntryTypes
  <2>3. OneThingAsked' /\ UsedIsBehind' /\ WasTold' /\ OfItsKind'
    BY <1>0, <1>1, <2>1 DEF OneThingAsked, UsedIsBehind, WasTold, OfItsKind, Opening
  <2> QED BY <1>1, <2>2, <2>3 DEF EntryInv
<1>2. CASE TypeEmail \/ ContinueWithEmail \/ ChangeEmail \/ PasswordWrong \/ ShowQr \/ Elsewhere \/ UNCHANGED signInVars
  <2>1. /\ UNCHANGED <<issued, held, heard, welcome, signedIn, busy, reply>>
        /\ email' \in Accounts \cup {NoAccount} /\ checking' \in {checking, NoAccount}
    BY <1>0, <1>2 DEF TypeEmail, ContinueWithEmail, ChangeEmail, PasswordWrong, ShowQr, Elsewhere, signInVars,
                     page, calls, tokens, EntryTypes
  <2>2. Screen' = Screen BY <2>1, ScreenStays
  <2>3. Fits' BY <1>0, <2>1, <2>2 DEF Fits, Opening, Waiting, Reply
  <2>4. reply' \in Replies BY <1>0, <2>1 DEF EntryTypes
  <2> QED BY <1>1, <2>1, <2>3, <2>4
<1>3. CASE SendStep \/ StepFails
  <2>1. /\ UNCHANGED <<issued, held, heard, welcome, signedIn, email, checking>>
        /\ (busy' /\ Screen \in Steps /\ ~Opening /\ reply' = reply) \/ (~busy' /\ reply' = Waiting)
    BY <1>3, ScreenHolds DEF SendStep, StepFails, calls, tokens, Opening
  <2>2. Screen' = Screen BY <2>1, ScreenStays
  <2>3. Fits' BY <1>0, <2>1, <2>2 DEF Fits, Opening, Waiting, Reply
  <2>4. reply' \in Replies BY <1>0, <2>1 DEF EntryTypes, Replies, Waiting, Reply
  <2>5. email \in Accounts \cup {NoAccount} BY <1>0 DEF EntryTypes
  <2> QED BY <1>1, <2>1, <2>3, <2>4, <2>5
<1>4. CASE Submit
  <2>1. held = None /\ ~Opening /\ email \in Accounts \cup {NoAccount}
    <3>1. held["enroll"] = 0 /\ held["challenge"] = 0 /\ held["password"] = 0 /\ ~Opening
      BY <1>4 DEF Submit, Screen, Opening
    <3> QED BY <3>1, <1>0 DEF EntryTypes, None, Steps
  <2>2. UNCHANGED <<issued, held, heard, welcome, signedIn, email, busy, reply>> /\ checking' = email
    BY <1>4 DEF Submit, tokens, calls
  <2>3. Screen' = Screen BY <2>2, ScreenStays
  <2>4. EntryTypes' BY <1>0, <2>2 DEF EntryTypes
  <2>5. OneThingAsked' /\ UsedIsBehind' /\ WasTold' /\ OfItsKind'
    BY <1>0, <2>1, <2>2, <2>3 DEF OneThingAsked, UsedIsBehind, WasTold, OfItsKind, Opening
  <2>6. Fits' BY <1>0, <2>2, <2>3 DEF Fits, Opening, Waiting, Reply
  <2> QED BY <2>4, <2>5, <2>6 DEF EntryInv
<1>5. CASE PasswordRight
  <2>1. /\ checking \in Accounts /\ checking' = NoAccount /\ held = None /\ ~Opening
        /\ UNCHANGED <<email, heard, signedIn, busy, reply>>
    BY <1>0, <1>5 DEF PasswordRight, EntryTypes, OneThingAsked, calls
  <2>2. ~busy /\ reply = Waiting
    <3>1. Screen \notin Steps BY <2>1, ScreenHolds DEF None
    <3> QED BY <3>1, <1>0 DEF Fits
  <2>3. Fits' BY <2>1, <2>2 DEF Fits, Waiting, Reply
  <2>4. CASE \E k \in Steps : Demand(k, checking)
    <3>1. PICK k \in Steps : Demand(k, checking) BY <2>4
    <3>2. /\ issued' \in Seq(Demands) /\ Len(issued') = Len(issued) + 1
          /\ issued'[Len(issued) + 1].kind = k /\ Len(issued) \in Nat
      BY <3>1, <2>1, <1>0, DemandsNew DEF Demand, EntryTypes
    <3>3. held' = [held EXCEPT ![k] = Len(issued) + 1] /\ welcome' = welcome BY <3>1 DEF Demand
    <3>4. \A j \in Steps : held'[j] = IF j = k THEN Len(issued) + 1 ELSE 0 BY <3>3, <2>1 DEF None
    <3>5. EntryTypes'
      <4>1. held' \in [Steps -> 0 .. Len(issued')] /\ heard' \subseteq 1 .. Len(issued')
        BY <3>2, <3>3, <2>1, <1>0 DEF EntryTypes
      <4> QED BY <4>1, <3>2, <2>1, <1>0 DEF EntryTypes
    <3>6. Screen' = k
      <4>1. signedIn' = NoAccount /\ held'[k] # 0 BY <2>1, <3>2, <3>4 DEF Opening
      <4>2. k \in {"enroll", "challenge", "password"} BY DEF Steps
      <4> QED BY <4>1, <4>2, <3>4 DEF Screen, Steps
    <3>7. ~Opening' BY <2>1, <3>3 DEF Opening
    <3>8. WasTold' BY <3>4, <3>6, <3>7 DEF WasTold
    <3>9. UsedIsBehind' BY <3>2, <3>4, <2>1, <1>0 DEF UsedIsBehind, EntryTypes
    <3>10. OfItsKind' BY <3>2, <3>4 DEF OfItsKind
    <3> QED BY <2>1, <2>3, <3>5, <3>8, <3>9, <3>10 DEF EntryInv, OneThingAsked
  <2>5. CASE welcome' = checking /\ issued' = issued /\ held' = held
    <3>1. EntryTypes' BY <2>1, <2>5, <1>0 DEF EntryTypes
    <3>2. Opening' BY <2>1, <2>5 DEF Opening
    <3>3. WasTold' /\ OfItsKind' BY <2>1, <2>5 DEF WasTold, OfItsKind, None
    <3> QED BY <2>1, <2>3, <3>1, <3>2, <3>3 DEF EntryInv, OneThingAsked, UsedIsBehind
  <2> QED BY <1>5, <2>4, <2>5 DEF PasswordRight, Session, Steps
<1>6. CASE Back
  <2>1. held' = None /\ UNCHANGED <<issued, heard, welcome, signedIn, email, checking, busy, reply>> /\ ~busy
    BY <1>6 DEF Back, tokens, calls
  <2>2. Fits' BY <1>0, <2>1 DEF Fits, Waiting, Reply
  <2>3. EntryTypes' BY <1>0, <2>1 DEF EntryTypes, None
  <2>4. OneThingAsked' BY <1>0, <2>1 DEF OneThingAsked, Opening
  <2>5. \A k \in Steps : held'[k] = 0 BY <2>1 DEF None
  <2>6. WasTold' /\ OfItsKind' BY <2>5 DEF WasTold, OfItsKind
  <2>7. UsedIsBehind' BY <1>0, <2>1, <2>5 DEF UsedIsBehind, EntryTypes
  <2> QED BY <2>2, <2>3, <2>4, <2>6, <2>7 DEF EntryInv
<1>7. CASE Finish
  <2>1. /\ Opening /\ Opening' /\ ~busy
        /\ UNCHANGED <<issued, held, heard, email, checking, busy, reply>>
    BY <1>0, <1>7 DEF Finish, tokens, calls, Opening, Fits
  <2>2. Fits' BY <1>0, <2>1 DEF Fits, Waiting, Reply
  <2>3. EntryTypes' BY <1>0, <2>1 DEF EntryTypes
  <2>4. OneThingAsked' /\ WasTold' /\ OfItsKind' /\ UsedIsBehind'
    BY <1>0, <2>1 DEF OneThingAsked, WasTold, OfItsKind, UsedIsBehind
  <2> QED BY <2>2, <2>3, <2>4 DEF EntryInv
<1> QED BY <1>2, <1>3, <1>4, <1>5, <1>6, <1>7, ServerKeeps, AnswerKeeps DEF SignInNext

\* Whatever is lost between the page and the server, and whatever the policy,
\* other devices and administrators do meanwhile: a screen asks for a step that
\* was taken only while the page was not told, and the panel opens only when
\* it was told of every step it was asked for (Login, parseLogin).
THEOREM StepsAreNew == ASSUME NoAccount \notin Accounts PROVE SignInSpec => []EachStepOnce
<1>1. SignInInit => EntryInv BY EntryStart
<1>2. EntryInv /\ [SignInNext]_signInVars => EntryInv' BY EntryKept
<1>3. EntryInv => EachStepOnce
  <2> SUFFICES ASSUME EntryInv PROVE EachStepOnce OBVIOUS
  <2>1. ASSUME Screen \in Steps, welcome = NoAccount PROVE held[Screen] \notin heard
    <3>1. ~Opening BY <2>1, ScreenHolds DEF Opening
    <3>2. Screen # "password" => held["password"] = 0 BY <2>1, ScreenHolds DEF Screen, Steps
    <3> QED BY <2>1, <3>1, <3>2 DEF EntryInv, UsedIsBehind
  <2>2. ASSUME Opening PROVE \A k \in Steps : held[k] \in heard \cup {0}
    BY <2>2 DEF EntryInv, WasTold
  <2> QED BY <2>1, <2>2 DEF EachStepOnce, Token, Opening
<1> QED BY <1>1, <1>2, <1>3, PTL DEF SignInSpec

-----------------------------------------------------------------------------
(* Inbox: a row of the panel is replaced by a newer one or taken away.      *)

Versioned == [version : Nat, last : Nat, home : Homes \cup NewHomes]
RowHere == Versioned \cup {NoRow}
OnStream == [type : {"wa.conv"}, chat : Chats, row : Versioned, incoming : BOOLEAN]
        \cup [type : {"wa.gone"} \cup NoticeKinds, chat : Chats]
        \cup [type : {"hello"}]

\* The rows of a request's answer.
RowsIn(p) == "items" \in DOMAIN p /\ p.items \in [Chats -> RowHere]

\* Whatever is stored, shown, answered or told of a conversation has a version.
InboxRows ==
    /\ newestVersion \in Nat
    /\ rows \in [Chats -> Versioned] /\ rowsHere \in [Chats -> RowHere]
    /\ DOMAIN polls = Slots
    /\ \A s \in Slots : polls[s] # NoPoll => RowsIn(polls[s])
    /\ pipe \in Seq(OnStream)

LEMMA InboxStart == ASSUME IsFiniteSet(Chats), InboxInit PROVE InboxRows
<1>1. Cardinality(Chats) \in Nat BY FS_CardinalityType
<1>2. rows \in [Chats -> Versioned]
  BY <1>1 DEF InboxInit, Versioned, Homes
<1>3. pipe \in Seq(OnStream) BY EmptySeq DEF InboxInit
<1> QED BY <1>1, <1>2, <1>3 DEF InboxInit, InboxRows, RowHere

\* What comes next on the stream.
LEMMA EventTaken ==
    ASSUME InboxRows, NEW k, NextIs(k)
    PROVE  pipe' \in Seq(OnStream) /\ Head(pipe) \in OnStream
BY HeadTailProperties DEF InboxRows, NextIs

LEMMA Telling ==
    ASSUME InboxRows, NEW e \in OnStream, Tell(e)
    PROVE  pipe' \in Seq(OnStream)
BY AppendProperties DEF InboxRows, Tell

\* A request that was begun carries no rows yet.
LEMMA PollHasRows ==
    ASSUME InboxRows, NEW s \in Slots, NEW since, Poll(s, since)
    PROVE  /\ DOMAIN polls' = Slots
           /\ \A t \in Slots : polls'[t] # NoPoll => RowsIn(polls'[t])
BY DEF InboxRows, RowsIn, Poll, RowHere

\* The rows that Apply takes over are newer than those they replace.
NoneOlder ==
    /\ rowsHere' \in [Chats -> RowHere]
    /\ \A c \in Chats : rowsHere[c] # NoRow /\ rowsHere'[c] # NoRow => rowsHere[c].version <= rowsHere'[c].version

LEMMA AppliedForward ==
    ASSUME InboxRows, NEW items \in [Chats -> RowHere], NEW hidden, Apply(items, hidden)
    PROVE  NoneOlder
<1>1. \A c \in Chats : /\ rowsHere[c] \in RowHere /\ items[c] \in RowHere
                       /\ rowsHere'[c] = IF c \in hidden THEN NoRow
                                         ELSE IF items[c] # NoRow /\ (rowsHere[c] = NoRow \/ rowsHere[c].version <= items[c].version)
                                         THEN items[c] ELSE rowsHere[c]
  BY DEF InboxRows, Apply
<1>2. \A r \in RowHere : r # NoRow => r.version \in Nat BY DEF RowHere, Versioned
<1>3. NoRow \in RowHere BY DEF RowHere
<1>4. \A c \in Chats : rowsHere'[c] \in RowHere BY <1>1, <1>3
<1>5. rowsHere' \in [Chats -> RowHere] BY <1>4 DEF Apply
<1>6. ASSUME NEW c \in Chats, rowsHere[c] # NoRow, rowsHere'[c] # NoRow
      PROVE  rowsHere[c].version <= rowsHere'[c].version
  BY <1>6, <1>1, <1>2
<1> QED BY <1>5, <1>6 DEF NoneOlder

LEMMA StaysNoneOlder == ASSUME InboxRows, rowsHere' = rowsHere PROVE NoneOlder
<1>1. \A c \in Chats : rowsHere[c] \in RowHere BY DEF InboxRows
<1>2. \A r \in RowHere : r # NoRow => r.version <= r.version BY DEF RowHere, Versioned
<1> QED BY <1>1, <1>2 DEF NoneOlder, InboxRows

\* What changes a conversation at the server gives it the next version.
LEMMA ChatChangesKeeps ==
    ASSUME InboxRows, NEW c \in Chats, ChatChanges(c)
    PROVE  InboxRows'
<1>1. PICK h \in NewHomes, incoming \in BOOLEAN :
        LET r == [version |-> newestVersion + 1, last |-> rows[c].last + (IF incoming THEN 1 ELSE 0), home |-> h] IN
        /\ rows' = [rows EXCEPT ![c] = r] /\ newestVersion' = newestVersion + 1
        /\ Tell(IF h = "unseen" THEN [type |-> "wa.gone", chat |-> c]
                ELSE [type |-> "wa.conv", chat |-> c, row |-> r, incoming |-> incoming])
  BY DEF ChatChanges
<1> DEFINE r == [version |-> newestVersion + 1, last |-> rows[c].last + (IF incoming THEN 1 ELSE 0), home |-> h]
           e == IF h = "unseen" THEN [type |-> "wa.gone", chat |-> c]
                ELSE [type |-> "wa.conv", chat |-> c, row |-> r, incoming |-> incoming]
<1>2. rows[c].last \in Nat BY DEF InboxRows, Versioned
<1>3. newestVersion + 1 \in Nat BY DEF InboxRows
<1>4. r \in Versioned BY <1>2, <1>3 DEF Versioned
<1>5. e \in OnStream BY <1>4 DEF OnStream
<1>6. pipe' \in Seq(OnStream) BY <1>1, <1>5, Telling
<1>7. rows' \in [Chats -> Versioned] BY <1>1, <1>4 DEF InboxRows
<1>8. UNCHANGED <<polls, rowsHere>> BY DEF ChatChanges
<1> QED BY <1>1, <1>3, <1>6, <1>7, <1>8 DEF InboxRows

\* An answer carries rows as the server had them.
LEMMA ServesKeeps ==
    ASSUME InboxRows, NEW s \in Slots, Serves(s)
    PROVE  InboxRows'
<1> DEFINE answered == InPage(polls[s].since)
           items == [c \in Chats |-> IF c \in answered /\ Visible(c) THEN rows[c] ELSE NoRow]
           hidden == IF polls[s].since = 0 THEN {} ELSE {c \in answered : ~Visible(c)}
<1>1. items \in [Chats -> RowHere] BY DEF InboxRows, RowHere
<1>2. PICK top : polls' = [polls EXCEPT ![s] = [polls[s] EXCEPT !.state = "answered", !.items = items,
                                                               !.hidden = hidden, !.top = top]]
  BY Zenon DEF Serves
<1> DEFINE p == [polls[s] EXCEPT !.state = "answered", !.items = items, !.hidden = hidden, !.top = top]
<1>3. polls[s] # NoPoll BY DEF Serves
<1>4. "items" \in DOMAIN polls[s] BY <1>3 DEF InboxRows, RowsIn
<1> HIDE DEF items, hidden
<1>5. "items" \in DOMAIN p /\ p.items = items BY <1>4
<1> HIDE DEF p
<1>6. DOMAIN polls' = Slots /\ \A t \in Slots : polls'[t] = IF t = s THEN p ELSE polls[t]
  BY <1>2 DEF InboxRows, p
<1>7. UNCHANGED <<rows, newestVersion, pipe, rowsHere>> BY DEF Serves, serverVars, streamVars
<1> QED BY <1>1, <1>5, <1>6, <1>7 DEF InboxRows, RowsIn

\* What one step does to the rows: they stay typed, and unless the panel takes
\* its whole list anew none is replaced by an older one.
LEMMA InboxStep ==
    ASSUME InboxRows, [InboxNext]_inboxVars
    PROVE  InboxRows' /\ (NoneOlder \/ \E s \in Slots : Reloaded(s))
<1> DEFINE Target == InboxRows' /\ (NoneOlder \/ \E s \in Slots : Reloaded(s))
<1> SUFFICES Target OBVIOUS
<1>a. CASE UNCHANGED inboxVars
  BY <1>a, StaysNoneOlder DEF InboxRows, inboxVars, serverVars, streamVars
<1>b. ASSUME NEW c \in Chats, ChatChanges(c) PROVE Target
  <2>1. rowsHere' = rowsHere BY <1>b DEF ChatChanges
  <2> QED BY <2>1, <1>b, ChatChangesKeeps, StaysNoneOlder
<1>c. ASSUME NEW c \in Chats, Notice(c) PROVE Target
  <2>1. PICK k \in NoticeKinds : Tell([type |-> k, chat |-> c]) BY <1>c DEF Notice
  <2>2. [type |-> k, chat |-> c] \in OnStream BY DEF OnStream
  <2>3. pipe' \in Seq(OnStream) BY <2>1, <2>2, Telling
  <2>4. UNCHANGED <<rows, newestVersion, polls, rowsHere>> BY <1>c DEF Notice
  <2> QED BY <2>3, <2>4, StaysNoneOlder DEF InboxRows
<1>d. CASE StreamOpens \/ StreamDrops
  <2>1. [type |-> "hello"] \in OnStream BY DEF OnStream
  <2>2. <<[type |-> "hello"]>> \in Seq(OnStream) /\ <<>> \in Seq(OnStream) BY <2>1
  <2>3. pipe' \in Seq(OnStream) /\ UNCHANGED <<rows, newestVersion, polls, rowsHere>>
    BY <1>d, <2>2 DEF StreamOpens, StreamDrops, serverVars
  <2> QED BY <2>3, StaysNoneOlder DEF InboxRows
<1>e. ASSUME NEW s \in Slots, Sync(s) \/ Reload(s) PROVE Target
  <2>1. (\E since : Poll(s, since)) /\ UNCHANGED <<rows, newestVersion, pipe, rowsHere>>
    BY <1>e DEF Sync, Reload, SyncBegins, serverVars, streamVars
  <2>2. PICK since : Poll(s, since) BY <2>1
  <2> QED BY <2>1, <2>2, PollHasRows, StaysNoneOlder DEF InboxRows
<1>f. ASSUME NEW s \in Slots, Serves(s) PROVE Target
  <2>1. rowsHere' = rowsHere BY <1>f DEF Serves
  <2> QED BY <2>1, <1>f, ServesKeeps, StaysNoneOlder
<1>g. ASSUME NEW s \in Slots, Reloaded(s) PROVE Target
  <2>1. /\ polls[s] # NoPoll /\ rowsHere' = polls[s].items /\ polls' = [polls EXCEPT ![s] = NoPoll]
        /\ UNCHANGED <<rows, newestVersion, pipe>>
    BY <1>g DEF Reloaded, serverVars, streamVars
  <2> QED BY <2>1, <1>g DEF InboxRows, RowsIn
<1>h. ASSUME NEW s \in Slots, Synced(s) PROVE Target
  <2>1. /\ polls[s] # NoPoll /\ Apply(polls[s].items, polls[s].hidden)
        /\ polls' = [polls EXCEPT ![s] = NoPoll] \/ \E since : Poll(s, since)
        /\ UNCHANGED <<rows, newestVersion, pipe>>
    BY <1>h DEF Synced, serverVars, streamVars
  <2>2. NoneOlder BY <2>1, AppliedForward DEF InboxRows, RowsIn
  <2>3. /\ DOMAIN polls' = Slots
        /\ \A t \in Slots : polls'[t] # NoPoll => RowsIn(polls'[t])
    BY <2>1, PollHasRows DEF InboxRows
  <2> QED BY <2>1, <2>2, <2>3 DEF InboxRows, NoneOlder
<1>i. ASSUME NEW s \in Slots, PollFails(s) PROVE Target
  BY <1>i, StaysNoneOlder DEF PollFails, InboxRows, serverVars, streamVars
<1>j. ASSUME NEW s \in Slots, Hello(s) PROVE Target
  <2>1. Poll(s, versionHere) /\ NextIs("hello") /\ UNCHANGED <<rows, newestVersion, rowsHere>>
    BY <1>j DEF Hello, SyncBegins, serverVars
  <2> QED BY <2>1, PollHasRows, EventTaken, StaysNoneOlder DEF InboxRows
<1>k. CASE ConvEvent
  <2> DEFINE e == Head(pipe)
             items == [c \in Chats |-> IF c = e.chat THEN e.row ELSE NoRow]
  <2>1. NextIs("wa.conv") /\ Apply(items, {}) /\ UNCHANGED <<rows, newestVersion, polls>>
    BY <1>k DEF ConvEvent, serverVars
  <2>2. e \in OnStream /\ e.type = "wa.conv" /\ pipe' \in Seq(OnStream) BY <2>1, EventTaken DEF NextIs
  <2>3. e.row \in Versioned BY <2>2 DEF OnStream, NoticeKinds
  <2>4. items \in [Chats -> RowHere] BY <2>3 DEF RowHere
  <2>5. NoneOlder BY <2>1, <2>4, AppliedForward
  <2> QED BY <2>1, <2>2, <2>5 DEF InboxRows, NoneOlder
<1>l. CASE GoneEvent
  <2>1. /\ NextIs("wa.gone") /\ rowsHere' = [rowsHere EXCEPT ![Head(pipe).chat] = NoRow]
        /\ UNCHANGED <<rows, newestVersion, polls>>
    BY <1>l DEF GoneEvent, serverVars
  <2>2. \A c \in Chats : rowsHere'[c] = rowsHere[c] \/ rowsHere'[c] = NoRow BY <2>1 DEF InboxRows
  <2>3. rowsHere' \in [Chats -> RowHere] BY <2>1 DEF InboxRows, RowHere
  <2>4. \A r \in RowHere : r # NoRow => r.version <= r.version BY DEF RowHere, Versioned
  <2>5. NoneOlder BY <2>2, <2>3, <2>4 DEF NoneOlder, InboxRows
  <2> QED BY <2>1, <2>3, <2>5, EventTaken DEF InboxRows
<1>m. CASE TypingEvent \/ AlertEvent
  <2>1. (\E k : NextIs(k)) /\ UNCHANGED <<rows, newestVersion, polls, rowsHere>>
    BY <1>m DEF TypingEvent, AlertEvent, serverVars
  <2> QED BY <2>1, EventTaken, StaysNoneOlder DEF InboxRows
<1>n. CASE Fade \/ OpenFromList \/ (\E c \in Chats : OpenByAddress(c)) \/ SetOpen(NoChat)
  <2>1. UNCHANGED <<rows, newestVersion, polls, pipe, rowsHere>>
    BY <1>n DEF Fade, OpenFromList, OpenByAddress, SetOpen, serverVars, streamVars
  <2> QED BY <2>1, StaysNoneOlder DEF InboxRows
<1> HIDE DEF Target
<1> QED BY <1>a, <1>b, <1>c, <1>d, <1>e, <1>f, <1>g, <1>h, <1>i, <1>j, <1>k, <1>l, <1>m, <1>n DEF InboxNext

\* Whatever order answers and events come in, and whichever way a change is
\* heard of twice, a conversation shown is never replaced by an older version of
\* itself, but for a reload of the whole list (apply, sync, handle).
THEOREM RowsGoForward == ASSUME IsFiniteSet(Chats) PROVE InboxSpec => NeverBack
<1>1. InboxInit => InboxRows BY InboxStart
<1>2. InboxRows /\ [InboxNext]_inboxVars => InboxRows' BY InboxStep
<1>3. InboxRows /\ [InboxNext]_inboxVars => [GoesNotBack]_inboxVars
  <2> SUFFICES ASSUME InboxRows, [InboxNext]_inboxVars, NEW c \in Chats, rowsHere[c] # NoRow, rowsHere'[c] # NoRow,
                      rowsHere'[c].version < rowsHere[c].version
               PROVE  \E s \in Slots : Reloaded(s)
    BY DEF GoesNotBack
  <2>1. CASE NoneOlder
    <3>1. rowsHere[c].version <= rowsHere'[c].version BY <2>1 DEF NoneOlder
    <3>2. rowsHere[c].version \in Nat /\ rowsHere'[c].version \in Nat
      BY <2>1 DEF NoneOlder, InboxRows, RowHere, Versioned
    <3> QED BY <3>1, <3>2
  <2> QED BY <2>1, InboxStep
<1> QED BY <1>1, <1>2, <1>3, PTL DEF InboxSpec, NeverBack

-----------------------------------------------------------------------------
(* Forms: what is typed is kept.                                            *)

\* Every variable the argument is about keeps its type.
FormRows == [text : Nat, on : BOOLEAN, there : BOOLEAN]
FormRequests ==
    [what : {"list", "fill", "save", "toggle", "remove", "side"}, step : Nat, row : FormRows, visit : Nat,
     state : {"asked", "done", "refused"}]
FormTypes ==
    /\ thisForm \in Forms
    /\ record \in FormRows /\ copy \in FormRows /\ edits \in Nat
    /\ visit \in Nat /\ text \in Nat /\ typed \in Nat /\ quick \in Nat
    /\ locked \in BOOLEAN /\ late \in BOOLEAN
    /\ sends \subseteq FormRequests /\ \A s \in sends : s.visit <= visit

\* When the last request of a save is done the server has the text.
SavedIsStored ==
    \A s \in sends : s.what = "save" /\ s.state = "done" /\ s.step = thisForm.steps => s.row.text \in savedTexts

FormsInv == FormTypes /\ SavedIsStored /\ TypedIsKept

LEMMA FormsBegin == ASSUME FormsInit PROVE FormsInv
<1> USE FormsAssumption DEF FormsInit, Unwritten
<1>2. FormTypes
  <2>1. NewRow \in FormRows BY DEF NewRow, FormRows
  <2>2. \A w \in {"list", "fill"} :
          [what |-> w, step |-> 1, row |-> NewRow, visit |-> 0, state |-> "asked"] \in FormRequests
    BY <2>1 DEF FormRequests
  <2>3. sends \subseteq FormRequests /\ \A s \in sends : s.visit = 0 BY <2>2
  <2>4. record \in FormRows /\ copy \in FormRows BY <2>1
  <2>5. \A s \in sends : s.visit <= visit BY <2>3
  <2> QED BY <2>3, <2>4, <2>5 DEF FormTypes
<1>5. SavedIsStored /\ TypedIsKept BY DEF SavedIsStored, TypedIsKept
<1> QED BY <1>2, <1>5 DEF FormsInv

\* Everything a window or a card does at one press.
FormPresses == RecordChanges \/ Open \/ TypeText \/ Save \/ Dismiss \/ GoBack \/ Leave \/ Cancel

LEMMA AskedType ==
    ASSUME FormTypes, NEW what \in {"list", "fill", "save", "toggle", "remove", "side"}, NEW step \in Nat, NEW row \in FormRows
    PROVE  /\ FormAsks(what, step, row) \in FormRequests
           /\ FormAsks(what, step, row).visit = visit
           /\ ListAsked \in FormRequests /\ ListAsked.visit = visit /\ ListAsked.what = "list"
BY DEF FormTypes, FormAsks, FormRequests, ListAsked, FormRows, NewRow, Unwritten

LEMMA StepType ==
    ASSUME NEW s \in FormRequests
    PROVE  LET r == [s EXCEPT !.step = @ + 1, !.state = "asked"]
           IN  r \in FormRequests /\ r.visit = s.visit /\ r.what = s.what /\ r.row = s.row /\ r.state = "asked"
<1> DEFINE n == s.step + 1
<1>1. n \in Nat BY DEF FormRequests
<1> HIDE DEF n
<1>2. LET r == [s EXCEPT !.step = n, !.state = "asked"]
      IN  r \in FormRequests /\ r.visit = s.visit /\ r.what = s.what /\ r.row = s.row /\ r.state = "asked"
  BY <1>1 DEF FormRequests
<1> QED BY <1>2 DEF n

LEMMA FormTypesNext == ASSUME FormTypes, [FormsNext]_formVars PROVE FormTypes'
<1> USE FormsAssumption DEF FormTypes, formVars, pageVars, windowVars, ghostVars, Unwritten
<1>1. \A s \in sends : /\ s \in FormRequests /\ s.row \in FormRows /\ s.row.text \in Nat
                       /\ s.step \in Nat /\ s.visit \in Nat /\ s.visit <= visit
  BY DEF FormRequests, FormRows
<1>2. copy.text \in Nat /\ \A n \in Nat : [copy EXCEPT !.text = n] \in FormRows BY DEF FormRows
<1>3. [copy EXCEPT !.on = ~@] \in FormRows BY DEF FormRows
<1>a. ASSUME NEW what \in {"list", "fill", "save", "toggle", "remove", "side"}, NEW step \in Nat, NEW row \in FormRows
      PROVE  /\ FormAsks(what, step, row) \in FormRequests
             /\ FormAsks(what, step, row).visit = visit
  BY <1>a, AskedType
<1>b. ListAsked \in FormRequests /\ ListAsked.visit = visit
  BY <1>2, AskedType DEF FormRows
<1>4. CASE UNCHANGED formVars BY <1>4
<1>5. CASE RecordChanges BY <1>5 DEF RecordChanges, FormRows
<1>6. CASE Open BY <1>1, <1>2, <1>6 DEF Open
<1>7. CASE TypeText
  <2>1. late' \in BOOLEAN BY <1>7, Zenon DEF TypeText
  <2>2. text' \in Nat /\ typed' \in Nat BY <1>7 DEF TypeText
  <2>3. UNCHANGED <<thisForm, record, copy, edits, visit, quick, locked, sends>> BY <1>7 DEF TypeText
  <2> QED BY <2>1, <2>2, <2>3
<1>8. CASE Save
  <2>1. [copy EXCEPT !.text = text] \in FormRows BY <1>2
  <2>2. /\ FormAsks("save", 1, [copy EXCEPT !.text = text]) \in FormRequests
        /\ FormAsks("save", 1, [copy EXCEPT !.text = text]).visit = visit
    BY <1>a, <2>1
  <2> QED BY <1>8, <2>2 DEF Save
<1>9. CASE Dismiss \/ GoBack \/ Leave \/ Cancel BY <1>9 DEF Dismiss, GoBack, Leave, Cancel
<1>10. CASE Toggle
  <2>1. /\ FormAsks("toggle", 1, [copy EXCEPT !.on = ~@]) \in FormRequests
        /\ FormAsks("toggle", 1, [copy EXCEPT !.on = ~@]).visit = visit
    BY <1>3, <1>a
  <2> QED BY <1>3, <1>10, <2>1 DEF Toggle
<1>11. CASE Remove BY <1>a, <1>11 DEF Remove
<1>12. CASE \E b \in UserFormSides : UserSide(b) BY <1>a, <1>12 DEF UserSide
<1>13. ASSUME NEW s \in sends, ServeForm(s) PROVE FormTypes'
  <2>1. ASSUME NEW st \in {"done", "refused"}, NEW r \in FormRows
        PROVE  [s EXCEPT !.state = st, !.row = r] \in FormRequests /\ [s EXCEPT !.state = st, !.row = r].visit = s.visit
    BY <1>1, <2>1 DEF FormRequests
  <2>2. record' \in FormRows BY <1>1, <1>13 DEF ServeForm, FormRows
  <2>3. PICK ok \in BOOLEAN :
          sends' = (sends \ {s}) \cup
            {[s EXCEPT !.state = IF ok THEN "done" ELSE "refused",
                       !.row = IF s.what \in {"list", "fill"} THEN record ELSE @]}
    BY <1>13 DEF ServeForm
  <2> DEFINE st == IF ok THEN "done" ELSE "refused"
             row == IF s.what \in {"list", "fill"} THEN record ELSE s.row
  <2>4. st \in {"done", "refused"} /\ row \in FormRows BY <1>1
  <2>5. sends' = (sends \ {s}) \cup {[s EXCEPT !.state = st, !.row = row]} BY <2>3
  <2> HIDE DEF st, row
  <2>6. sends' \subseteq FormRequests /\ \A r \in sends' : r.visit <= visit
    BY <1>1, <2>1, <2>4, <2>5
  <2> QED BY <1>13, <2>2, <2>6 DEF ServeForm
<1>14. ASSUME NEW s \in sends, NextStep(s) PROVE FormTypes'
  <2>1. [s EXCEPT !.step = @ + 1, !.state = "asked"] \in FormRequests
        /\ [s EXCEPT !.step = @ + 1, !.state = "asked"].visit = s.visit
    BY <1>1, StepType
  <2> QED BY <1>1, <1>14, <2>1 DEF NextStep
<1>15. ASSUME NEW s \in sends, Saved(s) PROVE FormTypes'
  BY <1>1, <1>b, <1>15 DEF Saved, Unlock
<1>16. ASSUME NEW s \in sends, SaveFails(s) PROVE FormTypes' BY <1>16 DEF SaveFails, Unlock
<1>17. ASSUME NEW s \in sends, CardLoads(s) \/ CardFails(s) PROVE FormTypes'
  <2>1. late' \in BOOLEAN BY <1>17, Zenon DEF CardLoads, CardFails
  <2>2. text' \in Nat BY <1>1, <1>17 DEF CardLoads, CardFails
  <2>3. UNCHANGED <<thisForm, record, copy, edits, visit, quick, locked, typed>> /\ sends' \subseteq sends
    BY <1>17 DEF CardLoads, CardFails
  <2> QED BY <1>1, <2>1, <2>2, <2>3
<1>20. ASSUME NEW s \in sends, ListLoads(s) \/ ListFails(s) PROVE FormTypes'
  <2>1. Rereads \subseteq FormRequests /\ \A r \in Rereads : r.visit = visit
    <3>1. NewRow \in FormRows BY DEF NewRow, FormRows
    <3>2. FormAsks("fill", 2, NewRow) \in FormRequests /\ FormAsks("fill", 2, NewRow).visit = visit
      BY <1>a, <3>1
    <3> QED BY <3>2 DEF Rereads
  <2> QED BY <1>1, <1>20, <2>1 DEF ListLoads, ListFails
<1>18. ASSUME NEW s \in sends, Toggled(s) \/ Removed(s) PROVE FormTypes'
  BY <1>b, <1>18 DEF Toggled, Removed
<1>19. ASSUME NEW s \in sends, SideDone(s) PROVE FormTypes'
  BY <1>b, <1>19 DEF SideDone, Unlock
<1> QED BY <1>4, <1>5, <1>6, <1>7, <1>8, <1>9, <1>10, <1>11, <1>12, <1>13, <1>14, <1>15, <1>16, <1>17, <1>18, <1>19, <1>20 DEF FormsNext

\* What an answer of the server changes in a request.
LEMMA ServedRequest ==
    ASSUME FormTypes, NEW s \in sends, ServeForm(s)
    PROVE  \E r \in FormRequests :
             /\ sends' = (sends \ {s}) \cup {r}
             /\ r.what = s.what /\ r.visit = s.visit /\ r.step = s.step /\ r.state # "asked"
             /\ s.what \notin {"list", "fill"} => r.row = s.row
             /\ savedTexts \subseteq savedTexts'
             /\ r.what = "save" /\ r.state = "done" /\ r.step = thisForm.steps => r.row.text \in savedTexts'
<1>1. PICK ok \in BOOLEAN :
        /\ sends' = (sends \ {s}) \cup
             {[s EXCEPT !.state = IF ok THEN "done" ELSE "refused",
                        !.row = IF s.what \in {"list", "fill"} THEN record ELSE @]}
        /\ savedTexts' = IF ok /\ s.what = "save" /\ s.step = thisForm.steps
                         THEN savedTexts \cup {s.row.text} ELSE savedTexts
  BY DEF ServeForm
<1> DEFINE st == IF ok THEN "done" ELSE "refused"
           row == IF s.what \in {"list", "fill"} THEN record ELSE s.row
           r == [s EXCEPT !.state = st, !.row = row]
<1>2. s \in FormRequests /\ record \in FormRows /\ s.row \in FormRows BY DEF FormTypes, FormRequests
<1>3. st \in {"done", "refused"} /\ row \in FormRows BY <1>2
<1>4. sends' = (sends \ {s}) \cup {r} BY <1>1
<1>5. (st = "done") = ok /\ (s.what \notin {"list", "fill"} => row = s.row) OBVIOUS
<1> HIDE DEF st, row
<1>6. /\ r \in FormRequests /\ r.what = s.what /\ r.visit = s.visit /\ r.step = s.step /\ r.state = st /\ r.row = row
  BY <1>2, <1>3 DEF FormRequests
<1> HIDE DEF r
<1> QED BY <1>1, <1>3, <1>4, <1>5, <1>6

\* A request the person makes: it is of this opening, and only a save or
\* another button of the window locks it.
LEMMA AskedIs ==
    ASSUME NEW what, NEW step, NEW row
    PROVE  LET r == FormAsks(what, step, row)
           IN  r.what = what /\ r.step = step /\ r.row = row /\ r.visit = visit /\ r.state = "asked"
BY DEF FormAsks

LEMMA ListAskedIs == ListAsked.what = "list" /\ ListAsked.visit = visit /\ ListAsked.state = "asked"
BY DEF ListAsked, FormAsks

LEMMA SavedIsStoredNext == ASSUME FormsInv, [FormsNext]_formVars PROVE SavedIsStored'
<1> USE DEF FormsInv, SavedIsStored, formVars, pageVars, windowVars, ghostVars
<1>1. \A s \in sends : s \in FormRequests BY DEF FormTypes
<1>4. CASE UNCHANGED formVars BY <1>4
<1>5. CASE FormPresses
  BY <1>5, AskedIs DEF FormPresses, RecordChanges, Open, TypeText, Save, Dismiss, GoBack, Leave, Cancel
<1>10. CASE Toggle \/ Remove BY <1>10, AskedIs DEF Toggle, Remove
<1>12. CASE \E b \in UserFormSides : UserSide(b) BY <1>12, AskedIs DEF UserSide
<1>13. ASSUME NEW s \in sends, ServeForm(s) PROVE SavedIsStored'
  <2>1. PICK r \in FormRequests :
          /\ sends' = (sends \ {s}) \cup {r}
          /\ r.what = s.what /\ r.visit = s.visit /\ r.step = s.step
          /\ s.what \notin {"list", "fill"} => r.row = s.row
          /\ savedTexts \subseteq savedTexts'
          /\ r.what = "save" /\ r.state = "done" /\ r.step = thisForm.steps => r.row.text \in savedTexts'
    BY <1>13, ServedRequest
  <2> QED BY <1>13, <2>1 DEF ServeForm
<1>14. ASSUME NEW s \in sends, NextStep(s) PROVE SavedIsStored'
  <2> DEFINE r == [s EXCEPT !.step = @ + 1, !.state = "asked"]
  <2>1. r.visit = s.visit /\ r.what = s.what /\ r.row = s.row /\ r.state = "asked" BY <1>1, StepType
  <2>2. sends' = (sends \ {s}) \cup {r} BY <1>14 DEF NextStep
  <2> HIDE DEF r
  <2> QED BY <1>1, <1>14, <2>1, <2>2 DEF NextStep
<1>15. ASSUME NEW s \in sends, Saved(s) \/ SaveFails(s) PROVE SavedIsStored'
  BY <1>15, ListAskedIs DEF Saved, SaveFails
<1>17. ASSUME NEW s \in sends, CardLoads(s) \/ CardFails(s) \/ ListLoads(s) \/ ListFails(s) PROVE SavedIsStored'
  BY <1>17, AskedIs DEF CardLoads, CardFails, ListLoads, ListFails, Rereads
<1>18. ASSUME NEW s \in sends, Toggled(s) \/ Removed(s) \/ SideDone(s) PROVE SavedIsStored'
  BY <1>18, ListAskedIs DEF Toggled, Removed, SideDone
<1> QED BY <1>4, <1>5, <1>10, <1>12, <1>13, <1>14, <1>15, <1>17, <1>18 DEF FormsNext, FormPresses

\* A text leaves the form when it was given up or stored, and every answer that
\* overwrites a newer one is called late.
LEMMA TypedIsKeptNext == ASSUME FormsInv, [FormsNext]_formVars PROVE TypedIsKept'
<1> USE DEF FormsInv, formVars, pageVars, windowVars, ghostVars, Unwritten
<1> DEFINE Excused == thisForm.fill \in {"follows", "again"} \/ thisForm.failure # "keeps" \/ late
           Gone == mine = Unwritten \/ mine \in savedTexts
           Kept == Gone \/ (window \in {"open", "asking"} /\ text = mine)
<1>1. Excused \/ Kept BY DEF TypedIsKept
<1>2. (Excused \/ Kept)' => TypedIsKept' BY DEF TypedIsKept
<1>3. late \in BOOLEAN BY DEF FormTypes
<1> SUFFICES (Excused \/ Kept)' BY <1>2
<1>4. CASE UNCHANGED formVars BY <1>1, <1>4
<1>5. CASE RecordChanges \/ Dismiss \/ GoBack \/ Leave \/ Cancel \/ Save
  BY <1>1, <1>5 DEF RecordChanges, Dismiss, GoBack, Leave, Cancel, Save
<1>6. CASE Open BY <1>1, <1>6 DEF Open
<1>7. CASE TypeText BY <1>7 DEF TypeText
<1>8. CASE Toggle \/ Remove \/ \E b \in UserFormSides : UserSide(b)
  BY <1>1, <1>8 DEF Toggle, Remove, UserSide
<1>9. ASSUME NEW s \in sends, ServeForm(s) PROVE (Excused \/ Kept)'
  <2>1. savedTexts \subseteq savedTexts' BY <1>9, ServedRequest
  <2> QED BY <1>1, <1>9, <2>1 DEF ServeForm
<1>10. ASSUME NEW s \in sends, Saved(s) PROVE (Excused \/ Kept)'
  <2>1. s.row.text \in savedTexts BY <1>10 DEF Saved, Answered, SavedIsStored
  <2>2. CASE s.row.text = mine BY <1>10, <2>1, <2>2 DEF Saved
  <2>3. CASE s.row.text # mine BY <1>10, <2>3 DEF Saved
  <2> QED BY <2>2, <2>3
<1>11. ASSUME NEW s \in sends, NextStep(s) \/ SaveFails(s) PROVE (Excused \/ Kept)'
  BY <1>1, <1>11 DEF NextStep, SaveFails
<1>12. ASSUME NEW s \in sends, CardLoads(s) \/ CardFails(s) PROVE (Excused \/ Kept)'
  BY <1>1, <1>12 DEF CardLoads, CardFails
<1>13. ASSUME NEW s \in sends, ListLoads(s) \/ ListFails(s) PROVE (Excused \/ Kept)'
  BY <1>1, <1>13 DEF ListLoads, ListFails
<1>14. ASSUME NEW s \in sends, Toggled(s) \/ Removed(s) PROVE (Excused \/ Kept)'
  BY <1>1, <1>14 DEF Toggled, Removed
<1>15. ASSUME NEW s \in sends, SideDone(s) PROVE (Excused \/ Kept)'
  BY <1>1, <1>3, <1>15 DEF SideDone
<1> QED BY <1>4, <1>5, <1>6, <1>7, <1>8, <1>9, <1>10, <1>11, <1>12, <1>13, <1>14, <1>15 DEF FormsNext

\* What a person typed last into a form and did not give up is in the form or
\* stored, in every form, whatever the order of openings, typings, answers and
\* failures, but for what the property names: fields read again with the list,
\* a form that clears itself, and answers asked for before the text was typed.
THEOREM TypedStays == FormsSpec => []TypedIsKept
<1>1. FormsInv /\ [FormsNext]_formVars => FormsInv'
  BY FormTypesNext, SavedIsStoredNext, TypedIsKeptNext DEF FormsInv
<1>2. FormsInv => TypedIsKept BY DEF FormsInv
<1> QED BY <1>1, <1>2, FormsBegin, PTL DEF FormsSpec

-----------------------------------------------------------------------------
(* Lists: what is shown in the end was asked last.                          *)

\* What the argument needs to know of the lists.
WellMade(f) ==
    /\ f.counts \in {"latest", "since", "keyed", "any"}
    /\ f.counts \in {"any", "keyed"} => f.pages # "turns"
    /\ f.pages = "more" => f.wipes /\ f.counts = "keyed" /\ f.types = "typed"
    /\ f.counts = "latest" /\ f.again = "done" =>
         /\ f.shows # "press"
         /\ f.types \in {"held", "late"} => ~f.polled /\ ~f.refresh

LEMMA ListsAreWellMade == \A f \in Lists : WellMade(f)
<1> USE DEF ++, WellMade, Reads, Filters, Unasked, Pages, Acts, NoActs, Unfiltered
<1>1. WellMade(CallsReads ++ CallsFilter ++ CallsFace ++ NoActs) BY DEF CallsReads, CallsFilter, CallsFace
<1>2. WellMade(CallHistoryReads ++ CallHistoryFace ++ NoActs) BY DEF CallHistoryReads, CallHistoryFace
<1>3. WellMade(CategoriesReads ++ CategoryMoves) BY DEF CategoriesReads, CategoryMoves
<1>4. WellMade(CategoriesReads ++ CategoryAdds) BY DEF CategoriesReads, CategoryAdds
<1>5. WellMade(EscalationReads ++ EscalationFilter ++ EscalationFace ++ NoActs)
  BY DEF EscalationReads, EscalationFilter, EscalationFace
<1>6. WellMade(AuditReads ++ AuditFilter ++ AuditFace ++ NoActs) BY DEF AuditReads, AuditFilter, AuditFace
<1>7. WellMade(CallbackReads ++ CallbackFace ++ CallbackActs) BY DEF CallbackReads, CallbackFace, CallbackActs
<1>8. WellMade(UsersReads ++ UsersFilter ++ UsersFace ++ UsersActs) BY DEF UsersReads, UsersFilter, UsersFace, UsersActs
<1>9. WellMade(RatingsReads ++ RatingsFilter ++ RatingsFace ++ RatingsActs)
  BY DEF RatingsReads, RatingsFilter, RatingsFace, RatingsActs
<1>10. WellMade(RatingLinkReads ++ RatingLinkCreate) BY DEF RatingLinkReads, RatingLinkCreate
<1>11. WellMade(RatingLinkReads ++ RatingLinkRevoke) BY DEF RatingLinkReads, RatingLinkRevoke
<1>12. WellMade(TeamReads ++ TeamFilter ++ TeamFace ++ NoActs) BY DEF TeamReads, TeamFilter, TeamFace
<1>13. WellMade(FollowupReads ++ FollowupFilter ++ UnreachedActs) BY DEF FollowupReads, FollowupFilter, UnreachedActs
<1>14. WellMade(ReportReads ++ ReportFace ++ NoActs) BY DEF ReportReads, ReportFace
<1>15. WellMade(LookupReads ++ LookupFace ++ NoActs) BY DEF LookupReads, LookupFace
<1>16. WellMade(WarningReads ++ WarningFace ++ NoActs) BY DEF WarningReads, WarningFace
<1>17. WellMade(NoticeReads ++ NoticeFace ++ NoticeActs) BY DEF NoticeReads, NoticeFace, NoticeActs
<1>18. WellMade(RoomSearch ++ NoActs) BY DEF RoomSearch
<1>19. WellMade(RoomMedia ++ NoActs) BY DEF RoomMedia
<1>20. WellMade(OlderChats ++ OlderMore ++ NoActs) BY DEF OlderChats, OlderMore
<1>21. WellMade(TicketHistory ++ TicketFace ++ TicketActs) BY DEF TicketHistory, TicketFace, TicketActs
<1>22. WellMade(EventsList) BY DEF EventsList, UsersActs
<1>23. WellMade(ProfileReads ++ NoActs) BY DEF ProfileReads
<1>24. WellMade(RecordReads ++ ReportFace ++ NoActs) BY DEF RecordReads, ReportFace
<1> HIDE DEF ++, WellMade, Reads, Filters, Unasked, Pages, Acts, NoActs, Unfiltered
<1> QED
  BY <1>1, <1>2, <1>3, <1>4, <1>5, <1>6, <1>7, <1>8, <1>9, <1>10, <1>11, <1>12, <1>13, <1>14, <1>15, <1>16,
     <1>17, <1>18, <1>19, <1>20, <1>21, <1>22, <1>23, <1>24
  DEF Lists
ListRequests ==
    [what : {"load", "more", "act"}, of : Filter, page : {1, 2}, n : Nat, era : Nat, acts : Nat,
     state : {"asked", "done", "refused"}, nth : Nat]
Tables == [there : BOOLEAN, of : Filter, page : {1, 2}, acts : Nat, parts : SUBSET Filter]
ListTypes ==
    /\ thisList \in Lists
    /\ chosen \in Filter /\ applied \in Filter /\ waiting \in BOOLEAN /\ pageNo \in {1, 2}
    /\ table \in Tables /\ loading \in BOOLEAN /\ error \in BOOLEAN
    /\ era \in Nat /\ newest \in Nat /\ acted \in Nat /\ acts \in Nat /\ mores \in Nat
    /\ asks \subseteq ListRequests
    /\ \A r \in asks : r.n <= newest /\ r.era <= era

Fit == ~Unfit(applied)
HeldBack == Held /\ waiting
Reading(r) == r.what = "load" /\ Counts(r)
Anyway == thisList.counts = "any" => thisList.picks \cup thisList.texts = {"a", "x"}
First == [pick |-> "a", text |-> "x"]

\* A wait that is over was applied, and a list held back applies at once.
IsApplied == /\ chosen.pick = applied.pick /\ (~waiting \/ Held => chosen = applied)
             /\ thisList.pages # "turns" => pageNo = 1
\* What a list that takes any answer can be asked is one thing.
OneQuestion ==
    thisList.counts = "any" /\ Anyway =>
      chosen = First /\ applied = First /\ ~waiting /\ \A r \in asks : r.of = First
\* A reading that counts is of what the screen asks.
ReadsWhatIsAsked ==
    /\ thisList.pages # "turns" => \A r \in asks : r.page = 1
    /\ Fit /\ Anyway => \A r \in asks : Reading(r) => r.of = applied /\ r.page = pageNo
\* A list that loads is held back, or waits for an answer that counts.
LoadingIsAsked ==
    loading /\ Fit =>
      \/ HeldBack
      \/ \E r \in asks : Reading(r)
      \/ thisList.pages = "more" /\ \E r \in asks : r.what = "more" /\ Counts(r)
ScreenIsDue ==
    Fit /\ Anyway =>
      \/ error \/ HeldBack \/ \E r \in asks : Reading(r)
      \/ table.there /\ table.of = applied /\ table.page = pageNo
PartsFit ==
    /\ thisList.pages \notin {"more", "free"} => table.parts = {} /\ \A r \in asks : r.what # "more"
    /\ thisList.pages = "more" /\ Fit => table.parts \subseteq {applied}
DoneAct == \E r \in asks : r.what = "act" /\ r.state = "done"
ActsAreDue ==
    thisList.counts = "latest" /\ thisList.again = "done" =>
      /\ \A r, s \in asks : Reading(r) /\ Reading(s) => r = s
      /\ HeldBack => \A r \in asks : ~Reading(r)
      /\ Fit =>
           /\ \A r \in asks : Reading(r) /\ r.state = "done" => r.acts = acted \/ DoneAct
           /\ error \/ HeldBack \/ DoneAct \/ table.acts = acted \/ \E r \in asks : Reading(r)
ListsInv ==
    ListTypes /\ IsApplied /\ OneQuestion /\ ReadsWhatIsAsked /\ LoadingIsAsked /\ ScreenIsDue /\ PartsFit /\ ActsAreDue

-----------------------------------------------------------------------------
LEMMA FilterShape ==
    \A f \in Filter : /\ f.pick \in Ranged /\ f.text \in Searched
                      /\ \A p \in Ranged : [f EXCEPT !.pick = p] \in Filter
                                           /\ [f EXCEPT !.pick = p].pick = p /\ [f EXCEPT !.pick = p].text = f.text
                      /\ \A t \in Searched : [f EXCEPT !.text = t] \in Filter
                                           /\ [f EXCEPT !.text = t].pick = f.pick /\ [f EXCEPT !.text = t].text = t
                      /\ \A g \in Filter : f.pick = g.pick /\ f.text = g.text => f = g
BY DEF Filter

LEMMA FirstIsFilter == First \in Filter /\ First.pick = "a" /\ First.text = "x" /\ "b" # "a"
BY DEF First, Filter, Ranged, Picked, Searched, Typed

LEMMA TableShape ==
    /\ Blank \in Tables /\ ~Blank.there /\ Blank.parts = {}
    /\ \A t \in Tables : /\ t.acts \in Nat /\ t.parts \subseteq Filter
                         /\ \A n \in Nat : LET u == [t EXCEPT !.acts = n]
                                           IN  /\ u \in Tables /\ u.acts = n /\ u.there = t.there /\ u.of = t.of
                                               /\ u.page = t.page /\ u.parts = t.parts
                         /\ \A f \in Filter : LET u == [t EXCEPT !.parts = @ \cup {f}]
                                              IN  /\ u \in Tables /\ u.parts = t.parts \cup {f}
                                                  /\ u.there = t.there /\ u.of = t.of /\ u.page = t.page /\ u.acts = t.acts
BY DEF Tables, Blank, Filter, Ranged, Picked, Searched, Typed

LEMMA RequestShape ==
    \A r \in ListRequests : /\ r.what \in {"load", "more", "act"} /\ r.of \in Filter /\ r.page \in {1, 2}
                            /\ r.n \in Nat /\ r.era \in Nat /\ r.acts \in Nat
BY DEF ListRequests

LEMMA AskedList ==
    ASSUME ListTypes, NEW what \in {"load", "more", "act"}, NEW f \in Filter, NEW pg \in {1, 2}, NEW n \in Nat, NEW e \in Nat
    PROVE  LET r == ListAsks(what, f, pg, n, e)
           IN  /\ r \in ListRequests /\ r.what = what /\ r.of = f /\ r.page = pg /\ r.n = n /\ r.era = e
               /\ r.state = "asked"
BY TableShape DEF ListAsks, ListRequests, ListTypes

LEMMA ServedList ==
    ASSUME ListTypes, NEW s \in asks, ServeList(s)
    PROVE  \E r \in ListRequests :
             /\ asks' = (asks \ {s}) \cup {r}
             /\ r.what = s.what /\ r.of = s.of /\ r.page = s.page /\ r.n = s.n /\ r.era = s.era
             /\ r.state \in {"done", "refused"} /\ s.state = "asked"
             /\ r.what = "load" => r.acts = acted /\ acted' = acted
             /\ r.what = "act" /\ r.state = "done" => acted' = acted + 1
             /\ r.what # "act" \/ r.state # "done" => acted' = acted
<1>1. PICK ok \in BOOLEAN :
        /\ acted' = IF ok /\ s.what = "act" THEN acted + 1 ELSE acted
        /\ asks' = (asks \ {s}) \cup {[s EXCEPT !.state = IF ok THEN "done" ELSE "refused",
                                                !.acts = IF s.what = "load" THEN acted ELSE @]}
  BY DEF ServeList
<1> DEFINE st == IF ok THEN "done" ELSE "refused"
           n == IF s.what = "load" THEN acted ELSE s.acts
           r == [s EXCEPT !.state = st, !.acts = n]
<1>2. s \in ListRequests /\ acted \in Nat /\ s.acts \in Nat BY RequestShape DEF ListTypes
<1>3. st \in {"done", "refused"} /\ n \in Nat /\ ((st = "done") = ok) /\ (s.what = "load" => n = acted) BY <1>2
<1>4. asks' = (asks \ {s}) \cup {r} BY <1>1
<1> HIDE DEF st, n
<1>6. /\ r \in ListRequests /\ r.what = s.what /\ r.of = s.of /\ r.page = s.page /\ r.n = s.n /\ r.era = s.era
      /\ r.state = st /\ r.acts = n
  BY <1>2, <1>3 DEF ListRequests
<1>7. s.state = "asked" BY DEF ServeList
<1> HIDE DEF r
<1> QED BY <1>1, <1>3, <1>4, <1>6, <1>7

LEMMA ListsBegin == ASSUME ListsInit PROVE ListsInv
<1> USE DEF ListsInit
<1> DEFINE r == [what |-> "load", of |-> chosen, page |-> 1, n |-> 1, era |-> 1, acts |-> 0, state |-> "asked", nth |-> 0]
<1>1. chosen \in Filter /\ chosen.pick = "a" /\ chosen.text = IF "short" \in thisList.texts THEN "short" ELSE "x"
  BY DEF Filter, Ranged, Picked, Searched, Typed
<1>2. /\ r \in ListRequests /\ r.what = "load" /\ r.of = applied /\ r.page = 1 /\ r.n = 1 /\ r.era = 1 /\ r.state = "asked"
  BY <1>1 DEF ListRequests
<1>3. asks = IF Unfit(chosen) THEN {} ELSE {r} BY DEF ListsInit
<1> HIDE DEF r
<1>4. ListTypes
  <2>1. asks \subseteq ListRequests /\ \A s \in asks : s.n <= newest /\ s.era <= era
    <3>1. r.n <= newest /\ r.era <= era BY <1>2
    <3> QED BY <1>2, <1>3, <3>1
  <2>2. table \in Tables BY TableShape
  <2>3. loading \in BOOLEAN BY DEF Unfit
  <2> QED BY <1>1, <2>1, <2>2, <2>3 DEF ListTypes
<1>5. IsApplied BY DEF IsApplied
<1>6. Fit => asks = {r} /\ Reading(r) BY <1>2, <1>3 DEF Fit, Reading, Counts
<1>7. OneQuestion
  <2>1. Anyway /\ thisList.counts = "any" => chosen = First
    <3> SUFFICES ASSUME Anyway, thisList.counts = "any" PROVE chosen = First OBVIOUS
    <3>1. "short" \notin thisList.texts BY DEF Anyway
    <3> QED BY <1>1, <3>1 DEF First
  <2> QED BY <1>2, <1>3, <2>1 DEF OneQuestion
<1>8. ReadsWhatIsAsked BY <1>2, <1>3 DEF ReadsWhatIsAsked
<1>9. LoadingIsAsked /\ ScreenIsDue BY <1>6 DEF LoadingIsAsked, ScreenIsDue, Fit
<1>10. PartsFit BY <1>2, <1>3, TableShape DEF PartsFit
<1>11. ActsAreDue BY <1>2, <1>3, <1>6 DEF ActsAreDue, HeldBack
<1> QED BY <1>4, <1>5, <1>7, <1>8, <1>9, <1>10, <1>11 DEF ListsInv

-----------------------------------------------------------------------------
(* What a step does to the asking.                                         *)

AsksAgain ==
    /\ Fit' /\ Ask(applied', pageNo') /\ UNCHANGED <<thisList, acted, acts, mores>>
    /\ HeldBack' => thisList.refresh
AsksNothing == ~Fit' /\ AskNothing /\ ~HeldBack' /\ UNCHANGED <<thisList, acted, acts, mores>>
HoldsBack ==
    /\ Fit' /\ HeldBack' /\ Held
    /\ era' = era + 1 /\ newest' = newest + 1 /\ loading' \in BOOLEAN
    /\ UNCHANGED <<thisList, table, error, asks, acted, acts, mores>>
Resumes ==
    /\ HeldBack /\ ~HeldBack' /\ loading'
    /\ asks' = asks \cup {ListAsks("load", applied, pageNo, newest, era)}
    /\ UNCHANGED <<thisList, applied, pageNo, era, newest, table, error, acted, acts, mores>>
Waits ==
    /\ ~HeldBack /\ ~HeldBack' 
    /\ UNCHANGED <<thisList, applied, pageNo, era, newest, screenVars, asks, acted, acts, mores>>
Rests == UNCHANGED listVars

LEMMA HoldIs ==
    ASSUME NEW f, NEW pg, Held, Hold(f, pg), UNCHANGED <<thisList, acted, acts, mores>>, ListTypes
    PROVE  HoldsBack \/ AsksNothing
BY DEF Hold, HoldsBack, AsksNothing, Fit, HeldBack, Held, ListTypes

\* What a person does to the filter, the pages and the button to read again has
\* five outcomes.
LEMMA StepKinds ==
    ASSUME ListTypes, [ListsNext]_listVars
    PROVE  \/ AsksAgain \/ AsksNothing \/ HoldsBack \/ Resumes \/ Waits \/ Rests \/ PollList \/ More \/ Act
           \/ \E r \in asks : ServeList(r) \/ Answer(r) \/ AnswerMore(r) \/ ActAnswered(r)
<1> DEFINE Accounted == AsksAgain \/ AsksNothing \/ HoldsBack \/ Resumes \/ Waits
<1> USE DEF countVars, filterVars, screenVars
<1>1. ASSUME NEW p \in Ranged, Pick(p) PROVE Accounted
  <2>1. CASE Held BY <1>1, <2>1, HoldIs DEF Pick
  <2>2. CASE ~Held BY <1>1, <2>2 DEF Pick, AsksAgain, AsksNothing, Fit, HeldBack, Held
  <2> QED BY <2>1, <2>2
<1>2. ASSUME NEW t \in Searched, TypeFilter(t) PROVE Accounted
  <2>1. CASE Held BY <1>2, <2>1, HoldIs DEF TypeFilter
  <2>2. CASE ~Held BY <1>2, <2>2 DEF TypeFilter, Waits, HeldBack, Held
  <2> QED BY <2>1, <2>2
<1>3. CASE Settle
  <2>1. CASE Held BY <1>3, <2>1 DEF Settle, Resumes, HeldBack, Held, ListTypes
  <2>2. CASE ~Held /\ chosen = applied BY <1>3, <2>2 DEF Settle, Waits, HeldBack, Held
  <2>3. CASE ~Held /\ chosen # applied
    BY <1>3, <2>3 DEF Settle, ApplyFilter, AsksAgain, AsksNothing, HeldBack, Held, Fit
  <2> QED BY <2>1, <2>2, <2>3
<1>4. CASE Turn
  <2>1. CASE Held BY <1>4, <2>1, HoldIs DEF Turn
  <2>2. CASE ~Held BY <1>4, <2>2 DEF Turn, AsksAgain, HeldBack, Held, Fit
  <2> QED BY <2>1, <2>2
<1>5. CASE Refresh BY <1>5 DEF Refresh, AsksAgain, Fit
<1>6. CASE UNCHANGED listVars BY <1>6 DEF Rests
<1> QED BY <1>1, <1>2, <1>3, <1>4, <1>5, <1>6 DEF ListsNext

LEMMA FilterNext ==
    ASSUME ListTypes, IsApplied, [ListsNext]_listVars
    PROVE  /\ chosen' \in Filter /\ applied' \in Filter /\ waiting' \in BOOLEAN /\ pageNo' \in {1, 2}
           /\ IsApplied'
<1> DEFINE Target == /\ chosen' \in Filter /\ applied' \in Filter /\ waiting' \in BOOLEAN /\ pageNo' \in {1, 2}
                     /\ IsApplied'
<1> USE FilterShape DEF ListTypes, IsApplied, countVars, filterVars, screenVars
<1>1. ASSUME NEW p \in Ranged, Pick(p) PROVE Target
  <2>1. CASE Held
    <3>1. /\ chosen' = [chosen EXCEPT !.pick = p] /\ applied' = chosen' /\ pageNo' = 1
          /\ waiting' \in BOOLEAN /\ thisList' = thisList
      BY <1>1, <2>1 DEF Pick, Hold
    <3>2. chosen' \in Filter BY <3>1
    <3> QED BY <2>1, <3>1, <3>2 DEF Held
  <2>2. CASE ~Held
    <3>1. /\ chosen' = [chosen EXCEPT !.pick = p] /\ applied' = [applied EXCEPT !.pick = p] /\ pageNo' = 1
          /\ waiting' = waiting /\ thisList' = thisList
      BY <1>1, <2>2 DEF Pick
    <3>2. /\ chosen' \in Filter /\ applied' \in Filter /\ chosen'.pick = p /\ applied'.pick = p
          /\ chosen = applied => chosen' = applied'
      BY <3>1
    <3> QED BY <2>2, <3>1, <3>2 DEF Held
  <2> QED BY <2>1, <2>2
<1>2. ASSUME NEW t \in Searched, TypeFilter(t) PROVE Target
  <2>1. CASE Held
    <3>1. /\ chosen' = [chosen EXCEPT !.text = t] /\ applied' = chosen' /\ pageNo' = 1
          /\ waiting' \in BOOLEAN /\ thisList' = thisList
      BY <1>2, <2>1 DEF TypeFilter, Hold
    <3>2. chosen' \in Filter BY <3>1
    <3> QED BY <2>1, <3>1, <3>2 DEF Held
  <2>2. CASE ~Held BY <1>2, <2>2 DEF TypeFilter, Held
  <2> QED BY <2>1, <2>2
<1>3. CASE Settle
  <2>1. CASE Held BY <1>3, <2>1 DEF Settle, Held
  <2>2. CASE ~Held BY <1>3, <2>2 DEF Settle, ApplyFilter, Held
  <2> QED BY <2>1, <2>2
<1>4. CASE Turn
  <2>1. 3 - pageNo \in {1, 2} OBVIOUS
  <2>2. CASE Held BY <1>4, <2>1, <2>2 DEF Turn, Hold, Held
  <2>3. CASE ~Held BY <1>4, <2>1, <2>3 DEF Turn, Held
  <2> QED BY <2>2, <2>3
<1>5. CASE Refresh \/ PollList \/ More \/ Act \/ UNCHANGED listVars
  BY <1>5 DEF Refresh, PollList, More, Act, listVars, Held
<1>6. ASSUME NEW r \in asks, ServeList(r) \/ Answer(r) \/ AnswerMore(r) \/ ActAnswered(r) PROVE Target
  BY <1>6 DEF ServeList, Answer, AnswerMore, ActAnswered, Held
<1> QED BY <1>1, <1>2, <1>3, <1>4, <1>5, <1>6 DEF ListsNext

LEMMA FreshRequest ==
    ASSUME ListTypes, applied' \in Filter, pageNo' \in {1, 2}, Ask(applied', pageNo'), UNCHANGED thisList
    PROVE  \E q \in ListRequests :
             /\ asks' = asks \cup {q}
             /\ q.what = "load" /\ q.of = applied' /\ q.page = pageNo' /\ q.n = newest' /\ q.era = era'
             /\ q.state = "asked" /\ era' = era + 1 /\ newest' = newest + 1
<1> DEFINE q == ListAsks("load", applied', pageNo', newest + 1, era + 1)
<1>1. newest + 1 \in Nat /\ era + 1 \in Nat BY DEF ListTypes
<1>2. /\ q \in ListRequests /\ q.what = "load" /\ q.of = applied' /\ q.page = pageNo' /\ q.n = newest + 1
      /\ q.era = era + 1 /\ q.state = "asked"
  BY <1>1, AskedList
<1>3. asks' = asks \cup {q} /\ era' = era + 1 /\ newest' = newest + 1 BY DEF Ask
<1> HIDE DEF q
<1> QED BY <1>2, <1>3

LEMMA ReadAgainRequest ==
    ASSUME ListTypes, ReadAgain, era' = era
    PROVE  \E q \in ListRequests :
             /\ asks' = asks \cup {q}
             /\ q.what = "load" /\ q.of = applied /\ q.page = pageNo /\ q.n = newest' /\ q.era = era
             /\ q.state = "asked" /\ newest' = newest + 1
<1>1. newest + 1 \in Nat /\ era \in Nat /\ applied \in Filter /\ pageNo \in {1, 2} BY DEF ListTypes
<1> DEFINE q == ListAsks("load", applied, pageNo, newest + 1, era)
<1>2. /\ q \in ListRequests /\ q.what = "load" /\ q.of = applied /\ q.page = pageNo /\ q.n = newest + 1
      /\ q.era = era /\ q.state = "asked"
  BY <1>1, AskedList
<1>3. asks' = asks \cup {q} /\ newest' = newest + 1 BY DEF ReadAgain
<1> HIDE DEF q
<1> QED BY <1>2, <1>3

LEMMA ResumedRequest ==
    ASSUME ListTypes, Resumes
    PROVE  \E q \in ListRequests :
             /\ asks' = asks \cup {q}
             /\ q.what = "load" /\ q.of = applied /\ q.page = pageNo /\ q.n = newest /\ q.era = era /\ q.state = "asked"
<1>1. newest \in Nat /\ era \in Nat /\ applied \in Filter /\ pageNo \in {1, 2} BY DEF ListTypes
<1> DEFINE q == ListAsks("load", applied, pageNo, newest, era)
<1>2. /\ q \in ListRequests /\ q.what = "load" /\ q.of = applied /\ q.page = pageNo /\ q.n = newest
      /\ q.era = era /\ q.state = "asked"
  BY <1>1, AskedList
<1>3. asks' = asks \cup {q} BY DEF Resumes
<1> HIDE DEF q
<1> QED BY <1>2, <1>3

LEMMA ActRequest ==
    ASSUME ListTypes, Act
    PROVE  \E q \in ListRequests :
             asks' = asks \cup {q} /\ q.what = "act" /\ q.of = applied /\ q.page = pageNo /\ q.state = "asked"
             /\ q.n = newest /\ q.era = era
<1>1. newest \in Nat /\ era \in Nat /\ applied \in Filter /\ pageNo \in {1, 2} BY DEF ListTypes
<1> QED BY <1>1, AskedList DEF Act

LEMMA MoreRequest ==
    ASSUME ListTypes, More
    PROVE  \E q \in ListRequests :
             asks' = asks \cup {q} /\ q.what = "more" /\ q.of = applied /\ q.page = pageNo /\ q.state = "asked"
             /\ q.n = newest /\ q.era = era
<1>1. newest \in Nat /\ era \in Nat /\ applied \in Filter /\ pageNo \in {1, 2} BY DEF ListTypes
<1> QED BY <1>1, AskedList DEF More

\* What an answered press does to the asking: nothing more, or one reading.
LEMMA ActAnsweredKinds ==
    ASSUME ListTypes, NEW r \in asks, ActAnswered(r)
    PROVE  \/ /\ asks' = asks \ {r} /\ UNCHANGED <<newest, loading>>
              /\ ~(thisList.again \in {"always", r.state} /\ ~HeldBack /\ Fit)
           \/ \E q \in ListRequests :
                /\ asks' = (asks \ {r}) \cup {q} /\ ~HeldBack /\ Fit
                /\ q.what = "load" /\ q.of = applied /\ q.page = pageNo /\ q.n = newest' /\ q.era = era
                /\ q.state = "asked" /\ newest' = newest + 1
                /\ loading' = (loading \/ thisList.counts = "latest")
<1>1. newest + 1 \in Nat /\ era \in Nat /\ applied \in Filter /\ pageNo \in {1, 2} BY DEF ListTypes
<1>2. CASE thisList.again \in {"always", r.state} /\ ~HeldBack /\ Fit
  <2> DEFINE q == ListAsks("load", applied, pageNo, newest + 1, era)
  <2>1. /\ q \in ListRequests /\ q.what = "load" /\ q.of = applied /\ q.page = pageNo /\ q.n = newest + 1
        /\ q.era = era /\ q.state = "asked"
    BY <1>1, AskedList
  <2>2. /\ newest' = newest + 1 /\ loading' = (loading \/ thisList.counts = "latest")
        /\ asks' = (asks \ {r}) \cup {q}
    BY <1>2 DEF ActAnswered, HeldBack, Fit
  <2> HIDE DEF q
  <2> QED BY <1>2, <2>1, <2>2
<1>3. CASE ~(thisList.again \in {"always", r.state} /\ ~HeldBack /\ Fit)
  BY <1>3 DEF ActAnswered, HeldBack, Fit
<1> QED BY <1>2, <1>3

LEMMA ListTypesNext == ASSUME ListTypes, IsApplied, [ListsNext]_listVars PROVE ListTypes'
<1>1. /\ chosen' \in Filter /\ applied' \in Filter /\ waiting' \in BOOLEAN /\ pageNo' \in {1, 2}
  BY FilterNext
<1> DEFINE Rest == /\ thisList' \in Lists /\ table' \in Tables /\ loading' \in BOOLEAN /\ error' \in BOOLEAN
                   /\ era' \in Nat /\ newest' \in Nat /\ acted' \in Nat /\ acts' \in Nat /\ mores' \in Nat
                   /\ asks' \subseteq ListRequests
                   /\ \A r \in asks' : r.n <= newest' /\ r.era <= era'
<1>2. /\ \A r \in asks : r \in ListRequests /\ r.n \in Nat /\ r.era \in Nat /\ r.acts \in Nat /\ r.of \in Filter
      /\ Blank \in Tables
  BY RequestShape, TableShape DEF ListTypes
<1> USE DEF countVars, filterVars, screenVars
<1>3. CASE AsksAgain
  <2>1. PICK q \in ListRequests :
             /\ asks' = asks \cup {q}
             /\ q.what = "load" /\ q.of = applied' /\ q.page = pageNo' /\ q.n = newest' /\ q.era = era'
             /\ q.state = "asked" /\ era' = era + 1 /\ newest' = newest + 1
    BY <1>1, <1>3, FreshRequest DEF AsksAgain
  <2>2. Rest BY <1>2, <1>3, <2>1 DEF AsksAgain, Ask, ListTypes
  <2> QED BY <1>1, <2>2 DEF ListTypes
<1>4. CASE AsksNothing BY <1>1, <1>2, <1>4 DEF AsksNothing, AskNothing, ListTypes
<1>5. CASE HoldsBack BY <1>1, <1>2, <1>5 DEF HoldsBack, ListTypes
<1>6. CASE Resumes
  <2>1. PICK q \in ListRequests : asks' = asks \cup {q} /\ q.n = newest /\ q.era = era BY <1>6, ResumedRequest
  <2>2. Rest BY <1>2, <1>6, <2>1 DEF Resumes, ListTypes
  <2> QED BY <1>1, <2>2 DEF ListTypes
<1>7. CASE Waits BY <1>1, <1>7 DEF Waits, ListTypes
<1>8. CASE Rests BY <1>8 DEF Rests, listVars, ListTypes
<1>9. CASE PollList
  <2>1. PICK q \in ListRequests : asks' = asks \cup {q} /\ q.n = newest' /\ q.era = era /\ newest' = newest + 1
    BY <1>9, ReadAgainRequest DEF PollList
  <2>2. Rest BY <1>2, <1>9, <2>1 DEF PollList, ReadAgain, ListTypes
  <2> QED BY <1>1, <2>2 DEF ListTypes
<1>10. CASE More
  <2>1. PICK q \in ListRequests : asks' = asks \cup {q} /\ q.n = newest /\ q.era = era BY <1>10, MoreRequest
  <2>2. Rest BY <1>2, <1>10, <2>1 DEF More, ListTypes
  <2> QED BY <1>1, <2>2 DEF ListTypes
<1>11. CASE Act
  <2>1. PICK q \in ListRequests : asks' = asks \cup {q} /\ q.n = newest /\ q.era = era BY <1>11, ActRequest
  <2>2. table' \in Tables BY <1>11, TableShape DEF Act, ListTypes
  <2>3. Rest BY <1>2, <1>11, <2>1, <2>2 DEF Act, ListTypes
  <2> QED BY <1>1, <2>3 DEF ListTypes
<1>12. ASSUME NEW r \in asks, ServeList(r) PROVE ListTypes'
  <2>1. PICK q \in ListRequests : asks' = (asks \ {r}) \cup {q} /\ q.n = r.n /\ q.era = r.era /\ acted' \in Nat
    BY <1>12, ServedList DEF ListTypes
  <2>2. Rest BY <1>2, <1>12, <2>1 DEF ServeList, ListTypes
  <2> QED BY <1>1, <2>2 DEF ListTypes
<1>13. ASSUME NEW r \in asks, Answer(r) PROVE ListTypes'
  <2>1. [there |-> TRUE, of |-> r.of, page |-> r.page, acts |-> r.acts, parts |-> {}] \in Tables
    BY <1>2, RequestShape DEF Tables
  <2>2. table' \in Tables /\ loading' \in BOOLEAN /\ error' \in BOOLEAN
    BY <1>2, <1>13, <2>1 DEF Answer, ListTypes
  <2> QED BY <1>1, <1>13, <2>2 DEF Answer, ListTypes
<1>14. ASSUME NEW r \in asks, AnswerMore(r) PROVE ListTypes'
  <2>1. \A t \in Tables : [t EXCEPT !.parts = @ \cup {r.of}] \in Tables BY <1>2, TableShape
  <2>2. CASE UNCHANGED screenVars BY <1>1, <1>14, <2>2 DEF AnswerMore, ListTypes
  <2>3. CASE /\ loading' = (loading /\ thisList.pages = "free") /\ error' = (error \/ r.state = "refused")
             /\ table' = IF r.state = "done" THEN [table EXCEPT !.parts = @ \cup {r.of}] ELSE table
    BY <1>1, <1>14, <2>1, <2>3 DEF AnswerMore, ListTypes
  <2> QED BY <1>14, <2>2, <2>3 DEF AnswerMore
<1>15. ASSUME NEW r \in asks, ActAnswered(r) PROVE ListTypes'
  <2>1. table' \in Tables /\ error' \in BOOLEAN
    BY <1>2, <1>15, TableShape DEF ActAnswered, ListTypes
  <2>2. asks' \subseteq ListRequests /\ newest' \in Nat /\ loading' \in BOOLEAN /\ \A s \in asks' : s.n <= newest' /\ s.era <= era
    <3>1. newest \in Nat /\ loading \in BOOLEAN /\ \A s \in asks : s.n <= newest /\ s.era <= era BY DEF ListTypes
    <3>2. era \in Nat /\ era <= era BY DEF ListTypes
    <3>3. CASE asks' = asks \ {r} /\ UNCHANGED <<newest, loading>> BY <1>2, <3>1, <3>3
    <3>4. CASE \E q \in ListRequests :
                /\ asks' = (asks \ {r}) \cup {q} /\ q.n = newest' /\ q.era = era
                /\ newest' = newest + 1 /\ loading' = (loading \/ thisList.counts = "latest")
      BY <1>2, <3>1, <3>2, <3>4
    <3> QED BY <1>15, <3>3, <3>4, ActAnsweredKinds
  <2> QED BY <1>1, <1>15, <2>1, <2>2 DEF ActAnswered, ListTypes
<1> QED BY <1>3, <1>4, <1>5, <1>6, <1>7, <1>8, <1>9, <1>10, <1>11, <1>12, <1>13, <1>14, <1>15, StepKinds

LEMMA ThisIsWellMade == ASSUME ListTypes PROVE WellMade(thisList)
BY ListsAreWellMade DEF ListTypes

\* Every step but a reading by the clock, further rows, a press or an answer
\* leaves what the lists of one question ask as it is.
LEMMA OneQuestionNext == ASSUME ListsInv, [ListsNext]_listVars PROVE OneQuestion'
<1> USE DEF ListsInv, OneQuestion, Anyway, countVars, filterVars, screenVars
<1> SUFFICES ASSUME thisList'.counts = "any", Anyway'
             PROVE  chosen' = First /\ applied' = First /\ ~waiting' /\ \A r \in asks' : r.of = First
  OBVIOUS
<1>1. thisList' = thisList
  <2>1. ASSUME NEW p \in Ranged, NEW t \in Searched, Pick(p) \/ TypeFilter(t) \/ Settle \/ Turn \/ Refresh
        PROVE  thisList' = thisList
    BY <2>1 DEF Pick, TypeFilter, Settle, Turn, Refresh
  <2>2. "a" \in Ranged /\ "x" \in Searched BY DEF Ranged, Picked, Searched, Typed
  <2>3. ASSUME NEW r \in asks, ServeList(r) \/ Answer(r) \/ AnswerMore(r) \/ ActAnswered(r) PROVE thisList' = thisList
    BY <2>3 DEF ServeList, Answer, AnswerMore, ActAnswered
  <2>4. PollList \/ More \/ Act \/ UNCHANGED listVars => thisList' = thisList
    BY DEF PollList, More, Act, listVars
  <2> QED BY <2>1, <2>2, <2>3, <2>4 DEF ListsNext
<1>2. chosen = First /\ applied = First /\ ~waiting /\ \A r \in asks : r.of = First
  BY <1>1
<1>3. thisList.pages # "turns" BY <1>1, ThisIsWellMade DEF WellMade
<1>4. thisList.picks \cup thisList.texts = {"a", "x"} BY <1>1
<1>5. ASSUME NEW p \in Ranged, Pick(p) PROVE FALSE
  <2>1. p = "x" BY <1>2, <1>4, <1>5 DEF Pick, First
  <2> QED BY <2>1 DEF Ranged, Picked
<1>6. ASSUME NEW t \in Searched, TypeFilter(t) PROVE FALSE
  <2>1. t = "a" BY <1>2, <1>4, <1>6 DEF TypeFilter, First
  <2> QED BY <2>1 DEF Searched, Typed
<1>7. ~Settle /\ ~Turn BY <1>2, <1>3 DEF Settle, Turn
<1>8. applied \in Filter /\ pageNo \in {1, 2} BY DEF ListTypes
<1> DEFINE Target == chosen' = First /\ applied' = First /\ ~waiting' /\ \A r \in asks' : r.of = First
<1>9. CASE Refresh
  <2>1. PICK q \in ListRequests : asks' = asks \cup {q} /\ q.of = applied' BY <1>1, <1>8, <1>9, FreshRequest DEF Refresh
  <2> QED BY <1>2, <1>9, <2>1 DEF Refresh
<1>10. CASE PollList
  <2>1. PICK q \in ListRequests : asks' = asks \cup {q} /\ q.of = applied BY <1>10, ReadAgainRequest DEF PollList
  <2> QED BY <1>2, <1>10, <2>1 DEF PollList
<1>11. CASE More
  <2>1. PICK q \in ListRequests : asks' = asks \cup {q} /\ q.of = applied BY <1>11, MoreRequest
  <2> QED BY <1>2, <1>11, <2>1 DEF More
<1>12. CASE Act
  <2>1. PICK q \in ListRequests : asks' = asks \cup {q} /\ q.of = applied BY <1>12, ActRequest
  <2> QED BY <1>2, <1>12, <2>1 DEF Act
<1>13. ASSUME NEW r \in asks, ServeList(r) PROVE Target
  <2>1. PICK q \in ListRequests : asks' = (asks \ {r}) \cup {q} /\ q.of = r.of BY <1>13, ServedList
  <2> QED BY <1>2, <1>13, <2>1 DEF ServeList
<1>14. ASSUME NEW r \in asks, Answer(r) \/ AnswerMore(r) PROVE Target BY <1>2, <1>14 DEF Answer, AnswerMore
<1>15. ASSUME NEW r \in asks, ActAnswered(r) PROVE Target
  <2>1. asks' = asks \ {r} \/ \E q \in ListRequests : asks' = (asks \ {r}) \cup {q} /\ q.of = applied
    BY <1>15, ActAnsweredKinds
  <2> QED BY <1>2, <1>15, <2>1 DEF ActAnswered
<1>16. CASE UNCHANGED listVars BY <1>2, <1>16 DEF listVars
<1> QED BY <1>5, <1>6, <1>7, <1>9, <1>10, <1>11, <1>12, <1>13, <1>14, <1>15, <1>16 DEF ListsNext

\* The kinds of steps leave the list what it is.
LEMMA SameList == ASSUME ListTypes, [ListsNext]_listVars PROVE thisList' = thisList /\ Held' = Held
<1> SUFFICES thisList' = thisList BY DEF Held
<1>1. AsksAgain \/ AsksNothing \/ HoldsBack \/ Resumes \/ Waits \/ Rests \/ PollList \/ More \/ Act => thisList' = thisList
  BY DEF AsksAgain, AsksNothing, HoldsBack, Resumes, Waits, Rests, listVars, PollList, More, Act
<1>2. \A r \in asks : ServeList(r) \/ Answer(r) \/ AnswerMore(r) \/ ActAnswered(r) => thisList' = thisList
  BY DEF ServeList, Answer, AnswerMore, ActAnswered
<1> QED BY <1>1, <1>2, StepKinds

LEMMA ReadsNext == ASSUME ListsInv, [ListsNext]_listVars PROVE ReadsWhatIsAsked'
<1> DEFINE Target == /\ thisList.pages # "turns" => \A r \in asks' : r.page = 1
                     /\ Fit' /\ Anyway => \A r \in asks' : Reading(r)' => r.of = applied' /\ r.page = pageNo'
<1>a. thisList' = thisList /\ Held' = Held BY SameList DEF ListsInv
<1> SUFFICES Target BY <1>a DEF ReadsWhatIsAsked, Anyway
<1>b. applied' \in Filter /\ pageNo' \in {1, 2} /\ IsApplied' /\ ListTypes' BY FilterNext, ListTypesNext DEF ListsInv
<1>c. OneQuestion' BY OneQuestionNext
<1>d. thisList.pages # "turns" => pageNo = 1 /\ pageNo' = 1 /\ \A r \in asks : r.page = 1
  BY <1>a, <1>b DEF ListsInv, IsApplied, ReadsWhatIsAsked
<1>e. WellMade(thisList) BY ThisIsWellMade DEF ListsInv
<1>f. \A r \in asks : r.n \in Nat /\ r.era \in Nat /\ r.n <= newest /\ r.era <= era /\ newest \in Nat /\ era \in Nat
  BY RequestShape DEF ListsInv, ListTypes
<1>g. Fit /\ Anyway => \A r \in asks : Reading(r) => r.of = applied /\ r.page = pageNo
  BY DEF ListsInv, ReadsWhatIsAsked
<1> DEFINE OneThing == thisList.counts = "any" /\ Anyway => \A r \in asks' : r.of = applied'
<1>h. OneThing BY <1>a, <1>c DEF OneQuestion, Anyway
<1>i. Anyway' = Anyway BY <1>a DEF Anyway
<1> USE DEF screenVars, filterVars, countVars
<1>3. CASE AsksAgain
  <2>1. PICK q \in ListRequests :
             /\ asks' = asks \cup {q}
             /\ q.what = "load" /\ q.of = applied' /\ q.page = pageNo' /\ q.n = newest' /\ q.era = era'
             /\ q.state = "asked" /\ era' = era + 1 /\ newest' = newest + 1
    BY <1>b, <1>3, FreshRequest DEF AsksAgain, ListsInv
  <2> QED BY <1>a, <1>d, <1>e, <1>f, <1>h, <2>1 DEF Reading, Counts, WellMade
<1>4. CASE AsksNothing BY <1>d, <1>4 DEF AsksNothing, AskNothing
<1>5. CASE HoldsBack BY <1>a, <1>d, <1>e, <1>f, <1>h, <1>5 DEF HoldsBack, Reading, Counts, WellMade
<1>6. CASE Resumes
  <2>1. PICK q \in ListRequests :
             /\ asks' = asks \cup {q}
             /\ q.what = "load" /\ q.of = applied /\ q.page = pageNo /\ q.n = newest /\ q.era = era /\ q.state = "asked"
    BY <1>6, ResumedRequest DEF ListsInv
  <2> QED BY <1>a, <1>d, <1>g, <1>6, <2>1 DEF Resumes, Reading, Counts, Fit
<1>7. CASE Waits BY <1>d, <1>g, <1>7 DEF Waits, Reading, Counts, Fit
<1>8. CASE Rests BY <1>d, <1>g, <1>8 DEF Rests, listVars, Reading, Counts, Fit
<1>9. CASE PollList
  <2>1. PICK q \in ListRequests :
             /\ asks' = asks \cup {q}
             /\ q.what = "load" /\ q.of = applied /\ q.page = pageNo /\ q.n = newest' /\ q.era = era
             /\ q.state = "asked" /\ newest' = newest + 1
    BY <1>9, ReadAgainRequest DEF PollList, ListsInv
  <2> QED BY <1>d, <1>e, <1>f, <1>g, <1>9, <2>1 DEF PollList, Reading, Counts, Fit
<1>10. CASE More
  <2>1. PICK q \in ListRequests : asks' = asks \cup {q} /\ q.what = "more" /\ q.page = pageNo
    BY <1>10, MoreRequest DEF ListsInv
  <2> QED BY <1>d, <1>g, <1>10, <2>1 DEF More, Reading, Counts, Fit
<1>11. CASE Act
  <2>1. PICK q \in ListRequests : asks' = asks \cup {q} /\ q.what = "act" /\ q.page = pageNo
    BY <1>11, ActRequest DEF ListsInv
  <2> QED BY <1>d, <1>g, <1>11, <2>1 DEF Act, Reading, Counts, Fit
<1>12. ASSUME NEW r \in asks, ServeList(r) PROVE Target
  <2>1. PICK q \in ListRequests :
             /\ asks' = (asks \ {r}) \cup {q}
             /\ q.what = r.what /\ q.of = r.of /\ q.page = r.page /\ q.n = r.n /\ q.era = r.era
    BY <1>12, ServedList DEF ListsInv
  <2> QED BY <1>d, <1>g, <1>12, <2>1 DEF ServeList, Reading, Counts, Fit
<1>13. ASSUME NEW r \in asks, Answer(r) \/ AnswerMore(r) PROVE Target
  BY <1>d, <1>g, <1>13 DEF Answer, AnswerMore, Reading, Counts, Fit
<1>14. ASSUME NEW r \in asks, ActAnswered(r) PROVE Target
  <2>1. CASE asks' = asks \ {r} /\ UNCHANGED newest BY <1>d, <1>g, <1>14, <2>1 DEF ActAnswered, Reading, Counts, Fit
  <2>2. CASE \E q \in ListRequests :
                /\ asks' = (asks \ {r}) \cup {q}
                /\ q.what = "load" /\ q.of = applied /\ q.page = pageNo /\ q.n = newest' /\ q.era = era
                /\ newest' = newest + 1
    BY <1>d, <1>f, <1>g, <1>14, <2>2 DEF ActAnswered, Reading, Counts, Fit
  <2> QED BY <1>14, <2>1, <2>2, ActAnsweredKinds DEF ListsInv
<1> QED BY <1>3, <1>4, <1>5, <1>6, <1>7, <1>8, <1>9, <1>10, <1>11, <1>12, <1>13, <1>14, StepKinds DEF ListsInv

\* A reading that counts is under way.
Due == \E r \in asks : Reading(r)

LEMMA AskedIsDue == ASSUME ListsInv, [ListsNext]_listVars, AsksAgain \/ Resumes PROVE Due'
<1>1. thisList' = thisList BY SameList DEF ListsInv
<1>2. CASE AsksAgain
  <2>1. applied' \in Filter /\ pageNo' \in {1, 2} BY FilterNext DEF ListsInv
  <2>2. PICK q \in ListRequests :
             asks' = asks \cup {q} /\ q.what = "load" /\ q.of = applied' /\ q.n = newest' /\ q.era = era'
    BY <1>2, <2>1, FreshRequest DEF AsksAgain, ListsInv
  <2> QED BY <2>2 DEF Due, Reading, Counts
<1>3. CASE Resumes
  <2>1. PICK q \in ListRequests :
             asks' = asks \cup {q} /\ q.what = "load" /\ q.of = applied /\ q.n = newest /\ q.era = era
    BY <1>3, ResumedRequest DEF ListsInv
  <2> QED BY <1>3, <2>1 DEF Resumes, Due, Reading, Counts
<1> QED BY <1>2, <1>3

\* A reading that counts is due until it is answered or another is asked.
LEMMA DueStays ==
    ASSUME ListsInv, [ListsNext]_listVars, Due, ~AsksNothing, ~HoldsBack,
           \A r \in asks : Answer(r) => ~Counts(r)
    PROVE  Due'
<1> PICK d \in asks : Reading(d) BY DEF Due
<1> USE DEF screenVars, filterVars, countVars
<1>1. CASE AsksAgain \/ Resumes BY <1>1, AskedIsDue
<1>2. CASE Waits \/ Rests BY <1>2 DEF Waits, Rests, listVars, Due, Reading, Counts
<1>3. CASE PollList
  <2>1. PICK q \in ListRequests :
             /\ asks' = asks \cup {q} /\ q.what = "load" /\ q.of = applied /\ q.n = newest' /\ q.era = era
    BY <1>3, ReadAgainRequest DEF PollList, ListsInv
  <2> QED BY <1>3, <2>1 DEF PollList, Due, Reading, Counts
<1>4. CASE More \/ Act
  <2>1. asks \subseteq asks' BY <1>4 DEF More, Act
  <2> QED BY <1>4, <2>1 DEF More, Act, Due, Reading, Counts
<1>5. ASSUME NEW r \in asks, ServeList(r) PROVE Due'
  <2>1. PICK q \in ListRequests :
             asks' = (asks \ {r}) \cup {q} /\ q.what = r.what /\ q.of = r.of /\ q.n = r.n /\ q.era = r.era
    BY <1>5, ServedList DEF ListsInv
  <2>2. Reading(r) => Reading(q)' BY <1>5, <2>1 DEF ServeList, Reading, Counts
  <2>3. Reading(d)' BY <1>5 DEF ServeList, Reading, Counts
  <2> QED BY <2>1, <2>2, <2>3 DEF Due
<1>6. ASSUME NEW r \in asks, Answer(r) PROVE Due'
  <2>1. d # r /\ asks' = asks \ {r} BY <1>6 DEF Answer, Reading
  <2>2. Reading(d)' BY <1>6 DEF Answer, Reading, Counts
  <2> QED BY <2>1, <2>2 DEF Due
<1>7. ASSUME NEW r \in asks, AnswerMore(r) PROVE Due'
  <2>1. d # r /\ asks' = asks \ {r} BY <1>7 DEF AnswerMore, Reading
  <2>2. Reading(d)' BY <1>7 DEF AnswerMore, Reading, Counts
  <2> QED BY <2>1, <2>2 DEF Due
<1>8. ASSUME NEW r \in asks, ActAnswered(r) PROVE Due'
  <2>1. d # r BY <1>8 DEF ActAnswered, Reading
  <2>2. CASE asks' = asks \ {r} /\ UNCHANGED newest BY <1>8, <2>1, <2>2 DEF ActAnswered, Due, Reading, Counts
  <2>3. CASE \E q \in ListRequests :
                /\ asks' = (asks \ {r}) \cup {q}
                /\ q.what = "load" /\ q.of = applied /\ q.n = newest' /\ q.era = era
    BY <1>8, <2>1, <2>3 DEF ActAnswered, Due, Reading, Counts
  <2> QED BY <1>8, <2>2, <2>3, ActAnsweredKinds DEF ListsInv
<1> QED BY <1>1, <1>2, <1>3, <1>4, <1>5, <1>6, <1>7, <1>8, StepKinds DEF ListsInv

LEMMA LoadingNext == ASSUME ListsInv, [ListsNext]_listVars PROVE LoadingIsAsked'
<1> DEFINE MoreDue == thisList.pages = "more" /\ \E r \in asks : r.what = "more" /\ Counts(r)
<1> SUFFICES ASSUME loading', Fit', ~HeldBack', ~Due' PROVE MoreDue'
  BY DEF LoadingIsAsked, Due
<1>a. thisList' = thisList /\ Held' = Held BY SameList DEF ListsInv
<1>b. WellMade(thisList) BY ThisIsWellMade DEF ListsInv
<1>c. loading /\ Fit /\ ~HeldBack /\ ~Due => MoreDue BY DEF ListsInv, LoadingIsAsked, Due
<1> USE DEF screenVars, filterVars, countVars
<1>1. ~AsksAgain /\ ~Resumes BY AskedIsDue
<1>2. ~AsksNothing /\ ~HoldsBack BY DEF AsksNothing, HoldsBack
<1>3. \A r \in asks : Answer(r) => ~Counts(r)
  BY DEF Answer
<1>4. ~Due BY <1>2, <1>3, DueStays
<1>5. CASE Waits \/ Rests
  <2>1. loading /\ Fit BY <1>5 DEF Waits, Rests, listVars, Fit
  <2>2. ~HeldBack BY <1>a, <1>5 DEF Waits, Rests, listVars, HeldBack
  <2> QED BY <1>4, <1>5, <1>c, <2>1, <2>2 DEF Waits, Rests, listVars, Counts
<1>6. CASE PollList
  <2>1. PICK q \in ListRequests :
             /\ asks' = asks \cup {q} /\ q.what = "load" /\ q.of = applied /\ q.n = newest' /\ q.era = era
    BY <1>6, ReadAgainRequest DEF PollList, ListsInv
  <2>2. thisList.counts # "latest" BY <1>6, <1>a, <2>1 DEF PollList, Due, Reading, Counts
  <2>3. loading /\ Fit /\ ~HeldBack BY <1>6, <1>a, <2>2 DEF PollList, ReadAgain, HeldBack, Fit
  <2> QED BY <1>4, <1>6, <1>c, <2>1, <2>2, <2>3 DEF PollList, Counts
<1>7. CASE More
  <2>1. PICK q \in ListRequests : asks' = asks \cup {q} /\ q.what = "more" /\ q.of = applied
    BY <1>7, MoreRequest DEF ListsInv
  <2>2. CASE thisList.pages = "more"
    <3>1. thisList.counts = "keyed" BY <1>b, <2>2 DEF WellMade
    <3> QED BY <1>7, <2>1, <2>2, <3>1 DEF More, Counts
  <2>3. CASE thisList.pages # "more"
    <3>1. loading /\ Fit /\ ~HeldBack BY <1>7, <1>a, <2>3 DEF More, HeldBack, Fit, ListsInv, ListTypes
    <3> QED BY <1>4, <1>c, <2>3, <3>1
  <2> QED BY <2>2, <2>3
<1>8. CASE Act
  <2>1. loading /\ Fit /\ ~HeldBack BY <1>8, <1>a DEF Act, HeldBack, Fit
  <2>2. asks \subseteq asks' BY <1>8 DEF Act
  <2> QED BY <1>4, <1>8, <1>c, <2>1, <2>2 DEF Act, Counts
<1>9. ASSUME NEW r \in asks, ServeList(r) PROVE MoreDue'
  <2>1. PICK q \in ListRequests :
             asks' = (asks \ {r}) \cup {q} /\ q.what = r.what /\ q.of = r.of /\ q.n = r.n /\ q.era = r.era
    BY <1>9, ServedList DEF ListsInv
  <2>2. loading /\ Fit /\ ~HeldBack BY <1>9, <1>a DEF ServeList, HeldBack, Fit
  <2>3. PICK m \in asks : m.what = "more" /\ Counts(m) BY <1>4, <1>c, <2>2
  <2>4. thisList.pages = "more" BY <1>4, <1>c, <2>2
  <2>5. Counts(r) => Counts(q)' BY <1>9, <2>1 DEF ServeList, Counts
  <2>6. Counts(m)' BY <1>9, <2>3 DEF ServeList, Counts
  <2> QED BY <1>a, <2>1, <2>3, <2>4, <2>5, <2>6
<1>10. ASSUME NEW r \in asks, Answer(r) PROVE MoreDue'
  <2>1. loading /\ Fit /\ ~HeldBack BY <1>3, <1>10, <1>a DEF Answer, HeldBack, Fit
  <2>2. PICK m \in asks : m.what = "more" /\ Counts(m) BY <1>4, <1>c, <2>1
  <2>3. thisList.pages = "more" BY <1>4, <1>c, <2>1
  <2>4. m # r /\ asks' = asks \ {r} /\ Counts(m)' BY <1>10, <2>2 DEF Answer, Counts
  <2> QED BY <1>a, <2>2, <2>3, <2>4
<1>11. ASSUME NEW r \in asks, AnswerMore(r) PROVE MoreDue'
  <2>1. loading /\ Fit /\ ~HeldBack
    BY <1>11, <1>a DEF AnswerMore, HeldBack, Fit
  <2>2. PICK m \in asks : m.what = "more" /\ Counts(m) BY <1>4, <1>c, <2>1
  <2>3. thisList.pages = "more" BY <1>4, <1>c, <2>1
  <2>4. ~Counts(r) BY <1>11, <2>3 DEF AnswerMore
  <2>5. m # r /\ asks' = asks \ {r} /\ Counts(m)' BY <1>11, <2>2, <2>4 DEF AnswerMore, Counts
  <2> QED BY <1>a, <2>2, <2>3, <2>5
<1>12. ASSUME NEW r \in asks, ActAnswered(r) PROVE MoreDue'
  <2>1. CASE asks' = asks \ {r} /\ UNCHANGED <<newest, loading>>
    <3>1. loading /\ Fit /\ ~HeldBack BY <1>12, <1>a, <2>1 DEF ActAnswered, HeldBack, Fit
    <3>2. PICK m \in asks : m.what = "more" /\ Counts(m) BY <1>4, <1>c, <3>1
    <3>3. thisList.pages = "more" BY <1>4, <1>c, <3>1
    <3>4. m # r /\ Counts(m)' BY <1>12, <2>1, <3>2 DEF ActAnswered, Counts
    <3> QED BY <1>a, <2>1, <3>2, <3>3, <3>4
  <2>2. CASE \E q \in ListRequests :
                /\ asks' = (asks \ {r}) \cup {q} /\ ~HeldBack /\ Fit
                /\ q.what = "load" /\ q.of = applied /\ q.n = newest' /\ q.era = era
                /\ loading' = (loading \/ thisList.counts = "latest")
    <3>1. PICK q \in ListRequests :
                /\ asks' = (asks \ {r}) \cup {q}
                /\ q.what = "load" /\ q.of = applied /\ q.n = newest' /\ q.era = era
      BY <2>2
    <3>2. thisList.counts # "latest" BY <1>12, <1>a, <3>1 DEF ActAnswered, Due, Reading, Counts
    <3>3. loading /\ Fit /\ ~HeldBack BY <2>2, <3>2
    <3>4. PICK m \in asks : m.what = "more" /\ Counts(m) BY <1>4, <1>c, <3>3
    <3>5. thisList.pages = "more" BY <1>4, <1>c, <3>3
    <3>6. m # r /\ Counts(m)' BY <1>12, <3>2, <3>4 DEF ActAnswered, Counts
    <3> QED BY <1>a, <3>1, <3>4, <3>5, <3>6
  <2> QED BY <1>12, <2>1, <2>2, ActAnsweredKinds DEF ListsInv
<1> QED BY <1>1, <1>2, <1>5, <1>6, <1>7, <1>8, <1>9, <1>10, <1>11, <1>12, StepKinds DEF ListsInv

\* Further rows come under those that are there, if they count.
LEMMA MoreAnswered ==
    ASSUME ListTypes, NEW r \in asks, AnswerMore(r)
    PROVE  /\ table'.there = table.there /\ table'.of = table.of /\ table'.page = table.page /\ table'.acts = table.acts
           /\ \/ table'.parts = table.parts
              \/ table'.parts = table.parts \cup {r.of} /\ (thisList.pages = "more" => Counts(r))
<1> DEFINE t == [table EXCEPT !.parts = @ \cup {r.of}]
<1>1. r.of \in Filter /\ table \in Tables BY RequestShape DEF ListTypes
<1>2. t.parts = table.parts \cup {r.of} /\ t.there = table.there /\ t.of = table.of /\ t.page = table.page /\ t.acts = table.acts
  BY <1>1, TableShape
<1>3. table' \in {t, table} /\ (table' = table \/ (thisList.pages = "more" => Counts(r))) BY DEF AnswerMore, screenVars
<1> HIDE DEF t
<1> QED BY <1>2, <1>3

LEMMA ScreenNext == ASSUME ListsInv, [ListsNext]_listVars PROVE ScreenIsDue'
<1> DEFINE Shown == table.there /\ table.of = applied /\ table.page = pageNo
<1> SUFFICES ASSUME Fit', Anyway', ~error', ~HeldBack', ~Due' PROVE Shown'
  BY DEF ScreenIsDue, Due
<1>a. thisList' = thisList /\ Held' = Held /\ Anyway BY SameList DEF ListsInv, Anyway
<1>b. Fit /\ ~error /\ ~HeldBack /\ ~Due => Shown BY <1>a DEF ListsInv, ScreenIsDue, Due
<1> USE DEF screenVars, filterVars, countVars
<1>1. ~AsksAgain /\ ~Resumes BY AskedIsDue
<1>2. ~AsksNothing /\ ~HoldsBack BY DEF AsksNothing, HoldsBack
<1>3. ASSUME NEW r \in asks, Answer(r), Counts(r) PROVE Shown'
  <2>1. r.of = applied /\ r.page = pageNo
    BY <1>a, <1>3 DEF Answer, Reading, ListsInv, ReadsWhatIsAsked, Fit
  <2>2. table' = [there |-> TRUE, of |-> r.of, page |-> r.page, acts |-> r.acts, parts |-> {}]
    <3>1. r.state = "done" BY <1>3 DEF Answer, ListsInv, ListTypes, ListRequests
    <3> DEFINE t == [there |-> TRUE, of |-> r.of, page |-> r.page, acts |-> r.acts, parts |-> {}]
    <3>2. table' = CASE r.state = "done" -> t
                   [] r.state = "refused" /\ thisList.failure = "clears" -> Blank [] OTHER -> table
      BY <1>3 DEF Answer
    <3> HIDE DEF t
    <3>3. table' = t BY <3>1, <3>2
    <3> QED BY <3>3 DEF t
  <2> QED BY <1>3, <2>1, <2>2 DEF Answer
<1> SUFFICES ASSUME \A r \in asks : Answer(r) => ~Counts(r) PROVE Shown' BY <1>3
<1>4. ~Due BY <1>2, DueStays
<1>5. table \in Tables BY DEF ListsInv, ListTypes
<1>6. CASE Waits \/ Rests
  <2>1. Fit /\ ~error BY <1>6 DEF Waits, Rests, listVars, Fit
  <2>2. ~HeldBack BY <1>a, <1>6 DEF Waits, Rests, listVars, HeldBack
  <2> QED BY <1>4, <1>6, <1>b, <2>1, <2>2 DEF Waits, Rests, listVars
<1>7. CASE PollList \/ More
  <2>1. Fit /\ ~error /\ ~HeldBack BY <1>7, <1>a DEF PollList, More, HeldBack, Fit
  <2> QED BY <1>4, <1>7, <1>b, <2>1 DEF PollList, More
<1>8. CASE Act
  <2>1. Fit /\ ~error /\ ~HeldBack BY <1>8, <1>a DEF Act, HeldBack, Fit
  <2>2. acts + 1 \in Nat BY DEF ListsInv, ListTypes
  <2>3. table'.there = table.there /\ table'.of = table.of /\ table'.page = table.page
    BY <1>5, <1>8, <2>2, TableShape DEF Act
  <2> QED BY <1>4, <1>8, <1>b, <2>1, <2>3 DEF Act
<1>9. ASSUME NEW r \in asks, ServeList(r) \/ Answer(r) PROVE Shown'
  <2>1. Fit /\ ~error /\ ~HeldBack /\ UNCHANGED <<table, applied, pageNo>>
    <3>1. CASE ServeList(r) BY <3>1, <1>a DEF ServeList, HeldBack, Fit
    <3>2. CASE Answer(r)
      <4>1. ~Counts(r) BY <3>2
      <4> QED BY <3>2, <4>1, <1>a DEF Answer, HeldBack, Fit
    <3> QED BY <1>9, <3>1, <3>2
  <2> QED BY <1>4, <1>b, <2>1
<1>10. ASSUME NEW r \in asks, AnswerMore(r) PROVE Shown'
  <2>1. Fit /\ ~error /\ ~HeldBack /\ UNCHANGED <<applied, pageNo>>
    BY <1>10, <1>a DEF AnswerMore, HeldBack, Fit
  <2>3. table'.there = table.there /\ table'.of = table.of /\ table'.page = table.page
    BY <1>10, MoreAnswered DEF ListsInv
  <2> QED BY <1>4, <1>b, <2>1, <2>3
<1>11. ASSUME NEW r \in asks, ActAnswered(r) PROVE Shown'
  <2>1. Fit /\ ~error /\ ~HeldBack /\ UNCHANGED <<applied, pageNo>>
    BY <1>11, <1>a DEF ActAnswered, HeldBack, Fit
  <2>2. r.acts \in Nat /\ acts \in Nat BY RequestShape DEF ListsInv, ListTypes
  <2>3. table'.there = table.there /\ table'.of = table.of /\ table'.page = table.page
    BY <1>5, <1>11, <2>2, TableShape DEF ActAnswered
  <2> QED BY <1>4, <1>b, <2>1, <2>3
<1> QED BY <1>1, <1>2, <1>6, <1>7, <1>8, <1>9, <1>10, <1>11, StepKinds DEF ListsInv

LEMMA PartsNext == ASSUME ListsInv, [ListsNext]_listVars PROVE PartsFit'
<1>a. thisList' = thisList /\ Held' = Held BY SameList DEF ListsInv
<1>b. WellMade(thisList) /\ table \in Tables /\ ListTypes BY ThisIsWellMade DEF ListsInv, ListTypes
<1> DEFINE Target == /\ thisList.pages \notin {"more", "free"} => table'.parts = {} /\ \A r \in asks' : r.what # "more"
                     /\ thisList.pages = "more" /\ Fit' => table'.parts \subseteq {applied'}
<1> SUFFICES Target BY <1>a DEF PartsFit
<1>c. /\ thisList.pages \notin {"more", "free"} => table.parts = {} /\ \A r \in asks : r.what # "more"
      /\ thisList.pages = "more" /\ Fit => table.parts \subseteq {applied}
  BY DEF ListsInv, PartsFit
<1>d. Blank.parts = {} BY TableShape
<1>e. thisList.pages = "more" => thisList.wipes /\ thisList.counts = "keyed" /\ ~Held BY <1>b DEF WellMade, Held
<1> USE DEF screenVars, filterVars, countVars
<1>1. CASE AsksAgain
  <2>0. applied' \in Filter /\ pageNo' \in {1, 2} BY FilterNext DEF ListsInv
  <2>1. PICK q \in ListRequests : asks' = asks \cup {q} /\ q.what = "load" BY <1>1, <1>b, <2>0, FreshRequest DEF AsksAgain
  <2>2. table' = IF thisList.wipes THEN Blank ELSE table BY <1>1 DEF AsksAgain, Ask
  <2> QED BY <1>c, <1>d, <1>e, <2>1, <2>2
<1>2. CASE AsksNothing BY <1>2, <1>c, <1>d DEF AsksNothing, AskNothing
<1>3. CASE HoldsBack BY <1>3, <1>c, <1>e DEF HoldsBack
<1>4. CASE Resumes
  <2>1. PICK q \in ListRequests : asks' = asks \cup {q} /\ q.what = "load" BY <1>4, <1>b, ResumedRequest
  <2> QED BY <1>4, <1>c, <2>1 DEF Resumes, Fit
<1>5. CASE Waits \/ Rests BY <1>5, <1>c DEF Waits, Rests, listVars, Fit
<1>6. CASE PollList
  <2>1. PICK q \in ListRequests : asks' = asks \cup {q} /\ q.what = "load" BY <1>6, <1>b, ReadAgainRequest DEF PollList
  <2> QED BY <1>6, <1>c, <2>1 DEF PollList, Fit
<1>7. CASE More BY <1>7, <1>c DEF More, Fit
<1>8. CASE Act
  <2>1. PICK q \in ListRequests : asks' = asks \cup {q} /\ q.what = "act" BY <1>8, <1>b, ActRequest
  <2>2. acts + 1 \in Nat BY <1>b DEF ListTypes
  <2>3. table'.parts = table.parts BY <1>b, <1>8, <2>2, TableShape DEF Act
  <2> QED BY <1>8, <1>c, <2>1, <2>3 DEF Act, Fit
<1>9. ASSUME NEW r \in asks, ServeList(r) PROVE Target
  <2>1. PICK q \in ListRequests : asks' = (asks \ {r}) \cup {q} /\ q.what = r.what BY <1>9, <1>b, ServedList
  <2> QED BY <1>9, <1>c, <2>1 DEF ServeList, Fit
<1>10. ASSUME NEW r \in asks, Answer(r) PROVE Target
  <2>1. table'.parts = {} \/ table' = table BY <1>10, <1>d DEF Answer
  <2> QED BY <1>10, <1>c, <2>1 DEF Answer, Fit
<1>11. ASSUME NEW r \in asks, AnswerMore(r) PROVE Target
  <2>2. table'.parts = table.parts \/ (table'.parts = table.parts \cup {r.of} /\ (thisList.pages = "more" => Counts(r)))
    BY <1>b, <1>11, MoreAnswered
  <2>3. thisList.pages = "more" /\ Counts(r) => r.of = applied BY <1>e DEF Counts
  <2> QED BY <1>11, <1>c, <2>2, <2>3 DEF AnswerMore, Fit
<1>12. ASSUME NEW r \in asks, ActAnswered(r) PROVE Target
  <2>1. r.acts \in Nat /\ acts \in Nat BY <1>b, RequestShape DEF ListTypes
  <2>2. table'.parts = table.parts BY <1>b, <1>12, <2>1, TableShape DEF ActAnswered
  <2>3. asks' = asks \ {r} \/ \E q \in ListRequests : asks' = (asks \ {r}) \cup {q} /\ q.what = "load"
    BY <1>b, <1>12, ActAnsweredKinds
  <2> QED BY <1>12, <1>c, <2>2, <2>3 DEF ActAnswered, Fit
<1> QED BY <1>1, <1>2, <1>3, <1>4, <1>5, <1>6, <1>7, <1>8, <1>9, <1>10, <1>11, <1>12, <1>b, StepKinds

\* For the lists that read again when a press is done, by the latest reading.
LEMMA ActsNext == ASSUME ListsInv, [ListsNext]_listVars PROVE ActsAreDue'
<1>a. thisList' = thisList /\ Held' = Held BY SameList DEF ListsInv
<1>b. ListTypes /\ WellMade(thisList) /\ table \in Tables /\ newest \in Nat /\ acted \in Nat
  BY ThisIsWellMade DEF ListsInv, ListTypes
<1> DEFINE Once == \A r, s \in asks : Reading(r) /\ Reading(s) => r = s
           NoneDue == HeldBack => \A r \in asks : ~Reading(r)
           Right == Fit => \A r \in asks : Reading(r) /\ r.state = "done" => r.acts = acted \/ DoneAct
           Accounted == Fit => error \/ HeldBack \/ DoneAct \/ table.acts = acted \/ Due
           Target == Once' /\ NoneDue' /\ Right' /\ Accounted'
<1> SUFFICES ASSUME thisList.counts = "latest", thisList.again = "done" PROVE Target
  BY <1>a DEF ActsAreDue, Due
<1>c. Once /\ NoneDue /\ Right /\ Accounted BY DEF ListsInv, ActsAreDue, Due
<1>d. thisList.shows # "press" /\ (Held => ~thisList.polled /\ ~thisList.refresh) BY <1>b DEF WellMade, Held
<1>e. \A r \in asks : r \in ListRequests /\ r.n \in Nat /\ r.n <= newest BY RequestShape DEF ListsInv, ListTypes
<1>f. \A r \in ListRequests : Reading(r) = (r.what = "load" /\ r.n = newest) BY DEF Reading, Counts
<1>g. \A r \in ListRequests : Reading(r)' = (r.what = "load" /\ r.n = newest') BY <1>a DEF Reading, Counts
<1>h. asks' \subseteq ListRequests BY ListTypesNext DEF ListsInv, ListTypes
<1> USE DEF screenVars, filterVars, countVars
\* A reading with a new number is the only one, and holds nothing yet.
<1>n. ASSUME NEW q \in ListRequests, NEW old, old \subseteq asks, asks' = old \cup {q}, newest' = newest + 1,
             q.what = "load", q.n = newest', q.state = "asked", ~HeldBack'
      PROVE  Target
  <2>4. \A r \in asks : r.n # newest' BY <1>b, <1>e, <1>n
  <2>1. \A r \in asks' : Reading(r)' => r = q BY <1>e, <1>g, <1>n, <2>4
  <2>2. Reading(q)' BY <1>g, <1>n
  <2>3. Due' BY <1>n, <2>2 DEF Due
  <2> QED BY <1>n, <2>1, <2>3
\* Nothing is asked, and the screen stays.
<1>s. ASSUME NEW old, old \subseteq asks, asks' = asks \/ asks' = old,
             \A r \in asks : r \notin asks' => r.what # "load" /\ ~(r.what = "act" /\ r.state = "done"),
             newest' = newest, acted' = acted, HeldBack' = HeldBack, Fit' = Fit, error => error',
             table'.acts = table.acts
      PROVE  Target
  <2>1. asks' \subseteq asks BY <1>s
  <2>2. \A r \in asks : Reading(r)' = Reading(r) BY <1>e, <1>f, <1>g, <1>s
  <2>3. DoneAct => DoneAct' BY <1>s DEF DoneAct
  <2>4. \A r \in asks : Reading(r) => r \in asks' BY <1>e, <1>f, <1>s
  <2>5. Due => Due' BY <2>2, <2>4 DEF Due
  <2>6. Once' BY <1>c, <2>1, <2>2
  <2>7. NoneDue' BY <1>c, <1>s, <2>1, <2>2
  <2>8. Right' BY <1>c, <1>s, <2>1, <2>2, <2>3
  <2>9. Accounted' BY <1>c, <1>s, <2>3, <2>5
  <2> QED BY <2>6, <2>7, <2>8, <2>9
<1>1. CASE AsksAgain
  <2>0. applied' \in Filter /\ pageNo' \in {1, 2} BY FilterNext DEF ListsInv
  <2>1. PICK q \in ListRequests :
          asks' = asks \cup {q} /\ q.what = "load" /\ q.n = newest' /\ q.state = "asked" /\ newest' = newest + 1
    BY <1>1, <1>b, <2>0, FreshRequest DEF AsksAgain
  <2>2. ~HeldBack' BY <1>1, <1>a, <1>d DEF AsksAgain, HeldBack
  <2> QED BY <1>n, <2>1, <2>2
<1>2. CASE AsksNothing
  <2>1. asks' = asks /\ newest' = newest /\ ~Fit' /\ ~HeldBack' BY <1>2 DEF AsksNothing, AskNothing
  <2>2. \A r \in asks : Reading(r)' = Reading(r) BY <1>e, <1>f, <1>g, <2>1
  <2> QED BY <1>c, <2>1, <2>2
<1>3. CASE HoldsBack
  <2>1. asks' = asks /\ newest' = newest + 1 /\ HeldBack' BY <1>3 DEF HoldsBack
  <2>3. \A r \in asks : r.n # newest' BY <1>b, <1>e, <2>1
  <2>2. \A r \in asks' : ~Reading(r)' BY <1>e, <1>g, <2>1, <2>3
  <2> QED BY <2>1, <2>2
<1>4. CASE Resumes
  <2>1. PICK q \in ListRequests : asks' = asks \cup {q} /\ q.what = "load" /\ q.n = newest /\ q.state = "asked"
    BY <1>4, <1>b, ResumedRequest
  <2>2. HeldBack /\ newest' = newest /\ ~HeldBack' BY <1>4 DEF Resumes
  <2>3. \A r \in asks' : Reading(r)' => r = q BY <1>c, <1>e, <1>f, <1>g, <2>1, <2>2
  <2>4. Due' BY <1>4, AskedIsDue
  <2> QED BY <2>1, <2>2, <2>3, <2>4
<1>5. CASE Waits \/ Rests
  <2>1. HeldBack' = HeldBack /\ Fit' = Fit /\ UNCHANGED <<asks, newest, acted, error, table>>
    BY <1>5, <1>a DEF Waits, Rests, listVars, HeldBack, Fit, Held
  <2> QED BY <1>s, <2>1
<1>6. CASE PollList
  <2>1. PICK q \in ListRequests :
          asks' = asks \cup {q} /\ q.what = "load" /\ q.n = newest' /\ q.state = "asked" /\ newest' = newest + 1
    BY <1>6, <1>b, ReadAgainRequest DEF PollList
  <2>2. ~HeldBack' BY <1>6, <1>a, <1>d DEF PollList, HeldBack
  <2> QED BY <1>n, <2>1, <2>2
<1>7. ASSUME NEW q \in ListRequests, asks' = asks \cup {q}, q.what # "load", q.state = "asked",
             UNCHANGED <<newest, acted, error, applied, waiting>>, table'.acts = table.acts
      PROVE  Target
  <2>1. HeldBack' = HeldBack /\ Fit' = Fit BY <1>7, <1>a DEF HeldBack, Fit
  <2>2. \A r \in asks' : Reading(r)' = (r \in asks /\ Reading(r)) BY <1>e, <1>f, <1>g, <1>h, <1>7
  <2>3. DoneAct => DoneAct' BY <1>7 DEF DoneAct
  <2>4. Due => Due' BY <1>7, <2>2 DEF Due
  <2> QED BY <1>c, <1>7, <2>1, <2>2, <2>3, <2>4
<1>8. CASE More
  <2>1. PICK q \in ListRequests : asks' = asks \cup {q} /\ q.what = "more" /\ q.state = "asked"
    BY <1>8, <1>b, MoreRequest
  <2> QED BY <1>7, <1>8, <2>1 DEF More
<1>9. CASE Act
  <2>1. PICK q \in ListRequests : asks' = asks \cup {q} /\ q.what = "act" /\ q.state = "asked"
    BY <1>9, <1>b, ActRequest
  <2>2. table' = table BY <1>9, <1>d DEF Act
  <2> QED BY <1>7, <1>9, <2>1, <2>2 DEF Act
<1>10. ASSUME NEW r \in asks, ServeList(r) PROVE Target
  <2>1. PICK q \in ListRequests :
             /\ asks' = (asks \ {r}) \cup {q}
             /\ q.what = r.what /\ q.n = r.n
             /\ q.state \in {"done", "refused"} /\ r.state = "asked"
             /\ q.what = "load" => q.acts = acted /\ acted' = acted
             /\ q.what = "act" /\ q.state = "done" => acted' = acted + 1
             /\ q.what # "act" \/ q.state # "done" => acted' = acted
    BY <1>10, <1>b, ServedList
  <2>2. HeldBack' = HeldBack /\ Fit' = Fit /\ UNCHANGED <<newest, error, table>>
    BY <1>10, <1>a DEF ServeList, HeldBack, Fit
  <2>3. \A s \in asks : Reading(s)' = Reading(s) BY <1>e, <1>f, <1>g, <2>2
  <2>4. Reading(q)' = Reading(r) BY <1>e, <1>f, <1>g, <2>1, <2>2
  <2>5. CASE q.what = "act" /\ q.state = "done"
    <3>1. DoneAct' BY <2>1, <2>5 DEF DoneAct
    <3>2. ~Reading(q)' BY <1>g, <2>5
    <3>3. Once' /\ NoneDue' BY <1>c, <2>1, <2>2, <2>3, <3>2
    <3> QED BY <3>1, <3>3
  <2>6. CASE ~(q.what = "act" /\ q.state = "done")
    <3>1. acted' = acted BY <2>1, <2>6
    <3>2. DoneAct => DoneAct' BY <2>1 DEF DoneAct
    <3>3. Due => Due' BY <2>1, <2>3, <2>4 DEF Due
    <3>4. Once' /\ NoneDue' BY <1>c, <2>1, <2>2, <2>3, <2>4
    <3>5. Reading(q)' => q.acts = acted' BY <1>g, <2>1
    <3>6. Right' BY <1>c, <2>1, <2>2, <2>3, <3>1, <3>2, <3>5
    <3>7. Accounted' BY <1>c, <2>2, <3>1, <3>2, <3>3
    <3> QED BY <3>4, <3>6, <3>7
  <2> QED BY <2>5, <2>6
<1>11. ASSUME NEW r \in asks, Answer(r) PROVE Target
  <2>1. HeldBack' = HeldBack /\ Fit' = Fit /\ UNCHANGED <<newest, acted>> /\ asks' = asks \ {r} /\ r.what = "load"
    BY <1>11, <1>a DEF Answer, HeldBack, Fit
  <2>2. CASE ~Counts(r)
    <3>1. UNCHANGED screenVars BY <1>11, <2>2 DEF Answer
    <3>2. \A s \in asks : Reading(s)' = Reading(s) BY <1>e, <1>f, <1>g, <2>1
    <3>3. ~Reading(r) BY <2>2 DEF Reading
    <3>4. DoneAct => DoneAct' BY <2>1 DEF DoneAct
    <3>5. Due => Due' BY <2>1, <3>2, <3>3 DEF Due
    <3> QED BY <1>c, <2>1, <3>1, <3>2, <3>4, <3>5
  <2>3. CASE Counts(r)
    <3>1. \A s \in asks : Reading(s)' = Reading(s) BY <1>e, <1>f, <1>g, <2>1
    <3>2. Reading(r) BY <2>1, <2>3 DEF Reading
    <3>3. \A s \in asks' : ~Reading(s)' BY <1>c, <2>1, <3>1, <3>2
    <3>4. DoneAct => DoneAct' BY <2>1 DEF DoneAct
    <3>5. CASE r.state = "done"
      <4> DEFINE t == [there |-> TRUE, of |-> r.of, page |-> r.page, acts |-> r.acts, parts |-> {}]
      <4>1. t.acts = r.acts OBVIOUS
      <4>2. table' = CASE r.state = "done" -> t
                       [] r.state = "refused" /\ thisList.failure = "clears" -> Blank [] OTHER -> table
        BY <1>11, <2>3 DEF Answer
      <4> HIDE DEF t
      <4>3. table'.acts = r.acts BY <3>5, <4>1, <4>2
      <4>4. Fit => r.acts = acted \/ DoneAct BY <1>c, <3>2, <3>5
      <4> QED BY <2>1, <3>3, <3>4, <4>3, <4>4
    <3>6. CASE r.state # "done"
      <4>1. error' BY <1>11, <1>e, <2>3, <3>6 DEF Answer, ListRequests
      <4> QED BY <3>3, <4>1
    <3> QED BY <3>5, <3>6
  <2> QED BY <2>2, <2>3
<1>12. ASSUME NEW r \in asks, AnswerMore(r) PROVE Target
  <2>1. HeldBack' = HeldBack /\ Fit' = Fit /\ UNCHANGED <<newest, acted>> /\ asks' = asks \ {r} /\ r.what = "more"
    BY <1>12, <1>a DEF AnswerMore, HeldBack, Fit
  <2>2. error => error' BY <1>12 DEF AnswerMore
  <2>3. table'.acts = table.acts BY <1>12, <1>b, MoreAnswered
  <2> QED BY <1>s, <2>1, <2>2, <2>3
<1>13. ASSUME NEW r \in asks, ActAnswered(r) PROVE Target
  <2>1. HeldBack' = HeldBack /\ Fit' = Fit /\ acted' = acted /\ r.what = "act" /\ r.state # "asked"
    BY <1>13, <1>a DEF ActAnswered, HeldBack, Fit
  <2>2. CASE \E q \in ListRequests :
                /\ asks' = (asks \ {r}) \cup {q} /\ ~HeldBack
                /\ q.what = "load" /\ q.n = newest' /\ q.state = "asked" /\ newest' = newest + 1
    BY <1>n, <2>1, <2>2
  <2>3. CASE /\ asks' = asks \ {r} /\ UNCHANGED <<newest, loading>>
             /\ ~(thisList.again \in {"always", r.state} /\ ~HeldBack /\ Fit)
    <3>1. CASE r.state = "refused"
      <4>1. table' = table BY <1>13, <1>d, <3>1 DEF ActAnswered
      <4>2. error => error' BY <1>13 DEF ActAnswered
      <4> QED BY <1>s, <2>1, <2>3, <3>1, <4>1, <4>2
    <3>2. CASE r.state = "done"
      <4>1. HeldBack \/ ~Fit BY <2>3, <3>2
      <4>2. \A s \in asks' : s \in asks /\ Reading(s)' = Reading(s) BY <1>e, <1>f, <1>g, <2>3
      <4>3. Once' /\ NoneDue' BY <1>c, <2>1, <4>2
      <4>4. Right'
        <5>1. CASE ~Fit BY <2>1, <5>1
        <5>2. CASE HeldBack BY <1>c, <4>2, <5>2
        <5> QED BY <4>1, <5>1, <5>2
      <4>5. Accounted' BY <2>1, <4>1
      <4> QED BY <4>3, <4>4, <4>5
    <3> QED BY <1>e, <2>1, <3>1, <3>2 DEF ListRequests
  <2> QED BY <1>13, <1>b, <2>2, <2>3, ActAnsweredKinds
<1> QED BY <1>1, <1>2, <1>3, <1>4, <1>5, <1>6, <1>8, <1>9, <1>10, <1>11, <1>12, <1>13, <1>b, StepKinds

\* A list whose requests are all answered shows what was asked last, whatever
\* the order of the answers.
THEOREM ListsSettle == ListsSpec => []ListSettles
<1>1. ListsInv /\ [ListsNext]_listVars => ListsInv'
  <2> SUFFICES ASSUME ListsInv, [ListsNext]_listVars PROVE ListsInv' OBVIOUS
  <2>1. IsApplied' BY FilterNext DEF ListsInv
  <2>2. ListTypes' BY ListTypesNext DEF ListsInv
  <2> QED BY <2>1, <2>2, OneQuestionNext, ReadsNext, LoadingNext, ScreenNext, PartsNext, ActsNext DEF ListsInv
<1>2. ListsInv => ListSettles
  <2> SUFFICES ASSUME ListsInv, Quiet, ~Unfit(chosen), Anyway
               PROVE  /\ ~loading
                      /\ error \/ (table.there /\ table.of = chosen /\ table.page = pageNo)
                      /\ thisList.pages # "free" => table.parts \subseteq {chosen}
                      /\ thisList.counts = "latest" /\ thisList.again = "done" /\ ~error => table.acts = acted
    BY DEF ListSettles, Anyway
  <2>1. asks = {} /\ ~waiting /\ ~HeldBack /\ chosen = applied BY DEF Quiet, HeldBack, ListsInv, IsApplied
  <2>2. Fit BY <2>1 DEF Fit
  <2>3. ~loading BY <2>1, <2>2 DEF ListsInv, LoadingIsAsked
  <2>4. error \/ (table.there /\ table.of = chosen /\ table.page = pageNo) BY <2>1, <2>2 DEF ListsInv, ScreenIsDue
  <2>5. thisList.pages # "free" => table.parts \subseteq {chosen} BY <2>1, <2>2 DEF ListsInv, PartsFit
  <2>6. thisList.counts = "latest" /\ thisList.again = "done" /\ ~error => table.acts = acted
    BY <2>1, <2>2 DEF ListsInv, ActsAreDue, DoneAct
  <2> QED BY <2>3, <2>4, <2>5, <2>6
<1> QED BY <1>1, <1>2, ListsBegin, PTL DEF ListsSpec
===============================================================================
