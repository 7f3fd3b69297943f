---------------------------- MODULE TicketProofs ----------------------------
(* Proofs about Ticket, for every set of agents and every bound.           *)
EXTENDS Ticket, TLAPS

\* Who is about to get a ticket is someone.
GivesToSomeone ==
    \A p \in Procs : pc[p] \in {"give", "setOwner", "addOwner"} => saw[p].owner \in Agents

TInv == TypeOK /\ GivesToSomeone

USE DEF Ids, NoOne

LEMMA AgentsAreNot ==
    /\ NoOne \notin Agents
    /\ Agents \subseteq Procs /\ {"worker", "clock", "rule"} \subseteq Procs
    /\ MaxTickets \in Nat
<1>1. "none" \notin Agents BY TicketAssumption
<1>2. MaxTickets \in Nat BY TicketAssumption
<1> QED BY <1>1, <1>2 DEF Procs

LEMMA InitInv == ASSUME Init PROVE TInv
<1> USE TicketAssumption DEF Init
<1>1. TicketsTypeOK BY DEF TicketsTypeOK, Statuses, People, Roles
<1>2. TalkTypeOK
  <2>1. ticket \in 0 .. MaxTickets BY AgentsAreNot
  <2>2. jobs \in Seq([t : Ids, fresh : BOOLEAN, owner : People]) OBVIOUS
  <2> QED BY <2>1, <2>2 DEF TalkTypeOK
<1>3. HandsTypeOK BY DEF HandsTypeOK, Places, AllAsks, Reads, Nothing, Statuses, People
<1>4. HistoryTypeOK BY DEF HistoryTypeOK
<1>5. GivesToSomeone BY DEF GivesToSomeone
<1> QED BY <1>1, <1>2, <1>3, <1>4, <1>5 DEF TInv, TypeOK

\* Where people go: an idle one has read nothing.
LEMMA GotoType ==
    ASSUME HandsTypeOK, NEW p \in Procs, NEW q \in Places, Goto(p, q)
    PROVE  HandsTypeOK'
<1>1. Nothing \in Reads BY DEF Nothing, Reads, Statuses, People
<1>2. "idle" \in Places BY DEF Places
<1>3. 0 \in 0 .. MaxTickets BY AgentsAreNot
<1> QED BY <1>1, <1>2, <1>3 DEF HandsTypeOK, Goto, Rests

LEMMA CallType ==
    ASSUME HandsTypeOK, NEW p \in Procs, NEW q \in Places,
           NEW n \in {"idle", "hello", "offBot", "toHuman", "timeout", "finish"},
           Call(p, q, n)
    PROVE  HandsTypeOK'
BY DEF HandsTypeOK, Call

LEMMA ReturnType ==
    ASSUME HandsTypeOK, NEW p \in Procs, Return(p)
    PROVE  HandsTypeOK'
<1>1. next[p] \in Places BY DEF HandsTypeOK, Places, AllAsks
<1> QED BY <1>1, GotoType DEF Return

LEMMA SeenType ==
    ASSUME TypeOK, NEW t \in Ids, NEW m \in Nat
    PROVE  Seen(t, m) \in Reads
BY DEF TypeOK, TicketsTypeOK, Seen, Reads

LEMMA RolesType ==
    ASSUME TicketsTypeOK, NEW t, NEW a, NEW r \in Roles,
           SetRole(t, a, r) \/ Joins(t, a, r) \/ HandsOver(t, a)
    PROVE  role' \in [Ids -> [Agents -> Roles]]
<1> USE DEF TicketsTypeOK, Roles
<1>1. CASE SetRole(t, a, r) BY <1>1 DEF SetRole
<1>2. CASE Joins(t, a, r)
  <2>1. CASE t \in Ids /\ a \in Agents BY <1>2, <2>1 DEF SetRole, Joins
  <2>2. CASE t \notin Ids BY <1>2, <2>2 DEF SetRole, Joins
  <2>3. CASE a \notin Agents BY <1>2, <2>3 DEF SetRole, Joins
  <2> QED BY <2>1, <2>2, <2>3
<1>3. CASE HandsOver(t, a) BY <1>3 DEF HandsOver, Demoted
<1> QED BY <1>1, <1>2, <1>3

-----------------------------------------------------------------------------
\* The tickets' rows keep their types.
LEMMA RowsStay == ASSUME TicketsTypeOK, UNCHANGED tickets PROVE TicketsTypeOK'
BY DEF TicketsTypeOK, tickets

LEMMA OffTheBotType == \A s \in Statuses : OffTheBot(s) \in Statuses
BY DEF OffTheBot, Statuses

LEMMA OffTheBotRow ==
    ASSUME TicketsTypeOK, NEW t
    PROVE  [status EXCEPT ![t] = OffTheBot(@)] \in [Ids -> Statuses]
<1>1. CASE t \in Ids BY <1>1, OffTheBotType DEF TicketsTypeOK
<1>2. CASE t \notin Ids BY <1>2 DEF TicketsTypeOK
<1> QED BY <1>1, <1>2

LEMMA OwnerRow ==
    ASSUME TicketsTypeOK, NEW t, NEW a \in People
    PROVE  [owner EXCEPT ![t] = a] \in [Ids -> People]
BY DEF TicketsTypeOK

\* A counter raised by one is still a counter.
LEMMA CountRow ==
    ASSUME NEW f \in [Ids -> Nat], NEW t
    PROVE  [f EXCEPT ![t] = @ + 1] \in [Ids -> Nat]
<1>1. CASE t \in Ids BY <1>1
<1>2. CASE t \notin Ids BY <1>2
<1> QED BY <1>1, <1>2

LEMMA CustomerRows == ASSUME TInv, CustomerWrites PROVE TicketsTypeOK'
<1> TicketsTypeOK /\ TalkTypeOK BY DEF TInv, TypeOK
<1> USE DEF TicketsTypeOK, TalkTypeOK, CustomerWrites, Statuses, People, Roles
<1>1. CASE OpensAnew BY <1>1 DEF OpensAnew, Opens
<1>2. CASE ComesBack
  <2>1. status' \in [Ids -> Statuses] /\ awaiting' \in [Ids -> BOOLEAN]
        /\ listed' \in [Ids -> BOOLEAN] /\ lastIn' \in [Ids -> Nat]
    BY <1>2 DEF ComesBack
  <2>2. reopens' = [reopens EXCEPT ![ticket] = @ + 1] BY <1>2 DEF ComesBack
  <2>3. reopens' \in [Ids -> Nat] BY <2>2, CountRow
  <2>4. owner' \in {owner, [owner EXCEPT ![ticket] = NoOne]} BY <1>2 DEF ComesBack
  <2>5. owner' \in [Ids -> People] BY <2>4
  <2>6. UNCHANGED role \/ SetRole(ticket, owner[ticket], Demoted(role[ticket][owner[ticket]]))
    BY <1>2 DEF ComesBack
  <2>7. Demoted(role[ticket][owner[ticket]]) \in Roles BY DEF Demoted
  <2>8. role' \in [Ids -> [Agents -> Roles]] BY <2>6, <2>7, RolesType
  <2> QED BY <2>1, <2>3, <2>5, <2>8
<1>3. CASE WritesOn BY <1>3 DEF WritesOn
<1> QED BY <1>1, <1>2, <1>3

LEMMA PanelRows ==
    ASSUME TInv, NEW a \in Agents, StartConversation(a) \/ Panel(a)
    PROVE  TicketsTypeOK'
<1> TicketsTypeOK /\ TalkTypeOK BY DEF TInv, TypeOK
<1> USE AgentsAreNot
<1>1. CASE StartConversation(a)
  BY <1>1 DEF StartConversation, Opens, TicketsTypeOK, Statuses, People, Roles
<1>2. ASSUME NEW r \in Roles, Joins(tk[a], a, r) \/ HandsOver(tk[a], a)
      PROVE  role' \in [Ids -> [Agents -> Roles]]
  BY <1>2, RolesType
<1>3. CASE Greet(a)
  <2>1. role' \in [Ids -> [Agents -> Roles]] BY <1>2, <1>3 DEF Greet, Roles
  <2>2. owner' \in {owner, [owner EXCEPT ![tk[a]] = a]}
        /\ status' \in {status, [status EXCEPT ![tk[a]] = OffTheBot(@)]}
    BY <1>3 DEF Greet
  <2>3. owner' \in [Ids -> People] /\ status' \in [Ids -> Statuses]
    <3>1. a \in People BY DEF People
    <3>2. [owner EXCEPT ![tk[a]] = a] \in [Ids -> People] BY <3>1, OwnerRow
    <3>3. [status EXCEPT ![tk[a]] = OffTheBot(@)] \in [Ids -> Statuses] BY OffTheBotRow
    <3>4. owner \in [Ids -> People] /\ status \in [Ids -> Statuses] BY DEF TicketsTypeOK
    <3> QED BY <2>2, <3>2, <3>3, <3>4
  <2> QED BY <1>3, <2>1, <2>3 DEF Greet, TicketsTypeOK
<1>4. CASE Take(a)
  <2>1. role' \in [Ids -> [Agents -> Roles]] BY <1>2, <1>4 DEF Take, Roles, TicketsTypeOK
  <2> QED BY <1>4, <2>1 DEF Take, TicketsTypeOK, People
<1>5. CASE Assign(a)
  <2>1. PICK b \in People : owner' = [owner EXCEPT ![tk[a]] = b] /\ HandsOver(tk[a], b)
    BY <1>5 DEF Assign, People
  <2>2. role' \in [Ids -> [Agents -> Roles]] BY <2>1, RolesType DEF Roles
  <2> QED BY <1>5, <2>1, <2>2, OffTheBotType DEF Assign, TicketsTypeOK
<1>6. CASE Resolve(a)
  BY <1>6 DEF Resolve, Closes, tickets, TicketsTypeOK, Statuses
<1>7. CASE Reopen(a)
  <2>1. status' \in {status, [status EXCEPT ![tk[a]] = "open"]}
        /\ reopens' \in {reopens, [reopens EXCEPT ![tk[a]] = @ + 1]}
    BY <1>7 DEF Reopen
  <2>2. status' \in [Ids -> Statuses] BY <2>1 DEF TicketsTypeOK, Statuses
  <2>3. [reopens EXCEPT ![tk[a]] = @ + 1] \in [Ids -> Nat] BY CountRow DEF TicketsTypeOK
  <2>4. reopens' \in [Ids -> Nat] BY <2>1, <2>3 DEF TicketsTypeOK
  <2> QED BY <1>7, <2>2, <2>4 DEF Reopen, TicketsTypeOK
<1>8. CASE Edit(a) BY <1>8 DEF Edit, TicketsTypeOK, Statuses
<1>9. CASE Answer(a)
  <2>1. role' \in [Ids -> [Agents -> Roles]] BY <1>2, <1>9 DEF Answer, Roles
  <2>2. status' \in [Ids -> Statuses] /\ owner' \in [Ids -> People]
    BY <1>9, OffTheBotType DEF Answer, TicketsTypeOK, People, Statuses
  <2> QED BY <1>9, <2>1, <2>2 DEF Answer, TicketsTypeOK
<1>10. CASE Hello(a) \/ OffBot(a) BY <1>10, RowsStay DEF Hello, OffBot
<1> QED BY <1>1, <1>3, <1>4, <1>5, <1>6, <1>7, <1>8, <1>9, <1>10 DEF Panel

LEMMA ProcedureRows ==
    ASSUME TInv, NEW p \in Procs, Procedure(p)
    PROVE  TicketsTypeOK'
<1> TicketsTypeOK BY DEF TInv, TypeOK
<1>1. CASE UNCHANGED tickets BY <1>1, RowsStay
<1>2. CASE Release(p) BY <1>2, OffTheBotType DEF Release, TicketsTypeOK
<1>3. CASE Give(p)
  <2>1. pc[p] = "give" /\ saw[p].owner \in Agents BY <1>3 DEF Give, TInv, GivesToSomeone
  <2>2. role' \in [Ids -> [Agents -> Roles]]
    BY <1>3, RolesType DEF Give, Roles, TicketsTypeOK
  <2> QED BY <1>3, <2>1, <2>2 DEF Give, TicketsTypeOK, People
<1>4. CASE Close(p) BY <1>4 DEF Close, Closes, tickets, TicketsTypeOK, Statuses
<1> QED BY <1>1, <1>2, <1>3, <1>4 DEF Procedure, EndBot, DropFlow, HandOut, tickets

LEMMA OtherRows ==
    ASSUME TInv, \/ Route \/ ToHuman \/ StartAwaiting \/ PutOnWaitList \/ OpenBotTicket
                 \/ SetOwnerIfNone \/ AddOwner
    PROVE  TicketsTypeOK'
<1> TicketsTypeOK BY DEF TInv, TypeOK
<1>1. CASE Route BY <1>1 DEF Route, TicketsTypeOK, Statuses
<1>2. CASE ToHuman BY <1>2, OffTheBotType DEF ToHuman, TicketsTypeOK
<1>3. CASE StartAwaiting BY <1>3 DEF StartAwaiting, TicketsTypeOK
<1>4. CASE PutOnWaitList BY <1>4 DEF PutOnWaitList, TicketsTypeOK
<1>5. CASE OpenBotTicket BY <1>5, OffTheBotType DEF OpenBotTicket, TicketsTypeOK
<1>6. CASE SetOwnerIfNone
  <2>1. saw["rule"].owner \in Agents
    BY <1>6, AgentsAreNot DEF SetOwnerIfNone, TInv, GivesToSomeone
  <2> QED BY <1>6, <2>1 DEF SetOwnerIfNone, TicketsTypeOK, People
<1>7. CASE AddOwner
  <2>1. role' \in [Ids -> [Agents -> Roles]] BY <1>7, RolesType DEF AddOwner, Roles
  <2> QED BY <1>7, <2>1 DEF AddOwner, TicketsTypeOK
<1> QED BY <1>1, <1>2, <1>3, <1>4, <1>5, <1>6, <1>7

LEMMA TicketsTypeNext == ASSUME TInv, [Next]_vars PROVE TicketsTypeOK'
<1> TicketsTypeOK BY DEF TInv, TypeOK
<1>1. CASE UNCHANGED tickets BY <1>1, RowsStay
<1>2. CASE CustomerWrites BY <1>2, CustomerRows
<1>3. ASSUME NEW a \in Agents, StartConversation(a) \/ Panel(a) PROVE TicketsTypeOK'
  BY <1>3, PanelRows
<1>4. ASSUME NEW p \in Procs, Procedure(p) PROVE TicketsTypeOK' BY <1>4, ProcedureRows
<1>5. CASE \/ Route \/ ToHuman \/ StartAwaiting \/ PutOnWaitList \/ OpenBotTicket
           \/ SetOwnerIfNone \/ AddOwner
  BY <1>5, OtherRows
<1> HIDE DEF TicketsTypeOK
<1>6. ASSUME Worker \/ BeginFault \/ ContinueFault \/ FlowFault \/ Clock \/ RunRule \/ Rule PROVE TicketsTypeOK'
  BY <1>1, <1>4, <1>5, <1>6, AgentsAreNot
     DEF Worker, TakeJob, Begin, BeginFault, Continue, ContinueFault, Flow, FlowFault, FinishJob, Clock,
         SweepWaiting, SweepPool, SweepBots, Sweeps, SweepNothing, TimedOut, RunRule, Rule, tickets
<1>7. ASSUME \/ \E a \in Agents : Ask(a) \/ Procedure(a)
             \/ \E p \in Procs : NobodyFree(p) \/ Fails(p)
             \/ Crash \/ UNCHANGED vars
      PROVE  TicketsTypeOK'
  BY <1>1, <1>4, <1>7, AgentsAreNot DEF Ask, NobodyFree, Fails, Crash, vars, tickets
<1> QED BY <1>2, <1>3, <1>6, <1>7 DEF Next

-----------------------------------------------------------------------------
\* The conversation and its jobs keep their types.
LEMMA TalkTypeNext == ASSUME TInv, [Next]_vars PROVE TalkTypeOK'
<1> DEFINE Work == [t : Ids, fresh : BOOLEAN, owner : People]
<1> TalkTypeOK BY DEF TInv, TypeOK
<1>1. TicketsTypeOK' BY TicketsTypeNext
<1>2. CASE UNCHANGED talk BY <1>2 DEF TalkTypeOK, talk
<1>3. CASE UNCHANGED <<ticket, msgs, jobs>> /\ session' \in BOOLEAN BY <1>3 DEF TalkTypeOK
<1>4. CASE CustomerWrites
  <2>1. ASSUME NEW t \in Ids, NEW f \in BOOLEAN, Queues(t, f) PROVE jobs' \in Seq(Work)
    <3>1. owner'[t] \in People BY <1>1, <2>1 DEF TicketsTypeOK
    <3>2. [t |-> t, fresh |-> f, owner |-> owner'[t]] \in Work BY <2>1, <3>1
    <3>3. jobs \in Seq(Work) BY DEF TalkTypeOK
    <3> HIDE DEF Work
    <3> QED BY <2>1, <3>2, <3>3 DEF Queues
  <2>2. ASSUME ticket > 0 PROVE ticket \in Ids BY <2>2, AgentsAreNot DEF TalkTypeOK
  <2>3. CASE OpensAnew
    <3>1. ticket + 1 \in Ids /\ ticket' = ticket + 1 /\ Queues(ticket + 1, TRUE)
      BY <2>3 DEF OpensAnew, Opens
    <3>2. jobs' \in Seq(Work) BY <2>1, <3>1
    <3>3. msgs' = msgs + 1 /\ session' = session BY <1>4 DEF CustomerWrites
    <3> QED BY <3>1, <3>2, <3>3, AgentsAreNot DEF TalkTypeOK
  <2>4. CASE ComesBack \/ WritesOn
    <3>1. ticket' = ticket /\ ticket > 0 /\ \E f \in BOOLEAN : Queues(ticket, f)
      BY <2>4 DEF ComesBack, WritesOn
    <3>2. jobs' \in Seq(Work) BY <2>1, <2>2, <3>1
    <3>3. msgs' = msgs + 1 /\ session' = session BY <1>4 DEF CustomerWrites
    <3> QED BY <3>1, <3>2, <3>3 DEF TalkTypeOK
  <2> QED BY <1>4, <2>3, <2>4 DEF CustomerWrites
<1>5. ASSUME NEW a \in Agents, StartConversation(a) PROVE TalkTypeOK'
  BY <1>5, AgentsAreNot DEF StartConversation, Opens, TalkTypeOK
<1>6. CASE FinishJob
  <2>1. jobs' = Tail(jobs) /\ UNCHANGED <<ticket, msgs, session>> BY <1>6 DEF FinishJob
  <2>2. jobs # <<>> => Tail(jobs) \in Seq(Work) BY DEF TalkTypeOK
  <2>3. jobs = <<>> => Tail(jobs) \in Seq(Work) OBVIOUS
  <2> QED BY <2>1, <2>2, <2>3 DEF TalkTypeOK
<1> HIDE DEF TalkTypeOK
<1>7. ASSUME NEW a \in Agents, Ask(a) \/ Panel(a) PROVE TalkTypeOK'
  BY <1>2, <1>7 DEF Ask, Panel, Greet, Hello, Take, Assign, OffBot, Resolve, Reopen, Edit, Answer
<1>8. ASSUME NEW p \in Procs, Procedure(p) PROVE TalkTypeOK'
  <2>1. CASE DropFlow(p) BY <1>3, <2>1 DEF DropFlow
  <2> QED BY <1>2, <1>8, <2>1 DEF Procedure, EndBot, Release, HandOut, Give, Close
<1>9. ASSUME Worker \/ BeginFault \/ ContinueFault \/ FlowFault PROVE TalkTypeOK'
  <2>1. CASE Begin \/ Flow BY <1>3, <2>1 DEF Begin, Flow, TalkTypeOK
  <2> QED BY <1>2, <1>6, <1>8, <1>9, <2>1, AgentsAreNot
          DEF Worker, TakeJob, Route, BeginFault, Continue, ContinueFault, FlowFault, ToHuman, StartAwaiting
<1>10. ASSUME Clock \/ RunRule \/ Rule PROVE TalkTypeOK'
  BY <1>2, <1>8, <1>10, AgentsAreNot
     DEF Clock, SweepWaiting, SweepPool, SweepBots, Sweeps, SweepNothing, PutOnWaitList,
         OpenBotTicket, TimedOut, RunRule, Rule, SetOwnerIfNone, AddOwner
<1>11. ASSUME (\E p \in Procs : NobodyFree(p) \/ Fails(p)) \/ Crash \/ UNCHANGED vars
       PROVE  TalkTypeOK'
  BY <1>2, <1>11 DEF NobodyFree, Fails, Crash, vars
<1> QED BY <1>4, <1>5, <1>7, <1>8, <1>9, <1>10, <1>11, AgentsAreNot DEF Next

-----------------------------------------------------------------------------
\* Where people go.  Places where nobody is given a ticket need no one named.
Calm == Places \ {"give", "setOwner", "addOwner"}
Returns == {"idle", "hello", "offBot", "toHuman", "timeout", "finish"}

HandsInv == HandsTypeOK /\ GivesToSomeone

\* p goes to such a place, as nearly every step does.
Moves(p) ==
    \/ \E q \in Calm : Goto(p, q)
    \/ \E q \in Calm, n \in Returns : Call(p, q, n)
    \/ Return(p)

LEMMA MovesInv == ASSUME HandsInv, NEW p \in Procs, Moves(p) PROVE HandsInv'
<1> USE DEF HandsInv
<1>1. CASE \E q \in Calm : Goto(p, q)
  <2>1. PICK q \in Calm : Goto(p, q) BY <1>1
  <2>2. HandsTypeOK' BY <2>1, GotoType DEF Calm
  <2>3. GivesToSomeone'
    BY <2>1 DEF GivesToSomeone, Goto, Rests, Calm, HandsTypeOK
  <2> QED BY <2>2, <2>3
<1>2. CASE \E q \in Calm, n \in Returns : Call(p, q, n)
  <2>1. PICK q \in Calm, n \in Returns : Call(p, q, n) BY <1>2
  <2>2. HandsTypeOK' BY <2>1, CallType DEF Calm, Returns
  <2>3. GivesToSomeone' BY <2>1 DEF GivesToSomeone, Call, Calm, HandsTypeOK
  <2> QED BY <2>2, <2>3
<1>3. CASE Return(p)
  <2>1. next[p] \in Calm BY DEF HandsTypeOK, Calm, Places, AllAsks
  <2> QED BY <1>1, <1>3, <2>1 DEF Return
<1> QED BY <1>1, <1>2, <1>3 DEF Moves

LEMMA PlacesAreCalm == AllAsks \cup Returns \cup
    {"idle", "endBot", "dropFlow", "release", "handOut", "close", "route", "begin", "bot", "flow",
     "await", "list", "openBot"} \subseteq Calm
BY DEF Calm, Places, AllAsks, Returns

LEMMA HandsStay == ASSUME HandsInv, UNCHANGED hands PROVE HandsInv'
BY DEF HandsInv, HandsTypeOK, GivesToSomeone, hands

\* A request reads the ticket and says what it is for.
LEMMA AskHands ==
    ASSUME TInv, NEW a \in Agents, Ask(a) \/ Hello(a)
    PROVE  HandsInv'
<1> HandsInv /\ TypeOK BY DEF TInv, TypeOK, HandsInv
<1> a \in Procs BY AgentsAreNot
<1>1. ASSUME NEW q \in Calm, NEW m \in Nat, ticket > 0,
             pc' = [pc EXCEPT ![a] = q], saw' = [saw EXCEPT ![a] = Seen(ticket, m)],
             tk' = [tk EXCEPT ![a] = ticket], UNCHANGED <<next, turn>>
      PROVE  HandsInv'
  <2>1. ticket \in Ids /\ ticket \in 0 .. MaxTickets
    BY <1>1, AgentsAreNot DEF TypeOK, TalkTypeOK
  <2>2. Seen(ticket, m) \in Reads BY <2>1, SeenType
  <2>3. HandsTypeOK' BY <1>1, <2>1, <2>2 DEF HandsInv, HandsTypeOK, Calm
  <2>4. GivesToSomeone' BY <1>1 DEF HandsInv, HandsTypeOK, GivesToSomeone, Calm
  <2> QED BY <2>3, <2>4 DEF HandsInv
<1>2. CASE Ask(a)
  <2>1. PICK what \in Asks, m \in 0 .. msgs :
          pc' = [pc EXCEPT ![a] = what] /\ saw' = [saw EXCEPT ![a] = Seen(ticket, m)]
    BY <1>2 DEF Ask
  <2>2. what \in Calm BY PlacesAreCalm, TicketAssumption
  <2>3. m \in Nat BY DEF TypeOK, TalkTypeOK
  <2> QED BY <1>1, <1>2, <2>1, <2>2, <2>3 DEF Ask
<1>3. CASE Hello(a)
  <2>1. CASE Goto(a, "idle") BY <2>1, MovesInv, PlacesAreCalm DEF Moves
  <2>2. "reply" \in Calm BY PlacesAreCalm DEF AllAsks
  <2> QED BY <1>1, <1>3, <2>1, <2>2 DEF Hello
<1> QED BY <1>2, <1>3

LEMMA PanelHands == ASSUME TInv, NEW a \in Agents, Panel(a) PROVE HandsInv'
<1> HandsInv BY DEF TInv, TypeOK, HandsInv
<1> a \in Procs BY AgentsAreNot
<1>1. CASE Hello(a) BY <1>1, AskHands
<1>2. CASE Moves(a) BY <1>2, MovesInv
<1> USE PlacesAreCalm DEF Moves, Returns, AllAsks
<1>3. ASSUME NEW h, ThenEndBot(a, h) PROVE Moves(a) BY <1>3 DEF ThenEndBot
<1>4. CASE Greet(a) BY <1>2, <1>4 DEF Greet
<1>5. CASE Take(a) \/ Reopen(a) \/ Edit(a) BY <1>2, <1>5 DEF Take, Reopen, Edit
<1>6. CASE Assign(a)
  <2>1. (\E h : ThenEndBot(a, h)) \/ (\E n \in {"offBot", "idle"} : Call(a, "handOut", n))
    BY <1>6 DEF Assign
  <2> QED BY <1>2, <1>3, <2>1
<1>7. CASE Resolve(a) \/ OffBot(a) BY <1>2, <1>7 DEF Resolve, OffBot
<1>8. CASE Answer(a) BY <1>2, <1>3, <1>8 DEF Answer
<1> QED BY <1>1, <1>4, <1>5, <1>6, <1>7, <1>8 DEF Panel

LEMMA ProcedureHands == ASSUME TInv, NEW p \in Procs, Procedure(p) PROVE HandsInv'
<1> HandsInv BY DEF TInv, TypeOK, HandsInv
<1>1. CASE Moves(p) BY <1>1, MovesInv
<1>2. CASE HandOut(p) /\ ~Return(p)
  <2>1. PICK a \in Agents : /\ saw' = [saw EXCEPT ![p] = [@ EXCEPT !.owner = a]]
                            /\ pc' = [pc EXCEPT ![p] = "give"]
                            /\ UNCHANGED <<tk, next, turn>>
    BY <1>2 DEF HandOut
  <2>2. "give" \in Places BY DEF Places
  <2>3. [saw[p] EXCEPT !.owner = a] \in Reads BY DEF HandsInv, HandsTypeOK, Reads, People
  <2>4. HandsTypeOK' BY <2>1, <2>2, <2>3 DEF HandsInv, HandsTypeOK
  <2>5. saw'[p].owner = a BY <2>1 DEF HandsInv, HandsTypeOK, Reads
  <2>6. GivesToSomeone' BY <2>1, <2>5 DEF HandsInv, HandsTypeOK, GivesToSomeone
  <2> QED BY <2>4, <2>6 DEF HandsInv
<1>3. ASSUME EndBot(p) \/ DropFlow(p) \/ Release(p) \/ Give(p) \/ Close(p) PROVE Moves(p)
  BY <1>3, PlacesAreCalm DEF Moves, Returns, EndBot, DropFlow, Release, Give, Close
<1> QED BY <1>1, <1>2, <1>3 DEF Procedure, Moves

LEMMA WorkerHands ==
    ASSUME TInv, Worker \/ BeginFault \/ ContinueFault \/ FlowFault PROVE HandsInv'
<1> TypeOK /\ HandsInv BY DEF TInv, TypeOK, HandsInv
<1> "worker" \in Procs BY AgentsAreNot
<1>1. CASE Moves("worker") BY <1>1, MovesInv
<1>2. CASE TakeJob
  <2>1. Job.t \in Ids
    <3> DEFINE Work == [t : Ids, fresh : BOOLEAN, owner : People]
    <3>1. jobs \in Seq(Work) /\ jobs # <<>> BY <1>2 DEF TakeJob, TypeOK, TalkTypeOK
    <3>2. Head(jobs) \in Work
      <4> HIDE DEF Work
      <4> QED BY <3>1
    <3> QED BY <3>2 DEF Job
  <2>2. Seen(Job.t, 0) \in Reads BY <2>1, SeenType
  <2>3. PICK q \in {"route", "bot", "finish"} : pc' = [pc EXCEPT !["worker"] = q]
    BY <1>2 DEF TakeJob
  <2>4. q \in Calm BY PlacesAreCalm DEF Returns
  <2>5. /\ tk' = [tk EXCEPT !["worker"] = Job.t]
        /\ saw' = [saw EXCEPT !["worker"] = Seen(Job.t, 0)]
        /\ next' = [next EXCEPT !["worker"] = "finish"] /\ turn' = turn
    BY <1>2 DEF TakeJob
  <2>6. Job.t \in 0 .. MaxTickets BY <2>1, AgentsAreNot
  <2>7. HandsTypeOK' BY <2>2, <2>3, <2>4, <2>5, <2>6 DEF HandsInv, HandsTypeOK, Calm
  <2>8. GivesToSomeone'
    BY <2>3, <2>4, <2>5 DEF HandsInv, HandsTypeOK, GivesToSomeone, Calm
  <2> QED BY <2>7, <2>8 DEF HandsInv
<1>3. CASE Procedure("worker") BY <1>3, ProcedureHands
<1>4. ASSUME Route \/ Begin \/ BeginFault \/ Continue \/ ContinueFault \/ Flow \/ FlowFault
             \/ ToHuman \/ StartAwaiting \/ FinishJob
      PROVE  Moves("worker")
  BY <1>4, PlacesAreCalm
     DEF Moves, Returns, Route, Begin, BeginFault, Continue, ContinueFault, Flow, FlowFault, ToHuman,
         StartAwaiting, FinishJob
<1> QED BY <1>1, <1>2, <1>3, <1>4 DEF Worker

LEMMA ClockHands == ASSUME TInv, Clock PROVE HandsInv'
<1> TypeOK /\ HandsInv BY DEF TInv, TypeOK, HandsInv
<1> "clock" \in Procs BY AgentsAreNot
<1>1. CASE Moves("clock") BY <1>1, MovesInv
<1>2. \A k : After(k) \in {"waiting", "pool", "bots"} BY DEF After
<1>3. ASSUME NEW k, NEW t \in Ids, NEW q \in Calm, Sweeps(k, t, q) PROVE HandsInv'
  <2>1. t \in 0 .. MaxTickets BY AgentsAreNot
  <2>2. turn' \in {"waiting", "pool", "bots"} BY <1>2, <1>3 DEF Sweeps
  <2>3. HandsTypeOK' BY <1>3, <2>1, <2>2 DEF Sweeps, HandsInv, HandsTypeOK, Calm
  <2>4. GivesToSomeone' BY <1>3 DEF Sweeps, HandsInv, HandsTypeOK, GivesToSomeone, Calm
  <2> QED BY <2>3, <2>4 DEF HandsInv
<1>4. CASE SweepNothing
  BY <1>2, <1>4 DEF SweepNothing, HandsInv, HandsTypeOK, GivesToSomeone
<1>5. CASE SweepWaiting \/ SweepPool \/ SweepBots
  BY <1>3, <1>5, PlacesAreCalm DEF SweepWaiting, SweepPool, SweepBots
<1>6. CASE Procedure("clock") BY <1>6, ProcedureHands
<1>7. ASSUME PutOnWaitList \/ OpenBotTicket \/ TimedOut PROVE Moves("clock")
  BY <1>7, PlacesAreCalm DEF Moves, Returns, PutOnWaitList, OpenBotTicket, TimedOut
<1> QED BY <1>1, <1>4, <1>5, <1>6, <1>7 DEF Clock

LEMMA RuleHands == ASSUME TInv, RunRule \/ Rule PROVE HandsInv'
<1> TypeOK /\ HandsInv BY DEF TInv, TypeOK, HandsInv
<1> "rule" \in Procs BY AgentsAreNot
<1>1. CASE RunRule
  <2>1. PICK a \in Agents : saw' = [saw EXCEPT !["rule"] = [Nothing EXCEPT !.owner = a]]
    BY <1>1 DEF RunRule
  <2>2. PICK q \in {"handOut", "setOwner", "close"} : pc' = [pc EXCEPT !["rule"] = q]
    BY <1>1 DEF RunRule
  <2>3. q \in Places BY DEF Places
  <2>4. [Nothing EXCEPT !.owner = a] \in Reads BY DEF Nothing, Reads, Statuses, People
  <2>5. ticket \in 0 .. MaxTickets BY DEF TypeOK, TalkTypeOK
  <2>6. HandsTypeOK' BY <1>1, <2>1, <2>2, <2>3, <2>4, <2>5 DEF RunRule, HandsInv, HandsTypeOK
  <2>7. saw'["rule"].owner = a BY <2>1 DEF Nothing, HandsInv, HandsTypeOK
  <2>8. GivesToSomeone' BY <2>1, <2>2, <2>7 DEF HandsInv, HandsTypeOK, GivesToSomeone
  <2> QED BY <2>6, <2>8 DEF HandsInv
<1>2. CASE SetOwnerIfNone
  <2>1. Goto("rule", "addOwner") /\ pc["rule"] = "setOwner" BY <1>2 DEF SetOwnerIfNone
  <2>2. HandsTypeOK' BY <2>1, GotoType DEF HandsInv, Places
  <2>3. GivesToSomeone' BY <2>1 DEF Goto, HandsInv, HandsTypeOK, GivesToSomeone
  <2> QED BY <2>2, <2>3 DEF HandsInv
<1>3. CASE AddOwner BY <1>3, MovesInv, PlacesAreCalm DEF AddOwner, Moves
<1>4. CASE Procedure("rule") BY <1>4, ProcedureHands
<1> QED BY <1>1, <1>2, <1>3, <1>4 DEF Rule

LEMMA HandsNext == ASSUME TInv, [Next]_vars PROVE HandsInv'
<1> TypeOK /\ HandsInv BY DEF TInv, TypeOK, HandsInv
<1>1. CASE UNCHANGED hands BY <1>1, HandsStay
<1>2. ASSUME NEW p \in Procs, NobodyFree(p) \/ Fails(p) PROVE HandsInv'
  <2>1. Moves(p) BY <1>2, PlacesAreCalm DEF Moves, Returns, NobodyFree, Fails
  <2> QED BY <2>1, MovesInv
<1>3. CASE Crash
  <2>1. "idle" \in Places /\ Nothing \in Reads /\ 0 \in 0 .. MaxTickets
    BY AgentsAreNot DEF Places, Nothing, Reads, Statuses, People
  <2> QED BY <1>3, <2>1 DEF Crash, HandsInv, HandsTypeOK, GivesToSomeone
<1>4. CASE CustomerWrites \/ UNCHANGED vars BY <1>1, <1>4 DEF CustomerWrites, vars
<1>5. ASSUME NEW a \in Agents, StartConversation(a) PROVE HandsInv'
  BY <1>1, <1>5 DEF StartConversation
<1> QED BY <1>2, <1>3, <1>4, <1>5, AskHands, PanelHands, ProcedureHands, WorkerHands,
           ClockHands, RuleHands, AgentsAreNot
        DEF Next

-----------------------------------------------------------------------------
(* The owner and who was told so change together.                          *)
GivenTo(t, a)  == owner[t] = NoOne /\ owner' = [owner EXCEPT ![t] = a] /\ Tells(t, a)
HandedTo(t, a) == owner' = [owner EXCEPT ![t] = a] /\ TellsOnly(t, {a} \cap Agents)

OwnerTold ==
    \/ UNCHANGED <<owner, told>>
    \/ \E t : \E a \in Agents : GivenTo(t, a)
    \/ \E t : \E a \in People : HandedTo(t, a)

LEMMA CustomerTells ==
    ASSUME TInv, CustomerWrites \/ \E a \in Agents : StartConversation(a)
    PROVE  OwnerTold
<1>1. ASSUME NEW t, NEW a \in People, Opens(t, a) PROVE OwnerTold
  <2>1. HandedTo(t, a) BY <1>1 DEF Opens, HandedTo
  <2> QED BY <2>1 DEF OwnerTold
<1>2. NoOne \in People /\ Agents \subseteq People BY DEF People
<1>3. ASSUME NEW t, owner' = [owner EXCEPT ![t] = NoOne], TellsOnly(t, {}) PROVE OwnerTold
  <2>1. {NoOne} \cap Agents = {} BY AgentsAreNot
  <2>2. HandedTo(t, NoOne) BY <1>3, <2>1 DEF HandedTo
  <2> QED BY <1>2, <2>2 DEF OwnerTold
<1>4. CASE UNCHANGED <<owner, told>> BY <1>4 DEF OwnerTold
<1> HIDE DEF OwnerTold
<1> QED BY <1>1, <1>2, <1>3, <1>4
        DEF CustomerWrites, OpensAnew, ComesBack, WritesOn, StartConversation

LEMMA PanelTells == ASSUME TInv, NEW a \in Agents, Panel(a) PROVE OwnerTold
<1>1. CASE UNCHANGED <<owner, told>> BY <1>1 DEF OwnerTold
<1>2. ASSUME NEW t, NEW b \in Agents, owner[t] = NoOne,
             owner' = [owner EXCEPT ![t] = b], Tells(t, b)
      PROVE  OwnerTold
  <2>1. GivenTo(t, b) BY <1>2 DEF GivenTo
  <2> QED BY <2>1 DEF OwnerTold
<1>3. ASSUME NEW t, NEW b \in Agents, owner' = [owner EXCEPT ![t] = b], TellsOnly(t, {b})
      PROVE  OwnerTold
  <2>1. b \in People /\ {b} \cap Agents = {b} BY DEF People
  <2>2. HandedTo(t, b) BY <1>3, <2>1 DEF HandedTo
  <2> QED BY <2>1, <2>2 DEF OwnerTold
<1>4. ASSUME NEW t, owner' = [owner EXCEPT ![t] = NoOne], TellsOnly(t, {}) PROVE OwnerTold
  <2>1. NoOne \in People /\ {NoOne} \cap Agents = {} BY AgentsAreNot DEF People
  <2>2. HandedTo(t, NoOne) BY <1>4, <2>1 DEF HandedTo
  <2> QED BY <2>1, <2>2 DEF OwnerTold
<1>5. CASE Greet(a) \/ Answer(a) BY <1>1, <1>2, <1>5 DEF Greet, Answer
<1>6. CASE Take(a) BY <1>1, <1>3, <1>6 DEF Take
<1>7. CASE Assign(a) BY <1>3, <1>4, <1>7 DEF Assign
<1>8. CASE Hello(a) \/ OffBot(a) \/ Resolve(a) \/ Reopen(a) \/ Edit(a)
  BY <1>1, <1>8 DEF Hello, OffBot, Resolve, Closes, Reopen, Edit, tickets, history
<1> QED BY <1>5, <1>6, <1>7, <1>8 DEF Panel

LEMMA OthersTell ==
    ASSUME TInv, (\E p \in Procs : Procedure(p)) \/ SetOwnerIfNone
    PROVE  OwnerTold
<1>1. ASSUME NEW p \in Procs, Give(p) PROVE OwnerTold
  <2>1. saw[p].owner \in Agents BY <1>1 DEF Give, TInv, GivesToSomeone
  <2>2. UNCHANGED <<owner, told>> \/ GivenTo(tk[p], saw[p].owner) BY <1>1 DEF Give, GivenTo
  <2> QED BY <2>1, <2>2 DEF OwnerTold
<1>2. CASE SetOwnerIfNone
  <2>1. saw["rule"].owner \in Agents
    BY <1>2, AgentsAreNot DEF SetOwnerIfNone, TInv, GivesToSomeone
  <2>2. UNCHANGED <<owner, told>> \/ GivenTo(tk["rule"], saw["rule"].owner)
    BY <1>2 DEF SetOwnerIfNone, GivenTo
  <2> QED BY <2>1, <2>2 DEF OwnerTold
<1>3. ASSUME NEW p \in Procs, EndBot(p) \/ DropFlow(p) \/ Release(p) \/ HandOut(p) \/ Close(p)
      PROVE  UNCHANGED <<owner, told>>
  BY <1>3 DEF EndBot, DropFlow, Release, HandOut, Close, Closes, tickets, history
<1> QED BY <1>1, <1>2, <1>3 DEF Procedure, OwnerTold

LEMMA OwnerToldNext == ASSUME TInv, [Next]_vars PROVE OwnerTold
<1>1. CASE UNCHANGED <<owner, told>> BY <1>1 DEF OwnerTold
<1>2. ASSUME NEW p \in Procs, Procedure(p) PROVE OwnerTold BY <1>2, OthersTell
<1>3. CASE SetOwnerIfNone BY <1>3, OthersTell
<1>4. CASE CustomerWrites BY <1>4, CustomerTells
<1>5. ASSUME NEW a \in Agents, StartConversation(a) PROVE OwnerTold BY <1>5, CustomerTells
<1>6. ASSUME NEW a \in Agents, Panel(a) PROVE OwnerTold BY <1>6, PanelTells
<1> HIDE DEF OwnerTold
<1>7. ASSUME Worker \/ BeginFault \/ ContinueFault \/ FlowFault \/ Clock \/ RunRule \/ Rule PROVE OwnerTold
  BY <1>1, <1>2, <1>3, <1>7, AgentsAreNot
     DEF Worker, TakeJob, Route, Begin, BeginFault, Continue, ContinueFault, Flow, FlowFault, ToHuman,
         StartAwaiting, FinishJob, Clock, SweepWaiting, SweepPool, SweepBots, Sweeps,
         SweepNothing, PutOnWaitList, OpenBotTicket, TimedOut, RunRule, Rule, AddOwner,
         tickets, history
<1>8. ASSUME \/ \E a \in Agents : Ask(a)
             \/ \E p \in Procs : NobodyFree(p) \/ Fails(p)
             \/ Crash \/ UNCHANGED vars
      PROVE  OwnerTold
  BY <1>1, <1>8 DEF Ask, NobodyFree, Fails, Crash, vars, tickets, history
<1> QED BY <1>2, <1>4, <1>5, <1>6, <1>7, <1>8, AgentsAreNot DEF Next

LEMMA ToldType == ASSUME TInv, OwnerTold PROVE told' \in [Ids -> SUBSET Agents]
<1> HistoryTypeOK BY DEF TInv, TypeOK
<1>1. ASSUME NEW t, NEW a \in Agents, Tells(t, a) PROVE told' \in [Ids -> SUBSET Agents]
  <2>1. CASE t \in Ids BY <1>1, <2>1 DEF Tells, HistoryTypeOK
  <2>2. CASE t \notin Ids BY <1>1, <2>2 DEF Tells, HistoryTypeOK
  <2> QED BY <2>1, <2>2
<1>2. ASSUME NEW t, NEW a, TellsOnly(t, {a} \cap Agents) PROVE told' \in [Ids -> SUBSET Agents]
  BY <1>2 DEF TellsOnly, HistoryTypeOK
<1> QED BY <1>1, <1>2 DEF OwnerTold, GivenTo, HandedTo, HistoryTypeOK

\* Whoever is told last is the only one who was, and owns the ticket.
LEMMA ToldStep == ASSUME TInv, ToldOwns, OwnerTold PROVE ToldOwns'
<1> USE DEF ToldOwns
<1> told \in [Ids -> SUBSET Agents] /\ owner \in [Ids -> People]
  BY DEF TInv, TypeOK, HistoryTypeOK, TicketsTypeOK
<1>1. CASE UNCHANGED <<owner, told>> BY <1>1
<1>2. ASSUME NEW t, NEW a \in Agents, owner[t] = NoOne,
             owner' = [owner EXCEPT ![t] = a], Tells(t, a)
      PROVE  ToldOwns'
  <2>1. ASSUME t \in Ids PROVE told[t] = {} BY <1>2, <2>1, AgentsAreNot
  <2> QED BY <1>2, <2>1 DEF Tells
<1>3. ASSUME NEW t, NEW a \in People,
             owner' = [owner EXCEPT ![t] = a], TellsOnly(t, {a} \cap Agents)
      PROVE  ToldOwns'
  BY <1>3 DEF TellsOnly
<1> QED BY <1>1, <1>2, <1>3 DEF OwnerTold, GivenTo, HandedTo

-----------------------------------------------------------------------------
\* What else is remembered: closing and answering, and what was used up.
Remembered ==
    /\ closed' \in [Ids -> [by : Procs \cup {NoOne}, seen : Nat]]
    /\ handled' \in [Ids -> Nat]

LEMMA RememberedNext == ASSUME TInv, [Next]_vars PROVE Remembered
<1> HistoryTypeOK /\ TicketsTypeOK /\ HandsTypeOK BY DEF TInv, TypeOK
<1>1. CASE UNCHANGED <<handled, closed>> BY <1>1 DEF Remembered, HistoryTypeOK
<1>2. ASSUME NEW t, handled' = [handled EXCEPT ![t] = lastIn[t]] PROVE handled' \in [Ids -> Nat]
  BY <1>2 DEF HistoryTypeOK, TicketsTypeOK
<1>3. ASSUME NEW t, NEW p \in Procs, NEW m \in Nat, Closes(t, p, m) PROVE Remembered
  <2>1. handled' \in [Ids -> Nat] BY <1>2, <1>3 DEF Closes
  <2>2. [by |-> p, seen |-> m] \in [by : Procs \cup {NoOne}, seen : Nat] OBVIOUS
  <2>3. closed' = [closed EXCEPT ![t] = [by |-> p, seen |-> m]] BY <1>3 DEF Closes
  <2>4. closed' \in [Ids -> [by : Procs \cup {NoOne}, seen : Nat]]
    BY <2>2, <2>3 DEF HistoryTypeOK
  <2> QED BY <2>1, <2>4 DEF Remembered
<1>4. ASSUME NEW a \in Agents, Resolve(a) PROVE Remembered
  <2>1. a \in Procs BY AgentsAreNot
  <2>2. saw[a].msg \in Nat BY <2>1 DEF HandsTypeOK, Reads
  <2>3. UNCHANGED <<handled, closed>> \/ Closes(tk[a], a, saw[a].msg)
    BY <1>4 DEF Resolve, history
  <2> QED BY <1>1, <1>3, <2>1, <2>2, <2>3
<1>5. ASSUME NEW a \in Agents, Answer(a) PROVE Remembered
  <2>1. closed' = closed /\ handled' = [handled EXCEPT ![tk[a]] = lastIn[tk[a]]]
    BY <1>5 DEF Answer
  <2> QED BY <1>2, <2>1 DEF Remembered, HistoryTypeOK
<1>6. ASSUME NEW p \in Procs, Close(p) PROVE Remembered
  <2>1. UNCHANGED <<handled, closed>> \/ Closes(tk[p], p, 0) BY <1>6 DEF Close, history
  <2> QED BY <1>1, <1>3, <2>1
<1> HIDE DEF Remembered
<1>7. ASSUME NEW p \in Procs, Procedure(p) PROVE Remembered
  BY <1>1, <1>6, <1>7 DEF Procedure, EndBot, DropFlow, Release, HandOut, Give, history
<1>8. ASSUME NEW a \in Agents, Panel(a) PROVE Remembered
  BY <1>1, <1>4, <1>5, <1>8 DEF Panel, Greet, Hello, Take, Assign, OffBot, Reopen, Edit, history
<1>9. ASSUME Worker \/ BeginFault \/ ContinueFault \/ FlowFault \/ Clock \/ RunRule \/ Rule PROVE Remembered
  BY <1>1, <1>7, <1>9, AgentsAreNot
     DEF Worker, TakeJob, Route, Begin, BeginFault, Continue, ContinueFault, Flow, FlowFault, ToHuman,
         StartAwaiting, FinishJob, Clock, SweepWaiting, SweepPool, SweepBots, Sweeps,
         SweepNothing, PutOnWaitList, OpenBotTicket, TimedOut, RunRule, Rule,
         SetOwnerIfNone, AddOwner, history
<1>10. ASSUME \/ CustomerWrites
              \/ \E a \in Agents : StartConversation(a) \/ Ask(a)
              \/ \E p \in Procs : NobodyFree(p) \/ Fails(p)
              \/ Crash \/ UNCHANGED vars
       PROVE  Remembered
  BY <1>1, <1>10 DEF CustomerWrites, StartConversation, Ask, NobodyFree, Fails, Crash, vars, history
<1> QED BY <1>7, <1>8, <1>9, <1>10, AgentsAreNot DEF Next

\* A budget is left alone or used once.
LEMMA BudgetsNext ==
    ASSUME TInv, [Next]_vars
    PROVE  acts' \in Nat /\ faults' \in Nat /\ downs' \in Nat
<1> DEFINE Used == acts' \in {acts, acts + 1} /\ faults' \in {faults, faults + 1}
                   /\ downs' \in {downs, downs + 1}
<1>1. ASSUME UNCHANGED budgets PROVE Used BY <1>1 DEF budgets
<1>2. ASSUME NEW p \in Procs, Procedure(p) PROVE Used
  BY <1>1, <1>2 DEF Procedure, EndBot, DropFlow, Release, HandOut, Give, Close
<1>3. ASSUME NEW a \in Agents, StartConversation(a) \/ Ask(a) \/ Panel(a) PROVE Used
  BY <1>1, <1>3 DEF StartConversation, Ask, Asked, Panel, Greet, Hello, Take, Assign, OffBot, Resolve,
                    Reopen, Edit, Answer
<1>4. ASSUME Worker \/ BeginFault \/ ContinueFault \/ FlowFault PROVE Used
  BY <1>1, <1>2, <1>4, AgentsAreNot
     DEF Worker, TakeJob, Route, Begin, BeginFault, Continue, ContinueFault, Flow, FlowFault, ToHuman,
         StartAwaiting, FinishJob
<1>5. ASSUME Clock \/ RunRule \/ Rule PROVE Used
  BY <1>1, <1>2, <1>5, AgentsAreNot
     DEF Clock, SweepWaiting, SweepPool, SweepBots, Sweeps, SweepNothing, PutOnWaitList,
         OpenBotTicket, TimedOut, RunRule, Asked, Rule, SetOwnerIfNone, AddOwner
<1>6. ASSUME \/ CustomerWrites \/ Crash \/ UNCHANGED vars
             \/ \E p \in Procs : NobodyFree(p) \/ Fails(p)
      PROVE  Used
  BY <1>1, <1>6 DEF CustomerWrites, Crash, NobodyFree, Fails, vars
<1>7. Used
  <2> HIDE DEF Used
  <2> QED BY <1>2, <1>3, <1>4, <1>5, <1>6, AgentsAreNot DEF Next
<1> QED BY <1>7 DEF TInv, TypeOK, HistoryTypeOK

LEMMA TInvNext == ASSUME TInv, [Next]_vars PROVE TInv'
<1>1. TicketsTypeOK' /\ TalkTypeOK' BY TicketsTypeNext, TalkTypeNext
<1>2. HandsTypeOK' /\ GivesToSomeone' BY HandsNext DEF HandsInv
<1>3. HistoryTypeOK'
  BY OwnerToldNext, ToldType, RememberedNext, BudgetsNext DEF Remembered, HistoryTypeOK
<1> QED BY <1>1, <1>2, <1>3 DEF TInv, TypeOK

LEMMA Inductive == Spec => []TInv
<1>1. Init => TInv BY InitInv
<1>2. TInv /\ [Next]_vars => TInv' BY TInvNext
<1> QED BY <1>1, <1>2, PTL DEF Spec

-----------------------------------------------------------------------------
\* Every variable keeps its type, however many agents, tickets and messages.
THEOREM TicketTypeCorrect == Spec => []TypeOK
<1>1. TInv => TypeOK BY DEF TInv
<1> QED BY <1>1, Inductive, PTL

\* However requests, the worker, the clock and the rules race, whoever was
\* told a ticket is theirs owns it: the claims of the code are conditional
\* statements on the row, and no step changes the owner behind their back.
THEOREM ToldIsOwner == Spec => []ToldOwns
<1>1. Init => ToldOwns BY DEF Init, ToldOwns
<1>2. TInv /\ ToldOwns /\ [Next]_vars => ToldOwns' BY OwnerToldNext, ToldStep
<1> QED BY <1>1, <1>2, Inductive, PTL DEF Spec
=============================================================================
