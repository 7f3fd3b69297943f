-------------------------- MODULE TicketCareProofs --------------------------
(***************************************************************************)
(* Proofs about Ticket: the customer's wait, the closing of a ticket and    *)
(* the people responsible for it.  They rest on the types that             *)
(* TicketProofs proves.                                                    *)
(***************************************************************************)
EXTENDS TicketProofs

-----------------------------------------------------------------------------
(* What else holds in every state.                                         *)

\* A ticket that was not opened yet has no row, and nobody works on one.
Fresh  == \A t \in Ids : t > ticket => status[t] = "none"
Behind == /\ \A p \in Procs : tk[p] <= ticket
          /\ \A i \in 1 .. Len(jobs) : jobs[i].t <= ticket
Busy   == pc["worker"] # "idle" => jobs # <<>>
Opened == Fresh /\ Behind /\ Busy

\* Only messages that were stored are waited for or answered.
Counted == \A t \in Ids : lastIn[t] <= msgs /\ handled[t] <= lastIn[t]

\* Only a ticket a chatbot may start on is its, and only such a job runs a
\* flow or goes back to one.
BotPlaces == {"begin", "bot", "flow", "toHuman", "await"}
InFlow    == pc["worker"] \in BotPlaces \/ next["worker"] \in BotPlaces
OnBots    == /\ \A t \in Ids : status[t] = "bot" => t \in Bots
             /\ InFlow => tk["worker"] \in Bots

\* Without the rule that assigns a person no rule is about to.
RuleFree == "assign_user" \notin Rules => pc["rule"] \notin {"setOwner", "addOwner"}

USE DEF Ids, NoOne

LEMMA CareTypes ==
    ASSUME TInv
    PROVE  /\ ticket \in Nat /\ msgs \in Nat
           /\ \A t \in Ids : lastIn[t] \in Nat /\ handled[t] \in Nat /\ reopens[t] \in Nat
           /\ \A p \in Procs : tk[p] \in Nat /\ saw[p].msg \in Nat
           /\ jobs \in Seq([t : Ids, fresh : BOOLEAN, owner : People])
BY AgentsAreNot DEF TInv, TypeOK, TalkTypeOK, TicketsTypeOK, HandsTypeOK, HistoryTypeOK, Reads

LEMMA JobBehind == ASSUME TInv, Behind, jobs # <<>> PROVE Job.t \in Ids /\ Job.t <= ticket
<1> DEFINE Work == [t : Ids, fresh : BOOLEAN, owner : People]
<1>1. jobs \in Seq(Work) BY CareTypes
<1>2. Job = jobs[1] /\ 1 \in 1 .. Len(jobs) /\ jobs[1] \in Work
  <2> HIDE DEF Work
  <2> QED BY <1>1 DEF Job
<1> QED BY <1>2 DEF Behind

-----------------------------------------------------------------------------
(* Whose ticket someone works on: the conversation's, the job's, an open   *)
(* one, or none.                                                           *)
LEMMA WorksBehind ==
    ASSUME TInv, Opened, [Next]_vars
    PROVE  \A p \in Procs : tk'[p] <= ticket
<1> USE AgentsAreNot
<1> DEFINE Target == \A p \in Procs : tk'[p] <= ticket
<1> SUFFICES Target OBVIOUS
<1>1. tk \in [Procs -> 0 .. MaxTickets] /\ ticket \in Nat
  BY CareTypes DEF TInv, TypeOK, HandsTypeOK
<1>2. ASSUME NEW p \in Procs, NEW t \in Nat, t <= ticket,
             tk' \in {tk, [tk EXCEPT ![p] = t]}
      PROVE  Target
  BY <1>1, <1>2 DEF Opened, Behind
<1>3. ASSUME NEW p \in Procs, (\E q : Goto(p, q)) \/ (\E q, n : Call(p, q, n)) \/ Return(p)
      PROVE  Target
  BY <1>1, <1>2, <1>3 DEF Goto, Rests, Call, Return
<1>4. ASSUME UNCHANGED tk PROVE Target BY <1>1, <1>4 DEF Opened, Behind
<1>15. CASE Crash BY <1>1, <1>15 DEF Crash
<1> HIDE DEF Target
<1>5. ASSUME NEW p \in Procs, Procedure(p) PROVE Target
  BY <1>3, <1>4, <1>5 DEF Procedure, EndBot, DropFlow, Release, HandOut, Give, Close
<1>6. ASSUME NEW a \in Agents, Ask(a) \/ Hello(a) PROVE Target
  BY <1>1, <1>2, <1>3, <1>6 DEF Ask, Hello
<1>7. ASSUME NEW a \in Agents, Panel(a) PROVE Target
  BY <1>3, <1>6, <1>7
     DEF Panel, Greet, Take, Assign, OffBot, Resolve, Reopen, Edit, Answer, ThenEndBot
<1>8. CASE TakeJob
  <2>1. jobs # <<>> /\ tk' = [tk EXCEPT !["worker"] = Job.t] BY <1>8 DEF TakeJob
  <2>2. Job.t \in Nat /\ Job.t <= ticket BY <2>1, JobBehind DEF Opened
  <2>3. "worker" \in Procs OBVIOUS
  <2> QED BY <1>2, <2>1, <2>2, <2>3
<1>9. CASE SweepWaiting \/ SweepPool \/ SweepBots
  <2>1. PICK t \in Ids : (Open(t) \/ t = ticket) /\ tk' = [tk EXCEPT !["clock"] = t]
    BY <1>9 DEF SweepWaiting, SweepPool, SweepBots, Sweeps, Due
  <2>2. t <= ticket BY <1>1, <2>1 DEF Open, Opened, Fresh
  <2>3. "clock" \in Procs /\ t \in Nat OBVIOUS
  <2> QED BY <1>2, <2>1, <2>2, <2>3
<1>10. CASE RunRule
  <2>1. tk' = [tk EXCEPT !["rule"] = ticket] BY <1>10 DEF RunRule
  <2>2. ticket <= ticket /\ "rule" \in Procs BY <1>1
  <2> QED BY <1>1, <1>2, <2>1, <2>2
<1>11. ASSUME NEW a \in Agents, StartConversation(a) PROVE Target
  BY <1>4, <1>11 DEF StartConversation, hands
<1>12. ASSUME Worker \/ BeginFault \/ ContinueFault \/ FlowFault PROVE Target
  BY <1>3, <1>5, <1>8, <1>12
     DEF Worker, Route, Begin, BeginFault, Continue, ContinueFault, Flow, FlowFault, ToHuman,
         StartAwaiting, FinishJob
<1>13. ASSUME Clock \/ Rule PROVE Target
  BY <1>3, <1>4, <1>5, <1>9, <1>13
     DEF Clock, SweepNothing, PutOnWaitList, OpenBotTicket, TimedOut, Rule, SetOwnerIfNone,
         AddOwner
<1>14. ASSUME \/ CustomerWrites \/ UNCHANGED vars
              \/ \E p \in Procs : NobodyFree(p) \/ Fails(p)
       PROVE  Target
  BY <1>3, <1>4, <1>14 DEF CustomerWrites, NobodyFree, Fails, vars, hands
<1> QED BY <1>5, <1>6, <1>7, <1>10, <1>11, <1>12, <1>13, <1>14, <1>15 DEF Next

-----------------------------------------------------------------------------
(* How a ticket's status moves, and whether its reopening is counted.      *)
StatusMoves(t) ==
    \/ status'[t] = OffTheBot(status[t])
    \/ status'[t] = status[t]
    \/ t = ticket + 1 /\ ticket' = t /\ status'[t] = "open"
    \/ /\ t <= ticket
       /\ \/ status[t] = "resolved" /\ status'[t] = "open" /\ reopens'[t] = reopens[t] + 1
          \/ status[t] # "resolved" /\ status'[t] \in {"open", "pending", "resolved"}
          \/ t \in Bots /\ BotTakesIt(t)

LEMMA CustomerMoves ==
    ASSUME TInv, Opened, NEW t \in Ids, CustomerWrites \/ \E a \in Agents : StartConversation(a)
    PROVE  StatusMoves(t)
<1> TicketsTypeOK BY DEF TInv, TypeOK
<1> ticket \in Nat BY CareTypes
<1> USE DEF StatusMoves, TicketsTypeOK
<1>1. ASSUME NEW a, Opens(ticket + 1, a) PROVE StatusMoves(t) BY <1>1 DEF Opens
<1>2. CASE ComesBack BY <1>2 DEF ComesBack
<1>3. CASE WritesOn BY <1>3 DEF WritesOn
<1>4. ASSUME NEW a \in Agents, StartConversation(a) PROVE Opens(ticket + 1, a)
  <2>1. ticket = 0 /\ Opens(1, a) BY <1>4 DEF StartConversation
  <2>2. ticket + 1 = 1 BY <2>1
  <2> QED BY <2>1, <2>2
<1> HIDE DEF StatusMoves, TicketsTypeOK
<1> QED BY <1>1, <1>2, <1>3, <1>4 DEF CustomerWrites, OpensAnew

LEMMA PanelMoves ==
    ASSUME TInv, Opened, NEW t \in Ids, NEW a \in Agents, Panel(a)
    PROVE  StatusMoves(t)
<1> TicketsTypeOK BY DEF TInv, TypeOK
<1> tk[a] \in Nat /\ tk[a] <= ticket BY CareTypes, AgentsAreNot DEF Opened, Behind
<1> USE DEF StatusMoves, TicketsTypeOK
<1>1. CASE Greet(a) BY <1>1 DEF Greet
<1>2. CASE Assign(a) BY <1>2 DEF Assign
<1>3. CASE Resolve(a) BY <1>3 DEF Resolve, Closes, tickets
<1>4. CASE Reopen(a) BY <1>4 DEF Reopen
<1>5. CASE Edit(a) BY <1>5 DEF Edit
<1>6. CASE Answer(a) BY <1>6 DEF Answer
<1>7. CASE Hello(a) \/ Take(a) \/ OffBot(a) BY <1>7 DEF Hello, Take, OffBot, tickets
<1> QED BY <1>1, <1>2, <1>3, <1>4, <1>5, <1>6, <1>7 DEF Panel

LEMMA ProcedureMoves ==
    ASSUME TInv, Opened, NEW t \in Ids, NEW p \in Procs, Procedure(p)
    PROVE  StatusMoves(t)
<1> TicketsTypeOK BY DEF TInv, TypeOK
<1> tk[p] \in Nat /\ tk[p] <= ticket BY CareTypes DEF Opened, Behind
<1> USE DEF StatusMoves, TicketsTypeOK
<1>1. CASE Release(p) BY <1>1 DEF Release
<1>2. CASE Close(p) BY <1>2 DEF Close, Closes, tickets
<1>3. CASE EndBot(p) \/ DropFlow(p) \/ HandOut(p) \/ Give(p)
  BY <1>3 DEF EndBot, DropFlow, HandOut, Give, tickets
<1> QED BY <1>1, <1>2, <1>3 DEF Procedure

LEMMA StatusNext ==
    ASSUME TInv, Opened, [Next]_vars, NEW t \in Ids
    PROVE  StatusMoves(t)
<1> TicketsTypeOK BY DEF TInv, TypeOK
<1> USE AgentsAreNot
<1>1. ASSUME UNCHANGED status PROVE StatusMoves(t) BY <1>1 DEF StatusMoves
<1>2. CASE Route
  <2>1. CASE UNCHANGED status BY <1>1, <2>1
  <2>2. CASE tk["worker"] \in Bots /\ status' = [status EXCEPT ![tk["worker"]] = "bot"]
    <3>1. CASE t = tk["worker"]
      <4>1. t <= ticket BY <3>1 DEF Opened, Behind
      <4>2. BotTakesIt(t) BY <1>2, <2>2, <3>1 DEF Route, BotTakesIt, TicketsTypeOK
      <4> QED BY <2>2, <3>1, <4>1, <4>2 DEF StatusMoves
    <3>2. CASE t # tk["worker"] BY <2>2, <3>2 DEF StatusMoves, TicketsTypeOK
    <3> QED BY <3>1, <3>2
  <2> QED BY <1>2, <2>1, <2>2 DEF Route
<1>3. CASE ToHuman BY <1>3 DEF ToHuman, StatusMoves, TicketsTypeOK
<1>4. CASE OpenBotTicket BY <1>4 DEF OpenBotTicket, StatusMoves, TicketsTypeOK
<1>5. ASSUME NEW p \in Procs, Procedure(p) PROVE StatusMoves(t) BY <1>5, ProcedureMoves
<1>6. ASSUME Worker \/ BeginFault \/ ContinueFault \/ FlowFault PROVE StatusMoves(t)
  BY <1>1, <1>2, <1>3, <1>5, <1>6
     DEF Worker, TakeJob, Begin, BeginFault, Continue, ContinueFault, Flow, FlowFault, StartAwaiting,
         FinishJob, tickets
<1>7. ASSUME Clock \/ RunRule \/ Rule PROVE StatusMoves(t)
  BY <1>1, <1>4, <1>5, <1>7
     DEF Clock, SweepWaiting, SweepPool, SweepBots, Sweeps, SweepNothing, PutOnWaitList,
         TimedOut, RunRule, Rule, SetOwnerIfNone, AddOwner, tickets
<1>8. ASSUME \/ \E a \in Agents : Ask(a)
             \/ \E p \in Procs : NobodyFree(p) \/ Fails(p)
             \/ Crash \/ UNCHANGED vars
      PROVE  StatusMoves(t)
  BY <1>1, <1>8 DEF Ask, NobodyFree, Fails, Crash, vars, tickets
<1> QED BY <1>5, <1>6, <1>7, <1>8, CustomerMoves, PanelMoves DEF Next

-----------------------------------------------------------------------------
(* Who moves: everyone else stays where they are.                          *)
Stays(q) == pc'[q] = pc[q] /\ next'[q] = next[q] /\ tk'[q] = tk[q]

OfWorker == \/ Worker \/ BeginFault \/ ContinueFault \/ FlowFault
            \/ NobodyFree("worker") \/ Fails("worker")
OfRule   == RunRule \/ Rule \/ NobodyFree("rule") \/ Fails("rule")

LEMMA StepsAlone ==
    ASSUME TInv, NEW p \in Procs, NEW q \in Procs, p # q,
           \/ Procedure(p) \/ NobodyFree(p) \/ Fails(p)
           \/ p \in Agents /\ (Ask(p) \/ Panel(p))
           \/ p = "worker" /\ (Worker \/ BeginFault \/ ContinueFault \/ FlowFault)
           \/ p = "clock" /\ Clock
           \/ p = "rule" /\ (RunRule \/ Rule)
    PROVE  Stays(q)
<1> pc \in [Procs -> Places] BY DEF TInv, TypeOK, HandsTypeOK
<1> next \in [Procs -> Returns] BY DEF TInv, TypeOK, HandsTypeOK, Returns
<1> tk \in [Procs -> 0 .. MaxTickets] BY DEF TInv, TypeOK, HandsTypeOK
<1>1. ASSUME NEW e, pc' = [pc EXCEPT ![p] = e], NEW f, next' \in {next, [next EXCEPT ![p] = f]},
             NEW t, tk' \in {tk, [tk EXCEPT ![p] = t]}
      PROVE  Stays(q)
  BY <1>1 DEF Stays
<1>2. ASSUME \/ \E e : Goto(p, e)
             \/ \E e, n : Call(p, e, n)
             \/ Return(p)
             \/ UNCHANGED <<pc, next, tk>>
      PROVE  Stays(q)
  BY <1>1, <1>2 DEF Goto, Rests, Call, Return, Stays
<1>3. CASE Procedure(p)
  BY <1>1, <1>2, <1>3 DEF Procedure, EndBot, DropFlow, Release, HandOut, Give, Close
<1>4. CASE NobodyFree(p) \/ Fails(p) BY <1>2, <1>4 DEF NobodyFree, Fails
<1>5. ASSUME NEW e, pc' = [pc EXCEPT ![p] = e], next' = next, NEW t, tk' = [tk EXCEPT ![p] = t]
      PROVE  Stays(q)
  BY <1>5 DEF Stays
<1>6. CASE p = "worker" /\ TakeJob
  <2>1. /\ \E e : pc' = [pc EXCEPT ![p] = e]
        /\ next' = [next EXCEPT ![p] = "finish"] /\ tk' = [tk EXCEPT ![p] = Job.t]
    BY <1>6 DEF TakeJob
  <2> QED BY <1>6, <2>1 DEF Stays
<1>7. CASE p \in Agents /\ (Ask(p) \/ Panel(p))
  BY <1>2, <1>5, <1>7
     DEF Ask, Panel, Greet, Hello, Take, Assign, OffBot, Resolve, Reopen, Edit, Answer, ThenEndBot
<1>8. CASE p = "worker" /\ (Worker \/ BeginFault \/ ContinueFault \/ FlowFault)
  BY <1>2, <1>3, <1>6, <1>8
     DEF Worker, Route, Begin, BeginFault, Continue, ContinueFault, Flow, FlowFault, ToHuman,
         StartAwaiting, FinishJob
<1>9. CASE p = "clock" /\ Clock
  BY <1>1, <1>2, <1>3, <1>9
     DEF Clock, SweepWaiting, SweepPool, SweepBots, Sweeps, SweepNothing, PutOnWaitList,
         OpenBotTicket, TimedOut
<1>10. CASE p = "rule" /\ (RunRule \/ Rule)
  BY <1>1, <1>2, <1>3, <1>10 DEF RunRule, Rule, SetOwnerIfNone, AddOwner
<1> QED BY <1>3, <1>4, <1>7, <1>8, <1>9, <1>10

LEMMA WhoMoves ==
    ASSUME TInv, [Next]_vars
    PROVE  /\ Stays("worker") \/ OfWorker \/ Crash
           /\ Stays("rule") \/ OfRule \/ Crash
<1> USE AgentsAreNot
<1> "worker" \in Procs /\ "clock" \in Procs /\ "rule" \in Procs OBVIOUS
<1>1. CASE UNCHANGED hands BY <1>1 DEF Stays, hands
<1>2. \A a \in Agents : a \in Procs /\ a # "worker" /\ a # "rule" BY TicketAssumption
<1>3. ASSUME NEW a \in Agents, Ask(a) \/ Panel(a) \/ Procedure(a)
      PROVE  Stays("worker") /\ Stays("rule")
  BY <1>2, <1>3, StepsAlone
<1>4. ASSUME NEW p \in Procs, NobodyFree(p) \/ Fails(p)
      PROVE  /\ Stays("worker") \/ p = "worker"
             /\ Stays("rule") \/ p = "rule"
  BY <1>4, StepsAlone
<1>5. ASSUME Worker \/ BeginFault \/ ContinueFault \/ FlowFault PROVE Stays("rule") BY <1>5, StepsAlone
<1>6. ASSUME Clock PROVE Stays("worker") /\ Stays("rule") BY <1>6, StepsAlone
<1>7. ASSUME RunRule \/ Rule PROVE Stays("worker") BY <1>7, StepsAlone
<1>8. CASE CustomerWrites \/ UNCHANGED vars BY <1>1, <1>8 DEF CustomerWrites, vars
<1>9. ASSUME NEW a \in Agents, StartConversation(a) PROVE UNCHANGED hands
  BY <1>9 DEF StartConversation
<1>10. CASE \E p \in Procs : NobodyFree(p) \/ Fails(p)
  <2>1. PICK p \in Procs : NobodyFree(p) \/ Fails(p) BY <1>10
  <2> QED BY <1>4, <2>1 DEF OfWorker, OfRule
<1> QED BY <1>1, <1>3, <1>5, <1>6, <1>7, <1>8, <1>9, <1>10 DEF Next, OfWorker, OfRule

-----------------------------------------------------------------------------
(* The jobs: the customer adds one, the worker ends its own.               *)
Grows == ticket <= ticket'
Same  == jobs' = jobs
Adds  == \E t \in Ids : \E f, o :
            t <= ticket' /\ jobs' = Append(jobs, [t |-> t, fresh |-> f, owner |-> o])

LEMMA JobSteps ==
    ASSUME TInv, [Next]_vars
    PROVE  Grows /\ (Same \/ Adds \/ FinishJob)
<1> USE DEF Grows, Same
<1> ticket \in Nat BY CareTypes
<1> USE AgentsAreNot
<1>1. ASSUME UNCHANGED <<ticket, jobs>> PROVE Grows /\ Same BY <1>1
<1>2. ASSUME CustomerWrites PROVE Grows /\ Adds
  <2>1. ASSUME NEW t \in Ids, NEW f, t <= ticket', Queues(t, f) PROVE Adds
    BY <2>1 DEF Queues, Adds
  <2>2. CASE OpensAnew
    <3>1. ticket + 1 \in Ids /\ ticket' = ticket + 1 /\ Queues(ticket + 1, TRUE)
      BY <2>2 DEF OpensAnew, Opens
    <3>2. ticket + 1 <= ticket' BY <3>1
    <3>3. Adds BY <2>1, <3>1, <3>2
    <3> QED BY <3>1, <3>3
  <2>3. CASE ComesBack \/ WritesOn
    <3>1. ticket > 0 /\ ticket' = ticket /\ \E f : Queues(ticket, f)
      BY <2>3 DEF ComesBack, WritesOn
    <3>2. ticket \in Ids BY <3>1 DEF TInv, TypeOK, TalkTypeOK
    <3>3. Adds BY <2>1, <3>1, <3>2
    <3> QED BY <3>1, <3>3
  <2> QED BY <1>2, <2>2, <2>3 DEF CustomerWrites
<1>3. ASSUME NEW a \in Agents, StartConversation(a) PROVE Grows /\ Same
  BY <1>3 DEF StartConversation, Opens
<1>4. ASSUME FinishJob PROVE Grows BY <1>4 DEF FinishJob
<1> HIDE DEF Grows, Same
<1>5. ASSUME NEW p \in Procs, Procedure(p) PROVE Grows /\ Same
  BY <1>1, <1>5 DEF Procedure, EndBot, DropFlow, Release, HandOut, Give, Close, talk
<1>6. ASSUME NEW a \in Agents, Ask(a) \/ Panel(a) PROVE Grows /\ Same
  BY <1>1, <1>6
     DEF Ask, Panel, Greet, Hello, Take, Assign, OffBot, Resolve, Reopen, Edit, Answer, talk
<1>7. ASSUME Worker \/ BeginFault \/ ContinueFault \/ FlowFault PROVE (Grows /\ Same) \/ FinishJob
  BY <1>1, <1>5, <1>7
     DEF Worker, TakeJob, Route, Begin, BeginFault, Continue, ContinueFault, Flow, FlowFault, ToHuman,
         StartAwaiting, talk
<1>8. ASSUME Clock \/ RunRule \/ Rule PROVE Grows /\ Same
  BY <1>1, <1>5, <1>8
     DEF Clock, SweepWaiting, SweepPool, SweepBots, Sweeps, SweepNothing, PutOnWaitList,
         OpenBotTicket, TimedOut, RunRule, Rule, SetOwnerIfNone, AddOwner, talk
<1>9. ASSUME Crash \/ UNCHANGED vars \/ \E p \in Procs : NobodyFree(p) \/ Fails(p)
      PROVE  Grows /\ Same
  BY <1>1, <1>9 DEF Crash, NobodyFree, Fails, vars, talk
<1> QED BY <1>2, <1>3, <1>4, <1>5, <1>6, <1>7, <1>8, <1>9 DEF Next

LEMMA OpenedNext == ASSUME TInv, Opened, [Next]_vars PROVE Opened'
<1> DEFINE Work == [t : Ids, fresh : BOOLEAN, owner : People]
<1>1. ticket <= ticket' /\ ticket \in Nat /\ jobs \in Seq(Work)
  BY JobSteps, CareTypes DEF Grows
<1>2. ticket' \in Nat
  <2>1. TInv' BY TInvNext
  <2> QED BY <2>1, AgentsAreNot DEF TInv, TypeOK, TalkTypeOK
<1>3. Fresh'
  <2>1. ASSUME NEW t \in Ids, t > ticket' PROVE status'[t] = "none"
    <3>1. StatusMoves(t) BY StatusNext
    <3>2. t > ticket /\ status[t] = "none" BY <1>1, <1>2, <2>1, AgentsAreNot DEF Opened, Fresh
    <3> QED BY <1>1, <1>2, <2>1, <3>1, <3>2, AgentsAreNot DEF StatusMoves, OffTheBot
  <2> QED BY <2>1 DEF Fresh
<1>4. \A p \in Procs : tk'[p] <= ticket'
  <2>1. TInv' BY TInvNext
  <2>2. tk' \in [Procs -> 0 .. MaxTickets] BY <2>1 DEF TInv, TypeOK, HandsTypeOK
  <2> QED BY <1>1, <1>2, <2>2, WorksBehind, AgentsAreNot
<1>5. \A i \in 1 .. Len(jobs') : jobs'[i].t <= ticket'
  <2>1. \A i \in 1 .. Len(jobs) : jobs[i].t \in Nat /\ jobs[i].t <= ticket
    <3>1. \A i \in 1 .. Len(jobs) : jobs[i] \in Work
      <4> HIDE DEF Work
      <4> QED BY <1>1
    <3> QED BY <3>1, AgentsAreNot DEF Opened, Behind
  <2>2. \A i \in 1 .. Len(jobs) : jobs[i].t <= ticket' BY <1>1, <1>2, <2>1
  <2> HIDE DEF Work
  <2>3. CASE Same BY <2>2, <2>3 DEF Same
  <2>4. CASE FinishJob
    <3>1. jobs' = Tail(jobs) BY <2>4 DEF FinishJob
    <3>2. jobs # <<>> BY <2>4 DEF FinishJob, Opened, Busy
    <3> QED BY <1>1, <2>2, <3>1, <3>2
  <2>5. CASE Adds
    <3>1. PICK t \in Ids : \E f, o :
             t <= ticket' /\ jobs' = Append(jobs, [t |-> t, fresh |-> f, owner |-> o])
      BY <2>5 DEF Adds
    <3>5. PICK f, o : jobs' = Append(jobs, [t |-> t, fresh |-> f, owner |-> o]) BY <3>1
    <3> DEFINE new == [t |-> t, fresh |-> f, owner |-> o]
    <3>2. new.t <= ticket' BY <3>1
    <3>3. jobs' = Append(jobs, new) BY <3>5
    <3> HIDE DEF new
    <3>4. Len(jobs') = Len(jobs) + 1 /\ jobs'[Len(jobs) + 1] = new
          /\ \A i \in 1 .. Len(jobs) : jobs'[i] = jobs[i]
      BY <1>1, <3>3
    <3> QED BY <1>1, <2>2, <3>2, <3>4
  <2> QED BY <2>3, <2>4, <2>5, JobSteps
<1>6. Busy'
  <2>1. CASE jobs # <<>>
    <3>1. CASE Same BY <2>1, <3>1 DEF Same, Busy
    <3>2. CASE FinishJob
      <4>1. pc'["worker"] = "idle"
        BY <3>2, AgentsAreNot DEF FinishJob, Goto, Rests, TInv, TypeOK, HandsTypeOK
      <4> QED BY <4>1 DEF Busy
    <3>3. CASE Adds BY <1>1, <3>3 DEF Adds, Busy
    <3> QED BY <3>1, <3>2, <3>3, JobSteps
  <2>2. CASE jobs = <<>>
    <3>1. pc["worker"] = "idle" BY <2>2 DEF Opened, Busy
    <3>2. ~OfWorker
      BY <2>2, <3>1
         DEF OfWorker, Worker, BeginFault, ContinueFault, FlowFault, NobodyFree, Fails, TakeJob, Route, Begin,
             Continue, Flow, ToHuman, StartAwaiting, FinishJob, Procedure, EndBot, DropFlow,
             Release, HandOut, Give, Close
    <3>3. Crash => pc'["worker"] = "idle" BY AgentsAreNot DEF Crash
    <3> QED BY <3>1, <3>2, <3>3, WhoMoves DEF Stays, Busy
  <2> QED BY <2>1, <2>2
<1> QED BY <1>3, <1>4, <1>5, <1>6 DEF Opened, Behind

-----------------------------------------------------------------------------
(* The tickets a chatbot may start on, and the rule that assigns a person.  *)
LEMMA OnBotsNext == ASSUME TInv, Opened, OnBots, [Next]_vars PROVE OnBots'
<1> "worker" \in Procs BY AgentsAreNot
<1> pc \in [Procs -> Places] /\ tk \in [Procs -> 0 .. MaxTickets]
  BY DEF TInv, TypeOK, HandsTypeOK
<1> next \in [Procs -> Returns] BY DEF TInv, TypeOK, HandsTypeOK, Returns
<1> TicketsTypeOK BY DEF TInv, TypeOK
<1>1. InFlow => tk["worker"] \in Bots BY DEF OnBots
<1>2. ASSUME NEW t \in Ids, status'[t] = "bot" PROVE t \in Bots
  <2>1. StatusMoves(t) BY StatusNext
  <2> QED BY <1>2, <2>1 DEF StatusMoves, OffTheBot, OnBots
<1> DEFINE Target == InFlow' => tk'["worker"] \in Bots
<1>3. ASSUME NEW e, e \notin BotPlaces, Goto("worker", e) PROVE Target
  BY <1>1, <1>3 DEF Goto, Rests, InFlow, BotPlaces
<1>4. ASSUME NEW e, NEW n, Call("worker", e, n), {e, n} \cap BotPlaces = {} PROVE Target
  BY <1>4 DEF Call, InFlow
<1>5. ASSUME NEW e, Goto("worker", e) \/ \E n : Call("worker", e, n), tk["worker"] \in Bots
      PROVE  Target
  <2>1. tk' = tk \/ (pc'["worker"] = "idle" /\ next'["worker"] = "idle")
    BY <1>5 DEF Goto, Rests, Call
  <2> QED BY <1>5, <2>1 DEF InFlow, BotPlaces
<1>6. ASSUME Return("worker") PROVE Target
  <2>1. CASE next["worker"] \in BotPlaces BY <1>1, <1>5, <1>6, <2>1 DEF Return, InFlow
  <2>2. CASE next["worker"] \notin BotPlaces BY <1>3, <1>6, <2>2 DEF Return
  <2> QED BY <2>1, <2>2
<1>7. ASSUME TakeJob PROVE Target
  <2>1. next' = [next EXCEPT !["worker"] = "finish"] /\ tk' = [tk EXCEPT !["worker"] = Job.t]
    BY <1>7 DEF TakeJob
  <2>2. Job.t \in Ids BY <1>7, JobBehind DEF Opened, TakeJob
  <2>3. CASE status[Job.t] = "bot" BY <2>1, <2>2, <2>3 DEF OnBots
  <2>4. CASE status[Job.t] # "bot"
    <3>1. pc' = [pc EXCEPT !["worker"] = IF Job.fresh THEN "route" ELSE "finish"]
      BY <1>7, <2>4 DEF TakeJob
    <3> QED BY <2>1, <3>1 DEF InFlow, BotPlaces
  <2> QED BY <2>3, <2>4
<1>8. ASSUME pc["worker"] \in BotPlaces,
             (\E e : Goto("worker", e)) \/ (\E e, n : Call("worker", e, n))
      PROVE  Target
  <2>1. tk["worker"] \in Bots BY <1>1, <1>8 DEF InFlow
  <2> QED BY <1>5, <1>8, <2>1
<1> HIDE DEF Target
<1>9. ASSUME Procedure("worker") PROVE Target
  <2>1. CASE HandOut("worker") /\ ~Return("worker")
    <3>1. pc' = [pc EXCEPT !["worker"] = "give"] /\ UNCHANGED <<next, tk>>
      BY <2>1 DEF HandOut
    <3> QED BY <1>1, <3>1 DEF Target, InFlow, BotPlaces
  <2>2. \A e \in {"dropFlow", "release", "endBot"} : e \notin BotPlaces BY DEF BotPlaces
  <2> QED BY <1>3, <1>6, <1>9, <2>1, <2>2
          DEF Procedure, EndBot, DropFlow, Release, HandOut, Give, Close
<1>10. ASSUME NobodyFree("worker") \/ Fails("worker") PROVE Target
  <2>1. CASE pc["worker"] \in {"toHuman", "await"} /\ Fails("worker")
    BY <1>8, <2>1 DEF Fails, BotPlaces
  <2>2. CASE pc["worker"] \notin {"toHuman", "await"} /\ Fails("worker")
    <3>1. Goto("worker", "release") \/ Return("worker") BY <2>2 DEF Fails
    <3>2. "release" \notin BotPlaces BY DEF BotPlaces
    <3> QED BY <1>3, <1>6, <3>1, <3>2
  <2>3. CASE NobodyFree("worker") BY <1>6, <2>3 DEF NobodyFree
  <2> QED BY <1>10, <2>1, <2>2, <2>3
<1>11. ASSUME Route \/ FinishJob PROVE Target
  <2>1. \/ \E e \in {"finish", "handOut", "idle"} : Goto("worker", e)
        \/ tk["worker"] \in Bots /\ Goto("worker", "begin")
    BY <1>11 DEF Route, FinishJob
  <2>2. \A e \in {"finish", "handOut", "idle"} : e \notin BotPlaces BY DEF BotPlaces
  <2> QED BY <1>3, <1>5, <2>1, <2>2
<1>12. ASSUME \/ Begin \/ BeginFault \/ Continue \/ ContinueFault \/ Flow \/ FlowFault
              \/ ToHuman \/ StartAwaiting
       PROVE  Target
  BY <1>8, <1>12
     DEF BotPlaces, Begin, BeginFault, Continue, ContinueFault, Flow, FlowFault, ToHuman,
         StartAwaiting
<1>13. CASE Stays("worker") BY <1>1, <1>2, <1>13 DEF Stays, InFlow, OnBots
<1>14. CASE Crash
  <2>1. pc'["worker"] = "idle" /\ next'["worker"] = "idle" BY <1>14 DEF Crash
  <2> QED BY <1>2, <2>1 DEF InFlow, BotPlaces, OnBots
<1>15. CASE OfWorker
  <2>1. Target BY <1>7, <1>9, <1>10, <1>11, <1>12, <1>15 DEF OfWorker, Worker
  <2> QED BY <1>2, <2>1 DEF Target, OnBots
<1> QED BY <1>13, <1>14, <1>15, WhoMoves

LEMMA RuleFreeNext == ASSUME TInv, RuleFree, [Next]_vars PROVE RuleFree'
<1> SUFFICES ASSUME "assign_user" \notin Rules PROVE pc'["rule"] \notin {"setOwner", "addOwner"}
  BY DEF RuleFree
<1> "rule" \in Procs BY AgentsAreNot
<1>1. pc["rule"] \notin {"setOwner", "addOwner"} BY DEF RuleFree
<1> pc \in [Procs -> Places] BY DEF TInv, TypeOK, HandsTypeOK
<1>2. next["rule"] \in Returns BY DEF TInv, TypeOK, HandsTypeOK, Returns
<1> DEFINE Target == pc'["rule"] \notin {"setOwner", "addOwner"}
<1>3. ASSUME NEW e, e \notin {"setOwner", "addOwner"}, Goto("rule", e) PROVE Target
  BY <1>3 DEF Goto, Rests
<1>4. ASSUME Return("rule") PROVE Target BY <1>2, <1>3, <1>4 DEF Return, Returns
<1>5. ASSUME RunRule PROVE Target
  <2>1. \E what \in Rules :
           pc' = [pc EXCEPT !["rule"] = CASE what = "assign_team" -> "handOut"
                                          [] what = "assign_user" -> "setOwner"
                                          [] OTHER -> "close"]
    BY <1>5 DEF RunRule
  <2>2. PICK what \in Rules :
           pc' = [pc EXCEPT !["rule"] = CASE what = "assign_team" -> "handOut"
                                          [] what = "assign_user" -> "setOwner"
                                          [] OTHER -> "close"]
    BY <2>1
  <2>3. what # "assign_user" OBVIOUS
  <2>4. CASE what = "assign_team" BY <2>2, <2>4
  <2>5. CASE what # "assign_team" BY <2>2, <2>3, <2>5
  <2> QED BY <2>4, <2>5
<1>6. ASSUME Procedure("rule") PROVE Target
  <2>1. CASE HandOut("rule") /\ ~Return("rule")
    <3>1. pc' = [pc EXCEPT !["rule"] = "give"] BY <2>1 DEF HandOut
    <3> QED BY <3>1
  <2> HIDE DEF Target
  <2> QED BY <1>3, <1>4, <1>6, <2>1
          DEF Procedure, EndBot, DropFlow, Release, HandOut, Give, Close
<1>7. ASSUME NobodyFree("rule") \/ Fails("rule") PROVE Target
  <2>1. (\E e \in {"release", "await"} : Goto("rule", e)) \/ Call("rule", "handOut", "finish")
        \/ Return("rule")
    BY <1>7 DEF NobodyFree, Fails
  <2>2. Call("rule", "handOut", "finish") => Target BY DEF Call
  <2> QED BY <1>3, <1>4, <2>1, <2>2
<1>8. ~(SetOwnerIfNone \/ AddOwner) BY <1>1 DEF SetOwnerIfNone, AddOwner
<1>9. CASE Stays("rule") BY <1>1, <1>9 DEF Stays
<1>10. CASE Crash
  <2>1. pc'["rule"] = "idle" BY <1>10 DEF Crash
  <2> QED BY <2>1
<1> QED BY <1>5, <1>6, <1>7, <1>8, <1>9, <1>10, WhoMoves DEF OfRule, Rule

-----------------------------------------------------------------------------
(* The customer's wait: it begins with a message (or with the end of a      *)
(* flow), ends with an answer or with the closing, and is listed meanwhile. *)
WaitStays == UNCHANGED <<awaiting, listed, lastIn, handled, msgs>>
WaitBegins(t) ==
    /\ awaiting' = [awaiting EXCEPT ![t] = TRUE]
    /\ listed' \in {listed, [listed EXCEPT ![t] = FALSE]}
    /\ lastIn' = [lastIn EXCEPT ![t] = msgs + 1]
    /\ msgs' = msgs + 1 /\ UNCHANGED handled
WaitEnds(t) ==
    /\ awaiting' = [awaiting EXCEPT ![t] = FALSE]
    /\ listed' = [listed EXCEPT ![t] = FALSE]
    /\ handled' = [handled EXCEPT ![t] = lastIn[t]]
    /\ UNCHANGED <<lastIn, msgs>>
WaitIsListed(t) ==
    /\ listed' = [listed EXCEPT ![t] = @ \/ awaiting[t]]
    /\ UNCHANGED <<awaiting, lastIn, handled, msgs>>
WaitAgain(t) ==
    /\ pc["worker"] = "await" /\ t = tk["worker"]
    /\ awaiting' = [awaiting EXCEPT ![t] = TRUE]
    /\ listed' = [listed EXCEPT ![t] = FALSE]
    /\ UNCHANGED <<lastIn, handled, msgs>>

Waits ==
    \/ WaitStays
    \/ \E t : WaitBegins(t) \/ WaitEnds(t) \/ WaitIsListed(t) \/ WaitAgain(t)

LEMMA WaitSteps == ASSUME TInv, [Next]_vars PROVE Waits
<1> USE AgentsAreNot
<1>1. ASSUME UNCHANGED <<awaiting, listed, lastIn, handled, msgs>> PROVE Waits
  BY <1>1 DEF Waits, WaitStays
<1>2. ASSUME CustomerWrites PROVE Waits
  <2>1. CASE OpensAnew
    <3>1. WaitBegins(ticket + 1) BY <1>2, <2>1 DEF CustomerWrites, OpensAnew, WaitBegins
    <3> QED BY <3>1 DEF Waits
  <2>2. CASE ComesBack \/ WritesOn
    <3>1. WaitBegins(ticket) BY <1>2, <2>2 DEF CustomerWrites, ComesBack, WritesOn, WaitBegins
    <3> QED BY <3>1 DEF Waits
  <2> QED BY <1>2, <2>1, <2>2 DEF CustomerWrites
<1>3. ASSUME NEW t, NEW p, NEW m, Closes(t, p, m), UNCHANGED msgs PROVE Waits
  <2>1. WaitEnds(t) BY <1>3 DEF Closes, WaitEnds
  <2> QED BY <2>1 DEF Waits
<1>4. ASSUME NEW a \in Agents, Answer(a) PROVE Waits
  <2>1. WaitEnds(tk[a]) BY <1>4 DEF Answer, WaitEnds, talk
  <2> QED BY <2>1 DEF Waits
<1>5. ASSUME PutOnWaitList PROVE Waits
  <2>1. WaitIsListed(tk["clock"]) BY <1>5 DEF PutOnWaitList, WaitIsListed, talk, history
  <2> QED BY <2>1 DEF Waits
<1>6. ASSUME StartAwaiting PROVE Waits
  <2>1. WaitAgain(tk["worker"]) BY <1>6 DEF StartAwaiting, WaitAgain, talk, history
  <2> QED BY <2>1 DEF Waits
<1> HIDE DEF Waits
<1>7. ASSUME NEW p \in Procs, Procedure(p) PROVE Waits
  BY <1>1, <1>3, <1>7
     DEF Procedure, EndBot, DropFlow, Release, HandOut, Give, Close, tickets, talk, history
<1>8. ASSUME NEW a \in Agents, StartConversation(a) \/ Ask(a) \/ Panel(a) PROVE Waits
  BY <1>1, <1>3, <1>4, <1>8
     DEF StartConversation, Ask, Panel, Greet, Hello, Take, Assign, OffBot, Resolve, Reopen, Edit,
         tickets, talk, history
<1>9. ASSUME Worker \/ BeginFault \/ ContinueFault \/ FlowFault PROVE Waits
  BY <1>1, <1>6, <1>7, <1>9
     DEF Worker, TakeJob, Route, Begin, BeginFault, Continue, ContinueFault, Flow, FlowFault, ToHuman,
         FinishJob, tickets, talk, history
<1>10. ASSUME Clock \/ RunRule \/ Rule PROVE Waits
  BY <1>1, <1>5, <1>7, <1>10
     DEF Clock, SweepWaiting, SweepPool, SweepBots, Sweeps, SweepNothing, OpenBotTicket,
         TimedOut, RunRule, Rule, SetOwnerIfNone, AddOwner, tickets, talk, history
<1>11. ASSUME Crash \/ UNCHANGED vars \/ \E p \in Procs : NobodyFree(p) \/ Fails(p) PROVE Waits
  BY <1>1, <1>11 DEF Crash, NobodyFree, Fails, vars, tickets, talk, history
<1> QED BY <1>2, <1>7, <1>8, <1>9, <1>10, <1>11 DEF Next

LEMMA ListedNext == ASSUME TInv, ListedAwaits, Waits PROVE ListedAwaits'
<1> awaiting \in [Ids -> BOOLEAN] /\ listed \in [Ids -> BOOLEAN]
  BY DEF TInv, TypeOK, TicketsTypeOK
<1> SUFFICES ASSUME NEW t \in Ids, listed'[t] PROVE awaiting'[t] BY DEF ListedAwaits
<1> listed[t] => awaiting[t] BY DEF ListedAwaits
<1>1. CASE WaitStays BY <1>1 DEF WaitStays
<1>2. ASSUME NEW u, WaitBegins(u) PROVE awaiting'[t] BY <1>2 DEF WaitBegins
<1>3. ASSUME NEW u, WaitEnds(u) PROVE awaiting'[t] BY <1>3 DEF WaitEnds
<1>4. ASSUME NEW u, WaitIsListed(u) PROVE awaiting'[t] BY <1>4 DEF WaitIsListed
<1>5. ASSUME NEW u, WaitAgain(u) PROVE awaiting'[t] BY <1>5 DEF WaitAgain
<1> QED BY <1>1, <1>2, <1>3, <1>4, <1>5 DEF Waits

LEMMA CountedNext == ASSUME TInv, Counted, Waits PROVE Counted'
<1> lastIn \in [Ids -> Nat] /\ handled \in [Ids -> Nat] /\ msgs \in Nat
  BY DEF TInv, TypeOK, TicketsTypeOK, HistoryTypeOK, TalkTypeOK
<1> SUFFICES ASSUME NEW t \in Ids PROVE lastIn'[t] <= msgs' /\ handled'[t] <= lastIn'[t]
  BY DEF Counted
<1> lastIn[t] <= msgs /\ handled[t] <= lastIn[t] BY DEF Counted
<1>1. CASE WaitStays BY <1>1 DEF WaitStays
<1>2. ASSUME NEW u, WaitBegins(u) PROVE lastIn'[t] <= msgs' /\ handled'[t] <= lastIn'[t]
  BY <1>2 DEF WaitBegins
<1>3. ASSUME NEW u, WaitEnds(u) PROVE lastIn'[t] <= msgs' /\ handled'[t] <= lastIn'[t]
  BY <1>3 DEF WaitEnds
<1>4. ASSUME NEW u, WaitIsListed(u) \/ WaitAgain(u)
      PROVE  lastIn'[t] <= msgs' /\ handled'[t] <= lastIn'[t]
  BY <1>4 DEF WaitIsListed, WaitAgain
<1> QED BY <1>1, <1>2, <1>3, <1>4 DEF Waits

\* Only the end of a flow makes a customer wait who was answered.
LEMMA AwaitingNext ==
    ASSUME TInv, OnBots, Counted, AwaitingIsUnanswered, Waits
    PROVE  AwaitingIsUnanswered'
<1> lastIn \in [Ids -> Nat] /\ handled \in [Ids -> Nat] /\ msgs \in Nat
    /\ awaiting \in [Ids -> BOOLEAN]
  BY DEF TInv, TypeOK, TicketsTypeOK, HistoryTypeOK, TalkTypeOK
<1> SUFFICES ASSUME NEW t \in Ids \ Bots PROVE awaiting'[t] <=> lastIn'[t] > handled'[t]
  BY DEF AwaitingIsUnanswered
<1> lastIn[t] <= msgs /\ handled[t] <= lastIn[t] BY DEF Counted
<1> awaiting[t] <=> lastIn[t] > handled[t] BY DEF AwaitingIsUnanswered
<1>1. CASE WaitStays BY <1>1 DEF WaitStays
<1>2. ASSUME NEW u, WaitBegins(u) PROVE awaiting'[t] <=> lastIn'[t] > handled'[t]
  <2>1. CASE t = u BY <1>2, <2>1 DEF WaitBegins
  <2>2. CASE t # u BY <1>2, <2>2 DEF WaitBegins
  <2> QED BY <2>1, <2>2
<1>3. ASSUME NEW u, WaitEnds(u) PROVE awaiting'[t] <=> lastIn'[t] > handled'[t]
  <2>1. CASE t = u BY <1>3, <2>1 DEF WaitEnds
  <2>2. CASE t # u BY <1>3, <2>2 DEF WaitEnds
  <2> QED BY <2>1, <2>2
<1>4. ASSUME NEW u, WaitIsListed(u) PROVE awaiting'[t] <=> lastIn'[t] > handled'[t]
  BY <1>4 DEF WaitIsListed
<1>5. ASSUME NEW u, WaitAgain(u) PROVE awaiting'[t] <=> lastIn'[t] > handled'[t]
  <2>1. t # u BY <1>5 DEF WaitAgain, OnBots, InFlow, BotPlaces
  <2> QED BY <1>5, <2>1 DEF WaitAgain
<1> QED BY <1>1, <1>2, <1>3, <1>4, <1>5 DEF Waits

-----------------------------------------------------------------------------
(* Who closed a ticket, and what they had seen of it.                      *)
ClosedSteps(t) ==
    \/ /\ closed'[t] = closed[t]
       /\ status'[t] = "resolved" => status[t] = "resolved" /\ lastIn'[t] = lastIn[t]
    \/ closed'[t].seen = 0
    \/ lastIn'[t] <= closed'[t].seen

LEMMA ClosedNext ==
    ASSUME TInv, Opened, [Next]_vars, NEW t \in Ids
    PROVE  ClosedSteps(t)
<1> USE AgentsAreNot
<1> TicketsTypeOK /\ HistoryTypeOK BY DEF TInv, TypeOK
<1> ticket \in Nat /\ msgs \in Nat BY CareTypes
<1>1. ASSUME UNCHANGED <<status, lastIn, closed>> PROVE ClosedSteps(t) BY <1>1 DEF ClosedSteps
\* Statements that close nothing: none of them makes a ticket resolved.
<1>2. ASSUME NEW u, NEW s, s # "resolved", UNCHANGED <<lastIn, closed>>,
             status' \in {status, [status EXCEPT ![u] = s], [status EXCEPT ![u] = OffTheBot(@)]}
      PROVE  ClosedSteps(t)
  BY <1>2 DEF ClosedSteps, TicketsTypeOK, OffTheBot
<1>3. ASSUME CustomerWrites PROVE ClosedSteps(t)
  <2>1. closed' = closed BY <1>3 DEF CustomerWrites
  <2>2. \E u, m : /\ lastIn' = [lastIn EXCEPT ![u] = m]
                  /\ \/ status' = [status EXCEPT ![u] = "open"]
                     \/ status' = status /\ status[u] # "resolved"
    BY <1>3 DEF CustomerWrites, OpensAnew, Opens, ComesBack, WritesOn
  <2> QED BY <2>1, <2>2 DEF ClosedSteps, TicketsTypeOK
<1>4. ASSUME NEW a \in Agents, StartConversation(a) PROVE ClosedSteps(t)
  BY <1>2, <1>4 DEF StartConversation, Opens
<1>5. ASSUME NEW a \in Agents, Resolve(a) PROVE ClosedSteps(t)
  <2>1. CASE UNCHANGED <<tickets, history>> BY <1>1, <2>1 DEF tickets, history
  <2>2. CASE /\ saw[a].msg = 0 \/ lastIn[tk[a]] <= saw[a].msg
             /\ Closes(tk[a], a, saw[a].msg)
    BY <2>2 DEF Closes, ClosedSteps, TicketsTypeOK, HistoryTypeOK
  <2> QED BY <1>5, <2>1, <2>2 DEF Resolve
<1>6. ASSUME NEW p \in Procs, Close(p) PROVE ClosedSteps(t)
  <2>1. CASE UNCHANGED <<tickets, history>> BY <1>1, <2>1 DEF tickets, history
  <2>2. CASE Closes(tk[p], p, 0) BY <2>2 DEF Closes, ClosedSteps, TicketsTypeOK, HistoryTypeOK
  <2> QED BY <1>6, <2>1, <2>2 DEF Close
<1>7. ASSUME NEW p \in Procs, Release(p) PROVE ClosedSteps(t)
  BY <1>7 DEF Release, history, ClosedSteps, TicketsTypeOK, OffTheBot
<1>8. ASSUME NEW a \in Agents, Answer(a) PROVE ClosedSteps(t)
  <2>1. status' \in {[status EXCEPT ![tk[a]] = "open"], [status EXCEPT ![tk[a]] = OffTheBot(@)]}
    BY <1>8 DEF Answer
  <2> QED BY <1>2, <1>8, <2>1 DEF Answer
<1>9. ASSUME NEW a \in Agents, Edit(a) PROVE ClosedSteps(t)
  <2>1. \E s \in {"open", "pending"} : status' \in {status, [status EXCEPT ![tk[a]] = s]}
    BY <1>9 DEF Edit
  <2> QED BY <1>2, <1>9, <2>1 DEF Edit, history
<1>10. ASSUME NEW a \in Agents, Greet(a) \/ Assign(a) \/ Reopen(a) PROVE ClosedSteps(t)
  <2>1. status' \in {status, [status EXCEPT ![tk[a]] = "open"],
                     [status EXCEPT ![tk[a]] = OffTheBot(@)]}
    BY <1>10 DEF Greet, Assign, Reopen
  <2> QED BY <1>2, <1>10, <2>1 DEF Greet, Assign, Reopen, history
<1> HIDE DEF ClosedSteps
<1>11. ASSUME NEW p \in Procs, Procedure(p) PROVE ClosedSteps(t)
  BY <1>1, <1>6, <1>7, <1>11 DEF Procedure, EndBot, DropFlow, HandOut, Give, tickets, history
<1>12. ASSUME NEW a \in Agents, Ask(a) \/ Panel(a) PROVE ClosedSteps(t)
  BY <1>1, <1>5, <1>8, <1>9, <1>10, <1>12 DEF Ask, Panel, Hello, Take, OffBot, tickets, history
<1>13. ASSUME Worker \/ BeginFault \/ ContinueFault \/ FlowFault PROVE ClosedSteps(t)
  <2>1. CASE Route \/ ToHuman
    <3>1. status' \in {status, [status EXCEPT ![tk["worker"]] = "bot"],
                       [status EXCEPT ![tk["worker"]] = OffTheBot(@)]}
      BY <2>1 DEF Route, ToHuman
    <3> QED BY <1>2, <2>1, <3>1 DEF Route, ToHuman, history
  <2> QED BY <1>1, <1>11, <1>13, <2>1
          DEF Worker, TakeJob, Begin, BeginFault, Continue, ContinueFault, Flow, FlowFault, StartAwaiting,
              FinishJob, tickets, history
<1>14. ASSUME Clock \/ RunRule \/ Rule PROVE ClosedSteps(t)
  <2>1. CASE OpenBotTicket BY <1>2, <2>1 DEF OpenBotTicket, history
  <2> QED BY <1>1, <1>11, <1>14, <2>1
          DEF Clock, SweepWaiting, SweepPool, SweepBots, Sweeps, SweepNothing, PutOnWaitList,
              TimedOut, RunRule, Rule, SetOwnerIfNone, AddOwner, tickets, history
<1>15. ASSUME Crash \/ UNCHANGED vars \/ \E p \in Procs : NobodyFree(p) \/ Fails(p)
       PROVE  ClosedSteps(t)
  BY <1>1, <1>15 DEF Crash, NobodyFree, Fails, vars, tickets, history
<1> QED BY <1>3, <1>4, <1>11, <1>12, <1>13, <1>14, <1>15 DEF Next

LEMMA UnseenNext ==
    ASSUME TInv, Opened, UnseenStaysOpen, [Next]_vars PROVE UnseenStaysOpen'
<1> SUFFICES ASSUME NEW t \in Ids, status'[t] = "resolved", closed'[t].by \in Agents,
                    closed'[t].seen > 0
             PROVE  lastIn'[t] <= closed'[t].seen
  BY DEF UnseenStaysOpen
<1>1. ClosedSteps(t) BY ClosedNext
<1> QED BY <1>1 DEF ClosedSteps, UnseenStaysOpen

-----------------------------------------------------------------------------
(* The people of a ticket: its owner and their role change together.       *)
Takes(t, a)   == /\ owner[t] = NoOne /\ owner' = [owner EXCEPT ![t] = a]
                 /\ \E r : SetRole(t, a, r)
Helps(t, a)   == owner' = owner /\ Joins(t, a, IF owner[t] = a THEN "owner" ELSE "helper")
Handed(t, a)  == owner' = [owner EXCEPT ![t] = a] /\ HandsOver(t, a)
Released(t)   == /\ owner[t] # NoOne /\ owner' = [owner EXCEPT ![t] = NoOne]
                 /\ SetRole(t, owner[t], Demoted(role[t][owner[t]]))
Started(t, a) ==
    /\ owner' = [owner EXCEPT ![t] = a]
    /\ role' = [role EXCEPT ![t] = [b \in Agents |-> IF b = a THEN "owner" ELSE "none"]]

RoleSteps ==
    \/ UNCHANGED <<owner, role>>
    \/ \E t : Released(t)
    \/ \E t, a : Takes(t, a) \/ Helps(t, a) \/ Handed(t, a) \/ Started(t, a)

LEMMA RoleNext ==
    ASSUME TInv, pc["rule"] \notin {"setOwner", "addOwner"}, [Next]_vars
    PROVE  RoleSteps
<1> USE AgentsAreNot
<1>1. ASSUME UNCHANGED <<owner, role>> PROVE RoleSteps BY <1>1 DEF RoleSteps
<1>2. ASSUME NEW t, NEW a, Opens(t, a) PROVE RoleSteps BY <1>2 DEF Opens, Started, RoleSteps
<1>3. ASSUME CustomerWrites PROVE RoleSteps
  <2>1. CASE ComesBack
    <3>1. UNCHANGED <<owner, role>> \/ Released(ticket) BY <2>1 DEF ComesBack, Released
    <3> QED BY <1>1, <3>1 DEF RoleSteps
  <2> QED BY <1>1, <1>2, <1>3, <2>1 DEF CustomerWrites, OpensAnew, WritesOn
<1>4. ASSUME NEW a \in Agents, Greet(a) \/ Answer(a) PROVE RoleSteps
  <2>1. Takes(tk[a], a) \/ Helps(tk[a], a)
    <3>1. CASE Greet(a)
      <4>1. CASE owner[tk[a]] = NoOne BY <3>1, <4>1 DEF Greet, Takes, Joins
      <4>2. CASE owner[tk[a]] # NoOne BY <3>1, <4>2 DEF Greet, Helps
      <4> QED BY <4>1, <4>2
    <3>2. CASE Answer(a)
      <4>1. CASE owner[tk[a]] = NoOne BY <3>2, <4>1 DEF Answer, Takes, Joins
      <4>2. CASE owner[tk[a]] # NoOne BY <3>2, <4>2 DEF Answer, Helps
      <4> QED BY <4>1, <4>2
    <3> QED BY <1>4, <3>1, <3>2
  <2> QED BY <2>1 DEF RoleSteps
<1>5. ASSUME NEW a \in Agents, Take(a) PROVE RoleSteps
  <2>1. UNCHANGED <<owner, role>> \/ Handed(tk[a], a) BY <1>5 DEF Take, Handed
  <2> QED BY <1>1, <2>1 DEF RoleSteps
<1>6. ASSUME NEW a \in Agents, Assign(a) PROVE RoleSteps
  <2>1. \E b : Handed(tk[a], b) BY <1>6 DEF Assign, Handed
  <2> QED BY <2>1 DEF RoleSteps
<1>7. ASSUME NEW p \in Procs, Give(p) PROVE RoleSteps
  <2>1. UNCHANGED <<owner, role>> \/ Takes(tk[p], saw[p].owner) BY <1>7 DEF Give, Takes
  <2> QED BY <1>1, <2>1 DEF RoleSteps
<1> HIDE DEF RoleSteps
<1>8. ASSUME NEW p \in Procs, Procedure(p) PROVE RoleSteps
  BY <1>1, <1>7, <1>8 DEF Procedure, EndBot, DropFlow, Release, HandOut, Close, Closes, tickets
<1>9. ASSUME NEW a \in Agents, StartConversation(a) \/ Ask(a) \/ Panel(a) PROVE RoleSteps
  BY <1>1, <1>2, <1>4, <1>5, <1>6, <1>9
     DEF StartConversation, Ask, Panel, Hello, OffBot, Resolve, Closes, Reopen, Edit, tickets
<1>10. ASSUME Worker \/ BeginFault \/ ContinueFault \/ FlowFault PROVE RoleSteps
  BY <1>1, <1>8, <1>10
     DEF Worker, TakeJob, Route, Begin, BeginFault, Continue, ContinueFault, Flow, FlowFault, ToHuman,
         StartAwaiting, FinishJob, tickets
<1>11. ~(SetOwnerIfNone \/ AddOwner) BY DEF SetOwnerIfNone, AddOwner
<1>12. ASSUME Clock \/ RunRule \/ Rule PROVE RoleSteps
  BY <1>1, <1>8, <1>11, <1>12
     DEF Clock, SweepWaiting, SweepPool, SweepBots, Sweeps, SweepNothing, PutOnWaitList,
         OpenBotTicket, TimedOut, RunRule, Rule, tickets
<1>13. ASSUME Crash \/ UNCHANGED vars \/ \E p \in Procs : NobodyFree(p) \/ Fails(p)
       PROVE  RoleSteps
  BY <1>1, <1>13 DEF Crash, NobodyFree, Fails, vars, tickets
<1> QED BY <1>3, <1>8, <1>9, <1>10, <1>12, <1>13 DEF Next

LEMMA RoleStep == ASSUME TInv, RoleIsOwner, RoleSteps PROVE RoleIsOwner'
<1> owner \in [Ids -> People] /\ role \in [Ids -> [Agents -> Roles]]
  BY DEF TInv, TypeOK, TicketsTypeOK
<1> NoOne \notin Agents BY AgentsAreNot
<1> SUFFICES ASSUME NEW t \in Ids, NEW b \in Agents, role'[t][b] = "owner"
             PROVE  owner'[t] = b
  BY DEF RoleIsOwner
<1>1. role[t][b] = "owner" => owner[t] = b BY DEF RoleIsOwner
<1>2. CASE UNCHANGED <<owner, role>> BY <1>1, <1>2
<1>3. ASSUME NEW u, Released(u) PROVE owner'[t] = b
  <2>1. CASE u = t BY <1>1, <1>3, <2>1 DEF Released, SetRole, Demoted
  <2>2. CASE u # t BY <1>1, <1>3, <2>2 DEF Released, SetRole
  <2> QED BY <2>1, <2>2
<1>4. ASSUME NEW u, NEW a, Takes(u, a) PROVE owner'[t] = b
  <2>1. CASE u = t BY <1>1, <1>4, <2>1 DEF Takes, SetRole
  <2>2. CASE u # t BY <1>1, <1>4, <2>2 DEF Takes, SetRole
  <2> QED BY <2>1, <2>2
<1>5. ASSUME NEW u, NEW a, Helps(u, a) PROVE owner'[t] = b
  <2>1. CASE u = t BY <1>1, <1>5, <2>1 DEF Helps, Joins, SetRole
  <2>2. CASE u # t BY <1>1, <1>5, <2>2 DEF Helps, Joins, SetRole
  <2> QED BY <2>1, <2>2
<1>6. ASSUME NEW u, NEW a, Handed(u, a) PROVE owner'[t] = b
  <2>1. CASE u = t BY <1>1, <1>6, <2>1 DEF Handed, HandsOver, Demoted
  <2>2. CASE u # t BY <1>1, <1>6, <2>2 DEF Handed, HandsOver
  <2> QED BY <2>1, <2>2
<1>7. ASSUME NEW u, NEW a, Started(u, a) PROVE owner'[t] = b
  BY <1>1, <1>7 DEF Started
<1> QED BY <1>2, <1>3, <1>4, <1>5, <1>6, <1>7 DEF RoleSteps

-----------------------------------------------------------------------------
(* The inductive invariant, and what follows from it.                      *)
CareInv == TInv /\ Opened /\ Counted /\ OnBots /\ RuleFree

LEMMA CareInit == ASSUME Init PROVE CareInv
<1>1. TInv BY InitInv
<1>2. Opened /\ Counted /\ RuleFree
  BY AgentsAreNot DEF Init, Opened, Fresh, Behind, Busy, Counted, RuleFree
<1>3. OnBots BY AgentsAreNot DEF Init, OnBots, InFlow, BotPlaces
<1> QED BY <1>1, <1>2, <1>3 DEF CareInv

LEMMA CareInductive == Spec => []CareInv
<1>1. Init => CareInv BY CareInit
<1>2. CareInv /\ [Next]_vars => CareInv'
  BY TInvNext, OpenedNext, CountedNext, WaitSteps, OnBotsNext, RuleFreeNext DEF CareInv
<1> QED BY <1>1, <1>2, PTL DEF Spec

\* Only a customer who waits is on the waiting list: every answer and every
\* closing takes the ticket off it in the same statement, and the sweep asks
\* the row again.  Chatbots, crashes and failing statements do not matter.
THEOREM OnlyWaitingListed == Spec => []ListedAwaits
<1>1. Init => ListedAwaits BY DEF Init, ListedAwaits
<1>2. CareInv /\ ListedAwaits /\ [Next]_vars => ListedAwaits'
  BY WaitSteps, ListedNext DEF CareInv
<1> QED BY <1>1, <1>2, CareInductive, PTL DEF Spec

\* However late an agent's request to close gets to the row, the ticket it
\* closes holds no message of the customer they had not seen.
THEOREM ClosedWasSeen == Spec => []UnseenStaysOpen
<1>1. Init => UnseenStaysOpen BY DEF Init, UnseenStaysOpen
<1>2. CareInv /\ UnseenStaysOpen /\ [Next]_vars => UnseenStaysOpen' BY UnseenNext DEF CareInv
<1> QED BY <1>1, <1>2, CareInductive, PTL DEF Spec

\* As long as no rule assigns a person, who is listed as responsible for a
\* ticket is its owner, through every handing over.  With such a rule two can
\* be listed (automations.go, assign_user).
THEOREM ResponsibleIsOwner ==
    ASSUME "assign_user" \notin Rules
    PROVE  Spec => []RoleIsOwner
<1>1. Init => RoleIsOwner
  <2> SUFFICES ASSUME Init, NEW t \in Ids, NEW a \in Agents PROVE role[t][a] # "owner"
    BY DEF RoleIsOwner
  <2> QED BY DEF Init
<1>2. CareInv /\ RoleIsOwner /\ [Next]_vars => RoleIsOwner'
  BY RoleNext, RoleStep DEF CareInv, RuleFree
<1> QED BY <1>1, <1>2, CareInductive, PTL DEF Spec

\* On a ticket no chatbot starts on, a customer counts as waiting exactly
\* while their newest message was neither answered nor closed over.  (A flow
\* that ends with a person makes the customer wait once more.)
THEOREM WaitingIsUnanswered == Spec => []AwaitingIsUnanswered
<1>1. Init => AwaitingIsUnanswered BY DEF Init, AwaitingIsUnanswered
<1>2. CareInv /\ AwaitingIsUnanswered /\ [Next]_vars => AwaitingIsUnanswered'
  BY WaitSteps, AwaitingNext DEF CareInv
<1> QED BY <1>1, <1>2, CareInductive, PTL DEF Spec

\* A resolved ticket comes back only by a step that counts the reopening:
\* whatever a request, a flow, a sweep or a rule read before, none of them
\* opens it.  The one exception is named: SetTicketBot, by which a chatbot
\* starts on a ticket that was closed since its job read it.
THEOREM ReopeningsCounted == Spec => ComesBackCounted
<1>1. ASSUME CareInv, [Next]_vars
      PROVE  [\A t \in Ids : status[t] = "resolved" /\ status'[t] # "resolved"
                 => reopens'[t] = reopens[t] + 1 \/ BotTakesIt(t)]_vars
  <2> SUFFICES ASSUME NEW t \in Ids, status[t] = "resolved", status'[t] # "resolved",
                      ~BotTakesIt(t)
               PROVE  reopens'[t] = reopens[t] + 1
    OBVIOUS
  <2>1. StatusMoves(t) BY <1>1, StatusNext DEF CareInv
  <2>2. ticket \in Nat BY <1>1, CareTypes DEF CareInv
  <2>3. t <= ticket BY <1>1, <2>2, AgentsAreNot DEF CareInv, Opened, Fresh
  <2> QED BY <2>1, <2>2, <2>3, AgentsAreNot DEF StatusMoves, OffTheBot
<1> QED BY <1>1, CareInductive, PTL DEF Spec, ComesBackCounted
=============================================================================
