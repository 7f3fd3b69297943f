------------------------------- MODULE Ticket -------------------------------
(***************************************************************************)
(* The tickets of one conversation: who owns it, who takes part, whether   *)
(* the customer waits, and the chatbot that may hold it.                   *)
(*                                                                         *)
(* Agents act from the panel: a request reads the conversation and its     *)
(* ticket (reachable), and a transaction that locks the ticket's row, or   *)
(* one conditional statement, changes it later.  One follow-up worker at a *)
(* time runs the conversation's jobs (module Inbound); the clock sweeps    *)
(* waiting, pooled and forgotten chatbot tickets; rules act on their own.  *)
(* Every statement outside a transaction is a step of its own.             *)
(*                                                                         *)
(* Sources: internal/whatsapp/tickets.go, bot.go, runAction in             *)
(* automations.go, onInbound and afterInbound in inbound.go, markAnswered  *)
(* in outbound.go, and their queries in internal/whatsapp/store.           *)
(***************************************************************************)
EXTENDS Naturals, Sequences, FiniteSets

CONSTANTS
    Agents,         \* people with every permission on the device
    MaxTickets,     \* bound: tickets of the conversation
    MaxMessages,    \* bound: messages the customer writes
    MaxActs,        \* bound: requests from the panel and runs of rules
    Asks,           \* what people ask of the panel, of AllAsks
    Rules,          \* what automatic rules may do, of AllRules
    Bots,           \* the tickets a chatbot may start on (pickBot may find none)
    Distribution,   \* whether tickets are handed out automatically
    MaxFaults,      \* bound: failing database statements
    MaxDowns        \* bound: crashes of the server

AllAsks  == {"greet", "take", "assign", "resolve", "reopen", "edit", "reply", "template"}
AllRules == {"assign_team", "assign_user", "resolve"}

ASSUME TicketAssumption ==
    /\ Agents \cap {"none", "worker", "clock", "rule"} = {}
    /\ {MaxTickets, MaxMessages, MaxActs, MaxFaults, MaxDowns} \subseteq Nat
    /\ Asks \subseteq AllAsks /\ Rules \subseteq AllRules
    /\ Bots \subseteq 1 .. MaxTickets /\ Distribution \in BOOLEAN

VARIABLES
    \* wa_conversations and its messages
    ticket,         \* the conversation's ticket, 0 before the first
    msgs,           \* customer messages stored so far
    \* wa_tickets and wa_ticket_participants, by id
    status, owner, awaiting, listed, reopens, role,
    lastIn,         \* the newest customer message of a ticket
    \* wa_bot_sessions, wa_inbound_jobs
    session, jobs,
    \* everyone at work: where they are and what they read before
    pc, tk, saw, next,
    turn,           \* the sweep the clock does next
    \* history and budgets
    told,           \* who was told the ticket is theirs
    handled,        \* the newest message answered or closed over
    closed,         \* who closed a ticket, and the newest message they saw
    acts, faults, downs

tickets == <<status, owner, awaiting, listed, reopens, role, lastIn>>
talk    == <<ticket, msgs, session, jobs>>
hands   == <<pc, tk, saw, next, turn>>
history == <<told, handled, closed>>
budgets == <<acts, faults, downs>>
vars == <<tickets, talk, hands, history, budgets>>

-----------------------------------------------------------------------------
NoOne == "none"
Ids   == 1 .. MaxTickets
Procs == Agents \cup {"worker", "clock", "rule"}

Asked == acts < MaxActs /\ acts' = acts + 1

\* What a request, a job or a sweep read and works with afterwards.
Seen(t, m) == [status |-> status[t], owner |-> owner[t], msg |-> m]
Nothing    == [status |-> "none", owner |-> NoOne, msg |-> 0]

\* p goes on at a place; hands over to a procedure that returns to place n;
\* or is done.
Rests(p) ==
    /\ pc' = [pc EXCEPT ![p] = "idle"] /\ next' = [next EXCEPT ![p] = "idle"]
    /\ tk' = [tk EXCEPT ![p] = 0] /\ saw' = [saw EXCEPT ![p] = Nothing]
    /\ UNCHANGED turn
Goto(p, place) ==
    IF place = "idle" THEN Rests(p)
    ELSE pc' = [pc EXCEPT ![p] = place] /\ UNCHANGED <<tk, saw, next, turn>>
Call(p, place, n) == /\ pc' = [pc EXCEPT ![p] = place] /\ next' = [next EXCEPT ![p] = n]
                     /\ UNCHANGED <<tk, saw, turn>>
Return(p)         == Goto(p, next[p])

Init ==
    /\ ticket = 0 /\ msgs = 0
    /\ status = [t \in Ids |-> "none"] /\ owner = [t \in Ids |-> NoOne]
    /\ awaiting = [t \in Ids |-> FALSE] /\ listed = [t \in Ids |-> FALSE]
    /\ reopens = [t \in Ids |-> 0]
    /\ role = [t \in Ids |-> [a \in Agents |-> "none"]]
    /\ lastIn = [t \in Ids |-> 0]
    /\ session = FALSE /\ jobs = <<>>
    /\ pc = [p \in Procs |-> "idle"] /\ tk = [p \in Procs |-> 0]
    /\ saw = [p \in Procs |-> Nothing] /\ next = [p \in Procs |-> "idle"]
    /\ turn = "waiting"
    /\ told = [t \in Ids |-> {}] /\ handled = [t \in Ids |-> 0]
    /\ closed = [t \in Ids |-> [by |-> NoOne, seen |-> 0]]
    /\ acts = 0 /\ faults = 0 /\ downs = 0

-----------------------------------------------------------------------------
(* The ticket's row: what one statement or transaction does to it.         *)

SetRole(t, a, r) == role' = [role EXCEPT ![t][a] = r]

\* JoinTicket, AddOwner, RecordFirstReply: a role only for someone new.
Joins(t, a, r) == SetRole(t, a, IF role[t][a] = "none" THEN r ELSE role[t][a])


\* DemoteOwner changes the row of someone who takes part.
Demoted(r) == IF r = "none" THEN "none" ELSE "helper"

\* Mutant: the former owner is not demoted.
MakesOwner(t, a) ==
    role' = [role EXCEPT ![t] = [b \in Agents |-> IF b = a THEN "owner" ELSE @[b]]]

\* DemoteOwner of the ticket's owner, then MakeOwner of a.
HandsOver(t, a) ==
    role' = [role EXCEPT ![t] =
               [b \in Agents |-> CASE b = a -> "owner"
                                   [] b = owner[t] /\ b # a -> Demoted(@[b])
                                   [] OTHER -> @[b]]]

OffTheBot(s) == IF s = "bot" THEN "open" ELSE s

\* An unowned ticket becomes a's: a is told it is theirs.
Tells(t, a) == told' = [told EXCEPT ![t] = @ \cup {a}]
TellsOnly(t, S) == told' = [told EXCEPT ![t] = S]

\* Mutant: the waiting clock of a closed ticket keeps running.
ClosesWaiting(t, p, seen) ==
    /\ status' = [status EXCEPT ![t] = "resolved"]
    /\ handled' = [handled EXCEPT ![t] = lastIn[t]]
    /\ closed' = [closed EXCEPT ![t] = [by |-> p, seen |-> seen]]
    /\ UNCHANGED <<owner, awaiting, listed, reopens, role, lastIn, told>>

\* ResolveTicket by p, who saw the messages up to seen.
Closes(t, p, seen) ==
    /\ status' = [status EXCEPT ![t] = "resolved"]
    /\ awaiting' = [awaiting EXCEPT ![t] = FALSE]
    /\ listed' = [listed EXCEPT ![t] = FALSE]
    /\ handled' = [handled EXCEPT ![t] = lastIn[t]]
    /\ closed' = [closed EXCEPT ![t] = [by |-> p, seen |-> seen]]
    /\ UNCHANGED <<owner, reopens, role, lastIn, told>>

\* A new row for the customer's word, or for agent a's.
Opens(t, a) ==
    /\ t \in Ids
    /\ ticket' = t
    /\ status' = [status EXCEPT ![t] = "open"]
    /\ owner' = [owner EXCEPT ![t] = a]
    /\ role' = [role EXCEPT ![t] = [b \in Agents |-> IF b = a THEN "owner" ELSE "none"]]
    /\ TellsOnly(t, {a} \cap Agents)

-----------------------------------------------------------------------------
(* The customer writes: onInbound's transaction, under the conversation's  *)
(* and the ticket's row locks.                                             *)

Queues(t, fresh) ==
    jobs' = Append(jobs, [t |-> t, fresh |-> fresh, owner |-> owner'[t]])

\* TouchTicket: the first message, or one 24 hours after the ticket closed.
OpensAnew ==
    LET t == ticket + 1 IN
    /\ ticket > 0 => status[ticket] = "resolved"
    /\ Opens(t, NoOne)
    /\ awaiting' = [awaiting EXCEPT ![t] = TRUE]
    /\ lastIn' = [lastIn EXCEPT ![t] = msgs + 1]
    /\ Queues(t, TRUE)
    /\ UNCHANGED <<listed, reopens>>

\* TouchTicket and keepsOwner: a returning customer stays with the former
\* agent or is handed out afresh (ReleaseOwner).
ComesBack ==
    LET t == ticket IN
    /\ t > 0 /\ status[t] = "resolved"
    /\ status' = [status EXCEPT ![t] = "open"]
    /\ reopens' = [reopens EXCEPT ![t] = @ + 1]
    /\ awaiting' = [awaiting EXCEPT ![t] = TRUE]
    /\ listed' = [listed EXCEPT ![t] = FALSE]
    /\ \/ UNCHANGED <<owner, role, told>>
       \/ /\ owner[t] # NoOne
          /\ owner' = [owner EXCEPT ![t] = NoOne]
          /\ SetRole(t, owner[t], Demoted(role[t][owner[t]])) /\ TellsOnly(t, {})
    /\ lastIn' = [lastIn EXCEPT ![t] = msgs + 1]
    /\ Queues(t, TRUE)
    /\ UNCHANGED ticket

WritesOn ==
    LET t == ticket IN
    /\ t > 0 /\ status[t] # "resolved"
    /\ awaiting' = [awaiting EXCEPT ![t] = TRUE]
    /\ lastIn' = [lastIn EXCEPT ![t] = msgs + 1]
    /\ UNCHANGED <<ticket, status, owner, listed, reopens, role, told>>
    /\ Queues(t, FALSE)

CustomerWrites ==
    /\ msgs < MaxMessages /\ msgs' = msgs + 1
    /\ OpensAnew \/ ComesBack \/ WritesOn
    /\ UNCHANGED <<session, hands, handled, closed, budgets>>

-----------------------------------------------------------------------------
(* Requests from the panel.                                                *)

\* StartConversation: an agent writes first, in one transaction.
StartConversation(a) ==
    /\ ticket = 0 /\ Asked
    /\ Opens(1, a)
    /\ UNCHANGED <<awaiting, listed, reopens, lastIn, msgs, session, jobs, hands,
                   handled, closed, faults, downs>>

\* reachable: the request reads the conversation and its ticket; the panel
\* says which message was the newest on screen.
Ask(a) ==
    /\ pc[a] = "idle" /\ ticket > 0 /\ Asked
    /\ \E what \in Asks, m \in 0 .. msgs :
        /\ what = "resolve" \/ m = 0
        /\ what \in {"greet", "resolve"} => status[ticket] # "resolved"
        /\ what = "reopen" => status[ticket] = "resolved"
        /\ pc' = [pc EXCEPT ![a] = what]
        /\ saw' = [saw EXCEPT ![a] = Seen(ticket, m)]
    /\ tk' = [tk EXCEPT ![a] = ticket]
    /\ UNCHANGED <<tickets, talk, next, turn, history, faults, downs>>

\* A flow that held the ticket when it was read is ended afterwards.
ThenEndBot(a, held) == IF held THEN Call(a, "endBot", "idle") ELSE Goto(a, "idle")

Greet(a) ==
    LET t == tk[a] IN
    /\ pc[a] = "greet"
    /\ IF owner[t] = NoOne
       THEN /\ owner' = [owner EXCEPT ![t] = a]
            /\ status' = [status EXCEPT ![t] = OffTheBot(@)]
            /\ Tells(t, a) /\ Joins(t, a, "owner")
       ELSE /\ Joins(t, a, IF owner[t] = a THEN "owner" ELSE "helper")
            /\ UNCHANGED <<owner, status, told>>
    /\ IF saw[a].status = "bot" THEN Call(a, "endBot", "hello") ELSE Goto(a, "hello")
    /\ UNCHANGED <<awaiting, listed, reopens, lastIn, talk, handled, closed, budgets>>

\* sendGreeting, when it is switched on, through Send, which reads the
\* ticket again.
Hello(a) ==
    /\ pc[a] = "hello"
    /\ \/ Goto(a, "idle")
       \/ /\ ticket > 0 /\ pc' = [pc EXCEPT ![a] = "reply"]
          /\ saw' = [saw EXCEPT ![a] = Seen(ticket, 0)]
          /\ tk' = [tk EXCEPT ![a] = ticket]
          /\ UNCHANGED <<next, turn>>
    /\ UNCHANGED <<tickets, talk, history, budgets>>

Take(a) ==
    LET t == tk[a] IN
    /\ pc[a] = "take"
    /\ IF owner[t] = a
       THEN UNCHANGED <<owner, role, told>>
       ELSE /\ owner' = [owner EXCEPT ![t] = a]
            /\ HandsOver(t, a) /\ TellsOnly(t, {a})
    /\ Goto(a, "idle")
    /\ UNCHANGED <<status, awaiting, listed, reopens, lastIn, talk, handled, closed, budgets>>

\* To a person, or to a team and from there to whoever is free.
Assign(a) ==
    LET t == tk[a] IN
    /\ pc[a] = "assign"
    /\ status' = [status EXCEPT ![t] = OffTheBot(@)]
    /\ \/ \E b \in Agents :
            /\ owner' = [owner EXCEPT ![t] = b]
            /\ HandsOver(t, b) /\ TellsOnly(t, {b})
            /\ ThenEndBot(a, status[t] = "bot")
       \/ /\ owner' = [owner EXCEPT ![t] = NoOne]
          /\ HandsOver(t, NoOne) /\ TellsOnly(t, {})
          /\ Call(a, "handOut", IF status[t] = "bot" THEN "offBot" ELSE "idle")
    /\ UNCHANGED <<awaiting, listed, reopens, lastIn, talk, handled, closed, budgets>>

\* The ticket a chatbot held is with a team: its flow is ended last.
OffBot(a) ==
    /\ pc[a] = "offBot"
    /\ Call(a, "endBot", "idle")
    /\ UNCHANGED <<tickets, talk, history, budgets>>

\* Mutant: nothing is asked of the messages stored since.
ResolveStale(a) ==
    LET t == tk[a] IN
    /\ pc[a] = "resolve"
    /\ Closes(t, a, saw[a].msg) /\ Call(a, "endBot", "idle")
    /\ UNCHANGED <<talk, budgets>>

\* An older panel says nothing of the messages (0).
Resolve(a) ==
    LET t == tk[a] IN
    /\ pc[a] = "resolve"
    /\ IF status[t] # "resolved" /\ (saw[a].msg = 0 \/ lastIn[t] <= saw[a].msg)
       THEN Closes(t, a, saw[a].msg) /\ Call(a, "endBot", "idle")
       ELSE Goto(a, "idle") /\ UNCHANGED <<tickets, history>>
    /\ UNCHANGED <<talk, budgets>>

Reopen(a) ==
    LET t == tk[a] IN
    /\ pc[a] = "reopen"
    /\ IF status[t] = "resolved"
       THEN /\ status' = [status EXCEPT ![t] = "open"]
            /\ reopens' = [reopens EXCEPT ![t] = @ + 1]
       ELSE UNCHANGED <<status, reopens>>
    /\ Goto(a, "idle")
    /\ UNCHANGED <<owner, awaiting, listed, role, lastIn, talk, history, budgets>>

\* Mutant: without "status <> 'resolved'".
EditAnyway(a) ==
    LET t == tk[a] IN
    /\ pc[a] = "edit"
    /\ \E s \in {"open", "pending"} \ {saw[a].status} :
          IF saw[a].status # "resolved"
          THEN status' = [status EXCEPT ![t] = s]
          ELSE UNCHANGED status
    /\ Goto(a, "idle")
    /\ UNCHANGED <<owner, awaiting, listed, reopens, role, lastIn, talk, history, budgets>>

\* UpdateTicket of the status: EditTicket leaves a closed ticket alone.
Edit(a) ==
    LET t == tk[a] IN
    /\ pc[a] = "edit"
    /\ \E s \in {"open", "pending"} \ {saw[a].status} :
          IF saw[a].status # "resolved" /\ status[t] # "resolved"
          THEN status' = [status EXCEPT ![t] = s]
          ELSE UNCHANGED status
    /\ Goto(a, "idle")
    /\ UNCHANGED <<owner, awaiting, listed, reopens, role, lastIn, talk, history, budgets>>

\* Mutant: the owner is the one of the row read before.
AnswerStale(a) ==
    LET t == tk[a] IN
    /\ pc[a] \in {"reply", "template"}
    /\ status' = [status EXCEPT ![t] = OffTheBot(@)]
    /\ IF saw[a].owner = NoOne
       THEN owner' = [owner EXCEPT ![t] = a] /\ Tells(t, a)
       ELSE UNCHANGED <<owner, told>>
    /\ Joins(t, a, IF owner'[t] = a THEN "owner" ELSE "helper")
    /\ awaiting' = [awaiting EXCEPT ![t] = FALSE]
    /\ listed' = [listed EXCEPT ![t] = FALSE]
    /\ handled' = [handled EXCEPT ![t] = lastIn[t]]
    /\ ThenEndBot(a, saw[a].status = "bot")
    /\ UNCHANGED <<reopens, lastIn, talk, closed, budgets>>

\* enqueue and markAnswered: the wait is over, an unowned ticket is the
\* answerer's, and a template brings a resolved one back.
Answer(a) ==
    LET t == tk[a]
        back == status[t] = "resolved" /\ pc[a] = "template" IN
    /\ pc[a] \in {"reply", "template"}
    /\ status' = [status EXCEPT ![t] = IF back THEN "open" ELSE OffTheBot(@)]
    /\ reopens' = [reopens EXCEPT ![t] = IF back THEN @ + 1 ELSE @]
    /\ IF owner[t] = NoOne
       THEN owner' = [owner EXCEPT ![t] = a] /\ Tells(t, a)
       ELSE UNCHANGED <<owner, told>>
    /\ Joins(t, a, IF owner'[t] = a THEN "owner" ELSE "helper")
    /\ awaiting' = [awaiting EXCEPT ![t] = FALSE]
    /\ listed' = [listed EXCEPT ![t] = FALSE]
    /\ handled' = [handled EXCEPT ![t] = lastIn[t]]
    /\ ThenEndBot(a, saw[a].status = "bot")
    /\ UNCHANGED <<lastIn, talk, closed, budgets>>

-----------------------------------------------------------------------------
(* Procedures shared by requests, jobs, sweeps and rules.                  *)

\* endBot: no flow, nothing to do; else its row goes, then the ticket opens.
EndBot(p) ==
    /\ pc[p] = "endBot"
    /\ IF session THEN Goto(p, "dropFlow") ELSE Return(p)
    /\ UNCHANGED <<tickets, talk, history, budgets>>

DropFlow(p) ==
    /\ pc[p] = "dropFlow"
    /\ session' = FALSE
    /\ Goto(p, "release")
    /\ UNCHANGED <<tickets, ticket, msgs, jobs, history, budgets>>

\* ReleaseBotTicket, for every ticket of the conversation.
Release(p) ==
    /\ pc[p] = "release"
    /\ status' = [t \in Ids |-> OffTheBot(status[t])]
    /\ Return(p)
    /\ UNCHANGED <<owner, awaiting, listed, reopens, role, lastIn, talk, history, budgets>>

\* distribute: the ticket is read again, and someone eligible is picked.
HandOut(p) ==
    LET t == tk[p] IN
    /\ pc[p] = "handOut"
    /\ \/ /\ Distribution
          /\ owner[t] = NoOne /\ status[t] \notin {"resolved", "bot"}
          /\ \E a \in Agents :
               /\ saw' = [saw EXCEPT ![p] = [@ EXCEPT !.owner = a]]
               /\ pc' = [pc EXCEPT ![p] = "give"]
          /\ UNCHANGED <<tk, next, turn>>
       \/ /\ ~Distribution \/ owner[t] # NoOne \/ status[t] \in {"resolved", "bot"}
          /\ Return(p)
    /\ UNCHANGED <<tickets, talk, history, budgets>>

\* Nobody is eligible now.
NobodyFree(p) ==
    /\ pc[p] = "handOut"
    /\ Return(p)
    /\ UNCHANGED <<tickets, talk, history, budgets>>

\* AutoAssign, in one transaction.
Give(p) ==
    LET t == tk[p] a == saw[p].owner IN
    /\ pc[p] = "give"
    /\ IF owner[t] = NoOne /\ status[t] \notin {"resolved", "bot"}
       THEN /\ owner' = [owner EXCEPT ![t] = a]
            /\ SetRole(t, a, "owner") /\ Tells(t, a)
       ELSE UNCHANGED <<owner, role, told>>
    /\ Return(p)
    /\ UNCHANGED <<status, awaiting, listed, reopens, lastIn, talk, handled, closed, budgets>>

\* resolve for a rule, a chatbot or its clock, whatever was seen.
Close(p) ==
    LET t == tk[p] IN
    /\ pc[p] = "close"
    /\ IF status[t] # "resolved"
       THEN Closes(t, p, 0) /\ Goto(p, "endBot")
       ELSE Return(p) /\ UNCHANGED <<tickets, history>>
    /\ UNCHANGED <<talk, budgets>>

-----------------------------------------------------------------------------
(* The follow-up worker, on the conversation's oldest job.                 *)

Job == Head(jobs)

\* resumeInbound loads the ticket; a job whose message opened or reopened it
\* routes it, another one goes to the chatbot holding it.
TakeJob ==
    /\ pc["worker"] = "idle" /\ jobs # <<>>
    /\ tk' = [tk EXCEPT !["worker"] = Job.t]
    /\ saw' = [saw EXCEPT !["worker"] = Seen(Job.t, 0)]
    /\ pc' = [pc EXCEPT !["worker"] =
                CASE Job.fresh -> "route"
                  [] ~Job.fresh /\ status[Job.t] = "bot" -> "bot"
                  [] OTHER -> "finish"]
    /\ next' = [next EXCEPT !["worker"] = "finish"]
    /\ UNCHANGED <<tickets, talk, turn, history, budgets>>

\* The route step: a ticket someone acted on since is left alone, a kept
\* agent goes on, else a chatbot starts (SetTicketBot) or it is handed out.
Route ==
    LET t == tk["worker"] s == saw["worker"] IN
    /\ pc["worker"] = "route"
    /\ IF s.owner # Job.owner \/ s.status \notin {"open", "bot"} \/ s.owner # NoOne
       THEN Goto("worker", "finish") /\ UNCHANGED status
       ELSE \/ Goto("worker", "handOut") /\ UNCHANGED status
            \/ /\ t \in Bots
               /\ status' = [status EXCEPT ![t] = "bot"]
               /\ Goto("worker", "begin")
    /\ UNCHANGED <<owner, awaiting, listed, reopens, role, lastIn, talk, history, budgets>>

\* StartBotSession; when it fails the ticket is handed out instead.
Begin ==
    /\ pc["worker"] = "begin"
    /\ session' = TRUE /\ Goto("worker", "flow")
    /\ UNCHANGED <<tickets, ticket, msgs, jobs, history, budgets>>

BeginFault ==
    /\ pc["worker"] = "begin"
    /\ faults < MaxFaults /\ faults' = faults + 1
    /\ Goto("worker", "handOut")
    /\ UNCHANGED <<tickets, talk, history, acts, downs>>

\* continueBot: without a flow, or when the customer asks for one, a person
\* takes over.
Continue ==
    /\ pc["worker"] = "bot"
    /\ IF session
       THEN Goto("worker", "flow") \/ Call("worker", "endBot", "toHuman")
       ELSE Goto("worker", "toHuman")
    /\ UNCHANGED <<tickets, talk, history, budgets>>

\* The flow, or the chatbot, cannot be read.
ContinueFault ==
    /\ pc["worker"] = "bot"
    /\ faults < MaxFaults /\ faults' = faults + 1
    /\ Goto("worker", "toHuman")
    /\ UNCHANGED <<tickets, talk, history, acts, downs>>

\* runStep: the flow waits for the customer, or its row goes and it ends
\* with a person or by closing the ticket.
Flow ==
    /\ pc["worker"] = "flow"
    /\ \/ Goto("worker", "finish") /\ UNCHANGED session
       \/ /\ session' = FALSE
          /\ \/ Goto("worker", "toHuman")
             \/ Call("worker", "close", "finish")
    /\ UNCHANGED <<tickets, ticket, msgs, jobs, history, budgets>>

\* The row of a flow that ended stays, which is only logged.
FlowFault ==
    /\ pc["worker"] = "flow"
    /\ faults < MaxFaults /\ faults' = faults + 1
    /\ Goto("worker", "toHuman") \/ Call("worker", "close", "finish")
    /\ UNCHANGED <<tickets, talk, history, acts, downs>>

\* Mutant: the ticket stays the chatbot's.
ToHumanSilently ==
    /\ pc["worker"] = "toHuman"
    /\ Goto("worker", "await")
    /\ UNCHANGED <<tickets, talk, history, budgets>>

\* botToHuman: UpdateBotTicket, then StartAwaiting, then distribute.
ToHuman ==
    LET t == tk["worker"] IN
    /\ pc["worker"] = "toHuman"
    /\ status' = [status EXCEPT ![t] = OffTheBot(@)]
    /\ Goto("worker", "await")
    /\ UNCHANGED <<owner, awaiting, listed, reopens, role, lastIn, talk, history, budgets>>

StartAwaiting ==
    LET t == tk["worker"] IN
    /\ pc["worker"] = "await"
    /\ awaiting' = [awaiting EXCEPT ![t] = TRUE]
    /\ listed' = [listed EXCEPT ![t] = FALSE]
    /\ Call("worker", "handOut", "finish")
    /\ UNCHANGED <<status, owner, reopens, role, lastIn, talk, history, budgets>>

FinishJob ==
    /\ pc["worker"] = "finish"
    /\ jobs' = Tail(jobs)
    /\ Goto("worker", "idle")
    /\ UNCHANGED <<tickets, ticket, msgs, session, history, budgets>>

-----------------------------------------------------------------------------
(* The clock: its sweeps run one after another.                            *)

Turn(k) == pc["clock"] = "idle" /\ turn = k
After(k) == CASE k = "waiting" -> "pool" [] k = "pool" -> "bots" [] OTHER -> "waiting"

Sweeps(k, t, place) ==
    /\ Turn(k)
    /\ turn' = After(k)
    /\ pc' = [pc EXCEPT !["clock"] = place]
    /\ tk' = [tk EXCEPT !["clock"] = t]
    /\ next' = [next EXCEPT !["clock"] = "idle"]
    /\ UNCHANGED <<tickets, talk, saw, history, budgets>>

Open(t) == status[t] \in {"open", "pending"}

\* Mutant: the pool is swept without the pending tickets.
DueOpen(k, t) ==
    CASE k = "waiting" -> Open(t) /\ awaiting[t] /\ ~listed[t]
      [] k = "pool"    -> status[t] = "open" /\ owner[t] = NoOne /\ Distribution
      [] OTHER         -> session /\ t = ticket

Due(k, t) ==
    CASE k = "waiting" -> Open(t) /\ awaiting[t] /\ ~listed[t]
      [] k = "pool"    -> Open(t) /\ owner[t] = NoOne /\ Distribution
      [] OTHER         -> session /\ t = ticket

SweepWaiting == \E t \in Ids : Due("waiting", t) /\ Sweeps("waiting", t, "list")
SweepPool    == \E t \in Ids : Due("pool", t) /\ Sweeps("pool", t, "handOut")

\* A flow whose customer went quiet.
SweepBots    == \E t \in Ids : Due("bots", t) /\ Sweeps("bots", t, "openBot")

\* Nothing is due, or not yet.
SweepNothing ==
    /\ pc["clock"] = "idle" /\ \A t \in Ids : ~Due(turn, t)
    /\ turn' = After(turn)
    /\ UNCHANGED <<tickets, talk, pc, tk, saw, next, history, budgets>>

\* Mutant: without "awaiting_since IS NOT NULL".
PutOnList ==
    LET t == tk["clock"] IN
    /\ pc["clock"] = "list"
    /\ listed' = [listed EXCEPT ![t] = TRUE]
    /\ Goto("clock", "idle")
    /\ UNCHANGED <<status, owner, awaiting, reopens, role, lastIn, talk, history, budgets>>

\* The row is checked again, whoever answered since it was listed.
PutOnWaitList ==
    LET t == tk["clock"] IN
    /\ pc["clock"] = "list"
    /\ listed' = [listed EXCEPT ![t] = @ \/ awaiting[t]]
    /\ Goto("clock", "idle")
    /\ UNCHANGED <<status, owner, awaiting, reopens, role, lastIn, talk, history, budgets>>

\* OpenBotTicket: of a ticket no longer the chatbot's only the flow goes.
OpenBotTicket ==
    LET t == tk["clock"] IN
    /\ pc["clock"] = "openBot"
    /\ status' = [status EXCEPT ![t] = OffTheBot(@)]
    /\ Call("clock", "endBot", IF status[t] = "bot" THEN "timeout" ELSE "idle")
    /\ UNCHANGED <<owner, awaiting, listed, reopens, role, lastIn, talk, history, budgets>>

TimedOut ==
    /\ pc["clock"] = "timeout"
    /\ Call("clock", "close", "idle")
    /\ UNCHANGED <<tickets, talk, history, budgets>>

-----------------------------------------------------------------------------
(* Automatic rules, with the ticket they were started for.                 *)

RunRule ==
    /\ pc["rule"] = "idle" /\ ticket > 0 /\ Asked
    /\ \E what \in Rules :
         /\ what = "assign_team" => owner[ticket] = NoOne
         /\ what = "resolve" => status[ticket] # "resolved"
         /\ pc' = [pc EXCEPT !["rule"] =
                     CASE what = "assign_team" -> "handOut"
                       [] what = "assign_user" -> "setOwner"
                       [] OTHER -> "close"]
    /\ \E a \in Agents : saw' = [saw EXCEPT !["rule"] = [Nothing EXCEPT !.owner = a]]
    /\ tk' = [tk EXCEPT !["rule"] = ticket]
    /\ next' = [next EXCEPT !["rule"] = "idle"]
    /\ UNCHANGED <<tickets, talk, turn, history, faults, downs>>

\* assign_user: SetOwnerIfNone, then AddOwner.
SetOwnerIfNone ==
    LET t == tk["rule"] a == saw["rule"].owner IN
    /\ pc["rule"] = "setOwner"
    /\ IF owner[t] = NoOne
       THEN owner' = [owner EXCEPT ![t] = a] /\ Tells(t, a)
       ELSE UNCHANGED <<owner, told>>
    /\ Goto("rule", "addOwner")
    /\ UNCHANGED <<status, awaiting, listed, reopens, role, lastIn, talk, handled, closed, budgets>>

AddOwner ==
    /\ pc["rule"] = "addOwner"
    /\ Joins(tk["rule"], saw["rule"].owner, "owner")
    /\ Goto("rule", "idle")
    /\ UNCHANGED <<status, owner, awaiting, listed, reopens, lastIn, talk, history, budgets>>

-----------------------------------------------------------------------------
\* A statement whose failure is only logged: the rest goes on without it
\* (endBot cannot read the flow and leaves everything as it is).
Fails(p) ==
    /\ pc[p] \in {"endBot", "dropFlow", "release", "give", "close", "toHuman", "await",
                  "list", "openBot", "setOwner", "addOwner"}
    /\ faults < MaxFaults /\ faults' = faults + 1
    /\ CASE pc[p] = "dropFlow" -> Goto(p, "release")
         [] pc[p] = "toHuman"  -> Goto(p, "await")
         [] pc[p] = "await"    -> Call(p, "handOut", "finish")
         [] OTHER              -> Return(p)
    /\ UNCHANGED <<tickets, talk, history, acts, downs>>

\* Everyone stops where they are; a job stays for its next try.
Crash ==
    /\ downs < MaxDowns /\ downs' = downs + 1
    /\ pc' = [p \in Procs |-> "idle"] /\ next' = [p \in Procs |-> "idle"]
    /\ tk' = [p \in Procs |-> 0] /\ saw' = [p \in Procs |-> Nothing]
    /\ turn' = "waiting"
    /\ UNCHANGED <<tickets, talk, history, acts, faults>>

Panel(a) ==
    \/ Greet(a) \/ Hello(a) \/ Take(a) \/ Assign(a) \/ OffBot(a) \/ Resolve(a)
    \/ Reopen(a) \/ Edit(a) \/ Answer(a)

Procedure(p) ==
    EndBot(p) \/ DropFlow(p) \/ Release(p) \/ HandOut(p) \/ Give(p) \/ Close(p)

Worker ==
    \/ TakeJob \/ Route \/ Begin \/ Continue \/ Flow \/ ToHuman \/ StartAwaiting \/ FinishJob
    \/ Procedure("worker")

Clock ==
    \/ SweepWaiting \/ SweepPool \/ SweepBots \/ SweepNothing
    \/ PutOnWaitList \/ OpenBotTicket \/ TimedOut \/ Procedure("clock")

Rule == SetOwnerIfNone \/ AddOwner \/ Procedure("rule")

Next ==
    \/ CustomerWrites
    \/ \E a \in Agents : StartConversation(a) \/ Ask(a) \/ Panel(a) \/ Procedure(a)
    \/ Worker \/ BeginFault \/ ContinueFault \/ FlowFault \/ Clock \/ RunRule \/ Rule
    \/ \E p \in Procs : NobodyFree(p) \/ Fails(p)
    \/ Crash

Spec == Init /\ [][Next]_vars

\* A request, a job and a sweep that began go on; the clock ticks; the pool
\* is offered to someone who is free again and again.
FairSpec ==
    /\ Spec
    /\ WF_vars(Worker) /\ WF_vars(Clock) /\ WF_vars(Rule)
    /\ \A a \in Agents : WF_vars(Panel(a) \/ Procedure(a))
    /\ SF_vars(HandOut("clock") /\ pc'["clock"] = "give")

-----------------------------------------------------------------------------
(* Properties.                                                             *)

Statuses == {"none", "open", "pending", "bot", "resolved"}
Places   == AllAsks \cup {"idle", "hello", "offBot", "endBot", "dropFlow", "release", "handOut",
              "give", "close", "route", "begin", "bot", "flow", "toHuman", "await",
              "finish", "list", "openBot", "timeout", "setOwner", "addOwner"}

People   == Agents \cup {NoOne}
Roles    == {"none", "helper", "owner"}
Reads    == [status : Statuses, owner : People, msg : Nat]

TicketsTypeOK ==
    /\ status \in [Ids -> Statuses] /\ owner \in [Ids -> People]
    /\ awaiting \in [Ids -> BOOLEAN] /\ listed \in [Ids -> BOOLEAN]
    /\ reopens \in [Ids -> Nat] /\ lastIn \in [Ids -> Nat]
    /\ role \in [Ids -> [Agents -> Roles]]

TalkTypeOK ==
    /\ ticket \in 0 .. MaxTickets /\ msgs \in Nat /\ session \in BOOLEAN
    /\ jobs \in Seq([t : Ids, fresh : BOOLEAN, owner : People])

HandsTypeOK ==
    /\ pc \in [Procs -> Places]
    /\ next \in [Procs -> {"idle", "hello", "offBot", "toHuman", "timeout", "finish"}]
    /\ tk \in [Procs -> 0 .. MaxTickets] /\ saw \in [Procs -> Reads]
    /\ turn \in {"waiting", "pool", "bots"}

HistoryTypeOK ==
    /\ told \in [Ids -> SUBSET Agents] /\ handled \in [Ids -> Nat]
    /\ closed \in [Ids -> [by : Procs \cup {NoOne}, seen : Nat]]
    /\ acts \in Nat /\ faults \in Nat /\ downs \in Nat

\* Every variable keeps its type.
TypeOK == TicketsTypeOK /\ TalkTypeOK /\ HandsTypeOK /\ HistoryTypeOK

\* Whoever was told a ticket is theirs (took it, was given it, answered it
\* first) is its owner until they are told otherwise: two people racing for
\* a ticket never both get it.
ToldOwns == \A t \in Ids : told[t] \subseteq {owner[t]}

\* Only the owner is listed among a ticket's people as the one responsible
\* for it (tickets.go, Take, Assign, distribute; SetOwnerIfNone).
RoleIsOwner == \A t \in Ids, a \in Agents : role[t][a] = "owner" => owner[t] = a

\* A ticket an agent closed holds no customer message they had not seen
\* (ResolveTicket), however late their request got to the row.
UnseenStaysOpen ==
    \A t \in Ids :
        status[t] = "resolved" /\ closed[t].by \in Agents /\ closed[t].seen > 0
            => lastIn[t] <= closed[t].seen

\* SetTicketBot, of a chatbot that starts for a message read before: it is
\* the one write that does not ask whether the ticket was closed since.
BotTakesIt(t) == pc["worker"] = "route" /\ tk["worker"] = t /\ status'[t] = "bot"

\* A resolved ticket comes back only as a reopening that is counted: a
\* panel's edit, an answer, a handing over, a flow or its end and a sweep,
\* working from an older read, all leave it closed.
ComesBackCounted ==
    [][\A t \in Ids : status[t] = "resolved" /\ status'[t] # "resolved"
            => reopens'[t] = reopens[t] + 1 \/ BotTakesIt(t)]_vars

\* The same without the exception: only the customer writing, a template or
\* a person brings a resolved ticket back (store.go).
OnlyCounted ==
    [][\A t \in Ids : status[t] = "resolved" /\ status'[t] # "resolved"
            => reopens'[t] = reopens[t] + 1]_vars

\* On a ticket no chatbot takes, the customer counts as waiting exactly while
\* their newest message was neither answered by a person nor closed over.
AwaitingIsUnanswered ==
    \A t \in Ids \ Bots : awaiting[t] <=> lastIn[t] > handled[t]

\* Only a customer who waits is on the waiting list, also when the answer
\* comes between the sweep's read and its update.
ListedAwaits == \A t \in Ids : listed[t] => awaiting[t]

\* The chatbot's clock leaves a ticket a person has alone (sweepBots).
PersonsChatNotTimedOut ==
    [][\A t \in Ids : status[t] # "resolved" /\ status'[t] = "resolved"
            /\ closed'[t].by = "clock" => owner[t] = NoOne]_vars

\* An open ticket nobody owns gets an owner (or is closed, or goes to a
\* chatbot), while people free for it keep coming back.
PoolIsHandedOut ==
    \A t \in Ids : Open(t) /\ owner[t] = NoOne ~> owner[t] # NoOne \/ ~Open(t)

\* A ticket does not stay with the chatbot for ever: its flow ends, a person
\* takes over, or the clock closes it.  Only a failing statement or a crash
\* between SetTicketBot and StartBotSession may leave it there.
BotLetsGo ==
    \A t \in Ids : status[t] = "bot" ~> status[t] # "bot" \/ faults + downs > 0
=============================================================================
