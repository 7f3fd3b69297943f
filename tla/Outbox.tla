------------------------------- MODULE Outbox -------------------------------
(***************************************************************************)
(* The WhatsApp outbox: messages queued by agents, chatbots and rules, the *)
(* one worker that hands them to Meta, and the delivery statuses Meta      *)
(* reports back through the webhook worker.                                *)
(*                                                                         *)
(* Every SQL statement is one step, so the two goroutines that change a    *)
(* message row (outboxWorker and webhookWorker) interleave wherever the    *)
(* code lets them.  Time is abstract: a retry waits until it is due, and a *)
(* row left 'sending' with nobody sending it may be flagged at any time.   *)
(*                                                                         *)
(* Sources: internal/whatsapp/outbound.go, the status half of inbound.go,  *)
(* and internal/whatsapp/store/messages.go.                                *)
(***************************************************************************)
EXTENDS Naturals, FiniteSets

CONSTANTS
    Messages,     \* ids of outgoing messages; a lower id was written earlier
    Conv,         \* Conv[m] is the conversation of message m
    MaxTries,     \* automatic tries of one send (6 in sendOne)
    MaxRetries,   \* bound: how often people press retry on one message
    MaxLost,      \* bound: answers lost after Meta accepted, per message
    MaxDowns,     \* bound: how often the server stops or downs
    MaxFaults,    \* bound: database statements that fail
    Reports       \* delivery statuses Meta reports

ASSUME OutboxAssumption ==
    /\ Messages \subseteq Nat \ {0}
    /\ MaxTries \in Nat \ {0}
    /\ {MaxRetries, MaxLost, MaxDowns, MaxFaults} \subseteq Nat
    /\ Reports \subseteq {"sent", "delivered", "read", "failed"}

VARIABLES
    \* the message rows (wa_messages)
    status,       \* status column, "none" until the row is written
    attempts,     \* attempts column
    due,          \* next_try_at <= now()
    wamid,        \* 0, or n when the row holds the n-th id Meta gave it
    \* the status tables
    pending,      \* wa_pending_statuses: statuses whose message is unknown
    events,       \* stored webhook notices not done, one status each
    \* the two goroutines
    pc, msg, seen, todo, tick,
    batch,        \* taken messages not started yet (outbox worker)
    answer,       \* what the call to Meta returned (outbox worker)
    event,        \* the notice in hand (webhook worker)
    server,       \* "up", "stopping" or "down"
    \* Meta and history
    accepted,     \* how often Meta accepted the message
    told,         \* statuses Meta ever reported
    retries,      \* how often a person queued the message again
    lost,         \* accepted sends whose answer never came
    late,         \* rows committed after a later row of the conversation
    downs, faults

row     == <<status, attempts, due, wamid>>
thread  == <<pc, msg, seen, todo, tick>>
world   == <<accepted, told, retries, lost, late>>
vars    == <<row, pending, events, thread, batch, answer, event, server,
             world, downs, faults>>

-----------------------------------------------------------------------------
Threads  == {"box", "hook"}
Ticks    == {"sent", "delivered", "read"}
Statuses == {"none", "queued", "sending", "failed"} \cup Ticks
NoMsg    == 0

\* The order of ticks; a row still being sent ranks below "sent".
Rank(s) == CASE s = "sent" -> 1 [] s = "delivered" -> 2 [] s = "read" -> 3
             [] OTHER -> 0

\* The ticks a later delivered or read message lifts earlier ones out of.
Lower(s) == IF s = "read" THEN {"sent", "delivered"} ELSE {"sent"}

Waiting == {"queued", "sending"}

Notices == [m : Messages, n : Nat, s : Ticks \cup {"failed"}]
NoEvent == [m |-> NoMsg, n |-> 0, s |-> "none"]

Earlier(p, m) == p < m /\ Conv[p] = Conv[m]

TakableAnyOrder(m) == status[m] = "queued" /\ due[m]    \* mutant: no NOT EXISTS

\* The rows TakeDueMessages may take: due, and no earlier row of the
\* conversation queued or being sent.
Takable(m) ==
    /\ status[m] = "queued" /\ due[m]
    /\ \A p \in Messages : Earlier(p, m) => status[p] \notin Waiting

Running == server # "down"

Places ==
    {"start", "idle", "batch", "ask", "write", "reload", "take", "apply",
     "catchUp", "refresh", "keep", "again", "done"}

-----------------------------------------------------------------------------
Init ==
    /\ status = [m \in Messages |-> "none"]
    /\ attempts = [m \in Messages |-> 0]
    /\ due = [m \in Messages |-> FALSE]
    /\ wamid = [m \in Messages |-> 0]
    /\ pending = {} /\ events = {}
    /\ pc = [t \in Threads |-> IF t = "box" THEN "start" ELSE "idle"]
    /\ msg = [t \in Threads |-> NoMsg]
    /\ seen = [t \in Threads |-> "none"]
    /\ todo = [t \in Threads |-> {}]
    /\ tick = [t \in Threads |-> "none"]
    /\ batch = {} /\ answer = "none" /\ event = NoEvent
    /\ server = "up"
    /\ accepted = [m \in Messages |-> 0]
    /\ told = {}
    /\ retries = [m \in Messages |-> 0]
    /\ lost = [m \in Messages |-> 0]
    /\ late = {}
    /\ downs = 0 /\ faults = 0

-----------------------------------------------------------------------------
(* People, chatbots and rules.                                             *)

\* The row is committed.  Ids are given at insert, so of two transactions in
\* one conversation the later id may commit first.
Enqueue(m) ==
    /\ Running
    /\ status[m] = "none"
    /\ status' = [status EXCEPT ![m] = "queued"]
    /\ due' = [due EXCEPT ![m] = TRUE]
    /\ late' = IF \E q \in Messages : Earlier(m, q) /\ status[q] # "none"
               THEN late \cup {m} ELSE late
    /\ UNCHANGED <<attempts, wamid, pending, events, thread, batch, answer, event,
                   server, accepted, told, retries, lost, downs, faults>>

\* Mutant: a message Meta reported sent is taken for a failed one.
RetryAnything(m) ==
    /\ Running
    /\ status[m] \in {"failed", "sent"}
    /\ retries[m] < MaxRetries
    /\ status' = [status EXCEPT ![m] = "queued"]
    /\ attempts' = [attempts EXCEPT ![m] = 0]
    /\ due' = [due EXCEPT ![m] = TRUE]
    /\ retries' = [retries EXCEPT ![m] = @ + 1]
    /\ UNCHANGED <<wamid, pending, events, thread, batch, answer, event, server,
                   accepted, told, lost, late, downs, faults>>

\* A person queues a failed message again; the conditional UPDATE lets one
\* of two simultaneous presses through.  The row keeps the id Meta gave it.
Retry(m) ==
    /\ Running
    /\ status[m] = "failed"
    /\ retries[m] < MaxRetries
    /\ status' = [status EXCEPT ![m] = "queued"]
    /\ attempts' = [attempts EXCEPT ![m] = 0]
    /\ due' = [due EXCEPT ![m] = TRUE]
    /\ retries' = [retries EXCEPT ![m] = @ + 1]
    /\ UNCHANGED <<wamid, pending, events, thread, batch, answer, event, server,
                   accepted, told, lost, late, downs, faults>>

\* The wait before the next automatic try is over.
ComesDue(m) ==
    /\ status[m] = "queued" /\ ~due[m]
    /\ due' = [due EXCEPT ![m] = TRUE]
    /\ UNCHANGED <<status, attempts, wamid, pending, events, thread, batch, answer,
                   event, server, world, downs, faults>>

-----------------------------------------------------------------------------
(* The outbox worker.                                                      *)

Goto(t, p) == pc' = [pc EXCEPT ![t] = p]

\* Mutants: interrupted sends are queued again; only the start flags them.
RequeueStale ==
    /\ pc["box"] = "start" /\ server = "up"
    /\ status' = [m \in Messages |-> IF status[m] = "sending" THEN "queued" ELSE status[m]]
    /\ Goto("box", "idle")
    /\ UNCHANGED <<attempts, due, wamid, pending, events, msg, seen, todo, tick,
                   batch, answer, event, server, world, downs, faults>>

FlagStaleAtStart ==
    /\ pc["box"] = "start" /\ server = "up"
    /\ status' = [m \in Messages |-> IF status[m] = "sending" THEN "failed" ELSE status[m]]
    /\ Goto("box", "idle")
    /\ UNCHANGED <<attempts, due, wamid, pending, events, msg, seen, todo, tick,
                   batch, answer, event, server, world, downs, faults>>

\* At its start the worker flags every row still 'sending' (age 0); later,
\* between batches, those left 'sending' longer than staleSend.
FlagStale ==
    \E S \in SUBSET {m \in Messages : status[m] = "sending"} :
        /\ \/ pc["box"] = "start" /\ S = {m \in Messages : status[m] = "sending"}
           \/ pc["box"] = "idle" /\ S # {}
        /\ server = "up"
        /\ status' = [m \in Messages |-> IF m \in S THEN "failed" ELSE status[m]]
        /\ Goto("box", "idle")
    /\ UNCHANGED <<attempts, due, wamid, pending, events, msg, seen, todo, tick,
                   batch, answer, event, server, world, downs, faults>>

\* The UPDATE of FlagStale fails: the worker only logs it.
FlagStaleFault ==
    /\ pc["box"] = "start" /\ server = "up"
    /\ faults < MaxFaults /\ faults' = faults + 1
    /\ Goto("box", "idle")
    /\ UNCHANGED <<row, pending, events, msg, seen, todo, tick, batch, answer,
                   event, server, world, downs>>

\* One statement marks the due rows 'sending' and returns them.
TakeDueMessages ==
    LET D == {m \in Messages : Takable(m)} IN
    /\ pc["box"] = "idle" /\ server = "up"
    /\ D # {}
    /\ status' = [m \in Messages |-> IF m \in D THEN "sending" ELSE status[m]]
    /\ batch' = D
    /\ Goto("box", "batch")
    /\ UNCHANGED <<attempts, due, wamid, pending, events, msg, seen, todo, tick,
                   answer, event, server, world, downs, faults>>

\* The lowest id of the batch is next; with none left the worker is idle.
NextOfBatch ==
    /\ pc["box"] = "batch"
    /\ \/ /\ batch = {}
          /\ Goto("box", "idle")
          /\ UNCHANGED <<msg, batch>>
       \/ /\ server = "up"
          /\ \E m \in batch :
                /\ \A p \in batch : m <= p
                /\ msg' = [msg EXCEPT !["box"] = m]
                /\ batch' = batch \ {m}
          /\ Goto("box", "ask")
    /\ UNCHANGED <<row, pending, events, seen, todo, tick, answer, event, server,
                   world, downs, faults>>

\* Mutant: the rows taken are forgotten at the stop.
ForgetBatch ==
    /\ pc["box"] = "batch" /\ server = "stopping" /\ batch # {}
    /\ batch' = {}
    /\ UNCHANGED <<row, pending, events, thread, answer, event, server, world,
                   downs, faults>>

\* Stopping: what was taken but not started goes back to the queue.
RequeueBatch ==
    /\ pc["box"] = "batch" /\ server = "stopping" /\ batch # {}
    /\ \/ /\ status' = [m \in Messages |->
                          IF m \in batch /\ status[m] = "sending"
                          THEN "queued" ELSE status[m]]
          /\ UNCHANGED faults
       \/ /\ faults < MaxFaults /\ faults' = faults + 1
          /\ UNCHANGED status
    /\ batch' = {}
    /\ UNCHANGED <<attempts, due, wamid, pending, events, thread, answer, event,
                   server, world, downs>>

\* The device, the customer or the payload is missing, the device is off,
\* Meta refuses for good, or the send panics.
Refused ==
    /\ pc["box"] = "ask"
    /\ answer' = "refused"
    /\ Goto("box", "write")
    /\ UNCHANGED <<row, pending, events, msg, seen, todo, tick, batch, event,
                   server, world, downs, faults>>

\* Meta answers with a temporary error, or the request never reached it.
Deferred ==
    /\ pc["box"] = "ask"
    /\ answer' = "retryable"
    /\ Goto("box", "write")
    /\ UNCHANGED <<row, pending, events, msg, seen, todo, tick, batch, event,
                   server, world, downs, faults>>

\* Meta accepts.  Its answer arrives, or is lost and looks temporary.
MetaAccepts ==
    LET m == msg["box"] IN
    /\ pc["box"] = "ask"
    /\ accepted' = [accepted EXCEPT ![m] = @ + 1]
    /\ \/ answer' = "ok" /\ UNCHANGED lost
       \/ /\ lost[m] < MaxLost
          /\ lost' = [lost EXCEPT ![m] = @ + 1]
          /\ answer' = "retryable"
    /\ Goto("box", "write")
    /\ UNCHANGED <<row, pending, events, msg, seen, todo, tick, batch, event,
                   server, told, retries, late, downs, faults>>


\* The outcome only touches a row that is still 'sending'.
Outcome(m, s, d, w) ==
    IF status[m] = "sending"
    THEN /\ status' = [status EXCEPT ![m] = s]
         /\ attempts' = [attempts EXCEPT ![m] = @ + 1]
         /\ due' = [due EXCEPT ![m] = d]
         /\ wamid' = [wamid EXCEPT ![m] = w]
    ELSE UNCHANGED row

WriteOutcome ==
    LET m == msg["box"] IN
    /\ pc["box"] = "write"
    /\ \/ /\ answer = "ok"
          /\ Outcome(m, "sent", due[m], accepted[m])
          /\ Goto("box", "reload")
       \/ /\ answer = "retryable" /\ attempts[m] + 1 < MaxTries
          /\ Outcome(m, "queued", FALSE, wamid[m])
          /\ Goto("box", "batch")
       \/ /\ \/ answer = "refused"
             \/ answer = "retryable" /\ attempts[m] + 1 >= MaxTries
          /\ Outcome(m, "failed", due[m], wamid[m])
          /\ Goto("box", "batch")
    /\ answer' = "none"
    /\ UNCHANGED <<pending, events, msg, seen, todo, tick, batch, event, server,
                   world, downs, faults>>

\* The outcome cannot be stored: the row stays 'sending' until flagged.
WriteOutcomeFault ==
    /\ pc["box"] = "write"
    /\ faults < MaxFaults /\ faults' = faults + 1
    /\ Goto("box", IF answer = "ok" THEN "reload" ELSE "batch")
    /\ answer' = "none"
    /\ UNCHANGED <<row, pending, events, msg, seen, todo, tick, batch, event,
                   server, world, downs>>

\* After a send the row is read again for the statuses that came early.
ReloadSent ==
    LET m == msg["box"] IN
    /\ pc["box"] = "reload"
    /\ seen' = [seen EXCEPT !["box"] = status[m]]
    /\ Goto("box", IF wamid[m] = 0 THEN "batch" ELSE "take")
    /\ UNCHANGED <<row, pending, events, msg, todo, tick, batch, answer, event,
                   server, world, downs, faults>>

-----------------------------------------------------------------------------
(* The webhook worker, for the statuses of a "messages" notice.            *)

\* Meta reports what became of an accepted message, in any order and again
\* if it likes; a message that failed was not delivered.
Report(m, n, s) ==
    /\ server = "up"
    /\ n \in 1 .. accepted[m] /\ s \in Reports
    /\ LET known == {e.s : e \in {x \in told : x.m = m /\ x.n = n}} IN
          /\ s = "failed" => known \cap {"delivered", "read"} = {}
          /\ s \in {"delivered", "read"} => "failed" \notin known
    /\ told' = told \cup {[m |-> m, n |-> n, s |-> s]}
    /\ events' = events \cup {[m |-> m, n |-> n, s |-> s]}
    /\ UNCHANGED <<row, pending, thread, batch, answer, event, server, accepted,
                   retries, lost, late, downs, faults>>

\* onStatus: find the message by the id in the notice.
LookUp(e) ==
    /\ pc["hook"] = "idle" /\ server = "up"
    /\ e \in events
    /\ event' = e
    /\ msg' = [msg EXCEPT !["hook"] = e.m]
    /\ IF wamid[e.m] = e.n
       THEN /\ seen' = [seen EXCEPT !["hook"] = status[e.m]]
            /\ todo' = [todo EXCEPT !["hook"] = {e.s}]
            /\ Goto("hook", "apply")
       ELSE /\ Goto("hook", "keep")
            /\ UNCHANGED <<seen, todo>>
    /\ UNCHANGED <<row, pending, events, tick, batch, answer, server, world,
                   downs, faults>>

\* The status came before the message's id: keep it.
KeepPending ==
    /\ pc["hook"] = "keep"
    /\ pending' = pending \cup {event}
    /\ Goto("hook", "again")
    /\ UNCHANGED <<row, events, msg, seen, todo, tick, batch, answer, event,
                   server, world, downs, faults>>

\* Mutant: onStatus does not look again after keeping a status.
NoSecondLook ==
    /\ pc["hook"] = "again"
    /\ Goto("hook", "done")
    /\ UNCHANGED <<row, pending, events, msg, seen, todo, tick, batch, answer, event,
                   server, world, downs, faults>>

\* Look once more: the send may have stored the id in the meantime.
LookAgain ==
    /\ pc["hook"] = "again"
    /\ IF wamid[event.m] = event.n
       THEN /\ seen' = [seen EXCEPT !["hook"] = status[event.m]]
            /\ Goto("hook", "take")
       ELSE /\ Goto("hook", "done")
            /\ UNCHANGED seen
    /\ UNCHANGED <<row, pending, events, msg, todo, tick, batch, answer, event,
                   server, world, downs, faults>>

\* WebhookEventDone.
EventDone ==
    /\ pc["hook"] = "done"
    /\ events' = events \ {event}
    /\ event' = NoEvent
    /\ Goto("hook", "idle")
    /\ UNCHANGED <<row, pending, msg, seen, todo, tick, batch, answer, server,
                   world, downs, faults>>

\* A statement of onStatus fails: the notice waits for its next try.
EventFault ==
    /\ pc["hook"] \in {"keep", "again", "done"}
    /\ faults < MaxFaults /\ faults' = faults + 1
    /\ event' = NoEvent
    /\ Goto("hook", "idle")
    /\ UNCHANGED <<row, pending, events, msg, seen, todo, tick, batch, answer,
                   server, world, downs>>

-----------------------------------------------------------------------------
(* applyPending and applyStatus, run by either goroutine.                  *)

After(t, left) ==
    IF left # {} THEN "apply" ELSE IF t = "box" THEN "batch" ELSE "done"

\* DELETE ... RETURNING: the caller owns the statuses it gets.  The id is
\* the one the thread read: the row's when reloaded, the notice's for hook.
TakePending(t) ==
    LET n    == IF t = "box" THEN wamid[msg[t]] ELSE event.n
        mine == {e \in pending : e.m = msg[t] /\ e.n = n} IN
    /\ pc[t] = "take"
    /\ \/ /\ pending' = pending \ mine
          /\ todo' = [todo EXCEPT ![t] = {e.s : e \in mine}]
          /\ Goto(t, After(t, mine))
          /\ UNCHANGED faults
       \/ /\ faults < MaxFaults /\ faults' = faults + 1
          /\ Goto(t, After(t, {}))
          /\ UNCHANGED <<pending, todo>>
    /\ UNCHANGED <<row, events, msg, seen, tick, batch, answer, event, server,
                   world, downs>>

Advances(t, s) ==
    s = "failed" \/ (seen[t] # "failed" /\ Rank(s) > Rank(seen[t]))

\* The UPDATE is decided on the copy the thread read.  When the tick does
\* not advance, only times or a price may be left to store (or nothing).
ApplyStatus(t) ==
    /\ pc[t] = "apply"
    /\ \E s \in todo[t] :
         /\ todo' = [todo EXCEPT ![t] = @ \ {s}]
         /\ \/ /\ status' = IF Advances(t, s)
                            THEN [status EXCEPT ![msg[t]] = s] ELSE status
               /\ tick' = [tick EXCEPT ![t] = s]
               /\ Goto(t, IF s \in {"delivered", "read"} THEN "catchUp" ELSE "refresh")
               /\ UNCHANGED faults
            \/ /\ ~Advances(t, s)
               /\ Goto(t, After(t, todo[t] \ {s}))
               /\ UNCHANGED <<status, tick, faults>>
            \/ /\ faults < MaxFaults /\ faults' = faults + 1
               /\ Goto(t, After(t, todo[t] \ {s}))
               /\ UNCHANGED <<status, tick>>
    /\ UNCHANGED <<attempts, due, wamid, pending, events, msg, seen, batch, answer,
                   event, server, world, downs>>

\* Earlier sent messages of the conversation are delivered or read too.
CatchUpTicks(t) ==
    /\ pc[t] = "catchUp"
    /\ status' = [p \in Messages |->
                    IF Earlier(p, msg[t]) /\ wamid[p] # 0 /\ status[p] \in Lower(tick[t])
                    THEN tick[t] ELSE status[p]]
    /\ Goto(t, "refresh")
    /\ UNCHANGED <<attempts, due, wamid, pending, events, msg, seen, todo, tick,
                   batch, answer, event, server, world, downs, faults>>

\* ReloadMessage, before the next kept status and the publish.
Refresh(t) ==
    /\ pc[t] = "refresh"
    /\ seen' = [seen EXCEPT ![t] = status[msg[t]]]
    /\ Goto(t, After(t, todo[t]))
    /\ UNCHANGED <<row, pending, events, msg, todo, tick, batch, answer, event,
                   server, world, downs, faults>>

-----------------------------------------------------------------------------
(* Stopping, crashing and starting.                                        *)

Idle == /\ pc' = [t \in Threads |-> IF t = "box" THEN "start" ELSE "idle"]
        /\ msg' = [t \in Threads |-> NoMsg]
        /\ seen' = [t \in Threads |-> "none"]
        /\ todo' = [t \in Threads |-> {}]
        /\ tick' = [t \in Threads |-> "none"]
        /\ batch' = {} /\ answer' = "none" /\ event' = NoEvent

Stop ==
    /\ server = "up"
    /\ downs < MaxDowns /\ downs' = downs + 1
    /\ server' = "stopping"
    /\ UNCHANGED <<row, pending, events, thread, batch, answer, event, world, faults>>

\* The webhook worker's statements run under the cancelled context, so the
\* notice in hand is dropped wherever it was and stays stored.
HookCancelled ==
    /\ server = "stopping" /\ pc["hook"] # "idle"
    /\ pc' = [pc EXCEPT !["hook"] = "idle"]
    /\ event' = NoEvent
    /\ todo' = [todo EXCEPT !["hook"] = {}]
    /\ UNCHANGED <<row, pending, events, msg, seen, tick, batch, answer, server,
                   world, downs, faults>>

\* The loops have finished their step.
Stopped ==
    /\ server = "stopping"
    /\ pc["box"] \in {"start", "idle"} /\ pc["hook"] = "idle"
    /\ server' = "down"
    /\ Idle
    /\ UNCHANGED <<row, pending, events, world, downs, faults>>

Crash ==
    /\ Running
    /\ downs < MaxDowns /\ downs' = downs + 1
    /\ server' = "down"
    /\ Idle
    /\ UNCHANGED <<row, pending, events, world, faults>>

Start ==
    /\ server = "down"
    /\ server' = "up"
    /\ UNCHANGED <<row, pending, events, thread, batch, answer, event, world,
                   downs, faults>>

-----------------------------------------------------------------------------
Worker ==
    \/ FlagStale \/ TakeDueMessages \/ NextOfBatch \/ RequeueBatch
    \/ Refused \/ Deferred \/ MetaAccepts \/ WriteOutcome \/ ReloadSent

Faults == FlagStaleFault \/ WriteOutcomeFault \/ EventFault

Applying(t) == TakePending(t) \/ ApplyStatus(t) \/ CatchUpTicks(t) \/ Refresh(t)

Hook ==
    \/ \E e \in events : LookUp(e)
    \/ KeepPending \/ LookAgain \/ EventDone

People == \E m \in Messages : Enqueue(m) \/ Retry(m)
Clock  == \E m \in Messages : ComesDue(m)
Meta   == \E m \in Messages, s \in Reports : \E n \in 1 .. accepted[m] : Report(m, n, s)
Life   == Stop \/ HookCancelled \/ Stopped \/ Crash \/ Start

Next ==
    \/ Worker \/ Faults \/ Hook \/ People \/ Clock \/ Meta \/ Life
    \/ \E t \in Threads : Applying(t)

Spec == Init /\ [][Next]_vars

\* The Go scheduler runs both goroutines, a send is bounded by sendTimeout,
\* the waits end, and systemd starts a stopped server again.
Fairness ==
    /\ WF_vars(Worker) /\ WF_vars(Hook)
    /\ WF_vars(Applying("box")) /\ WF_vars(Applying("hook"))
    /\ \A m \in Messages : WF_vars(ComesDue(m))
    /\ WF_vars(Start) /\ WF_vars(HookCancelled) /\ WF_vars(Stopped)

FairSpec == Spec /\ Fairness

-----------------------------------------------------------------------------
(* What is checked.                                                        *)

\* Every variable stays within its type.
TypeOK ==
    /\ status \in [Messages -> Statuses]
    /\ attempts \in [Messages -> Nat]
    /\ due \in [Messages -> BOOLEAN]
    /\ wamid \in [Messages -> Nat]
    /\ pending \subseteq Notices /\ events \subseteq Notices
    /\ pc \in [Threads -> Places]
    /\ msg \in [Threads -> Messages \cup {NoMsg}]
    /\ seen \in [Threads -> Statuses]
    /\ todo \in [Threads -> SUBSET (Ticks \cup {"failed"})]
    /\ tick \in [Threads -> Ticks \cup {"none", "failed"}]
    /\ batch \subseteq Messages
    /\ answer \in {"none", "ok", "retryable", "refused"}
    /\ event \in Notices \cup {NoEvent}
    /\ server \in {"up", "stopping", "down"}
    /\ accepted \in [Messages -> Nat]
    /\ told \subseteq Notices
    /\ retries \in [Messages -> Nat] /\ lost \in [Messages -> Nat]
    /\ late \subseteq Messages
    /\ downs \in Nat /\ faults \in Nat

\* The worker has the message in hand and has not settled it.
Held(m)  == m \in batch \/ (msg["box"] = m /\ pc["box"] \in {"ask", "write"})

\* Meta accepts a message at most once for each time somebody ordered it,
\* except when the answer to an accepted call was lost: no crash, restart,
\* failed write, double retry press or late status sends it twice
\* ("so its outcome is known and it is never sent twice", sendBatch).
AcceptedWithinOrders ==
    \A m \in Messages : accepted[m] <= 1 + retries[m] + lost[m]

\* A conversation's messages are handed to Meta in the order they were
\* written: what the worker holds has no earlier message still waiting,
\* unless that one was committed late or queued again by a person.
InOrder ==
    \A m \in Messages : Held(m) =>
        \A p \in Messages : Earlier(p, m) /\ status[p] \in Waiting =>
            p \in late \/ retries[p] > 0

\* A row is 'sending' only while the worker has it, or when a failed write
\* left it there, or from a crash until the worker has started again.
SendingIsHeld ==
    \A m \in Messages : status[m] = "sending" =>
        Held(m) \/ faults > 0 \/ server = "down" \/ pc["box"] = "start"

\* Without a crash or a failing database no early status is left behind
\* once its message has the id: the send takes what is kept, or onStatus,
\* looking once more, does.
NoStrandedStatus ==
    downs = 0 /\ faults = 0 =>
        \A e \in pending : wamid[e.m] = e.n =>
            \/ pc["hook"] = "again" /\ event.m = e.m /\ event.n = e.n
            \/ pc["hook"] = "take" /\ event.m = e.m /\ event.n = e.n
            \/ pc["box"] \in {"reload", "take"} /\ msg["box"] = e.m

\* A message that went out never goes back to the queue by itself: only a
\* person sends again, and only what failed.
SentStaysOut ==
    [][\A m \in Messages : status[m] \in Ticks => status'[m] \in Ticks \cup {"failed"}]_vars

\* A queued message is settled in the end, whatever crashes, stops, lost
\* answers and failing writes come first, and with it those behind it.
QueuedIsSettled ==
    \A m \in Messages : status[m] = "queued" ~> status[m] \notin Waiting

\* What the documents say of the ticks: they never move backwards.
StatusNeverBack ==
    [][\A m \in Messages : status[m] \in Ticks /\ status'[m] \in Ticks
          => Rank(status[m]) <= Rank(status'[m])]_vars

\* What Retry promises: a message queued again goes out again, so the only
\* way out of the queue is being taken for sending.
QueueLeftBySending ==
    [][\A m \in Messages : status[m] = "queued" => status'[m] \in Waiting]_vars
=============================================================================
