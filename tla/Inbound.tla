------------------------------ MODULE Inbound ------------------------------
(***************************************************************************)
(* Receiving customers' messages: Meta's notices are written down first,   *)
(* one worker handles them a page at a time and stores each message with   *)
(* its follow-up job, and several workers run the jobs step by step.       *)
(*                                                                         *)
(* A notice carries one message here; statuses are in module Outbox, what  *)
(* a step does to a ticket in module Ticket.  A conversation's messages    *)
(* are numbered in the order they are stored (the row id).                 *)
(*                                                                         *)
(* Sources: internal/whatsapp/webhook.go, onInbound in inbound.go,         *)
(* inboundjobs.go, and their queries in internal/whatsapp/store.           *)
(***************************************************************************)
EXTENDS Naturals, FiniteSets

CONSTANTS
    Messages,       \* what customers write
    Conv,           \* Conv[m] is the conversation of message m
    Scores,         \* the messages that are a score picked from the survey
    MaxNotices,     \* bound: notices Meta sends, repeated ones included
    NSteps,         \* steps of a message's follow-up work
    Workers,        \* the follow-up workers (inboundWorkers = 4)
    MaxEventTries,  \* tries of one notice (8 in processBatch)
    MaxJobTries,    \* tries of one job (inboundJobTries = 5)
    MaxDowns,       \* bound: stops and crashes of the server
    MaxFaults,      \* bound: failing database statements
    MaxPanics       \* bound: panics

ASSUME InboundAssumption ==
    /\ IsFiniteSet(Messages) /\ "none" \notin Messages
    /\ IsFiniteSet(Workers)
    /\ Scores \subseteq Messages
    /\ {MaxNotices, NSteps, MaxDowns, MaxFaults, MaxPanics} \subseteq Nat
    /\ {MaxEventTries, MaxJobTries} \subseteq Nat \ {0}

VARIABLES
    \* wa_webhook_events, by id
    arrived,        \* how many notices were stored
    about, state, tries, due,
    \* wa_messages and what was learned from a score
    row,            \* 0, or the message's place in the order of storing
    rated,
    \* wa_inbound_jobs
    job, free, jobTries, marked,
    \* the webhook worker
    hook, page, current,
    \* the follow-up workers
    at, mine, step, done,
    server,
    \* history and budgets
    did,            \* how often a step of a message ran
    cut,            \* runs of a step that were never marked done
    overlaps,       \* how often a message's job was taken while a worker had it
    downs, faults, panics

notices == <<arrived, about, state, tries, due>>
jobs    == <<job, free, jobTries, marked, overlaps>>
hooked  == <<hook, page, current>>
working == <<at, mine, step, done>>
budgets == <<downs, faults, panics>>
vars == <<notices, row, rated, jobs, hooked, working, server, did, cut, budgets>>

-----------------------------------------------------------------------------
Ids    == 1 .. MaxNotices
Steps  == 1 .. NSteps
None   == "none"

Waiting(m) == job[m] = "waiting"

\* Mutant: i.id <= j.id.
OlderOrSame(p, m) == Conv[p] = Conv[m] /\ row[p] <= row[m]

Older(p, m) == Conv[p] = Conv[m] /\ row[p] < row[m]

\* Mutant: without NOT EXISTS.
TakableOutOfOrder(m) == Waiting(m) /\ free[m]

\* TakeInboundJob: the claim is silent, and no older message of the
\* conversation has a job.
Takable(m) ==
    /\ Waiting(m) /\ free[m]
    /\ \A p \in Messages : Waiting(p) => ~Older(p, m)

Stored == Cardinality({m \in Messages : row[m] # 0})

Init ==
    /\ arrived = 0
    /\ about = [i \in Ids |-> None]
    /\ state = [i \in Ids |-> "none"]
    /\ tries = [i \in Ids |-> 0]
    /\ due = [i \in Ids |-> FALSE]
    /\ row = [m \in Messages |-> 0]
    /\ rated = {}
    /\ job = [m \in Messages |-> "none"]
    /\ free = [m \in Messages |-> FALSE]
    /\ jobTries = [m \in Messages |-> 0]
    /\ marked = [m \in Messages |-> {}]
    /\ hook = "idle" /\ page = {} /\ current = 0
    /\ at = [w \in Workers |-> "idle"]
    /\ mine = [w \in Workers |-> None]
    /\ step = [w \in Workers |-> 0]
    /\ done = [w \in Workers |-> {}]
    /\ server = "up"
    /\ did = [m \in Messages |-> [s \in Steps |-> 0]]
    /\ cut = [m \in Messages |-> [s \in Steps |-> 0]]
    /\ overlaps = [m \in Messages |-> 0]
    /\ downs = 0 /\ faults = 0 /\ panics = 0

-----------------------------------------------------------------------------
(* Meta's notices.                                                         *)

\* storeEvent.  A call that cannot be written is answered with an error and
\* leaves nothing; Meta sends it again, and sometimes one that was written.
Receive(m) ==
    /\ server = "up"
    /\ arrived < MaxNotices
    /\ arrived' = arrived + 1
    /\ about' = [about EXCEPT ![arrived + 1] = m]
    /\ state' = [state EXCEPT ![arrived + 1] = "pending"]
    /\ due' = [due EXCEPT ![arrived + 1] = TRUE]
    /\ UNCHANGED <<tries, row, rated, jobs, hooked, working, server, did, cut, budgets>>

ComesDue(i) ==
    /\ state[i] = "pending" /\ ~due[i]
    /\ due' = [due EXCEPT ![i] = TRUE]
    /\ UNCHANGED <<arrived, about, state, tries, row, rated, jobs, hooked, working,
                   server, did, cut, budgets>>

\* A person tries a notice again; its tries stay counted.
RetryEvent(i) ==
    /\ server = "up"
    /\ state[i] = "failed"
    /\ state' = [state EXCEPT ![i] = "pending"]
    /\ due' = [due EXCEPT ![i] = TRUE]
    /\ UNCHANGED <<arrived, about, tries, row, rated, jobs, hooked, working, server,
                   did, cut, budgets>>

-----------------------------------------------------------------------------
(* The webhook worker.                                                     *)

\* Mutant: only notices that were never tried are due.
ReadFreshPage ==
    /\ hook = "idle" /\ server = "up"
    /\ page' = {i \in Ids : state[i] = "pending" /\ due[i] /\ tries[i] = 0}
    /\ page' # {}
    /\ hook' = "next"
    /\ UNCHANGED <<notices, row, rated, jobs, current, working, server, did, cut, budgets>>

ReadPage ==
    /\ hook = "idle" /\ server = "up"
    /\ page' = {i \in Ids : state[i] = "pending" /\ due[i]}
    /\ page' # {}
    /\ hook' = "next"
    /\ UNCHANGED <<notices, row, rated, jobs, current, working, server, did, cut, budgets>>

NextEvent ==
    /\ hook = "next"
    /\ IF page = {}
       THEN hook' = "idle" /\ UNCHANGED <<page, current>>
       ELSE \E i \in page :
              /\ \A j \in page : i <= j
              /\ current' = i /\ page' = page \ {i}
              /\ hook' = "store"
    /\ UNCHANGED <<notices, row, rated, jobs, working, server, did, cut, budgets>>

\* onInbound's transaction: the message, unless its id is known already,
\* and with it the job of everything that is to follow.
StoreMessage ==
    LET m == about[current] IN
    /\ hook = "store"
    /\ IF row[m] # 0
       THEN hook' = "done" /\ UNCHANGED <<row, job, free>>
       ELSE /\ row' = [row EXCEPT ![m] = Stored + 1]
            /\ IF m \in Scores
               THEN hook' = "rate" /\ UNCHANGED <<job, free>>
               ELSE /\ job' = [job EXCEPT ![m] = "waiting"]
                    /\ free' = [free EXCEPT ![m] = TRUE]
                    /\ hook' = "done"
    /\ UNCHANGED <<notices, rated, jobTries, marked, overlaps, page, current, working,
                   server, did, cut, budgets>>

\* The transaction fails, or handling the notice panics.
StoreFault ==
    /\ hook = "store"
    /\ \/ faults < MaxFaults /\ faults' = faults + 1 /\ hook' = "failed" /\ UNCHANGED panics
       \/ panics < MaxPanics /\ panics' = panics + 1 /\ hook' = "panicked" /\ UNCHANGED faults
    /\ UNCHANGED <<notices, row, rated, jobs, page, current, working, server, did,
                   cut, downs>>

\* recordRating, after the transaction; a failure is only logged.
RecordRating ==
    /\ hook = "rate"
    /\ \/ rated' = rated \cup {about[current]} /\ UNCHANGED faults
       \/ faults < MaxFaults /\ faults' = faults + 1 /\ UNCHANGED rated
    /\ hook' = "done"
    /\ UNCHANGED <<notices, row, jobs, page, current, working, server, did, cut,
                   downs, panics>>

WebhookEventDone ==
    /\ hook = "done"
    /\ \/ /\ state' = [state EXCEPT ![current] = "done"]
          /\ tries' = [tries EXCEPT ![current] = @ + 1]
          /\ UNCHANGED faults
       \/ /\ faults < MaxFaults /\ faults' = faults + 1
          /\ UNCHANGED <<state, tries>>
    /\ hook' = "next"
    /\ UNCHANGED <<arrived, about, due, row, rated, jobs, page, current, working,
                   server, did, cut, downs, panics>>

\* Mutant: a notice that failed is taken for handled.
FailedIsDone ==
    /\ hook \in {"failed", "panicked"}
    /\ state' = [state EXCEPT ![current] = "done"]
    /\ hook' = "next"
    /\ UNCHANGED <<arrived, about, tries, due, row, rated, jobs, page, current, working,
                   server, did, cut, budgets>>

\* A failed try waits for the next; a panic or the last try gives up.
WebhookEventFailed ==
    LET n == tries[current] + 1
        s == IF hook = "panicked" \/ n >= MaxEventTries THEN "failed" ELSE "pending" IN
    /\ hook \in {"failed", "panicked"}
    /\ \/ /\ state' = [state EXCEPT ![current] = s]
          /\ tries' = [tries EXCEPT ![current] = n]
          /\ due' = [due EXCEPT ![current] = FALSE]
          /\ UNCHANGED faults
       \/ /\ faults < MaxFaults /\ faults' = faults + 1
          /\ UNCHANGED <<state, tries, due>>
    /\ hook' = "next"
    /\ UNCHANGED <<arrived, about, row, rated, jobs, page, current, working, server,
                   did, cut, downs, panics>>

-----------------------------------------------------------------------------
(* The follow-up workers.                                                  *)

Goto(w, p) == at' = [at EXCEPT ![w] = p]
Crew(m)    == {w \in Workers : at[w] # "idle" /\ mine[w] = m}
Runs(m)    == Crew(m) # {}

\* The runs of a step that are over and not marked yet.
Marking(m, s) == {w \in Crew(m) : at[w] = "mark" /\ step[w] = s}

\* Mutant: the steps done before are not read back with the job.
KnownNothing(m) == {}

Known(m) == marked[m]

\* TakeInboundJob moves the claim and counts the try; a job tried too often
\* is only removed.
TakeJob(w) ==
    /\ at[w] = "idle" /\ server = "up"
    /\ \E m \in Messages :
        /\ Takable(m)
        /\ \A p \in Messages : Takable(p) => row[m] <= row[p]
        /\ free' = [free EXCEPT ![m] = FALSE]
        /\ jobTries' = [jobTries EXCEPT ![m] = @ + 1]
        /\ overlaps' = IF Runs(m) THEN [overlaps EXCEPT ![m] = @ + 1] ELSE overlaps
        /\ mine' = [mine EXCEPT ![w] = m]
        /\ done' = [done EXCEPT ![w] = Known(m)]
        /\ step' = [step EXCEPT ![w] = 1]
        /\ Goto(w, IF jobTries[m] + 1 > MaxJobTries THEN "giveup" ELSE "run")
    /\ UNCHANGED <<notices, row, rated, job, marked, hooked, server, did, cut, budgets>>

\* What the job needs cannot be loaded: it stays for another try.
LoadFault(w) ==
    /\ at[w] = "run" /\ step[w] = 1
    /\ faults < MaxFaults /\ faults' = faults + 1
    /\ Goto(w, "idle")
    /\ UNCHANGED <<notices, row, rated, jobs, hooked, mine, step, done, server, did,
                   cut, downs, panics>>

\* A step done before is skipped; after the last the job is finished.
SkipStep(w) ==
    /\ at[w] = "run"
    /\ IF step[w] \notin Steps
       THEN Goto(w, "finish") /\ UNCHANGED step
       ELSE /\ step[w] \in done[w]
            /\ step' = [step EXCEPT ![w] = @ + 1]
            /\ UNCHANGED at
    /\ UNCHANGED <<notices, row, rated, jobs, hooked, mine, done, server, did, cut, budgets>>

Bump(f, m, s) == [f EXCEPT ![m][s] = @ + 1]

DoStep(w) ==
    /\ at[w] = "run"
    /\ step[w] \in Steps \ done[w]
    /\ did' = Bump(did, mine[w], step[w])
    /\ Goto(w, "mark")
    /\ UNCHANGED <<notices, row, rated, jobs, hooked, mine, step, done, server, cut, budgets>>

\* A step panics before or after its effect: the job waits for its next try.
StepPanics(w) ==
    /\ at[w] = "run"
    /\ step[w] \in Steps \ done[w]
    /\ panics < MaxPanics /\ panics' = panics + 1
    /\ \/ did' = Bump(did, mine[w], step[w]) /\ cut' = Bump(cut, mine[w], step[w])
       \/ UNCHANGED <<did, cut>>
    /\ Goto(w, "idle")
    /\ UNCHANGED <<notices, row, rated, jobs, hooked, mine, step, done, server, downs, faults>>

\* The worker remembers the step whether or not the mark was stored.  The
\* job may be gone already, finished by another worker: then nothing is marked.
MarkStep(w) ==
    /\ at[w] = "mark"
    /\ \/ /\ marked' = IF Waiting(mine[w])
                       THEN [marked EXCEPT ![mine[w]] = @ \cup {step[w]}] ELSE marked
          /\ UNCHANGED <<cut, faults>>
       \/ /\ faults < MaxFaults /\ faults' = faults + 1
          /\ cut' = Bump(cut, mine[w], step[w])
          /\ UNCHANGED marked
    /\ done' = [done EXCEPT ![w] = @ \cup {step[w]}]
    /\ Goto(w, "run")
    /\ UNCHANGED <<notices, row, rated, job, free, jobTries, overlaps, hooked, mine, step,
                   server, did, downs, panics>>

\* Mutant: the job is finished whenever its worker leaves it.
FinishAlways(w) ==
    /\ at[w] \in {"finish", "giveup", "run"}
    /\ job' = [job EXCEPT ![mine[w]] = "gone"]
    /\ Goto(w, "idle")
    /\ UNCHANGED <<notices, row, rated, free, jobTries, marked, overlaps, hooked, mine, step,
                   done, server, did, cut, budgets>>

\* The work of a running job ends even while the server stops; giving a job
\* up does not.
FinishJob(w) ==
    LET cancelled == server = "stopping" /\ at[w] = "giveup" IN
    /\ at[w] \in {"finish", "giveup"}
    /\ \/ ~cancelled /\ job' = [job EXCEPT ![mine[w]] = "gone"] /\ UNCHANGED faults
       \/ cancelled /\ UNCHANGED <<job, faults>>
       \/ faults < MaxFaults /\ faults' = faults + 1 /\ UNCHANGED job
    /\ Goto(w, "idle")
    /\ UNCHANGED <<notices, row, rated, free, jobTries, marked, overlaps, hooked, mine, step,
                   done, server, did, cut, downs, panics>>

-----------------------------------------------------------------------------
(* The claim of a job: a worker's beat renews it.                          *)

Freed(m) ==
    /\ free' = [free EXCEPT ![m] = TRUE]
    /\ UNCHANGED <<notices, row, rated, job, jobTries, marked, overlaps, hooked, working,
                   server, did, cut, downs, panics>>

\* The claim of a job nobody runs goes silent, and so does a running one's
\* while the server stops: the beat ends before the work does.
Lapse(m) ==
    /\ Waiting(m) /\ ~free[m]
    /\ ~Runs(m) \/ server = "stopping"
    /\ Freed(m) /\ UNCHANGED faults

\* Renewing fails for as long as the grace lasts, which is only logged: the
\* claim of a job that runs goes silent, and another worker may take it.
RenewalsFail(m) ==
    /\ Waiting(m) /\ ~free[m] /\ Runs(m)
    /\ faults < MaxFaults /\ faults' = faults + 1
    /\ Freed(m)

\* RenewInboundJob: the beat of a worker renews a claim gone silent.
Renew(w) ==
    /\ at[w] \in {"run", "mark", "finish"} /\ server = "up"
    /\ Waiting(mine[w]) /\ free[mine[w]]
    /\ free' = [free EXCEPT ![mine[w]] = FALSE]
    /\ UNCHANGED <<notices, row, rated, job, jobTries, marked, overlaps, hooked, working,
                   server, did, cut, budgets>>

-----------------------------------------------------------------------------
(* Stopping, crashing and starting.                                        *)

Stop ==
    /\ server = "up"
    /\ downs < MaxDowns /\ downs' = downs + 1
    /\ server' = "stopping"
    /\ UNCHANGED <<notices, row, rated, jobs, hooked, working, did, cut, faults, panics>>

\* The webhook worker's context is cancelled: the notice in hand stays
\* pending.  The follow-up workers finish the job they run.
HookCancelled ==
    /\ server = "stopping" /\ hook # "idle"
    /\ hook' = "idle"
    /\ UNCHANGED <<notices, row, rated, jobs, page, current, working, server, did, cut, budgets>>

Stopped ==
    /\ server = "stopping"
    /\ hook = "idle" /\ \A w \in Workers : at[w] = "idle"
    /\ server' = "down"
    /\ UNCHANGED <<notices, row, rated, jobs, hooked, working, did, cut, budgets>>

Crash ==
    /\ server # "down"
    /\ downs < MaxDowns /\ downs' = downs + 1
    /\ server' = "down"
    /\ hook' = "idle" /\ at' = [w \in Workers |-> "idle"]
    /\ cut' = [m \in Messages |-> [s \in Steps |->
                 cut[m][s] + Cardinality(Marking(m, s))]]
    /\ UNCHANGED <<notices, row, rated, jobs, page, current, mine, step, done, did,
                   faults, panics>>

Start ==
    /\ server = "down"
    /\ server' = "up"
    /\ UNCHANGED <<notices, row, rated, jobs, hooked, working, did, cut, budgets>>

-----------------------------------------------------------------------------
HookStep ==
    \/ ReadPage \/ NextEvent \/ StoreMessage \/ RecordRating
    \/ WebhookEventDone \/ WebhookEventFailed

Work(w) ==
    \/ TakeJob(w) \/ SkipStep(w) \/ DoStep(w) \/ MarkStep(w) \/ FinishJob(w)

Next ==
    \/ \E m \in Messages : Receive(m) \/ Lapse(m) \/ RenewalsFail(m)
    \/ \E i \in Ids : ComesDue(i) \/ RetryEvent(i)
    \/ HookStep \/ StoreFault
    \/ \E w \in Workers : Work(w) \/ LoadFault(w) \/ StepPanics(w) \/ Renew(w)
    \/ Stop \/ HookCancelled \/ Stopped \/ Crash \/ Start

Spec == Init /\ [][Next]_vars

\* The loops run, pauses and claims end, and systemd starts a stopped server.
Fairness ==
    /\ WF_vars(HookStep) /\ WF_vars(HookCancelled) /\ WF_vars(Stopped) /\ WF_vars(Start)
    /\ \A w \in Workers : WF_vars(Work(w))
    /\ \A i \in Ids : WF_vars(ComesDue(i))
    /\ \A m \in Messages : WF_vars(Lapse(m))

FairSpec == Spec /\ Fairness

-----------------------------------------------------------------------------
(* What is checked.                                                        *)

NoticesTypeOK ==
    /\ arrived \in 0 .. MaxNotices
    /\ about \in [Ids -> Messages \cup {None}]
    /\ state \in [Ids -> {"none", "pending", "done", "failed"}]
    /\ tries \in [Ids -> Nat] /\ due \in [Ids -> BOOLEAN]

RowsTypeOK == row \in [Messages -> Nat] /\ rated \subseteq Messages

JobsTypeOK ==
    /\ job \in [Messages -> {"none", "waiting", "gone"}]
    /\ free \in [Messages -> BOOLEAN]
    /\ jobTries \in [Messages -> Nat]
    /\ marked \in [Messages -> SUBSET Steps]
    /\ overlaps \in [Messages -> Nat]

HookTypeOK ==
    /\ hook \in {"idle", "next", "store", "rate", "done", "failed", "panicked"}
    /\ page \subseteq Ids /\ current \in Ids \cup {0}

WorkersTypeOK ==
    /\ at \in [Workers -> {"idle", "run", "mark", "finish", "giveup"}]
    /\ mine \in [Workers -> Messages \cup {None}]
    /\ step \in [Workers -> 0 .. NSteps + 1]
    /\ done \in [Workers -> SUBSET Steps]

CountsTypeOK ==
    /\ server \in {"up", "stopping", "down"}
    /\ did \in [Messages -> [Steps -> Nat]] /\ cut \in [Messages -> [Steps -> Nat]]
    /\ downs \in Nat /\ faults \in Nat /\ panics \in Nat

\* Every variable stays within its type; a worker walks over a job's steps
\* and never further than just past the last.
TypeOK ==
    /\ NoticesTypeOK /\ RowsTypeOK /\ JobsTypeOK
    /\ HookTypeOK /\ WorkersTypeOK /\ CountsTypeOK

\* A step of a message's follow-up work runs once, however often Meta
\* repeats the message and however its job is taken over: again only for
\* each run that was cut off before its mark was stored, and for each time
\* the job was taken from a worker that still ran it but could not renew.
StepOncePerMark ==
    \A m \in Messages, s \in Steps : did[m][s] <= 1 + cut[m][s] + overlaps[m]

\* Of one conversation only the message stored first is worked on: no step
\* of a message runs while an older one still has its job.
OneAfterAnother ==
    \A m \in Messages :
        (\E s \in Steps : did[m][s] > 0) =>
            \A p \in Messages : Older(p, m) => ~Waiting(p)

\* The follow-up work of a stored message is not lost: until every step has
\* run, its job is there, unless it was tried as often as it may be.
WorkIsKept ==
    \A m \in Messages \ Scores :
        row[m] # 0 /\ ~Waiting(m) =>
            \/ \A s \in Steps : did[m][s] > 0
            \/ jobTries[m] > MaxJobTries

\* A notice counts as handled only when its message is stored.
HandledIsStored ==
    \A i \in Ids : state[i] = "done" => row[about[i]] # 0

\* Every notice written down is handled or given up in the end, and then
\* only a person's retry brings it back.
NoticesSettled ==
    \A i \in Ids : state[i] = "pending" ~> state[i] \in {"done", "failed"}

\* The follow-up work of every stored message ends.
WorkEnds == \A m \in Messages : Waiting(m) ~> job[m] = "gone"

\* What inboundWorker's comment says: a conversation's messages are handled
\* in the order they came.
FirstNotice(m) == CHOOSE i \in Ids : about[i] = m /\ \A j \in Ids : about[j] = m => i <= j

HandledAsTheyCame ==
    \A m, p \in Messages \ Scores :
        /\ \E s \in Steps : did[m][s] > 0
        /\ Conv[p] = Conv[m] /\ \E i \in Ids : about[i] = p
        /\ FirstNotice(p) < FirstNotice(m)
        /\ state[FirstNotice(p)] # "failed"
        => \E s \in Steps : did[p][s] > 0
=============================================================================
