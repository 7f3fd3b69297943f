# Verification of Santral

Santral is a call centre's panel: agents answer phone calls and WhatsApp
conversations, a Go server keeps everything in PostgreSQL, and Meta's Cloud API
and a hosted telephone exchange are the outside world. The panel is a React
program in the agent's browser, or in a desktop app; an extension of the browser
and the app show a small phone outside the panel's tab. This directory holds TLA+
specifications of the parts where several actors change the same state, the TLC
configurations that check them on small instances, and TLAPS proofs of theorems
that hold for every instance.

Contents: [the system](#the-system), [modules](#modules), [what is
checked](#what-is-checked), [what is proved](#what-is-proved),
[disagreements](#disagreements-between-the-code-and-what-is-said-of-it),
[what is left out](#what-is-left-out), [plan](#plan), [running](#running).

## The system

One server process runs at a time. Inside it requests from the panel run
concurrently with long-lived goroutines; they share nothing but the database,
wake-up channels, a queue of do-not-disturb wishes in memory, and the push to
connected panels. Most statements run outside a transaction, so two actors
interleave between almost any two statements. The server may be stopped (workers
finish what they started) or killed (they do not), and systemd starts it again.

A panel is one thread, but every request it makes, every callback of the SIP
library and every event of the live stream comes when it likes; several tabs of
one browser share its cookies, its storage, a Web Lock and a channel.

| Part | State | Operations and who performs them | What is hard | What makes it correct |
|---|---|---|---|---|
| Outbox (`whatsapp/outbound.go`) | `wa_messages`: state, tries, next try, Meta's id | requests, chatbots and rules queue; one worker takes a batch, calls Meta, writes the outcome; people retry | lost answers, crash in a send, stop with a batch in hand, failing writes, order in a conversation | sent once per order, in order, and settled in the end |
| Delivery statuses (`whatsapp/inbound.go`) | the same rows; `wa_pending_statuses` | webhook worker applies; the sender applies what came early | two goroutines apply to one row; late, repeated and early statuses | no status stays behind; ticks go forward |
| Webhook (`whatsapp/webhook.go`) | `wa_webhook_events` | the HTTP handler writes a notice down; one worker handles a page at a time | repeated notices, failures and panics, back-off, crash between storing and marking | stored before it counts as handled; settled in the end |
| Follow-up jobs (`whatsapp/inboundjobs.go`) | `wa_inbound_jobs`: claim, tries, steps done | four workers claim, renew, run and finish | lapsing claims, also of a live worker, crash between a step and its mark, order in a conversation | a step runs once unless cut off or overtaken; one message of a conversation at a time; no job lost |
| Tickets (`whatsapp/tickets.go`) | `wa_tickets`, `wa_ticket_participants` | agents greet, take, assign, answer, edit, close, reopen; the customer's word opens or brings back; the clock sweeps | requests from stale screens, two people at once, customer writing while an agent closes | one owner, told as such; nothing unseen is closed; nobody waits unnoticed |
| Chatbots (`whatsapp/bot.go`) | `wa_bot_sessions`, a ticket's state `bot` | the follow-up worker starts and continues a flow; requests and the clock end it | a person and a flow on one ticket, half done hand-overs | the flow lets go; a person's chat is left alone |
| Rules (`whatsapp/automations.go`) | none of their own | run inside jobs and requests | act on what the trigger read | as tickets |
| Surveys (`whatsapp/survey.go`, `callsurvey.go`) | rating columns, `wa_call_surveys` | queued with a closing; a worker sends call surveys | a score stored apart from its message; a survey cut off while sent | recorded once |
| Shifts (`shift`, `verimor/service.go`, the panel's `shift/`, `presence/`) | `shifts`, `agent_presence`, `presence_events`; what the panel shows | start, end and change from the panel, the evening sweep, polls | every statement stands alone, the rows are told after they changed | the panel agrees in the end, time on shift is counted |
| Do-not-disturb (`verimor/dnd.go`) | wishes in memory, the phone system's state | requests wish, one worker sends, a poller compares and adopts | late answers, pauses, changes made elsewhere, restarts | what is confirmed is so; the line follows the rows |
| Phone of a tab (`softphone/useSoftphone.ts`) | the line, its calls, the call face | the SIP library's callbacks, buttons, timers | awaits that return after a call's end, a line that breaks silently | no face without a call; the log hears each call once; the line comes back |
| Tabs (`softphone/SoftphoneContext.tsx`, `tabPhone.ts`) | a Web Lock, a channel, stored ends | take over, sign out, close | the other tab is slow or gone | no call's end is lost when it is cut |
| After a call (`WrapUpCard`, `UnreachedPrompt`, `Escalation`) | cards in the storage, a form | the call, the agent, the server's answers, a reload | answers for an earlier call | every talk is asked about |
| Sessions in the panel (`auth/AuthContext.tsx`, `api/client.ts`) | cookies, access token, per tab who is shown | requests, renewal one tab at a time, sign out | late refusals, server away, another person signs in | nobody is dropped by a blip; ends of calls survive |
| Sign in (`pages/Login.tsx`, `auth/service.go`) | a token per step at the page, those taken at the server | codes, passwords, setting up | answers that are lost after the step was taken, tokens of older steps the page keeps | no step is asked for twice, none left out |
| WhatsApp inbox (`whatsapp/WhatsAppContext.tsx`) | rows and the newest version known | events, polls, reloads | both ways carry the same change, in any order | a row never goes back |
| WhatsApp conversation (`ChatPane`, `Composer`) | rows shown, parts being sent, a draft | pages, events, sends, closing | one message comes by three ways | nothing is shown twice |
| Team chat in the panel (`teams/`, `MessagePane`, `Composer`) | lines, a draft, an edit, a tray; the list of rooms | pages, events, acts on rooms and members | answers cross events | the draft comes back; the list catches up |
| Forms and settings (38 windows and cards) | what is typed, the copy of the record | type, send, fail, close, refill | others change the record, the list is read again | nothing typed is lost |
| Lists, searches and reports (25 screens) | filter, rows, requests | filter, page, poll, press on a row | answers in any order | ends with what was asked last |
| Desktop app and extension (`src/desktop`, `src/extension`) | faces, sockets, windows, presses | publish, press, restart | sockets that evict each other, a worker that forgets | the small phones tell the truth |
| Sessions at the server (`auth`, `security`, `pkg/lockout`) | sessions, refresh tokens, counters | sign in, refresh, revoke | a revoked session in a cache | a revoked session ends |
| Calls at the server (`verimor`, `calllog`) | mirrored call records, notes | polling and hooks upsert | late and repeated records | a later record wins |
| Follow-ups (`followup`, `escalation`) | reminders | a ticker gives due ones | crash between giving and marking | given once |
| Backups (`backup`), keys (`setup`, `pkg/crypt`) | schedule and files; wrapped keys | a ticker dumps and uploads; rewrap at start | failing half way | an old backup is never lost; everything stays readable |
| The rest | users, roles, settings, games, audit, reports, deployment | single requests and scripts | little concurrency | |

How the modelled parts meet: Meta's notice is stored (webhook), handled by the
webhook worker, which applies a status (outbox rows) or, in one transaction,
stores the customer's message, opens or brings back a ticket and writes a
follow-up job. A follow-up worker runs the job's steps: routing to a chatbot or
an agent, rules, away messages. Agents and chatbots answer through the outbox.
A clock goroutine sweeps waiting, pooled and forgotten tickets. Every change is
pushed to the panels, whose inbox, open conversation and rooms merge it with what
they fetch. A phone call is carried by the tab that holds the lock; its face goes
to the app and the extension, its start, answer and end to the call log, and its
end raises the card that asks about it. A shift that starts or ends, and a change
of presence, write rows and wish for do-not-disturb, which the queue sends to the
phone system.

PROJECT.json lists every component with its sources and status, and under
`hazards` what in this code is hard to test, with the properties about it.

## Modules

| Module | Models | Source |
|---|---|---|
| `Outbox` | outbox, delivery statuses | `whatsapp/outbound.go`, `inbound.go`, `store/messages.go` |
| `Inbound` | webhook notices, storing messages, follow-up jobs | `whatsapp/webhook.go`, `inbound.go`, `inboundjobs.go` |
| `Ticket` | tickets, chatbots and rules of one conversation | `whatsapp/tickets.go`, `bot.go`, `automations.go` |
| `Floor` | shift, presence and stretches of one agent, and what the panel shows | `shift/`, `verimor/service.go`, `verimor/repository.go`, the panel's `shift/`, `presence/` |
| `DoNotDisturb` | the queue for one extension, the reader of reports and rows, the phone system | `verimor/dnd.go`, `verimor/service.go` |
| `CallRecord` | abstract: a call is opened once, closed at most once, answered only in between | what Softphone promises the call log |
| `Softphone` | line, calls and call face of one tab; implements `CallRecord` | `softphone/useSoftphone.ts` |
| `Tabs` | the lock, taking over, signing out | `softphone/SoftphoneContext.tsx`, `tabPhone.ts`, `callLogQueue.ts` |
| `AfterCall` | wrap-up card, unreached prompt, escalation form | `components/layout/`, `components/dashboard/`, `components/escalation/` |
| `Session`, `SignIn` | cookies, renewal, who is shown; the steps of signing in | `auth/`, `api/client.ts`, `pages/Login.tsx` |
| `Inbox`, `ChatPane` | list of conversations; the open one | `whatsapp/`, `components/whatsapp/` |
| `Room`, `RoomList` | one room of the team chat; the list of rooms | `teams/`, `components/teams/` |
| `Forms`, `Lists` | every form and every list of the panel | `pages/`, `components/` |
| `Bridge` | app, extension, widgets | `src/desktop`, `src/extension`, `softphone/extensionBridge.ts` |
| `PanelNames` | the calls and tabs the panel's modules share, and how the details of a form or list are put together | |
| `MCOutbox`, `MCInbound`, `MCTicket` | instances and symmetry | |
| `MCPhone`, `MCPages`, `MCLive`, `MCDay` | several parts in one run, see below | |
| `OutboxProofs`, `InboundProofs`, `TicketProofs`, `TicketCareProofs` | theorems about the WhatsApp side of the server; TicketCareProofs rests on TicketProofs | |
| `PhoneProofs`, `BrowserProofs` | theorems about the phone: DoNotDisturb, Softphone and CallRecord; Tabs, AfterCall and Bridge | |
| `PagesProofs` | theorems about Session, SignIn, Inbox, Forms and Lists | |
| `ChatProofs` | theorems about ChatPane and Room | |

Common conventions. One SQL statement outside a transaction, or one
transaction, is one step: the row locks and conditional `WHERE` clauses the
code relies on are exactly the atomicity of a step. What a goroutine read
earlier and uses later is a variable of its own (`seen`, `page`, `saw`), so
stale reads are visible. Time is abstract: anything that waits for a clock may
happen at any time, and fairness says it happens in the end. Counters the code
does not bound are bounded by constants with `Max` in their names. A failing
database statement consumes a budget `MaxFaults`, a stop or crash `MaxDowns`.

In the panel, one callback, one press and one answer is one step, because the
panel is one thread; what an `await` or a timer cuts apart is several. A request
has its own variable: asked, served (what the server read then), answered or
lost.

**Sums.** Parts that share no state are checked in one run: the variable `part`
says which one a behaviour moves, and the others stay as they began. `MCPhone`
(line, browser, after, outside, room, tray), `MCPages` (session, sign in, inbox, form,
list, chat, reading), `MCLive` (line, session) and `MCDay` (rows, line, rooms) extend
the modules of their parts; fairness is then guarded by `part`, and says nothing of a
part that rests. Room is two parts, one without files and one without pages, and so is
ChatPane, one where nothing is marked as read and one where nothing is sent: what each
leaves out has no variable in common with what it checks. A part at rest has its
initial state, forms and lists one with nothing in it.

### Outbox

`status`, `attempts`, `due` (next_try_at has passed) and `wamid` are columns of
`wa_messages`; `pending` is `wa_pending_statuses`; `events` are the statuses in
stored notices. `pc["box"]` and `pc["hook"]` say where the outbox worker and the
webhook worker are; `batch` is what TakeDueMessages returned, `seen` the state
in the copy of the row a status was decided on, `todo` what TakePendingStatuses
returned. `server` is up, stopping or down. `accepted`, `told`, `retries`,
`lost`, `late` are history.

The worker: FlagStale at start and every minute, TakeDueMessages, NextOfBatch
(RequeueBatch when stopping), then Refused, Deferred or MetaAccepts (with the
answer arriving or lost), WriteOutcome, ReloadSent and the pending statuses. The
webhook worker: LookUp, KeepPending, LookAgain, TakePending, ApplyStatus,
CatchUpTicks, Refresh, EventDone. Both apply statuses with the same actions, as
the code does. Enqueue may commit a lower id after a higher one (ids are drawn
before the transaction commits): `late` remembers which.

### Inbound

`about`, `state`, `tries`, `due` are the columns of a notice; `row` numbers
stored messages in the order of their ids; `job`, `free` (the claim is silent),
`jobTries` and `marked` are columns of a job. `hook`, `page`, `current` are the
webhook worker and its page, read once and worked off; `at`, `mine`, `step`,
`done` are the follow-up workers. StoreMessage is the transaction of onInbound,
which also writes the job; a repeated notice finds the message and stores
nothing. DoStep and MarkStep are apart, as in `jobSteps.run`. A claim goes silent
because its holder died or its beat ended with the server's stopping (Lapse), or
because the renewals of a live worker fail for as long as the grace lasts, which is
only logged (RenewalsFail, a fault); Renew is the beat that succeeds. `overlaps`
counts how often a job was taken while a worker still had it: that worker goes on,
and both run the steps the other has not marked. A notice carries one message;
statuses are left to Outbox, and what a step does to Ticket.

### Ticket

One conversation and its tickets in order. `status`, `owner`, `awaiting`
(awaiting_since), `listed` (waiting_listed_at), `reopens` and `role` (participants)
are rows; `session` is the flow's row; `jobs` are follow-up jobs in order.
Everyone at work (each agent's request, the follow-up worker, the clock, a rule)
has a place `pc`, the ticket `tk` it works on, what it `saw` before, and the place
`next` a shared procedure returns to. EndBot, DropFlow, Release, HandOut, Give and
Close are the procedures `endBot`, `distribute` and `resolve`, which agents, jobs,
sweeps and rules all call. `told`, `handled`, `closed` are history: who was told
a ticket is theirs, the newest message answered or closed over, who closed and
what they had seen.

Ask is `reachable`: the request's read of the conversation, together with the
newest message on the agent's screen (any message so far, or none for older
panels). The transaction comes later, in an action of its own. An agent who is
eligible is any agent, NobodyFree is nobody being eligible, so the choice of
the fairest one is a free choice. A flow's outcome (Flow) is a free choice too.
`Bots` are the tickets a chatbot may start on. Assigning a chatbot's ticket to a team
hands it out before the flow is ended (OffBot). Statements whose failure is only
logged fail in Fails and FlowFault, and what follows them goes on.

### Floor and DoNotDisturb

`shift` is the open row of `shifts` (0 for none), `presence` the row of
`agent_presence`, `stretch` the open row of `presence_events`; their partial
unique indexes make them single. A request has a place, and each of its statements
is a step: FirstRead (Open, or onShift, which takes a failure for no), StartRow or
EndRow (which closes the row it read, and only the closer tells), SetPresence,
SetStretch (RecordTransition, CloseOpenEvent), and for a poll ReadsPresence and
EnsureOpenEvent. `active` and `shown` are what ShiftContext and PresenceContext
hold; ChangeState shows a state before it is asked for, and every answer counts,
whenever it comes.

DoNotDisturb takes the rows as one value they ask for (`rows`, what DNDWishes
returns) that changes at will, because the queue knows nothing else of them. `wish`
is the extension's `dndWish`, `send` the send in flight with whether its wish is
still the latest (the sequence number), `paused` is `pausedUntil` to come. Want,
Flush and Settle are a request's, QueueSends the worker's, `at` walks through
refreshExtensions: AsksReport, Told, Observe, ReadsWishes, LooksToAdopt, Adopts;
a restart begins with ReadsWishes, as RunDND does. `late` holds changes whose
sender gave up and that the phone system may still take.

### The phone: Softphone, CallRecord, Tabs, AfterCall, Bridge

Softphone has three groups of variables: the line (user agent, socket,
registration, `recovering`, the retry timer, the watchdog), the calls (`state` in
the SIP library, `session` and `callId` for the refs of the hook, and the sets
`opening`, `accepting`, `holding` of calls an await has not returned for), and the
call face. What the library reports is the environment's. `CallRecord` is the
abstract specification of what the call log hears; `Records == INSTANCE CallRecord`
maps Softphone's `record` to it, and the property `CallRecords` says each step of
Softphone is a step of CallRecord or a stutter: hang up, refusal, failure, leaving
the page and stopping the line end a call once between them. An answer may be told
again while the call is open, because the log is written for the newest call,
whichever of two was picked up.

Tabs numbers the requests for the lock, because a request that was given up may
still be granted; `task` is where a tab is in taking over or signing out. AfterCall
keeps `cards` (the storage) apart from `saving` and `skipping` (requests under
way) and from the dashboard's form. In Bridge the app, the worker and the pages
hear faces in order over connections of which the app keeps the newest; `orders`
are presses under way.

### Session and SignIn

`cookie`, `fresh` and `lately` belong to the browser, `stage`, `shown`, `req`,
`renewal` to each tab. Serve answers with the cookie a request was sent with;
renewing takes turns between tabs (TakeTurn). SignIn has one token of each kind
`held`, the server's `issued` and `spent`, and Screen says which step is shown. A
call of the page (SendStep) is handled at the server (CodeWrong, Refuses, Enrolled,
CodeRight, PasswordChanged) and answered to the page (`reply`, StepAnswered); the
call or its answer may be lost (StepFails), and a call given up may still be handled
(`stray`). `heard` is history: the tokens the page was told were taken.

### Inbox, ChatPane, Room, RoomList

Server and panel are apart: `rows`, `chatLog`, `roomLog`, `theirs` are the
server's, `rowsHere`, `pane`, `lines`, `mine` the panel's; `pipe`, `chatNews`,
`roomNews`, `roomEvents` are events on their way, `polls`, `pageOf`, `asks`, `views`
are requests. Apply, Merge and the pages' answers are the code's merging functions.
A send is a row shown at once, an answer and an event, in any order.

### Forms and Lists

The panel's forms are one machine, and differ in the details that decide what
becomes of what is typed: where the fields are filled from, when the button locks,
what a failure and a success do, whether closing asks. A form is the record of
these details, one definition per form named after the component; Init picks one
and the rest of the behaviour is that form's. A card may be usable while it is
still being read (`Early`), and be read again with the list (`Rereads`); either
overwrites what was typed. Lists is made the same way: whose
answers count, what a failure leaves, when a filter applies, what a button shows
before its answer.

## What is checked

Passing runs:

| Run | Instance | Properties | Shows |
|---|---|---|---|
| `outbox_send` | two messages of one conversation, two tries, one retry, lost answer, crash or stop, failed write each | AcceptedWithinOrders, InOrder, SendingIsHeld, QueuedIsSettled | Meta accepts a message at most once per order (and lost answer), in order; `sending` never lingers unattended; what is queued is settled |
| `outbox_status` | one message, statuses delivered and failed in any order, one retry, crash, failed write | NoStrandedStatus, SentStaysOut | an early status is found once the id is stored; what went out is queued again only by a person after a failure |
| `inbound_jobs` | two messages of one conversation, two workers, a crash or stop, two failures, lapsing claims | StepOncePerMark, OneAfterAnother, WorkIsKept | a step repeats only when cut off before its mark or when its job was taken from a live worker, once for each; a conversation is worked on in order; no job is lost |
| `inbound_notices` | a message and a survey score, repeated notices, failure, panic, a person's retry, crash | HandledIsStored, NoticesSettled, WorkEnds | handled means stored; every notice and every job ends |
| `ticket_hands` | two agents, a chatbot, the distributor, the clock, a rule and a failing statement on one ticket | ToldOwns, RoleIsOwner | whoever was told a ticket is theirs owns it; nobody else is listed as responsible |
| `ticket_closing` | two agents' requests over two tickets, two customer messages, a chatbot on the second ticket, rules, the clock, a crash | UnseenStaysOpen, ListedAwaits, AwaitingIsUnanswered, ComesBackCounted | nothing unseen is closed over; a closed ticket comes back only counted, but for a flow that starts late; a customer of a ticket without a chatbot waits exactly while unanswered |
| `ticket_live` | a chatbot, an agent, the distributor, the clock, a failing statement | PoolIsHandedOut, BotLetsGo | an unowned open ticket gets an owner; no ticket stays with the chatbot for ever unless a statement failed |
| `panel_phone` | line: two calls, a fault, a stop; browser: two tabs and a call; after: two calls, two customers, a reload; outside: a press and an accident; room: two messages and its pages; tray: two messages and a file | CallFaceHasCall, CallRecords, EndsBeforeCut, EveryTalkIsAsked, FacesAreTrue, DraftComesBack | no face, tone or voice without a call; the phone implements the call record; taking over and signing out lose no end; every talk is asked about; the small phones show the phone as it is; a draft comes back after an edit |
| `panel_pages` | session: two tabs; sign in: two tokens, two wrong codes, a stray call; inbox: one conversation, two changes; conversation: two messages of the customer, a part that is sent and reported, a page at a time; every form; every list | EndsAreKept, NobodyDropped, EachStepOnce, NeverBack, NoTwins, TypedIsKept, ListSettles | a blip signs nobody out and loses no end; no step is asked for twice or left out; no row back, no message twice; typed texts are kept; a list ends with what was asked last |
| `panel_live` | a line with two faults and a stop; a starting tab, two people, two sessions | LineComesBack, EveryTabStarts | the line comes back by watchdog and retry; a tab finds out who is signed in |
| `agent_day` | rows: two requests at once, two starts, ends or changes, a failing statement or lost answer; line: two requests with a wish, two changes of the rows, one thing going wrong; rooms: one room, every kind of event | ConfirmedIsSo, LineFollowsRows, ShownIsSo, TimeIsCounted, ListCatchesUp | a confirmed wish is so unless the phone system changed by itself; the line has in the end what the rows ask for; the panel shows the rows in the end; time on shift is counted, of whoever is not left off; the list of rooms agrees with the server's |

`panel_press` finds a violation, see
[disagreements](#disagreements-between-the-code-and-what-is-said-of-it). The type
invariants of Outbox, Inbound and Ticket are proved, so no run repeats them; every
other module states its own (`PhoneTypeOK`, `FloorTypeOK`, ...), which hold on the
instances above.

**Bounds.** Every property relates at most two messages of one conversation, two
agents or two workers, so two of each let every pair of steps interleave; in
`ticket_closing` the second ticket is the one after a closing and the one a chatbot
may start on. One stop or crash, one failing statement and
one lost answer per run may fall between any two steps; a second one meets the
state the first one's recovery leaves, which is a state the runs visit anyway
(`inbound_jobs` has two failures: a renewal that fails and a mark that fails).
MaxTries and the other limits of the code (6 sends, 8 tries of a notice, 5 of
a job) are constants, set to 1 or 2 so that giving up happens. `ticket_live`
needs one agent only, because liveness asks whether somebody gets a ticket.
In the panel the properties relate one call, conversation, room or form to what
its requests and events bring, so one of each is enough, with two where one must
not be taken for the other (calls on a line, customers, tabs, people on one
browser, texts) and as many requests under way as may cross (two, three where a
later one overtakes two). `MCPhone`: one fault of the line, one stop, one reload,
one press and one accident, each free to fall between any two steps. `agent_day`:
the queue's hazard is one wish overtaking another, so two requests and two
changes; `MaxFailures` and `MaxTroubles` are 1, a look away from the team chat
counts as one of its moves. Deadlock is not checked: with budgets used up and nothing to do, the system
rests.

**Fairness.** The specifications without fairness promise only safety. FairSpec
adds: each worker's loop takes its next step (weak fairness, the loops end only
with the process); a retry's pause, a job's silent claim and a notice's back-off
end (they are times in the past sooner or later); a cancelled context reaches
the worker; a stopped server is started again (systemd, `Restart=always`). In
Ticket, requests and rules that began go on, and the sweep of the pool finds
somebody free again and again (strong fairness of HandOut for the clock): without
an assumption on people no ticket is ever handed out. Nothing is assumed of
Meta, of customers, or of agents pressing anything.

In the panel: timers fire and events that came are handled (weak fairness). The
line's fairness (LineFair) is that the phone system answers or a wait runs out, and
that the watchdog and the retries tick, nothing of agents. SessionFair: a server
that is down is up again and again, so a request is served if it is asked for again
and again (strong fairness of Serve and Renew). RoomListFair: the 30 seconds' clock
ticks, and not every overview is lost for ever. FloorFair: requests go on and both
polls tick, every 20 and 60 seconds. DndFair: the phone system answers, or the
send's 15 seconds run out; it takes in the end what it still has to take; and it
says again and again whether the extension is disturbed: while the extension
talks or is not registered its reports say nothing. Failures are bounded, not fair.

**Faults in BotLetsGo.** A failure (or crash) between SetTicketBot and
StartBotSession leaves a ticket marked as the chatbot's without a flow; neither
the pool nor the clock looks at it until the customer writes again. The
property says so (`faults + downs > 0`) instead of pretending otherwise.

**What the properties leave out, because the code does not do it.** TypedIsKept:
fields that follow the record or are read again with the list, a form that clears
itself when it fails, and answers to what was asked before the text was typed: by an
earlier opening, by a save of an older text, or by a card that was still being read
(`Settings.tsx:232-242`, `340-350`). Closing a window or pressing a button of the
user's form that closes it is to give the text up. EachStepOnce: a step whose answer
was lost is shown again with the token the server took, and is refused until the
person goes back to the password. StepOncePerMark: one more run for each time the
job was taken from a live worker. ComesBackCounted: a flow that starts for a message
read before (`bot.go:215`). TimeIsCounted: an agent on shift left `off`, of whom the
table takes no stretch (`migrations/00006_presence_events.sql:7-8`). ListSettles: lists that take any answer, filters that cannot be
asked, further rows no one guards. EndsBeforeCut: waits that ran out of time, and ends
the server refuses for good, which are dropped (`callLogQueue.ts:78-81`).
EveryTalkIsAsked: a reload during the call. FacesAreTrue: an app whose own panel had
the line. ConfirmedIsSo: changes at the phone system the queue did not send.
DraftComesBack: a message sent from a composer that had left the screen, whose answer
clears the draft. NoTwins: a part sent before any message had loaded (`blind`): when its
event is lost and a later message's is not, an older page, which is joined to the screen
by ids only (`ChatPane.tsx:194-215`), brings the stored part while its own row waits for
the answer. The proof of NoTwins found this; the run's bound had hidden it.

## What is proved

TLAPS checks the theorems below for every value of the constants: any number of
messages, agents, workers, tabs or calls, any bound. What they assume is named with
them: `OutboxAssumption`, `InboundAssumption`, `TicketAssumption`,
`DoNotDisturbAssumption`, `FormsAssumption`, `ChatPaneAssumption` (a counter's limit or a page's length is
a natural number, there are finitely many follow-up workers, a worker is not a person, no part is none), `NoCallAssumption` and `NoAccount \notin Accounts` (nobody is not
somebody), and a finite set of conversations in `RowsGoForward`. Two theorems cover
less than every instance, since the code does not do more (see
[disagreements](#disagreements-between-the-code-and-what-is-said-of-it)):
`ResponsibleIsOwner` (no assign_user rule) and `NoCallIsCut` (at most two tabs).

Few of these properties are inductive. For each, the invariant that is, and why it
takes more:

**OutboxProofs**

- `NeverSentTwice`: AcceptedWithinOrders. That Meta accepts a message once more must
  be impossible afterwards. `Orders` counts `OpenTries(m)`, one for a row that may
  be taken and one for a message in the worker's hands whose call is to come, and
  shows `accepted + OpenTries <= 1 + retries + lost`. Taking moves the try from the
  row to the hands, accepting uses it up, and only a retry or a lost answer makes a
  new one. `HandsOK` is part of the type invariant.
- `SendingHeld`: SendingIsHeld, with `InHands`: while the server is down the worker
  is before its start, where stale rows are flagged, and a worker that begins a batch
  has settled the last one.
- `SentInOrder`: InOrder, with `InTurn`: what the worker holds was written
  before, so an earlier message that is queued behind it was committed late.
- `NoneStranded`: NoStrandedStatus, with `Reported` (reports are of an accepted send, the
  webhook worker looks at its notice's message) and `Cared` (whoever wrote second is
  on the way to the other's status). This is the argument for the second look of
  onStatus.
- `SentIsOut`: SentStaysOut, an action property, from InHands and the guards of the
  six steps that write `status`.

**InboundProofs**

- `StepsOnce`: StepOncePerMark. That a claim is one conditional statement does not
  keep two workers apart, since it lapses under a live one, so the proof counts.
  `Manned`: the workers that have a job are no more than one and the times it was
  taken from one. `Unmarked`: until a step is marked, each run of it was cut off or is
  about to be marked. `Bounded`: the runs there were and those that workers may yet
  begin are no more than one, the runs cut off and the takings-over. Each step of one
  worker changes these sets by one element (`OneMoves`, `CrewRoom`, `Balance`).
- `WorkedInTurn`: OneAfterAnother, with `Turns`: what a worker has in hand has no older
  message that waits, now and later, because a message stored later is a newer one.
- `WorkKept`: WorkIsKept, with `Kept`: the steps a worker counts as done, and those
  marked, have run; who finishes a job has run all of them or gives it up.
- `HandledStored`: HandledIsStored, with `Handled`: the notice the webhook worker is
  about to mark has its message stored.

**TicketProofs and TicketCareProofs**

- `ToldIsOwner`: ToldOwns. Every step changes the owner and who was told together
  (`OwnerTold`): an unowned ticket is given to one person, or a ticket is handed over
  and the others are told. `GivesToSomeone`: a hand-over in progress names an agent.
- `OnlyWaitingListed`, `ClosedWasSeen`, `ResponsibleIsOwner`, `WaitingIsUnanswered`,
  `ReopeningsCounted` share `CareInv`: `Opened` (a ticket that was not opened has no row,
  `Fresh`; nobody works on one, `Behind`; a busy follow-up worker has a job, `Busy`),
  `Counted` (only stored messages are waited for or answered), `OnBots` (only a ticket
  a chatbot may start on is its, and is in a flow's hands) and `RuleFree` (without the
  assign_user rule none is about to assign).
  The stale reads are the matter: ClosedWasSeen holds because the closing statement
  compares the row with what was seen, WaitingIsUnanswered because each statement
  that stops the clock does it for the message it answers.

**PhoneProofs and BrowserProofs**

- `ConfirmedIsTrue`: ConfirmedIsSo, with `OneSend` (while a send is under way no wish is
  confirmed, and a send that is still the latest brings the wish) and `TakenIsSo` (what
  the phone system took it has until something else changes it). A late answer is of an
  older number and confirms nothing.
- `PhoneTypeCorrect`, `FaceHasCall` (CallFaceHasCall): the awaits that return for a
  call that is over find its state changed; TypeOK carries the states.
- `PhoneKeepsRecord`: CallRecords, the refinement. Every step of PhoneNext is a step
  of CallRecord or leaves `record` alone; `LogIsOpen` says that a call the library does
  not have was never told and that the call the refs name is open in the log, so that
  answering and closing it is allowed.
- `NoCallIsCut`: EndsBeforeCut with two tabs, from `Words` (a tab hears of the
  other tabs only, and asks under a number it used for no question before) and
  `HangUps` (what it asked to be hung up is in the hands of the tab it asked until the
  answer comes, and stored or sent by then).
- `TalksAreAsked`, `OneCardEach`: EveryTalkIsAsked, with `DoneIsStored` (a call
  marked done has something stored), `LengthIsOfTheOver` and `CardsAreOfTheOver` (a
  card is of a call that is over, and a call has one card): removing the head of the
  cards is right only because no call has two.
- `FacesTold`: FacesAreTrue, from what each listener has heard or has still to hear.
  `WorkerIsTold`: the last word on its way to the worker is the face of the tab, and a
  worker with nothing to hear holds that face or, restarted, none. `AppIsTold`: the
  app without a socket ends up with a face that has no button, and otherwise, while its
  own panel never had the line, with a true one (with the worker's socket once the
  worker heard all). `OwnIsMixed`: only a panel with the line has a socket.
  `RingsInSight` is inductive by itself.

**PagesProofs**

- `EndsKept`, `NobodyIsDropped`: one invariant, `AllGoesOn`: while the server ended no
  session, there is the first one only, every open tab shows its person, every
  request is of it, and a renewal that says it ended cannot come about.
- `StepsAreNew`: EachStepOnce, with `OneThingAsked` (while the password is checked no
  step's token is held), `UsedIsBehind` (the page never clears an older token; one it was
  told is taken stays behind the newer screen), `WasTold` (every token it holds but the
  screen's it was told is taken) and `Fits` (the answer under way fits the screen, and
  a demand brings a token the page has not heard of). Lost answers and stray calls
  change only the server's side (`ServerSteps`).
- `RowsGoForward`: NeverBack, an action property; `InboxRows` says that whatever is
  stored, shown, answered or on its way has a version, and each way into the list
  compares it.
- `TypedStays`: TypedIsKept, over all forms at once. The property names the answers
  that may overwrite a text (`late`), so it is inductive with `SavedIsStored`, by which an
  answer that closes the form or shows what was saved comes after the storing: an
  answer of this opening to a save of this text finds it stored, and any other is late.
- `ListsSettle`: ListSettles, over all lists at once. `ReadsWhatIsAsked`: a reading that
  counts, by whichever rule the list counts answers, is of what the screen asks.
  `ScreenIsDue` and `LoadingIsAsked`: as long as the rows are not those, or the list
  loads, such a reading is under way, or the list is held back until typing rests, or
  it shows an error. `PartsFit` says it of further pages and `ActsAreDue` of pressed
  buttons. `WellMade` is what the argument needs of a list (a button that is read again
  after success has a list that can tell its answers apart, and so on), and
  `ListsAreWellMade` that each list of the panel is.

**ChatProofs**

- `DraftReturns`: DraftComesBack, an action property. `DraftWaits`: while a message is
  edited the kept draft is the one from before, whatever is typed, and a composer that
  left the screen edits nothing; whichever step ends an edit then puts that draft into
  the box.
- `ShownOnce`: NoTwins. `LogIsTrue` says that a try is stored once, `PagesAreTrue` that
  pages and events hold messages of the log, `PaneIsTrue` that a row without an id is the
  part under way and any other a stored message with its try. The matter is a part whose
  row waits for the answer while the server has the part: a merge finds the row by its
  client id, but an older page does not look at it. It cannot bring the part, for some
  stored row on the screen is older than the part (the second half of `PaneIsTrue`),
  and the page ends before that row (`PagesAreTrue`). That row comes with the screen
  the part was written on, hence the exception for a blind send. `MergeTrue` and
  `MergeAllTrue` are the lemmas of merging one message and several; the latter needs
  that the recursive function in MergeAll exists and an induction over its numbers,
  which `Counting` gives from the library's least-element theorem.

Further, the type invariants of Outbox, Inbound and Ticket (`OutboxTypeCorrect`,
`InboundTypeCorrect`, `TicketTypeCorrect`). Each proof has one step per action; the
type proof of Ticket is split by group of variables (rows, conversation and jobs,
hands, history), each with a lemma per group of actors.

Only model-checked:

- the liveness properties (QueuedIsSettled, NoticesSettled, WorkEnds, PoolIsHandedOut,
  BotLetsGo, LineComesBack, EveryTabStarts, LineFollowsRows, ShownIsSo, TimeIsCounted,
  ListCatchesUp), which need fairness and ENABLED, out of the prover's reach.

Every invariant and every action property of a passing run is proved.

## Disagreements between the code and what is said of it

The run `panel_press` checks a comment of the code and finds it violated; the
finding is in PROJECT.json. `main.cjs:384` sends every press of the app "also to
bridgeServer (for external browser connections)", but the app's own panel opens
that socket too (`extensionBridge.ts:115-138`): it runs the press twice, and mute
or hold toggles back.

The other configurations below are not runs of PROJECT.json; each is checked with
the module of the same row, and TLC stops at the property named. Rows in brackets
have no file: they give the module and its constants.

| Configuration | Property | What is said | What the code does |
|---|---|---|---|
| `MCOutboxTicks.cfg` (MCOutbox) | StatusNeverBack | ticks "never move backwards" (DESIGN.md, applyStatus) | two goroutines decide on copies of a row and write unconditionally |
| `MCOutboxRequeued.cfg` (MCOutbox) | QueueLeftBySending | a queued message leaves the queue by being sent | it keeps the earlier id; a late `sent` of that id takes it out |
| `MCInboundOrder.cfg` (MCInbound) | HandledAsTheyCame | messages "are handled in the order they came" | a notice that fails once is put off and later ones overtake it |
| `MCTicketLateBot.cfg` (MCTicket) | OnlyCounted | only the customer, a template or a person brings a resolved ticket back | SetTicketBot does too when an agent closes between the routing's read and the statement |
| `MCTicketClock.cfg` (MCTicket) | PersonsChatNotTimedOut | "a ticket a person already has is never closed by the chatbot's clock" | Take leaves the state `bot`, so it is |
| `FloorAccrues.cfg` (Floor) | NothingAccrues | "nothing accrues off shift" (`verimor/service.go:1161`), "so no time accrues while off shift" (`verimor/repository.go:88`) | a change or a poll that read the shift before its end opens a stretch after it |
| `FloorBack.cfg` (Floor) | BackOnFloor | a start "puts the agent back on the floor" (`verimor/service.go:151`) | the end before it is told after it: off and not disturbed, on shift, and no stretch runs until the agent chooses a state |
| (Forms: one text, one visit, nothing else) | AsksBeforeLoss | closing "asks first so unsaved changes are not lost by accident" (`ui.tsx:197-199`) | not while a save is under way that then fails |
| `InboxMissed.cfg` (Inbox) | NothingMissed | "so nothing is missed" (`WhatsAppContext.tsx:5-6`) | a failed first load with an event, or a late answer without versions, hides a change |
| `SessionRight.cfg` (Session) | RightSession | ends are sent in their own session (`callLogQueue.ts:7-10`) | the first tab may send them with the next person's cookie |
| `ChatPaneBack.cfg` (ChatPane) | HandedBackDidNotGo | "hand back only what did not go" (`ChatPane.tsx:305`) | a message whose answer was lost is handed back |
| `ChatPaneUnseen.cfg` (ChatPane) | UnseenKeepsOpen | an unseen message "keeps the chat open" (`util.ts:231-233`) | a message beyond the loaded page counts as seen |
| (Room: as in `MCPhone.cfg`, no files, two sends) | DraftIsThere | the draft "is there again on return, until it is sent" (`teams/drafts.ts:1-4`) | the answer to an earlier visit's send clears it |
| `TabsOneLine.cfg` (Tabs) | OneLine | "a single tab owns the line" (`SoftphoneContext.tsx`) | an older request for the lock is granted late |
| (AfterCall: three calls, two numbers, no reload) | EntryIsOfItsCall | the form follows the live call | a save answered late stores the next customer's entry under the old call |

Two more came out of proofs that failed and are stated nowhere in the code's own
words as an invariant, but contradict a comment:

- "One call at a time" (`useSoftphone.ts:552`): the `catch` of `call`
  (`useSoftphone.ts:617-622`) and the Terminated handler of another session clear the
  refs of the call that is on. With three calls and no fault Softphone then tells the
  log two answers of one call; CallRecord therefore allows it.
- Taking over "asks the tabs with a live call to hang up and send the call's end, and
  waits for them (or until the time is up)" (`tabPhone.ts:91-92`): with three tabs, of
  which two carry a call because the lock was taken over, the first answer ends the
  wait for both (`tabPhone.ts:93-101`, `148-150`). Checking Tabs with three tabs and
  two calls violates EndsBeforeCut; `NoCallIsCut` is therefore about two tabs.

Stated in their modules without a configuration: `ReadyIsAccepted` (Softphone: the
screen may say "ready" before the latest registration is accepted) and `NothingIsLost`
(ChatPane, `Composer.tsx:165`).

Met while modelling, beyond the listed hazards:

- The assign_user rule lists a second responsible person (RoleIsOwner is checked
  without that rule); botToHuman starts the waiting clock of a customer answered
  meanwhile (AwaitingIsUnanswered is about tickets no chatbot takes).
- A crash between taking pending statuses and applying them
  (`store/messages.go:235`), or between storing a survey score's message and the
  score (`inbound.go:304`), loses them. A start of a shift whose presence could not
  be written leaves the agent off until they choose a state
  (`verimor/service.go:155`).
- Two hand-overs at once may both pass the limit of open chats (`tickets.go:68`),
  and the sweep of the pool gives up a device when nobody of the first ticket's team
  is free (`tickets.go:724`).
- Calls of 7.5 to 8 seconds fall between the wrap-up card and the prompt.
- A step of signing in whose answer is lost stays on the screen with a token the
  server took: trying again is refused, and only going back to the password helps
  (`MfaChallenge.tsx:54-60`, `MfaEnroll.tsx:69-73`, `PasswordChange.tsx:60-66`).
- Some settings cards overwrite typed text when the record is read (again); toggles
  send what the page last read; loading more rows is unguarded on some lists; UserForm
  and the profile save in several requests of which a later one may fail.
- The summary of the day closes after a failed end of the shift, because the context
  keeps the error to itself (`DaySummary.tsx:49-55`).

## What is left out

- Contents: texts, media, templates, variables, prices, colours and layout. No
  property depends on them.
- Permissions and visibility: agents in the models have every permission.
- The number of tickets a person may have, the order of the pool and teams need
  several conversations; several extensions sharing the pace of the do-not-disturb
  queue are one extension that may wait for any time.
- Several panels of one agent in Floor: one panel, and the evening's sweep, change
  the rows.
- Of the phone: mute, keypad, transfer, devices and volumes; of the conversations:
  reactions, pins, receipts, search hits, media players; of the app: updater, popup,
  the frame's cookie and redirects.
- Games, the chatbot's drawing board and routing of the panel.
- At the server: sessions and lockout (of which SignIn has the tokens of the steps
  and their wrong codes only), the mirror of calls, reminders, the hub of
  the team chat, call surveys, backups, rewrapping of keys. They are not modelled yet
  or, as the settings and reports, have little that steps race for; PROJECT.json
  gives the reason for each.
- Reading failures that end a request with an error before it changed anything
  are the request not being made.
- A second server process: the code assumes there is one.

## Plan

Done: the WhatsApp side of the server (Outbox, Inbound, Ticket), the agent's day
(Floor, DoNotDisturb), and the panel with its app and extension.

Proved: every safety property of the server's runs, and of the panel the phone, its
tabs, the cards after a call, the small phones outside the tab, the session, sign in,
the inbox, the open conversation, a room's composer, the forms and the lists.

For proof: the type invariants of the panel's modules beside Softphone's, and action
properties of the server beside SentStaysOut.

To model after that: the pool across conversations with its limits, sessions and
lockout at the server, reminders and call surveys, backups and rewrapping.

## Running

    tlc -workers 2 -config MCTicketHands.cfg MCTicket
    tlc -workers 2 -config FloorBack.cfg Floor
    tlapm TicketProofs.tla

PROJECT.json lists the runs with their configurations, which source lines each
definition stands for, mutations of the code that each property detects, and
the theorems.
