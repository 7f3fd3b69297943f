--------------------------------- MODULE Tabs ---------------------------------
(***************************************************************************)
(* The panel's tabs of one browser: who holds the phone line (a Web Lock),  *)
(* what the tabs tell each other about a live call, and the two acts that   *)
(* would cut it, signing out and taking the line over.                      *)
(*                                                                          *)
(* Each tab's request for the lock is <<tab, number>>; a request whose      *)
(* promise is settled (spent) lets the lock go the moment it is granted.    *)
(* A tab's phone is only whether it carries a call; Softphone has the rest. *)
(*                                                                          *)
(* Bounds: Calls are the calls of one run, a tab is opened at most          *)
(* MaxOpens times, and takes over or signs out at most MaxTakes times.      *)
(***************************************************************************)
EXTENDS PanelNames, Naturals, Sequences, FiniteSets

CONSTANTS NoRequest, MaxOpens, MaxTakes

VARIABLES
  tabs, opens, takes,  \* the open tabs; how often each was opened, took over or left
  granted, waiting,    \* the lock's holder and its queue
  newest,              \* the number of each tab's newest request
  spent,               \* requests whose promise is settled
  aborted,             \* requests the browser took the lock from, not told yet
  leader,              \* the tabs that run the phone
  call,                \* the call a tab's phone carries
  toSend, kept, sent,  \* ends of calls on their way, stored after a failure, at the server
  refused,             \* ends the server refused for good: forgotten, not sent again
  inbox,               \* messages of the channel not read yet
  carriers,            \* the tabs a tab believes to carry a call
  ending,              \* the questions a tab is hanging up for
  task,                \* "none", "taking", "hanging", "asking", "settling" or "out"
  confirmed, hungUp,   \* the hang-up was confirmed; the calls that were to be hung up
  gaveUp               \* some wait ran out of time

lock == <<granted, waiting, newest, spent, aborted>>
words == <<inbox, carriers>>
acts == <<ending, task, confirmed, hungUp, gaveUp>>
ends == <<toSend, kept, sent, refused>>
tabVars == <<tabs, opens, takes, lock, leader, call, ends, words, acts>>

Requests == Tabs \X (0 .. MaxOpens + MaxTakes)
Live(t) == call[t] # NoCall
NewCalls == Calls \ (sent \cup kept \cup refused \cup UNION {toSend[t] : t \in Tabs} \cup {call[t] : t \in Tabs})

TabsTypeOK ==
  /\ tabs \subseteq Tabs /\ leader \subseteq tabs
  /\ granted \in Requests \cup {NoRequest}
  /\ \A i \in DOMAIN waiting : waiting[i] \in Requests
  /\ spent \cup aborted \subseteq Requests
  /\ call \in [Tabs -> Calls \cup {NoCall}]
  /\ toSend \in [Tabs -> SUBSET Calls] /\ kept \cup sent \cup refused \subseteq Calls
  /\ carriers \in [Tabs -> SUBSET Tabs] /\ ending \in [Tabs -> SUBSET Requests]
  /\ task \in [Tabs -> {"none", "taking", "hanging", "asking", "settling", "out"}]

TabsInit ==
  /\ tabs = {} /\ opens = [t \in Tabs |-> 0] /\ takes = [t \in Tabs |-> 0]
  /\ granted = NoRequest /\ waiting = <<>> /\ newest = [t \in Tabs |-> 0] /\ spent = {} /\ aborted = {}
  /\ leader = {} /\ call = [t \in Tabs |-> NoCall]
  /\ toSend = [t \in Tabs |-> {}] /\ kept = {} /\ sent = {} /\ refused = {}
  /\ inbox = [t \in Tabs |-> <<>>] /\ carriers = [t \in Tabs |-> {}]
  /\ ending = [t \in Tabs |-> {}] /\ task = [t \in Tabs |-> "none"]
  /\ confirmed = {} /\ hungUp = [t \in Tabs |-> {}] /\ gaveUp = FALSE

\* post: every other open tab gets the message, in the order they are posted.
Post(t, kind, arg) ==
  inbox' = [u \in Tabs |-> IF u \in tabs \ {t} THEN Append(inbox[u], [kind |-> kind, from |-> t, arg |-> arg])
                           ELSE inbox[u]]
SayState(t, live) == Post(t, "state", live)

---------------------------------------------------------------------------
(* The line: useLeader. *)

\* hold(false) as the tab opens: it waits its turn, and asks how the others do.
Open(t) ==
  /\ t \notin tabs /\ opens[t] < MaxOpens
  /\ tabs' = tabs \cup {t} /\ opens' = [opens EXCEPT ![t] = @ + 1]
  /\ newest' = [newest EXCEPT ![t] = @ + 1] /\ waiting' = Append(waiting, <<t, newest[t] + 1>>)
  /\ Post(t, "ask", TRUE)
  /\ UNCHANGED <<takes, granted, spent, aborted, leader, call, ends, carriers, acts>>

\* The browser grants the lock: the callback makes the tab the leader, and lets
\* go of the lock at once when the request's promise was settled before.
Grant ==
  /\ granted = NoRequest /\ waiting # <<>>
  /\ LET r == Head(waiting) IN
       /\ leader' = leader \cup {r[1]}
       /\ granted' = IF r \in spent THEN NoRequest ELSE r
  /\ waiting' = Tail(waiting)
  /\ UNCHANGED <<tabs, opens, takes, newest, spent, aborted, call, ends, words, acts>>

\* hold(true): the tab settles its newest request and takes the lock from
\* whoever has it; an older request of its own stays in the queue.
Steal(t) ==
  LET mine == <<t, newest[t]>>
      next == <<t, newest[t] + 1>> IN
  /\ spent' = spent \cup {mine}
  /\ newest' = [newest EXCEPT ![t] = @ + 1]
  /\ aborted' = IF granted \in {NoRequest, mine} THEN aborted ELSE aborted \cup {granted}
  /\ granted' = next
  /\ leader' = leader \cup {t}
  /\ UNCHANGED waiting

\* The tab that lost the lock steps down: its phone stops and the call with it.
Aborted(t) ==
  /\ \E r \in aborted : r[1] = t /\ aborted' = aborted \ {r}
  /\ leader' = leader \ {t}
  /\ call' = [call EXCEPT ![t] = NoCall]
  /\ toSend' = [toSend EXCEPT ![t] = @ \cup ({call[t]} \ {NoCall})]
  /\ IF Live(t) THEN SayState(t, FALSE) ELSE UNCHANGED inbox
  /\ UNCHANGED <<tabs, opens, takes, granted, waiting, newest, spent, kept, sent, refused, carriers, acts>>

\* A tab is closed: the browser drops its requests, a beacon reports its call
\* and the sends it had on their way stay stored.
Close(t) ==
  /\ t \in tabs /\ tabs' = tabs \ {t} /\ leader' = leader \ {t}
  /\ granted' = IF granted # NoRequest /\ granted[1] = t THEN NoRequest ELSE granted
  /\ waiting' = SelectSeq(waiting, LAMBDA r : r[1] # t)
  /\ aborted' = {r \in aborted : r[1] # t}
  /\ sent' = sent \cup ({call[t]} \ {NoCall}) /\ kept' = kept \cup toSend[t]
  /\ call' = [call EXCEPT ![t] = NoCall] /\ toSend' = [toSend EXCEPT ![t] = {}]
  /\ inbox' = [u \in Tabs |-> IF u = t THEN <<>>
                              ELSE IF u \in tabs THEN Append(inbox[u], [kind |-> "gone", from |-> t, arg |-> TRUE])
                              ELSE inbox[u]]
  /\ carriers' = [carriers EXCEPT ![t] = {}] /\ ending' = [ending EXCEPT ![t] = {}]
  /\ task' = [task EXCEPT ![t] = "none"] /\ confirmed' = confirmed \ {t} /\ hungUp' = [hungUp EXCEPT ![t] = {}]
  /\ UNCHANGED <<opens, takes, newest, spent, refused, gaveUp>>

---------------------------------------------------------------------------
(* The phone of a tab, and the ends of its calls. *)

CallBegins(t) ==
  /\ t \in leader /\ ~Live(t) /\ NewCalls # {}
  /\ call' = [call EXCEPT ![t] = CHOOSE c \in NewCalls : TRUE]
  /\ SayState(t, TRUE)
  /\ UNCHANGED <<tabs, opens, takes, lock, leader, ends, carriers, acts>>

CallEnds(t) ==
  /\ t \in tabs /\ Live(t)
  /\ call' = [call EXCEPT ![t] = NoCall] /\ toSend' = [toSend EXCEPT ![t] = @ \cup {call[t]}]
  /\ SayState(t, FALSE)
  /\ UNCHANGED <<tabs, opens, takes, lock, leader, kept, sent, refused, carriers, acts>>

\* The send is answered: taken; failed, so that it stays stored and is tried again;
\* or refused for good (a 4xx other than 401, 408 and 429), and the copy is dropped.
EndAnswered(t) ==
  /\ toSend[t] # {} /\ toSend' = [toSend EXCEPT ![t] = {}]
  /\ \/ sent' = sent \cup toSend[t] /\ UNCHANGED <<kept, refused>>
     \/ kept' = kept \cup toSend[t] /\ UNCHANGED <<sent, refused>>
     \/ refused' = refused \cup toSend[t] /\ UNCHANGED <<kept, sent>>
  /\ UNCHANGED <<tabs, opens, takes, lock, leader, call, words, acts>>

---------------------------------------------------------------------------
(* The conversation of the tabs: TabPhone.receive. *)

Receive(t) ==
  /\ inbox[t] # <<>>
  /\ LET m == Head(inbox[t])
         rest == [inbox EXCEPT ![t] = Tail(@)] IN
       \/ /\ m.kind = "state" /\ inbox' = rest /\ UNCHANGED <<ending, confirmed>>
          /\ carriers' = [carriers EXCEPT ![t] = IF m.arg THEN @ \cup {m.from} ELSE @ \ {m.from}]
       \/ /\ m.kind = "gone" /\ inbox' = rest /\ UNCHANGED <<ending, confirmed>>
          /\ carriers' = [carriers EXCEPT ![t] = @ \ {m.from}]
       \/ /\ m.kind = "ask" /\ UNCHANGED <<carriers, ending, confirmed>>
          /\ inbox' = [u \in Tabs |-> IF u \in tabs \ {t}
                                      THEN Append(rest[u], [kind |-> "state", from |-> t, arg |-> Live(t)])
                                      ELSE rest[u]]
       \/ /\ m.kind = "end" /\ inbox' = rest /\ UNCHANGED <<carriers, confirmed>>
          /\ ending' = IF Live(t) THEN [ending EXCEPT ![t] = @ \cup {m.arg}] ELSE ending
       \/ /\ m.kind = "ended" /\ inbox' = rest /\ UNCHANGED ending
          /\ carriers' = [carriers EXCEPT ![t] = @ \ {m.from}]
          /\ confirmed' = IF m.arg = <<t, takes[t]>> /\ task[t] \in {"taking", "asking"} THEN confirmed \cup {t}
                          ELSE confirmed
  /\ UNCHANGED <<tabs, opens, takes, lock, leader, call, ends, task, hungUp, gaveUp>>

\* A tab not heard of for STALE_MS (its heartbeats stopped) counts as gone.
GoesStale(t) ==
  /\ carriers[t] \ tabs # {} /\ carriers' = [carriers EXCEPT ![t] = @ \cap tabs]
  /\ UNCHANGED <<tabs, opens, takes, lock, leader, call, ends, inbox, acts>>

\* A mutant of Settled: the call is over, its end may still be on its way.
SettledUnsent(t) == ~Live(t)

\* endLocal: the call is over and its end sent, or a wait ran out (2 s, then 4 s).
Settled(t) == ~Live(t) /\ toSend[t] = {}

EndedForOther(t) ==
  /\ ending[t] # {}
  /\ \E id \in ending[t] :
       /\ Post(t, "ended", id) /\ ending' = [ending EXCEPT ![t] = @ \ {id}]
  /\ \/ Settled(t) /\ UNCHANGED gaveUp
     \/ ~Settled(t) /\ gaveUp' = TRUE
  /\ UNCHANGED <<tabs, opens, takes, lock, leader, call, ends, carriers, task, confirmed, hungUp>>

---------------------------------------------------------------------------
(* Taking the line over, and signing out. *)

\* endElsewhere asks only when it knows of a call live in another tab.
AskOthers(t) ==
  /\ confirmed' = confirmed \ {t}
  /\ hungUp' = [hungUp EXCEPT ![t] = @ \cup ({call[u] : u \in carriers[t]} \ {NoCall})]
  /\ Post(t, "end", <<t, takes'[t]>>)

TakeOver(t) ==
  /\ t \in tabs \ leader /\ task[t] = "none" /\ takes[t] < MaxTakes
  /\ takes' = [takes EXCEPT ![t] = @ + 1]
  /\ IF carriers[t] = {}
     THEN Steal(t) /\ UNCHANGED <<task, confirmed, hungUp, inbox>>
     ELSE task' = [task EXCEPT ![t] = "taking"] /\ AskOthers(t) /\ UNCHANGED <<lock, leader>>
  /\ UNCHANGED <<tabs, opens, call, ends, carriers, ending, gaveUp>>

\* The wait ends with the answer or after five seconds.
Waited(t) == (t \in confirmed /\ UNCHANGED gaveUp) \/ (t \notin confirmed /\ gaveUp' = TRUE)

TakeOverNow(t) ==
  /\ task[t] = "taking" /\ Waited(t) /\ Steal(t) /\ task' = [task EXCEPT ![t] = "none"]
  /\ hungUp' = [hungUp EXCEPT ![t] = {}]
  /\ UNCHANGED <<tabs, opens, takes, call, ends, words, ending, confirmed>>

\* leave(): what is live here and elsewhere is taken from the screen.
Leave(t) ==
  /\ t \in tabs /\ task[t] = "none" /\ takes[t] < MaxTakes
  /\ takes' = [takes EXCEPT ![t] = @ + 1]
  /\ IF Live(t)
     THEN task' = [task EXCEPT ![t] = "hanging"] /\ hungUp' = [hungUp EXCEPT ![t] = {call[t]}]
          /\ UNCHANGED <<confirmed, inbox>>
     ELSE IF carriers[t] # {}
     THEN task' = [task EXCEPT ![t] = "asking"] /\ AskOthers(t)
     ELSE task' = [task EXCEPT ![t] = "settling"] /\ UNCHANGED <<confirmed, hungUp, inbox>>
  /\ UNCHANGED <<tabs, opens, lock, leader, call, ends, carriers, ending, gaveUp>>

HungUpHere(t) ==
  /\ task[t] = "hanging" /\ UNCHANGED takes
  /\ IF carriers[t] = {}
     THEN task' = [task EXCEPT ![t] = "settling"] /\ UNCHANGED <<confirmed, hungUp, inbox>>
     ELSE task' = [task EXCEPT ![t] = "asking"] /\ AskOthers(t)
  /\ \/ Settled(t) /\ UNCHANGED gaveUp
     \/ ~Settled(t) /\ gaveUp' = TRUE
  /\ UNCHANGED <<tabs, opens, lock, leader, call, ends, carriers, ending>>

HungUpElsewhere(t) ==
  /\ task[t] = "asking" /\ Waited(t) /\ task' = [task EXCEPT ![t] = "settling"]
  /\ UNCHANGED <<tabs, opens, takes, lock, leader, call, ends, words, ending, confirmed, hungUp>>

\* What this tab has on its way is waited for, then the session is closed, or
\* stays open when the server could not be told.
SignOut(t) ==
  /\ task[t] = "settling"
  /\ \/ task' = [task EXCEPT ![t] = "out"] /\ UNCHANGED hungUp
     \/ task' = [task EXCEPT ![t] = "none"] /\ hungUp' = [hungUp EXCEPT ![t] = {}]
  /\ \/ toSend[t] = {} /\ UNCHANGED gaveUp
     \/ toSend[t] # {} /\ gaveUp' = TRUE
  /\ UNCHANGED <<tabs, opens, takes, lock, leader, call, ends, words, ending, confirmed>>

TabsNext ==
  /\ \A t \in Tabs : task[t] # "out"
  /\ \/ Grant
     \/ \E t \in Tabs :
          \/ Aborted(t) \/ Open(t) \/ Close(t) \/ CallBegins(t) \/ CallEnds(t) \/ EndAnswered(t)
          \/ Receive(t) \/ GoesStale(t) \/ EndedForOther(t)
          \/ TakeOver(t) \/ TakeOverNow(t)
          \/ Leave(t) \/ HungUpHere(t) \/ HungUpElsewhere(t) \/ SignOut(t)
TabsSpec == TabsInit /\ [][TabsNext]_tabVars

---------------------------------------------------------------------------
(* Properties. *)

\* Signing out and taking over lose no call: the calls a tab asked to be hung up
\* are over and their ends are at the server, or refused by it for good, or stored
\* to be sent again, unless a wait ran out of time.
EndsBeforeCut ==
  \A t \in Tabs : (task[t] = "out" \/ (task[t] \in {"taking", "asking"} /\ t \in confirmed)) /\ ~gaveUp
                    => hungUp[t] \subseteq sent \cup kept \cup refused

\* The comment of useLeader: a single tab owns the line, so two tabs never fight
\* over the extension; a tab whose lock was taken steps down when it is told.
OneLine == Cardinality(leader) > 1 => aborted # {}
===============================================================================
