---------------------------- MODULE OutboxProofs ----------------------------
(* Proofs about Outbox, for every set of messages, conversation and bound. *)
EXTENDS Outbox, TLAPS

\* A goroutine past its first steps has a message of the system in hand.
HandsOK ==
    /\ pc["box"] \notin {"start", "idle", "batch"} => msg["box"] \in Messages
    /\ pc["hook"] # "idle" => msg["hook"] \in Messages /\ event \in Notices
    /\ \A t \in Threads : pc[t] = "catchUp" => tick[t] \in Ticks

TInv == TypeOK /\ HandsOK

\* The automatic tries still open: the row may be taken, or the worker has
\* it and the call to Meta is not made, or made and to be repeated.
OpenTries(m) ==
    (IF status[m] \in {"none", "queued"} THEN 1 ELSE 0) +
    (IF \/ m \in batch
        \/ msg["box"] = m /\ pc["box"] = "ask"
        \/ msg["box"] = m /\ pc["box"] = "write" /\ answer = "retryable"
     THEN 1 ELSE 0)

CurrentOut == pc["box"] \in {"ask", "write"} => msg["box"] \notin batch

Orders ==
    /\ CurrentOut
    /\ \A m \in Messages : accepted[m] + OpenTries(m) <= 1 + retries[m] + lost[m]

LEMMA TypeInit == ASSUME Init PROVE TInv
BY OutboxAssumption DEF Init, TInv, TypeOK, HandsOK, Statuses, Ticks, Threads,
    Places, Notices, NoEvent, NoMsg

USE DEF TInv, TypeOK, HandsOK, Statuses, Ticks, Threads, Places,
    NoMsg, row, thread, world, Goto

LEMMA TypeNext == ASSUME TInv, [Next]_vars PROVE TInv'
<1>1. CASE FlagStale BY <1>1, SMTT(30) DEF FlagStale
<1>2. CASE TakeDueMessages BY <1>2, SMTT(30) DEF TakeDueMessages, Takable
<1>3. CASE NextOfBatch
  <2>1. CASE Goto("box", "idle") /\ UNCHANGED <<msg, batch>>
    BY <1>3, <2>1 DEF NextOfBatch
  <2>2. ASSUME NEW m \in batch, msg' = [msg EXCEPT !["box"] = m], batch' = batch \ {m},
               Goto("box", "ask")
        PROVE  TInv'
    <3>1. m \in Messages OBVIOUS
    <3>2. msg' \in [Threads -> Messages \cup {NoMsg}] BY <2>2, <3>1
    <3>3. pc' \in [Threads -> Places] BY <2>2
    <3>4. HandsOK' BY <1>3, <2>2, <3>1 DEF NextOfBatch
    <3> QED BY <1>3, <2>2, <3>2, <3>3, <3>4 DEF NextOfBatch
  <2> QED BY <1>3, <2>1, <2>2 DEF NextOfBatch
<1>4. CASE RequeueBatch BY <1>4, SMTT(30) DEF RequeueBatch
<1>5. CASE Refused BY <1>5, SMTT(30) DEF Refused
<1>6. CASE Deferred BY <1>6, SMTT(30) DEF Deferred
<1>7. CASE MetaAccepts
  <2>1. msg["box"] \in Messages BY <1>7 DEF MetaAccepts
  <2>2. accepted' \in [Messages -> Nat]
    <3>1. accepted' = [accepted EXCEPT ![msg["box"]] = @ + 1] BY <1>7 DEF MetaAccepts
    <3>2. accepted \in [Messages -> Nat] BY DEF TypeOK
    <3> HIDE DEF TInv, TypeOK, HandsOK
    <3>3. accepted[msg["box"]] + 1 \in Nat BY <2>1, <3>2
    <3> QED BY <3>1, <3>2, <3>3
  <2>3. lost' \in [Messages -> Nat] BY <1>7, <2>1 DEF MetaAccepts
  <2>4. pc' \in [Threads -> Places] BY <1>7 DEF MetaAccepts
  <2>5. answer' \in {"ok", "retryable"} BY <1>7 DEF MetaAccepts
  <2>6. HandsOK' BY <1>7, <2>1 DEF MetaAccepts
  <2> QED BY <1>7, <2>2, <2>3, <2>4, <2>5, <2>6 DEF MetaAccepts
<1>8. CASE WriteOutcome
  <2> DEFINE m == msg["box"]
  <2>1. m \in Messages BY <1>8 DEF WriteOutcome
  <2>2. ASSUME NEW s \in Statuses, NEW d \in BOOLEAN, NEW w \in Nat, Outcome(m, s, d, w)
        PROVE  /\ status' \in [Messages -> Statuses] /\ attempts' \in [Messages -> Nat]
               /\ due' \in [Messages -> BOOLEAN] /\ wamid' \in [Messages -> Nat]
    BY <2>1, <2>2 DEF Outcome
  <2>3. /\ status' \in [Messages -> Statuses] /\ attempts' \in [Messages -> Nat]
        /\ due' \in [Messages -> BOOLEAN] /\ wamid' \in [Messages -> Nat]
    <3>1. due[m] \in BOOLEAN /\ wamid[m] \in Nat /\ accepted[m] \in Nat BY <2>1
    <3>2. \/ Outcome(m, "sent", due[m], accepted[m])
          \/ Outcome(m, "queued", FALSE, wamid[m])
          \/ Outcome(m, "failed", due[m], wamid[m])
      BY <1>8 DEF WriteOutcome
    <3> HIDE DEF m
    <3>3. CASE Outcome(m, "sent", due[m], accepted[m]) BY <3>1, <3>3, <2>2
    <3>4. CASE Outcome(m, "queued", FALSE, wamid[m]) BY <3>1, <3>4, <2>2
    <3>5. CASE Outcome(m, "failed", due[m], wamid[m]) BY <3>1, <3>5, <2>2
    <3> QED BY <3>2, <3>3, <3>4, <3>5
  <2>4. pc' \in [Threads -> Places] BY <1>8 DEF WriteOutcome
  <2>5. HandsOK' BY <1>8, <2>1 DEF WriteOutcome
  <2> QED BY <1>8, <2>3, <2>4, <2>5 DEF WriteOutcome
<1>9. CASE ReloadSent
  <2>1. msg["box"] \in Messages BY <1>9 DEF ReloadSent
  <2>2. seen' \in [Threads -> Statuses] BY <1>9, <2>1 DEF ReloadSent
  <2>3. pc' \in [Threads -> Places] BY <1>9 DEF ReloadSent
  <2>4. HandsOK' BY <1>9, <2>1 DEF ReloadSent
  <2> QED BY <1>9, <2>2, <2>3, <2>4 DEF ReloadSent
<1>10. CASE FlagStaleFault BY <1>10, SMTT(30) DEF FlagStaleFault
<1>25. CASE WriteOutcomeFault BY <1>25, SMTT(30) DEF WriteOutcomeFault
<1>26. CASE EventFault BY <1>26, SMTT(30) DEF EventFault
<1>11. ASSUME NEW e \in events, LookUp(e) PROVE TInv'
  <2>1. e \in Notices /\ e.m \in Messages /\ e.s \in Ticks \cup {"failed"}
    BY DEF Notices
  <2>2. msg' \in [Threads -> Messages \cup {NoMsg}] BY <1>11, <2>1 DEF LookUp
  <2>3. seen' \in [Threads -> Statuses]
    <3>1. seen' = seen \/ seen' = [seen EXCEPT !["hook"] = status[e.m]]
      BY <1>11 DEF LookUp
    <3>2. seen \in [Threads -> Statuses] /\ status[e.m] \in Statuses BY <2>1
    <3> HIDE DEF TInv
    <3> QED BY <3>1, <3>2
  <2>4. todo' \in [Threads -> SUBSET (Ticks \cup {"failed"})] BY <1>11, <2>1 DEF LookUp
  <2>5. pc' \in [Threads -> Places] BY <1>11 DEF LookUp
  <2>6. HandsOK' BY <1>11, <2>1 DEF LookUp
  <2> QED BY <1>11, <2>1, <2>2, <2>3, <2>4, <2>5, <2>6 DEF LookUp
<1>12. CASE KeepPending BY <1>12, SMTT(30) DEF KeepPending
<1>13. CASE LookAgain
  <2>1. event \in Notices /\ event.m \in Messages BY <1>13 DEF LookAgain, Notices
  <2>2. seen' \in [Threads -> Statuses]
    <3>1. seen' = seen \/ seen' = [seen EXCEPT !["hook"] = status[event.m]]
      BY <1>13 DEF LookAgain
    <3>2. seen \in [Threads -> Statuses] /\ status[event.m] \in Statuses BY <2>1
    <3> HIDE DEF TInv
    <3> QED BY <3>1, <3>2
  <2>3. pc' \in [Threads -> Places] BY <1>13 DEF LookAgain
  <2>4. HandsOK' BY <1>13 DEF LookAgain
  <2> QED BY <1>13, <2>2, <2>3, <2>4 DEF LookAgain
<1>14. CASE EventDone BY <1>14, SMTT(30) DEF EventDone
<1>15. CASE Meta BY <1>15, OutboxAssumption, SMTT(30) DEF Meta, Report, Notices
<1>16. CASE Stop BY <1>16, SMTT(30) DEF Stop
<1>27. CASE HookCancelled BY <1>27, SMTT(30) DEF HookCancelled
<1>28. CASE Stopped BY <1>28, SMTT(30) DEF Stopped, Idle
<1>29. CASE Crash BY <1>29, SMTT(30) DEF Crash, Idle
<1>30. CASE Start BY <1>30, SMTT(30) DEF Start
<1>17. ASSUME NEW t \in Threads, TakePending(t) PROVE TInv'
  BY <1>17, SMTT(30) DEF TakePending, After, Notices
<1>18. ASSUME NEW t \in Threads, ApplyStatus(t) PROVE TInv'
  BY <1>18, SMTT(30) DEF ApplyStatus, After
<1>19. ASSUME NEW t \in Threads, CatchUpTicks(t) PROVE TInv'
  BY <1>19, SMTT(30) DEF CatchUpTicks
<1>20. ASSUME NEW t \in Threads, Refresh(t) PROVE TInv'
  <2>1. msg[t] \in Messages BY <1>20 DEF Refresh
  <2>2. seen' \in [Threads -> Statuses] BY <1>20, <2>1 DEF Refresh
  <2>3. pc' \in [Threads -> Places] BY <1>20 DEF Refresh, After
  <2>4. HandsOK' BY <1>20 DEF Refresh, After
  <2> QED BY <1>20, <2>2, <2>3, <2>4, SMTT(30) DEF Refresh
<1>22. ASSUME NEW m \in Messages, Enqueue(m) PROVE TInv'
  BY <1>22, SMTT(30) DEF Enqueue
<1>23. ASSUME NEW m \in Messages, Retry(m) PROVE TInv'
  BY <1>23, SMTT(30) DEF Retry
<1>24. ASSUME NEW m \in Messages, ComesDue(m) PROVE TInv'
  BY <1>24, SMTT(30) DEF ComesDue
<1>21. CASE UNCHANGED vars BY <1>21, SMTT(30) DEF vars
<1> QED BY <1>1, <1>2, <1>3, <1>4, <1>5, <1>6, <1>7, <1>8, <1>9, <1>10, <1>11,
    <1>12, <1>13, <1>14, <1>15, <1>16, <1>17, <1>18, <1>19, <1>20, <1>21,
    <1>22, <1>23, <1>24, <1>25, <1>26, <1>27, <1>28, <1>29, <1>30 DEF Next, Worker, Hook, Applying, People, Clock, Life, Faults

\* Every reachable state of the outbox is well typed.
THEOREM OutboxTypeCorrect == Spec => []TypeOK
<1>1. Spec => []TInv BY TypeInit, TypeNext, PTL DEF Spec
<1>2. TInv => TypeOK BY DEF TInv
<1> QED BY <1>1, <1>2, PTL

-----------------------------------------------------------------------------
(* No message is accepted more often than it was ordered.                  *)

HIDE DEF TInv, TypeOK, HandsOK, Places

\* What the proof uses of the types.
LEMMA Shapes ==
    ASSUME TInv
    PROVE  /\ pc \in [Threads -> Places] /\ DOMAIN msg = Threads
           /\ status \in [Messages -> Statuses]
           /\ accepted \in [Messages -> Nat]
           /\ retries \in [Messages -> Nat] /\ lost \in [Messages -> Nat]
           /\ batch \subseteq Messages
           /\ pc["box"] \in {"ask", "write"} => msg["box"] \in Messages
BY DEF TInv, TypeOK, HandsOK

LEMMA OrdersInit == ASSUME Init PROVE Orders
BY DEF Init, Orders, OpenTries, CurrentOut

LEMMA OrdersNext == ASSUME TInv, Orders, [Next]_vars PROVE Orders'
<1> USE Shapes DEF Orders, OpenTries, CurrentOut
<1> SUFFICES CurrentOut' /\ \A m \in Messages :
                (accepted[m] + OpenTries(m) <= 1 + retries[m] + lost[m])'
  OBVIOUS
<1>1. CASE FlagStale BY <1>1 DEF FlagStale
<1>2. CASE TakeDueMessages BY <1>2 DEF TakeDueMessages, Takable
<1>3. CASE NextOfBatch BY <1>3 DEF NextOfBatch
<1>4. CASE RequeueBatch BY <1>4 DEF RequeueBatch
<1>5. CASE Refused BY <1>5 DEF Refused
<1>6. CASE Deferred BY <1>6 DEF Deferred
<1>7. CASE MetaAccepts BY <1>7 DEF MetaAccepts
<1>8. CASE WriteOutcome BY <1>8 DEF WriteOutcome, Outcome
<1>9. CASE ReloadSent BY <1>9 DEF ReloadSent
<1>10. CASE Faults
  BY <1>10 DEF Faults, FlagStaleFault, WriteOutcomeFault, EventFault
<1>11. CASE Hook
  BY <1>11 DEF Hook, LookUp, KeepPending, LookAgain, EventDone
<1>12. CASE People BY <1>12 DEF People, Enqueue, Retry
<1>13. CASE Clock BY <1>13 DEF Clock, ComesDue
<1>14. CASE Meta BY <1>14 DEF Meta, Report
<1>15. CASE Life BY <1>15 DEF Life, Stop, HookCancelled, Stopped, Crash, Start, Idle
<1>16. ASSUME NEW t \in Threads, TakePending(t) PROVE Orders'
  BY <1>16 DEF TakePending, After
<1>17. ASSUME NEW t \in Threads, ApplyStatus(t) PROVE Orders'
  <2>1. UNCHANGED <<batch, msg, answer, accepted, retries, lost>>
    BY <1>17 DEF ApplyStatus
  <2>2. \E p \in {"catchUp", "refresh", "apply", "batch", "done"} : pc' = [pc EXCEPT ![t] = p]
    BY <1>17 DEF ApplyStatus, After
  <2>3. pc'["box"] \in {"ask", "write"} => pc'["box"] = pc["box"]
    BY <2>2
  <2>4. ASSUME NEW m \in Messages, status'[m] \in {"none", "queued"}
        PROVE  status'[m] = status[m]
    <3>1. \/ status' = status
          \/ \E s \in todo[t] : status' = [status EXCEPT ![msg[t]] = s]
      BY <1>17 DEF ApplyStatus
    <3>2. todo[t] \subseteq Ticks \cup {"failed"} BY DEF TInv, TypeOK
    <3> QED BY <2>4, <3>1, <3>2
  <2> QED BY <2>1, <2>3, <2>4
<1>18. ASSUME NEW t \in Threads, CatchUpTicks(t) PROVE Orders'
  <2>1. UNCHANGED <<batch, msg, answer, accepted, retries, lost>>
    BY <1>18 DEF CatchUpTicks
  <2>2. pc'["box"] \in {"ask", "write"} => pc'["box"] = pc["box"]
    BY <1>18 DEF CatchUpTicks
  <2>3. tick[t] \in Ticks BY <1>18 DEF CatchUpTicks, TInv, HandsOK
  <2>4. ASSUME NEW m \in Messages, status'[m] \in {"none", "queued"}
        PROVE  status[m] \in {"none", "queued"}
    BY <1>18, <2>3, <2>4 DEF CatchUpTicks, Lower
  <2> QED BY <2>1, <2>2, <2>4
<1>19. ASSUME NEW t \in Threads, Refresh(t) PROVE Orders'
  BY <1>19 DEF Refresh, After
<1>20. CASE UNCHANGED vars BY <1>20 DEF vars
<1> QED BY <1>1, <1>2, <1>3, <1>4, <1>5, <1>6, <1>7, <1>8, <1>9, <1>10, <1>11,
    <1>12, <1>13, <1>14, <1>15, <1>16, <1>17, <1>18, <1>19, <1>20
    DEF Next, Worker, Applying

\* No message is accepted by Meta more often than people ordered it, but
\* for accepted calls whose answer was lost.
THEOREM NeverSentTwice == Spec => []AcceptedWithinOrders
<1>1. Spec => [](TInv /\ Orders)
  BY TypeInit, TypeNext, OrdersInit, OrdersNext, PTL DEF Spec
<1>2. ASSUME TInv, Orders PROVE AcceptedWithinOrders
  <2> SUFFICES ASSUME NEW m \in Messages PROVE accepted[m] <= 1 + retries[m] + lost[m]
    BY DEF AcceptedWithinOrders
  <2> QED BY <1>2, Shapes DEF Orders, OpenTries
<1> QED BY <1>1, <1>2, PTL

-----------------------------------------------------------------------------
(* What a step does to a row's status.                                     *)

\* Whoever changes a status: a tick or a failure is all the webhook's half writes,
\* out of the queue leads a taking, and into 'sending' nothing else does.
LEMMA StatusSteps ==
    ASSUME TInv, [Next]_vars, NEW m \in Messages
    PROVE  \/ status'[m] = status[m]
           \/ status'[m] \in Ticks \cup {"failed"}
           \/ status[m] = "none" /\ Enqueue(m)
           \/ status[m] = "failed" /\ Retry(m)
           \/ TakeDueMessages /\ Takable(m) /\ status'[m] = "sending"
           \/ /\ status[m] = "sending" /\ status'[m] = "queued"
              /\ RequeueBatch \/ (WriteOutcome /\ answer = "retryable" /\ m = msg["box"])
<1> USE Shapes
<1>1. CASE FlagStale BY <1>1 DEF FlagStale
<1>2. CASE TakeDueMessages BY <1>2 DEF TakeDueMessages
<1>3. CASE RequeueBatch
  <2>1. status'[m] = status[m] \/ (status[m] = "sending" /\ status'[m] = "queued") BY <1>3 DEF RequeueBatch
  <2> QED BY <1>3, <2>1
<1>4. CASE WriteOutcome
  <2>1. msg["box"] \in Messages BY <1>4 DEF WriteOutcome
  <2> QED BY <1>4, <2>1 DEF WriteOutcome, Outcome
<1>5. CASE People BY <1>5 DEF People, Enqueue, Retry
<1>6. ASSUME NEW t \in Threads, ApplyStatus(t)
      PROVE  status'[m] = status[m] \/ status'[m] \in Ticks \cup {"failed"}
  <2>1. todo[t] \subseteq Ticks \cup {"failed"} BY DEF TInv, TypeOK
  <2> QED BY <1>6, <2>1 DEF ApplyStatus
<1>7. ASSUME NEW t \in Threads, CatchUpTicks(t)
      PROVE  status'[m] = status[m] \/ status'[m] \in Ticks
  <2>1. tick[t] \in Ticks BY <1>7 DEF CatchUpTicks, TInv, HandsOK
  <2> QED BY <1>7, <2>1 DEF CatchUpTicks
<1>8. CASE status' = status BY <1>8
<1>9. \/ FlagStale \/ TakeDueMessages \/ RequeueBatch \/ WriteOutcome \/ People
      \/ \E t \in Threads : ApplyStatus(t) \/ CatchUpTicks(t)
      \/ status' = status
  BY DEF Next, vars, Worker, Faults, Hook, Clock, Meta, Life, Applying, NextOfBatch, Refused,
     Deferred, MetaAccepts, ReloadSent, FlagStaleFault, WriteOutcomeFault, EventFault, LookUp,
     KeepPending, LookAgain, EventDone, ComesDue, Report, Stop, HookCancelled, Stopped, Crash,
     Start, TakePending, Refresh
<1> QED BY <1>1, <1>2, <1>3, <1>4, <1>5, <1>6, <1>7, <1>8, <1>9

\* What the worker holds after a step it held before, but for what it takes.
LEMMA HeldSteps ==
    ASSUME TInv, [Next]_vars, NEW m \in Messages, Held(m)'
    PROVE  Held(m) \/ (TakeDueMessages /\ Takable(m))
<1> USE Shapes DEF Held
<1>1. CASE TakeDueMessages BY <1>1 DEF TakeDueMessages
<1>2. CASE NextOfBatch BY <1>2 DEF NextOfBatch
<1>3. CASE RequeueBatch \/ Refused \/ Deferred \/ MetaAccepts
  BY <1>3 DEF RequeueBatch, Refused, Deferred, MetaAccepts
<1>4. CASE batch' = {} /\ pc'["box"] \notin {"ask", "write"} BY <1>4
<1>5. CASE batch' = batch /\ pc'["box"] \notin {"ask", "write"} BY <1>5
<1>6. CASE batch' = batch /\ msg'["box"] = msg["box"] /\ pc'["box"] = pc["box"] BY <1>6
<1>7. ASSUME NEW t \in Threads, Applying(t)
      PROVE  batch' = batch /\ msg' = msg /\ pc'["box"] \in {pc["box"], "apply", "batch", "catchUp", "refresh"}
  <2>1. \E p \in {"apply", "batch", "done", "catchUp", "refresh"} :
          pc' = [pc EXCEPT ![t] = p] /\ (t = "box" => p # "done")
    BY <1>7 DEF Applying, TakePending, ApplyStatus, CatchUpTicks, Refresh, After
  <2> QED BY <1>7, <2>1 DEF Applying, TakePending, ApplyStatus, CatchUpTicks, Refresh
<1>8. CASE Hook
  BY <1>8 DEF Hook, LookUp, KeepPending, LookAgain, EventDone
<1>9. \/ TakeDueMessages \/ NextOfBatch \/ RequeueBatch \/ Refused \/ Deferred \/ MetaAccepts
      \/ batch' = {} /\ pc'["box"] \notin {"ask", "write"}
      \/ batch' = batch /\ pc'["box"] \notin {"ask", "write"}
      \/ batch' = batch /\ msg'["box"] = msg["box"] /\ pc'["box"] = pc["box"]
      \/ Hook \/ \E t \in Threads : Applying(t)
  BY DEF Next, vars, Worker, Faults, People, Clock, Meta, Life, FlagStale, WriteOutcome,
     ReloadSent, FlagStaleFault, WriteOutcomeFault, EventFault, Enqueue, Retry, ComesDue,
     Report, Stop, HookCancelled, Stopped, Crash, Start, Idle
<1> QED BY <1>1, <1>2, <1>3, <1>4, <1>5, <1>6, <1>7, <1>8, <1>9

\* A message that went out never goes back to the queue by itself (outbound.go): only a
\* person sends again, and only what failed.
THEOREM SentIsOut == Spec => SentStaysOut
<1>1. ASSUME TInv, [Next]_vars
      PROVE  \A m \in Messages : status[m] \in Ticks => status'[m] \in Ticks \cup {"failed"}
  BY <1>1, StatusSteps DEF Takable
<1>2. Spec => []TInv BY TypeInit, TypeNext, PTL DEF Spec
<1>3. TInv /\ [Next]_vars =>
        [\A m \in Messages : status[m] \in Ticks => status'[m] \in Ticks \cup {"failed"}]_vars
  BY <1>1
<1> QED BY <1>2, <1>3, PTL DEF Spec, SentStaysOut

-----------------------------------------------------------------------------
(* Messages go out in their order.                                         *)

\* What the worker holds was written, so an earlier message queued behind it is late.
InTurn == InOrder /\ \A m \in Messages : Held(m) => status[m] # "none"

LEMMA InTurnNext == ASSUME TInv, InTurn, [Next]_vars PROVE InTurn'
<1> USE DEF InTurn, InOrder
<1>1. \A p \in Messages : /\ retries[p] > 0 => retries'[p] > 0
                          /\ p \in late => p \in late'
  <2>1. (retries' = retries /\ late' = late) \/ People
    BY DEF Next, vars, Worker, Faults, Hook, Clock, Meta, Life, Applying, FlagStale, TakeDueMessages,
       NextOfBatch, RequeueBatch, Refused, Deferred, MetaAccepts, WriteOutcome, ReloadSent,
       FlagStaleFault, WriteOutcomeFault, EventFault, LookUp, KeepPending, LookAgain, EventDone,
       ComesDue, Report, Stop, HookCancelled, Stopped, Crash, Start, TakePending, ApplyStatus,
       CatchUpTicks, Refresh
  <2> QED BY <2>1, Shapes DEF People, Enqueue, Retry
<1>2. ASSUME NEW m \in Messages, Held(m)', NEW p \in Messages, Earlier(p, m)', status'[p] \in Waiting
      PROVE  p \in late' \/ retries'[p] > 0
  <2>1. Earlier(p, m) BY <1>2 DEF Earlier
  <2>2. CASE status[p] \in Waiting
    <3>1. Held(m) BY <1>2, <2>1, <2>2, HeldSteps DEF Takable
    <3> QED BY <1>1, <2>1, <2>2, <3>1
  <2>3. CASE status[p] = "none" /\ Enqueue(p)
    <3>1. Held(m) BY <1>2, <2>3, HeldSteps DEF Enqueue, TakeDueMessages, Takable
    <3>2. status[m] # "none" BY <3>1
    <3> QED BY <2>1, <2>3, <3>2 DEF Enqueue
  <2>4. CASE Retry(p) BY <2>4, Shapes DEF Retry
  <2> QED BY <1>2, <2>2, <2>3, <2>4, StatusSteps DEF Waiting, Takable
<1>3. ASSUME NEW m \in Messages, Held(m)' PROVE status'[m] # "none"
  <2>1. status[m] # "none" BY <1>3, HeldSteps DEF Takable
  <2>2. Enqueue(m) \/ Retry(m) => status'[m] = "queued" BY Shapes DEF Enqueue, Retry
  <2> QED BY <2>1, <2>2, StatusSteps
<1> QED BY <1>2, <1>3

\* A conversation's messages are handed to Meta in the order they were written, but for
\* those committed late or queued again by a person.
THEOREM SentInOrder == Spec => []InOrder
<1>1. ASSUME Init PROVE InTurn BY <1>1 DEF Init, InTurn, InOrder, Held
<1>2. Spec => [](TInv /\ InTurn) BY TypeInit, TypeNext, <1>1, InTurnNext, PTL DEF Spec
<1>3. InTurn => InOrder BY DEF InTurn
<1> QED BY <1>2, <1>3, PTL

-----------------------------------------------------------------------------
(* A row is 'sending' only in the worker's hands.                          *)

\* A server that is down has its worker before its start, where stale rows are flagged;
\* a worker that starts a batch has settled the last one.
InHands ==
    /\ SendingIsHeld
    /\ server = "down" => pc["box"] = "start"
    /\ pc["box"] \in {"start", "idle"} => batch = {}

LEMMA InHandsNext == ASSUME TInv, InHands, [Next]_vars PROVE InHands'
<1> USE Shapes DEF InHands, SendingIsHeld, Held
<1> faults \in Nat BY DEF TInv, TypeOK
<1> SUFFICES /\ server' = "down" => pc'["box"] = "start"
             /\ pc'["box"] \in {"start", "idle"} => batch' = {}
             /\ \A m \in Messages : status'[m] = "sending" =>
                   Held(m)' \/ faults' > 0 \/ server' = "down" \/ pc'["box"] = "start"
  OBVIOUS
<1>1. CASE FlagStale BY <1>1 DEF FlagStale
<1>2. CASE TakeDueMessages BY <1>2 DEF TakeDueMessages
<1>3. CASE NextOfBatch BY <1>3 DEF NextOfBatch
<1>4. CASE RequeueBatch BY <1>4 DEF RequeueBatch
<1>5. CASE Refused \/ Deferred \/ MetaAccepts BY <1>5 DEF Refused, Deferred, MetaAccepts
<1>6. CASE WriteOutcome BY <1>6 DEF WriteOutcome, Outcome
<1>7. CASE ReloadSent BY <1>7 DEF ReloadSent
<1>8. CASE Faults BY <1>8 DEF Faults, FlagStaleFault, WriteOutcomeFault, EventFault
<1>9. CASE Hook BY <1>9 DEF Hook, LookUp, KeepPending, LookAgain, EventDone
<1>10. CASE People BY <1>10 DEF People, Enqueue, Retry
<1>11. CASE Clock \/ Meta BY <1>11 DEF Clock, Meta, ComesDue, Report
<1>12. CASE Life BY <1>12 DEF Life, Stop, HookCancelled, Stopped, Crash, Start, Idle
<1>13. ASSUME NEW t \in Threads, Applying(t) PROVE InHands'
  <2>1. \E p \in {"apply", "batch", "done", "catchUp", "refresh"} : pc' = [pc EXCEPT ![t] = p]
    BY <1>13 DEF Applying, TakePending, ApplyStatus, CatchUpTicks, Refresh, After
  <2>2. t = "box" => pc["box"] \notin {"start", "ask", "write"}
    BY <1>13 DEF Applying, TakePending, ApplyStatus, CatchUpTicks, Refresh
  <2>3. /\ server' = server /\ batch' = batch /\ msg' = msg
        /\ faults' \in {faults, faults + 1}
    BY <1>13 DEF Applying, TakePending, ApplyStatus, CatchUpTicks, Refresh
  <2>4. pc'["box"] = pc["box"] \/ (t = "box" /\ pc'["box"] \notin {"ask", "write", "start", "idle"}) BY <2>1
  <2>5. \A m \in Messages : status'[m] = "sending" => status[m] = "sending"
    BY <1>13, StatusSteps DEF Applying, TakePending, ApplyStatus, CatchUpTicks, Refresh, TakeDueMessages, Enqueue, Retry
  <2>6. server = "down" => t # "box" BY <2>2
  <2> QED BY <2>2, <2>3, <2>4, <2>5, <2>6
<1>14. CASE UNCHANGED vars BY <1>14 DEF vars
<1> QED BY <1>1, <1>2, <1>3, <1>4, <1>5, <1>6, <1>7, <1>8, <1>9, <1>10, <1>11, <1>12, <1>13, <1>14
    DEF Next, Worker, Applying

\* A row is 'sending' only while the worker has it, or when a failed write left it
\* there, or from a crash until the worker has started again (FlagStale's reason).
THEOREM SendingHeld == Spec => []SendingIsHeld
<1>1. ASSUME Init PROVE InHands BY <1>1 DEF Init, InHands, SendingIsHeld
<1>2. Spec => [](TInv /\ InHands) BY TypeInit, TypeNext, <1>1, InHandsNext, PTL DEF Spec
<1>3. InHands => SendingIsHeld BY DEF InHands
<1> QED BY <1>2, <1>3, PTL

-----------------------------------------------------------------------------
(* No early status is left behind.                                         *)

\* Reports are of an accepted send; the webhook worker looks at its notice's message.
Reported ==
    /\ server # "up" => downs > 0
    /\ \A e \in pending \cup events : e.n > 0
    /\ pc["hook"] # "idle" => msg["hook"] = event.m /\ event.n > 0

LEMMA ReportedNext == ASSUME TInv, Reported, [Next]_vars PROVE Reported'
<1> USE DEF Reported
<1> downs \in Nat /\ pc \in [Threads -> Places] /\ DOMAIN msg = Threads BY DEF TInv, TypeOK
<1>1. CASE Worker
  <2>1. pc'["hook"] = pc["hook"] /\ msg'["hook"] = msg["hook"] /\ UNCHANGED <<server, downs, pending, events, event>>
    BY <1>1 DEF Worker, FlagStale, TakeDueMessages, NextOfBatch, RequeueBatch, Refused, Deferred, MetaAccepts,
       WriteOutcome, ReloadSent
  <2> QED BY <2>1
<1>2. CASE Faults BY <1>2 DEF Faults, FlagStaleFault, WriteOutcomeFault, EventFault
<1>3. ASSUME NEW e \in events, LookUp(e) PROVE Reported' BY <1>3 DEF LookUp
<1>4. CASE KeepPending \/ LookAgain \/ EventDone BY <1>4 DEF KeepPending, LookAgain, EventDone
<1>5. CASE People \/ Clock BY <1>5 DEF People, Clock, Enqueue, Retry, ComesDue
<1>6. CASE Meta
  <2>1. PICK m \in Messages, s \in Reports : \E n \in 1 .. accepted[m] : Report(m, n, s) BY <1>6 DEF Meta
  <2>2. PICK n \in 1 .. accepted[m] : Report(m, n, s) BY <2>1
  <2>3. n > 0 /\ events' = events \cup {[m |-> m, n |-> n, s |-> s]} BY <2>2 DEF Report
  <2> QED BY <2>2, <2>3 DEF Report
<1>7. CASE Life BY <1>7 DEF Life, Stop, HookCancelled, Stopped, Crash, Start, Idle
<1>8. ASSUME NEW t \in Threads, Applying(t) PROVE Reported'
  <2>1. UNCHANGED <<server, downs, events, event, msg>> /\ pending' \subseteq pending
    BY <1>8 DEF Applying, TakePending, ApplyStatus, CatchUpTicks, Refresh
  <2>2. pc'["hook"] # "idle" => pc["hook"] # "idle"
    BY <1>8 DEF Applying, TakePending, ApplyStatus, CatchUpTicks, Refresh
  <2> QED BY <2>1, <2>2
<1>9. CASE UNCHANGED vars BY <1>9 DEF vars
<1> QED BY <1>1, <1>2, <1>3, <1>4, <1>5, <1>6, <1>7, <1>8, <1>9 DEF Next, Hook

\* Somebody is about to take the kept status e.
Cared(e) ==
    \/ pc["hook"] \in {"again", "take"} /\ event.m = e.m /\ event.n = e.n
    \/ pc["box"] \in {"reload", "take"} /\ msg["box"] = e.m

LEMMA StrandedNext == ASSUME TInv, Reported, NoStrandedStatus, [Next]_vars PROVE NoStrandedStatus'
<1> USE Shapes
<1>0. downs \in Nat /\ faults \in Nat /\ wamid \in [Messages -> Nat] /\ \A e \in pending : e.m \in Messages
  BY DEF TInv, TypeOK, Notices
<1> SUFFICES ASSUME downs' = 0, faults' = 0, NEW e \in pending', wamid'[e.m] = e.n
             PROVE  Cared(e)'
  BY DEF NoStrandedStatus, Cared
<1>1. server = "up" /\ downs = 0 /\ faults = 0 /\ ~Faults /\ ~Life
  <2>1. ~Faults BY <1>0 DEF Faults, FlagStaleFault, WriteOutcomeFault, EventFault
  <2>2. CASE Life
    <3>1. server = "up" => FALSE BY <1>0, <2>2 DEF Life, Stop, HookCancelled, Stopped, Crash, Start
    <3>2. downs' = 0 => downs = 0 BY <1>0, <2>2 DEF Life, Stop, HookCancelled, Stopped, Crash, Start
    <3> QED BY <3>1, <3>2, <1>0 DEF Reported
  <2>3. CASE Worker \/ Hook \/ People \/ Clock \/ Meta \/ UNCHANGED vars
    <3>1. downs' = downs /\ faults' \in {faults, faults + 1}
      BY <2>3 DEF Worker, Hook, People, Clock, Meta, vars, FlagStale, TakeDueMessages, NextOfBatch, RequeueBatch,
         Refused, Deferred, MetaAccepts, WriteOutcome, ReloadSent, LookUp, KeepPending, LookAgain, EventDone,
         Enqueue, Retry, ComesDue, Report
    <3>2. ~Life
      <4>1. server' = server
        BY <2>3 DEF Worker, Hook, People, Clock, Meta, vars, FlagStale, TakeDueMessages, NextOfBatch, RequeueBatch,
           Refused, Deferred, MetaAccepts, WriteOutcome, ReloadSent, LookUp, KeepPending, LookAgain, EventDone,
           Enqueue, Retry, ComesDue, Report
      <4> QED BY <1>0, <2>2, <4>1
    <3> QED BY <1>0, <2>1, <3>1, <3>2 DEF Reported
  <2>4. ASSUME NEW t \in Threads, Applying(t) PROVE downs = 0 /\ faults = 0
    <3>1. downs' = downs BY <2>4 DEF Applying, TakePending, ApplyStatus, CatchUpTicks, Refresh
    <3>2. faults' \in {faults, faults + 1} BY <2>4 DEF Applying, TakePending, ApplyStatus, CatchUpTicks, Refresh
    <3> QED BY <1>0, <3>1, <3>2
  <2> QED BY <1>0, <2>1, <2>2, <2>3, <2>4 DEF Next, Reported
<1>2. e \in pending /\ wamid[e.m] = e.n => Cared(e) BY <1>1 DEF NoStrandedStatus, Cared
\* The webhook worker keeps a status, looks again, and takes what is kept.
<1>3. CASE KeepPending BY <1>2, <1>3 DEF KeepPending, Cared
<1>4. CASE LookAgain BY <1>2, <1>4 DEF LookAgain, Cared
<1>5. ASSUME NEW t \in Threads, TakePending(t) PROVE Cared(e)'
  <2>1. /\ pc[t] = "take" /\ UNCHANGED <<wamid, msg, event>>
        /\ pending' = pending \ {x \in pending : x.m = msg[t] /\ x.n = IF t = "box" THEN wamid[msg[t]] ELSE event.n}
        /\ \A u \in Threads \ {t} : pc'[u] = pc[u]
    BY <1>1, <1>5, <1>0 DEF TakePending
  <2>2. e \in pending /\ Cared(e) BY <1>2, <2>1
  <2>3. CASE t = "box"
    <3>1. e.m # msg["box"] BY <2>1, <2>3
    <3> QED BY <2>1, <2>2, <2>3, <3>1 DEF Cared
  <2>4. CASE t = "hook"
    <3>1. ~(e.m = event.m /\ e.n = event.n) BY <2>1, <2>4 DEF Reported
    <3> QED BY <2>1, <2>2, <2>4, <3>1 DEF Cared
  <2> QED BY <2>3, <2>4
\* The outbox worker stores the id and looks for what came early.
<1>6. CASE WriteOutcome
  <2>1. e \in pending /\ UNCHANGED <<msg, event>> /\ pc["box"] = "write" /\ pc'["hook"] = pc["hook"]
    BY <1>6 DEF WriteOutcome
  <2>2. wamid'[e.m] = wamid[e.m] \/ (msg["box"] = e.m /\ pc'["box"] = "reload")
    BY <1>0, <1>6, <2>1 DEF WriteOutcome, Outcome
  <2> QED BY <1>2, <2>1, <2>2 DEF Cared
<1>7. CASE ReloadSent
  <2>1. e \in pending /\ UNCHANGED <<msg, event, wamid>> /\ pc'["hook"] = pc["hook"] BY <1>7 DEF ReloadSent
  <2>2. pc'["box"] = IF wamid[msg["box"]] = 0 THEN "batch" ELSE "take" BY <1>7 DEF ReloadSent
  <2>3. msg["box"] = e.m => wamid[msg["box"]] # 0 BY <2>1, <1>7 DEF Reported, ReloadSent
  <2> QED BY <1>2, <2>1, <2>2, <2>3 DEF Cared
<1>8. CASE /\ e \in pending /\ wamid' = wamid
           /\ pc["hook"] \in {"again", "take"} => pc'["hook"] = pc["hook"] /\ event' = event
           /\ pc["box"] \in {"reload", "take"} => pc'["box"] = pc["box"] /\ msg'["box"] = msg["box"]
  BY <1>2, <1>8 DEF Cared
<1>9. ASSUME NEW t \in Threads, ApplyStatus(t) \/ CatchUpTicks(t) \/ Refresh(t) PROVE Cared(e)'
  <2>1. /\ pc[t] \notin {"again", "take", "reload"} /\ UNCHANGED <<pending, wamid, msg, event>>
        /\ \A u \in Threads \ {t} : pc'[u] = pc[u]
    BY <1>9 DEF ApplyStatus, CatchUpTicks, Refresh
  <2> QED BY <1>2, <2>1 DEF Cared
<1>10. CASE \/ FlagStale \/ TakeDueMessages \/ NextOfBatch \/ RequeueBatch \/ Refused \/ Deferred \/ MetaAccepts
            \/ People \/ Clock \/ Meta \/ EventDone \/ (\E x \in events : LookUp(x)) \/ UNCHANGED vars
  <2>1. /\ e \in pending /\ wamid' = wamid
        /\ pc["hook"] \in {"again", "take"} => pc'["hook"] = pc["hook"] /\ event' = event
        /\ pc["box"] \in {"reload", "take"} => pc'["box"] = pc["box"] /\ msg'["box"] = msg["box"]
    BY <1>10 DEF FlagStale, TakeDueMessages, NextOfBatch, RequeueBatch, Refused, Deferred, MetaAccepts, People, Clock,
       Meta, EventDone, LookUp, Enqueue, Retry, ComesDue, Report, vars
  <2> QED BY <1>8, <2>1
<1> QED BY <1>1, <1>3, <1>4, <1>5, <1>6, <1>7, <1>9, <1>10 DEF Next, Worker, Hook, Applying

\* While nothing crashes or fails, no early status is left behind once its message has
\* the id (onStatus and applyPending), however the two workers interleave.
THEOREM NoneStranded == Spec => []NoStrandedStatus
<1>1. ASSUME Init PROVE Reported /\ NoStrandedStatus BY <1>1 DEF Init, Reported, NoStrandedStatus
<1>2. Spec => [](TInv /\ Reported /\ NoStrandedStatus)
  BY TypeInit, TypeNext, <1>1, ReportedNext, StrandedNext, PTL DEF Spec
<1> QED BY <1>2, PTL
=============================================================================
