--------------------------- MODULE InboundProofs ---------------------------
(* Proofs about Inbound, for every set of messages and workers.            *)
EXTENDS Inbound, FiniteSetTheorems, TLAPS

\* A message has a job only once it is stored.
StoredFirst == \A m \in Messages : row[m] = 0 => job[m] = "none"

\* What a worker has in hand is a job that was stored, and perhaps finished by another.
Held ==
    \A w \in Workers : at[w] # "idle" =>
        /\ mine[w] \in Messages /\ job[mine[w]] # "none"
        /\ at[w] = "mark" => step[w] \in Steps \ done[w]

\* A notice that was written down is about a message.
NoticeHeld ==
    /\ hook \in {"store", "rate", "done", "failed", "panicked"} =>
          current \in Ids /\ about[current] \in Messages
    /\ \A i \in page : about[i] \in Messages
    /\ \A i \in Ids : state[i] # "none" => about[i] \in Messages

Claims == StoredFirst /\ Held /\ NoticeHeld

\* Who has a job in hand and may yet run a step of it.
Ahead(m, s) ==
    {w \in Crew(m) : at[w] \in {"run", "mark"} /\ s \notin done[w]
                     /\ ~(at[w] = "mark" /\ step[w] = s)}

\* As many workers have a job as took it from each other, and one more; until a step
\* is marked, each run of it was cut off or is about to be marked; and the runs there
\* were and may yet be are no more than the ones cut off, the takings-over and one.
Manned(m)    == Cardinality(Crew(m)) <= 1 + overlaps[m]
Unmarked(m, s) ==
    s \notin marked[m] /\ job[m] # "gone" => did[m][s] = cut[m][s] + Cardinality(Marking(m, s))
Bounded(m, s) ==
    did[m][s] + Cardinality(Ahead(m, s)) <= cut[m][s] + 1 + overlaps[m]

Counted ==
    \A m \in Messages, s \in Steps : Manned(m) /\ Unmarked(m, s) /\ Bounded(m, s)

TInv == TypeOK /\ Claims
IInv == TInv /\ Counted

LEMMA StoredType == Stored \in Nat
BY InboundAssumption, FS_Subset, FS_CardinalityType DEF Stored

\* What the counting of workers needs.
LEMMA CrewFinite ==
    ASSUME NEW m, NEW s
    PROVE  /\ IsFiniteSet(Crew(m)) /\ Cardinality(Crew(m)) \in Nat
           /\ IsFiniteSet(Marking(m, s)) /\ Cardinality(Marking(m, s)) \in Nat
           /\ IsFiniteSet(Ahead(m, s)) /\ Cardinality(Ahead(m, s)) \in Nat
<1>1. Crew(m) \subseteq Workers /\ Marking(m, s) \subseteq Workers /\ Ahead(m, s) \subseteq Workers
  BY DEF Crew, Marking, Ahead
<1>2. \A S : S \subseteq Workers => IsFiniteSet(S) BY InboundAssumption, FS_Subset
<1> QED BY <1>1, <1>2, FS_CardinalityType

LEMMA InitInv == ASSUME Init PROVE IInv
<1> USE InboundAssumption DEF Init, None, Ids, Steps
<1>1. NoticesTypeOK BY DEF NoticesTypeOK
<1>2. RowsTypeOK /\ JobsTypeOK BY DEF RowsTypeOK, JobsTypeOK
<1>3. HookTypeOK /\ WorkersTypeOK BY DEF HookTypeOK, WorkersTypeOK
<1>4. CountsTypeOK BY DEF CountsTypeOK
<1>5. Claims BY DEF Claims, StoredFirst, Held, NoticeHeld
<1>6. ASSUME NEW m \in Messages, NEW s \in Steps
      PROVE  Manned(m) /\ Unmarked(m, s) /\ Bounded(m, s)
  <2>1. Crew(m) = {} /\ Marking(m, s) = {} /\ Ahead(m, s) = {} BY DEF Crew, Marking, Ahead
  <2>2. Cardinality({}) = 0 BY FS_EmptySet
  <2> QED BY <2>1, <2>2 DEF Manned, Unmarked, Bounded
<1>7. Counted BY <1>6 DEF Counted
<1> QED BY <1>1, <1>2, <1>3, <1>4, <1>5, <1>7 DEF IInv, TInv, TypeOK

USE DEF notices, jobs, hooked, working, budgets, Goto

\* A counter of a step raised by one is still a counter.
LEMMA BumpType ==
    ASSUME NEW f \in [Messages -> [Steps -> Nat]], NEW m \in Messages, NEW s \in Steps
    PROVE  Bump(f, m, s) \in [Messages -> [Steps -> Nat]]
<1>1. f[m] \in [Steps -> Nat] /\ f[m][s] + 1 \in Nat OBVIOUS
<1>2. [f[m] EXCEPT ![s] = @ + 1] \in [Steps -> Nat] BY <1>1
<1> QED BY <1>2 DEF Bump

\* What a worker that is not idle has in hand.
LEMMA InHand ==
    ASSUME TInv, NEW w \in Workers, at[w] # "idle"
    PROVE  /\ mine[w] \in Messages /\ job[mine[w]] # "none"
           /\ at[w] = "mark" => step[w] \in Steps \ done[w]
BY DEF TInv, Claims, Held

\* The webhook worker's notice.
LEMMA AtHook ==
    ASSUME TInv, hook \in {"store", "rate", "done", "failed", "panicked"}
    PROVE  current \in Ids /\ about[current] \in Messages
BY DEF TInv, Claims, NoticeHeld

\* The parts of TypeOK are proved one by one, each from the variables it names.
LEMMA NoticesTypeNext == ASSUME TInv, [Next]_vars PROVE NoticesTypeOK'
<1> NoticesTypeOK BY DEF TInv, TypeOK
<1> USE DEF NoticesTypeOK
<1>1. ASSUME NEW m \in Messages, Receive(m) PROVE NoticesTypeOK'
  <2>1. arrived + 1 \in Ids BY <1>1, InboundAssumption DEF Receive, Ids
  <2> QED BY <1>1, <2>1, InboundAssumption DEF Receive
<1>2. ASSUME NEW i \in Ids, ComesDue(i) \/ RetryEvent(i) PROVE NoticesTypeOK'
  BY <1>2 DEF ComesDue, RetryEvent
<1>3. CASE WebhookEventDone
  <2>1. current \in Ids BY <1>3, AtHook DEF WebhookEventDone
  <2> QED BY <1>3, <2>1 DEF WebhookEventDone
<1>4. CASE WebhookEventFailed
  <2>1. current \in Ids BY <1>4, AtHook DEF WebhookEventFailed
  <2>2. tries[current] + 1 \in Nat BY <2>1
  <2>3. \E s \in {"failed", "pending"} :
           state' \in {state, [state EXCEPT ![current] = s]}
    BY <1>4 DEF WebhookEventFailed
  <2>4. tries' \in {tries, [tries EXCEPT ![current] = tries[current] + 1]}
    BY <1>4 DEF WebhookEventFailed
  <2>5. due' \in {due, [due EXCEPT ![current] = FALSE]} BY <1>4 DEF WebhookEventFailed
  <2>6. arrived' = arrived /\ about' = about BY <1>4 DEF WebhookEventFailed
  <2>7. state' \in [Ids -> {"none", "pending", "done", "failed"}] BY <2>1, <2>3
  <2>8. tries' \in [Ids -> Nat] BY <2>1, <2>2, <2>4
  <2>9. due' \in [Ids -> BOOLEAN] BY <2>1, <2>5
  <2> QED BY <2>6, <2>7, <2>8, <2>9
<1>5. CASE UNCHANGED notices BY <1>5
<1> HIDE DEF NoticesTypeOK, notices
<1>6. \/ \E m \in Messages : Receive(m)
      \/ \E i \in Ids : ComesDue(i) \/ RetryEvent(i)
      \/ WebhookEventDone \/ WebhookEventFailed \/ UNCHANGED notices
  BY DEF Next, vars, HookStep, Work, ReadPage, NextEvent, StoreMessage, RecordRating,
     StoreFault, TakeJob, SkipStep, DoStep, MarkStep, FinishJob, LoadFault, StepPanics,
     Stop, HookCancelled, Stopped, Crash, Start, Lapse, RenewalsFail, Renew, Freed, notices
<1> QED BY <1>1, <1>2, <1>3, <1>4, <1>5, <1>6

LEMMA RowsTypeNext == ASSUME TInv, [Next]_vars PROVE RowsTypeOK'
<1> RowsTypeOK BY DEF TInv, TypeOK
<1> USE DEF RowsTypeOK
<1>1. CASE StoreMessage
  <2>1. about[current] \in Messages BY <1>1, AtHook DEF StoreMessage
  <2>2. row' \in {row, [row EXCEPT ![about[current]] = Stored + 1]} /\ rated' = rated
    BY <1>1 DEF StoreMessage
  <2> QED BY <2>1, <2>2, StoredType
<1>2. CASE RecordRating
  <2>1. about[current] \in Messages BY <1>2, AtHook DEF RecordRating
  <2> QED BY <1>2, <2>1 DEF RecordRating
<1>3. CASE row' = row /\ rated' = rated BY <1>3
<1> HIDE DEF RowsTypeOK
<1>4. StoreMessage \/ RecordRating \/ (row' = row /\ rated' = rated)
  BY DEF Next, vars, HookStep, Work, Receive, ComesDue, RetryEvent, ReadPage,
     NextEvent, StoreFault, WebhookEventDone, WebhookEventFailed, TakeJob,
     SkipStep, DoStep, MarkStep, FinishJob, LoadFault, StepPanics, Lapse, RenewalsFail, Renew, Freed, Stop,
     HookCancelled, Stopped, Crash, Start
<1> QED BY <1>1, <1>2, <1>3, <1>4

LEMMA JobsTypeNext == ASSUME TInv, [Next]_vars PROVE JobsTypeOK'
<1> JobsTypeOK BY DEF TInv, TypeOK
<1> USE DEF JobsTypeOK
<1>1. ASSUME NEW m \in Messages, Lapse(m) \/ RenewalsFail(m) PROVE JobsTypeOK'
  BY <1>1 DEF Lapse, RenewalsFail, Freed
<1>2. CASE StoreMessage
  <2>1. about[current] \in Messages BY <1>2, AtHook DEF StoreMessage
  <2>2. /\ job' \in {job, [job EXCEPT ![about[current]] = "waiting"]}
        /\ free' \in {free, [free EXCEPT ![about[current]] = TRUE]}
        /\ jobTries' = jobTries /\ marked' = marked /\ overlaps' = overlaps
    BY <1>2 DEF StoreMessage
  <2>3. job' \in [Messages -> {"none", "waiting", "gone"}] BY <2>1, <2>2
  <2>4. free' \in [Messages -> BOOLEAN] BY <2>1, <2>2
  <2> QED BY <2>2, <2>3, <2>4
<1>3. ASSUME NEW w \in Workers, TakeJob(w) PROVE JobsTypeOK'
  <2>1. PICK m \in Messages : /\ free' = [free EXCEPT ![m] = FALSE]
                              /\ jobTries' = [jobTries EXCEPT ![m] = @ + 1]
                              /\ overlaps' \in {overlaps, [overlaps EXCEPT ![m] = @ + 1]}
                              /\ job' = job /\ marked' = marked
    BY <1>3 DEF TakeJob
  <2>2. jobTries[m] + 1 \in Nat /\ overlaps[m] + 1 \in Nat OBVIOUS
  <2>3. jobTries' \in [Messages -> Nat] BY <2>1, <2>2
  <2>4. overlaps' \in [Messages -> Nat] BY <2>1, <2>2
  <2> QED BY <2>1, <2>3, <2>4
<1>4. ASSUME NEW w \in Workers, MarkStep(w) PROVE JobsTypeOK'
  <2>1. mine[w] \in Messages /\ step[w] \in Steps BY <1>4, InHand DEF MarkStep
  <2>2. marked' \in {marked, [marked EXCEPT ![mine[w]] = @ \cup {step[w]}]}
    BY <1>4 DEF MarkStep
  <2>3. marked[mine[w]] \cup {step[w]} \in SUBSET Steps BY <2>1
  <2>4. marked' \in [Messages -> SUBSET Steps] BY <2>1, <2>2, <2>3
  <2> QED BY <1>4, <2>4 DEF MarkStep
<1>5. ASSUME NEW w \in Workers, FinishJob(w) PROVE JobsTypeOK'
  <2>1. mine[w] \in Messages BY <1>5, InHand DEF FinishJob
  <2> QED BY <1>5, <2>1 DEF FinishJob
<1>6. CASE UNCHANGED jobs BY <1>6
<1>8. ASSUME NEW w \in Workers, Renew(w) PROVE JobsTypeOK'
  BY <1>8, InHand DEF Renew
<1> HIDE DEF JobsTypeOK, jobs
<1>7. \/ \E m \in Messages : Lapse(m) \/ RenewalsFail(m)
      \/ \E w \in Workers : Renew(w)
      \/ StoreMessage
      \/ \E w \in Workers : TakeJob(w) \/ MarkStep(w) \/ FinishJob(w)
      \/ UNCHANGED jobs
  BY DEF Next, vars, HookStep, Work, Receive, ComesDue, RetryEvent, ReadPage,
     NextEvent, RecordRating, StoreFault, WebhookEventDone, WebhookEventFailed,
     SkipStep, DoStep, LoadFault, StepPanics, Stop, HookCancelled, Stopped, Crash,
     Start
<1> QED BY <1>1, <1>2, <1>3, <1>4, <1>5, <1>6, <1>7, <1>8

LEMMA HookTypeNext == ASSUME TInv, [Next]_vars PROVE HookTypeOK'
<1> HookTypeOK BY DEF TInv, TypeOK
<1> USE DEF HookTypeOK
<1>1. CASE ReadPage BY <1>1 DEF ReadPage
<1>2. CASE NextEvent BY <1>2 DEF NextEvent
<1>3. CASE StoreMessage BY <1>3 DEF StoreMessage
<1>4. CASE StoreFault BY <1>4 DEF StoreFault
<1>5. CASE RecordRating BY <1>5 DEF RecordRating
<1>6. CASE WebhookEventDone BY <1>6 DEF WebhookEventDone
<1>7. CASE WebhookEventFailed BY <1>7 DEF WebhookEventFailed
<1>8. CASE HookCancelled \/ Crash BY <1>8 DEF HookCancelled, Crash
<1>9. CASE UNCHANGED hooked BY <1>9
<1> HIDE DEF HookTypeOK, hooked
<1>10. \/ ReadPage \/ NextEvent \/ StoreMessage \/ StoreFault \/ RecordRating
       \/ WebhookEventDone \/ WebhookEventFailed \/ HookCancelled \/ Crash
       \/ UNCHANGED hooked
  BY DEF Next, vars, HookStep, Work, Receive, ComesDue, RetryEvent, TakeJob,
     SkipStep, DoStep, MarkStep, FinishJob, LoadFault, StepPanics, Lapse, RenewalsFail, Renew, Freed, Stop,
     Stopped, Start
<1> QED BY <1>1, <1>2, <1>3, <1>4, <1>5, <1>6, <1>7, <1>8, <1>9, <1>10

LEMMA WorkersTypeNext == ASSUME TInv, [Next]_vars PROVE WorkersTypeOK'
<1> WorkersTypeOK BY DEF TInv, TypeOK
<1> USE DEF WorkersTypeOK
<1>1. ASSUME NEW w \in Workers, TakeJob(w) PROVE WorkersTypeOK'
  <2>1. PICK m \in Messages :
          /\ mine' = [mine EXCEPT ![w] = m] /\ done' = [done EXCEPT ![w] = marked[m]]
          /\ step' = [step EXCEPT ![w] = 1]
          /\ at' \in {[at EXCEPT ![w] = "giveup"], [at EXCEPT ![w] = "run"]}
    BY <1>1 DEF TakeJob, Known
  <2>2. marked[m] \in SUBSET Steps BY DEF TInv, TypeOK, JobsTypeOK
  <2>3. 1 \in 0 .. NSteps + 1 BY InboundAssumption
  <2> QED BY <2>1, <2>2, <2>3
<1>2. ASSUME NEW w \in Workers, SkipStep(w) PROVE WorkersTypeOK'
  <2>1. CASE step[w] \notin Steps BY <1>2, <2>1 DEF SkipStep
  <2>2. CASE step[w] \in Steps
    <3>1. step[w] + 1 \in 0 .. NSteps + 1 BY <2>2, InboundAssumption DEF Steps
    <3>2. step' = [step EXCEPT ![w] = step[w] + 1] BY <1>2, <2>2 DEF SkipStep
    <3>3. step' \in [Workers -> 0 .. NSteps + 1] BY <3>1, <3>2
    <3> QED BY <1>2, <2>2, <3>3 DEF SkipStep
  <2> QED BY <2>1, <2>2
<1>3. ASSUME NEW w \in Workers, MarkStep(w) PROVE WorkersTypeOK'
  <2>1. step[w] \in Steps BY <1>3, InHand DEF MarkStep
  <2>2. done[w] \cup {step[w]} \in SUBSET Steps BY <2>1
  <2>3. done' \in [Workers -> SUBSET Steps] BY <1>3, <2>2 DEF MarkStep
  <2> QED BY <1>3, <2>3 DEF MarkStep
<1>4. ASSUME NEW w \in Workers, DoStep(w) \/ LoadFault(w) \/ StepPanics(w) \/ FinishJob(w)
      PROVE  WorkersTypeOK'
  <2>1. at' \in {[at EXCEPT ![w] = "mark"], [at EXCEPT ![w] = "idle"]}
        /\ mine' = mine /\ step' = step /\ done' = done
    BY <1>4 DEF DoStep, LoadFault, StepPanics, FinishJob
  <2> QED BY <2>1
<1>5. CASE Crash BY <1>5 DEF Crash
<1>6. CASE UNCHANGED working BY <1>6
<1> HIDE DEF WorkersTypeOK, working
<1>7. \/ \E w \in Workers : TakeJob(w) \/ SkipStep(w) \/ MarkStep(w)
      \/ \E w \in Workers : DoStep(w) \/ LoadFault(w) \/ StepPanics(w) \/ FinishJob(w)
      \/ Crash
      \/ UNCHANGED working
  BY DEF Next, vars, HookStep, Work, Receive, ComesDue, RetryEvent, ReadPage,
     NextEvent, StoreMessage, RecordRating, StoreFault, WebhookEventDone,
     WebhookEventFailed, Lapse, RenewalsFail, Renew, Freed, Stop, HookCancelled, Stopped, Start
<1> QED BY <1>1, <1>2, <1>3, <1>4, <1>5, <1>6, <1>7

LEMMA CountsTypeNext == ASSUME TInv, [Next]_vars PROVE CountsTypeOK'
<1> CountsTypeOK BY DEF TInv, TypeOK
<1> USE DEF CountsTypeOK
<1>1. ASSUME NEW w \in Workers, DoStep(w) \/ StepPanics(w) \/ MarkStep(w)
      PROVE  CountsTypeOK'
  <2>1. mine[w] \in Messages BY <1>1, InHand DEF DoStep, StepPanics, MarkStep
  <2>2. step[w] \in Steps BY <1>1, InHand DEF DoStep, StepPanics, MarkStep
  <2>3. /\ did' \in {did, Bump(did, mine[w], step[w])}
        /\ cut' \in {cut, Bump(cut, mine[w], step[w])}
        /\ downs' = downs /\ faults' \in {faults, faults + 1}
        /\ panics' \in {panics, panics + 1} /\ server' = server
    BY <1>1 DEF DoStep, StepPanics, MarkStep
  <2>4. did' \in [Messages -> [Steps -> Nat]] BY <2>1, <2>2, <2>3, BumpType
  <2>5. cut' \in [Messages -> [Steps -> Nat]] BY <2>1, <2>2, <2>3, BumpType
  <2> QED BY <2>3, <2>4, <2>5
<1>2. CASE Crash
  <2>1. ASSUME NEW m \in Messages, NEW s \in Steps
        PROVE  cut[m][s] + Cardinality(Marking(m, s)) \in Nat
    BY CrewFinite
  <2>2. cut' \in [Messages -> [Steps -> Nat]] BY <1>2, <2>1 DEF Crash
  <2> QED BY <1>2, <2>2 DEF Crash
<1>3. ASSUME /\ did' = did /\ cut' = cut
             /\ server' \in {"up", "stopping", "down"} /\ downs' \in Nat
             /\ faults' \in Nat /\ panics' \in Nat
      PROVE  CountsTypeOK'
  BY <1>3
<1>4. \/ \E w \in Workers : DoStep(w) \/ StepPanics(w) \/ MarkStep(w)
      \/ Crash
      \/ /\ did' = did /\ cut' = cut
         /\ server' \in {"up", "stopping", "down"} /\ downs' \in Nat
         /\ faults' \in Nat /\ panics' \in Nat
  BY DEF Next, vars, HookStep, Work, Receive, ComesDue, RetryEvent, ReadPage,
     NextEvent, StoreMessage, RecordRating, StoreFault, WebhookEventDone,
     WebhookEventFailed, TakeJob, SkipStep, FinishJob, LoadFault, Lapse, RenewalsFail, Renew, Freed, Stop,
     HookCancelled, Stopped, Start
<1> HIDE DEF CountsTypeOK
<1> QED BY <1>1, <1>2, <1>3, <1>4

LEMMA TypeNext == ASSUME TInv, [Next]_vars PROVE TypeOK'
BY NoticesTypeNext, RowsTypeNext, JobsTypeNext, HookTypeNext, WorkersTypeNext,
   CountsTypeNext DEF TypeOK

LEMMA StoredFirstNext == ASSUME TInv, [Next]_vars PROVE StoredFirst'
<1> StoredFirst /\ RowsTypeOK /\ JobsTypeOK BY DEF TInv, TypeOK, Claims
<1> USE DEF StoredFirst
<1>1. CASE StoreMessage
  <2> DEFINE m == about[current]
  <2>1. m \in Messages BY <1>1, AtHook DEF StoreMessage
  <2>2. \/ row' = row /\ job' = job
        \/ row' = [row EXCEPT ![m] = Stored + 1]
           /\ job' \in {job, [job EXCEPT ![m] = "waiting"]}
    BY <1>1 DEF StoreMessage
  <2> HIDE DEF m
  <2>3. Stored + 1 # 0 BY StoredType
  <2> QED BY <2>1, <2>2, <2>3 DEF RowsTypeOK, JobsTypeOK
<1>2. ASSUME NEW w \in Workers, FinishJob(w) PROVE StoredFirst'
  <2>1. mine[w] \in Messages /\ row[mine[w]] # 0 BY <1>2, InHand DEF FinishJob
  <2>2. row' = row /\ job' \in {job, [job EXCEPT ![mine[w]] = "gone"]}
    BY <1>2 DEF FinishJob
  <2> QED BY <2>1, <2>2 DEF JobsTypeOK, Waiting
<1>3. CASE row' = row /\ job' = job BY <1>3
<1> HIDE DEF StoredFirst
<1>4. StoreMessage \/ (\E w \in Workers : FinishJob(w)) \/ (row' = row /\ job' = job)
  BY DEF Next, vars, HookStep, Work, Receive, ComesDue, RetryEvent, ReadPage,
     NextEvent, RecordRating, StoreFault, WebhookEventDone, WebhookEventFailed,
     TakeJob, SkipStep, DoStep, MarkStep, LoadFault, StepPanics, Lapse, RenewalsFail, Renew, Freed, Stop,
     HookCancelled, Stopped, Crash, Start
<1> QED BY <1>1, <1>2, <1>3, <1>4

LEMMA NoticeHeldNext == ASSUME TInv, [Next]_vars PROVE NoticeHeld'
<1> NoticeHeld /\ NoticesTypeOK /\ HookTypeOK BY DEF TInv, TypeOK, Claims
<1> USE DEF NoticeHeld
<1>1. ASSUME NEW m \in Messages, Receive(m) PROVE NoticeHeld'
  <2>1. /\ about' = [about EXCEPT ![arrived + 1] = m]
        /\ state' = [state EXCEPT ![arrived + 1] = "pending"]
        /\ UNCHANGED hooked
    BY <1>1 DEF Receive
  <2> QED BY <2>1 DEF NoticesTypeOK, HookTypeOK
<1>2. ASSUME NEW i \in Ids, ComesDue(i) \/ RetryEvent(i) PROVE NoticeHeld'
  <2>1. about' = about /\ state' \in {state, [state EXCEPT ![i] = "pending"]}
        /\ UNCHANGED hooked /\ (state[i] # "none")
    BY <1>2 DEF ComesDue, RetryEvent
  <2> QED BY <2>1 DEF NoticesTypeOK
<1>3. CASE ReadPage
  <2>1. about' = about /\ state' = state /\ hook' = "next"
        /\ \A i \in page' : i \in Ids /\ state[i] = "pending"
    BY <1>3 DEF ReadPage
  <2> QED BY <2>1
<1>4. CASE NextEvent
  <2>1. about' = about /\ state' = state /\ page' \subseteq page
        /\ \/ hook' = "idle"
           \/ hook' = "store" /\ current' \in page
    BY <1>4 DEF NextEvent
  <2> QED BY <2>1 DEF HookTypeOK
<1>5. CASE WebhookEventDone \/ WebhookEventFailed
  <2>1. current \in Ids /\ about[current] \in Messages
    BY <1>5, AtHook DEF WebhookEventDone, WebhookEventFailed
  <2>2. about' = about /\ page' = page /\ hook' = "next"
        /\ \E x \in {"done", "failed", "pending"} :
              state' \in {state, [state EXCEPT ![current] = x]}
    BY <1>5 DEF WebhookEventDone, WebhookEventFailed
  <2> QED BY <2>1, <2>2 DEF NoticesTypeOK
<1>6. CASE /\ about' = about /\ state' = state /\ page' = page /\ current' = current
           /\ \/ hook' \in {hook, "idle"}
              \/ hook \in {"store", "rate", "done", "failed", "panicked"}
  BY <1>6
<1> HIDE DEF NoticeHeld
<1>7. \/ \E m \in Messages : Receive(m)
      \/ \E i \in Ids : ComesDue(i) \/ RetryEvent(i)
      \/ ReadPage \/ NextEvent \/ WebhookEventDone \/ WebhookEventFailed
      \/ /\ about' = about /\ state' = state /\ page' = page /\ current' = current
         /\ \/ hook' \in {hook, "idle"}
            \/ hook \in {"store", "rate", "done", "failed", "panicked"}
  BY DEF Next, vars, HookStep, Work, StoreMessage, RecordRating, StoreFault,
     TakeJob, SkipStep, DoStep, MarkStep, FinishJob, LoadFault, StepPanics, Lapse,
     RenewalsFail, Renew, Freed, Stop, HookCancelled, Stopped, Crash, Start
<1> QED BY <1>1, <1>2, <1>3, <1>4, <1>5, <1>6, <1>7

\* A worker has nothing in hand that was not stored.
LEMMA HeldNext == ASSUME TInv, [Next]_vars PROVE Held'
<1> Held /\ StoredFirst /\ JobsTypeOK /\ WorkersTypeOK BY DEF TInv, TypeOK, Claims
<1> USE DEF Held, JobsTypeOK, WorkersTypeOK
<1>1. CASE StoreMessage
  <2>1. about[current] \in Messages BY <1>1, AtHook DEF StoreMessage
  <2>2. UNCHANGED working /\ job' \in {job, [job EXCEPT ![about[current]] = "waiting"]}
    BY <1>1 DEF StoreMessage
  <2> QED BY <2>1, <2>2
<1>2. ASSUME NEW w \in Workers, TakeJob(w) PROVE Held'
  <2>1. PICK m \in Messages :
          /\ Takable(m)
          /\ mine' = [mine EXCEPT ![w] = m]
          /\ done' = [done EXCEPT ![w] = Known(m)] /\ step' = [step EXCEPT ![w] = 1]
          /\ at' \in {[at EXCEPT ![w] = "giveup"], [at EXCEPT ![w] = "run"]}
          /\ job' = job
    BY <1>2 DEF TakeJob
  <2>2. job[m] # "none" BY <2>1 DEF Takable, Waiting
  <2> QED BY <2>1, <2>2
<1>3. ASSUME NEW w \in Workers, SkipStep(w) PROVE Held'
  <2>1. /\ at[w] = "run" /\ at' \in {at, [at EXCEPT ![w] = "finish"]}
        /\ step' \in {step, [step EXCEPT ![w] = @ + 1]}
        /\ UNCHANGED <<jobs, mine, done>>
    BY <1>3 DEF SkipStep
  <2>2. \A v \in Workers : (at'[v] = "idle") = (at[v] = "idle") BY <2>1
  <2>3. \A v \in Workers : at'[v] = "mark" => at[v] = "mark" /\ step'[v] = step[v]
    BY <2>1
  <2> QED BY <2>1, <2>2, <2>3
<1>4. ASSUME NEW w \in Workers, DoStep(w) PROVE Held'
  <2>1. /\ at[w] = "run" /\ at' = [at EXCEPT ![w] = "mark"]
        /\ step[w] \in Steps \ done[w] /\ UNCHANGED <<jobs, mine, step, done>>
    BY <1>4 DEF DoStep
  <2> QED BY <2>1
<1>5. ASSUME NEW w \in Workers, MarkStep(w) PROVE Held'
  <2>1. /\ at[w] = "mark" /\ at' = [at EXCEPT ![w] = "run"]
        /\ done' = [done EXCEPT ![w] = @ \cup {step[w]}]
        /\ UNCHANGED <<job, mine, step>>
    BY <1>5 DEF MarkStep
  <2> QED BY <2>1
<1>6. ASSUME NEW w \in Workers, FinishJob(w) PROVE Held'
  <2>1. /\ at' = [at EXCEPT ![w] = "idle"]
        /\ job' \in {job, [job EXCEPT ![mine[w]] = "gone"]}
        /\ UNCHANGED <<mine, step, done>>
    BY <1>6 DEF FinishJob
  <2> QED BY <2>1
<1>7. ASSUME NEW w \in Workers, LoadFault(w) \/ StepPanics(w) PROVE Held'
  <2>1. at' = [at EXCEPT ![w] = "idle"] /\ UNCHANGED <<jobs, mine, step, done>>
    BY <1>7 DEF LoadFault, StepPanics
  <2> QED BY <2>1
<1>8. CASE Crash BY <1>8 DEF Crash
<1>9. CASE UNCHANGED <<job, working>> BY <1>9
<1> HIDE DEF Held, jobs, working
<1>10. \/ StoreMessage \/ Crash
       \/ \E w \in Workers : \/ TakeJob(w) \/ SkipStep(w) \/ DoStep(w) \/ MarkStep(w)
                             \/ FinishJob(w) \/ LoadFault(w) \/ StepPanics(w)
       \/ UNCHANGED <<job, working>>
  BY DEF Next, vars, HookStep, Work, Receive, ComesDue, RetryEvent, ReadPage,
     NextEvent, RecordRating, StoreFault, WebhookEventDone, WebhookEventFailed,
     Lapse, RenewalsFail, Renew, Freed, Stop, HookCancelled, Stopped, Start, jobs, working
<1> QED BY <1>1, <1>2, <1>3, <1>4, <1>5, <1>6, <1>7, <1>8, <1>9, <1>10

LEMMA TInvNext == ASSUME TInv, [Next]_vars PROVE TInv'
BY TypeNext, StoredFirstNext, NoticeHeldNext, HeldNext DEF TInv, Claims

\* Raising a counter of a step changes that one.
LEMMA BumpAt ==
    ASSUME NEW f \in [Messages -> [Steps -> Nat]], NEW m \in Messages, NEW s \in Steps
    PROVE  \A n \in Messages, t \in Steps :
              Bump(f, m, s)[n][t] = IF n = m /\ t = s THEN f[n][t] + 1 ELSE f[n][t]
<1> SUFFICES ASSUME NEW n \in Messages, NEW t \in Steps
             PROVE  Bump(f, m, s)[n][t] = IF n = m /\ t = s THEN f[n][t] + 1 ELSE f[n][t]
  OBVIOUS
<1>1. CASE n = m
  <2>1. Bump(f, m, s)[n] = [f[m] EXCEPT ![s] = @ + 1] BY <1>1 DEF Bump
  <2>2. f[m] \in [Steps -> Nat] OBVIOUS
  <2> QED BY <1>1, <2>1, <2>2
<1>2. CASE n # m BY <1>2 DEF Bump
<1> QED BY <1>1, <1>2

\* What a worker's run and its mark do to the counters of its step.
LEMMA BumpHand ==
    ASSUME TInv, NEW w \in Workers, mine[w] \in Messages, step[w] \in Steps,
           NEW n \in Messages, NEW t \in Steps
    PROVE  /\ Bump(did, mine[w], step[w])[n][t] =
                IF n = mine[w] /\ t = step[w] THEN did[n][t] + 1 ELSE did[n][t]
           /\ Bump(cut, mine[w], step[w])[n][t] =
                IF n = mine[w] /\ t = step[w] THEN cut[n][t] + 1 ELSE cut[n][t]
<1>1. did \in [Messages -> [Steps -> Nat]] BY DEF TInv, TypeOK, CountsTypeOK
<1>2. cut \in [Messages -> [Steps -> Nat]] BY DEF TInv, TypeOK, CountsTypeOK
<1>3. \A n1 \in Messages, t1 \in Steps :
         Bump(did, mine[w], step[w])[n1][t1] =
           IF n1 = mine[w] /\ t1 = step[w] THEN did[n1][t1] + 1 ELSE did[n1][t1]
  BY <1>1, BumpAt
<1>4. \A n1 \in Messages, t1 \in Steps :
         Bump(cut, mine[w], step[w])[n1][t1] =
           IF n1 = mine[w] /\ t1 = step[w] THEN cut[n1][t1] + 1 ELSE cut[n1][t1]
  BY <1>2, BumpAt
<1> QED BY <1>3, <1>4

\* Two sets that differ in w at most: their sizes differ by whether w is in them.
In(w, S) == IF w \in S THEN 1 ELSE 0
Shifts(S, T, w) == Cardinality(T) + In(w, S) = Cardinality(S) + In(w, T)

LEMMA ByOne ==
    ASSUME NEW S, IsFiniteSet(S), NEW T, IsFiniteSet(T), NEW w, S \ {w} = T \ {w}
    PROVE  Shifts(S, T, w)
<1> Cardinality(S) \in Nat /\ Cardinality(T) \in Nat BY FS_CardinalityType
<1>1. CASE w \in S /\ w \notin T
  <2>1. T = S \ {w} BY <1>1
  <2> QED BY <1>1, <2>1, FS_RemoveElement DEF Shifts, In
<1>2. CASE w \in T /\ w \notin S
  <2>1. S = T \ {w} BY <1>2
  <2> QED BY <1>2, <2>1, FS_RemoveElement DEF Shifts, In
<1>3. CASE (w \in S) = (w \in T)
  <2>1. S = T BY <1>3
  <2> QED BY <2>1 DEF Shifts
<1> QED BY <1>1, <1>2, <1>3

\* When only worker w moves, who has a job, marks a step or is ahead of it changes by w.
LEMMA OneMoves ==
    ASSUME NEW w \in Workers, WorkersTypeOK,
           \A v \in Workers \ {w} : /\ at'[v] = at[v] /\ mine'[v] = mine[v]
                                     /\ step'[v] = step[v] /\ done'[v] = done[v],
           NEW m \in Messages, NEW s \in Steps
    PROVE  /\ Shifts(Crew(m), Crew(m)', w) /\ Shifts(Marking(m, s), Marking(m, s)', w)
           /\ Shifts(Ahead(m, s), Ahead(m, s)', w)
<1>1. Crew(m) \ {w} = Crew(m)' \ {w} BY DEF Crew
<1>2. Marking(m, s) \ {w} = Marking(m, s)' \ {w} BY DEF Marking, Crew
<1>3. Ahead(m, s) \ {w} = Ahead(m, s)' \ {w} BY DEF Ahead, Crew
<1>4. /\ Crew(m)' \subseteq Workers /\ Marking(m, s)' \subseteq Workers
      /\ Ahead(m, s)' \subseteq Workers
  BY DEF Crew, Marking, Ahead
<1>5. IsFiniteSet(Crew(m)') /\ IsFiniteSet(Marking(m, s)') /\ IsFiniteSet(Ahead(m, s)')
  BY <1>4, InboundAssumption, FS_Subset
<1> QED BY <1>1, <1>2, <1>3, <1>5, CrewFinite, ByOne

LEMMA PrimedFinite ==
    ASSUME NEW m, NEW s
    PROVE  /\ Cardinality(Crew(m)') \in Nat /\ Cardinality(Marking(m, s)') \in Nat
           /\ Cardinality(Ahead(m, s)') \in Nat
<1>1. /\ Crew(m)' \subseteq Workers /\ Marking(m, s)' \subseteq Workers
      /\ Ahead(m, s)' \subseteq Workers
  BY DEF Crew, Marking, Ahead
<1> QED BY <1>1, InboundAssumption, FS_Subset, FS_CardinalityType

\* Who marks a step and who may yet run it are different people of the crew.
LEMMA CrewRoom ==
    ASSUME NEW m, NEW s
    PROVE  Cardinality(Marking(m, s)) + Cardinality(Ahead(m, s)) <= Cardinality(Crew(m))
<1>1. Marking(m, s) \cap Ahead(m, s) = {} BY DEF Marking, Ahead
<1>2. Marking(m, s) \cup Ahead(m, s) \subseteq Crew(m) BY DEF Marking, Ahead
<1>3. Cardinality(Marking(m, s) \cup Ahead(m, s))
        = Cardinality(Marking(m, s)) + Cardinality(Ahead(m, s)) - Cardinality({})
  BY <1>1, CrewFinite, FS_Union
<1>4. Cardinality(Marking(m, s) \cup Ahead(m, s)) <= Cardinality(Crew(m))
  BY <1>2, CrewFinite, FS_Subset
<1> QED BY <1>3, <1>4, CrewFinite, FS_EmptySet

\* What the counters of a step and the places of one worker come to, before and after.
LEMMA Balance ==
    ASSUME TInv, Counted, NEW w \in Workers,
           \A v \in Workers \ {w} : /\ at'[v] = at[v] /\ mine'[v] = mine[v]
                                     /\ step'[v] = step[v] /\ done'[v] = done[v],
           NEW m \in Messages, NEW s \in Steps
    PROVE  /\ did[m][s] \in Nat /\ cut[m][s] \in Nat /\ overlaps[m] \in Nat
           /\ Cardinality(Crew(m)) \in Nat /\ Cardinality(Crew(m)') \in Nat
           /\ Cardinality(Marking(m, s)) \in Nat /\ Cardinality(Marking(m, s)') \in Nat
           /\ Cardinality(Ahead(m, s)) \in Nat /\ Cardinality(Ahead(m, s)') \in Nat
           /\ Manned(m) /\ Unmarked(m, s) /\ Bounded(m, s)
           /\ Shifts(Crew(m), Crew(m)', w) /\ Shifts(Marking(m, s), Marking(m, s)', w)
           /\ Shifts(Ahead(m, s), Ahead(m, s)', w)
<1>1. /\ did \in [Messages -> [Steps -> Nat]] /\ cut \in [Messages -> [Steps -> Nat]]
      /\ overlaps \in [Messages -> Nat] /\ WorkersTypeOK
  BY DEF TInv, TypeOK, CountsTypeOK, JobsTypeOK
<1>2. Manned(m) /\ Unmarked(m, s) /\ Bounded(m, s) BY DEF Counted
<1>3. did[m][s] \in Nat /\ cut[m][s] \in Nat /\ overlaps[m] \in Nat BY <1>1
<1>4. /\ Shifts(Crew(m), Crew(m)', w) /\ Shifts(Marking(m, s), Marking(m, s)', w)
      /\ Shifts(Ahead(m, s), Ahead(m, s)', w)
  BY <1>1, OneMoves
<1> QED BY <1>2, <1>3, <1>4, CrewFinite, PrimedFinite

LEMMA CountedNext == ASSUME TInv, Counted, [Next]_vars PROVE Counted'
<1>0. /\ WorkersTypeOK /\ marked \in [Messages -> SUBSET Steps]
      /\ job \in [Messages -> {"none", "waiting", "gone"}] /\ overlaps \in [Messages -> Nat]
  BY DEF TInv, TypeOK, JobsTypeOK
<1> USE DEF WorkersTypeOK
\* A run of a step: who was ahead of it now marks it.
<1>1. ASSUME NEW w \in Workers, DoStep(w),
             NEW m \in Messages, NEW s \in Steps
      PROVE  (Manned(m) /\ Unmarked(m, s) /\ Bounded(m, s))'
  <2>1. /\ at[w] = "run" /\ step[w] \in Steps \ done[w]
        /\ did' = Bump(did, mine[w], step[w]) /\ at' = [at EXCEPT ![w] = "mark"]
        /\ UNCHANGED <<cut, jobs, mine, step, done>>
    BY <1>1 DEF DoStep
  <2>2. \A v \in Workers \ {w} : /\ at'[v] = at[v] /\ mine'[v] = mine[v]
                                 /\ step'[v] = step[v] /\ done'[v] = done[v]
    BY <1>0, <2>1
  <2>3. mine[w] \in Messages BY <2>1, InHand
  <2>4. did'[m][s] = IF m = mine[w] /\ s = step[w] THEN did[m][s] + 1 ELSE did[m][s]
    BY <2>1, <2>3, BumpHand
  <2>5. at'[w] = "mark" BY <1>0, <2>1
  <2>6. (w \in Crew(m)) = (w \in Crew(m)') BY <2>1, <2>5 DEF Crew
  <2>7. /\ w \notin Marking(m, s) /\ (w \in Marking(m, s)') = (m = mine[w] /\ s = step[w])
    BY <2>1, <2>5 DEF Marking, Crew
  <2>8. m = mine[w] /\ s = step[w] => w \in Ahead(m, s) /\ w \notin Ahead(m, s)'
    BY <2>1, <2>5 DEF Ahead, Crew
  <2>9. ~(m = mine[w] /\ s = step[w]) => (w \in Ahead(m, s)) = (w \in Ahead(m, s)')
    BY <2>1, <2>5 DEF Ahead, Crew
  <2>10. cut'[m][s] = cut[m][s] /\ overlaps'[m] = overlaps[m] /\ marked'[m] = marked[m] /\ job'[m] = job[m]
    BY <2>1
  <2> QED BY <2>2, <2>4, <2>6, <2>7, <2>8, <2>9, <2>10, Balance
          DEF Shifts, In, Manned, Unmarked, Bounded
\* A mark is stored, or fails: then the run counts as cut off.
<1>2. ASSUME NEW w \in Workers, MarkStep(w),
             NEW m \in Messages, NEW s \in Steps
      PROVE  (Manned(m) /\ Unmarked(m, s) /\ Bounded(m, s))'
  <2>1. /\ at[w] = "mark" /\ did' = did /\ at' = [at EXCEPT ![w] = "run"]
        /\ done' = [done EXCEPT ![w] = @ \cup {step[w]}]
        /\ UNCHANGED <<job, overlaps, mine, step>>
    BY <1>2 DEF MarkStep
  <2>2. /\ mine[w] \in Messages /\ job[mine[w]] # "none" /\ step[w] \in Steps
    BY <2>1, InHand
  <2>3. \A v \in Workers \ {w} : /\ at'[v] = at[v] /\ mine'[v] = mine[v]
                                 /\ step'[v] = step[v] /\ done'[v] = done[v]
    BY <1>0, <2>1
  <2>4. at'[w] = "run" /\ done'[w] = done[w] \cup {step[w]} BY <1>0, <2>1
  <2>5. (w \in Crew(m)) = (w \in Crew(m)') BY <2>1, <2>4 DEF Crew
  <2>6. /\ w \notin Marking(m, s)' /\ (w \in Marking(m, s)) = (m = mine[w] /\ s = step[w])
    BY <2>1, <2>4 DEF Marking, Crew
  <2>7. (w \in Ahead(m, s)) = (w \in Ahead(m, s)') BY <2>1, <2>4 DEF Ahead, Crew
  <2>8. did'[m][s] = did[m][s] /\ overlaps'[m] = overlaps[m] /\ job'[m] = job[m] BY <2>1
  <2>9. \/ /\ cut'[m][s] = cut[m][s]
           /\ s \in marked[m] => s \in marked'[m]
           /\ m = mine[w] /\ s = step[w] => s \in marked'[m] \/ job[m] = "gone"
        \/ /\ cut'[m][s] = IF m = mine[w] /\ s = step[w] THEN cut[m][s] + 1 ELSE cut[m][s]
           /\ marked'[m] = marked[m]
    <3>1. CASE /\ cut' = cut
               /\ marked' = IF Waiting(mine[w])
                            THEN [marked EXCEPT ![mine[w]] = @ \cup {step[w]}] ELSE marked
      <4>1. ~Waiting(mine[w]) => job[mine[w]] = "gone" BY <1>0, <2>2 DEF Waiting
      <4> QED BY <1>0, <2>2, <3>1, <4>1
    <3>2. CASE cut' = Bump(cut, mine[w], step[w]) /\ marked' = marked
      BY <2>2, <3>2, BumpHand
    <3> QED BY <1>2, <3>1, <3>2 DEF MarkStep
  <2> QED BY <2>3, <2>5, <2>6, <2>7, <2>8, <2>9, Balance
          DEF Shifts, In, Manned, Unmarked, Bounded
\* A worker leaves its job, perhaps with a run of a step cut off.
<1>3. ASSUME NEW w \in Workers, LoadFault(w) \/ StepPanics(w) \/ FinishJob(w),
             NEW m \in Messages, NEW s \in Steps
      PROVE  (Manned(m) /\ Unmarked(m, s) /\ Bounded(m, s))'
  <2>1. /\ at[w] \in {"run", "finish", "giveup"} /\ at' = [at EXCEPT ![w] = "idle"]
        /\ UNCHANGED <<mine, step, done, marked, overlaps>>
        /\ job' \in {job, [job EXCEPT ![mine[w]] = "gone"]}
    BY <1>3 DEF LoadFault, StepPanics, FinishJob
  <2>2. mine[w] \in Messages BY <2>1, InHand
  <2>3. \A v \in Workers \ {w} : /\ at'[v] = at[v] /\ mine'[v] = mine[v]
                                 /\ step'[v] = step[v] /\ done'[v] = done[v]
    BY <1>0, <2>1
  <2>4. at'[w] = "idle" BY <1>0, <2>1
  <2>5. w \notin Crew(m)' BY <2>4 DEF Crew
  <2>6. w \notin Marking(m, s) /\ w \notin Marking(m, s)' BY <2>1, <2>4 DEF Marking, Crew
  <2>7. w \notin Ahead(m, s)' BY <2>4 DEF Ahead, Crew
  <2>8. \/ did'[m][s] = did[m][s] /\ cut'[m][s] = cut[m][s]
        \/ did'[m][s] = did[m][s] + 1 /\ cut'[m][s] = cut[m][s] + 1
    <3>1. CASE did' = did /\ cut' = cut BY <3>1
    <3>2. CASE /\ step[w] \in Steps
               /\ did' = Bump(did, mine[w], step[w]) /\ cut' = Bump(cut, mine[w], step[w])
      <4>1. /\ did'[m][s] = IF m = mine[w] /\ s = step[w] THEN did[m][s] + 1 ELSE did[m][s]
            /\ cut'[m][s] = IF m = mine[w] /\ s = step[w] THEN cut[m][s] + 1 ELSE cut[m][s]
        BY <2>2, <3>2, BumpHand
      <4> QED BY <4>1
    <3> QED BY <1>3, <3>1, <3>2 DEF LoadFault, StepPanics, FinishJob
  <2>9. /\ overlaps'[m] = overlaps[m] /\ marked'[m] = marked[m]
        /\ job[m] = "gone" => job'[m] = "gone"
    BY <1>0, <2>1, <2>2
  <2> QED BY <2>3, <2>5, <2>6, <2>7, <2>8, <2>9, Balance
          DEF Shifts, In, Manned, Unmarked, Bounded
<1>4. ASSUME NEW w \in Workers, SkipStep(w),
             NEW m \in Messages, NEW s \in Steps
      PROVE  (Manned(m) /\ Unmarked(m, s) /\ Bounded(m, s))'
  <2>1. /\ at[w] = "run" /\ at' \in {at, [at EXCEPT ![w] = "finish"]}
        /\ step' \in {step, [step EXCEPT ![w] = @ + 1]}
        /\ UNCHANGED <<jobs, mine, done, did, cut>>
    BY <1>4 DEF SkipStep
  <2>2. \A v \in Workers \ {w} : /\ at'[v] = at[v] /\ mine'[v] = mine[v]
                                 /\ step'[v] = step[v] /\ done'[v] = done[v]
    BY <1>0, <2>1
  <2>3. at'[w] \in {"run", "finish"} BY <1>0, <2>1
  <2>4. (w \in Crew(m)) = (w \in Crew(m)') BY <2>1, <2>3 DEF Crew
  <2>5. w \notin Marking(m, s) /\ w \notin Marking(m, s)' BY <2>1, <2>3 DEF Marking, Crew
  <2>6. w \in Ahead(m, s)' => w \in Ahead(m, s) BY <2>1, <2>3 DEF Ahead, Crew
  <2>7. /\ did'[m][s] = did[m][s] /\ cut'[m][s] = cut[m][s] /\ overlaps'[m] = overlaps[m]
        /\ marked'[m] = marked[m] /\ job'[m] = job[m]
    BY <2>1
  <2> QED BY <2>2, <2>4, <2>5, <2>6, <2>7, Balance
          DEF Shifts, In, Manned, Unmarked, Bounded
\* A job is taken, from nobody or from workers that still have it.
<1>5. ASSUME NEW w \in Workers, TakeJob(w),
             NEW m \in Messages, NEW s \in Steps
      PROVE  (Manned(m) /\ Unmarked(m, s) /\ Bounded(m, s))'
  <2>1. PICK n \in Messages :
          /\ Takable(n)
          /\ overlaps' = IF Runs(n) THEN [overlaps EXCEPT ![n] = @ + 1] ELSE overlaps
          /\ mine' = [mine EXCEPT ![w] = n] /\ done' = [done EXCEPT ![w] = Known(n)]
          /\ step' = [step EXCEPT ![w] = 1]
          /\ at' \in {[at EXCEPT ![w] = "giveup"], [at EXCEPT ![w] = "run"]}
          /\ at[w] = "idle" /\ UNCHANGED <<job, marked, did, cut>>
    BY <1>5 DEF TakeJob
  <2>2. \A v \in Workers \ {w} : /\ at'[v] = at[v] /\ mine'[v] = mine[v]
                                 /\ step'[v] = step[v] /\ done'[v] = done[v]
    BY <1>0, <2>1
  <2>3. at'[w] \in {"giveup", "run"} /\ mine'[w] = n /\ done'[w] = marked[n]
    BY <1>0, <2>1 DEF Known
  <2>4. w \notin Crew(m) /\ (w \in Crew(m)') = (m = n) BY <2>1, <2>3 DEF Crew
  <2>5. w \notin Marking(m, s) /\ w \notin Marking(m, s)' BY <2>1, <2>3 DEF Marking, Crew
  <2>6. w \notin Ahead(m, s) /\ (w \in Ahead(m, s)' => m = n /\ s \notin marked[m])
    BY <2>1, <2>3 DEF Ahead, Crew
  <2>7. /\ did'[m][s] = did[m][s] /\ cut'[m][s] = cut[m][s]
        /\ marked'[m] = marked[m] /\ job'[m] = job[m]
    BY <2>1
  <2>8. overlaps'[m] = IF m = n /\ Crew(m) # {} THEN overlaps[m] + 1 ELSE overlaps[m]
    BY <1>0, <2>1 DEF Runs
  <2>9. job[n] # "gone" BY <2>1 DEF Takable, Waiting
  <2>10. Crew(m) = {} => Cardinality(Crew(m)) = 0 BY FS_EmptySet
  <2>11. Manned(m)' BY <2>2, <2>4, <2>8, <2>10, Balance DEF Shifts, In, Manned
  <2>12. Unmarked(m, s)' BY <2>2, <2>5, <2>7, Balance DEF Shifts, In, Unmarked
  <2>13. Bounded(m, s)'
    <3>1. CASE w \notin Ahead(m, s)'
      BY <2>2, <2>6, <2>7, <2>8, <3>1, Balance DEF Shifts, In, Bounded
    <3>2. CASE w \in Ahead(m, s)'
      <4>1. did[m][s] = cut[m][s] + Cardinality(Marking(m, s))
        BY <2>2, <2>6, <2>9, <3>2, Balance DEF Unmarked
      <4>2. Cardinality(Crew(m)') = Cardinality(Crew(m)) + 1
        BY <2>2, <2>4, <2>6, <3>2, Balance DEF Shifts, In
      <4>3. Cardinality(Ahead(m, s)') = Cardinality(Ahead(m, s)) + 1
        BY <2>2, <2>6, <3>2, Balance DEF Shifts, In
      <4>4. Cardinality(Marking(m, s)) + Cardinality(Ahead(m, s)) <= Cardinality(Crew(m))
        BY CrewRoom
      <4>5. overlaps'[m] \in Nat /\ Cardinality(Crew(m)') <= 1 + overlaps'[m]
        BY <2>2, <2>8, <2>11, Balance DEF Manned
      <4> QED BY <2>2, <2>7, <4>1, <4>2, <4>3, <4>4, <4>5, Balance DEF Bounded
    <3> QED BY <3>1, <3>2
  <2> QED BY <2>11, <2>12, <2>13
<1>6. ASSUME Crash, NEW m \in Messages, NEW s \in Steps
      PROVE  (Manned(m) /\ Unmarked(m, s) /\ Bounded(m, s))'
  <2>1. /\ did' = did /\ UNCHANGED jobs
        /\ cut'[m][s] = cut[m][s] + Cardinality(Marking(m, s))
        /\ \A w \in Workers : at'[w] = "idle"
    BY <1>6 DEF Crash
  <2>2. Crew(m)' = {} /\ Marking(m, s)' = {} /\ Ahead(m, s)' = {}
    BY <2>1 DEF Crew, Marking, Ahead
  <2>3. Cardinality({}) = 0 BY FS_EmptySet
  <2>4. did[m][s] \in Nat /\ cut[m][s] \in Nat /\ overlaps[m] \in Nat
    BY DEF TInv, TypeOK, CountsTypeOK, JobsTypeOK
  <2>5. Unmarked(m, s) /\ Bounded(m, s) BY DEF Counted
  <2> QED BY <2>1, <2>2, <2>3, <2>4, <2>5, CrewFinite DEF Manned, Unmarked, Bounded
\* What moves no worker: a message is stored, or nothing counted changes.
<1>7. ASSUME UNCHANGED <<did, cut, marked, overlaps, working>>,
             \A m \in Messages : job'[m] = "gone" <=> job[m] = "gone",
             NEW m \in Messages, NEW s \in Steps
      PROVE  (Manned(m) /\ Unmarked(m, s) /\ Bounded(m, s))'
  <2>1. Crew(m)' = Crew(m) /\ Marking(m, s)' = Marking(m, s) /\ Ahead(m, s)' = Ahead(m, s)
    BY <1>7 DEF Crew, Marking, Ahead
  <2>2. Manned(m) /\ Unmarked(m, s) /\ Bounded(m, s) BY DEF Counted
  <2> QED BY <1>7, <2>1, <2>2 DEF Manned, Unmarked, Bounded
<1>8. ASSUME StoreMessage PROVE /\ UNCHANGED <<did, cut, marked, overlaps, working>>
                                /\ \A m \in Messages : job'[m] = "gone" <=> job[m] = "gone"
  <2>1. about[current] \in Messages BY <1>8, AtHook DEF StoreMessage
  <2>2. row[about[current]] = 0 => job[about[current]] = "none"
    BY <2>1 DEF TInv, Claims, StoredFirst
  <2> QED BY <1>0, <1>8, <2>1, <2>2 DEF StoreMessage
<1>9. SUFFICES ASSUME NEW m \in Messages, NEW s \in Steps
                PROVE  (Manned(m) /\ Unmarked(m, s) /\ Bounded(m, s))'
  BY DEF Counted
<1> HIDE DEF WorkersTypeOK, working, jobs
<1>10. \/ \E w \in Workers : \/ DoStep(w) \/ MarkStep(w) \/ LoadFault(w) \/ StepPanics(w)
                             \/ FinishJob(w) \/ SkipStep(w) \/ TakeJob(w)
       \/ Crash \/ StoreMessage
       \/ UNCHANGED <<did, cut, marked, overlaps, job, working>>
  BY DEF Next, vars, HookStep, Work, Receive, ComesDue, RetryEvent, ReadPage, NextEvent,
     RecordRating, StoreFault, WebhookEventDone, WebhookEventFailed, Lapse, RenewalsFail,
     Renew, Freed, Stop, HookCancelled, Stopped, Start, working, jobs
<1> QED BY <1>1, <1>2, <1>3, <1>4, <1>5, <1>6, <1>7, <1>8, <1>10

-----------------------------------------------------------------------------
\* Notices are written down in the order of their ids, and a notice that is
\* handled, or about to be called so, has its message stored.
Handled ==
    /\ \A i \in Ids : state[i] # "none" => i <= arrived
    /\ \A i \in page : i <= arrived
    /\ hook \in {"store", "rate", "done", "failed", "panicked"} => current <= arrived
    /\ hook \in {"rate", "done"} => row[about[current]] # 0
    /\ HandledIsStored

LEMMA HandledNext == ASSUME TInv, Handled, [Next]_vars PROVE Handled'
<1> NoticesTypeOK /\ HookTypeOK /\ RowsTypeOK /\ NoticeHeld BY DEF TInv, TypeOK, Claims
<1> USE DEF Handled, HandledIsStored, NoticesTypeOK, HookTypeOK, RowsTypeOK
<1>1. ASSUME NEW m \in Messages, Receive(m) PROVE Handled'
  <2>1. /\ about' = [about EXCEPT ![arrived + 1] = m]
        /\ state' = [state EXCEPT ![arrived + 1] = "pending"]
        /\ arrived' = arrived + 1 /\ UNCHANGED <<row, hooked>>
    BY <1>1 DEF Receive
  <2>2. \A i \in Ids : i <= arrived => about'[i] = about[i] /\ state'[i] = state[i]
    BY <2>1 DEF Ids
  <2>3. \A i \in Ids : i > arrived /\ i # arrived + 1 => state'[i] = "none" BY <2>1 DEF Ids
  <2>4. \A i \in Ids : state'[i] = "done" => i <= arrived BY <2>1, <2>3 DEF Ids
  <2>5. hook \in {"store", "rate", "done", "failed", "panicked"} => current \in Ids
    BY DEF NoticeHeld
  <2> QED BY <2>1, <2>2, <2>3, <2>4, <2>5 DEF Ids
<1>2. ASSUME NEW i \in Ids, ComesDue(i) \/ RetryEvent(i) PROVE Handled'
  <2>1. /\ UNCHANGED <<arrived, about, row, hooked>>
        /\ state' = state \/ (state[i] = "failed" /\ state' = [state EXCEPT ![i] = "pending"])
    BY <1>2 DEF ComesDue, RetryEvent
  <2> QED BY <2>1
<1>3. CASE ReadPage
  <2>1. UNCHANGED <<notices, row>> /\ hook' = "next" /\ \A i \in page' : state[i] # "none" /\ i \in Ids
    BY <1>3 DEF ReadPage
  <2> QED BY <2>1
<1>4. CASE NextEvent BY <1>4 DEF NextEvent
<1>5. CASE StoreMessage
  <2>1. about[current] \in Messages BY <1>5, AtHook DEF StoreMessage
  <2>2. /\ UNCHANGED <<notices, page, current>> /\ hook = "store"
        /\ \A m \in Messages : row[m] # 0 => row'[m] = row[m]
        /\ row'[about[current]] # 0
    BY <1>5, <2>1, StoredType DEF StoreMessage
  <2>3. \A i \in Ids : state[i] # "none" => about[i] \in Messages BY DEF NoticeHeld
  <2> QED BY <1>5, <2>1, <2>2, <2>3
<1>6. CASE RecordRating BY <1>6 DEF RecordRating
<1>7. CASE WebhookEventDone
  <2>1. current \in Ids BY <1>7, AtHook DEF WebhookEventDone
  <2>2. /\ state' \in {state, [state EXCEPT ![current] = "done"]}
        /\ UNCHANGED <<arrived, about, row, page, current>> /\ hook = "done" /\ hook' = "next"
    BY <1>7 DEF WebhookEventDone
  <2> QED BY <2>1, <2>2
<1>8. CASE WebhookEventFailed
  <2>1. current \in Ids BY <1>8, AtHook DEF WebhookEventFailed
  <2>2. /\ UNCHANGED <<arrived, about, row, page, current>> /\ hook' = "next"
        /\ hook \in {"failed", "panicked"}
        /\ \E s \in {"failed", "pending"} : state' \in {state, [state EXCEPT ![current] = s]}
    BY <1>8 DEF WebhookEventFailed
  <2> QED BY <2>1, <2>2
<1>9. CASE /\ UNCHANGED <<arrived, about, state, row, page, current>>
           /\ hook' \in {hook, "idle", "failed", "panicked"}
           /\ hook' \in {"failed", "panicked"} => hook \in {"store", "failed", "panicked"}
  BY <1>9
<1> HIDE DEF Handled
<1>10. \/ \E m \in Messages : Receive(m)
       \/ \E i \in Ids : ComesDue(i) \/ RetryEvent(i)
       \/ ReadPage \/ NextEvent \/ StoreMessage \/ RecordRating
       \/ WebhookEventDone \/ WebhookEventFailed
       \/ /\ UNCHANGED <<arrived, about, state, row, page, current>>
          /\ hook' \in {hook, "idle", "failed", "panicked"}
          /\ hook' \in {"failed", "panicked"} => hook \in {"store", "failed", "panicked"}
  BY DEF Next, vars, HookStep, Work, StoreFault, TakeJob, SkipStep, DoStep, MarkStep,
     FinishJob, LoadFault, StepPanics, Lapse, RenewalsFail, Renew, Freed, Stop, HookCancelled, Stopped, Crash, Start
<1> QED BY <1>1, <1>2, <1>3, <1>4, <1>5, <1>6, <1>7, <1>8, <1>9, <1>10

-----------------------------------------------------------------------------
\* A step that ran is known; it runs in a worker's hand.
LEMMA DidGrows ==
    ASSUME TInv, [Next]_vars, NEW m \in Messages, NEW s \in Steps
    PROVE  /\ did[m][s] \in Nat /\ did'[m][s] \in Nat
           /\ did[m][s] > 0 => did'[m][s] > 0
           /\ did'[m][s] > 0 => did[m][s] > 0 \/ \E w \in Workers : at[w] = "run" /\ mine[w] = m
<1>1. did \in [Messages -> [Steps -> Nat]] BY DEF TInv, TypeOK, CountsTypeOK
<1>2. did[m][s] \in Nat BY <1>1
<1>3. ASSUME NEW w \in Workers, DoStep(w) \/ StepPanics(w)
      PROVE  \/ did' = did
             \/ /\ did'[m][s] = (IF m = mine[w] /\ s = step[w] THEN did[m][s] + 1 ELSE did[m][s])
                /\ at[w] = "run"
  <2>1. /\ at[w] = "run" /\ step[w] \in Steps
        /\ did' = did \/ did' = Bump(did, mine[w], step[w])
    BY <1>3 DEF DoStep, StepPanics
  <2>2. mine[w] \in Messages BY <2>1, InHand
  <2> QED BY <2>1, <2>2, BumpHand
<1>4. did' = did \/ \E w \in Workers : DoStep(w) \/ StepPanics(w)
  BY DEF Next, vars, HookStep, Work, Receive, ComesDue, RetryEvent, ReadPage, NextEvent,
     StoreMessage, RecordRating, StoreFault, WebhookEventDone, WebhookEventFailed, TakeJob,
     SkipStep, MarkStep, FinishJob, LoadFault, Lapse, RenewalsFail, Renew, Freed, Stop, HookCancelled, Stopped, Crash, Start
<1>5. CASE did' = did BY <1>2, <1>5
<1>6. ASSUME NEW w \in Workers, at[w] = "run",
             did'[m][s] = (IF m = mine[w] /\ s = step[w] THEN did[m][s] + 1 ELSE did[m][s])
      PROVE  /\ did'[m][s] \in Nat /\ did[m][s] > 0 => did'[m][s] > 0
             /\ did'[m][s] > 0 => did[m][s] > 0 \/ \E v \in Workers : at[v] = "run" /\ mine[v] = m
  BY <1>2, <1>6
<1> QED BY <1>2, <1>3, <1>4, <1>5, <1>6

\* A message is stored behind all that are stored.
LEMMA StoredGrows ==
    ASSUME RowsTypeOK, NEW m \in Messages, row[m] = 0, row' = [row EXCEPT ![m] = Stored + 1]
    PROVE  Stored' = Stored + 1
<1> DEFINE S == {p \in Messages : row[p] # 0}
<1>1. IsFiniteSet(S) BY InboundAssumption, FS_Subset
<1>2. {p \in Messages : row'[p] # 0} = S \cup {m} BY StoredType DEF RowsTypeOK
<1>3. m \notin S OBVIOUS
<1> HIDE DEF S
<1>4. Cardinality(S \cup {m}) = Cardinality(S) + 1 BY <1>1, <1>3, FS_AddElement
<1> QED BY <1>2, <1>4 DEF Stored, S

\* Of one conversation the messages are worked on in the order of storing: who is in
\* hand, and who was, has no older one that still waits.
Turns ==
    /\ \A m \in Messages : row[m] <= Stored
    /\ \A m \in Messages, s \in Steps : did[m][s] > 0 => row[m] # 0
    /\ \A w \in Workers : at[w] # "idle" =>
          \A p \in Messages : Older(p, mine[w]) => ~Waiting(p)
    /\ OneAfterAnother

LEMMA TurnsNext == ASSUME TInv, Turns, [Next]_vars PROVE Turns'
<1> USE DEF Turns, OneAfterAnother
<1> RowsTypeOK /\ JobsTypeOK /\ WorkersTypeOK /\ StoredFirst BY DEF TInv, TypeOK, Claims
<1>1. CASE StoreMessage /\ row' # row
  <2> DEFINE m == about[current]
  <2>1. m \in Messages BY <1>1, AtHook DEF StoreMessage
  <2>2. /\ row[m] = 0 /\ row' = [row EXCEPT ![m] = Stored + 1]
        /\ job' \in {job, [job EXCEPT ![m] = "waiting"]} /\ UNCHANGED <<working, did>>
    BY <1>1 DEF StoreMessage
  <2> HIDE DEF m
  <2>3. Stored' = Stored + 1 /\ Stored \in Nat BY <2>1, <2>2, StoredGrows, StoredType
  <2>4. \A p \in Messages : /\ row[p] \in Nat /\ row[p] <= Stored
                            /\ row'[p] = IF p = m THEN Stored + 1 ELSE row[p]
                            /\ p # m => job'[p] = job[p]
    BY <2>1, <2>2 DEF RowsTypeOK, JobsTypeOK
  <2>5. \A p, q \in Messages : q # m /\ Older(p, q)' => p # m /\ Older(p, q)
    BY <2>3, <2>4 DEF Older
  <2>6. \A w \in Workers : at[w] # "idle" => mine[w] \in Messages /\ mine[w] # m
    BY <2>2, InHand DEF StoredFirst, Waiting
  <2>7. \A p \in Messages : p # m => Waiting(p)' = Waiting(p) BY <2>4 DEF Waiting
  <2>8. \A s \in Steps : ~(did[m][s] > 0) BY <2>1, <2>2
  <2>9. (\A p \in Messages : row[p] <= Stored)' BY <2>3, <2>4
  <2>10. (\A p \in Messages, s \in Steps : did[p][s] > 0 => row[p] # 0)' BY <2>2, <2>3, <2>4
  <2>11. (\A w \in Workers : at[w] # "idle" => \A p \in Messages : Older(p, mine[w]) => ~Waiting(p))'
    BY <2>2, <2>5, <2>6, <2>7
  <2>12. OneAfterAnother' BY <2>2, <2>5, <2>7, <2>8
  <2> QED BY <2>9, <2>10, <2>11, <2>12
<1>2. CASE row' = row
  <2>1. Stored' = Stored BY <1>2 DEF Stored
  <2>2. \A p, q \in Messages : Older(p, q)' = Older(p, q) BY <1>2 DEF Older
  <2>3. \A p \in Messages : Waiting(p)' => Waiting(p)
    <3>1. CASE StoreMessage
      <4>1. about[current] \in Messages BY <3>1, AtHook DEF StoreMessage
      <4>2. row[about[current]] # 0 BY <1>2, <3>1, <4>1, StoredType DEF StoreMessage, RowsTypeOK
      <4> QED BY <3>1, <4>2 DEF StoreMessage, Waiting
    <3>2. ASSUME NEW w \in Workers, FinishJob(w) PROVE \A p \in Messages : Waiting(p)' => Waiting(p)
      <4>1. job' \in {job, [job EXCEPT ![mine[w]] = "gone"]} BY <3>2 DEF FinishJob
      <4> QED BY <4>1 DEF Waiting, JobsTypeOK
    <3>3. CASE job' = job BY <3>3 DEF Waiting
    <3>4. StoreMessage \/ (\E w \in Workers : FinishJob(w)) \/ job' = job
      BY DEF Next, vars, HookStep, Work, Receive, ComesDue, RetryEvent, ReadPage, NextEvent,
         RecordRating, StoreFault, WebhookEventDone, WebhookEventFailed, TakeJob, SkipStep,
         DoStep, MarkStep, LoadFault, StepPanics, Lapse, RenewalsFail, Renew, Freed, Stop, HookCancelled, Stopped, Crash, Start
    <3> QED BY <3>1, <3>2, <3>3, <3>4
  <2>4. \A w \in Workers : at'[w] # "idle" =>
            \/ at[w] # "idle" /\ mine'[w] = mine[w]
            \/ mine'[w] \in Messages /\ Takable(mine'[w])
    <3>1. ASSUME NEW w \in Workers, TakeJob(w)
          PROVE  /\ \A v \in Workers \ {w} : at'[v] = at[v] /\ mine'[v] = mine[v]
                 /\ mine'[w] \in Messages /\ Takable(mine'[w])
      BY <3>1 DEF TakeJob, WorkersTypeOK
    <3>2. ASSUME NEW w \in Workers,
                 SkipStep(w) \/ DoStep(w) \/ MarkStep(w) \/ FinishJob(w) \/ LoadFault(w) \/ StepPanics(w)
          PROVE  mine' = mine /\ at[w] # "idle" /\ \A v \in Workers \ {w} : at'[v] = at[v]
      BY <3>2 DEF SkipStep, DoStep, MarkStep, FinishJob, LoadFault, StepPanics, WorkersTypeOK
    <3>3. CASE Crash BY <3>3 DEF Crash
    <3>4. CASE at' = at /\ mine' = mine BY <3>4
    <3>5. \/ \E w \in Workers : TakeJob(w)
          \/ \E w \in Workers : SkipStep(w) \/ DoStep(w) \/ MarkStep(w) \/ FinishJob(w) \/ LoadFault(w) \/ StepPanics(w)
          \/ Crash \/ (at' = at /\ mine' = mine)
      BY DEF Next, vars, HookStep, Work, Receive, ComesDue, RetryEvent, ReadPage, NextEvent,
         StoreMessage, RecordRating, StoreFault, WebhookEventDone, WebhookEventFailed,
         Lapse, RenewalsFail, Renew, Freed, Stop, HookCancelled, Stopped, Start
    <3> QED BY <3>1, <3>2, <3>3, <3>4, <3>5
  <2>5. (\A m \in Messages : row[m] <= Stored)' BY <1>2, <2>1
  <2>6. ASSUME NEW m \in Messages, NEW s \in Steps, did'[m][s] > 0
        PROVE  row[m] # 0 /\ \A p \in Messages : Older(p, m) => ~Waiting(p)
    <3>1. CASE did[m][s] > 0 BY <3>1
    <3>2. ASSUME NEW w \in Workers, at[w] = "run", mine[w] = m
          PROVE  row[m] # 0 /\ \A p \in Messages : Older(p, m) => ~Waiting(p)
      <4>1. job[m] # "none" BY <3>2, InHand
      <4> QED BY <3>2, <4>1 DEF StoredFirst
    <3> QED BY <2>6, <3>1, <3>2, DidGrows
  <2>7. (\A m \in Messages, s \in Steps : did[m][s] > 0 => row[m] # 0)' BY <1>2, <2>6
  <2>8. (\A w \in Workers : at[w] # "idle" => \A p \in Messages : Older(p, mine[w]) => ~Waiting(p))'
    <3> SUFFICES ASSUME NEW w \in Workers, at'[w] # "idle", NEW p \in Messages, Older(p, mine[w])'
                 PROVE  ~Waiting(p)'
      OBVIOUS
    <3>1. Older(p, mine'[w])  BY <1>2 DEF Older
    <3>2. CASE at[w] # "idle" /\ mine'[w] = mine[w] BY <2>3, <3>1, <3>2
    <3>3. CASE Takable(mine'[w]) BY <2>3, <3>1, <3>3 DEF Takable
    <3> QED BY <2>4, <3>2, <3>3
  <2>9. OneAfterAnother' BY <2>2, <2>3, <2>6
  <2> QED BY <2>5, <2>7, <2>8, <2>9
<1>3. StoreMessage \/ row' = row
  BY DEF Next, vars, HookStep, Work, Receive, ComesDue, RetryEvent, ReadPage, NextEvent,
     RecordRating, StoreFault, WebhookEventDone, WebhookEventFailed, TakeJob, SkipStep,
     DoStep, MarkStep, FinishJob, LoadFault, StepPanics, Lapse, RenewalsFail, Renew, Freed, Stop, HookCancelled, Stopped,
     Crash, Start
<1> QED BY <1>1, <1>2, <1>3

-----------------------------------------------------------------------------
\* What is marked, or remembered by a worker, ran; a worker walks over the steps in
\* their order; who finishes a job has run all of them or gives it up.
AllRan(m) == \A s \in Steps : did[m][s] > 0
GivenUp(m) == jobTries[m] > MaxJobTries

Kept ==
    /\ \A m \in Messages \ Scores : row[m] # 0 => job[m] # "none"
    /\ \A m \in Messages : \A s \in marked[m] : did[m][s] > 0
    /\ \A w \in Workers : at[w] # "idle" => \A s \in done[w] : did[mine[w]][s] > 0
    /\ \A w \in Workers : at[w] = "mark" => did[mine[w]][step[w]] > 0
    /\ \A w \in Workers : at[w] \in {"run", "mark"} =>
          step[w] > 0 /\ \A s \in Steps : s < step[w] => s \in done[w]
    /\ \A w \in Workers : at[w] = "finish" => Steps \subseteq done[w]
    /\ \A w \in Workers : at[w] = "giveup" => GivenUp(mine[w])
    /\ \A m \in Messages : job[m] = "gone" => AllRan(m) \/ GivenUp(m)

LEMMA KeptNext == ASSUME TInv, Kept, [Next]_vars PROVE Kept'
<1> USE DEF Kept
<1> JobsTypeOK /\ WorkersTypeOK BY DEF TInv, TypeOK
<1> USE DEF JobsTypeOK, WorkersTypeOK
<1>0. /\ \A m \in Messages : \A s \in Steps : did[m][s] > 0 => did'[m][s] > 0
      /\ \A m \in Messages : AllRan(m) => AllRan(m)'
      /\ \A w \in Workers : at[w] # "idle" => mine[w] \in Messages
  BY DidGrows, InHand DEF AllRan
\* A worker's own step, which leaves jobs and tries as they are.
<1>1. ASSUME NEW w \in Workers, SkipStep(w) PROVE Kept'
  <2>1. at[w] = "run" /\ UNCHANGED <<jobs, row, mine, done, did>> BY <1>1 DEF SkipStep
  <2>2. CASE step[w] \notin Steps
    <3>1. at' = [at EXCEPT ![w] = "finish"] /\ step' = step BY <1>1, <2>2 DEF SkipStep
    <3>2. step[w] = NSteps + 1 BY <2>1, <2>2, InboundAssumption DEF Steps
    <3>3. Steps \subseteq done[w] BY <2>1, <3>2, InboundAssumption DEF Steps
    <3> QED BY <2>1, <3>1, <3>3 DEF AllRan, GivenUp
  <2>3. CASE step[w] \in Steps
    <3>1. step' = [step EXCEPT ![w] = @ + 1] /\ at' = at /\ step[w] \in done[w]
      BY <1>1, <2>3 DEF SkipStep
    <3>2. ASSUME NEW s \in Steps, s < step[w] + 1 PROVE s \in done[w]
      <4>1. s < step[w] \/ s = step[w] BY <2>3, <3>2 DEF Steps
      <4>2. \A t \in Steps : t < step[w] => t \in done[w] BY <2>1
      <4> QED BY <3>1, <4>1, <4>2
    <3> QED BY <2>1, <2>3, <3>1, <3>2 DEF AllRan, GivenUp, Steps
  <2> QED BY <2>2, <2>3
<1>2. ASSUME NEW w \in Workers, DoStep(w) PROVE Kept'
  <2>1. /\ at[w] = "run" /\ at' = [at EXCEPT ![w] = "mark"] /\ step[w] \in Steps
        /\ UNCHANGED <<jobs, row, mine, step, done>> /\ did' = Bump(did, mine[w], step[w])
    BY <1>2 DEF DoStep
  <2>2. mine[w] \in Messages /\ did[mine[w]][step[w]] \in Nat
    BY <1>0, <2>1 DEF TInv, TypeOK, CountsTypeOK
  <2>3. did'[mine[w]][step[w]] > 0 BY <2>1, <2>2, BumpHand
  <2>4. \A v \in Workers : at'[v] # "idle" => \A s \in done[v] : did'[mine[v]][s] > 0 BY <1>0, <2>1
  <2>5. \A v \in Workers : at'[v] = "mark" => did'[mine[v]][step[v]] > 0
    BY <1>0, <2>1, <2>3, InHand
  <2>6. \A m \in Messages : \A s \in marked[m] : did'[m][s] > 0 BY <1>0
  <2> QED BY <1>0, <2>1, <2>4, <2>5, <2>6 DEF GivenUp
<1>3. ASSUME NEW w \in Workers, MarkStep(w) PROVE Kept'
  <2>1. /\ at[w] = "mark" /\ at' = [at EXCEPT ![w] = "run"]
        /\ UNCHANGED <<job, jobTries, row, mine, step, did>>
        /\ done' = [done EXCEPT ![w] = @ \cup {step[w]}]
        /\ marked' \in {marked, [marked EXCEPT ![mine[w]] = @ \cup {step[w]}]}
    BY <1>3 DEF MarkStep
  <2>2. mine[w] \in Messages BY <1>0, <2>1
  <2>3. \A m \in Messages : \A s \in marked'[m] : did[m][s] > 0 BY <2>1, <2>2
  <2>4. \A v \in Workers : at[v] # "idle" => \A s \in done'[v] : did[mine[v]][s] > 0 BY <2>1
  <2>5. \A v \in Workers : done[v] \subseteq done'[v] BY <2>1
  <2> QED BY <2>1, <2>3, <2>4, <2>5 DEF AllRan, GivenUp
<1>4. ASSUME NEW w \in Workers, FinishJob(w) PROVE Kept'
  <2>1. /\ at[w] \in {"finish", "giveup"} /\ at' = [at EXCEPT ![w] = "idle"]
        /\ job' \in {job, [job EXCEPT ![mine[w]] = "gone"]}
        /\ UNCHANGED <<row, jobTries, marked, mine, step, done, did>>
    BY <1>4 DEF FinishJob
  <2>2. mine[w] \in Messages /\ (AllRan(mine[w]) \/ GivenUp(mine[w])) BY <1>0, <2>1 DEF AllRan
  <2> QED BY <2>1, <2>2 DEF AllRan, GivenUp
<1>5. ASSUME NEW w \in Workers, LoadFault(w) \/ StepPanics(w) PROVE Kept'
  <2>1. at' = [at EXCEPT ![w] = "idle"] /\ UNCHANGED <<jobs, row, mine, step, done>>
    BY <1>5 DEF LoadFault, StepPanics
  <2>2. \A v \in Workers : at'[v] # "idle" => at'[v] = at[v] /\ v # w BY <2>1
  <2>3. \A v \in Workers : at'[v] = "mark" => did'[mine[v]][step[v]] > 0 BY <1>0, <2>2, InHand
  <2>4. \A v \in Workers : at'[v] # "idle" => \A s \in done[v] : did'[mine[v]][s] > 0
    BY <1>0, <2>2
  <2>5. \A m \in Messages : \A s \in marked[m] : did'[m][s] > 0 BY <1>0
  <2> QED BY <1>0, <2>1, <2>2, <2>3, <2>4, <2>5 DEF GivenUp
\* A job is taken with what is marked of it.
<1>6. ASSUME NEW w \in Workers, TakeJob(w) PROVE Kept'
  <2>1. PICK m \in Messages :
          /\ Takable(m) /\ jobTries' = [jobTries EXCEPT ![m] = @ + 1]
          /\ mine' = [mine EXCEPT ![w] = m] /\ done' = [done EXCEPT ![w] = marked[m]]
          /\ step' = [step EXCEPT ![w] = 1]
          /\ at' = [at EXCEPT ![w] = IF jobTries[m] + 1 > MaxJobTries THEN "giveup" ELSE "run"]
          /\ UNCHANGED <<row, job, marked, did>>
    BY <1>6 DEF TakeJob, Known
  <2>2. \A n \in Messages : GivenUp(n) => GivenUp(n)' BY <2>1, InboundAssumption DEF GivenUp
  <2>3. \A s \in Steps : ~(s < 1) BY DEF Steps
  <2>4. at'[w] = "giveup" => GivenUp(m)' BY <2>1 DEF GivenUp
  <2>5. \A v \in Workers \ {w} : at'[v] = at[v] /\ mine'[v] = mine[v] /\ step'[v] = step[v] /\ done'[v] = done[v]
    BY <2>1
  <2>6. at'[w] \in {"giveup", "run"} /\ mine'[w] = m /\ step'[w] = 1 /\ done'[w] = marked[m] BY <2>1
  <2>7. \A v \in Workers : /\ at'[v] = "finish" => Steps \subseteq done'[v]
                           /\ at'[v] = "giveup" => GivenUp(mine[v])'
    BY <1>0, <2>2, <2>4, <2>5, <2>6
  <2>8. \A n \in Messages : job'[n] = "gone" => (AllRan(n) \/ GivenUp(n))' BY <1>0, <2>1, <2>2
  <2>9. \A v \in Workers : at'[v] \in {"run", "mark"} =>
            step'[v] > 0 /\ \A s \in Steps : s < step'[v] => s \in done'[v]
    BY <2>3, <2>5, <2>6
  <2>10. \A v \in Workers : at'[v] # "idle" => \A s \in done'[v] : did[mine'[v]][s] > 0
    BY <2>5, <2>6
  <2>11. \A v \in Workers : at'[v] = "mark" => did[mine'[v]][step'[v]] > 0 BY <2>5, <2>6
  <2> QED BY <2>1, <2>7, <2>8, <2>9, <2>10, <2>11
<1>7. CASE StoreMessage
  <2>1. about[current] \in Messages BY <1>7, AtHook DEF StoreMessage
  <2>2. /\ job' \in {job, [job EXCEPT ![about[current]] = "waiting"]}
        /\ UNCHANGED <<jobTries, marked, working, did>>
    BY <1>7 DEF StoreMessage
  <2>3. \A m \in Messages \ Scores : row'[m] # 0 => job'[m] # "none"
    BY <1>7, <2>1 DEF StoreMessage, TInv, TypeOK, RowsTypeOK
  <2> QED BY <2>1, <2>2, <2>3 DEF AllRan, GivenUp
<1>8. CASE Crash
  <2>1. (\A w \in Workers : at'[w] = "idle") /\ UNCHANGED <<jobs, row, did>> BY <1>8 DEF Crash
  <2> QED BY <2>1 DEF AllRan, GivenUp
<1>9. CASE UNCHANGED <<row, job, jobTries, marked, working, did>> BY <1>9 DEF AllRan, GivenUp
<1> HIDE DEF Kept, working
<1>10. \/ \E w \in Workers : \/ SkipStep(w) \/ DoStep(w) \/ MarkStep(w) \/ FinishJob(w)
                             \/ LoadFault(w) \/ StepPanics(w) \/ TakeJob(w)
       \/ StoreMessage \/ Crash \/ UNCHANGED <<row, job, jobTries, marked, working, did>>
  BY DEF Next, vars, HookStep, Work, Receive, ComesDue, RetryEvent, ReadPage, NextEvent,
     RecordRating, StoreFault, WebhookEventDone, WebhookEventFailed, Lapse, RenewalsFail, Renew, Freed, Stop,
     HookCancelled, Stopped, Start, working
<1> QED BY <1>1, <1>2, <1>3, <1>4, <1>5, <1>6, <1>7, <1>8, <1>9, <1>10

-----------------------------------------------------------------------------
WholeInv == IInv /\ Handled /\ Turns /\ Kept

LEMMA InitWhole == ASSUME Init PROVE WholeInv
<1>1. Handled BY DEF Init, Handled, HandledIsStored
<1>2. {m \in Messages : row[m] # 0} = {} BY DEF Init
<1>3. Stored = 0 BY <1>2, FS_EmptySet DEF Stored
<1>4. Turns BY <1>3 DEF Init, Turns, OneAfterAnother
<1>5. Kept BY DEF Init, Kept
<1> QED BY InitInv, <1>1, <1>4, <1>5 DEF WholeInv

LEMMA Inductive == Spec => []WholeInv
<1>1. WholeInv /\ [Next]_vars => WholeInv'
  BY TInvNext, CountedNext, HandledNext, TurnsNext, KeptNext DEF WholeInv, IInv
<1> QED BY InitWhole, <1>1, PTL DEF Spec

\* Whatever Meta sends and whichever server stops when, every variable of
\* the receiving side stays within its type.
THEOREM InboundTypeCorrect == Spec => []TypeOK
<1>1. WholeInv => TypeOK BY DEF WholeInv, IInv, TInv
<1> QED BY <1>1, Inductive, PTL

\* A step of a message's follow-up work (inboundjobs.go) runs once, for any number of
\* workers and notices, and again only for a run cut off before its mark or a job taken
\* from a worker that could not renew its claim.
THEOREM StepsOnce == Spec => []StepOncePerMark
<1>1. WholeInv => StepOncePerMark
  <2> SUFFICES ASSUME WholeInv, NEW m \in Messages, NEW s \in Steps
               PROVE  did[m][s] <= 1 + cut[m][s] + overlaps[m]
    BY DEF StepOncePerMark
  <2>1. did[m][s] \in Nat /\ cut[m][s] \in Nat /\ overlaps[m] \in Nat
    BY DEF WholeInv, IInv, TInv, TypeOK, CountsTypeOK, JobsTypeOK
  <2>2. Bounded(m, s) BY DEF WholeInv, IInv, Counted
  <2> QED BY <2>1, <2>2, CrewFinite DEF Bounded
<1> QED BY <1>1, Inductive, PTL

\* A notice counts as handled (webhook.go) only when its message is stored, for any
\* number of notices, tries, faults, panics and stops.
THEOREM HandledStored == Spec => []HandledIsStored
<1>1. WholeInv => HandledIsStored BY DEF WholeInv, Handled
<1> QED BY <1>1, Inductive, PTL

\* However many workers take jobs (TakeInboundJob), no step of a message runs while an
\* older message of its conversation still has its job.
THEOREM WorkedInTurn == Spec => []OneAfterAnother
<1>1. WholeInv => OneAfterAnother BY DEF WholeInv, Turns
<1> QED BY <1>1, Inductive, PTL

\* The job of a stored message is not lost: it is gone only when each of its steps ran
\* or it was tried as often as it may be, whatever fails, panics, stops or lapses.
THEOREM WorkKept == Spec => []WorkIsKept
<1>1. WholeInv => WorkIsKept
  <2> SUFFICES ASSUME WholeInv, NEW m \in Messages \ Scores, row[m] # 0, ~Waiting(m)
               PROVE  AllRan(m) \/ GivenUp(m)
    BY DEF WorkIsKept, AllRan, GivenUp
  <2>1. job[m] = "gone" BY DEF WholeInv, Kept, IInv, TInv, TypeOK, JobsTypeOK, Waiting
  <2> QED BY <2>1 DEF WholeInv, Kept
<1> QED BY <1>1, Inductive, PTL
=============================================================================
