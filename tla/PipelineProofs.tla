--------------------------- MODULE PipelineProofs ---------------------------
(***************************************************************************)
(* Machine-checked proofs about Pipeline: the composition implements each  *)
(* of its three components, for any number of requests, workers and        *)
(* faults, so that the components' theorems hold of the whole; and from    *)
(* the three together, what each recipient gets.                           *)
(***************************************************************************)
EXTENDS Pipeline, TLAPS, FiniteSetTheorems

LEMMA IntakeConstants == I!ConstantsAssumption
BY DEF I!ConstantsAssumption, Request, NoId

LEMMA ProcessingConstants == P!ConstantsAssumption
BY PipelineAssumption DEF P!ConstantsAssumption, P!Event, Request

LEMMA DeliveryConstants == D!ConstantsAssumption
BY PipelineAssumption DEF D!ConstantsAssumption, D!Notif

---------------------------------------------------------------------------
(* The invariant of the composition: those of the intake and of the        *)
(* processing loop, and that notifications have an owner that exists.      *)

OwnersKnown ==
  /\ owner \in Seq(Request \X Nat)
  /\ Len(owner) <= NotifCount
  /\ \A n \in DOMAIN owner : /\ owner[n][1] \in DOMAIN events
                             /\ owner[n][2] \in 1 .. Targets[owner[n][1]]

TablesInv == I!IntakeInv /\ P!TypeOK /\ P!FanOutInv /\ OwnersKnown

\* What a worker has locked or claimed is in the table, with the status the
\* processing loop relies on.
LEMMA HeldIsThere ==
  ASSUME TablesInv, NEW w \in Worker
  PROVE  /\ lock[w] \subseteq DOMAIN events
         /\ \A e \in lock[w] : events[e].status = "accepted"
         /\ todo[w] \subseteq DOMAIN events
         /\ \A e \in todo[w] : events[e].status = "processing"
         /\ P!AtEvent(w) => cur[w] \in todo[w]
<1>1. lock[w] \subseteq Request /\ todo[w] \subseteq Request
  BY DEF TablesInv, P!TypeOK, P!Event, Request
<1>2. P!Holding(w)
  BY DEF TablesInv, P!FanOutInv
<1> QED
  BY <1>1, <1>2 DEF P!Holding, EventStatus

---------------------------------------------------------------------------
(* Every step of the whole is a step of each component, or none of it *)

LEMMA IntakeStep ==
  ASSUME TablesInv, [Next]_vars PROVE [I!Next]_I!vars
<1>1. ASSUME NEW r \in Request, Api(r) PROVE I!Next
  BY <1>1 DEF Api, I!Next
<1>2. ASSUME NEW w \in Worker, UNCHANGED api, events' = I!Moved(lock[w], "processing")
      PROVE  I!Next
  <2>1. I!Claim(lock[w])
    BY <1>2, HeldIsThere DEF I!Claim, api
  <2> QED BY <2>1, HeldIsThere DEF I!Next
<1>3. ASSUME NEW w \in Worker, GiveUp(w) PROVE I!Next
  <2>1. cur[w] \in todo[w]
    BY <1>3, HeldIsThere DEF GiveUp, P!SetFailed, P!AtEvent
  <2>2. I!Fail(cur[w])
    BY <1>3, <2>1, HeldIsThere DEF I!Fail, GiveUp, Mark, api
  <2> QED BY <2>1, <2>2, HeldIsThere DEF I!Next
<1>4. ASSUME UNCHANGED <<events, api>> PROVE UNCHANGED I!vars
  BY <1>4 DEF I!vars, api
<1>5. ASSUME NEW w \in Worker, ProcessStep(w) PROVE [I!Next]_I!vars
  BY <1>2, <1>3, <1>4, <1>5
  DEF ProcessStep, Think, Claim, ClaimFails, Store, StoreFails, Mark, Enlist
<1>6. ASSUME NEW w \in Worker,
             DeliverStep(w) \/ OrphanEnds(w) \/ Interrupt(w) \/ Exit(w) \/ Restart(w)
      PROVE  UNCHANGED I!vars
  BY <1>4, <1>6 DEF DeliverStep, OrphanEnds, Interrupt, Exit, Restart
<1>7. ASSUME NEW w \in Worker, Crash(w) PROVE [I!Next]_I!vars
  BY <1>2, <1>4, <1>7 DEF Crash
<1>8. ASSUME NEW n \in 1 .. NotifCount, BackoffElapses(n) PROVE UNCHANGED I!vars
  BY <1>4, <1>8 DEF BackoffElapses
<1>9. ASSUME UNCHANGED vars PROVE UNCHANGED <<events, api>>
  BY <1>9 DEF vars, api
<1> QED BY <1>1, <1>4, <1>5, <1>6, <1>7, <1>8, <1>9 DEF Next

\* A first submission is what the processing loop knows as Submit; a
\* repeated one it does not notice.
LEMMA StoreIsSubmit ==
  ASSUME TablesInv, NEW r \in Request, Api(r), I!Store(r)
  PROVE  P!Submit(r) \/ UNCHANGED P!vars
<1>1. UNCHANGED <<ppc, lock, todo, cur, pos, pfaults, canceled, owner>>
  BY DEF Api, processing
<1>2. Stored' = Stored
  BY <1>1 DEF Stored
<1>3. CASE I!Conflicting(r) = {}
  <2>1. r \notin DOMAIN events
    BY <1>3 DEF TablesInv, I!IntakeInv, I!TypeOK, I!Conflicting, I!RowOf
  <2>2. events' = I!Extended(r)
    BY <1>3 DEF I!Store, I!Upserted
  <2>3. EventStatus' = [EventStatus EXCEPT ![r] = "accepted"]
    BY <2>1, <2>2 DEF EventStatus, I!Extended, I!RowOf
  <2>4. EventStatus[r] = "absent"
    BY <2>1 DEF EventStatus
  <2> QED BY <1>1, <1>2, <2>3, <2>4 DEF P!Submit, P!loop
<1>4. CASE I!Conflicting(r) # {}
  <2>1. events' = events
    BY <1>4 DEF I!Store, I!Upserted
  <2>2. EventStatus' = EventStatus
    BY <2>1 DEF EventStatus
  <2> QED BY <1>1, <1>2, <2>2 DEF P!vars
<1> QED BY <1>3, <1>4

LEMMA ProcessingStep ==
  ASSUME TablesInv, [Next]_vars PROVE [P!Next]_P!vars
<1>1. ASSUME UNCHANGED <<events, owner, processing, canceled>> PROVE UNCHANGED P!vars
  <2>1. EventStatus' = EventStatus /\ Stored' = Stored
    BY <1>1 DEF EventStatus, Stored
  <2> QED BY <1>1, <2>1 DEF P!vars, processing
<1>2. ASSUME NEW r \in Request, Api(r) PROVE [P!Next]_P!vars
  <2>1. CASE I!Store(r)
    BY <1>2, <2>1, StoreIsSubmit DEF P!Next, P!Event, Request
  <2>2. CASE I!Validate(r) \/ I!StoreFails(r) \/ I!Accept(r) \/ I!Lost(r)
    BY <1>1, <1>2, <2>2 DEF Api, I!Validate, I!StoreFails, I!Accept, I!Lost
  <2> QED BY <1>2, <2>1, <2>2 DEF Api
<1>3. ASSUME NEW w \in Worker, ProcessStep(w) PROVE [P!Next]_P!vars
  <2>1. P!LoopStep(w)
    BY <1>3 DEF ProcessStep, Think, Claim, ClaimFails, GiveUp, Store, StoreFails, P!LoopStep
  <2> QED BY <2>1 DEF P!Next
<1>4. ASSUME NEW w \in Worker, DeliverStep(w) \/ OrphanEnds(w) PROVE UNCHANGED P!vars
  <2>1. UNCHANGED canceled
    BY <1>4 DEF DeliverStep, OrphanEnds, D!IdleTick, D!vars, D!FindPending, D!Mark, D!MarkFails,
       D!StartSend, D!SendSucceeds, D!SendFails, D!SendAbandoned, D!Record, D!RecordLost,
       D!LoopStops, D!OrphanEnds
  <2> QED BY <1>1, <1>4, <2>1 DEF DeliverStep, OrphanEnds
<1>5. ASSUME NEW n \in 1 .. NotifCount, BackoffElapses(n) PROVE UNCHANGED P!vars
  BY <1>1, <1>5 DEF BackoffElapses, D!BackoffElapses
<1>6. ASSUME NEW w \in Worker, Exit(w) PROVE P!LoopStep(w)
  <2>1. EventStatus' = EventStatus /\ Stored' = Stored
    BY <1>6 DEF Exit, EventStatus, Stored
  <2> QED BY <1>6, <2>1 DEF Exit, P!LoopStep, P!Exit, P!tables
<1>7. ASSUME NEW w \in Worker, Interrupt(w) \/ Crash(w) \/ Restart(w) PROVE P!Next
  BY <1>7 DEF Interrupt, Crash, Restart, P!Next, P!LoopStep
<1>8. ASSUME UNCHANGED vars PROVE UNCHANGED P!vars
  BY <1>1, <1>8 DEF vars, processing
<1> QED BY <1>2, <1>3, <1>4, <1>5, <1>6, <1>7, <1>8 DEF Next, P!Next

LEMMA DeliveryStep ==
  ASSUME TablesInv, [Next]_vars PROVE [D!Next]_D!vars
<1>1. ASSUME UNCHANGED <<delivery, canceled>> PROVE UNCHANGED D!vars
  BY <1>1 DEF delivery, D!vars
<1>2. ASSUME NEW r \in Request, Api(r) PROVE UNCHANGED D!vars
  BY <1>1, <1>2 DEF Api
<1>3. ASSUME NEW w \in Worker, Enlist(w) PROVE D!Next
  <2>1. Len(owner) + 1 \in 1 .. NotifCount
    BY <1>3, PipelineAssumption DEF Enlist, TablesInv, OwnersKnown
  <2> QED BY <1>3, <2>1 DEF Enlist, D!Next, D!Notif
<1>4. ASSUME NEW w \in Worker, ProcessStep(w) PROVE [D!Next]_D!vars
  <2>1. CASE Enlist(w)
    BY <1>3, <2>1
  <2>2. CASE ~Enlist(w)
    BY <1>1, <1>4, <2>2
    DEF ProcessStep, Think, Claim, ClaimFails, GiveUp, Store, StoreFails, Mark,
        P!IdleTick, P!vars, P!ClaimLock, P!TakeEvent, P!FinishEvent, P!SetFailedLost,
        P!LoopStops, P!ClaimCommit, P!ClaimFails, P!SetFailed, P!StoreFails
  <2> QED BY <2>1, <2>2
<1>5. ASSUME NEW w \in Worker, DeliverStep(w) \/ OrphanEnds(w) PROVE D!Next
  BY <1>5 DEF DeliverStep, OrphanEnds, D!Next, D!LoopStep
<1>6. ASSUME NEW n \in 1 .. NotifCount, BackoffElapses(n) PROVE D!Next
  BY <1>6 DEF BackoffElapses, D!Next, D!Notif
<1>7. ASSUME NEW w \in Worker, Exit(w) PROVE D!Next
  BY <1>7 DEF Exit, D!Next, D!LoopStep, D!Exit, D!history
<1>8. ASSUME NEW w \in Worker, Interrupt(w) \/ Crash(w) \/ Restart(w) PROVE D!Next
  BY <1>8 DEF Interrupt, Crash, Restart, D!Next, D!LoopStep
<1>9. ASSUME UNCHANGED vars PROVE UNCHANGED D!vars
  BY <1>1, <1>9 DEF vars, delivery
<1> QED BY <1>2, <1>4, <1>5, <1>6, <1>7, <1>8, <1>9 DEF Next

---------------------------------------------------------------------------
(* The invariant is kept *)

LEMMA InitProcessing == Init => P!Init
<1> SUFFICES ASSUME Init PROVE P!Init
  OBVIOUS
<1>1. EventStatus = [e \in Request |-> "absent"]
  BY DEF Init, I!Init, EventStatus
<1>2. \A e \in Request : \A k \in 1 .. Targets[e] : {n \in DOMAIN owner : owner[n] = <<e, k>>} = {}
  BY DEF Init
<1>3. Stored = [e \in Request |-> [k \in 1 .. Targets[e] |-> 0]]
  BY <1>2, FS_EmptySet DEF Stored
<1> QED BY <1>1, <1>3 DEF Init, D!Init, P!Init, P!Event, Request

LEMMA InitTables == Init => TablesInv
<1> SUFFICES ASSUME Init PROVE TablesInv
  OBVIOUS
<1>1. I!IntakeInv
  BY IntakeConstants, I!InitIntake DEF Init
<1>2. P!Init
  BY InitProcessing
<1>3. P!TypeOK /\ P!FanOutInv
  BY <1>2, ProcessingConstants, P!InitTyped, P!InitFanOut
<1>4. OwnersKnown
  BY PipelineAssumption DEF Init, OwnersKnown
<1> QED BY <1>1, <1>3, <1>4 DEF TablesInv

\* No step takes an event out of the table.
LEMMA EventsStay ==
  ASSUME TablesInv, [I!Next]_I!vars PROVE DOMAIN events \subseteq DOMAIN events'
BY I!UpsertedKeeps, IntakeConstants
DEF I!Next, I!vars, I!Refuse, I!Validate, I!Store, I!StoreRefused, I!Read, I!StoreFails, I!Accept,
    I!Lost, I!Claim, I!Fail, I!Moved

LEMMA OwnersStep ==
  ASSUME TablesInv, [Next]_vars PROVE OwnersKnown'
<1>1. DOMAIN events \subseteq DOMAIN events'
  BY IntakeStep, EventsStay
<1>2. CASE UNCHANGED owner
  BY <1>1, <1>2 DEF TablesInv, OwnersKnown
<1>3. ASSUME NEW w \in Worker, P!AtTarget(w), Enlist(w) PROVE OwnersKnown'
  <2>1. cur[w] \in todo[w] /\ cur[w] \in DOMAIN events
    BY <1>3, HeldIsThere DEF P!AtTarget, P!AtEvent
  <2>2. cur[w] \in Request
    BY <2>1 DEF TablesInv, I!IntakeInv, I!TypeOK
  <2>3. pos[w] \in 1 .. Targets[cur[w]]
    BY <1>3, <2>2, PipelineAssumption DEF TablesInv, P!TypeOK, P!AtTarget
  <2>4. <<cur[w], pos[w]>> \in Request \X Nat
    BY <2>2, <2>3
  <2>5. owner \in Seq(Request \X Nat) /\ owner' = Append(owner, <<cur[w], pos[w]>>)
    BY <1>3 DEF TablesInv, OwnersKnown, Enlist
  <2>6. owner' \in Seq(Request \X Nat) /\ Len(owner') = Len(owner) + 1
    BY <2>4, <2>5
  <2>7. \A n \in DOMAIN owner' :
          owner'[n] = IF n = Len(owner) + 1 THEN <<cur[w], pos[w]>> ELSE owner[n]
    BY <2>4, <2>5
  <2>8. \A n \in DOMAIN owner' : n # Len(owner) + 1 => n \in DOMAIN owner
    BY <2>5, <2>6
  <2> QED
    BY <1>1, <1>3, <2>1, <2>3, <2>6, <2>7, <2>8, PipelineAssumption
    DEF TablesInv, OwnersKnown, Enlist
<1> QED
  BY <1>2, <1>3
  DEF Next, vars, Api, BackoffElapses, ProcessStep, Think, Claim, ClaimFails, GiveUp, Store,
      StoreFails, Mark, DeliverStep, OrphanEnds, Interrupt, Exit, Crash, Restart

LEMMA TablesStep == TablesInv /\ [Next]_vars => TablesInv'
<1> SUFFICES ASSUME TablesInv, [Next]_vars PROVE TablesInv'
  OBVIOUS
<1>1. I!IntakeInv'
  BY IntakeStep, IntakeConstants, I!StepIntake DEF TablesInv
<1>2. P!TypeOK' /\ P!FanOutInv'
  BY ProcessingStep, ProcessingConstants, P!StepTyped, P!StepFanOut DEF TablesInv
<1> QED BY <1>1, <1>2, OwnersStep DEF TablesInv

LEMMA TablesInvariant == Spec => []TablesInv
BY InitTables, TablesStep, PTL DEF Spec

---------------------------------------------------------------------------
(* Theorems *)

\* What the API and the loops of all workers do to the events table is what
\* EventIntake allows: one event per key, stable answers.
THEOREM IntakeImplemented == Spec => ImplementsIntake
<1>1. TablesInv /\ [Next]_vars => [I!Next]_I!vars
  BY IntakeStep
<1>2. Init => I!Init
  BY DEF Init
<1> QED BY <1>1, <1>2, TablesInvariant, PTL DEF Spec, ImplementsIntake, I!Spec

\* What the service does to events and to the rows of each recipient is what
\* EventProcessing allows: the fan-out theorems hold of the whole.
THEOREM ProcessingImplemented == Spec => ImplementsProcessing
<1>1. TablesInv /\ [Next]_vars => [P!Next]_P!vars
  BY ProcessingStep
<1>2. Init => P!Init
  BY InitProcessing
<1> QED BY <1>1, <1>2, TablesInvariant, PTL DEF Spec, ImplementsProcessing, P!Spec

\* What the service does to notifications is what NotificationDelivery
\* allows: the delivery theorems hold of the whole.
THEOREM DeliveryImplemented == Spec => ImplementsDelivery
<1>1. TablesInv /\ [Next]_vars => [D!Next]_D!vars
  BY DeliveryStep
<1>2. Init => D!Init
  BY DEF Init
<1> QED BY <1>1, <1>2, TablesInvariant, PTL DEF Spec, ImplementsDelivery, D!Spec

\* A recipient of an event has at most one notification.
LEMMA OnePerRecipient ==
  ASSUME TablesInv, NEW m \in DOMAIN owner, NEW n \in DOMAIN owner, owner[m] = owner[n]
  PROVE  m = n
<1> SUFFICES ASSUME m # n PROVE FALSE
  OBVIOUS
<1> DEFINE e == owner[n][1]
           k == owner[n][2]
           S == {x \in DOMAIN owner : owner[x] = <<e, k>>}
<1>1. owner \in Seq(Request \X Nat) /\ owner[n] = <<e, k>>
  BY DEF TablesInv, OwnersKnown
<1>2. e \in Request /\ k \in 1 .. Targets[e]
  BY <1>1 DEF TablesInv, OwnersKnown
<1>3. IsFiniteSet(S)
  <2>1. IsFiniteSet(1 .. Len(owner))
    BY <1>1, FS_Interval
  <2>2. S \subseteq 1 .. Len(owner)
    BY <1>1
  <2> QED BY <2>1, <2>2, FS_Subset
<1>4. Cardinality(S) <= 1
  <2>1. Stored[e][k] = Cardinality(S)
    BY <1>2 DEF Stored
  <2>2. Stored[e][k] <= 1
    BY <1>2 DEF TablesInv, P!FanOutInv, P!Counted, P!Event, Request
  <2> QED BY <2>1, <2>2
<1>5. {m, n} \subseteq S
  BY <1>1
<1>6. IsFiniteSet({m, n}) /\ Cardinality({m, n}) = 2
  <2>1. IsFiniteSet({m}) /\ Cardinality({m}) = 1
    BY FS_Singleton
  <2>2. IsFiniteSet({m} \cup {n}) /\ Cardinality({m} \cup {n}) = 2
    BY <2>1, FS_AddElement
  <2>3. {m} \cup {n} = {m, n}
    OBVIOUS
  <2> QED BY <2>2, <2>3
<1>7. Cardinality({m, n}) <= Cardinality(S)
  BY <1>3, <1>5, FS_Subset
<1>8. Cardinality(S) \in Nat
  BY <1>3, FS_CardinalityType
<1> QED BY <1>4, <1>6, <1>7, <1>8

\* With one worker, a recipient of a submission gets one notification, sent
\* within its budget, whatever is retried, fails or crashes on the way.
THEOREM BudgetPerRecipient ==
  ASSUME D!OneWorker PROVE Spec => []RecipientBudget
<1>1. Spec => []D!AttemptBudget
  <2>1. D!Spec => []D!AttemptBudget
    BY DeliveryConstants, D!BudgetKept
  <2> QED BY <2>1, DeliveryImplemented DEF ImplementsDelivery
<1>2. ASSUME TablesInv, D!AttemptBudget PROVE RecipientBudget
  <2> SUFFICES ASSUME NEW m \in DOMAIN owner, NEW n \in DOMAIN owner
               PROVE  /\ tries[n] <= MaxAttempts
                      /\ I!SameEvent(owner[m][1], owner[n][1]) /\ owner[m][2] = owner[n][2]
                           => m = n
    BY DEF RecipientBudget
  <2>1. owner \in Seq(Request \X Nat) /\ Len(owner) <= NotifCount
    BY <1>2 DEF TablesInv, OwnersKnown
  <2>2. n \in 1 .. NotifCount
    BY <2>1, PipelineAssumption
  <2>3. tries[n] <= MaxAttempts
    BY <1>2, <2>2 DEF D!AttemptBudget, D!Notif
  <2>4. ASSUME I!SameEvent(owner[m][1], owner[n][1]), owner[m][2] = owner[n][2] PROVE m = n
    <3>1. owner[m][1] = owner[n][1]
      BY <1>2, <2>4 DEF TablesInv, OwnersKnown, I!IntakeInv, I!OneEventPerKey
    <3>2. owner[m] = owner[n]
      BY <2>1, <2>4, <3>1
    <3> QED BY <1>2, <3>2, OnePerRecipient
  <2> QED BY <2>3, <2>4
<1>3. TablesInv /\ D!AttemptBudget => RecipientBudget
  BY <1>2
<1> QED BY <1>1, <1>3, TablesInvariant, PTL

\* What the client of a 202 may rely on, however many workers there are: the
\* notifications of its submission, and of every copy of it, belong to the
\* event it was told of, each recipient has at most one, and when all are
\* settled each was accepted by a server or really called MaxAttempts times.
OutcomeIsReal ==
  \A r \in Request : I!Accepted(r) =>
    /\ \A n \in DOMAIN owner :
         I!SameEvent(r, owner[n][1]) => owner[n][1] = answer[r].id
    /\ \A m, n \in DOMAIN owner :
         /\ I!SameEvent(r, owner[m][1]) /\ I!SameEvent(r, owner[n][1])
         /\ owner[m][2] = owner[n][2]
         => m = n
    /\ Settled(r) => \A k \in 1 .. Targets[answer[r].id] : \E n \in DOMAIN owner :
         owner[n] = <<answer[r].id, k>> /\ (n \in accepted \/ tries[n] >= MaxAttempts)

\* The promise of a 202 crosses the three components: one event for a key
\* (intake), one notification for a recipient (processing), no settled status
\* without its cause (delivery).
THEOREM OutcomeHonest == Spec => []OutcomeIsReal
<1>1. Spec => []I!AnswersAgree
  <2>1. I!Spec => []I!AnswersAgree
    BY IntakeConstants, I!Agreement
  <2> QED BY <2>1, IntakeImplemented DEF ImplementsIntake
<1>2. Spec => [](D!DeliveredWasAccepted /\ D!FailedUsedItsBudget)
  <2>1. D!Spec => []D!DeliveredWasAccepted
    BY DeliveryConstants, D!DeliveredIsReal
  <2>2. D!Spec => []D!FailedUsedItsBudget
    BY DeliveryConstants, D!FailedIsExhausted
  <2> QED BY <2>1, <2>2, DeliveryImplemented, PTL DEF ImplementsDelivery
<1>3. ASSUME TablesInv, I!AnswersAgree, D!DeliveredWasAccepted, D!FailedUsedItsBudget
      PROVE  OutcomeIsReal
  <2>1. /\ owner \in Seq(Request \X Nat) /\ Len(owner) <= NotifCount
        /\ \A n \in DOMAIN owner : owner[n][1] \in DOMAIN events
    BY <1>3 DEF TablesInv, OwnersKnown
  <2>2. \A d, e \in DOMAIN events : I!SameEvent(d, e) => d = e
    BY <1>3 DEF TablesInv, I!IntakeInv, I!OneEventPerKey
  <2>3. ASSUME NEW r \in Request, I!Accepted(r), NEW n \in DOMAIN owner,
               I!SameEvent(r, owner[n][1])
        PROVE  owner[n][1] = answer[r].id
    <3>1. answer[r].id \in DOMAIN events /\ I!SameEvent(r, answer[r].id)
      BY <1>3, <2>3 DEF I!AnswersAgree
    <3>2. I!SameEvent(owner[n][1], answer[r].id)
      BY <2>3, <3>1 DEF I!SameEvent
    <3> QED BY <2>1, <2>2, <3>1, <3>2
  <2>4. ASSUME NEW r \in Request, I!Accepted(r), NEW m \in DOMAIN owner, NEW n \in DOMAIN owner,
               I!SameEvent(r, owner[m][1]), I!SameEvent(r, owner[n][1]),
               owner[m][2] = owner[n][2]
        PROVE  m = n
    <3>1. owner[m][1] = owner[n][1]
      BY <2>3, <2>4
    <3>2. owner[m] \in Request \X Nat /\ owner[n] \in Request \X Nat
      BY <2>1
    <3>3. owner[m] = owner[n]
      BY <2>4, <3>1, <3>2
    <3> QED BY <1>3, <3>3, OnePerRecipient
  <2>5. ASSUME NEW n \in DOMAIN owner, row[n].status \in D!Settled
        PROVE  n \in accepted \/ tries[n] >= MaxAttempts
    <3>1. n \in D!Notif
      BY <2>1, PipelineAssumption DEF D!Notif
    <3> QED
      BY <1>3, <2>5, <3>1 DEF D!Settled, D!DeliveredWasAccepted, D!FailedUsedItsBudget
  <2>6. ASSUME NEW r \in Request, Settled(r), NEW k \in 1 .. Targets[answer[r].id]
        PROVE  \E n \in DOMAIN owner :
                 owner[n] = <<answer[r].id, k>> /\ (n \in accepted \/ tries[n] >= MaxAttempts)
    BY <2>5, <2>6 DEF Settled, SettledFor
  <2> QED BY <2>3, <2>4, <2>6 DEF OutcomeIsReal
<1>4. TablesInv /\ I!AnswersAgree /\ D!DeliveredWasAccepted /\ D!FailedUsedItsBudget
        => OutcomeIsReal
  BY <1>3
<1> QED BY <1>1, <1>2, <1>4, TablesInvariant, PTL

---------------------------------------------------------------------------
(* What a fault is needed for *)

\* A stored notification of an event is a row of the other table.
RowsOfOwners == \A n \in DOMAIN owner : n \in D!Notif /\ row[n].status # "absent"

\* While nothing has failed, the event a client was told of waits in the table
\* or is with a worker, or each of its recipients has a notification, which
\* waits, is settled, or is with a worker.
NothingDropped ==
  pfaults + dfaults = 0 =>
    \A r \in Request : I!Accepted(r) =>
      \/ events[answer[r].id].status = "accepted"
      \/ \E w \in Worker : answer[r].id \in todo[w]
      \/ \A k \in 1 .. Targets[answer[r].id] : \E n \in DOMAIN owner :
           /\ owner[n] = <<answer[r].id, k>>
           /\ row[n].status # "absent"
           /\ row[n].status = "processing" => \E w \in Worker : n \in DOMAIN batch[w]

LEMMA RowsStep ==
  ASSUME TablesInv, D!TypeInv, RowsOfOwners, [Next]_vars PROVE RowsOfOwners'
<1>1. ASSUME NEW n \in DOMAIN owner PROVE n \in D!Notif /\ row'[n].status # "absent"
  BY DeliveryStep, DeliveryConstants, D!RowsStay DEF RowsOfOwners
<1>2. CASE UNCHANGED owner
  BY <1>1, <1>2 DEF RowsOfOwners
<1>3. ASSUME NEW w \in Worker, Enlist(w) PROVE RowsOfOwners'
  <2>1. /\ owner' = Append(owner, <<cur[w], pos[w]>>) /\ Len(owner) < NotifCount
        /\ D!Create(Len(owner) + 1)
    BY <1>3 DEF Enlist
  <2>2. owner \in Seq(Request \X Nat)
    BY DEF TablesInv, OwnersKnown
  <2>3. DOMAIN owner' = DOMAIN owner \cup {Len(owner) + 1}
    BY <2>1, <2>2
  <2>4. Len(owner) + 1 \in D!Notif
    BY <2>1, <2>2, PipelineAssumption DEF D!Notif
  <2>5. row'[Len(owner) + 1].status # "absent"
    BY <2>1, <2>4 DEF D!Create, D!Fresh, D!TypeInv, D!TypeOK
  <2> QED BY <1>1, <2>3, <2>4, <2>5 DEF RowsOfOwners
<1> QED
  BY <1>2, <1>3
  DEF Next, vars, Api, ProcessStep, Think, Mark, Claim, ClaimFails, GiveUp, Store, StoreFails,
      DeliverStep, OrphanEnds, BackoffElapses, Interrupt, Exit, Crash, Restart

\* Every accepted submission is accounted for until something fails, for any
\* number of workers: the safety that AcceptedSettlesUnlessFault rests on.
THEOREM NothingIsDropped == Spec => []NothingDropped
<1>1. Spec => []I!AnswersAgree
  <2>1. I!Spec => []I!AnswersAgree
    BY IntakeConstants, I!Agreement
  <2> QED BY <2>1, IntakeImplemented DEF ImplementsIntake
<1>2. Spec => []P!OnlyFaultsStrand
  <2>1. P!Spec => []P!OnlyFaultsStrand
    BY ProcessingConstants, P!OnlyFaults
  <2> QED BY <2>1, ProcessingImplemented DEF ImplementsProcessing
<1>3. Spec => []D!OnlyFaultsStrand
  <2>1. D!Spec => []D!OnlyFaultsStrand
    BY DeliveryConstants, D!OnlyFaults
  <2> QED BY <2>1, DeliveryImplemented DEF ImplementsDelivery
<1>4. Spec => []D!TypeInv
  <2>1. D!Init => D!TypeInv
    BY DeliveryConstants, D!InitTypeInv
  <2>2. D!TypeInv /\ [D!Next]_D!vars => D!TypeInv'
    BY DeliveryConstants, D!StepTypeInv
  <2>3. D!Spec => []D!TypeInv
    BY <2>1, <2>2, PTL DEF D!Spec
  <2> QED BY <2>3, DeliveryImplemented DEF ImplementsDelivery
<1>5. Spec => []RowsOfOwners
  <2>1. Init => RowsOfOwners
    BY DEF Init, RowsOfOwners
  <2>2. TablesInv /\ D!TypeInv /\ RowsOfOwners /\ [Next]_vars => RowsOfOwners'
    BY RowsStep
  <2> QED BY <1>4, <2>1, <2>2, TablesInvariant, PTL DEF Spec
<1>6. ASSUME TablesInv, RowsOfOwners, I!AnswersAgree, D!TypeInv,
             P!OnlyFaultsStrand, D!OnlyFaultsStrand
      PROVE  NothingDropped
  <2> SUFFICES ASSUME pfaults + dfaults = 0, NEW r \in Request, I!Accepted(r),
                      events[answer[r].id].status # "accepted",
                      \A w \in Worker : answer[r].id \notin todo[w],
                      NEW k \in 1 .. Targets[answer[r].id]
               PROVE  \E n \in DOMAIN owner :
                        /\ owner[n] = <<answer[r].id, k>>
                        /\ row[n].status # "absent"
                        /\ row[n].status = "processing" =>
                             \E w \in Worker : n \in DOMAIN batch[w]
    BY DEF NothingDropped
  <2> DEFINE e == answer[r].id
             S == {n \in DOMAIN owner : owner[n] = <<e, k>>}
  <2>1. pfaults = 0 /\ dfaults = 0
    BY <1>6 DEF TablesInv, P!TypeOK, D!TypeInv, D!TypeOK
  <2>2. e \in DOMAIN events /\ e \in Request
    BY <1>6 DEF I!AnswersAgree, TablesInv, I!IntakeInv, I!TypeOK
  <2>3. events[e].status \in {"processing", "failed"}
    <3>1. PICK s \in I!Status : events[e] = I!RowOf(e, s)
      BY <1>6, <2>2 DEF TablesInv, I!IntakeInv, I!TypeOK
    <3> QED BY <3>1 DEF I!Status, I!RowOf
  <2>4. ~P!Malformed(e)
    BY DEF P!Malformed
  <2>5. EventStatus[e] = events[e].status /\ e \in P!Event
    BY <2>2 DEF EventStatus, P!Event, Request
  <2>6. P!FannedOut(e)
    BY <1>6, <2>1, <2>3, <2>4, <2>5 DEF P!OnlyFaultsStrand
  <2>7. Cardinality(S) = 1
    BY <2>2, <2>6 DEF P!FannedOut, Stored
  <2>8. PICK n \in DOMAIN owner : owner[n] = <<e, k>>
    <3>1. Cardinality(S) # Cardinality({})
      BY <2>7, FS_EmptySet
    <3>2. S # {}
      BY <3>1
    <3> QED BY <3>2
  <2> QED BY <1>6, <2>1, <2>8 DEF RowsOfOwners, D!OnlyFaultsStrand
<1>7. TablesInv /\ RowsOfOwners /\ I!AnswersAgree /\ D!TypeInv
        /\ P!OnlyFaultsStrand /\ D!OnlyFaultsStrand => NothingDropped
  BY <1>6
<1> QED BY <1>1, <1>2, <1>3, <1>4, <1>5, <1>7, TablesInvariant, PTL

===========================================================================
