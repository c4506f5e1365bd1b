------------------------------ MODULE Pipeline ------------------------------
(***************************************************************************)
(* The service as a whole: API processes that take submissions in          *)
(* (EventIntake) and worker processes that run both loops, processing      *)
(* (EventProcessing) and delivery (NotificationDelivery), over the two     *)
(* tables.  The loops of a worker share its context and its wait group;    *)
(* beyond that the components meet in the tables only.                     *)
(*                                                                         *)
(* Requests are numbered in the order in which NewEvent stamps them, so    *)
(* that a request is the event it may store.  Notifications are numbered   *)
(* as they are stored.  All recipients are reached by e-mail.              *)
(***************************************************************************)
EXTENDS Integers, FiniteSets, Sequences

CONSTANTS
  Worker,       \* worker processes
  RequestCount, \* submissions 1 .. RequestCount
  Key,          \* Key[r]: the Idempotency-Key of a submission
  Type,         \* Type[r]: its event_type
  Content,      \* Content[r]: the rest of it
  Targets,      \* Targets[r]: how many recipients it names
  NotifCount,   \* bound on the notifications stored
  MaxAttempts,  \* max_attempts of every notification
  BatchSize,    \* WORKER_BATCH_SIZE
  FaultKinds,   \* faults of the worker: "db", "sigterm", "crash"
  MaxFaults     \* bound on the faults of each loop

Request == 1 .. RequestCount
NoId == 0

ASSUME PipelineAssumption ==
  /\ RequestCount \in Nat
  /\ Targets \in [Request -> Nat]
  /\ NotifCount \in Nat
  /\ MaxAttempts \in Nat \ {0}
  /\ BatchSize \in Nat \ {0}
  /\ FaultKinds \subseteq {"db", "sigterm", "crash"}
  /\ MaxFaults \in Nat

VARIABLES
  events, ipc, result, answer,              \* EventIntake
  ppc, lock, todo, cur, pos, pfaults,       \* EventProcessing
  row, dpc, batch, orphan, dfaults,         \* NotificationDelivery
  tries, confirmed, accepted,               \* ... its history
  canceled,  \* a worker's context is cancelled: both loops have it
  owner      \* owner[n]: the event and recipient notification n was stored for

api == <<ipc, result, answer>>
processing == <<ppc, lock, todo, cur, pos, pfaults>>
delivery == <<row, dpc, batch, orphan, dfaults, tries, confirmed, accepted>>
vars == <<events, ipc, result, answer, ppc, lock, todo, cur, pos, pfaults,
          row, dpc, batch, orphan, dfaults, tries, confirmed, accepted, canceled, owner>>

\* The status column, as the processing loop sees it.
EventStatus ==
  [e \in Request |-> IF e \in DOMAIN events THEN events[e].status ELSE "absent"]

\* The notification rows of each recipient of each event.
Stored ==
  [e \in Request |-> [k \in 1 .. Targets[e] |->
     Cardinality({n \in DOMAIN owner : owner[n] = <<e, k>>})]]

\* The components, by the modules that hold their theorems: those are then
\* theorems of the whole (PipelineProofs).
I == INSTANCE EventIntakeProofs WITH pc <- ipc

P == INSTANCE EventProcessingProofs
  WITH EventCount <- RequestCount, Rejected <- {}, Unreadable <- {},
       status <- EventStatus, stored <- Stored, pc <- ppc, faults <- pfaults

D == INSTANCE NotificationDeliveryProofs
  WITH Email <- 1 .. NotifCount, WhatsAppConfigured <- FALSE, pc <- dpc, faults <- dfaults

---------------------------------------------------------------------------
Init ==
  /\ I!Init
  /\ owner = <<>>
  /\ ppc = [w \in Worker |-> "idle"]
  /\ lock = [w \in Worker |-> {}]
  /\ todo = [w \in Worker |-> {}]
  /\ cur = [w \in Worker |-> P!NoEvent]
  /\ pos = [w \in Worker |-> 1]
  /\ pfaults = 0
  /\ D!Init

\* The handling of a submission, up to the answer or without one.
Api(r) ==
  /\ \/ I!Validate(r) \/ I!Store(r) \/ I!StoreFails(r) \/ I!Accept(r) \/ I!Lost(r)
  /\ UNCHANGED <<processing, delivery, canceled, owner>>

(* The processing loop *)

\* Mutant of Mark: the UPDATE writes the columns it does not know, too.
MarkBlank(S, s) ==
  /\ events' = [e \in DOMAIN events |->
                 IF e \in S THEN [I!Moved(S, s)[e] EXCEPT !.content = "blank"] ELSE events[e]]
  /\ UNCHANGED <<api, delivery, owner>>

\* It changes the status of some events.
Mark(S, s) == events' = I!Moved(S, s) /\ UNCHANGED <<api, delivery, owner>>

\* It reads, or works in memory.
Think(w) ==
  /\ UNCHANGED <<events, api, delivery, owner>>
  /\ \/ P!IdleTick(w) \/ P!ClaimLock(w) \/ P!TakeEvent(w)
     \/ P!FinishEvent(w) \/ P!SetFailedLost(w) \/ P!LoopStops(w)

Claim(w) == Mark(lock[w], "processing") /\ P!ClaimCommit(w)

ClaimFails(w) ==
  /\ Mark(lock[w], "processing") \/ UNCHANGED <<events, api, delivery, owner>>
  /\ P!ClaimFails(w)

GiveUp(w) == cur[w] \in Request /\ Mark({cur[w]}, "failed") /\ P!SetFailed(w)

\* NotificationRepository.Create stores the next recipient: a row of the
\* other component's table.
Enlist(w) ==
  /\ Len(owner) < NotifCount
  /\ owner' = Append(owner, <<cur[w], pos[w]>>)
  /\ D!Create(Len(owner) + 1)
  /\ UNCHANGED <<events, api>>

Store(w) == P!AtTarget(w) /\ Enlist(w) /\ P!StoreNext(w)

StoreFails(w) ==
  /\ P!AtTarget(w)
  /\ Enlist(w) \/ UNCHANGED <<events, api, delivery, owner>>
  /\ P!StoreFails(w)

ProcessStep(w) ==
  Think(w) \/ Claim(w) \/ ClaimFails(w) \/ GiveUp(w) \/ Store(w) \/ StoreFails(w)

(* The delivery loop *)

DeliverStep(w) ==
  /\ UNCHANGED <<events, api, processing, owner>>
  /\ \/ D!IdleTick(w) \/ D!FindPending(w) \/ D!Mark(w) \/ D!MarkFails(w)
     \/ D!StartSend(w) \/ D!SendSucceeds(w) \/ D!SendFails(w) \/ D!SendAbandoned(w)
     \/ D!Record(w) \/ D!RecordLost(w) \/ D!LoopStops(w)

OrphanEnds(w) == D!OrphanEnds(w) /\ UNCHANGED <<events, api, processing, owner>>

BackoffElapses(n) == D!BackoffElapses(n) /\ UNCHANGED <<events, api, processing, owner>>

(* The worker process *)

\* SIGTERM: main cancels the context of both loops.
Interrupt(w) == UNCHANGED <<events, api, owner>> /\ P!Interrupt(w) /\ D!Interrupt(w)

\* Mutant of Exit: a loop is started without wg.Add.
ExitUncounted(w) ==
  /\ ppc[w] = "stopped"
  /\ UNCHANGED <<events, api, owner, pfaults, dfaults, row, tries, confirmed, accepted>>
  /\ P!Gone(w) /\ D!Gone(w)

\* wg.Wait returns when both loops have stopped, and main soon after: what it
\* still waits for, its health server and the pool's Close, is not modelled.
Exit(w) ==
  /\ ppc[w] = "stopped" /\ dpc[w] = "stopped"
  /\ UNCHANGED <<events, api, owner, pfaults, dfaults, row, tries, confirmed, accepted>>
  /\ P!Gone(w) /\ D!Gone(w)

\* The process dies; a claim may reach the database all the same.
Crash(w) ==
  /\ events' \in {events, I!Moved(lock[w], "processing")}
  /\ UNCHANGED <<api, owner>>
  /\ P!Crash(w) /\ D!Crash(w)

Restart(w) == UNCHANGED <<events, api, owner>> /\ P!Restart(w) /\ D!Restart(w)

Next ==
  \/ \E r \in Request : Api(r)
  \/ \E n \in 1 .. NotifCount : BackoffElapses(n)
  \/ \E w \in Worker : \/ ProcessStep(w) \/ DeliverStep(w) \/ OrphanEnds(w)
                       \/ Interrupt(w) \/ Exit(w) \/ Crash(w) \/ Restart(w)

Spec == Init /\ [][Next]_vars

\* Both loops of a worker are scheduled and tick, the process is started
\* again when it is down, backoffs elapse.  Nothing is assumed of the clients,
\* the faults and the abandoned goroutines.
Fairness ==
  /\ \A w \in Worker : /\ WF_vars(ProcessStep(w))
                       /\ WF_vars(DeliverStep(w))
                       /\ WF_vars(Exit(w) \/ Restart(w))
  /\ \A n \in 1 .. NotifCount : WF_vars(BackoffElapses(n))

FairSpec == Spec /\ Fairness

---------------------------------------------------------------------------
(* Properties *)

\* The composition is faithful to its parts: what the loops, the signals and
\* the crashes of one process do together is what each component allows, and
\* what the API writes is what the processing loop expects to find.
ImplementsIntake == I!Spec
ImplementsProcessing == P!Spec
ImplementsDelivery == D!Spec

\* However often a client sends a submission again, whatever fails on its way
\* and however often the worker starts again, each recipient gets one
\* notification for it, and that is sent within its budget.  (One worker.)
RecipientBudget ==
  \A m, n \in DOMAIN owner :
    /\ tries[n] <= MaxAttempts
    /\ I!SameEvent(owner[m][1], owner[n][1]) /\ owner[m][2] = owner[n][2] => m = n

\* The notification of recipient k of event e is settled.
SettledFor(e, k) ==
  \E n \in DOMAIN owner : owner[n] = <<e, k>> /\ row[n].status \in D!Settled

\* It was lost to a fault: of the processing loop before it was stored, of the
\* delivery loop after that.
LostFor(e, k) ==
  \/ pfaults > 0 /\ P!CutShort(e) /\ \A n \in DOMAIN owner : owner[n] # <<e, k>>
  \/ dfaults > 0 /\ \E n \in DOMAIN owner : owner[n] = <<e, k>> /\ D!Stranded(n)

\* Every notification of an answered submission is settled.
Settled(r) ==
  answer[r].id \in Request /\ \A k \in 1 .. Targets[answer[r].id] : SettledFor(answer[r].id, k)

\* "Decoupled processing" (README.md): a client that was answered 202 may
\* forget about it, every recipient its event names is dealt with at last ...
AcceptedSettles == \A r \in Request : I!Accepted(r) ~> Settled(r)

\* ... or, after a fault of that loop, was cut off or stranded on the way for
\* good: no recipient is forgotten in any other manner, and none is for ever
\* under way.
AcceptedSettlesUnlessFault ==
  \A r \in Request :
    I!Accepted(r) ~> [](/\ answer[r].id \in Request
                        /\ \A k \in 1 .. Targets[answer[r].id] :
                             SettledFor(answer[r].id, k) \/ LostFor(answer[r].id, k))

\* A worker that is told to stop does, with both its loops, whatever is
\* still waiting in the tables and whichever of their calls fail.
StopsWhenTold == \A w \in Worker : canceled[w] ~> ppc[w] = "down" /\ dpc[w] = "down"
=============================================================================
