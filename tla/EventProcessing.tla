------------------------- MODULE EventProcessing --------------------------
(***************************************************************************)
(* The processing loop of the worker (usecases.ProcessEvents) over the     *)
(* events table (postgres.EventRepository), run by any number of workers:  *)
(* events are claimed in batches, and each is turned into one notification *)
(* per recipient by as many separate INSERTs.                              *)
(*                                                                         *)
(* Events are numbered in the order of created_at.  The targets of an      *)
(* event are its recipients, in the order of its specs: Targets[e] of      *)
(* them.  A target is in Rejected if NewNotification refuses it (a channel *)
(* padded with blanks passes ValidateEvent and is refused here), an event  *)
(* is Unreadable if its notifications column does not unmarshal (NULL in a *)
(* row older than migration 008).                                          *)
(***************************************************************************)
EXTENDS Integers, FiniteSets

CONSTANTS
  Worker,      \* worker processes (pods)
  EventCount,  \* events 1 .. EventCount
  Targets,     \* number of notifications each event asks for
  Rejected,    \* pairs <<e, k>> that NewNotification refuses
  Unreadable,  \* events whose specs cannot be read
  BatchSize,   \* WORKER_BATCH_SIZE
  FaultKinds,  \* faults the environment injects: "db", "sigterm", "crash"
  MaxFaults    \* bound on the number of injected faults

Event == 1 .. EventCount
NoEvent == 0

ASSUME ConstantsAssumption ==
  /\ EventCount \in Nat
  /\ Targets \in [Event -> Nat]
  /\ Unreadable \subseteq Event
  /\ BatchSize \in Nat \ {0}
  /\ FaultKinds \subseteq {"db", "sigterm", "crash"}
  /\ MaxFaults \in Nat

VARIABLES
  status,    \* the status column of each event
  stored,    \* stored[e][k]: notification rows stored for target k of e
  pc,        \* where each worker's processing loop is
  lock,      \* event rows its claim statement has locked
  todo,      \* events of its batch not finished yet
  cur,       \* the event it is at
  pos,       \* the target of that event it is at
  canceled,  \* its context has been cancelled (SIGTERM)
  faults     \* faults injected so far

vars == <<status, stored, pc, lock, todo, cur, pos, canceled, faults>>
tables == <<status, stored>>
loop == <<lock, todo, cur, pos>>

Status == {"absent", "accepted", "processing", "failed"}
PC == {"idle", "claiming", "next", "creating", "failing", "stopped", "down"}

TypeOK ==
  /\ status \in [Event -> Status]
  /\ DOMAIN stored = Event
  /\ \A e \in Event : stored[e] \in [1 .. Targets[e] -> Nat]
  /\ pc \in [Worker -> PC]
  /\ lock \in [Worker -> SUBSET Event]
  /\ todo \in [Worker -> SUBSET Event]
  /\ cur \in [Worker -> Event \cup {NoEvent}]
  /\ pos \in [Worker -> Nat \ {0}]
  /\ canceled \in [Worker -> BOOLEAN]
  /\ faults \in 0 .. MaxFaults

---------------------------------------------------------------------------
Init ==
  /\ status = [e \in Event |-> "absent"]
  /\ stored = [e \in Event |-> [k \in 1 .. Targets[e] |-> 0]]
  /\ pc = [w \in Worker |-> "idle"]
  /\ lock = [w \in Worker |-> {}]
  /\ todo = [w \in Worker |-> {}]
  /\ cur = [w \in Worker |-> NoEvent]
  /\ pos = [w \in Worker |-> 1]
  /\ canceled = [w \in Worker |-> FALSE]
  /\ faults = 0

\* A fault of the given kind may happen, and is counted.
Inject(kind) == kind \in FaultKinds /\ faults < MaxFaults /\ faults' = faults + 1

\* A database call returns an error: always possible on a cancelled context,
\* otherwise it is an injected fault.
CallFails(w) == IF canceled[w] THEN UNCHANGED faults ELSE Inject("db")

\* EventRepository.Create, called by the API.
Submit(e) ==
  /\ status[e] = "absent"
  /\ status' = [status EXCEPT ![e] = "accepted"]
  /\ UNCHANGED <<stored, pc, loop, canceled, faults>>

---------------------------------------------------------------------------
(* ClaimPending: one UPDATE statement.  Its subquery locks the oldest       *)
(* accepted rows no other statement has locked (FOR UPDATE SKIP LOCKED);    *)
(* the update and the locks' release are the commit.                        *)

\* Mutants of Claimable: the subquery does not skip locked rows; it also
\* takes up rows that were left processing.
ClaimableLocked(e) == status[e] = "accepted"
ClaimableAgain(e) ==
  status[e] \in {"accepted", "processing"} /\ \A v \in Worker : e \notin lock[v]

\* The rows the subquery considers.
Claimable(e) == status[e] = "accepted" /\ \A v \in Worker : e \notin lock[v]

\* ORDER BY created_at LIMIT BatchSize.
Picked == {e \in Event : /\ Claimable(e)
                         /\ Cardinality({d \in Event : Claimable(d) /\ d < e}) < BatchSize}

\* A tick starts Handle, and ClaimPending finds nothing or fails at once.
IdleTick(w) == pc[w] = "idle" /\ UNCHANGED vars

ClaimLock(w) ==
  /\ pc[w] = "idle"
  /\ ~canceled[w]
  /\ Picked # {}
  /\ lock' = [lock EXCEPT ![w] = Picked]
  /\ pc' = [pc EXCEPT ![w] = "claiming"]
  /\ UNCHANGED <<tables, todo, cur, pos, canceled, faults>>

\* The statement commits.
Commit(w) == status' = [e \in Event |-> IF e \in lock[w] THEN "processing" ELSE status[e]]

\* ClaimPending returns the claimed events.
ClaimCommit(w) ==
  /\ pc[w] = "claiming"
  /\ Commit(w)
  /\ todo' = [todo EXCEPT ![w] = lock[w]]
  /\ lock' = [lock EXCEPT ![w] = {}]
  /\ pc' = [pc EXCEPT ![w] = "next"]
  /\ UNCHANGED <<stored, cur, pos, canceled, faults>>

\* ClaimPending returns an error and Handle gives up: the statement was
\* rolled back, or it was committed and its rows did not all arrive.
ClaimFails(w) ==
  /\ pc[w] = "claiming"
  /\ CallFails(w)
  /\ Commit(w) \/ UNCHANGED status
  /\ lock' = [lock EXCEPT ![w] = {}]
  /\ pc' = [pc EXCEPT ![w] = "idle"]
  /\ UNCHANGED <<stored, todo, cur, pos, canceled>>

---------------------------------------------------------------------------
(* processEvent *)

\* The loop takes the next event (RETURNING gives them in no set order) and
\* reads its specs.
TakeEvent(w) ==
  /\ pc[w] = "next"
  /\ \E e \in todo[w] :
       /\ cur' = [cur EXCEPT ![w] = e]
       /\ pos' = [pos EXCEPT ![w] = 1]
       /\ pc' = [pc EXCEPT ![w] = IF e \in Unreadable THEN "failing" ELSE "creating"]
  /\ UNCHANGED <<tables, lock, todo, canceled, faults>>

\* A row for target k of e is inserted.
Insert(e, k) == stored' = [stored EXCEPT ![e] = [stored[e] EXCEPT ![k] = stored[e][k] + 1]]

\* Mutant of AtTarget: the loop stops one target early.
AtTargetShort(w) == pc[w] = "creating" /\ pos[w] < Targets[cur[w]]

\* Whether the loop is at a target of its event that is still to be stored.
AtTarget(w) == pc[w] = "creating" /\ pos[w] <= Targets[cur[w]]

\* NewNotification accepts the target and NotificationRepository.Create
\* stores it.
StoreNext(w) ==
  /\ AtTarget(w)
  /\ <<cur[w], pos[w]>> \notin Rejected
  /\ ~canceled[w]
  /\ Insert(cur[w], pos[w])
  /\ pos' = [pos EXCEPT ![w] = @ + 1]
  /\ UNCHANGED <<status, pc, lock, todo, cur, canceled, faults>>

\* NewNotification refuses the target.
RejectNext(w) ==
  /\ AtTarget(w)
  /\ <<cur[w], pos[w]>> \in Rejected
  /\ pc' = [pc EXCEPT ![w] = "failing"]
  /\ UNCHANGED <<tables, loop, canceled, faults>>

\* Create returns an error: without effect, or (its context not cancelled
\* before the call) after the row was stored.
StoreFails(w) ==
  /\ AtTarget(w)
  /\ <<cur[w], pos[w]>> \notin Rejected
  /\ CallFails(w)
  /\ \/ UNCHANGED stored
     \/ ~canceled[w] /\ Insert(cur[w], pos[w])
  /\ pc' = [pc EXCEPT ![w] = "failing"]
  /\ UNCHANGED <<status, loop, canceled>>

\* The loop is done with its event.
Leave(w) ==
  LET rest == todo[w] \ {cur[w]}
  IN  /\ todo' = [todo EXCEPT ![w] = rest]
      /\ cur' = [cur EXCEPT ![w] = NoEvent]
      /\ pos' = [pos EXCEPT ![w] = 1]
      /\ pc' = [pc EXCEPT ![w] = IF rest = {} THEN "idle" ELSE "next"]

\* processEvent returns without error: the status stays 'processing'.
FinishEvent(w) ==
  /\ pc[w] = "creating"
  /\ ~AtTarget(w)
  /\ Leave(w)
  /\ UNCHANGED <<tables, lock, canceled, faults>>

\* processEvent returned an error: SetStatus(failed) takes effect ...
SetFailed(w) ==
  /\ pc[w] = "failing"
  /\ ~canceled[w]
  /\ status' = [status EXCEPT ![cur[w]] = "failed"]
  /\ Leave(w)
  /\ UNCHANGED <<stored, lock, canceled, faults>>

\* Mutant of SetFailedLost: the loop tries again until the update succeeds.
SetFailedLostRetries(w) ==
  /\ pc[w] = "failing"
  /\ CallFails(w)
  /\ UNCHANGED <<tables, pc, loop, canceled>>

\* ... or does not, and its error is ignored.
SetFailedLost(w) ==
  /\ pc[w] = "failing"
  /\ CallFails(w)
  /\ Leave(w)
  /\ UNCHANGED <<tables, lock, canceled>>

---------------------------------------------------------------------------
(* The worker process *)

\* SIGTERM: main cancels the context both loops share.
Interrupt(w) ==
  /\ pc[w] \notin {"stopped", "down"}
  /\ ~canceled[w]
  /\ Inject("sigterm")
  /\ canceled' = [canceled EXCEPT ![w] = TRUE]
  /\ UNCHANGED <<tables, pc, loop>>

\* runLoop sees ctx.Done between two ticks.
LoopStops(w) ==
  /\ pc[w] = "idle"
  /\ canceled[w]
  /\ pc' = [pc EXCEPT ![w] = "stopped"]
  /\ UNCHANGED <<tables, loop, canceled, faults>>

\* The process is gone: its locks are released, its batch is lost.
Gone(w) ==
  /\ pc' = [pc EXCEPT ![w] = "down"]
  /\ lock' = [lock EXCEPT ![w] = {}]
  /\ todo' = [todo EXCEPT ![w] = {}]
  /\ cur' = [cur EXCEPT ![w] = NoEvent]
  /\ pos' = [pos EXCEPT ![w] = 1]
  /\ canceled' = [canceled EXCEPT ![w] = FALSE]

\* main returns after wg.Wait.
Exit(w) ==
  /\ pc[w] = "stopped"
  /\ Gone(w)
  /\ UNCHANGED <<tables, faults>>

\* The process dies: panic, SIGKILL, node failure.  A claim under way is
\* rolled back, or its commit had reached the server.
Crash(w) ==
  /\ pc[w] # "down"
  /\ Inject("crash")
  /\ Commit(w) \/ UNCHANGED status
  /\ Gone(w)
  /\ UNCHANGED stored

\* The Deployment starts the worker again.
Restart(w) ==
  /\ pc[w] = "down"
  /\ pc' = [pc EXCEPT ![w] = "idle"]
  /\ UNCHANGED <<tables, loop, canceled, faults>>

LoopStep(w) ==
  \/ IdleTick(w) \/ ClaimLock(w) \/ ClaimCommit(w) \/ ClaimFails(w)
  \/ TakeEvent(w) \/ StoreNext(w) \/ RejectNext(w) \/ StoreFails(w)
  \/ FinishEvent(w) \/ SetFailed(w) \/ SetFailedLost(w)
  \/ LoopStops(w) \/ Exit(w) \/ Restart(w)

Next ==
  \/ \E e \in Event : Submit(e)
  \/ \E w \in Worker : LoopStep(w) \/ Interrupt(w) \/ Crash(w)

Spec == Init /\ [][Next]_vars

\* Every loop keeps running, and a process that is down is started again.
\* Nothing forces an event to be submitted or a fault to happen.
FairSpec == Spec /\ \A w \in Worker : WF_vars(LoopStep(w))

---------------------------------------------------------------------------
(* Properties *)

\* No target of an event ever gets a second notification, whatever workers
\* compete, fail, stop, crash and start again.
NoDuplicateFanOut == \A e \in Event : \A k \in 1 .. Targets[e] : stored[e][k] <= 1

\* Notifications are stored in order, none before the event is claimed or
\* after it has failed, and a claim is for good: the loops implement the
\* abstract fan-out, so a fan-out that was cut short is a prefix of the targets.
Abstract == INSTANCE FanOut WITH phase <- status
ImplementsFanOut == Abstract!Spec

Malformed(e) == e \in Unreadable \/ \E k \in 1 .. Targets[e] : <<e, k>> \in Rejected
FannedOut(e) == \A k \in 1 .. Targets[e] : stored[e][k] = 1

\* The event has come to its proper end.
DealtWith(e) ==
  IF Malformed(e) THEN status[e] = "failed" ELSE FannedOut(e) /\ status[e] # "failed"

\* It was given up, or left 'processing' with no worker that has it.
CutShort(e) ==
  \/ status[e] = "failed"
  \/ status[e] = "processing" /\ \A w \in Worker : e \notin todo[w]

\* An accepted event is fanned out completely, for good and without being
\* marked failed, if it is well formed; otherwise it ends as failed.  A crash,
\* a SIGTERM or a failed call may cut the fan-out short, for good, and do
\* nothing else: even then no event waits for ever to be claimed, locked by a
\* claim that has died, or stays in a batch.
AcceptedIsFannedOut ==
  \A e \in Event :
    status[e] = "accepted" ~> [](DealtWith(e) \/ (faults > 0 /\ CutShort(e)))
===========================================================================
