----------------------- MODULE NotificationDelivery -----------------------
(***************************************************************************)
(* The delivery loop of the worker (usecases.DeliverNotifications) over    *)
(* the notifications table (postgres.NotificationRepository) and the two   *)
(* senders, run by any number of worker processes.                         *)
(*                                                                         *)
(* FindPending is a plain SELECT and UpdateStatus an unconditional UPDATE  *)
(* by id: between them a worker acts on the snapshot of its batch.  Every  *)
(* database call is a step of its own, so that other workers, crashes,     *)
(* signals and failed calls fall between any two of them.                  *)
(*                                                                         *)
(* Time is abstract: a row with next_retry_at in the future is "backing    *)
(* off", until BackoffElapses.  Notifications are numbered in the order of *)
(* created_at, the order FindPending reads them in.                        *)
(***************************************************************************)
EXTENDS Integers, FiniteSets, Functions

CONSTANTS
  Worker,              \* worker processes (pods)
  NotifCount,          \* notifications 1 .. NotifCount
  Email,               \* the notifications sent by e-mail, the rest by WhatsApp
  WhatsAppConfigured,  \* the worker has a WhatsApp sender
  MaxAttempts,         \* max_attempts of every notification (5 in the code)
  BatchSize,           \* WORKER_BATCH_SIZE
  FaultKinds,          \* faults the environment injects: "db", "sigterm", "crash"
  MaxFaults            \* bound on the number of injected faults

Notif == 1 .. NotifCount

ASSUME ConstantsAssumption ==
  /\ NotifCount \in Nat
  /\ Email \subseteq Notif
  /\ WhatsAppConfigured \in BOOLEAN
  /\ MaxAttempts \in Nat \ {0}
  /\ BatchSize \in Nat \ {0}
  /\ FaultKinds \subseteq {"db", "sigterm", "crash"}
  /\ MaxFaults \in Nat

VARIABLES
  row,       \* the notifications table
  pc,        \* where each worker's delivery loop is
  batch,     \* what is left of its batch: notification |-> attempts as read
  canceled,  \* its context has been cancelled (SIGTERM)
  orphan,    \* notifications its abandoned SMTP goroutines still transmit
  faults,    \* faults injected so far
  tries,     \* history: send calls made for each notification
  confirmed, \* history: notifications a send call succeeded for
  accepted   \* history: notifications a mail or WhatsApp server accepted

vars == <<row, pc, batch, canceled, orphan, faults, tries, confirmed, accepted>>
history == <<tries, confirmed, accepted>>

Status == {"absent", "pending", "processing", "delivered", "failed"}
Row == [status : Status, attempts : 0 .. MaxAttempts, backoff : BOOLEAN]
PC == {"idle", "mark", "send", "sending", "succeeded", "unsuccessful",
       "stopped", "down"}
Empty == [n \in {} |-> 0]

TypeOK ==
  /\ row \in [Notif -> Row]
  /\ pc \in [Worker -> PC]
  /\ DOMAIN batch = Worker
  /\ \A w \in Worker : /\ DOMAIN batch[w] \subseteq Notif
                       /\ \A n \in DOMAIN batch[w] : batch[w][n] \in 0 .. MaxAttempts - 1
  /\ canceled \in [Worker -> BOOLEAN]
  /\ orphan \in [Worker -> SUBSET Notif]
  /\ faults \in 0 .. MaxFaults
  /\ tries \in [Notif -> Nat]
  /\ confirmed \subseteq Notif
  /\ accepted \subseteq Notif

---------------------------------------------------------------------------
(* The notifications table *)

\* The row NewNotification and Create store.
Fresh == [status |-> "pending", attempts |-> 0, backoff |-> FALSE]

\* Mutants of Eligible: rows that were left processing, that failed, or that
\* are still backing off are read again.
EligibleProcessing(n) == row[n].status \in {"pending", "processing"} /\ ~row[n].backoff
EligibleFailed(n) == row[n].status \in {"pending", "failed"} /\ ~row[n].backoff
EligibleEarly(n) == row[n].status = "pending"

\* The WHERE clause of FindPending.
Eligible(n) == row[n].status = "pending" /\ ~row[n].backoff

\* FindPending: the oldest BatchSize eligible rows.
Found == {n \in Notif : /\ Eligible(n)
                        /\ Cardinality({m \in Notif : Eligible(m) /\ m < n}) < BatchSize}

\* The update that takes a notification up: the attempts written are those
\* of the snapshot, next_retry_at is cleared.
Marked(read) == [status |-> "processing", attempts |-> read, backoff |-> FALSE]

\* Mutants of AfterFailure: one attempt too few is made; a rescheduled row is
\* left processing.
AfterFailureEarly(tried) ==
  IF tried + 1 >= MaxAttempts
  THEN [status |-> "failed", attempts |-> tried, backoff |-> FALSE]
  ELSE [status |-> "pending", attempts |-> tried, backoff |-> TRUE]
AfterFailureStuck(tried) ==
  IF tried >= MaxAttempts
  THEN [status |-> "failed", attempts |-> tried, backoff |-> FALSE]
  ELSE [status |-> "processing", attempts |-> tried, backoff |-> TRUE]

\* The update after a failed send, n.Attempts already incremented.
AfterFailure(tried) ==
  IF tried >= MaxAttempts
  THEN [status |-> "failed", attempts |-> tried, backoff |-> FALSE]
  ELSE [status |-> "pending", attempts |-> tried, backoff |-> TRUE]

\* The update after a successful send.
AfterSuccess(read) == [status |-> "delivered", attempts |-> read, backoff |-> FALSE]

---------------------------------------------------------------------------
(* One worker's loop *)

\* The notification of the batch the loop is at.
Current(w, n) == n \in DOMAIN batch[w] /\ \A m \in DOMAIN batch[w] : n <= m

\* The loop moves on to the next notification, or Handle returns.
MoveOn(w, n) ==
  LET rest == DOMAIN batch[w] \ {n}
  IN  /\ batch' = [batch EXCEPT ![w] = Restrict(batch[w], rest)]
      /\ pc' = [pc EXCEPT ![w] = IF rest = {} THEN "idle" ELSE "mark"]

\* A fault of the given kind may happen, and is counted.
Inject(kind) == kind \in FaultKinds /\ faults < MaxFaults /\ faults' = faults + 1

Init ==
  /\ row = [n \in Notif |-> [status |-> "absent", attempts |-> 0, backoff |-> FALSE]]
  /\ pc = [w \in Worker |-> "idle"]
  /\ batch = [w \in Worker |-> Empty]
  /\ canceled = [w \in Worker |-> FALSE]
  /\ orphan = [w \in Worker |-> {}]
  /\ faults = 0
  /\ tries = [n \in Notif |-> 0]
  /\ confirmed = {}
  /\ accepted = {}

\* NotificationRepository.Create, called by some worker's processing loop.
Create(n) ==
  /\ row[n].status = "absent"
  /\ row' = [row EXCEPT ![n] = Fresh]
  /\ UNCHANGED <<pc, batch, canceled, orphan, faults, history>>

\* next_retry_at is reached.
BackoffElapses(n) ==
  /\ row[n].backoff
  /\ row' = [row EXCEPT ![n].backoff = FALSE]
  /\ UNCHANGED <<pc, batch, canceled, orphan, faults, history>>

\* A tick starts Handle, and FindPending fails or finds nothing.
IdleTick(w) == pc[w] = "idle" /\ UNCHANGED vars

\* A tick starts Handle and FindPending reads a batch.
FindPending(w) ==
  /\ pc[w] = "idle"
  /\ ~canceled[w]
  /\ Found # {}
  /\ batch' = [batch EXCEPT ![w] = [n \in Found |-> row[n].attempts]]
  /\ pc' = [pc EXCEPT ![w] = "mark"]
  /\ UNCHANGED <<row, canceled, orphan, faults, history>>

\* UpdateStatus(processing) succeeds.
Mark(w) ==
  /\ pc[w] = "mark"
  /\ ~canceled[w]
  /\ \E n \in Notif : /\ Current(w, n)
                      /\ row' = [row EXCEPT ![n] = Marked(batch[w][n])]
  /\ pc' = [pc EXCEPT ![w] = "send"]
  /\ UNCHANGED <<batch, canceled, orphan, faults, history>>

\* UpdateStatus(processing) returns an error: without effect on a cancelled
\* context; otherwise with or without effect (the reply is lost).  The loop
\* skips the notification.
MarkFails(w) ==
  /\ pc[w] = "mark"
  /\ \E n \in Notif :
       /\ Current(w, n)
       /\ MoveOn(w, n)
       /\ \/ canceled[w] /\ UNCHANGED <<row, faults>>
          \/ ~canceled[w] /\ Inject("db") /\ UNCHANGED row
          \/ /\ ~canceled[w]
             /\ Inject("db")
             /\ row' = [row EXCEPT ![n] = Marked(batch[w][n])]
  /\ UNCHANGED <<canceled, orphan, history>>

\* A sender exists for the channel of n.
HasSender(n) == n \in Email \/ WhatsAppConfigured

\* uc.send is called.  With no sender, or on a context already cancelled, it
\* fails at once; otherwise the transmission is under way.
StartSend(w) ==
  /\ pc[w] = "send"
  /\ \E n \in Notif :
       /\ Current(w, n)
       /\ tries' = [tries EXCEPT ![n] = @ + 1]
       /\ pc' = [pc EXCEPT ![w] = IF HasSender(n) /\ ~canceled[w]
                                  THEN "sending" ELSE "unsuccessful"]
  /\ UNCHANGED <<row, batch, canceled, orphan, faults, confirmed, accepted>>

\* The sender returns nil: the server has accepted the message.
SendSucceeds(w) ==
  /\ pc[w] = "sending"
  /\ \E n \in Notif : /\ Current(w, n)
                      /\ accepted' = accepted \cup {n}
                      /\ confirmed' = confirmed \cup {n}
  /\ pc' = [pc EXCEPT ![w] = "succeeded"]
  /\ UNCHANGED <<row, batch, canceled, orphan, faults, tries>>

\* The sender returns an error: the server refused the message or was not
\* reached, or accepted it and the answer was lost (the SMTP QUIT fails, the
\* WhatsApp call times out or is cancelled after the server acted).
SendFails(w) ==
  /\ pc[w] = "sending"
  /\ \E n \in Notif : Current(w, n) /\ accepted' \in {accepted, accepted \cup {n}}
  /\ pc' = [pc EXCEPT ![w] = "unsuccessful"]
  /\ UNCHANGED <<row, batch, canceled, orphan, faults, tries, confirmed>>

\* Mutant of SendAbandoned: Send gives up on a timer of its own, too.
SendAbandonedEarly(w) ==
  /\ pc[w] = "sending"
  /\ \E n \in Email : /\ Current(w, n)
                      /\ orphan' = [orphan EXCEPT ![w] = @ \cup {n}]
  /\ pc' = [pc EXCEPT ![w] = "unsuccessful"]
  /\ UNCHANGED <<row, batch, canceled, faults, history>>

\* SMTPSender.Send returns Canceled; the goroutine it started transmits on.
SendAbandoned(w) ==
  /\ pc[w] = "sending"
  /\ canceled[w]
  /\ \E n \in Email : /\ Current(w, n)
                      /\ orphan' = [orphan EXCEPT ![w] = @ \cup {n}]
  /\ pc' = [pc EXCEPT ![w] = "unsuccessful"]
  /\ UNCHANGED <<row, batch, canceled, faults, history>>

\* An abandoned goroutine ends, the message accepted or not.
OrphanEnds(w) ==
  /\ \E n \in orphan[w] : /\ orphan' = [orphan EXCEPT ![w] = @ \ {n}]
                          /\ accepted' \in {accepted, accepted \cup {n}}
  /\ UNCHANGED <<row, pc, batch, canceled, faults, tries, confirmed>>

\* Mutant of Outcome: without the continue after a failure, the loop falls
\* through to the update to delivered.
OutcomeFallsThrough(w, n) ==
  AfterSuccess(IF pc[w] = "succeeded" THEN batch[w][n] ELSE batch[w][n] + 1)

\* The row the loop writes once the send call has returned.
Outcome(w, n) ==
  IF pc[w] = "succeeded" THEN AfterSuccess(batch[w][n]) ELSE AfterFailure(batch[w][n] + 1)

\* UpdateStatus records the outcome; its error is ignored, so a call that
\* takes effect and then fails is the same step.
Record(w) ==
  /\ pc[w] \in {"succeeded", "unsuccessful"}
  /\ ~canceled[w]
  /\ \E n \in Notif : /\ Current(w, n)
                      /\ row' = [row EXCEPT ![n] = Outcome(w, n)]
                      /\ MoveOn(w, n)
  /\ UNCHANGED <<canceled, orphan, faults, history>>

\* UpdateStatus fails without effect; the loop moves on all the same.
RecordLost(w) ==
  /\ pc[w] \in {"succeeded", "unsuccessful"}
  /\ \E n \in Notif : Current(w, n) /\ MoveOn(w, n)
  /\ IF canceled[w] THEN UNCHANGED faults ELSE Inject("db")
  /\ UNCHANGED <<row, canceled, orphan, history>>

---------------------------------------------------------------------------
(* The worker process *)

\* SIGTERM: main cancels the context both loops share.
Interrupt(w) ==
  /\ pc[w] \notin {"stopped", "down"}
  /\ ~canceled[w]
  /\ Inject("sigterm")
  /\ canceled' = [canceled EXCEPT ![w] = TRUE]
  /\ UNCHANGED <<row, pc, batch, orphan, history>>

\* Mutant of LoopStops: the loop stops only when there is nothing left to read.
LoopStopsDrained(w) ==
  /\ pc[w] = "idle"
  /\ canceled[w]
  /\ Found = {}
  /\ pc' = [pc EXCEPT ![w] = "stopped"]
  /\ UNCHANGED <<row, batch, canceled, orphan, faults, history>>

\* runLoop sees ctx.Done between two ticks.
LoopStops(w) ==
  /\ pc[w] = "idle"
  /\ canceled[w]
  /\ pc' = [pc EXCEPT ![w] = "stopped"]
  /\ UNCHANGED <<row, batch, canceled, orphan, faults, history>>

\* The process is gone, and its goroutines with it.
Gone(w) ==
  /\ pc' = [pc EXCEPT ![w] = "down"]
  /\ batch' = [batch EXCEPT ![w] = Empty]
  /\ canceled' = [canceled EXCEPT ![w] = FALSE]
  /\ orphan' = [orphan EXCEPT ![w] = {}]

\* main returns after wg.Wait.
Exit(w) ==
  /\ pc[w] = "stopped"
  /\ Gone(w)
  /\ UNCHANGED <<row, faults, history>>

\* The process dies: panic, SIGKILL, node failure.
Crash(w) ==
  /\ pc[w] # "down"
  /\ Inject("crash")
  /\ Gone(w)
  /\ UNCHANGED <<row, history>>

\* The Deployment starts the worker again.
Restart(w) ==
  /\ pc[w] = "down"
  /\ pc' = [pc EXCEPT ![w] = "idle"]
  /\ UNCHANGED <<row, batch, canceled, orphan, faults, history>>

LoopStep(w) ==
  \/ IdleTick(w) \/ FindPending(w) \/ Mark(w) \/ MarkFails(w)
  \/ StartSend(w) \/ SendSucceeds(w) \/ SendFails(w) \/ SendAbandoned(w)
  \/ Record(w) \/ RecordLost(w)
  \/ LoopStops(w) \/ Exit(w) \/ Restart(w)

Next ==
  \/ \E n \in Notif : Create(n) \/ BackoffElapses(n)
  \/ \E w \in Worker : LoopStep(w) \/ OrphanEnds(w) \/ Interrupt(w) \/ Crash(w)

Spec == Init /\ [][Next]_vars

\* Every loop keeps running (its goroutine is scheduled, its ticker ticks, a
\* send call returns, a process that is down is started again), and backoffs
\* elapse.  Nothing forces a notification to be created, a fault to happen or
\* an orphan to end.
Fairness ==
  /\ \A w \in Worker : WF_vars(LoopStep(w))
  /\ \A n \in Notif : WF_vars(BackoffElapses(n))

FairSpec == Spec /\ Fairness

---------------------------------------------------------------------------
(* Properties of any number of workers *)

Settled == {"delivered", "failed"}

\* A notification is recorded as delivered only if a server accepted it:
\* no order of the two updates and the send call, no stale snapshot and no
\* failed call makes the table claim a delivery that did not happen.
DeliveredWasAccepted ==
  \A n \in Notif : row[n].status = "delivered" => n \in accepted

\* A notification is given up as failed only after MaxAttempts real send
\* calls, and no row or snapshot ever overstates the calls made, although
\* workers overwrite each other's counts.
FailedUsedItsBudget ==
  \A n \in Notif : row[n].status = "failed" => tries[n] >= MaxAttempts

(* Properties of one worker at a time *)

\* The attempts column bounds the send calls: WORKER_MAX_RETRIES /
\* max_attempts is the most times a notification is ever sent, whatever
\* fails and however often the worker restarts.
AttemptBudget == \A n \in Notif : tries[n] <= MaxAttempts

\* Once a send call succeeded the notification is not sent again, even when
\* the update to 'delivered' is lost.
NoSendAfterSuccess == [][\A n \in confirmed : tries'[n] = tries[n]]_vars

\* While next_retry_at is in the future no update touches the row and no
\* send call is made: only time ends a backoff.
BackoffRespected ==
  [][\A n \in Notif : row[n].backoff =>
       /\ row'[n] \in {row[n], [row[n] EXCEPT !.backoff = FALSE]}
       /\ tries'[n] = tries[n]]_vars

\* The delivery loop implements the abstract life cycle.
Lifecycle == INSTANCE DeliveryLifecycle
  WITH life <- [n \in Notif |-> [status |-> row[n].status,
                                 attempts |-> row[n].attempts,
                                 tries |-> tries[n]]]
ImplementsLifecycle == Lifecycle!Spec

(* Liveness *)

\* The row is left 'processing', and no worker has it in its batch.
Stranded(n) == row[n].status = "processing" /\ \A w \in Worker : n \notin DOMAIN batch[w]

\* Several workers overwrite each other's updates, and take settled
\* notifications up again, but each notification settles for good at last.
\* A crash, a SIGTERM or a failed update may strand one as 'processing', for
\* good, and do nothing else: even then none is taken up again and again, or
\* stays pending.
SettlesForGood ==
  \A n \in Notif :
    row[n].status = "pending" ~>
      [](row[n].status \in Settled \/ (faults > 0 /\ Stranded(n)))
===========================================================================
