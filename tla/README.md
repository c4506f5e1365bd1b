# Verification of the event notification service

TLA+ models of `event-notification-service`, TLC configurations that check them
on small instances, and proofs that TLAPS checks for every instance. Every
definition is translated from the Go code and the SQL it runs; where a document
says something else, a run shows the difference.

## 1. The system

Clients submit business events over HTTP; the service stores each event once,
turns it into one notification per recipient and delivers these by e-mail or
WhatsApp. Two kinds of process share one PostgreSQL database and exchange
nothing else.

| Component | Code | State it keeps | Operations |
|---|---|---|---|
| Event submission | `http/handler.go`, `middleware/`, `errmap`, `usecases/event_service.go`, `validate_event.go`, `entities/event.go`, `event_repository.go` (Create, GetByID) | table `events` | `POST /api/v1/events` (upsert on idempotency key and type), `GET /api/v1/events/:id` |
| API keys | `middleware/apikey.go`, `admin_handler.go`, `api_key_repository.go` | table `api_keys` | authenticate, create, list, revoke, asynchronous `last_used_at` |
| Event processing loop | `usecases/process_events.go`, `event_repository.go` (ClaimPending, SetStatus) | `events.status`, a batch in memory | claim, fan out, mark failed |
| Delivery loop | `usecases/deliver_notifications.go`, `notification_repository.go` | table `notifications`, a batch in memory | read pending, mark, send, record the outcome |
| Senders | `email/smtp.go`, `whatsapp/sender.go` | a goroutine that may outlive its call | Send, SendToGroup |
| Worker process | `cmd/worker/main.go` | context, two tickers, a wait group | start, tick, SIGTERM, exit |
| API process | `cmd/api/main.go`, `http/server.go`, `postgres/dbutil.go` | listener, connection pool, requests in hand | start, serve, probe, shut down |
| Configuration | `config/config.go` | none | Load, Validate |
| Migration runner | `cmd/migrate/main.go`, the SQL scripts | `schema_migrations`, the schema | up, down |
| Logging, metrics, tracing | `logger`, `telemetry`, `metrics.go` | none the service reads | - |

**How they interact.** The API writes `events` (`accepted`). The processing loop
claims them (`FOR UPDATE SKIP LOCKED`, `processing`) and inserts `notifications`
(`pending`) one by one. The delivery loop polls these with a plain `SELECT`,
updates rows by id and calls a sender between two updates. Several workers may
run: `README.md:750` of the repository says two replicas, the base manifest one,
and a rolling update overlaps an old and a new one. The loops never talk to each
other or to the API; every race is a race of SQL statements.

**What is hard.**

* *Interleaving*: two delivery loops on the same rows, without row locks; two
  claims; concurrent copies of one submission; a revocation while the key is in
  use; two migration runners.
* *Failure in the middle*: SIGTERM cancels the context that the loops pass to
  their own status updates; errors of those updates are ignored; a crash loses
  the batch in memory; an `INSERT` commits and its reply is lost; a mail server
  accepts the message and the dialogue then fails.
* *Ordering and staleness*: attempts are counted from a snapshot; `last_used_at`
  is written by a goroutine after the answer; the version to roll back is read
  outside the transaction that rolls it back.
* *Time and limits*: exponential backoff, query timeouts, a small connection
  pool, the two timeouts of the API's shutdown, no timeout on the SMTP dialogue
  and on the readiness probe's ping.
* *Settings*: what `Validate` accepts, the programs must survive.

**What makes each component correct.** Delivery: never more send calls than the
budget, none after a success, none inside a backoff, a final status that tells
the truth, and every notification settles. Processing: every target exactly one
notification, in order. Submission: one event per key and type, the same id in
every answer, the first content stays. API keys: revocation is final and holds
for whoever arrives after its confirmation. Migrations: ledger and schema agree
and every command finds a schema it can work on. Senders: one dialogue per call,
one mail at most, and no silent server keeps a worker alive. The API process: no
call waits for ever, no request loses its pool early, and it stops when told.
The whole: each recipient of a submission is notified once, within one budget.

`PROJECT.json` lists every component (`components`) and every place where the
code is exposed (`hazards`).

## 2. The modules

| Module | Models | Relation to the others |
|---|---|---|
| `NotificationDelivery` | delivery loop, `notifications`, senders as outcomes, worker life | implements `DeliveryLifecycle` |
| `DeliveryLifecycle` | abstract: the life of one notification with its budget | |
| `SmtpDelivery` | the same loop with `SMTPSender` opened up | implements `NotificationDelivery` |
| `EventProcessing` | processing loop, `events.status`, the notification rows | implements `FanOut` |
| `FanOut` | abstract: in-order, at-most-once fan-out | |
| `EventIntake` | a request, the upsert, its answer | |
| `HttpIntake` | the same through router, middleware, handlers, validation and error mapping; GET | implements `EventIntake` |
| `Pipeline` | the service: API, both loops of each worker, the two tables | implements `EventIntake`, `EventProcessing` and `NotificationDelivery` |
| `ApiKeys` | authentication and administration of keys | |
| `Config` | `Load`, `Validate`, and what the programs do with the result | used by `ApiProcess` |
| `ApiProcess` | an API process from its environment to its exit: pool, timeouts, shutdown | |
| `Migrations` | migration runner and the eight scripts | |
| `NotificationDeliveryProofs`, `EventProcessingProofs`, `EventIntakeProofs`, `ApiKeysProofs` | proofs about one component | |
| `SmtpDeliveryProofs`, `HttpIntakeProofs`, `PipelineProofs` | proofs about a refinement and what it carries over | use those of the component they refine |
| `ProgramProofs` | proofs about the programs of `cmd/`: `Migrations` and `ApiProcess` | |
| `MC*` | small instances for TLC | |

**`NotificationDelivery`.** `row` is the table, reduced to status, attempts and
"next_retry_at is in the future". Each worker has a program counter; `batch[w]`
maps the notifications of its batch that are not done to the attempts *as read*.
`FindPending` is the `SELECT`; `Mark` the update to `processing`; `StartSend`
the call (with its failure when the sender is missing); `SendSucceeds`,
`SendFails` and `SendAbandoned` its return; `Record` and `RecordLost` the update
with the outcome. A failed call may have had its effect or not. A sender may
report an error for a message that was accepted, and a cancelled SMTP call
leaves a goroutine that goes on transmitting (`orphan`). `Interrupt` is SIGTERM:
database calls of the loop may fail from then on and the loop stops after its
batch (`LoopStops`, `Exit`). An update that was under way when the signal came
is a failed call with effect followed by the signal: two faults of the bound.
`tries`, `confirmed` and `accepted` are history variables. Mail and message
texts, `last_error` and the timestamps are left out.

**`SmtpDelivery`.** `talk[w][n]` is the goroutine of a send call: where its
dialogue is, what it has put into the channel, or that its server is silent.
`Call`, `TakeNil`, `TakeError` and `Abandon` are `Send` with its two selects;
the second may take either case when both are ready. `Script` says what may
follow each step of `dialAndSend`. Every step is a step of
`NotificationDelivery` joined with one of the goroutine, or `Converse` alone, so
the refinement is by construction of the actions and proved (`Implements`).
`mails` and `mailedAs` are history variables; `SavedFrom` is the sender that is
left of a notification once it has been through the table: none.

**`EventProcessing`.** `ClaimLock` is the evaluation of the `UPDATE ... (SELECT
... FOR UPDATE SKIP LOCKED)`, `ClaimCommit` and `ClaimFails` its end; locked
rows are skipped by other workers meanwhile. `TakeEvent`, `StoreNext`,
`RejectNext`, `StoreFails`, `FinishEvent`, `SetFailed` and `SetFailedLost` are
`processEvent` and its caller. A target that `NewNotification` refuses and an
event whose notifications column cannot be read are constants. Nothing in the
code ever sets the status `notified`: a finished event stays `processing`.

**`EventIntake` and `HttpIntake`.** A request is one HTTP request and, since
every request mints its own UUID, its own id. In `EventIntake` any request may
be refused or fail; `Store` is the upsert against the unique index, `Accept` the
answer, `Lost` the end without one, `Claim` and `Fail` what the worker does to
the status. `HttpIntake` says which requests, and how: a request is a record of
what the code tells apart in it (`ask`), `TurnAway`, `Reject` and `Admit` are
the middleware, `RefuseInput` the handler, `ValidateEvent` and `NewEvent`,
`CreateRefused`, `CallFails` and `NotFound` the errors of the repository with
their statuses. A GET asks for an id that an answer named, or for any other.

**`Pipeline`.** Composes the three by `INSTANCE`, each over its own program
counters and a view of the shared state: the status column of `events`
(`EventStatus`) and the rows per recipient (`Stored`, from the history variable
`owner`) are what `EventProcessing` sees. An INSERT of the processing loop is a
`Create` of the delivery loop (`Enlist`); SIGTERM and a crash hit both loops at
once; `Exit` waits for both. Recipients are reached by e-mail, all submissions
are well formed (refusals are the component models').

**`ApiKeys`.** A request is looked up (`Lookup`), checked (`Reject`, `Admit`) and
handled (`CreateKey`, `RevokeKey`, `Serve`, ...). `touching` holds the goroutines
that write `last_used_at`: each may run at any later time, or never. `revoked`
remembers, for each request, the revocations that were confirmed before it
arrived.

**`Config` and `ApiProcess`.** `Load` and `Valid` are operators over a record of
environment variables. A process starts from one of them (`Start`), fails,
panics or serves. Each request, and each goroutine of `APIKeyAuth`, is then a
sequence of calls of the database: `Acquire` takes one of the pool's
connections, `Expired` and `Fails` end a call without a reply. `Tick` advances
the ages of the calls and, after `Sigterm`, the clock of the shutdown; it may
not pass a timeout that has not taken effect, so that the timeouts are exact and
everything else is as slow as it likes. `Drained` or `GraceOver` ends
`server.Shutdown`, `Flush` the telemetry's, `Exit` the pool's `Close`. What
pgxpool and gin-contrib/cors do is modelled from how the code uses them. Of the
worker, `ApiProcess` has the start only.

**`Migrations`.** The scripts are data: what a version needs (`Host`), whether it
may be repeated, what its down script leaves (`Dropped`; 007 cannot be undone).
`StartUp` loads the ledger once, `Apply` and its failures are one transaction
per version, `StartDown` reads the last version and `RollBack` is the
transaction that takes it back. `DownsAlone` says whether operators run `down`
only while nothing else runs. That is an assumption about the operators, not
about the code, which has no lock; the properties of the run `migrate` and their
theorems need it, and `rollback_race` shows what happens without it. Clocks of
several machines are taken to agree.

## 3. What the runs check

Runs that pass:

| Run | Instance | Shows |
|---|---|---|
| `smtp` | 1 worker, 3 notifications (2 by e-mail), batch 2, 2 attempts, credentials, 2 faults of any kind, a server that may fall silent at any step | one dialogue and one mail per call, `NoSendAfterSuccess`, `BackoffRespected`, refinement of `DeliveryLifecycle`; a call returns unless its server is silent, a worker stops even so |
| `delivery` | 2 workers, 2 notifications, 2 attempts, WhatsApp not configured, 1 fault | what the table says of a settled notification is true, although rows are overwritten; each settles for good, or is left `processing` for good by a fault |
| `events` | 2 workers, 3 events (well formed, one refused target, unreadable), 3 faults | `NoDuplicateFanOut`, refinement of `FanOut`; every accepted event is dealt with, or left failed or `processing` for good by a fault |
| `intake` | a submission of some fifty shapes (one thing wrong, or none), one with the same key and other content, a GET; any failure | one event, agreeing answers, first content stays; refused is not stored, stored was vetted, a 202 can be read; refinement of `EventIntake` |
| `pipeline` | a submission for 2 recipients sent twice with different content, 1 worker, 2 attempts, 1 fault in each loop | refinement of the three components; `RecipientBudget`; every recipient of a 202 is settled with, or lost for good to a fault of the loop that had it; SIGTERM stops both loops |
| `api` | both programs in each environment that differs from a development or production one in at most two variables; 2 submissions (one with a slow body), 1 probe, pool of 1 or 10, a database that may fall silent | the only panics are those listed; calls end; the pool outlives requests that had arrived, given time; SIGTERM ends the process |
| `keys` | 2 keys, 5 requests: create, revoke, use, an attempt without scope, a malformed one | `RevokedStaysOut`, `RevocationIsFinal`, `OnlyScopedChanges` |
| `migrate` | 2 runners, unbounded ups and downs that may fail anywhere, downs alone | `LedgerMatches`, `NoGaps`, `UpCompletes`, `NeverRefused` |

Runs that show where the code and its documentation part:

| Run | What happens |
|---|---|
| `delivery_over_budget` | two workers send one notification more often than "Max delivery attempts" |
| `pipeline_stranded` | a graceful shutdown leaves a submission that was answered 202 with a notification missing or `processing`, for good |
| `rollback_race` | a `down` reads the last version while an `up` is under way and rolls it back under the next |
| `from_lost` | the sender a client asks for is not stored with the notification: mails go out under the default one |

Places where the code may surprise a reader that are in the models but in no run
of their own:

* A duplicate submission is answered 202 with the id of the original; the README
  (`README.md:389`) and the annotation in `handler.go:36` say 409.
* A submission that reuses key and type with other content is answered 202 and
  its content dropped, while the comments on `Create` (`event_repository.go:30`,
  `domain/ports/event_repository.go:13`) say that the record is updated. The
  README and the integration tests agree with the code.
* Every error of the key lookup, a timeout among them, is answered 401, while
  the README says that context errors are preserved through the stack.
* `Validate` lets through a CORS origin without a scheme and a worker interval
  of zero; the API and the worker panic over them at their start
  (`PanicsAreKnown` has them as its exceptions). `APP_ENV=Production` is
  production for `Validate` and not for the defaults of CORS and HSTS.
* With the defaults a shutdown waits 10 seconds for requests whose two database
  calls may take 5 each: `PoolOutlivesRequests` needs more. The README gives 30
  seconds as the default of `SHUTDOWN_TIMEOUT`, the code has 15.
* The readiness probe's ping has no timeout but its client's patience; `Stops`
  has it as its exception.
* `ValidateEvent` trims the channel and `NewNotification` does not
  (`OnlyVetted` has it as its exception).
* `WORKER_MAX_RETRIES` is read by the configuration but never reaches the use
  case, where `max_attempts` is the constant 5.

**Bounds and why they suffice.** `MaxFaults` bounds injected faults; two or three
allow a lost update and then a signal or a crash, and the stranding, double
sending and half fan-outs already need only one or two. A batch of 2 below 3
rows exercises the `LIMIT`; two attempts give a retry and a last attempt. Two
workers suffice for every pairwise race, since a worker reacts only to the
table; the invariants that hold for any number of workers are proved for any
number. In `pipeline`, two requests of one submission are the smallest case in
which a resubmission meets an event at every stage of its processing, and two
recipients the smallest in which a fan-out can stop half-way; `NotifCount`
bounds the rows above the two that a correct service stores, so that a third
would show. In `intake` three requests suffice for a race of two on one key
beside a reader; a request has at most one flaw, since each check ends the
request. In `api` all durations are multiples of 5 seconds and so is `Quantum`:
the guards on time are closed comparisons, so that finer steps reach no other
order of events. Durations are taken not to overflow 64 bits of nanoseconds. The
migration run has no bound beyond the eight scripts. Symmetry is used over
runners only, where there is no liveness.

`CHECK_DEADLOCK FALSE` is set where the system may really stop: clients stop
sending (`intake`, `keys`), a silent mail server holds a worker for good
(`smtp`, `from_lost`), processes end (`api`).

**Fairness.** `WF(LoopStep(w))`, and in `Pipeline` one for each loop: the
goroutine is scheduled, its ticker ticks and the Deployment restarts the pod, all
justified by `runLoop` and the manifest. In `delivery`, `events` and `pipeline`
a send call is taken to return; `SmtpDelivery` replaces the assumption by
`WF(Converse(w, n))`, the goroutine is scheduled, and lets the server fall silent
instead. `WF(BackoffElapses(n))`: time passes. In `ApiProcess`: time passes, a
call that has failed returns, the shutdown goes on; nothing is assumed of clients
and database. Nothing is assumed anywhere of requests, faults or abandoned
goroutines. One fault can strand a row, as `pipeline_stranded` shows. The
liveness of what is stored therefore has two ends: the proper one or, after a
fault of the loop in question, the row given up or left `processing` with no
worker that has it (`CutShort`, `Stranded`, `LostFor`). Either must be reached,
and for good, in behaviours with faults as well: no crash, signal or failed call
leaves an event waiting, a lock held or a row that is taken up for ever.

## 4. What is proved

All proofs are for every value of the constants under the named assumptions.
`ConstantsAssumption`, `SmtpAssumption`, `PipelineAssumption`, `AskAssumption`
and `DownsAssumption` only say what kind of thing the constants are.
`ProcessAssumption` says besides that the step of the clock divides every query
timeout a process may be started with: time is then exact at a timeout, where
the code's timer fires. Every theorem below holds of the specification without
fairness, and so of the one with it.

| Theorem | Statement | Assumes |
|---|---|---|
| `NotificationDeliveryProofs!TypeCorrect`, `DeliveredIsReal`, `FailedIsExhausted` | types; a final status is true | any number of workers |
| `NotificationDeliveryProofs!OnlyFaults` | until something fails, a row that is `processing` has a worker that will record its outcome | any number of workers |
| `NotificationDeliveryProofs!BudgetKept`, `SuccessIsFinal`, `BackoffKept`, `Refinement` | budget, no resend, backoff, `DeliveryLifecycle` | `OneWorker` |
| `SmtpDeliveryProofs!Implements`, `SmtpRowsHonest`, `NoneLost`, `AtMostOne`, `MailIsReal` | the dialogue refines the sender; final status; goroutines; a delivered mail was taken over | any number of workers |
| `SmtpDeliveryProofs!SmtpBudget`, `SmtpLifecycle`, `SmtpSuccessIsFinal`, `SmtpBackoffKept`, `OneMail` | what one worker keeps, with its dialogues; one mail per call | `OneWorker` |
| `EventProcessingProofs!TypeCorrect`, `NoDuplicates`, `Refinement` | at-most-once fan-out, `FanOut` | any number of workers |
| `EventProcessingProofs!OnlyFaults` | until something fails, only malformed events fail, and a claimed event is in hand or fanned out whole | any number of workers |
| `EventIntakeProofs!TypeCorrect`, `Unique`, `Agreement`, `FirstWins` | one event, one answer, first content | any requests |
| `HttpIntakeProofs!HttpImplements`, `HttpIdempotent` | the path through the middleware and the handlers refines `EventIntake`, and keeps its promises | any requests of any shape |
| `HttpIntakeProofs!RefusalIsFinal`, `StoredWasVetted`, `PromiseKept` | refused is not stored, stored was vetted, a 202 can be read | any requests of any shape |
| `PipelineProofs!IntakeImplemented`, `ProcessingImplemented`, `DeliveryImplemented` | the service refines each component | any requests and workers |
| `PipelineProofs!OutcomeHonest` | what becomes of a 202: one event, one notification for a recipient, no settled status without its cause | any requests and workers |
| `PipelineProofs!NothingIsDropped` | until something fails, a 202 is accounted for at every stage | any requests and workers |
| `PipelineProofs!BudgetPerRecipient` | one notification per recipient of a submission, sent within its budget | `OneWorker` |
| `ApiKeysProofs!TypeCorrect`, `StaysOut`, `Final`, `Scoped` | revocation | any requests and keys |
| `ProgramProofs!Completes`, `Matches`, `Gapless`, `NothingRefused` | ups and downs of any number of runners | `DownsAlone` |
| `ProgramProofs!PanicsKnown` | only two settings that `Validate` accepts make a program panic | any environments |
| `ProgramProofs!PoolOutlives` | the shutdown leaves the pool to whoever may still use it, if the grace is longer than two query timeouts | any clients, pool and timeouts |
| `ProgramProofs!Timely` | no call of a submission outlives its timeout, which is positive | any clients, pool and timeouts |

**The arguments.**

* *Delivery, any number of workers.* `TypeInv` adds to the types that a pending
  row is below its limit. `HonestInv` says that no row and no snapshot claims
  more attempts than send calls were made; it survives the overwriting of rows
  because a snapshot only ever understates.
* *Delivery, one worker.* With one worker nobody else writes: `BatchFresh` says
  the snapshot agrees with the rows, `RowSound` relates status, attempts and
  send calls in every state. A notification whose send succeeded can only be
  `processing` or `delivered`, never pending: that is why the lost update strands
  it instead of sending it twice. Both break with a second worker, as
  `delivery_over_budget` shows.
* *What a fault is needed for.* `StrandInv`, in the two loops: before the first
  fault no context is cancelled, the last to mark a row has not recorded it yet
  although others may have overwritten it meanwhile, and the loop gives an event
  up only if a target was refused. So every way to strand a row, which is what
  the liveness properties make an exception of, is one of the faults counted.
* *Senders.* `SmtpInv` ties each goroutine to the call that waits for it or to
  the orphans, and `accepted` to `mails`; a worker with an orphan is cancelled
  and starts no further dialogue. `CallInv` counts the mails of a notification
  against its calls, the one under way included.
* *Processing.* `FanOutInv`: locks and batches of different workers are disjoint
  (`Exclusive`, from `SKIP LOCKED` and the status change in the same statement),
  what a worker holds agrees with the table (`Holding`), and the stored targets
  of the event at hand are exactly those before its position (`Progress`).
* *Submission.* `IntakeInv`: what an `INSERT` returned is a row of the
  request's own key and type; with uniqueness all answers name it.
* *Submission, from the router.* A request is admitted at most once, and what
  `HttpIntake` stores, refuses or answers is an action of `EventIntake`: hence the
  refinement and `HttpIdempotent`. `HttpInv` adds what the route has decided.
  `Passed`: a status is written only when the request is done, and a request at
  the store is inside the authentication, came with a good key and, if it is a
  POST, has a body that can be submitted. `Vetted`: the request of a stored event
  was vetted in this way, is past its INSERT and, if answered, was not answered
  with a refusal. `Kept`: the id that a 202 had promised to a GET is in the table,
  where events stay, and that GET is not answered 404.
* *The whole.* `TablesInv` says how the shared tables look to each component:
  which notifications exist, and that their owners are recipients. Each step of
  the service is then a step of each component or leaves it alone. The
  components' theorems are cited through the instances: that a recipient gets
  one notification follows from `EventIntakeProofs!Unique` and
  `EventProcessingProofs!NoDuplicates`, its budget from
  `NotificationDeliveryProofs!BudgetKept`. `OutcomeHonest` and `NothingIsDropped`
  follow one submission through all three; the second needs in addition that the
  notification of a recipient is a row of the delivery loop's table
  (`RowsOfOwners`).
* *Keys.* `KeysInv`: a committed revocation, confirmed or not, leaves its key
  dead; a request that arrived after a confirmation reads its row later, and
  dead rows stay dead because the late write changes one column only.
* *Migrations.* `MigrateInv`: what a runner going up has passed is in the
  ledger, so the ledger is always 001 up to some version with ascending
  instants, and the schema is what it says; the next script then finds its host
  and nothing of its own, and the row with the latest instant is the highest.

* *Configuration.* `Validate` and `cors.New` read the same list, so that a panic
  leaves only the form of an origin; the fallback of an interval is positive, so
  that a panic needs one that was set.
* *Shutdown.* `ApiInv`: a request has a call exactly while it is authenticated or
  stored (`CallInv`); a call's age is a multiple of the clock's step that does not
  pass the query timeout, since `Tick` stops at it and both are multiples
  (`StepsToMultiples`). Then the time since SIGTERM is at most the age of the
  call under way, plus one timeout if it is the second (`DrainInv`): two timeouts
  in all. A grace longer than that finds no submission in hand but those whose
  body is still to come (`GraceSuffices`).

The inductive invariants were model-checked on the instances of the runs before
they were proved, and so were `OnlyFaultsStrand`, `OutcomeIsReal` and
`NothingDropped`, which no run repeats.

**Only model-checked:** the liveness properties (`SettlesForGood`,
`AcceptedIsFannedOut`, `AcceptedSettlesUnlessFault`, `StopsWhenTold`,
`CallReturns`, `StopsDespiteSilence`, `CallsEnd`, `Stops`), whose arguments need
fairness and `ENABLED`; `OnlyFaults`, `NothingIsDropped` and `Timely` are the
safety they rest on. And the disagreements of section 3, which are
counterexamples. Every invariant and action property of a passing run is a
theorem.

## 5. What is not modelled

* Metrics, logging, tracing, request ids and headers: they observe. The worker's
  metrics and health server, the five seconds its end gets, and the `pool.Close`
  after it, which waits for the health server's own ping if the database is
  silent: `StopsWhenTold` speaks of the two loops.
* A request that reaches the API during its shutdown, on a connection accepted
  right before: `ApiProcess` lets requests arrive until SIGTERM.
* JWT middleware: `NewRouter` does not install it. `sqlsafe.go`: nothing calls
  it. Generated API documentation.
* The text of messages, the JSON of the WhatsApp call, RFC details of the SMTP
  commands, the spelling of idempotency keys (two spellings of one UUID are two
  keys).
* The retry delay as a number: its effect is the backoff flag.
* HTTP's read and write timeouts as durations: a slow client may leave at any
  time.
* How long pgxpool takes to break connections after a query timeout; in
  `ApiProcess` a connection is free when its call has ended.
* Skewed clocks between migration runners, and the rows in the tables when a
  script runs.
* Overlapping keys of *several* events in `Pipeline` beyond one submission sent
  twice; the proofs of its refinements have no such bound.

## 6. Plan

Done: delivery with its life cycle and its sender, processing with its fan-out,
submission from the router to the row, API keys, migrations, the composition of
the three, configuration and the API process; proofs of every safety property
and every refinement that the runs check.

What could follow: skewed clocks in `Migrations`, as a run that shows which
order `down` then takes, and a theorem of what ups alone keep without any
assumption about clocks; the path of `HttpIntake` in place of `EventIntake` in
`Pipeline`, whose theorems then speak of HTTP statuses; a measure for the
delivery loop (attempts left, place in the batch) that every step of a worker
lowers, as the safety part of `SettlesForGood`.
