----------------------------- MODULE ApiProcess -----------------------------
(***************************************************************************)
(* A process of cmd/api from its environment to its exit: main, newApp,    *)
(* the handling of requests as far as they wait for the database, the      *)
(* goroutines of APIKeyAuth, and the shutdown with its timeouts.  (Of      *)
(* cmd/worker the start only; its loops and their end are Pipeline.)       *)
(*                                                                         *)
(* What the requests say and store is HttpIntake; here each is the calls   *)
(* of the database it makes, on a pool of connections that may all be      *)
(* taken, over a database that may not answer.  Time passes in steps of    *)
(* Quantum seconds, and not past the end of a timeout before that has      *)
(* taken effect.                                                           *)
(***************************************************************************)
EXTENDS Config, FiniteSets

CONSTANTS
  Environments, \* environments a process may be started in
  Post,         \* submissions ...
  Slow,         \* ... whose body arrives at some later time, or never
  Ping,         \* readiness probes
  Quantum       \* what the timeouts, in seconds, are multiples of

\* Every timeout of a query is a multiple of Quantum: with a Quantum of 1, in
\* any environment.
ASSUME ProcessAssumption ==
  /\ Environments \subseteq Environment
  /\ Slow \subseteq Post /\ Post \cap Ping = {}
  /\ Quantum \in Nat \ {0}
  /\ \A e \in Environments : Load(e).dbQueryTimeout % Quantum = 0

Request == Post \cup Ping

\* Calls of the database: by the handling of a request, and by the goroutine
\* that writes last_used_at.
Call == Request \X {"handler", "touch"}
Handler(r) == <<r, "handler">>
Touch(r) == <<r, "touch">>

VARIABLES
  program,   \* "api" or "worker"
  phase,     \* "starting", then "invalid", "failed" or "panicked", or "looping"
             \* (the worker), or "serving", "draining", "flushing", "closing", "exited"
  env,       \* its environment, until it has started
  cfg,       \* of its configuration, what it then uses
  clock,     \* seconds since SIGTERM, while the shutdown's timeout matters
  handling,  \* handling[r]: "new", "auth", "reading", "store", "ping", "answered", "gone"
  call,      \* call[c]: "none", "waiting" for a connection, "querying"
  age,       \* age[c]: seconds since it began
  database   \* "up" or "silent"

apiVars == <<program, phase, env, cfg, clock, handling, call, age, database>>
process == <<program, phase, env, cfg, clock>>

\* The settings of a process that has not started.
Unused == [shutdownTimeout |-> 0, dbQueryTimeout |-> 0, dbPoolMaxConns |-> 0]
Least(a, b) == IF a < b THEN a ELSE b
Most(a, b) == IF a < b THEN b ELSE a

\* The time that server.Shutdown and the telemetry's flush get together: the
\* inner timeout, within that of waitForShutdown.
Grace == Least(Most(cfg.shutdownTimeout, 0), Most(cfg.shutdownTimeout - 5, 5))

---------------------------------------------------------------------------
(* Start *)

ApiInit ==
  /\ program \in {"api", "worker"}
  /\ phase = "starting"
  /\ env \in Environments
  /\ cfg = Unused
  /\ clock = 0
  /\ handling = [r \in Request |-> "new"]
  /\ call = [c \in Call |-> "none"]
  /\ age = [c \in Call |-> 0]
  /\ database = "up"

\* main gets to this point.
StartsAs(p) ==
  /\ phase = "starting"
  /\ phase' = p
  /\ UNCHANGED <<program, clock, handling, call, age, database>>

Dies(p) == StartsAs(p) /\ UNCHANGED <<env, cfg>>

\* The environment is not read again.
Runs(p, c) ==
  /\ StartsAs(p)
  /\ env' = {}
  /\ cfg' = [f \in DOMAIN Unused |-> c[f]]

StartApi(c) ==
  \/ PoolFails(c) /\ Dies("failed")
  \/ ~PoolFails(c) /\ CorsPanics(c) /\ Dies("panicked")
  \/ ~PoolFails(c) /\ ~CorsPanics(c) /\ Runs("serving", c)

StartWorker(c) ==
  \/ PoolFails(c) /\ Dies("failed")
  \/ ~PoolFails(c) /\ TickerPanics(c) /\ Dies("panicked")
  \/ ~PoolFails(c) /\ ~TickerPanics(c) /\ Runs("looping", c)

Start ==
  /\ phase = "starting"
  /\ LET c == Load(env)
     IN  \/ ~Valid(c) /\ Dies("invalid")
         \/ Valid(c) /\ program = "api" /\ StartApi(c)
         \/ Valid(c) /\ program = "worker" /\ StartWorker(c)

---------------------------------------------------------------------------
(* Calls of the database *)

Busy == {c \in Call : call[c] = "querying"}

Alive == phase \in {"serving", "draining", "flushing", "closing"}

\* Call c begins: its context's time starts with the wait for a connection.
Begin(c) == call' = [call EXCEPT ![c] = "waiting"] /\ age' = [age EXCEPT ![c] = 0]

End(c) == call' = [call EXCEPT ![c] = "none"] /\ age' = [age EXCEPT ![c] = 0]

\* The calls that time out, and when: the pool's Ping has the context of its
\* request only, which has no timeout; the goroutine has one of its own, and
\* withQueryTimeout gives one if the setting is positive.
Timed(c) == c[2] = "touch" \/ (c[1] \in Post /\ cfg.dbQueryTimeout > 0)
Limit(c) ==
  CASE c[2] = "handler" -> cfg.dbQueryTimeout
    [] c[2] = "touch" -> IF cfg.dbQueryTimeout > 0 THEN Least(5, cfg.dbQueryTimeout) ELSE 5

\* Mutant of Expired: the wait for a connection is not timed.
ExpiredQuerying(c) == call[c] = "querying" /\ Timed(c) /\ age[c] >= Limit(c)

Expired(c) == call[c] # "none" /\ Timed(c) /\ age[c] >= Limit(c)

\* The pool hands out a connection; a closed one does not.
Acquire(c) ==
  /\ Alive /\ phase # "closing"
  /\ call[c] = "waiting"
  /\ Cardinality(Busy) < cfg.dbPoolMaxConns
  /\ call' = [call EXCEPT ![c] = "querying"]
  /\ UNCHANGED <<process, handling, age, database>>

\* The call returns an error: its time is over or the pool is closed.
Fails(c) ==
  \/ Expired(c)
  \/ call[c] = "waiting" /\ phase = "closing"

\* The goroutine's call ends, one way or the other.
TouchEnds(c) ==
  /\ Alive
  /\ c[2] = "touch"
  /\ Fails(c) \/ (call[c] = "querying" /\ database = "up")
  /\ End(c)
  /\ UNCHANGED <<process, handling, database>>

---------------------------------------------------------------------------
(* Requests *)

Goes(r, stage) == handling' = [handling EXCEPT ![r] = stage]

\* The router gives it to the middleware or the probe's handler.  (A request on
\* a connection accepted right before the listener was closed, which
\* server.Shutdown would still serve, is not considered.)
Arrive(r) ==
  /\ phase = "serving"
  /\ handling[r] = "new"
  /\ Goes(r, IF r \in Ping THEN "ping" ELSE "auth")
  /\ Begin(Handler(r))
  /\ UNCHANGED <<process, database>>

Answered(r) == Goes(r, "answered") /\ End(Handler(r)) /\ UNCHANGED <<process, database>>

\* Its call fails: an error is the answer.
CallFails(r) == Alive /\ Fails(Handler(r)) /\ Answered(r)

Replied(r) == Alive /\ call[Handler(r)] = "querying" /\ database = "up"

\* GetByHash found the key: the goroutine is started, the handler reads the
\* body and calls Create, unless the body is a while in coming.
Authenticated(r) ==
  /\ Replied(r)
  /\ handling[r] = "auth"
  /\ Goes(r, IF r \in Slow THEN "reading" ELSE "store")
  /\ call' = [call EXCEPT ![Handler(r)] = IF r \in Slow THEN "none" ELSE "waiting",
                          ![Touch(r)] = "waiting"]
  /\ age' = [age EXCEPT ![Handler(r)] = 0]
  /\ UNCHANGED <<process, database>>

\* The key is not good, or the last call has been made: the answer.
Answer(r) == Replied(r) /\ Answered(r)

\* The rest of the body arrives.
Receive(r) ==
  /\ Alive
  /\ handling[r] = "reading"
  /\ Goes(r, "store")
  /\ Begin(Handler(r))
  /\ UNCHANGED <<process, database>>

\* READ_TIMEOUT passes, or the client leaves: a call is cancelled with the
\* context of its request; the goroutine's context is its own.
HangUp(r) ==
  /\ Alive
  /\ handling[r] \in {"auth", "reading", "store", "ping"}
  /\ Goes(r, "gone")
  /\ End(Handler(r))
  /\ UNCHANGED <<process, database>>

---------------------------------------------------------------------------
(* Shutdown *)

InHand(r) == handling[r] \in {"auth", "reading", "store", "ping"}

Turns(p) == phase' = p /\ UNCHANGED <<program, env, cfg, clock, handling, call, age, database>>

\* The listener is closed, and Shutdown waits for the requests in hand.
Sigterm == phase = "serving" /\ Turns("draining")

Drained == phase = "draining" /\ (\A r \in Request : ~InHand(r)) /\ Turns("flushing")

\* Mutant of GraceOver: Shutdown gets a context without timeout.
GraceOverNever == FALSE /\ UNCHANGED apiVars

\* Shutdown gives up.  The requests are neither cancelled nor cut off.
GraceOver == phase = "draining" /\ clock >= Grace /\ Turns("flushing")

\* The exporter takes the spans, or what is left of the time is over.
Flush == phase = "flushing" /\ Turns("closing")

\* The pool's Close returns when no connection is in use, and main does: what
\* is left of the requests goes with the process.
Exit ==
  /\ phase = "closing" /\ Busy = {}
  /\ phase' = "exited"
  /\ handling' = [r \in Request |-> IF InHand(r) THEN "gone" ELSE handling[r]]
  /\ call' = [c \in Call |-> "none"]
  /\ age' = [c \in Call |-> 0]
  /\ UNCHANGED <<program, env, cfg, clock, database>>

---------------------------------------------------------------------------
(* Environment *)

\* The database, or the network to it, is silent from now on.
Silence ==
  /\ database = "up"
  /\ Alive
  /\ database' = "silent"
  /\ UNCHANGED <<process, handling, call, age>>

Timing == phase \in {"draining", "flushing"}
Running(c) == call[c] # "none" /\ Timed(c)

\* Time passes, if someone waits for that.
Tick ==
  /\ Alive
  /\ Timing \/ \E c \in Call : Running(c)
  /\ Timing => clock < Grace
  /\ \A c \in Call : ~Expired(c)
  /\ clock' = IF Timing THEN clock + Quantum ELSE clock
  /\ age' = [c \in Call |-> IF Running(c) THEN age[c] + Quantum ELSE age[c]]
  /\ UNCHANGED <<program, phase, env, cfg, handling, call, database>>

ApiNext ==
  \/ Start
  \/ \E c \in Call : Acquire(c) \/ TouchEnds(c)
  \/ \E r \in Request :
       \/ Arrive(r) \/ CallFails(r) \/ Authenticated(r) \/ Answer(r) \/ Receive(r) \/ HangUp(r)
  \/ Sigterm \/ Drained \/ GraceOver \/ Flush \/ Exit \/ Silence \/ Tick

ApiSpec == ApiInit /\ [][ApiNext]_apiVars

\* Time passes, what has begun to return returns, and the shutdown goes on.
\* Nothing is assumed of the clients and of the database: it may be silent.
Fairness ==
  /\ WF_apiVars(Start) /\ WF_apiVars(Tick)
  /\ \A c \in Call : WF_apiVars(TouchEnds(c))
  /\ \A r \in Request : WF_apiVars(CallFails(r))
  /\ WF_apiVars(Drained) /\ WF_apiVars(GraceOver) /\ WF_apiVars(Flush) /\ WF_apiVars(Exit)

ApiFairSpec == ApiSpec /\ Fairness

---------------------------------------------------------------------------
(* Properties *)

\* A configuration that Validate accepts makes no program panic, but for the
\* two that it overlooks: an origin without a scheme, an interval of zero.
PanicsAreKnown ==
  phase = "panicked" =>
    \/ program = "api" /\ "bare" \in env.CORS_ALLOWED_ORIGINS
    \/ program = "worker" /\ \E n \in env.WORKER_PROCESS_INTERVAL \cup env.WORKER_DELIVER_INTERVAL : n <= 0

\* The database may be silent and the pool taken: a call of the handling of a
\* submission comes to an end, in every configuration that Validate accepts.
CallsEnd ==
  \A r \in Post : call[Handler(r)] # "none" ~> call[Handler(r)] = "none"

\* The pool is not closed under a submission that had arrived with its body
\* when the signal came, if the grace is longer than its two calls may take.
PoolOutlivesRequests ==
  phase = "closing" /\ Grace > 2 * cfg.dbQueryTimeout =>
    \A r \in Post \ Slow : ~InHand(r)

\* A process that is told to stop exits, whether or not clients send and the
\* database answers, but for a probe that waits on: its ping has no timeout.
Stops ==
  phase = "draining" ~>
    phase = "exited" \/ \E r \in Ping : call[Handler(r)] = "querying"
=============================================================================
