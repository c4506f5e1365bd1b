------------------------------- MODULE Config -------------------------------
(***************************************************************************)
(* internal/config: what Load makes of an environment, what Validate finds *)
(* wrong with it, and where the two programs fall over what it lets pass.  *)
(*                                                                         *)
(* An environment is a record of the variables the code tells apart.  A    *)
(* number or a boolean is the set of its value, {} if the variable is      *)
(* unset or cannot be parsed: both mean the fallback.  Other strings are   *)
(* "", "blank" (spaces only) or "set"; CORS_ALLOWED_ORIGINS is the set of  *)
(* the kinds of origins it lists, "bare" those without a scheme.  Durations *)
(* are in seconds and do not overflow an int64 of nanoseconds.             *)
(***************************************************************************)
EXTENDS Integers

Environment == [
  APP_ENV : {"", "development", "production", "Production"},
  TLS_CERT_FILE : {"", "set"}, TLS_KEY_FILE : {"", "set"},
  MAX_BODY_BYTES : SUBSET Int, DB_QUERY_TIMEOUT : SUBSET Int,
  DB_POOL_MAX_CONNS : SUBSET Int, HSTS_MAX_AGE_SECONDS : SUBSET Int,
  WORKER_PROCESS_INTERVAL : SUBSET Int, WORKER_DELIVER_INTERVAL : SUBSET Int,
  SHUTDOWN_TIMEOUT : SUBSET Int,
  CORS_ALLOW_ALL : SUBSET BOOLEAN, HSTS_ENABLED : SUBSET BOOLEAN,
  CORS_ALLOWED_ORIGINS : SUBSET {"url", "bare"},
  SMTP_HOST : {"", "blank", "set"}, SMTP_FROM : {"", "blank", "set"}]

\* getenvIntDefault and its like.
Getenv(value, fallback) == IF value = {} THEN fallback ELSE CHOOSE v \in value : TRUE

Load(e) ==
  LET appEnv == IF e.APP_ENV = "" THEN "development" ELSE e.APP_ENV
  IN  [appEnv |-> appEnv,
       tlsCertFile |-> e.TLS_CERT_FILE,
       tlsKeyFile |-> e.TLS_KEY_FILE,
       maxBodyBytes |-> Getenv(e.MAX_BODY_BYTES, 2^20),
       dbQueryTimeout |-> Getenv(e.DB_QUERY_TIMEOUT, 5),
       dbPoolMaxConns |-> Getenv(e.DB_POOL_MAX_CONNS, 10),
       corsAllowAllOrigins |-> Getenv(e.CORS_ALLOW_ALL, appEnv # "production"),
       corsAllowedOrigins |-> e.CORS_ALLOWED_ORIGINS,
       enableHSTS |-> Getenv(e.HSTS_ENABLED, appEnv = "production"),
       hstsMaxAgeSeconds |-> Getenv(e.HSTS_MAX_AGE_SECONDS, 31536000),
       smtpHost |-> e.SMTP_HOST,
       smtpFrom |-> e.SMTP_FROM,
       workerProcessInterval |-> Getenv(e.WORKER_PROCESS_INTERVAL, 5),
       workerDeliverInterval |-> Getenv(e.WORKER_DELIVER_INTERVAL, 3),
       shutdownTimeout |-> Getenv(e.SHUTDOWN_TIMEOUT, 15)]

\* strings.EqualFold(c.AppEnv, "production"): Load compares the case, too.
IsProduction(c) == c.appEnv \in {"production", "Production"}
Blank(s) == s \in {"", "blank"}

\* Mutant of CorsValid: only an empty list of origins is looked at.
CorsValidOneWay(c) == c.corsAllowAllOrigins \/ c.corsAllowedOrigins # {}

\* All origins, or those of a list: one of the two.
CorsValid(c) == c.corsAllowAllOrigins <=> c.corsAllowedOrigins = {}

\* Mutant of TimeoutValid: not checked.
TimeoutValidNever(c) == TRUE

TimeoutValid(c) == c.dbQueryTimeout > 0

Valid(c) ==
  /\ c.tlsCertFile = "" <=> c.tlsKeyFile = ""
  /\ CorsValid(c)
  /\ c.enableHSTS => c.hstsMaxAgeSeconds > 0
  /\ c.maxBodyBytes > 0
  /\ TimeoutValid(c)
  /\ IsProduction(c) => ~Blank(c.smtpHost)
  /\ ~Blank(c.smtpHost) => ~Blank(c.smtpFrom)

---------------------------------------------------------------------------
(* What the programs do with it *)

\* cors.New, called by NewRouter, panics over contradictory settings and over
\* an origin without a scheme.
CorsPanics(c) ==
  \/ c.corsAllowAllOrigins <=> c.corsAllowedOrigins # {}
  \/ "bare" \in c.corsAllowedOrigins

\* pgxpool.NewWithConfig returns an error for an empty pool.
PoolFails(c) == c.dbPoolMaxConns < 1

\* runLoop's time.NewTicker panics over an interval that is not positive, and
\* the worker process with it.
TickerPanics(c) == c.workerProcessInterval <= 0 \/ c.workerDeliverInterval <= 0
=============================================================================
