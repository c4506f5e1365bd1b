--------------------------- MODULE MCApiProcess ----------------------------
(* A small instance of ApiProcess for TLC. *)
EXTENDS ApiProcess

Development == [
  APP_ENV |-> "", TLS_CERT_FILE |-> "", TLS_KEY_FILE |-> "",
  MAX_BODY_BYTES |-> {}, DB_QUERY_TIMEOUT |-> {}, DB_POOL_MAX_CONNS |-> {},
  HSTS_MAX_AGE_SECONDS |-> {}, WORKER_PROCESS_INTERVAL |-> {}, WORKER_DELIVER_INTERVAL |-> {},
  SHUTDOWN_TIMEOUT |-> {}, CORS_ALLOW_ALL |-> {}, HSTS_ENABLED |-> {},
  CORS_ALLOWED_ORIGINS |-> {}, SMTP_HOST |-> "", SMTP_FROM |-> ""]

Production == [Development EXCEPT
  !.APP_ENV = "production", !.CORS_ALLOWED_ORIGINS = {"url"}, !.SMTP_HOST = "set", !.SMTP_FROM = "set"]

\* e with one variable set to another value.
Changed(e) ==
  {[e EXCEPT !.APP_ENV = v] : v \in {"production", "Production"}}
    \cup {[e EXCEPT !.TLS_CERT_FILE = "set"], [e EXCEPT !.TLS_KEY_FILE = "set"]}
    \cup {[e EXCEPT !.MAX_BODY_BYTES = {0}], [e EXCEPT !.HSTS_MAX_AGE_SECONDS = {0}]}
    \cup {[e EXCEPT !.DB_QUERY_TIMEOUT = {n}] : n \in {-5, 0}}
    \cup {[e EXCEPT !.DB_POOL_MAX_CONNS = {n}] : n \in {0, 1}}
    \cup {[e EXCEPT !.WORKER_PROCESS_INTERVAL = {n}] : n \in {0, 1}}
    \cup {[e EXCEPT !.WORKER_DELIVER_INTERVAL = {n}] : n \in {0, 1}}
    \cup {[e EXCEPT !.SHUTDOWN_TIMEOUT = {n}] : n \in {0, 20}}
    \cup {[e EXCEPT !.CORS_ALLOW_ALL = {b}] : b \in BOOLEAN}
    \cup {[e EXCEPT !.HSTS_ENABLED = {b}] : b \in BOOLEAN}
    \cup {[e EXCEPT !.CORS_ALLOWED_ORIGINS = s] : s \in SUBSET {"url", "bare"}}
    \cup {[e EXCEPT !.SMTP_HOST = s] : s \in {"", "blank", "set"}}
    \cup {[e EXCEPT !.SMTP_FROM = s] : s \in {"", "blank", "set"}}

\* At most two variables are changed.
MCEnvironments ==
  UNION {Changed(e) : e \in Changed(Development) \cup Changed(Production)}
    \cup {Development, Production}
=============================================================================
