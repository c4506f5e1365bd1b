------------------------------ MODULE ApiKeys ------------------------------
(***************************************************************************)
(* API keys: the middleware APIKeyAuth, the admin handlers and             *)
(* APIKeyRepository, for any number of requests handled at once over one   *)
(* api_keys table.                                                         *)
(*                                                                         *)
(* A request presents one key and asks for one operation: creating or      *)
(* revoking a key, or anything else ("serve": submitting and reading       *)
(* events, listing keys).  The key row is read once, at the start; the     *)
(* write of last_used_at is a goroutine of its own that may run at any     *)
(* later time, or never.                                                   *)
(***************************************************************************)
EXTENDS Integers

CONSTANTS
  Key,        \* the keys that may ever exist
  Initial,    \* those in the table at first (the bootstrap admin key)
  Scopes,     \* Scopes[k]: the scopes key k has or is created with
  Request,    \* HTTP requests
  Presents,   \* Presents[r]: the key in its X-API-Key header
  Op,         \* Op[r]: "create", "revoke" or "serve"
  Scope,      \* Scope[r]: the scope its route requires
  Target,     \* Target[r]: the key it creates or revokes
  Malformed   \* requests their handler refuses: no client_id, a bad id

ASSUME ConstantsAssumption ==
  /\ Initial \subseteq Key
  /\ Presents \in [Request -> Key]
  /\ Op \in [Request -> {"create", "revoke", "serve"}]
  /\ Target \in [Request -> Key]
  /\ Malformed \subseteq Request

VARIABLES
  table,      \* the api_keys table: key -> row, or absent
  pc,         \* where the handling of each request is
  seen,       \* is_active as the request's lookup read it
  touching,   \* requests whose last_used_at goroutine has not ended
  answer,     \* HTTP status the client was answered with, 0 before
  revoked     \* history: at its arrival, keys whose revocation was confirmed

vars == <<table, pc, seen, touching, answer, revoked>>

Row == [present : BOOLEAN, active : BOOLEAN, used : BOOLEAN]
Absent == [present |-> FALSE, active |-> FALSE, used |-> FALSE]
New == [present |-> TRUE, active |-> TRUE, used |-> FALSE]

TypeOK ==
  /\ table \in [Key -> Row]
  /\ pc \in [Request -> {"new", "lookup", "check", "handle", "committed", "done"}]
  /\ seen \in [Request -> BOOLEAN]
  /\ touching \subseteq Request
  /\ answer \in [Request -> {0, 200, 400, 401, 403, 404, 500}]
  /\ revoked \in [Request -> SUBSET Key]

Init ==
  /\ table = [k \in Key |-> IF k \in Initial THEN New ELSE Absent]
  /\ pc = [r \in Request |-> "new"]
  /\ seen = [r \in Request |-> FALSE]
  /\ touching = {}
  /\ answer = [r \in Request |-> 0]
  /\ revoked = [r \in Request |-> {}]

---------------------------------------------------------------------------
(* APIKeyAuth *)

\* Keys whose revocation a client has been told of.
Confirmed == {Target[q] : q \in {q \in Request : Op[q] = "revoke" /\ answer[q] = 200}}

Arrive(r) ==
  /\ pc[r] = "new"
  /\ pc' = [pc EXCEPT ![r] = "lookup"]
  /\ revoked' = [revoked EXCEPT ![r] = Confirmed]
  /\ UNCHANGED <<table, seen, touching, answer>>

\* The handling of r ends with this answer.
Finish(r, code) ==
  /\ pc' = [pc EXCEPT ![r] = "done"]
  /\ answer' = [answer EXCEPT ![r] = code]
  /\ UNCHANGED <<seen, touching, revoked>>

\* GetByHash finds the row.
Lookup(r) ==
  /\ pc[r] = "lookup"
  /\ table[Presents[r]].present
  /\ seen' = [seen EXCEPT ![r] = table[Presents[r]].active]
  /\ pc' = [pc EXCEPT ![r] = "check"]
  /\ UNCHANGED <<table, touching, answer, revoked>>

\* GetByHash finds no row, or fails (timeout, lost connection): 401 alike.
LookupFails(r) ==
  /\ pc[r] = "lookup"
  /\ Finish(r, 401)
  /\ UNCHANGED table

\* Mutants of MayPass: a revoked key, or a key without the scope, passes.
MayPassRevoked(r) == Scope[r] \in Scopes[Presents[r]]
MayPassUnscoped(r) == seen[r]

\* The checks on the row that was read.
MayPass(r) == seen[r] /\ Scope[r] \in Scopes[Presents[r]]

\* Refused: 401 for a revoked key, 403 for a missing scope.
Reject(r) ==
  /\ pc[r] = "check"
  /\ ~MayPass(r)
  /\ Finish(r, IF seen[r] THEN 403 ELSE 401)
  /\ UNCHANGED table

\* The goroutine for last_used_at is started and the handler is called.
Admit(r) ==
  /\ pc[r] = "check"
  /\ MayPass(r)
  /\ pc' = [pc EXCEPT ![r] = "handle"]
  /\ touching' = touching \cup {r}
  /\ UNCHANGED <<table, seen, answer, revoked>>

\* Mutant of Touched: the row the middleware read is written back.
TouchedBack(r) == [table[Presents[r]] EXCEPT !.used = TRUE, !.active = seen[r]]

\* UPDATE api_keys SET last_used_at = NOW() WHERE id = ...
Touched(r) == [table[Presents[r]] EXCEPT !.used = TRUE]

\* UpdateLastUsed takes effect ...
Touch(r) ==
  /\ r \in touching
  /\ table' = [table EXCEPT ![Presents[r]] = Touched(r)]
  /\ touching' = touching \ {r}
  /\ UNCHANGED <<pc, seen, answer, revoked>>

\* ... or does not: its error is ignored, or the process has ended.
TouchLost(r) ==
  /\ r \in touching
  /\ touching' = touching \ {r}
  /\ UNCHANGED <<table, pc, seen, answer, revoked>>

---------------------------------------------------------------------------
(* The handlers *)

Refuse(r) ==
  /\ pc[r] = "handle"
  /\ r \in Malformed
  /\ Finish(r, 400)
  /\ UNCHANGED table

\* The handler of another operation answers.
Serve(r) ==
  /\ pc[r] = "handle"
  /\ Op[r] = "serve"
  /\ r \notin Malformed
  /\ Finish(r, 200)
  /\ UNCHANGED table

\* CreateAPIKeyHandler: the INSERT of a key minted for this request commits.
CreateKey(r) ==
  /\ pc[r] = "handle"
  /\ Op[r] = "create"
  /\ r \notin Malformed
  /\ ~table[Target[r]].present
  /\ table' = [table EXCEPT ![Target[r]] = New]
  /\ pc' = [pc EXCEPT ![r] = "committed"]
  /\ UNCHANGED <<seen, touching, answer, revoked>>

\* RevokeAPIKeyHandler: the UPDATE of an existing row commits.
RevokeKey(r) ==
  /\ pc[r] = "handle"
  /\ Op[r] = "revoke"
  /\ r \notin Malformed
  /\ table[Target[r]].present
  /\ table' = [table EXCEPT ![Target[r]] = [table[Target[r]] EXCEPT !.active = FALSE]]
  /\ pc' = [pc EXCEPT ![r] = "committed"]
  /\ UNCHANGED <<seen, touching, answer, revoked>>

\* No row was updated.
RevokeUnknown(r) ==
  /\ pc[r] = "handle"
  /\ Op[r] = "revoke"
  /\ r \notin Malformed
  /\ ~table[Target[r]].present
  /\ Finish(r, 404)
  /\ UNCHANGED table

\* The client is told (200 stands for 200 and 201).
Confirm(r) ==
  /\ pc[r] = "committed"
  /\ Finish(r, 200)
  /\ UNCHANGED table

\* The handler's database call fails, without effect or after its commit
\* (500 stands for every 5xx).
HandlerFails(r) ==
  /\ pc[r] \in {"handle", "committed"}
  /\ Finish(r, 500)
  /\ UNCHANGED table

\* The connection or the API process is gone: the client gets no answer.
Lost(r) ==
  /\ pc[r] \notin {"new", "done"}
  /\ pc' = [pc EXCEPT ![r] = "done"]
  /\ UNCHANGED <<table, seen, touching, answer, revoked>>

Next ==
  \E r \in Request :
    \/ Arrive(r) \/ Lookup(r) \/ LookupFails(r) \/ Reject(r) \/ Admit(r)
    \/ Touch(r) \/ TouchLost(r)
    \/ Refuse(r) \/ Serve(r) \/ CreateKey(r) \/ RevokeKey(r) \/ RevokeUnknown(r)
    \/ Confirm(r) \/ HandlerFails(r) \/ Lost(r)

Spec == Init /\ [][Next]_vars

---------------------------------------------------------------------------
(* Properties *)

\* Keys are never deleted, and a revoked key is never active again: neither a
\* late write of last_used_at nor any other request revives it.
RevocationIsFinal ==
  [][\A k \in Key : table[k].present =>
       /\ table'[k].present
       /\ table'[k].active => table[k].active]_vars

\* A request that arrives after a client was told that its key is revoked
\* reaches no handler, wherever the revoking request's work still is.
RevokedStaysOut ==
  \A r \in Request :
    pc[r] \in {"handle", "committed"} => Presents[r] \notin revoked[r]

\* Keys come to be and are revoked only by requests that have the scope of
\* their route, with a key that was active when they were checked.
OnlyScopedChanges ==
  [][\A k \in Key : table'[k].active # table[k].active =>
       \E r \in Request :
         /\ pc[r] = "handle" /\ pc'[r] = "committed" /\ Target[r] = k
         /\ seen[r] /\ Scope[r] \in Scopes[Presents[r]]]_vars
===========================================================================
