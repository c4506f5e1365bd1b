---------------------------- MODULE EventIntake ----------------------------
(***************************************************************************)
(* POST /api/v1/events: Handler.SubmitEventHandler, EventService and       *)
(* EventRepository.Create, for any number of requests handled at once by   *)
(* any number of API processes over one events table.                      *)
(*                                                                         *)
(* A request is one HTTP request; a client that retries sends another one  *)
(* with the same key.  uuid.NewString gives every request an id of its own *)
(* for the row it may insert: a request is its own id.  What the client    *)
(* sent beside key and type (payload, notifications, client_id) is its     *)
(* content.  What is refused, and with which status, HttpIntake says; here *)
(* any request may be, and an answer is 202, 200 for a GET of an event,    *)
(* 400 for a refusal or 500 for a failure.  The worker appears only by     *)
(* what it does to the status column.                                      *)
(***************************************************************************)
EXTENDS Integers

CONSTANTS
  Request,      \* HTTP requests
  Key,          \* Key[r]: the text of its Idempotency-Key header
  Type,         \* Type[r]: its event_type
  Content,      \* Content[r]: everything else it asks to be stored
  NoId          \* no event id

ASSUME ConstantsAssumption == NoId \notin Request

VARIABLES
  events,   \* the events table: id |-> row
  pc,       \* where the handling of each request is
  result,   \* the id its INSERT returned
  answer    \* what its client was answered

vars == <<events, pc, result, answer>>

Status == {"accepted", "processing", "failed"}
RowOf(r, s) == [key |-> Key[r], type |-> Type[r], content |-> Content[r], status |-> s]
Answer == [code : {0, 200, 202, 400, 409, 500}, id : Request \cup {NoId}]

\* A row is one that a request asked for, in some status, under its own id.
TypeOK ==
  /\ DOMAIN events \subseteq Request
  /\ \A e \in DOMAIN events : \E s \in Status : events[e] = RowOf(e, s)
  /\ pc \in [Request -> {"sent", "storing", "stored", "done"}]
  /\ result \in [Request -> Request \cup {NoId}]
  /\ answer \in [Request -> Answer]

---------------------------------------------------------------------------
Unanswered == [code |-> 0, id |-> NoId]

Init ==
  /\ events = [e \in {} |-> RowOf(e, "accepted")]
  /\ pc = [r \in Request |-> "sent"]
  /\ result = [r \in Request |-> NoId]
  /\ answer = [r \in Request |-> Unanswered]

\* The handling of r ends, its client answered with this code and id.
Finish(r, code, id) ==
  /\ pc' = [pc EXCEPT ![r] = "done"]
  /\ answer' = [answer EXCEPT ![r] = [code |-> code, id |-> id]]
  /\ UNCHANGED result

\* The router, the handler or the service refuses it.
Refuse(r) ==
  /\ pc[r] = "sent"
  /\ Finish(r, 400, NoId)
  /\ UNCHANGED events

\* It is accepted: the repository is called.
Validate(r) ==
  /\ pc[r] = "sent"
  /\ pc' = [pc EXCEPT ![r] = "storing"]
  /\ UNCHANGED <<events, result, answer>>

\* The rows that the unique index on (idempotency_key, type) sets against r.
Conflicting(r) == {e \in DOMAIN events : events[e].key = Key[r] /\ events[e].type = Type[r]}

\* The table with the row of r added.
Extended(r) ==
  [e \in DOMAIN events \cup {r} |->
     IF e \in DOMAIN events THEN events[e] ELSE RowOf(r, "accepted")]

\* Mutants of Upserted: without the unique index; the conflict takes the new
\* content; the conflict makes the event 'accepted' again.
UpsertedAlways(r) == Extended(r)
UpsertedContent(r) ==
  IF Conflicting(r) = {} THEN Extended(r)
  ELSE [e \in DOMAIN events |->
          IF e \in Conflicting(r) THEN RowOf(r, events[e].status) ELSE events[e]]
UpsertedAgain(r) ==
  IF Conflicting(r) = {} THEN Extended(r)
  ELSE [e \in DOMAIN events |->
          IF e \in Conflicting(r) THEN [events[e] EXCEPT !.status = "accepted"] ELSE events[e]]

\* INSERT ... ON CONFLICT (idempotency_key, type) DO UPDATE SET id = events.id:
\* a conflicting row is left as it is.
Upserted(r) == IF Conflicting(r) = {} THEN Extended(r) ELSE events

\* Mutant of Returned: the id minted for the request is returned.
ReturnedMinted(r) == {r}

\* ... RETURNING id: of the row inserted, or of the conflicting one.
Returned(r) == IF Conflicting(r) = {} THEN {r} ELSE Conflicting(r)

\* The statement commits.  PostgreSQL lets a concurrent INSERT of the same
\* key and type wait for this one: statements take effect one after the other.
Store(r) ==
  /\ pc[r] = "storing"
  /\ events' = Upserted(r)
  /\ \E id \in Returned(r) : result' = [result EXCEPT ![r] = id]
  /\ pc' = [pc EXCEPT ![r] = "stored"]
  /\ UNCHANGED answer

\* The table refuses the row, or has no event to read.
StoreRefused(r) ==
  /\ pc[r] = "storing"
  /\ Finish(r, 400, NoId)
  /\ UNCHANGED events

\* A GET is answered with an event.
Read(r) ==
  /\ pc[r] = "storing"
  /\ \E e \in DOMAIN events : Finish(r, 200, e)
  /\ UNCHANGED events

\* Create returns another error (a query timeout, a cancelled request, a lost
\* connection) to a statement that had no effect, or that was committed: the
\* client is answered with an error.
StoreFails(r) ==
  /\ pc[r] \in {"storing", "stored"}
  /\ Finish(r, 500, NoId)
  /\ UNCHANGED events

\* The client is answered 202 with the id and the Location header.
Accept(r) ==
  /\ pc[r] = "stored"
  /\ Finish(r, 202, result[r])
  /\ UNCHANGED events

\* The connection or the API process is gone: the client gets no answer.
Lost(r) ==
  /\ pc[r] # "done"
  /\ pc' = [pc EXCEPT ![r] = "done"]
  /\ UNCHANGED <<events, result, answer>>

\* The table with the status of some events changed.
Moved(S, s) ==
  [e \in DOMAIN events |-> IF e \in S THEN [events[e] EXCEPT !.status = s] ELSE events[e]]

\* ClaimPending takes a batch of events up.
Claim(S) ==
  /\ \A e \in S : events[e].status = "accepted"
  /\ events' = Moved(S, "processing")
  /\ UNCHANGED <<pc, result, answer>>

\* SetStatus(failed) gives one up.
Fail(e) ==
  /\ events[e].status = "processing"
  /\ events' = Moved({e}, "failed")
  /\ UNCHANGED <<pc, result, answer>>

Next ==
  \/ \E r \in Request :
       \/ Refuse(r) \/ Validate(r) \/ Store(r) \/ StoreRefused(r) \/ Read(r)
       \/ StoreFails(r) \/ Accept(r) \/ Lost(r)
  \/ \E S \in SUBSET DOMAIN events : Claim(S)
  \/ \E e \in DOMAIN events : Fail(e)

Spec == Init /\ [][Next]_vars

---------------------------------------------------------------------------
(* Properties *)

SameEvent(r, s) == Key[r] = Key[s] /\ Type[r] = Type[s]
Accepted(r) == answer[r].code = 202

\* However many copies of a submission are handled at once, fail, are lost
\* and are sent again, there is one event for its key and type.
OneEventPerKey ==
  \A d, e \in DOMAIN events : SameEvent(d, e) => d = e

\* A 202 names an event that is in the table for good, of the key and type
\* the client sent; two 202s to the same key and type name the same event.
AnswersAgree ==
  /\ \A r \in Request :
       Accepted(r) => answer[r].id \in DOMAIN events /\ SameEvent(r, answer[r].id)
  /\ \A r, s \in Request :
       Accepted(r) /\ Accepted(s) /\ SameEvent(r, s) => answer[r].id = answer[s].id

\* The first submission wins: no later one removes an event, changes what it
\* asks for, or has it taken up again once the worker has claimed it.
FirstSubmissionWins ==
  [][\A e \in DOMAIN events :
       /\ e \in DOMAIN events'
       /\ events'[e] = [events[e] EXCEPT !.status = events'[e].status]
       /\ events'[e].status = "accepted" => events[e].status = "accepted"]_vars
===========================================================================
