----------------------------- MODULE HttpIntake -----------------------------
(***************************************************************************)
(* The way of a request to /api/v1/events through the router (NewRouter    *)
(* and its middleware), the handlers, the validation and the repository,   *)
(* up to the status its client is answered with: EventIntake with its      *)
(* refusals opened up, and with the GET requests of clients that want to   *)
(* see what became of a submission.                                        *)
(*                                                                         *)
(* A request is what the code tells apart of it (Ask).  Only steps that    *)
(* read or write a table are separate: the middleware and the handler work *)
(* on the request alone.  The life of the API keys is ApiKeys.             *)
(***************************************************************************)
EXTENDS EventIntake

CONSTANT Ask  \* Ask[r]: what request r may be

\* Channels with blanks around them.
Padded == {" email ", " whatsapp "}

\* A notification instruction of a submission.  The recipients are none, more
\* than 500, or hold a blank one, one without @, or addresses only.
Instruction == [channel : {"email", "whatsapp", "fax"} \cup Padded,
          recipients : {"none", "tooMany", "blank", "names", "addresses"},
          body : {"blank", "text"}, subject : {"blank", "text"}, from : {"", "text", "address"}]

\* The key presented: none, an unknown or revoked one, one without the scope
\* the route requires, one that has it.  The body: not JSON or longer than
\* MAX_BODY_BYTES, without event_type or notifications, or complete.
Submission == [method : {"POST", "GET"}, media : {"json", "other"},
             key : {"none", "unknown", "revoked", "unscoped", "good"},
             header : {"uuid", "other"}, body : {"unreadable", "incomplete", "complete"},
             event : {"supported", "unsupported"}, payload : {"none", "json"},
             specs : SUBSET Instruction]

ASSUME AskAssumption == \A r \in Request : Ask[r] \subseteq Submission

VARIABLES
  ask,     \* the requests sent
  door,    \* "unsent", before ("outside") or past ("inside") the authentication
  get,     \* of a GET: the id it asks for, and whether a 202 had named it
  status   \* the HTTP status written, 0 before

http == <<ask, door, get, status>>
httpVars == <<events, pc, result, answer, ask, door, get, status>>

---------------------------------------------------------------------------
(* Validation *)

IsEmail(n) == n.channel \in {"email", " email "}
IsWhatsApp(n) == n.channel \in {"whatsapp", " whatsapp "}

\* Mutant of SpecValid: the subject is not looked at.
SpecValidNoSubject(n) ==
  /\ IsEmail(n) \/ IsWhatsApp(n)
  /\ n.recipients \notin {"none", "tooMany"}
  /\ n.body # "blank"
  /\ IsEmail(n) => n.from # "text" /\ n.recipients = "addresses"
  /\ IsWhatsApp(n) => n.recipients # "blank"

\* validateNotificationSpec: the channel is compared without its blanks.
SpecValid(n) ==
  /\ IsEmail(n) \/ IsWhatsApp(n)
  /\ n.recipients \notin {"none", "tooMany"}
  /\ n.body # "blank"
  /\ IsEmail(n) => n.subject # "blank" /\ n.from # "text" /\ n.recipients = "addresses"
  /\ IsWhatsApp(n) => n.recipients # "blank"

\* What SubmitEventHandler, ValidateEvent and NewEvent ask of a submission.
Submittable(a) ==
  /\ a.header = "uuid"
  /\ a.body = "complete"
  /\ a.specs # {} /\ \A n \in a.specs : SpecValid(n)
  /\ a.event = "supported"

\* ... and GetEventHandler of the id.
Acceptable(r) == IF ask[r].method = "POST" THEN Submittable(ask[r]) ELSE get[r].id # NoId

\* NewNotification, which the worker calls for each recipient.
Notifiable(n) ==
  /\ n.channel \in {"email", "whatsapp"}
  /\ n.recipients # "blank"
  /\ n.channel = "email" => n.subject # "blank"
  /\ n.body # "blank"

---------------------------------------------------------------------------
(* Errors *)

\* Why a repository call fails: the query timeout, the client's going away,
\* the database.
Cause == {"deadline", "canceled", "database"}

\* Mutant of MapDBError: it makes every error an invalid argument.
MapDBErrorInvalid(cause) == "invalid_argument"

\* Errors of the context pass through.
MapDBError(cause) == IF cause = "database" THEN "internal" ELSE cause

\* FromError, by which the ErrorHandler chooses the status.
FromError(error) ==
  CASE error = "canceled" -> 499
    [] error = "deadline" -> 504
    [] error = "invalid_argument" -> 400
    [] error = "not_found" -> 404
    [] error = "internal" -> 500

Refused == {400, 401, 403, 404, 415}

\* The client of r is answered with this status.
Answers(r, s) == status' = [status EXCEPT ![r] = s] /\ UNCHANGED <<ask, door, get>>

---------------------------------------------------------------------------
HttpInit ==
  /\ Init
  /\ ask \in {f \in [Request -> UNION {Ask[r] : r \in Request}] :
                \A r \in Request : f[r] \in Ask[r]}
  /\ door = [r \in Request |-> IF ask[r].method = "GET" THEN "unsent" ELSE "outside"]
  /\ get = [r \in Request |-> [id |-> NoId, promised |-> FALSE]]
  /\ status = [r \in Request |-> 0]

\* A client asks for the event that an answer named, or for anything else.
AskFor(r) ==
  /\ door[r] = "unsent"
  /\ \/ \E s \in Request : /\ Accepted(s)
                           /\ get' = [get EXCEPT ![r] = [id |-> answer[s].id, promised |-> TRUE]]
     \/ \E d \in Request \cup {NoId} : get' = [get EXCEPT ![r].id = d]
  /\ door' = [door EXCEPT ![r] = "outside"]
  /\ UNCHANGED <<vars, ask, status>>

\* RequireJSONContentType looks at requests with a body.
WrongMedia(r) == ask[r].method = "POST" /\ ask[r].media = "other"

\* The middleware turns it away: 415, or 401 without X-API-Key.
TurnAway(r) ==
  /\ door[r] = "outside"
  /\ Refuse(r)
  /\ \/ WrongMedia(r) /\ Answers(r, 415)
     \/ ~WrongMedia(r) /\ ask[r].key = "none" /\ Answers(r, 401)

\* APIKeyAuth reads the key from the table.
LooksUp(r) == door[r] = "outside" /\ ~WrongMedia(r) /\ ask[r].key # "none"

\* GetByHash finds no active key, or fails for whatever reason; or the key
\* it finds lacks the scope.
Reject(r) ==
  /\ LooksUp(r)
  /\ Refuse(r)
  /\ \/ Answers(r, 401)
     \/ ask[r].key = "unscoped" /\ Answers(r, 403)

\* It finds one: the handler is called.
Admit(r) ==
  /\ LooksUp(r)
  /\ ask[r].key = "good"
  /\ pc[r] = "sent"
  /\ door' = [door EXCEPT ![r] = "inside"]
  /\ UNCHANGED <<vars, ask, get, status>>

\* The handler or the service refuses it.
RefuseInput(r) == door[r] = "inside" /\ ~Acceptable(r) /\ Refuse(r) /\ Answers(r, 400)

\* The service calls the repository.
CallRepository(r) == door[r] = "inside" /\ Acceptable(r) /\ Validate(r) /\ UNCHANGED http

\* Create's statement commits.
Create(r) ==
  /\ ask[r].method = "POST"
  /\ ask[r].payload # "none"
  /\ Store(r)
  /\ UNCHANGED http

\* The column payload is NOT NULL, and mapDBError knows the violation.
CreateRefused(r) ==
  /\ ask[r].method = "POST"
  /\ ask[r].payload = "none"
  /\ StoreRefused(r)
  /\ Answers(r, FromError("invalid_argument"))

\* The repository call returns an error, after or without effect.
CallFails(r) ==
  \E cause \in Cause : StoreFails(r) /\ Answers(r, FromError(MapDBError(cause)))

\* Mutant of Respond: the handler does not wait for Create.
RespondEarly(r) ==
  /\ ask[r].method = "POST" /\ pc[r] = "storing"
  /\ Finish(r, 202, r)
  /\ UNCHANGED events
  /\ Answers(r, 202)

\* The handler answers with the id that Create returned.
Respond(r) == Accept(r) /\ Answers(r, 202)

\* GetByID finds the event ...
Found(r) ==
  /\ ask[r].method = "GET"
  /\ Read(r)
  /\ answer'[r].id = get[r].id
  /\ Answers(r, 200)

\* ... or does not.
NotFound(r) ==
  /\ ask[r].method = "GET"
  /\ get[r].id \notin DOMAIN events
  /\ StoreRefused(r)
  /\ Answers(r, FromError("not_found"))

\* The client is not answered.
Drop(r) == door[r] # "unsent" /\ Lost(r) /\ UNCHANGED http

\* The worker's part.
Work ==
  /\ \/ \E e \in DOMAIN events : Claim({e})
     \/ \E e \in DOMAIN events : Fail(e)
  /\ UNCHANGED http

HttpNext ==
  \/ \E r \in Request :
       \/ AskFor(r) \/ TurnAway(r) \/ Reject(r) \/ Admit(r) \/ RefuseInput(r)
       \/ CallRepository(r) \/ Create(r) \/ CreateRefused(r) \/ CallFails(r)
       \/ Respond(r) \/ Found(r) \/ NotFound(r) \/ Drop(r)
  \/ Work

HttpSpec == HttpInit /\ [][HttpNext]_httpVars

---------------------------------------------------------------------------
(* Properties *)

\* Whatever is checked before and after the repository is called, requests
\* are handled as EventIntake says, so that its theorems hold of them.
ImplementsIntake == Spec

\* A client that is told its request was refused (4xx, but for the 499 of a
\* client that is gone) need not fear that it was stored: neither when a
\* database that is down is answered with 401, nor when a call fails late.
RefusedLeavesNoTrace == \A r \in DOMAIN events : status[r] \notin Refused

\* What is stored came with a key that may write, and the worker's own
\* validation, NewNotification, takes every notification of it; but for a
\* channel with blanks around it, which only one of the two validations trims.
OnlyVetted ==
  \A r \in DOMAIN events :
    /\ ask[r].key = "good" /\ ask[r].method = "POST"
    /\ \A n \in ask[r].specs : Notifiable(n) \/ n.channel \in Padded

\* A client that has been answered 202 can read the event from then on, also
\* when its submission was a repetition: no GET for that id is answered 404.
ReadYourSubmission == \A r \in Request : get[r].promised => status[r] # 404
=============================================================================
