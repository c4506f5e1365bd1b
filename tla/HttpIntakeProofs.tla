-------------------------- MODULE HttpIntakeProofs --------------------------
(***************************************************************************)
(* Machine-checked proofs about HttpIntake, for any set of requests and    *)
(* whatever each of them asks: it implements EventIntake, so that the      *)
(* theorems of EventIntakeProofs hold with the router, the middleware and  *)
(* the handlers opened up; and what these add to them.                     *)
(***************************************************************************)
EXTENDS HttpIntake, EventIntakeProofs

---------------------------------------------------------------------------
(* Implementation *)

LEMMA StepImplements == [HttpNext]_httpVars => [Next]_vars
<1> SUFFICES ASSUME [HttpNext]_httpVars PROVE [Next]_vars
  OBVIOUS
<1>1. ASSUME NEW r \in Request,
             TurnAway(r) \/ Reject(r) \/ RefuseInput(r) \/ CallRepository(r) \/ Create(r)
      PROVE  Next
  BY <1>1 DEF TurnAway, Reject, RefuseInput, CallRepository, Create, Next
<1>2. ASSUME NEW r \in Request,
             CreateRefused(r) \/ CallFails(r) \/ Respond(r) \/ Found(r) \/ NotFound(r) \/ Drop(r)
      PROVE  Next
  BY <1>2 DEF CreateRefused, CallFails, Respond, Found, NotFound, Drop, Next
<1>3. ASSUME NEW r \in Request, AskFor(r) \/ Admit(r) PROVE UNCHANGED vars
  BY <1>3 DEF AskFor, Admit
<1>4. ASSUME Work PROVE Next
  <2>1. ASSUME NEW e \in DOMAIN events, Claim({e}) PROVE Next
    BY <2>1 DEF Next
  <2> QED BY <1>4, <2>1 DEF Work, Next
<1>5. CASE UNCHANGED httpVars
  BY <1>5 DEF httpVars, vars
<1> QED BY <1>1, <1>2, <1>3, <1>4, <1>5 DEF HttpNext

\* Every way through the middleware, the handlers and the repository is one
\* that EventIntake allows.
THEOREM HttpImplements == HttpSpec => ImplementsIntake
<1>1. HttpInit => Init
  BY DEF HttpInit
<1> QED BY <1>1, StepImplements, PTL DEF HttpSpec, Spec, ImplementsIntake

---------------------------------------------------------------------------
(* The inductive invariant *)

HttpTypeOK ==
  /\ ask \in [Request -> Submission]
  /\ door \in [Request -> {"unsent", "outside", "inside"}]
  /\ get \in [Request -> [id : Request \cup {NoId}, promised : BOOLEAN]]
  /\ status \in [Request -> Nat]

\* Where the handling of r is tells what it has passed.
Passed(r) ==
  /\ status[r] # 0 => pc[r] = "done"
  /\ pc[r] \in {"storing", "stored"} => door[r] = "inside"
  /\ door[r] = "inside" => ask[r].key = "good"
  /\ pc[r] \in {"storing", "stored"} /\ ask[r].method = "POST" => Submittable(ask[r])
  /\ door[r] = "unsent" => pc[r] = "sent" /\ ~get[r].promised

\* A stored event was vetted, and its request is past its INSERT; if it has
\* been answered, it was not refused.
Vetted(r) ==
  /\ pc[r] \in {"stored", "done"}
  /\ status[r] \notin Refused
  /\ ask[r].key = "good" /\ ask[r].method = "POST" /\ Submittable(ask[r])

\* What a 202 has promised is there.
Kept(r) == get[r].promised => get[r].id \in DOMAIN events /\ status[r] # 404

HttpInv ==
  /\ HttpTypeOK
  /\ \A r \in Request : Passed(r) /\ Kept(r)
  /\ \A r \in DOMAIN events : Vetted(r)

LEMMA InitHttp == HttpInit => HttpInv
BY AskAssumption DEF HttpInit, Init, HttpInv, HttpTypeOK, Passed, Kept

\* A request is answered: what was stored is not refused, and "not found" is
\* said of what is not there.
AnswersWell(r, s) ==
  /\ s \in Nat
  /\ pc[r] \in {"sent", "storing", "stored"} /\ door[r] # "unsent"
  /\ pc' = [pc EXCEPT ![r] = "done"]
  /\ status' = [status EXCEPT ![r] = s]
  /\ UNCHANGED <<events, ask, door, get>>
  /\ pc[r] = "stored" => s \notin Refused
  /\ s = 404 => get[r].id \notin DOMAIN events

LEMMA AnsweredKeeps ==
  ASSUME TypeOK, HttpInv, NEW r \in Request, NEW s, AnswersWell(r, s)
  PROVE  HttpInv'
<1>1. HttpTypeOK'
  BY DEF HttpInv, HttpTypeOK, AnswersWell
<1>2. ASSUME NEW q \in Request PROVE Passed(q)' /\ Kept(q)'
  BY DEF TypeOK, HttpInv, HttpTypeOK, Passed, Kept, AnswersWell
<1>3. ASSUME NEW q \in DOMAIN events PROVE Vetted(q)'
  BY DEF TypeOK, HttpInv, HttpTypeOK, Vetted, AnswersWell
<1> QED BY <1>1, <1>2, <1>3 DEF HttpInv, AnswersWell

\* The statuses of a repository that fails are no refusals.
LEMMA CausesAreNoRefusals ==
  ASSUME NEW cause \in Cause
  PROVE  FromError(MapDBError(cause)) \in {499, 500, 504}
BY DEF Cause, MapDBError, FromError

LEMMA AnswerStep ==
  ASSUME TypeOK, HttpInv, NEW r \in Request,
         \/ TurnAway(r) \/ Reject(r) \/ RefuseInput(r) \/ CreateRefused(r)
         \/ CallFails(r) \/ Respond(r) \/ Found(r) \/ NotFound(r)
  PROVE  HttpInv'
<1> SUFFICES \E s \in Nat : AnswersWell(r, s)
  BY AnsweredKeeps
<1> USE DEF Finish, Answers
<1>a. pc[r] \in {"storing", "stored"} => door[r] = "inside"
  BY DEF HttpInv, Passed
<1>1. CASE TurnAway(r) \/ Reject(r) \/ RefuseInput(r)
  <2>1. PICK s \in {400, 401, 403, 415} : Answers(r, s)
    BY <1>1 DEF TurnAway, Reject, RefuseInput
  <2>2. Refuse(r)
    BY <1>1 DEF TurnAway, Reject, RefuseInput
  <2>3. AnswersWell(r, s)
    BY <1>1, <2>1, <2>2
    DEF TurnAway, Reject, LooksUp, RefuseInput, Refuse, AnswersWell
  <2> QED BY <2>1, <2>3
<1>2. CASE CreateRefused(r)
  <2>1. AnswersWell(r, 400)
    BY <1>a, <1>2 DEF CreateRefused, StoreRefused, FromError, AnswersWell
  <2> QED BY <2>1
<1>3. CASE CallFails(r)
  <2>1. PICK cause \in Cause : StoreFails(r) /\ Answers(r, FromError(MapDBError(cause)))
    BY <1>3 DEF CallFails
  <2>2. PICK s \in {499, 500, 504} : s = FromError(MapDBError(cause))
    BY CausesAreNoRefusals
  <2>3. AnswersWell(r, s)
    BY <1>a, <2>1, <2>2 DEF StoreFails, Refused, AnswersWell
  <2> QED BY <2>3
<1>4. CASE Respond(r)
  <2>1. AnswersWell(r, 202)
    BY <1>a, <1>4 DEF Respond, Accept, Refused, AnswersWell
  <2> QED BY <2>1
<1>5. CASE Found(r)
  <2>1. AnswersWell(r, 200)
    BY <1>a, <1>5 DEF Found, Read, AnswersWell
  <2> QED BY <2>1
<1>6. CASE NotFound(r)
  <2>1. AnswersWell(r, 404)
    BY <1>a, <1>6 DEF NotFound, StoreRefused, FromError, AnswersWell
  <2> QED BY <2>1
<1> QED BY <1>1, <1>2, <1>3, <1>4, <1>5, <1>6

LEMMA StepHttp == IntakeInv /\ HttpInv /\ [HttpNext]_httpVars => HttpInv'
<1> SUFFICES ASSUME IntakeInv, HttpInv, [HttpNext]_httpVars PROVE HttpInv'
  OBVIOUS
<1>a. TypeOK
  BY DEF IntakeInv
<1>1. ASSUME NEW r \in Request, AskFor(r) PROVE HttpInv'
  <2>1. /\ UNCHANGED <<events, pc, ask, status>>
        /\ door[r] = "unsent" /\ door' = [door EXCEPT ![r] = "outside"]
    BY <1>1 DEF AskFor, vars
  <2>2. PICK g \in [id : Request \cup {NoId}, promised : BOOLEAN] :
          /\ get' = [get EXCEPT ![r] = g]
          /\ g.promised => g.id \in DOMAIN events
    <3>1. ASSUME NEW s \in Request, Accepted(s)
          PROVE  answer[s].id \in DOMAIN events /\ answer[s].id \in Request
      BY <1>a, <3>1 DEF IntakeInv, Sound, TypeOK
    <3>2. ASSUME NEW d \in Request \cup {NoId}, get' = [get EXCEPT ![r].id = d]
          PROVE  \E g \in [id : Request \cup {NoId}, promised : BOOLEAN] :
                   get' = [get EXCEPT ![r] = g] /\ ~g.promised
      <4> DEFINE g == [get[r] EXCEPT !.id = d]
      <4>1. ~get[r].promised /\ get[r] \in [id : Request \cup {NoId}, promised : BOOLEAN]
        BY <2>1 DEF HttpInv, HttpTypeOK, Passed
      <4>2. g \in [id : Request \cup {NoId}, promised : BOOLEAN] /\ ~g.promised
        BY <4>1
      <4>3. get' = [get EXCEPT ![r] = g]
        BY <3>2
      <4> QED BY <4>2, <4>3
    <3>3. CASE \E d \in Request \cup {NoId} : get' = [get EXCEPT ![r].id = d]
      BY <3>2, <3>3
    <3>4. ASSUME NEW s \in Request, Accepted(s),
                 get' = [get EXCEPT ![r] = [id |-> answer[s].id, promised |-> TRUE]]
          PROVE  \E g \in [id : Request \cup {NoId}, promised : BOOLEAN] :
                   get' = [get EXCEPT ![r] = g] /\ (g.promised => g.id \in DOMAIN events)
      <4> DEFINE g == [id |-> answer[s].id, promised |-> TRUE]
      <4>1. g \in [id : Request \cup {NoId}, promised : BOOLEAN] /\ g.id \in DOMAIN events
        BY <3>1, <3>4
      <4> QED BY <3>4, <4>1
    <3> QED BY <1>1, <3>3, <3>4 DEF AskFor
  <2>3. HttpTypeOK'
    BY <2>1, <2>2 DEF HttpInv, HttpTypeOK
  <2>4. status[r] # 404
    BY <1>a, <2>1 DEF HttpInv, HttpTypeOK, Passed, Kept
  <2>5. ASSUME NEW q \in Request PROVE Passed(q)' /\ Kept(q)'
    BY <2>1, <2>2, <2>4 DEF HttpInv, HttpTypeOK, Passed, Kept
  <2>6. ASSUME NEW q \in DOMAIN events PROVE Vetted(q)'
    BY <2>1 DEF HttpInv, Vetted
  <2> QED BY <2>1, <2>3, <2>5, <2>6 DEF HttpInv
<1>2. ASSUME NEW r \in Request, Admit(r) PROVE HttpInv'
  <2>1. /\ UNCHANGED <<events, pc, ask, get, status>>
        /\ door' = [door EXCEPT ![r] = "inside"] /\ ask[r].key = "good"
    BY <1>2 DEF Admit, vars
  <2> QED BY <2>1 DEF HttpInv, HttpTypeOK, Passed, Kept, Vetted
<1>3. ASSUME NEW r \in Request, CallRepository(r) PROVE HttpInv'
  <2>1. /\ UNCHANGED <<events, ask, door, get, status>>
        /\ pc[r] = "sent" /\ pc' = [pc EXCEPT ![r] = "storing"]
        /\ door[r] = "inside" /\ Acceptable(r)
    BY <1>3 DEF CallRepository, Validate, http
  <2>2. HttpTypeOK'
    BY <2>1 DEF HttpInv, HttpTypeOK
  <2>3. ASSUME NEW q \in Request PROVE Passed(q)' /\ Kept(q)'
    BY <1>a, <2>1 DEF TypeOK, HttpInv, HttpTypeOK, Passed, Kept, Acceptable
  <2>4. ASSUME NEW q \in DOMAIN events PROVE Vetted(q)'
    BY <1>a, <2>1 DEF TypeOK, HttpInv, Vetted
  <2> QED BY <2>1, <2>2, <2>3, <2>4 DEF HttpInv
<1>4. ASSUME NEW r \in Request, Create(r) PROVE HttpInv'
  <2>1. /\ UNCHANGED <<ask, door, get, status>>
        /\ pc[r] = "storing" /\ pc' = [pc EXCEPT ![r] = "stored"]
        /\ events' = Upserted(r) /\ ask[r].method = "POST"
    BY <1>4 DEF Create, Store, http
  <2>2. /\ DOMAIN events \subseteq DOMAIN events'
        /\ DOMAIN events' \subseteq DOMAIN events \cup {r}
    BY <2>1, UpsertedKeeps
  <2>3. HttpTypeOK'
    BY <2>1 DEF HttpInv, HttpTypeOK
  <2>4. ASSUME NEW q \in Request PROVE Passed(q)' /\ Kept(q)'
    BY <1>a, <2>1, <2>2 DEF TypeOK, HttpInv, HttpTypeOK, Passed, Kept
  <2>5. Vetted(r)'
    BY <1>a, <2>1 DEF TypeOK, HttpInv, HttpTypeOK, Passed, Vetted, Refused
  <2>6. ASSUME NEW q \in DOMAIN events, q # r PROVE Vetted(q)'
    BY <1>a, <2>1, <2>6 DEF TypeOK, HttpInv, Vetted
  <2> QED BY <2>2, <2>3, <2>4, <2>5, <2>6 DEF HttpInv
<1>5. ASSUME NEW r \in Request, Drop(r) PROVE HttpInv'
  <2>1. /\ UNCHANGED <<events, ask, door, get, status>>
        /\ door[r] # "unsent" /\ pc' = [pc EXCEPT ![r] = "done"]
    BY <1>5 DEF Drop, Lost, http
  <2>2. ASSUME NEW q \in Request PROVE Passed(q)' /\ Kept(q)'
    BY <1>a, <2>1 DEF TypeOK, HttpInv, Passed, Kept
  <2>3. ASSUME NEW q \in DOMAIN events PROVE Vetted(q)'
    BY <1>a, <2>1 DEF TypeOK, HttpInv, Vetted
  <2> QED BY <2>1, <2>2, <2>3 DEF HttpInv, HttpTypeOK
<1>6. ASSUME Work PROVE HttpInv'
  <2>1. UNCHANGED <<pc, ask, door, get, status>> /\ DOMAIN events' = DOMAIN events
    BY <1>6 DEF Work, Claim, Fail, Moved, http
  <2> QED BY <2>1 DEF HttpInv, HttpTypeOK, Passed, Kept, Vetted
<1>7. CASE UNCHANGED httpVars
  BY <1>7 DEF httpVars, HttpInv, HttpTypeOK, Passed, Kept, Vetted
<1> QED
  BY <1>a, <1>1, <1>2, <1>3, <1>4, <1>5, <1>6, <1>7, AnswerStep DEF HttpNext

---------------------------------------------------------------------------
(* Theorems *)

LEMMA HttpInvariant == HttpSpec => [](IntakeInv /\ HttpInv)
<1>1. HttpInit => IntakeInv /\ HttpInv
  BY InitIntake, InitHttp DEF HttpInit
<1>2. IntakeInv /\ HttpInv /\ [HttpNext]_httpVars => (IntakeInv /\ HttpInv)'
  BY StepIntake, StepImplements, StepHttp
<1> QED BY <1>1, <1>2, PTL DEF HttpSpec

\* A submission that was refused is not in the table and never will be,
\* however its repository call ended and whoever else sent its key.
THEOREM RefusalIsFinal == HttpSpec => []RefusedLeavesNoTrace
<1>1. HttpInv => RefusedLeavesNoTrace
  BY DEF HttpInv, Vetted, RefusedLeavesNoTrace
<1> QED BY <1>1, HttpInvariant, PTL

\* What the API's validation accepts, the worker's accepts, blanks around a
\* channel excepted.
LEMMA SpecIsNotifiable ==
  ASSUME NEW n, SpecValid(n) PROVE Notifiable(n) \/ n.channel \in Padded
BY DEF SpecValid, Padded, Notifiable, IsEmail, IsWhatsApp

\* Whatever is in the table came through the authentication and both
\* validations.
THEOREM StoredWasVetted == HttpSpec => []OnlyVetted
<1>1. HttpInv => OnlyVetted
  BY SpecIsNotifiable DEF HttpInv, Vetted, Submittable, OnlyVetted
<1> QED BY <1>1, HttpInvariant, PTL

\* Whoever was answered 202 finds the event at any later time.
THEOREM PromiseKept == HttpSpec => []ReadYourSubmission
<1>1. IntakeInv /\ HttpInv => ReadYourSubmission
  BY DEF HttpInv, Kept, ReadYourSubmission
<1> QED BY <1>1, HttpInvariant, PTL

\* EventIntake's guarantees, with the whole way of a request: one event per
\* key and type, one answer, and the first content stays.
THEOREM HttpIdempotent ==
  HttpSpec => [](OneEventPerKey /\ AnswersAgree) /\ FirstSubmissionWins
BY HttpImplements, Unique, Agreement, FirstWins, PTL DEF ImplementsIntake
=============================================================================
