------------------------- MODULE EventIntakeProofs -------------------------
(***************************************************************************)
(* Machine-checked proofs about EventIntake, for any set of requests, with *)
(* any keys, types and contents.                                           *)
(***************************************************************************)
EXTENDS EventIntake, TLAPS

---------------------------------------------------------------------------
(* Lemmas about the upsert *)

\* The index compares what the rows' own requests asked for.
LEMMA ConflictingIsSame ==
  ASSUME TypeOK, NEW r \in Request
  PROVE  Conflicting(r) = {e \in DOMAIN events : SameEvent(e, r)}
BY DEF TypeOK, Conflicting, SameEvent, RowOf

\* An upsert keeps the rows that are there and adds at most the row of r.
LEMMA UpsertedKeeps ==
  ASSUME NEW r \in Request
  PROVE  /\ DOMAIN Upserted(r) = DOMAIN events \cup (IF Conflicting(r) = {} THEN {r} ELSE {})
         /\ \A e \in DOMAIN events : Upserted(r)[e] = events[e]
         /\ \A e \in DOMAIN Upserted(r) \ DOMAIN events : Upserted(r)[e] = RowOf(r, "accepted")
<1>1. CASE Conflicting(r) = {}
  BY <1>1 DEF Upserted, Extended
<1>2. CASE Conflicting(r) # {}
  <2>1. Upserted(r) = events
    BY <1>2 DEF Upserted
  <2> QED BY <1>2, <2>1
<1> QED BY <1>1, <1>2

---------------------------------------------------------------------------
(* The inductive invariant *)

\* What an INSERT returned is a row of the request's key and type; a request
\* past its INSERT has such a result, and a 202 carries it.
Sound(r) ==
  /\ result[r] # NoId => result[r] \in DOMAIN events /\ SameEvent(r, result[r])
  /\ pc[r] = "stored" => result[r] # NoId
  /\ Accepted(r) => pc[r] = "done" /\ answer[r].id = result[r] /\ result[r] # NoId

IntakeInv == TypeOK /\ OneEventPerKey /\ \A r \in Request : Sound(r)

LEMMA InitIntake == Init => IntakeInv
BY ConstantsAssumption
DEF Init, IntakeInv, TypeOK, OneEventPerKey, Sound, Accepted, Unanswered, Answer

\* A step that leaves the table alone or rewrites one row's status.
LEMMA TableKept ==
  ASSUME TypeOK, OneEventPerKey, DOMAIN events' = DOMAIN events
  PROVE  OneEventPerKey'
BY DEF OneEventPerKey, SameEvent

LEMMA StatusMoves ==
  ASSUME TypeOK, NEW S \in SUBSET DOMAIN events, NEW s \in Status, events' = Moved(S, s)
  PROVE  /\ DOMAIN events' = DOMAIN events
         /\ \A d \in DOMAIN events : \E t \in Status : events'[d] = RowOf(d, t)
         /\ \A d \in DOMAIN events : events'[d] = [events[d] EXCEPT !.status = events'[d].status]
<1>1. DOMAIN events' = DOMAIN events
  BY DEF Moved
<1>2. ASSUME NEW d \in DOMAIN events
      PROVE  /\ \E t \in Status : events'[d] = RowOf(d, t)
             /\ events'[d] = [events[d] EXCEPT !.status = events'[d].status]
  <2>1. PICK t \in Status : events[d] = RowOf(d, t)
    BY DEF TypeOK
  <2>2. events'[d] = RowOf(d, IF d \in S THEN s ELSE t)
    BY <2>1 DEF Moved, RowOf
  <2> QED BY <2>1, <2>2 DEF RowOf
<1> QED BY <1>1, <1>2

LEMMA StepIntake == IntakeInv /\ [Next]_vars => IntakeInv'
<1> SUFFICES ASSUME IntakeInv, [Next]_vars PROVE IntakeInv'
  OBVIOUS
<1> USE ConstantsAssumption
<1>a. TypeOK /\ OneEventPerKey /\ \A r \in Request : Sound(r)
  BY DEF IntakeInv
\* A request is finished, or moves on before its INSERT.
<1>1. ASSUME NEW r \in Request, NEW code \in {400, 500}, Finish(r, code, NoId), UNCHANGED events
      PROVE  IntakeInv'
  <2>1. TypeOK'
    BY <1>1, <1>a DEF Finish, TypeOK, Answer
  <2>2. ASSUME NEW q \in Request PROVE Sound(q)'
    BY <1>1, <1>a DEF Finish, TypeOK, Sound, Accepted
  <2> QED BY <1>1, <1>a, <2>1, <2>2, TableKept DEF IntakeInv
<1>b. ASSUME NEW r \in Request, Read(r) PROVE IntakeInv'
  <2>1. TypeOK'
    BY <1>b, <1>a DEF Read, Finish, TypeOK, Answer
  <2>2. ASSUME NEW q \in Request PROVE Sound(q)'
    BY <1>b, <1>a DEF Read, Finish, TypeOK, Sound, Accepted
  <2> QED BY <1>b, <1>a, <2>1, <2>2, TableKept DEF IntakeInv, Read
<1>2. ASSUME NEW r \in Request, Accept(r) PROVE IntakeInv'
  <2>1. TypeOK'
    BY <1>2, <1>a DEF Accept, Finish, TypeOK, Answer
  <2>2. ASSUME NEW q \in Request PROVE Sound(q)'
    BY <1>2, <1>a DEF Accept, Finish, TypeOK, Sound, Accepted
  <2> QED BY <1>2, <1>a, <2>1, <2>2, TableKept DEF IntakeInv, Accept
<1>3. ASSUME NEW r \in Request, Validate(r) \/ Lost(r) PROVE IntakeInv'
  <2>1. TypeOK'
    BY <1>3, <1>a DEF Validate, Lost, TypeOK
  <2>2. ASSUME NEW q \in Request PROVE Sound(q)'
    BY <1>3, <1>a DEF Validate, Lost, TypeOK, Sound, Accepted
  <2>3. UNCHANGED events
    BY <1>3 DEF Validate, Lost
  <2> QED BY <1>a, <2>1, <2>2, <2>3, TableKept DEF IntakeInv
<1>4. ASSUME NEW r \in Request, Store(r) PROVE IntakeInv'
  <2>1. PICK id \in Returned(r) : result' = [result EXCEPT ![r] = id]
    BY <1>4 DEF Store
  <2>2. /\ events' = Upserted(r) /\ pc' = [pc EXCEPT ![r] = "stored"] /\ UNCHANGED answer
    BY <1>4 DEF Store
  <2> DEFINE new == IF Conflicting(r) = {} THEN {r} ELSE {}
  <2>a. /\ DOMAIN events' = DOMAIN events \cup new
        /\ \A e \in DOMAIN events : events'[e] = events[e]
        /\ \A e \in DOMAIN events' \ DOMAIN events : events'[e] = RowOf(r, "accepted")
    BY <2>2, UpsertedKeeps
  <2>b. Conflicting(r) = {e \in DOMAIN events : SameEvent(e, r)}
    BY <1>a, ConflictingIsSame
  <2>3. /\ id \in DOMAIN events' /\ SameEvent(r, id)
        /\ id \in Request
    BY <1>a, <2>a, <2>b DEF Returned, SameEvent, TypeOK
  <2>4. /\ DOMAIN events \subseteq DOMAIN events'
        /\ \A d, e \in DOMAIN events' : SameEvent(d, e) => d = e
    BY <1>a, <2>a, <2>b DEF OneEventPerKey, SameEvent
  <2>5. TypeOK'
    <3>1. /\ DOMAIN events' \subseteq Request
          /\ \A e \in DOMAIN events' : \E s \in Status : events'[e] = RowOf(e, s)
      BY <1>a, <2>a DEF TypeOK, Status
    <3> QED BY <1>a, <2>1, <2>2, <2>3, <3>1 DEF TypeOK
  <2>6. ASSUME NEW q \in Request PROVE Sound(q)'
    <3>1. CASE q = r
      <4>1. result'[q] = id /\ id # NoId
        BY <1>a, <2>1, <2>3, <3>1 DEF TypeOK
      <4>2. ~Accepted(q)' \/ (Accepted(q) /\ answer'[q] = answer[q])
        BY <2>2 DEF Accepted
      <4>3. ~Accepted(q)
        BY <1>4, <1>a, <3>1 DEF Store, Sound
      <4> QED BY <2>3, <3>1, <4>1, <4>2, <4>3 DEF Sound, SameEvent
    <3>2. CASE q # r
      BY <1>a, <2>1, <2>2, <2>4, <3>2 DEF Sound, Accepted, TypeOK, SameEvent
    <3> QED BY <3>1, <3>2
  <2> QED BY <2>4, <2>5, <2>6 DEF IntakeInv, OneEventPerKey, SameEvent
<1>5. ASSUME NEW S \in SUBSET DOMAIN events, Claim(S) \/ \E e \in S : Fail(e) PROVE IntakeInv'
  <2>1. PICK s \in Status, T \in SUBSET DOMAIN events : events' = Moved(T, s)
    BY <1>5 DEF Claim, Fail, Status
  <2>2. UNCHANGED <<pc, result, answer>>
    BY <1>5 DEF Claim, Fail
  <2>3. /\ DOMAIN events' = DOMAIN events
        /\ \A d \in DOMAIN events : \E t \in Status : events'[d] = RowOf(d, t)
    BY <1>a, <2>1, StatusMoves
  <2>4. TypeOK'
    BY <1>a, <2>2, <2>3 DEF TypeOK
  <2>5. ASSUME NEW q \in Request PROVE Sound(q)'
    BY <1>a, <2>2, <2>3 DEF Sound, Accepted, SameEvent
  <2> QED BY <1>a, <2>3, <2>4, <2>5, TableKept DEF IntakeInv
<1>6. CASE UNCHANGED vars
  BY <1>6, <1>a DEF vars, IntakeInv, TypeOK, OneEventPerKey, Sound, Accepted, SameEvent
<1>7. ASSUME NEW r \in Request, Refuse(r) \/ StoreRefused(r) \/ StoreFails(r) PROVE IntakeInv'
  BY <1>7, <1>1 DEF Refuse, StoreRefused, StoreFails
<1> QED
  BY <1>b, <1>2, <1>3, <1>4, <1>5, <1>6, <1>7 DEF Next

---------------------------------------------------------------------------
(* Theorems *)

LEMMA IntakeInvariant == Spec => []IntakeInv
BY InitIntake, StepIntake, PTL DEF Spec

\* The rows, the program counters and the answers are what TypeOK says in
\* every reachable state, for any set of requests.
THEOREM TypeCorrect == Spec => []TypeOK
<1>1. IntakeInv => TypeOK
  BY DEF IntakeInv
<1> QED BY <1>1, IntakeInvariant, PTL

\* The upsert keeps one event per key and type, however many requests race.
THEOREM Unique == Spec => []OneEventPerKey
<1>1. IntakeInv => OneEventPerKey
  BY DEF IntakeInv
<1> QED BY <1>1, IntakeInvariant, PTL

\* Every 202 names the one event of its key and type, and the event is there.
THEOREM Agreement == Spec => []AnswersAgree
<1>1. ASSUME IntakeInv PROVE AnswersAgree
  <2>1. ASSUME NEW r \in Request, Accepted(r)
        PROVE  answer[r].id \in DOMAIN events /\ SameEvent(r, answer[r].id)
    BY <1>1, <2>1 DEF IntakeInv, Sound
  <2>2. ASSUME NEW r \in Request, NEW s \in Request, Accepted(r), Accepted(s), SameEvent(r, s)
        PROVE  answer[r].id = answer[s].id
    <3>1. SameEvent(answer[r].id, answer[s].id)
      BY <2>1, <2>2 DEF SameEvent
    <3> QED BY <1>1, <2>1, <2>2, <3>1 DEF IntakeInv, OneEventPerKey
  <2> QED BY <2>1, <2>2 DEF AnswersAgree
<1> QED BY <1>1, IntakeInvariant, PTL

\* No submission changes what an earlier one stored, or revives an event.
THEOREM FirstWins == Spec => FirstSubmissionWins
<1> DEFINE Kept(e) == /\ e \in DOMAIN events'
                      /\ events'[e] = [events[e] EXCEPT !.status = events'[e].status]
                      /\ events'[e].status = "accepted" => events[e].status = "accepted"
<1>1. ASSUME IntakeInv, [Next]_vars, NEW e \in DOMAIN events PROVE Kept(e)
  <2>1. TypeOK
    BY <1>1 DEF IntakeInv
  <2>2. CASE events'[e] = events[e] /\ DOMAIN events \subseteq DOMAIN events'
    <3>1. events[e] = [events[e] EXCEPT !.status = events[e].status]
      BY <2>1 DEF TypeOK, RowOf
    <3> QED BY <2>2, <3>1
  <2>3. ASSUME NEW S \in SUBSET DOMAIN events, Claim(S) \/ \E d \in S : Fail(d) PROVE Kept(e)
    <3>1. PICK s \in {"processing", "failed"}, T \in SUBSET DOMAIN events : events' = Moved(T, s)
      BY <2>3 DEF Claim, Fail
    <3>2. /\ e \in DOMAIN events'
          /\ events'[e] = [events[e] EXCEPT !.status = events'[e].status]
      BY <2>1, <3>1, StatusMoves DEF Status
    <3>3. events'[e].status = IF e \in T THEN s ELSE events[e].status
      <4>1. PICK t \in Status : events[e] = RowOf(e, t)
        BY <2>1 DEF TypeOK
      <4> QED BY <3>1, <4>1 DEF Moved, RowOf
    <3> QED BY <3>1, <3>2, <3>3
  <2>4. ASSUME NEW r \in Request, Store(r)
        PROVE  events'[e] = events[e] /\ DOMAIN events \subseteq DOMAIN events'
    BY <2>4, UpsertedKeeps DEF Store
  <2>5. ASSUME UNCHANGED events
        PROVE  events'[e] = events[e] /\ DOMAIN events \subseteq DOMAIN events'
    BY <2>5
  <2> HIDE DEF Kept
  <2> QED
    BY <1>1, <2>2, <2>3, <2>4, <2>5
    DEF Next, vars, Refuse, Validate, StoreRefused, Read, StoreFails, Accept, Lost
<1>2. IntakeInv /\ [Next]_vars => [\A e \in DOMAIN events : Kept(e)]_vars
  BY <1>1
<1> QED BY <1>2, IntakeInvariant, PTL DEF Spec, FirstSubmissionWins
===========================================================================
