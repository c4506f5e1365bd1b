--------------------------- MODULE ApiKeysProofs ---------------------------
(***************************************************************************)
(* Machine-checked proofs about ApiKeys, for any set of requests, keys and *)
(* scopes.                                                                 *)
(***************************************************************************)
EXTENDS ApiKeys, TLAPS

---------------------------------------------------------------------------
(* The table *)

Dead(k) == table[k].present /\ ~table[k].active

\* What any step may do to a row: create it, clear is_active, set
\* last_used_at.
RowKept(k) ==
  table[k].present => /\ table'[k].present
                      /\ table'[k].active => table[k].active

Handlers(r) ==
  \/ Refuse(r)
  \/ Serve(r)
  \/ CreateKey(r)
  \/ RevokeKey(r)
  \/ RevokeUnknown(r)
  \/ Confirm(r)
  \/ HandlerFails(r)
  \/ Lost(r)

\* Only three actions write the table.
LEMMA Writers ==
  ASSUME NEW r \in Request,
         \/ Arrive(r)
         \/ Lookup(r)
         \/ LookupFails(r)
         \/ Reject(r)
         \/ Admit(r)
         \/ TouchLost(r)
         \/ Refuse(r)
         \/ Serve(r)
         \/ RevokeUnknown(r)
         \/ Confirm(r)
         \/ HandlerFails(r)
         \/ Lost(r)
  PROVE  UNCHANGED table
BY DEF Arrive, Lookup, LookupFails, Reject, Admit, TouchLost, Refuse, Serve,
       RevokeUnknown, Confirm, HandlerFails, Lost

LEMMA TypeInductive == TypeOK /\ [Next]_vars => TypeOK'
<1> SUFFICES ASSUME TypeOK, [Next]_vars PROVE TypeOK'
  OBVIOUS
<1> USE ConstantsAssumption
<1>1. CASE UNCHANGED vars
  BY <1>1 DEF vars, TypeOK
<1>2. ASSUME NEW r \in Request, Arrive(r) PROVE TypeOK'
  <2>1. Confirmed \subseteq Key
    BY DEF Confirmed
  <2> QED BY <1>2, <2>1 DEF Arrive, TypeOK
<1>3. ASSUME NEW r \in Request, Lookup(r) PROVE TypeOK'
  BY <1>3 DEF Lookup, TypeOK, Row
<1>4. ASSUME NEW r \in Request, Admit(r) PROVE TypeOK'
  BY <1>4 DEF Admit, TypeOK
<1>5. ASSUME NEW r \in Request, Touch(r) \/ TouchLost(r) PROVE TypeOK'
  <2>0. table[Presents[r]] \in Row
    BY DEF TypeOK
  <2>1. Touched(r) \in Row
    BY <2>0 DEF Touched, Row
  <2>2. table' \in [Key -> Row] /\ touching' \subseteq Request
    BY <1>5, <2>1 DEF Touch, TouchLost, TypeOK
  <2> QED BY <1>5, <2>2 DEF Touch, TouchLost, TypeOK
<1>6. ASSUME NEW r \in Request, CreateKey(r) \/ RevokeKey(r) PROVE TypeOK'
  <2>0. table[Target[r]] \in Row
    BY DEF TypeOK
  <2>1. New \in Row /\ [table[Target[r]] EXCEPT !.active = FALSE] \in Row
    BY <2>0 DEF New, Row
  <2>2. table' \in [Key -> Row]
    <3>1. CASE CreateKey(r)
      BY <3>1, <2>1 DEF CreateKey, TypeOK
    <3>2. CASE RevokeKey(r)
      BY <3>2, <2>1 DEF RevokeKey, TypeOK
    <3> QED BY <1>6, <3>1, <3>2
  <2> QED BY <1>6, <2>2 DEF CreateKey, RevokeKey, TypeOK
<1>7. ASSUME NEW r \in Request,
             \/ LookupFails(r)
             \/ Reject(r)
             \/ Refuse(r)
             \/ Serve(r)
             \/ RevokeUnknown(r)
             \/ Confirm(r)
             \/ HandlerFails(r)
      PROVE  TypeOK'
  BY <1>7 DEF LookupFails, Reject, Refuse, Serve, RevokeUnknown, Confirm, HandlerFails, Finish, TypeOK
<1>8. ASSUME NEW r \in Request, Lost(r) PROVE TypeOK'
  BY <1>8 DEF Lost, TypeOK
<1> QED BY <1>1, <1>2, <1>3, <1>4, <1>5, <1>6, <1>7, <1>8 DEF Next

LEMMA RowsKept == ASSUME TypeOK, [Next]_vars PROVE \A k \in Key : RowKept(k)
<1> USE ConstantsAssumption DEF RowKept
<1>1. CASE UNCHANGED table
  BY <1>1
<1>2. ASSUME NEW r \in Request, Touch(r) PROVE \A k \in Key : RowKept(k)
  BY <1>2 DEF Touch, Touched, TypeOK, Row
<1>3. ASSUME NEW r \in Request, CreateKey(r) PROVE \A k \in Key : RowKept(k)
  BY <1>3 DEF CreateKey, TypeOK, Row
<1>4. ASSUME NEW r \in Request, RevokeKey(r) PROVE \A k \in Key : RowKept(k)
  BY <1>4 DEF RevokeKey, TypeOK, Row
<1> QED BY <1>1, <1>2, <1>3, <1>4, Writers DEF Next, vars

---------------------------------------------------------------------------
(* The inductive invariant *)

\* A revocation that committed, or was confirmed, has left its key dead; so
\* are the keys a request found confirmed revoked when it arrived; and no
\* such request passes the check, because it read its row later.
Guarded(r) ==
  /\ Op[r] = "revoke" /\ (pc[r] = "committed" \/ answer[r] = 200) => Dead(Target[r])
  /\ \A k \in revoked[r] : Dead(k)
  /\ pc[r] = "check" /\ Presents[r] \in revoked[r] => ~seen[r]
  /\ pc[r] \in {"handle", "committed"} => Presents[r] \notin revoked[r]
  /\ pc[r] = "handle" => MayPass(r)

KeysInv == TypeOK /\ \A r \in Request : Guarded(r)

LEMMA InitKeys == Init => KeysInv
BY ConstantsAssumption DEF Init, KeysInv, TypeOK, Guarded, Row, New, Absent

\* A dead key stays dead.
LEMMA DeadForever ==
  ASSUME TypeOK, [Next]_vars, NEW k \in Key, Dead(k) PROVE Dead(k)'
BY RowsKept DEF RowKept, Dead

\* A request that a step leaves alone stays guarded.
LEMMA Bystander ==
  ASSUME TypeOK, [Next]_vars, NEW q \in Request, Guarded(q),
         pc'[q] = pc[q], answer'[q] = answer[q],
         revoked'[q] = revoked[q], seen'[q] = seen[q]
  PROVE  Guarded(q)'
<1>1. Target[q] \in Key /\ revoked[q] \subseteq Key
  BY ConstantsAssumption DEF TypeOK
<1>2. \A k \in Key : Dead(k) => Dead(k)'
  BY DeadForever
<1> QED BY <1>1, <1>2 DEF Guarded, MayPass

\* Every step leaves every request but its own alone.
LEMMA OneRequest ==
  ASSUME TypeOK, NEW r \in Request, NEW q \in Request, q # r,
         \/ Arrive(r)
         \/ Lookup(r)
         \/ LookupFails(r)
         \/ Reject(r)
         \/ Admit(r)
         \/ Touch(r)
         \/ TouchLost(r)
         \/ Handlers(r)
  PROVE  /\ pc'[q] = pc[q]
         /\ answer'[q] = answer[q]
         /\ revoked'[q] = revoked[q]
         /\ seen'[q] = seen[q]
BY DEF Arrive, Lookup, LookupFails, Reject, Admit, Touch, TouchLost, Handlers, Finish,
       Refuse, Serve, CreateKey, RevokeKey, RevokeUnknown, Confirm, HandlerFails, Lost, TypeOK

\* The request a step is about stays guarded.
LEMMA OwnRequest ==
  ASSUME KeysInv, [Next]_vars, NEW r \in Request,
         \/ Arrive(r)
         \/ Lookup(r)
         \/ LookupFails(r)
         \/ Reject(r)
         \/ Admit(r)
         \/ Touch(r)
         \/ TouchLost(r)
         \/ Handlers(r)
  PROVE  Guarded(r)'
<1> USE ConstantsAssumption
<1>a. TypeOK /\ Guarded(r)
  BY DEF KeysInv
<1>b. Target[r] \in Key /\ Presents[r] \in Key /\ revoked[r] \subseteq Key
  BY <1>a DEF TypeOK
<1>c. \A k \in Key : Dead(k) => Dead(k)'
  BY <1>a, DeadForever
<1>1. CASE Arrive(r)
  <2>1. Confirmed \subseteq Key
    BY DEF Confirmed
  <2>2. \A k \in Confirmed : Dead(k)
    BY DEF Confirmed, KeysInv, Guarded
  <2>3. pc'[r] = "lookup" /\ answer'[r] = answer[r] /\ revoked'[r] = Confirmed
    BY <1>1, <1>a DEF Arrive, TypeOK
  <2> QED BY <2>1, <2>2, <2>3, <1>a, <1>b, <1>c DEF Guarded
<1>2. CASE Lookup(r)
  <2>1. /\ pc'[r] = "check" /\ answer'[r] = answer[r] /\ revoked'[r] = revoked[r]
        /\ seen'[r] = table[Presents[r]].active
    BY <1>2, <1>a DEF Lookup, TypeOK
  <2> QED BY <2>1, <1>a, <1>b, <1>c DEF Guarded, Dead
<1>3. CASE Admit(r)
  <2>1. /\ pc[r] = "check" /\ MayPass(r) /\ seen' = seen
        /\ pc'[r] = "handle" /\ answer'[r] = answer[r] /\ revoked'[r] = revoked[r]
    BY <1>3, <1>a DEF Admit, TypeOK
  <2> QED BY <2>1, <1>a, <1>b, <1>c DEF Guarded, MayPass
<1>4. CASE Touch(r) \/ TouchLost(r)
  BY <1>4, <1>a, Bystander DEF Touch, TouchLost
<1>5. CASE LookupFails(r) \/ Reject(r) \/ Refuse(r) \/ RevokeUnknown(r) \/ HandlerFails(r)
  <2>1. pc'[r] = "done" /\ answer'[r] # 200 /\ revoked'[r] = revoked[r]
    BY <1>5, <1>a DEF LookupFails, Reject, Refuse, RevokeUnknown, HandlerFails, Finish, TypeOK
  <2> QED BY <2>1, <1>a, <1>b, <1>c DEF Guarded
<1>6. CASE Serve(r)
  <2>1. pc'[r] = "done" /\ Op[r] # "revoke" /\ revoked'[r] = revoked[r]
    BY <1>6, <1>a DEF Serve, Finish, TypeOK
  <2> QED BY <2>1, <1>a, <1>b, <1>c DEF Guarded
<1>7. CASE CreateKey(r)
  <2>1. /\ pc[r] = "handle" /\ pc'[r] = "committed" /\ Op[r] # "revoke"
        /\ revoked'[r] = revoked[r]
    BY <1>7, <1>a DEF CreateKey, TypeOK
  <2> QED BY <2>1, <1>a, <1>b, <1>c DEF Guarded
<1>8. CASE RevokeKey(r)
  <2>1. pc[r] = "handle" /\ pc'[r] = "committed" /\ revoked'[r] = revoked[r]
    BY <1>8, <1>a DEF RevokeKey, TypeOK
  <2>2. Dead(Target[r])'
    BY <1>8, <1>a, <1>b DEF RevokeKey, Dead, TypeOK, Row
  <2> QED BY <2>1, <2>2, <1>a, <1>b, <1>c DEF Guarded
<1>9. CASE Confirm(r)
  <2>1. pc[r] = "committed" /\ pc'[r] = "done" /\ revoked'[r] = revoked[r]
    BY <1>9, <1>a DEF Confirm, Finish, TypeOK
  <2> QED BY <2>1, <1>a, <1>b, <1>c DEF Guarded
<1>10. CASE Lost(r)
  <2>1. pc'[r] = "done" /\ answer'[r] = answer[r] /\ revoked'[r] = revoked[r]
    BY <1>10, <1>a DEF Lost, TypeOK
  <2> QED BY <2>1, <1>a, <1>b, <1>c DEF Guarded
<1> QED BY <1>1, <1>2, <1>3, <1>4, <1>5, <1>6, <1>7, <1>8, <1>9, <1>10 DEF Handlers

LEMMA KeysInductive == KeysInv /\ [Next]_vars => KeysInv'
<1> SUFFICES ASSUME KeysInv, [Next]_vars PROVE KeysInv'
  OBVIOUS
<1>1. TypeOK /\ TypeOK'
  BY TypeInductive DEF KeysInv
<1>2. CASE UNCHANGED vars
  BY <1>1, <1>2, Bystander DEF KeysInv, vars
<1>3. CASE Next
  <2>1. PICK r \in Request :
          \/ Arrive(r)
          \/ Lookup(r)
          \/ LookupFails(r)
          \/ Reject(r)
          \/ Admit(r)
          \/ Touch(r)
          \/ TouchLost(r)
          \/ Handlers(r)
    BY <1>3 DEF Next, Handlers
  <2>2. Guarded(r)'
    BY <2>1, OwnRequest
  <2>3. ASSUME NEW q \in Request, q # r PROVE Guarded(q)'
    <3>1. Guarded(q)
      BY DEF KeysInv
    <3>2. /\ pc'[q] = pc[q]
          /\ answer'[q] = answer[q]
          /\ revoked'[q] = revoked[q]
          /\ seen'[q] = seen[q]
      BY <1>1, <2>1, <2>3, OneRequest
    <3> QED BY <1>1, <3>1, <3>2, Bystander
  <2> QED BY <1>1, <2>2, <2>3 DEF KeysInv
<1> QED BY <1>2, <1>3

LEMMA KeysInvariant == Spec => []KeysInv
BY InitKeys, KeysInductive, PTL DEF Spec

---------------------------------------------------------------------------
(* Theorems *)

\* Type correctness, for any set of requests.
THEOREM TypeCorrect == Spec => []TypeOK
<1>1. KeysInv => TypeOK
  BY DEF KeysInv
<1> QED BY <1>1, KeysInvariant, PTL

\* No request that arrives after a client was told its key is revoked reaches
\* a handler: the check follows the arrival, and a revoked row stays revoked.
THEOREM StaysOut == Spec => []RevokedStaysOut
<1>1. KeysInv => RevokedStaysOut
  BY DEF KeysInv, Guarded, RevokedStaysOut
<1> QED BY <1>1, KeysInvariant, PTL

\* Neither the late write of last_used_at nor any handler revives a key.
THEOREM Final == Spec => RevocationIsFinal
<1>1. KeysInv /\ [Next]_vars =>
        [\A k \in Key : table[k].present =>
           /\ table'[k].present
           /\ table'[k].active => table[k].active]_vars
  BY RowsKept DEF KeysInv, RowKept
<1> QED BY <1>1, KeysInvariant, PTL DEF Spec, RevocationIsFinal

\* Only a request with the scope of its route, and with a key that was active
\* at its check, creates or revokes a key.
THEOREM Scoped == Spec => OnlyScopedChanges
<1>1. KeysInv /\ [Next]_vars =>
        [\A k \in Key : table'[k].active # table[k].active =>
           \E r \in Request :
             /\ pc[r] = "handle" /\ pc'[r] = "committed" /\ Target[r] = k
             /\ seen[r] /\ Scope[r] \in Scopes[Presents[r]]]_vars
  <2> SUFFICES ASSUME KeysInv, Next, NEW k \in Key, table'[k].active # table[k].active
               PROVE  \E r \in Request :
                        /\ pc[r] = "handle" /\ pc'[r] = "committed" /\ Target[r] = k
                        /\ seen[r] /\ Scope[r] \in Scopes[Presents[r]]
    OBVIOUS
  <2>1. TypeOK /\ \A r \in Request : pc[r] = "handle" => MayPass(r)
    BY DEF KeysInv, Guarded
  <2>2. ASSUME NEW r \in Request, Touch(r) PROVE FALSE
    BY <2>1, <2>2, ConstantsAssumption DEF Touch, Touched, TypeOK, Row
  <2>3. PICK r \in Request : CreateKey(r) \/ RevokeKey(r)
    BY <2>2, Writers DEF Next
  <2>4. pc[r] = "handle" /\ pc'[r] = "committed" /\ Target[r] = k
    BY <2>1, <2>3 DEF CreateKey, RevokeKey, TypeOK
  <2> QED BY <2>1, <2>4 DEF MayPass
<1> QED BY <1>1, KeysInvariant, PTL DEF Spec, OnlyScopedChanges
===========================================================================
