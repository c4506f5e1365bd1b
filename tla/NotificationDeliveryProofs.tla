-------------------- MODULE NotificationDeliveryProofs --------------------
(***************************************************************************)
(* Machine-checked proofs about NotificationDelivery, for any number of    *)
(* notifications, attempts and faults: first what any number of workers    *)
(* guarantees, then what holds when at most one runs, which is what        *)
(* deploy/k8s/base/deployment-worker asks for outside a rolling update.    *)
(***************************************************************************)
EXTENDS NotificationDelivery, TLAPS

---------------------------------------------------------------------------
(* The type invariant *)

\* The three updates of the loop write well-typed rows.
LEMMA UpdatesTyped ==
  ASSUME NEW k \in 0 .. MaxAttempts - 1
  PROVE  /\ Marked(k) \in Row
         /\ AfterSuccess(k) \in Row
         /\ AfterFailure(k + 1) \in Row
BY ConstantsAssumption DEF Marked, AfterSuccess, AfterFailure, Row, Status

\* A pending row has budget left: what FindPending reads is below the limit.
PendingBelowLimit ==
  \A n \in Notif : row[n].status = "pending" => row[n].attempts < MaxAttempts

TypeInv == TypeOK /\ PendingBelowLimit

\* Moving on keeps the batch and the program counter typed.
LEMMA MoveOnTyped ==
  ASSUME TypeOK, NEW w \in Worker, NEW n \in Notif, MoveOn(w, n)
  PROVE  /\ pc' \in [Worker -> PC]
         /\ DOMAIN batch' = Worker
         /\ \A v \in Worker : /\ DOMAIN batch'[v] \subseteq Notif
                              /\ \A m \in DOMAIN batch'[v] : batch'[v][m] \in 0 .. MaxAttempts - 1
BY DEF TypeOK, MoveOn, Restrict, PC

\* Writing a typed row, with budget left if it is pending, keeps the table
\* typed.
LEMMA WriteTyped ==
  ASSUME TypeInv, NEW n \in Notif, NEW r \in Row,
         r.status = "pending" => r.attempts < MaxAttempts,
         row' = [row EXCEPT ![n] = r]
  PROVE  row' \in [Notif -> Row] /\ PendingBelowLimit'
BY DEF TypeInv, TypeOK, PendingBelowLimit

LEMMA InitTypeInv == Init => TypeInv
BY ConstantsAssumption
DEF Init, TypeInv, TypeOK, PendingBelowLimit, Row, Status, PC, Empty

LEMMA StepTypeInv == TypeInv /\ [Next]_vars => TypeInv'
<1> SUFFICES ASSUME TypeInv, [Next]_vars PROVE TypeInv'
  OBVIOUS
<1> USE ConstantsAssumption
<1>1. ASSUME NEW n \in Notif, Create(n) PROVE TypeInv'
  BY <1>1 DEF Create, Fresh, TypeInv, TypeOK, PendingBelowLimit, Row, Status, history
<1>2. ASSUME NEW n \in Notif, BackoffElapses(n) PROVE TypeInv'
  BY <1>2 DEF BackoffElapses, TypeInv, TypeOK, PendingBelowLimit, Row, history
<1>3. ASSUME NEW w \in Worker, FindPending(w) PROVE TypeInv'
  <2>1. \A n \in Found : n \in Notif /\ row[n].attempts \in 0 .. MaxAttempts - 1
    BY DEF Found, Eligible, TypeInv, TypeOK, PendingBelowLimit, Row
  <2> QED
    BY <1>3, <2>1 DEF FindPending, TypeInv, TypeOK, PendingBelowLimit, PC, history
<1>4. ASSUME NEW w \in Worker, Mark(w) PROVE TypeInv'
  <2>1. PICK n \in Notif : Current(w, n) /\ row' = [row EXCEPT ![n] = Marked(batch[w][n])]
    BY <1>4 DEF Mark
  <2>2. batch[w][n] \in 0 .. MaxAttempts - 1
    BY <2>1 DEF Current, TypeInv, TypeOK
  <2>3. row' \in [Notif -> Row] /\ PendingBelowLimit'
    BY <2>1, <2>2, UpdatesTyped, WriteTyped DEF Marked
  <2> QED
    BY <1>4, <2>3 DEF Mark, TypeInv, TypeOK, PC, history
<1>5. ASSUME NEW w \in Worker, MarkFails(w) PROVE TypeInv'
  <2>1. PICK n \in Notif :
          /\ Current(w, n)
          /\ MoveOn(w, n)
          /\ \/ UNCHANGED <<row, faults>>
             \/ Inject("db") /\ UNCHANGED row
             \/ Inject("db") /\ row' = [row EXCEPT ![n] = Marked(batch[w][n])]
    BY <1>5 DEF MarkFails
  <2>2. batch[w][n] \in 0 .. MaxAttempts - 1
    BY <2>1 DEF Current, TypeInv, TypeOK
  <2>3. row' \in [Notif -> Row] /\ PendingBelowLimit'
    <3>1. CASE UNCHANGED row
      BY <3>1 DEF TypeInv, TypeOK, PendingBelowLimit
    <3>2. CASE row' = [row EXCEPT ![n] = Marked(batch[w][n])]
      BY <3>2, <2>2, UpdatesTyped, WriteTyped DEF Marked
    <3> QED BY <2>1, <3>1, <3>2
  <2>4. faults' \in 0 .. MaxFaults
    BY <2>1 DEF Inject, TypeInv, TypeOK
  <2>5. /\ pc' \in [Worker -> PC]
        /\ DOMAIN batch' = Worker
        /\ \A v \in Worker : /\ DOMAIN batch'[v] \subseteq Notif
                             /\ \A m \in DOMAIN batch'[v] : batch'[v][m] \in 0 .. MaxAttempts - 1
    BY <2>1, MoveOnTyped DEF TypeInv
  <2> QED
    BY <1>5, <2>3, <2>4, <2>5 DEF MarkFails, TypeInv, TypeOK, history
<1>6. ASSUME NEW w \in Worker, StartSend(w) PROVE TypeInv'
  BY <1>6 DEF StartSend, TypeInv, TypeOK, PendingBelowLimit, PC
<1>7. ASSUME NEW w \in Worker, SendSucceeds(w) PROVE TypeInv'
  BY <1>7 DEF SendSucceeds, TypeInv, TypeOK, PendingBelowLimit, PC
<1>8. ASSUME NEW w \in Worker, SendFails(w) PROVE TypeInv'
  BY <1>8 DEF SendFails, TypeInv, TypeOK, PendingBelowLimit, PC
<1>9. ASSUME NEW w \in Worker, SendAbandoned(w) PROVE TypeInv'
  BY <1>9 DEF SendAbandoned, TypeInv, TypeOK, PendingBelowLimit, PC, history
<1>10. ASSUME NEW w \in Worker, OrphanEnds(w) PROVE TypeInv'
  BY <1>10 DEF OrphanEnds, TypeInv, TypeOK, PendingBelowLimit
<1>11. ASSUME NEW w \in Worker, Record(w) PROVE TypeInv'
  <2>1. PICK n \in Notif : /\ Current(w, n)
                           /\ row' = [row EXCEPT ![n] = Outcome(w, n)]
                           /\ MoveOn(w, n)
    BY <1>11 DEF Record
  <2>2. batch[w][n] \in 0 .. MaxAttempts - 1
    BY <2>1 DEF Current, TypeInv, TypeOK
  <2>3. Outcome(w, n) \in Row
    BY <2>2, UpdatesTyped DEF Outcome
  <2>4. Outcome(w, n).status = "pending" => Outcome(w, n).attempts < MaxAttempts
    BY <2>2 DEF Outcome, AfterSuccess, AfterFailure
  <2>5. row' \in [Notif -> Row] /\ PendingBelowLimit'
    BY <2>1, <2>3, <2>4, WriteTyped
  <2> QED
    BY <1>11, <2>1, <2>5, MoveOnTyped DEF Record, TypeInv, TypeOK, history
<1>12. ASSUME NEW w \in Worker, RecordLost(w) PROVE TypeInv'
  <2>1. PICK n \in Notif : MoveOn(w, n)
    BY <1>12 DEF RecordLost
  <2>2. faults' \in 0 .. MaxFaults
    BY <1>12 DEF RecordLost, Inject, TypeInv, TypeOK
  <2> QED
    BY <1>12, <2>1, <2>2, MoveOnTyped DEF RecordLost, TypeInv, TypeOK, PendingBelowLimit, history
<1>13. ASSUME NEW w \in Worker, Interrupt(w) PROVE TypeInv'
  BY <1>13 DEF Interrupt, Inject, TypeInv, TypeOK, PendingBelowLimit, history
<1>14. ASSUME NEW w \in Worker, LoopStops(w) PROVE TypeInv'
  BY <1>14 DEF LoopStops, TypeInv, TypeOK, PendingBelowLimit, PC, history
<1>15. ASSUME NEW w \in Worker, Exit(w) PROVE TypeInv'
  BY <1>15 DEF Exit, Gone, Empty, TypeInv, TypeOK, PendingBelowLimit, PC, history
<1>16. ASSUME NEW w \in Worker, Crash(w) PROVE TypeInv'
  BY <1>16 DEF Crash, Gone, Empty, Inject, TypeInv, TypeOK, PendingBelowLimit, PC, history
<1>17. ASSUME NEW w \in Worker, Restart(w) PROVE TypeInv'
  BY <1>17 DEF Restart, TypeInv, TypeOK, PendingBelowLimit, PC, history
<1>18. CASE UNCHANGED vars
  BY <1>18 DEF vars, history, TypeInv, TypeOK, PendingBelowLimit
<1> QED
  BY <1>1, <1>2, <1>3, <1>4, <1>5, <1>6, <1>7, <1>8, <1>9, <1>10, <1>11, <1>12,
     <1>13, <1>14, <1>15, <1>16, <1>17, <1>18 DEF Next, LoopStep, IdleTick

\* TypeOK holds of every state the delivery loops reach, and every row that
\* is pending has attempts left.
THEOREM TypeCorrect == Spec => []TypeOK
<1>1. TypeInv => TypeOK
  BY DEF TypeInv
<1> QED
  BY <1>1, InitTypeInv, StepTypeInv, PTL DEF Spec

---------------------------------------------------------------------------
(* What any number of workers guarantees: the table never claims a delivery  *)
(* or an exhausted budget that the send calls do not bear out.             *)

InFlight == {"sending", "succeeded", "unsuccessful"}

\* Every count of attempts, in the table or in a worker's snapshot, is borne
\* out by as many send calls.
CountsBorneOut ==
  /\ \A n \in Notif : row[n].attempts <= tries[n]
  /\ \A w \in Worker : \A n \in DOMAIN batch[w] :
       /\ batch[w][n] <= tries[n]
       /\ Current(w, n) /\ pc[w] \in InFlight => batch[w][n] + 1 <= tries[n]

\* A worker that believes its send call succeeded is right.
SuccessIsReal ==
  \A w \in Worker : \A n \in DOMAIN batch[w] :
    Current(w, n) /\ pc[w] = "succeeded" => n \in accepted

HonestInv == /\ CountsBorneOut /\ SuccessIsReal
             /\ DeliveredWasAccepted /\ FailedUsedItsBudget

\* A step that leaves the rows alone, and does not lower the histories, keeps
\* the row part of the invariant; likewise for a worker it leaves alone.
WorkerHonest(w) ==
  \A n \in DOMAIN batch[w] :
    /\ batch[w][n] <= tries[n]
    /\ Current(w, n) /\ pc[w] \in InFlight => batch[w][n] + 1 <= tries[n]
    /\ Current(w, n) /\ pc[w] = "succeeded" => n \in accepted

RowHonest(n) ==
  /\ row[n].attempts <= tries[n]
  /\ row[n].status = "delivered" => n \in accepted
  /\ row[n].status = "failed" => tries[n] >= MaxAttempts

LEMMA HonestByParts ==
  HonestInv <=> /\ \A n \in Notif : RowHonest(n)
                /\ \A w \in Worker : WorkerHonest(w)
BY DEF HonestInv, CountsBorneOut, SuccessIsReal, DeliveredWasAccepted,
       FailedUsedItsBudget, WorkerHonest, RowHonest

\* The histories only grow.
Grows == /\ \A n \in Notif : tries'[n] \in Nat /\ tries[n] <= tries'[n]
         /\ accepted \subseteq accepted'

LEMMA HistoryGrows == TypeInv /\ [Next]_vars => Grows
<1> SUFFICES ASSUME TypeInv, [Next]_vars PROVE Grows
  OBVIOUS
<1> USE DEF TypeInv, TypeOK, Grows
<1>1. ASSUME UNCHANGED history PROVE Grows
  BY <1>1 DEF history
<1>2. ASSUME NEW w \in Worker, StartSend(w) PROVE Grows
  BY <1>2 DEF StartSend
<1>3. ASSUME NEW w \in Worker, SendSucceeds(w) \/ SendFails(w) \/ OrphanEnds(w) PROVE Grows
  BY <1>3 DEF SendSucceeds, SendFails, OrphanEnds
<1> QED
  BY <1>1, <1>2, <1>3 DEF Next, LoopStep, vars, Create, BackoffElapses, IdleTick,
     FindPending, Mark, MarkFails, SendAbandoned, Record, RecordLost, Interrupt,
     LoopStops, Exit, Crash, Restart

LEMMA RowKept ==
  ASSUME TypeInv, Grows, NEW n \in Notif, RowHonest(n),
         row'[n] = row[n] \/ row'[n] = [row[n] EXCEPT !.backoff = FALSE]
  PROVE  RowHonest(n)'
BY ConstantsAssumption DEF TypeInv, TypeOK, Grows, RowHonest, Row

LEMMA WorkerKept ==
  ASSUME TypeInv, Grows, NEW w \in Worker, WorkerHonest(w),
         batch'[w] = batch[w],
         \/ pc'[w] = pc[w]
         \/ pc'[w] \notin InFlight
         \/ pc'[w] = "unsuccessful" /\ pc[w] \in InFlight
  PROVE  WorkerHonest(w)'
BY DEF TypeInv, TypeOK, Grows, WorkerHonest, Current, InFlight

\* A worker that moves on is at no send call.
LEMMA WorkerMovesOn ==
  ASSUME TypeInv, Grows, NEW w \in Worker, WorkerHonest(w), NEW n \in Notif, MoveOn(w, n)
  PROVE  \A v \in Worker : WorkerHonest(v) => WorkerHonest(v)'
<1> SUFFICES ASSUME NEW v \in Worker, WorkerHonest(v) PROVE WorkerHonest(v)'
  OBVIOUS
<1>1. CASE v # w
  BY <1>1, WorkerKept DEF MoveOn, TypeInv, TypeOK
<1>2. CASE v = w
  BY <1>2 DEF MoveOn, Restrict, TypeInv, TypeOK, Grows, WorkerHonest, InFlight
<1> QED BY <1>1, <1>2

LEMMA InitHonest == Init => HonestInv
BY ConstantsAssumption
DEF Init, HonestInv, CountsBorneOut, SuccessIsReal, DeliveredWasAccepted,
    FailedUsedItsBudget, Empty

LEMMA StepHonest == TypeInv /\ HonestInv /\ [Next]_vars => HonestInv'
<1> SUFFICES ASSUME TypeInv, HonestInv, [Next]_vars PROVE HonestInv'
  OBVIOUS
<1> DEFINE Rows == \A n \in Notif : RowHonest(n)
           Workers == \A w \in Worker : WorkerHonest(w)
<1>a. Rows /\ Workers
  BY HonestByParts
<1>b. Grows
  BY HistoryGrows
<1>c. SUFFICES Rows' /\ Workers'
  BY DEF HonestInv, CountsBorneOut, SuccessIsReal, DeliveredWasAccepted, FailedUsedItsBudget,
         WorkerHonest, RowHonest
<1>d. ASSUME UNCHANGED row PROVE Rows'
  BY <1>a, <1>b, <1>d, RowKept
<1>e. ASSUME UNCHANGED <<pc, batch>> PROVE Workers'
  BY <1>a, <1>b, <1>e, WorkerKept
<1> HIDE DEF Rows, Workers
<1> USE ConstantsAssumption
<1>1. ASSUME NEW n \in Notif, Create(n) PROVE Rows' /\ Workers'
  <2>1. Rows'
    BY <1>1, <1>a, <1>b DEF Create, Fresh, RowHonest, Rows, Grows, TypeInv, TypeOK,
       history
  <2> QED BY <1>1, <2>1, <1>e DEF Create
<1>2. ASSUME NEW n \in Notif, BackoffElapses(n) PROVE Rows' /\ Workers'
  <2>1. Rows'
    BY <1>2, <1>a, <1>b, RowKept DEF BackoffElapses, Rows, TypeInv, TypeOK
  <2> QED BY <1>2, <2>1, <1>e DEF BackoffElapses
<1>3. ASSUME NEW w \in Worker, FindPending(w) PROVE Rows' /\ Workers'
  <2>1. ASSUME NEW v \in Worker PROVE WorkerHonest(v)'
    <3>1. CASE v = w
      BY <3>1, <1>3, <1>a DEF FindPending, Found, WorkerHonest, RowHonest, InFlight, Rows,
         TypeInv, TypeOK, history
    <3>2. CASE v # w
      BY <3>2, <1>3, <1>a, <1>b, WorkerKept DEF FindPending, Workers, TypeInv, TypeOK
    <3> QED BY <3>1, <3>2
  <2> QED BY <1>3, <2>1, <1>d DEF FindPending, Workers
<1>4. ASSUME NEW w \in Worker, Mark(w) PROVE Rows' /\ Workers'
  <2>1. PICK n \in Notif : Current(w, n) /\ row' = [row EXCEPT ![n] = Marked(batch[w][n])]
    BY <1>4 DEF Mark
  <2>2. Rows'
    BY <2>1, <1>4, <1>a, <1>b DEF Marked, Current, RowHonest, WorkerHonest, Rows, Workers,
       Mark, history, TypeInv, TypeOK
  <2>3. Workers'
    BY <1>4, <1>a, <1>b, WorkerKept DEF Mark, Workers, TypeInv, TypeOK, InFlight
  <2> QED BY <2>2, <2>3
<1>5. ASSUME NEW w \in Worker, MarkFails(w) PROVE Rows' /\ Workers'
  <2>1. PICK n \in Notif : /\ Current(w, n)
                           /\ MoveOn(w, n)
                           /\ \/ UNCHANGED row
                              \/ row' = [row EXCEPT ![n] = Marked(batch[w][n])]
    BY <1>5 DEF MarkFails
  <2>2. Rows'
    <3>1. CASE row' = [row EXCEPT ![n] = Marked(batch[w][n])]
      BY <3>1, <2>1, <1>5, <1>a, <1>b DEF Marked, Current, RowHonest, WorkerHonest, Rows,
         Workers, MarkFails, history, TypeInv, TypeOK
    <3> QED BY <2>1, <3>1, <1>d
  <2>3. Workers'
    BY <2>1, <1>a, <1>b, WorkerMovesOn DEF Workers
  <2> QED BY <2>2, <2>3
<1>6. ASSUME NEW w \in Worker, StartSend(w) PROVE Rows' /\ Workers'
  <2>1. PICK n \in Notif : /\ Current(w, n)
                           /\ tries' = [tries EXCEPT ![n] = @ + 1]
                           /\ pc' = [pc EXCEPT ![w] = IF HasSender(n) /\ ~canceled[w]
                                                      THEN "sending" ELSE "unsuccessful"]
    BY <1>6 DEF StartSend
  <2>2. \A m \in DOMAIN batch[w] : Current(w, m) => m = n
    BY <2>1 DEF Current, TypeInv, TypeOK, Notif
  <2>3. ASSUME NEW v \in Worker PROVE WorkerHonest(v)'
    <3>1. CASE v = w
      BY <3>1, <2>1, <2>2, <1>6, <1>a DEF StartSend, WorkerHonest, Workers, Current, InFlight,
         TypeInv, TypeOK
    <3>2. CASE v # w
      BY <3>2, <2>1, <1>6, <1>a, <1>b, WorkerKept DEF StartSend, Workers, TypeInv, TypeOK
    <3> QED BY <3>1, <3>2
  <2> QED BY <1>6, <2>3, <1>d DEF StartSend, Workers
<1>7. ASSUME NEW w \in Worker, SendSucceeds(w) PROVE Rows' /\ Workers'
  <2>1. PICK n \in Notif : Current(w, n) /\ accepted' = accepted \cup {n}
    BY <1>7 DEF SendSucceeds
  <2>2. \A m \in DOMAIN batch[w] : Current(w, m) => m = n
    BY <2>1 DEF Current, TypeInv, TypeOK, Notif
  <2>3. ASSUME NEW v \in Worker PROVE WorkerHonest(v)'
    <3>1. CASE v = w
      BY <3>1, <2>1, <2>2, <1>7, <1>a DEF SendSucceeds, WorkerHonest, Workers, Current,
         InFlight, TypeInv, TypeOK
    <3>2. CASE v # w
      BY <3>2, <1>7, <1>a, <1>b, WorkerKept DEF SendSucceeds, Workers, TypeInv, TypeOK
    <3> QED BY <3>1, <3>2
  <2> QED BY <1>7, <2>3, <1>d DEF SendSucceeds, Workers
<1>8. ASSUME NEW w \in Worker, SendFails(w) \/ SendAbandoned(w) PROVE Rows' /\ Workers'
  <2>1. Workers'
    BY <1>8, <1>a, <1>b, WorkerKept DEF SendFails, SendAbandoned, Workers, TypeInv, TypeOK,
       InFlight
  <2> QED BY <1>8, <2>1, <1>d DEF SendFails, SendAbandoned
<1>9. ASSUME NEW w \in Worker, Record(w) PROVE Rows' /\ Workers'
  <2>1. PICK n \in Notif : /\ Current(w, n)
                           /\ row' = [row EXCEPT ![n] = Outcome(w, n)]
                           /\ MoveOn(w, n)
    BY <1>9 DEF Record
  <2>2. Rows'
    BY <2>1, <1>9, <1>a, <1>b DEF Outcome, AfterSuccess, AfterFailure, Current, RowHonest,
       WorkerHonest, InFlight, Rows, Workers, Record, history, TypeInv, TypeOK
  <2>3. Workers'
    BY <2>1, <1>a, <1>b, WorkerMovesOn DEF Workers
  <2> QED BY <2>2, <2>3
<1>10. ASSUME NEW w \in Worker, RecordLost(w) PROVE Rows' /\ Workers'
  <2>1. PICK n \in Notif : MoveOn(w, n)
    BY <1>10 DEF RecordLost
  <2>2. Workers'
    BY <2>1, <1>a, <1>b, WorkerMovesOn DEF Workers
  <2> QED BY <1>10, <2>2, <1>d DEF RecordLost
<1>11. ASSUME NEW w \in Worker, Exit(w) \/ Crash(w) PROVE Rows' /\ Workers'
  <2>1. ASSUME NEW v \in Worker PROVE WorkerHonest(v)'
    <3>1. CASE v = w
      BY <3>1, <1>11 DEF Exit, Crash, Gone, Empty, WorkerHonest, TypeInv, TypeOK
    <3>2. CASE v # w
      BY <3>2, <1>11, <1>a, <1>b, WorkerKept DEF Exit, Crash, Gone, Workers, TypeInv, TypeOK
    <3> QED BY <3>1, <3>2
  <2> QED BY <1>11, <2>1, <1>d DEF Exit, Crash, Workers
<1>12. ASSUME NEW w \in Worker, LoopStops(w) \/ Restart(w) PROVE Rows' /\ Workers'
  <2>1. Workers'
    BY <1>12, <1>a, <1>b, WorkerKept DEF LoopStops, Restart, Workers, TypeInv, TypeOK, InFlight
  <2> QED BY <1>12, <2>1, <1>d DEF LoopStops, Restart
<1>13. ASSUME NEW w \in Worker, OrphanEnds(w) \/ Interrupt(w) PROVE Rows' /\ Workers'
  BY <1>13, <1>d, <1>e DEF OrphanEnds, Interrupt
<1>14. CASE UNCHANGED vars
  BY <1>14, <1>d, <1>e DEF vars
<1> QED
  BY <1>1, <1>2, <1>3, <1>4, <1>5, <1>6, <1>7, <1>8, <1>9, <1>10, <1>11, <1>12, <1>13, <1>14
  DEF Next, LoopStep, IdleTick

\* A notification recorded as delivered was accepted by a server, for any
\* number of workers, stale snapshots, failed calls and crashes.
THEOREM DeliveredIsReal == Spec => []DeliveredWasAccepted
<1>1. HonestInv => DeliveredWasAccepted
  BY DEF HonestInv
<1> QED
  BY <1>1, InitTypeInv, StepTypeInv, InitHonest, StepHonest, PTL DEF Spec

\* A notification is given up only after MaxAttempts send calls, although
\* workers overwrite each other's counts.
THEOREM FailedIsExhausted == Spec => []FailedUsedItsBudget
<1>1. HonestInv => FailedUsedItsBudget
  BY DEF HonestInv
<1> QED
  BY <1>1, InitTypeInv, StepTypeInv, InitHonest, StepHonest, PTL DEF Spec

---------------------------------------------------------------------------
(* At most one worker runs at a time.  Faults are not restricted. *)

OneWorker == \A v, w \in Worker : v = w

---------------------------------------------------------------------------
(* One worker: the inductive invariant *)

\* In every state of its life a row's count of attempts tells the number of
\* send calls made, and a confirmed notification is never pending again.
RowSound(n) ==
  /\ row[n].status = "absent" => row[n].attempts = 0 /\ tries[n] = 0
  /\ row[n].status = "pending" => tries[n] = row[n].attempts
  /\ row[n].status = "processing" => /\ row[n].attempts < MaxAttempts
                                     /\ tries[n] \in {row[n].attempts, row[n].attempts + 1}
  /\ row[n].status = "delivered" => /\ row[n].attempts < MaxAttempts
                                    /\ tries[n] = row[n].attempts + 1
  /\ row[n].status = "failed" => row[n].attempts = MaxAttempts /\ tries[n] = MaxAttempts
  /\ row[n].backoff => row[n].status = "pending"
  /\ n \in confirmed => /\ row[n].status \in {"processing", "delivered"}
                        /\ tries[n] = row[n].attempts + 1

\* The notification the loop has marked and is sending.
TakenUp(w, n) == Current(w, n) /\ pc[w] \in {"send"} \cup InFlight

\* The snapshot the only worker acts on is not stale.
BatchFresh(w) ==
  \A n \in DOMAIN batch[w] :
    /\ row[n].attempts = batch[w][n]
    /\ ~row[n].backoff
    /\ ~TakenUp(w, n) => row[n].status = "pending"
    /\ TakenUp(w, n) =>
         /\ row[n].status = "processing"
         /\ tries[n] = IF pc[w] = "send" THEN batch[w][n] ELSE batch[w][n] + 1
         /\ pc[w] # "succeeded" => n \notin confirmed

SoloInv == /\ \A n \in Notif : RowSound(n)
           /\ \A w \in Worker : BatchFresh(w)

LEMMA InitSolo == Init => SoloInv
BY ConstantsAssumption DEF Init, SoloInv, RowSound, BatchFresh, Empty

\* The current notification of a batch is unique.
LEMMA CurrentUnique ==
  ASSUME TypeInv, NEW w \in Worker, NEW n \in Notif, Current(w, n)
  PROVE  /\ n \in DOMAIN batch[w]
         /\ batch[w][n] \in 0 .. MaxAttempts - 1
         /\ \A m \in DOMAIN batch[w] : Current(w, m) => m = n
BY DEF Current, TypeInv, TypeOK, Notif

\* After moving on from n the loop holds the rest of its batch and has taken
\* up none of it.
LEMMA RestUntaken ==
  ASSUME TypeInv, NEW w \in Worker, NEW n \in Notif, Current(w, n), MoveOn(w, n)
  PROVE  /\ DOMAIN batch'[w] = DOMAIN batch[w] \ {n}
         /\ \A m \in DOMAIN batch'[w] : /\ batch'[w][m] = batch[w][m]
                                        /\ ~TakenUp(w, m)
                                        /\ ~TakenUp(w, m)'
<1>1. /\ DOMAIN batch'[w] = DOMAIN batch[w] \ {n}
      /\ \A m \in DOMAIN batch'[w] : batch'[w][m] = batch[w][m]
      /\ pc'[w] \in {"idle", "mark"}
  BY DEF MoveOn, Restrict, TypeInv, TypeOK
<1>2. \A m \in DOMAIN batch[w] \ {n} : ~TakenUp(w, m)
  BY CurrentUnique DEF TakenUp
<1> QED BY <1>1, <1>2 DEF TakenUp, InFlight

\* The steps of the rest of the system do not disturb what a worker holds.
LEMMA BatchKept ==
  ASSUME NEW w \in Worker, BatchFresh(w),
         UNCHANGED <<batch, tries, confirmed>>, pc'[w] = pc[w],
         \A n \in DOMAIN batch[w] : row'[n] = row[n]
  PROVE  BatchFresh(w)'
BY DEF BatchFresh, TakenUp, Current, InFlight

LEMMA StepSolo ==
  ASSUME OneWorker, TypeInv, SoloInv, [Next]_vars
  PROVE  SoloInv'
<1> DEFINE Rows == \A n \in Notif : RowSound(n)
           Batches == \A w \in Worker : BatchFresh(w)
<1>a. Rows /\ Batches
  BY DEF SoloInv
<1>b. SUFFICES Rows' /\ Batches'
  BY DEF SoloInv
<1>c. ASSUME UNCHANGED <<row, tries, confirmed>> PROVE Rows'
  BY <1>a, <1>c DEF RowSound
<1>d. ASSUME NEW w \in Worker, BatchFresh(w)' PROVE Batches'
  BY <1>d DEF OneWorker
<1> HIDE DEF Rows, Batches
<1> USE ConstantsAssumption
<1>1. ASSUME NEW n \in Notif, Create(n) PROVE Rows' /\ Batches'
  <2>1. Rows'
    BY <1>1, <1>a DEF Create, Fresh, Rows, RowSound, TypeInv, TypeOK, history
  <2>2. ASSUME NEW w \in Worker PROVE BatchFresh(w)'
    <3>1. n \notin DOMAIN batch[w]
      BY <1>1, <1>a DEF Create, Batches, BatchFresh
    <3> QED BY <3>1, <1>1, <1>a, BatchKept DEF Create, Batches, history, TypeInv, TypeOK
  <2> QED BY <2>1, <2>2 DEF Batches
<1>2. ASSUME NEW n \in Notif, BackoffElapses(n) PROVE Rows' /\ Batches'
  <2>1. Rows'
    BY <1>2, <1>a DEF BackoffElapses, Rows, RowSound, TypeInv, TypeOK, Row, history
  <2>2. ASSUME NEW w \in Worker PROVE BatchFresh(w)'
    <3>1. n \notin DOMAIN batch[w]
      BY <1>2, <1>a DEF BackoffElapses, Batches, BatchFresh
    <3> QED BY <3>1, <1>2, <1>a, BatchKept DEF BackoffElapses, Batches, history, TypeInv, TypeOK
  <2> QED BY <2>1, <2>2 DEF Batches
<1>3. ASSUME NEW w \in Worker, FindPending(w) PROVE Rows' /\ Batches'
  <2>1. BatchFresh(w)'
    BY <1>3 DEF FindPending, Found, Eligible, BatchFresh, TakenUp, InFlight, TypeInv, TypeOK,
       history
  <2> QED BY <1>3, <2>1, <1>c, <1>d DEF FindPending, history
<1>4. ASSUME NEW w \in Worker, Mark(w) PROVE Rows' /\ Batches'
  <2>1. PICK n \in Notif : Current(w, n) /\ row' = [row EXCEPT ![n] = Marked(batch[w][n])]
    BY <1>4 DEF Mark
  <2>2. /\ n \in DOMAIN batch[w]
        /\ batch[w][n] \in 0 .. MaxAttempts - 1
        /\ \A m \in DOMAIN batch[w] : Current(w, m) => m = n
    BY <2>1, CurrentUnique
  <2>3. \A m \in DOMAIN batch[w] : row[m].status = "pending" /\ row[m].attempts = batch[w][m]
                                   /\ ~row[m].backoff
    BY <1>4, <1>a DEF Mark, Batches, BatchFresh, TakenUp, InFlight
  <2>4. Rows'
    BY <1>4, <2>1, <2>2, <2>3, <1>a DEF Mark, Marked, Rows, RowSound, history, TypeInv, TypeOK
  <2>5. BatchFresh(w)'
    BY <1>4, <2>1, <2>2, <2>3, <1>a DEF Mark, Marked, BatchFresh, TakenUp, Current, InFlight,
       Rows, RowSound, history, TypeInv, TypeOK
  <2> QED BY <2>4, <2>5, <1>d
<1>5. ASSUME NEW w \in Worker, MarkFails(w) PROVE Rows' /\ Batches'
  <2>1. PICK n \in Notif : /\ Current(w, n)
                           /\ MoveOn(w, n)
                           /\ \/ UNCHANGED row
                              \/ row' = [row EXCEPT ![n] = Marked(batch[w][n])]
    BY <1>5 DEF MarkFails
  <2>2. n \in DOMAIN batch[w] /\ batch[w][n] \in 0 .. MaxAttempts - 1
    BY <2>1, CurrentUnique
  <2>3. row[n].status = "pending" /\ row[n].attempts = batch[w][n]
    BY <1>5, <2>2, <1>a DEF MarkFails, Batches, BatchFresh, TakenUp, InFlight
  <2>4. Rows'
    <3>1. CASE row' = [row EXCEPT ![n] = Marked(batch[w][n])]
      BY <3>1, <1>5, <2>2, <2>3, <1>a DEF MarkFails, Marked, Rows, RowSound, history, TypeInv, TypeOK
    <3> QED BY <2>1, <3>1, <1>5, <1>c DEF MarkFails, history
  <2>5. BatchFresh(w)'
    BY <1>5, <2>1, <1>a, RestUntaken DEF MarkFails, Batches, BatchFresh, history, TypeInv, TypeOK
  <2> QED BY <2>4, <2>5, <1>d
<1>6. ASSUME NEW w \in Worker, StartSend(w) PROVE Rows' /\ Batches'
  <2>1. PICK n \in Notif : /\ Current(w, n)
                           /\ tries' = [tries EXCEPT ![n] = @ + 1]
                           /\ pc' = [pc EXCEPT ![w] = IF HasSender(n) /\ ~canceled[w]
                                                      THEN "sending" ELSE "unsuccessful"]
    BY <1>6 DEF StartSend
  <2>2. /\ n \in DOMAIN batch[w]
        /\ batch[w][n] \in 0 .. MaxAttempts - 1
        /\ \A m \in DOMAIN batch[w] : Current(w, m) => m = n
    BY <2>1, CurrentUnique
  <2>3. /\ row[n].status = "processing"
        /\ row[n].attempts = batch[w][n]
        /\ ~row[n].backoff
        /\ tries[n] = batch[w][n]
        /\ n \notin confirmed
    BY <1>6, <2>1, <2>2, <1>a DEF StartSend, Batches, BatchFresh, TakenUp
  <2>4. Rows'
    BY <1>6, <2>1, <2>2, <2>3, <1>a DEF StartSend, Rows, RowSound, TypeInv, TypeOK
  <2>5. pc'[w] \in {"sending", "unsuccessful"}
    BY <2>1 DEF TypeInv, TypeOK
  <2>6. /\ TakenUp(w, n)'
        /\ \A m \in DOMAIN batch[w] : m # n => ~TakenUp(w, m) /\ ~TakenUp(w, m)'
    BY <1>6, <2>1, <2>2, <2>5 DEF StartSend, TakenUp, Current, InFlight
  <2>7. BatchFresh(w)'
    BY <1>6, <2>1, <2>2, <2>3, <2>5, <2>6, <1>a DEF StartSend, Batches, BatchFresh, TypeInv, TypeOK
  <2> QED BY <2>4, <2>7, <1>d
<1>7. ASSUME NEW w \in Worker, SendSucceeds(w) PROVE Rows' /\ Batches'
  <2>1. PICK n \in Notif : Current(w, n) /\ confirmed' = confirmed \cup {n}
    BY <1>7 DEF SendSucceeds
  <2>2. /\ n \in DOMAIN batch[w]
        /\ batch[w][n] \in 0 .. MaxAttempts - 1
        /\ \A m \in DOMAIN batch[w] : Current(w, m) => m = n
    BY <2>1, CurrentUnique
  <2>3. /\ row[n].status = "processing"
        /\ row[n].attempts = batch[w][n]
        /\ ~row[n].backoff
        /\ tries[n] = batch[w][n] + 1
    BY <1>7, <2>1, <2>2, <1>a DEF SendSucceeds, Batches, BatchFresh, TakenUp, InFlight
  <2>4. Rows'
    BY <1>7, <2>1, <2>3, <1>a DEF SendSucceeds, Rows, RowSound
  <2>5. pc'[w] = "succeeded"
    BY <1>7 DEF SendSucceeds, TypeInv, TypeOK
  <2>6. /\ TakenUp(w, n)'
        /\ \A m \in DOMAIN batch[w] : m # n => ~TakenUp(w, m) /\ ~TakenUp(w, m)'
    BY <1>7, <2>1, <2>2, <2>5 DEF SendSucceeds, TakenUp, Current, InFlight
  <2>7. BatchFresh(w)'
    BY <1>7, <2>1, <2>2, <2>3, <2>5, <2>6, <1>a DEF SendSucceeds, Batches, BatchFresh
  <2> QED BY <2>4, <2>7, <1>d
<1>8. ASSUME NEW w \in Worker, SendFails(w) \/ SendAbandoned(w) PROVE Rows' /\ Batches'
  <2>1. /\ UNCHANGED <<row, batch, tries, confirmed>>
        /\ pc[w] = "sending"
        /\ pc'[w] = "unsuccessful"
    BY <1>8 DEF SendFails, SendAbandoned, history, TypeInv, TypeOK
  <2>2. \A m : TakenUp(w, m)' <=> TakenUp(w, m)
    BY <2>1 DEF TakenUp, Current, InFlight
  <2>3. BatchFresh(w)'
    BY <2>1, <2>2, <1>a DEF Batches, BatchFresh
  <2> QED BY <2>1, <2>3, <1>c, <1>d
<1>9. ASSUME NEW w \in Worker, Record(w) PROVE Rows' /\ Batches'
  <2>1. PICK n \in Notif : /\ Current(w, n)
                           /\ row' = [row EXCEPT ![n] = Outcome(w, n)]
                           /\ MoveOn(w, n)
    BY <1>9 DEF Record
  <2>2. n \in DOMAIN batch[w] /\ batch[w][n] \in 0 .. MaxAttempts - 1
    BY <2>1, CurrentUnique
  <2>3. /\ row[n].status = "processing"
        /\ tries[n] = batch[w][n] + 1
        /\ pc[w] = "unsuccessful" => n \notin confirmed
    BY <1>9, <2>1, <2>2, <1>a DEF Record, Batches, BatchFresh, TakenUp, InFlight
  <2>4. RowSound(n)'
    BY <1>9, <2>1, <2>2, <2>3 DEF Record, Outcome, AfterSuccess, AfterFailure, RowSound, history,
       TypeInv, TypeOK
  <2>5. ASSUME NEW m \in Notif, m # n PROVE RowSound(m)'
    BY <1>9, <2>1, <2>5, <1>a DEF Record, Rows, RowSound, history, TypeInv, TypeOK
  <2>6. BatchFresh(w)'
    BY <1>9, <2>1, <1>a, RestUntaken DEF Record, Batches, BatchFresh, history, TypeInv, TypeOK
  <2> QED BY <2>4, <2>5, <2>6, <1>d DEF Rows
<1>10. ASSUME NEW w \in Worker, RecordLost(w) PROVE Rows' /\ Batches'
  <2>1. PICK n \in Notif : Current(w, n) /\ MoveOn(w, n)
    BY <1>10 DEF RecordLost
  <2>2. BatchFresh(w)'
    BY <1>10, <2>1, <1>a, RestUntaken DEF RecordLost, Batches, BatchFresh, history, TypeInv, TypeOK
  <2> QED BY <1>10, <2>2, <1>c, <1>d DEF RecordLost, history
<1>11. ASSUME NEW w \in Worker, Exit(w) \/ Crash(w) PROVE Rows' /\ Batches'
  <2>1. BatchFresh(w)'
    BY <1>11 DEF Exit, Crash, Gone, Empty, BatchFresh, TypeInv, TypeOK
  <2> QED BY <1>11, <2>1, <1>c, <1>d DEF Exit, Crash, history
<1>12. ASSUME NEW w \in Worker, LoopStops(w) \/ Restart(w) PROVE Rows' /\ Batches'
  <2>1. /\ UNCHANGED <<row, batch, tries, confirmed>>
        /\ pc[w] \in {"idle", "down"}
        /\ pc'[w] \in {"stopped", "idle"}
    BY <1>12 DEF LoopStops, Restart, history, TypeInv, TypeOK
  <2>2. \A m : ~TakenUp(w, m)' /\ ~TakenUp(w, m)
    BY <2>1 DEF TakenUp, InFlight
  <2>3. BatchFresh(w)'
    BY <2>1, <2>2, <1>a DEF Batches, BatchFresh
  <2> QED BY <2>1, <2>3, <1>c, <1>d
<1>13. ASSUME UNCHANGED <<row, pc, batch, tries, confirmed>> PROVE Rows' /\ Batches'
  BY <1>13, <1>a, <1>c, BatchKept DEF Batches
<1>14. ASSUME NEW w \in Worker, OrphanEnds(w) \/ Interrupt(w) PROVE Rows' /\ Batches'
  BY <1>14, <1>13 DEF OrphanEnds, Interrupt, history
<1>15. CASE UNCHANGED vars
  BY <1>15, <1>13 DEF vars
<1> QED
  BY <1>1, <1>2, <1>3, <1>4, <1>5, <1>6, <1>7, <1>8, <1>9, <1>10, <1>11, <1>12, <1>14, <1>15
  DEF Next, LoopStep, IdleTick

---------------------------------------------------------------------------
(* One worker: the theorems *)

LEMMA SoloInvariant ==
  ASSUME OneWorker PROVE Spec => [](TypeInv /\ SoloInv)
<1>1. TypeInv /\ SoloInv /\ [Next]_vars => SoloInv'
  BY StepSolo
<1> QED
  BY <1>1, InitTypeInv, StepTypeInv, InitSolo, PTL DEF Spec

\* One worker never makes more than MaxAttempts send calls for a notification,
\* however many calls fail and however often it is killed and restarted.
THEOREM BudgetKept ==
  ASSUME OneWorker PROVE Spec => []AttemptBudget
<1>1. TypeInv /\ SoloInv => AttemptBudget
  <2> SUFFICES ASSUME TypeInv, SoloInv, NEW n \in Notif PROVE tries[n] <= MaxAttempts
    BY DEF AttemptBudget
  <2>1. row[n] \in Row /\ RowSound(n)
    BY DEF TypeInv, TypeOK, SoloInv
  <2>2. row[n].status = "pending" => row[n].attempts < MaxAttempts
    BY DEF TypeInv, PendingBelowLimit
  <2> QED
    BY <2>1, <2>2, ConstantsAssumption DEF RowSound, Row, Status
<1> QED
  BY <1>1, SoloInvariant, PTL

\* One worker sends nothing again that a send call has succeeded for.
THEOREM SuccessIsFinal ==
  ASSUME OneWorker PROVE Spec => NoSendAfterSuccess
<1>1. ASSUME TypeInv, SoloInv, [Next]_vars, NEW n \in confirmed
      PROVE  tries'[n] = tries[n]
  <2>1. ASSUME NEW w \in Worker, StartSend(w) PROVE tries'[n] = tries[n]
    <3>1. PICK m \in Notif : Current(w, m) /\ tries' = [tries EXCEPT ![m] = @ + 1]
      BY <2>1 DEF StartSend
    <3>2. TakenUp(w, m) /\ pc[w] = "send"
      BY <2>1, <3>1 DEF StartSend, TakenUp
    <3>3. m \notin confirmed
      BY <1>1, <3>1, <3>2 DEF SoloInv, BatchFresh, Current
    <3>4. n # m
      BY <1>1, <3>3
    <3> QED BY <1>1, <3>1, <3>4 DEF TypeInv, TypeOK
  <2>2. ASSUME UNCHANGED tries PROVE tries'[n] = tries[n]
    BY <2>2
  <2> QED
    BY <1>1, <2>1, <2>2 DEF Next, LoopStep, vars, history, Create, BackoffElapses, IdleTick,
       FindPending, Mark, MarkFails, SendSucceeds, SendFails, SendAbandoned, OrphanEnds,
       Record, RecordLost, Interrupt, LoopStops, Exit, Crash, Restart
<1>2. TypeInv /\ SoloInv /\ [Next]_vars
        => [\A n \in confirmed : tries'[n] = tries[n]]_vars
  BY <1>1
<1> QED
  BY <1>2, SoloInvariant, PTL DEF Spec, NoSendAfterSuccess

\* One worker touches no row, and makes no send call, before next_retry_at.
THEOREM BackoffKept ==
  ASSUME OneWorker PROVE Spec => BackoffRespected
<1> DEFINE Untouched(n) == /\ row'[n] \in {row[n], [row[n] EXCEPT !.backoff = FALSE]}
                           /\ tries'[n] = tries[n]
<1>1. ASSUME TypeInv, SoloInv, [Next]_vars, NEW n \in Notif, row[n].backoff
      PROVE  Untouched(n)
  <2>1. ASSUME NEW w \in Worker, NEW m \in Notif, Current(w, m) PROVE m # n
    BY <1>1, <2>1 DEF SoloInv, BatchFresh, Current
  <2>2. ASSUME NEW m \in Notif, Create(m) \/ BackoffElapses(m) PROVE Untouched(n)
    <3>1. CASE Create(m)
      <4>1. m # n
        BY <1>1, <3>1 DEF Create, SoloInv, RowSound
      <4> QED BY <4>1, <3>1, <1>1 DEF Create, history, TypeInv, TypeOK
    <3>2. CASE BackoffElapses(m)
      BY <3>2, <1>1 DEF BackoffElapses, history, TypeInv, TypeOK
    <3> QED BY <2>2, <3>1, <3>2
  <2>3. ASSUME NEW w \in Worker, Mark(w) \/ MarkFails(w) \/ Record(w) PROVE Untouched(n)
    BY <1>1, <2>1, <2>3 DEF Mark, MarkFails, Record, history, TypeInv, TypeOK
  <2>4. ASSUME NEW w \in Worker, StartSend(w) PROVE Untouched(n)
    BY <1>1, <2>1, <2>4 DEF StartSend, TypeInv, TypeOK
  <2>5. ASSUME UNCHANGED <<row, tries>> PROVE Untouched(n)
    BY <2>5
  <2> HIDE DEF Untouched
  <2> QED
    BY <1>1, <2>2, <2>3, <2>4, <2>5 DEF Next, LoopStep, vars, history, IdleTick, FindPending,
       SendSucceeds, SendFails, SendAbandoned, OrphanEnds, RecordLost, Interrupt, LoopStops,
       Exit, Crash, Restart
<1>2. TypeInv /\ SoloInv /\ [Next]_vars
        => [\A n \in Notif : row[n].backoff => Untouched(n)]_vars
  BY <1>1
<1> QED
  BY <1>2, SoloInvariant, PTL DEF Spec, BackoffRespected

---------------------------------------------------------------------------
(* One worker: refinement *)

LifeOf(n) == [status |-> row[n].status, attempts |-> row[n].attempts, tries |-> tries[n]]
LifeNow == [n \in Notif |-> LifeOf(n)]

\* A step that changes one notification's row or history maps to the step of
\* the life cycle that makes the same change.
LEMMA OneChanges ==
  ASSUME NEW n \in Notif,
         \A m \in Notif : m # n => row'[m] = row[m] /\ tries'[m] = tries[m]
  PROVE  LifeNow' = [LifeNow EXCEPT ![n] = LifeOf(n)']
BY DEF LifeNow, LifeOf

\* The row of n is taken up, its count unchanged.
Begins(n) ==
  /\ row[n].status = "pending"
  /\ row' = [row EXCEPT ![n] = Marked(row[n].attempts)]
  /\ UNCHANGED tries

LEMMA StepRefines ==
  ASSUME OneWorker, TypeInv, SoloInv, [Next]_vars
  PROVE  Lifecycle!Next \/ LifeNow' = LifeNow
<1> USE ConstantsAssumption
<1> DEFINE Goal == Lifecycle!Next \/ LifeNow' = LifeNow
<1>1. ASSUME NEW n \in Notif, Create(n) PROVE Goal
  <2>1. LifeOf(n) = [status |-> "absent", attempts |-> 0, tries |-> 0]
    BY <1>1 DEF Create, SoloInv, RowSound, LifeOf
  <2>2. LifeOf(n)' = [LifeOf(n) EXCEPT !.status = "pending"]
    BY <1>1, <2>1 DEF Create, Fresh, LifeOf, history, TypeInv, TypeOK
  <2>3. LifeNow' = [LifeNow EXCEPT ![n].status = "pending"]
    BY <1>1, <2>2, OneChanges DEF Create, history, TypeInv, TypeOK, LifeNow
  <2>4. Lifecycle!Create(n)
    BY <2>1, <2>3 DEF Lifecycle!Create, LifeNow, LifeOf
  <2> QED BY <2>4 DEF Lifecycle!Next
<1>2. ASSUME NEW n \in Notif, Begins(n) PROVE Goal
  <2>1. LifeNow' = [LifeNow EXCEPT ![n].status = "processing"]
    BY <1>2, OneChanges DEF Begins, Marked, LifeNow, LifeOf, TypeInv, TypeOK
  <2>2. Lifecycle!Begin(n)
    BY <1>2, <2>1 DEF Begins, Lifecycle!Begin, LifeNow, LifeOf
  <2> QED BY <2>2 DEF Lifecycle!Next
<1>3. ASSUME NEW w \in Worker, Mark(w) \/ MarkFails(w) PROVE Goal
  <2>1. PICK n \in Notif : /\ Current(w, n)
                           /\ \/ UNCHANGED row
                              \/ row' = [row EXCEPT ![n] = Marked(batch[w][n])]
    BY <1>3 DEF Mark, MarkFails
  <2>2. pc[w] = "mark" /\ UNCHANGED tries
    BY <1>3 DEF Mark, MarkFails, history
  <2>3. row[n].status = "pending" /\ row[n].attempts = batch[w][n]
    BY <2>1, <2>2 DEF SoloInv, BatchFresh, TakenUp, Current, InFlight
  <2>4. CASE UNCHANGED row
    BY <2>2, <2>4 DEF LifeNow, LifeOf
  <2>5. CASE row' = [row EXCEPT ![n] = Marked(batch[w][n])]
    <3>1. Begins(n)
      BY <2>2, <2>3, <2>5 DEF Begins
    <3> QED BY <3>1, <1>2
  <2> QED BY <2>1, <2>4, <2>5
<1>4. ASSUME NEW w \in Worker, StartSend(w) PROVE Goal
  <2>1. PICK n \in Notif : Current(w, n) /\ tries' = [tries EXCEPT ![n] = @ + 1]
    BY <1>4 DEF StartSend
  <2>2. /\ row[n].status = "processing"
        /\ tries[n] = row[n].attempts
        /\ row[n].attempts < MaxAttempts
        /\ UNCHANGED row
    BY <1>4, <2>1 DEF StartSend, SoloInv, RowSound, BatchFresh, TakenUp, Current
  <2>3. LifeNow' = [LifeNow EXCEPT ![n].tries = @ + 1]
    BY <2>1, <2>2, OneChanges DEF LifeNow, LifeOf, TypeInv, TypeOK
  <2>4. Lifecycle!Try(n)
    BY <2>2, <2>3 DEF Lifecycle!Try, LifeNow, LifeOf
  <2> QED BY <2>4 DEF Lifecycle!Next
<1>5. ASSUME NEW w \in Worker, Record(w) PROVE Goal
  <2>1. PICK n \in Notif : Current(w, n) /\ row' = [row EXCEPT ![n] = Outcome(w, n)]
    BY <1>5 DEF Record
  <2>2. /\ row[n].status = "processing"
        /\ row[n].attempts = batch[w][n]
        /\ tries[n] = row[n].attempts + 1
        /\ row[n].attempts \in 0 .. MaxAttempts - 1
        /\ UNCHANGED tries
    BY <1>5, <2>1, CurrentUnique
    DEF Record, SoloInv, BatchFresh, TakenUp, Current, InFlight, history
  <2>3. LifeNow' = [LifeNow EXCEPT ![n] = LifeOf(n)']
    BY <2>1, <2>2, OneChanges DEF TypeInv, TypeOK
  <2>4. row'[n] = Outcome(w, n)
    BY <2>1 DEF TypeInv, TypeOK
  <2>5. CASE pc[w] = "succeeded"
    <3>0. LifeOf(n)' = [LifeOf(n) EXCEPT !.status = "delivered"]
      BY <2>2, <2>4, <2>5 DEF Outcome, AfterSuccess, LifeOf
    <3>1. LifeNow' = [LifeNow EXCEPT ![n].status = "delivered"]
      BY <2>3, <3>0 DEF LifeNow, LifeOf
    <3>2. Lifecycle!Deliver(n)
      BY <2>2, <3>1 DEF Lifecycle!Deliver, LifeNow, LifeOf
    <3> QED BY <3>2 DEF Lifecycle!Next
  <2>6. CASE pc[w] # "succeeded" /\ tries[n] < MaxAttempts
    <3>0. LifeOf(n)' = [status |-> "pending", attempts |-> tries[n], tries |-> tries[n]]
      BY <2>2, <2>4, <2>6 DEF Outcome, AfterFailure, LifeOf
    <3>1. LifeNow' = [LifeNow EXCEPT ![n] =
                          [status |-> "pending", attempts |-> LifeNow[n].tries, tries |-> LifeNow[n].tries]]
      BY <2>3, <3>0 DEF LifeNow, LifeOf
    <3>2. Lifecycle!Reschedule(n)
      BY <2>2, <2>6, <3>1 DEF Lifecycle!Reschedule, LifeNow, LifeOf
    <3> QED BY <3>2 DEF Lifecycle!Next
  <2>7. CASE pc[w] # "succeeded" /\ ~(tries[n] < MaxAttempts)
    <3>0. LifeOf(n)' = [status |-> "failed", attempts |-> tries[n], tries |-> tries[n]]
      BY <2>2, <2>4, <2>7 DEF Outcome, AfterFailure, LifeOf
    <3>1. LifeNow' = [LifeNow EXCEPT ![n] =
                          [status |-> "failed", attempts |-> LifeNow[n].tries, tries |-> LifeNow[n].tries]]
      BY <2>3, <3>0 DEF LifeNow, LifeOf
    <3>2. Lifecycle!GiveUp(n)
      BY <2>2, <2>7, <3>1 DEF Lifecycle!GiveUp, LifeNow, LifeOf
    <3> QED BY <3>2 DEF Lifecycle!Next
  <2> QED BY <2>5, <2>6, <2>7
<1>6. ASSUME NEW n \in Notif, BackoffElapses(n) PROVE Goal
  BY <1>6 DEF BackoffElapses, LifeNow, LifeOf, history, TypeInv, TypeOK, Row
<1>7. ASSUME UNCHANGED <<row, tries>> PROVE Goal
  BY <1>7 DEF LifeNow, LifeOf
<1> HIDE DEF Goal
<1>8. Goal
  BY <1>1, <1>3, <1>4, <1>5, <1>6, <1>7 DEF Next, LoopStep, vars, history, IdleTick,
     FindPending, SendSucceeds, SendFails, SendAbandoned, OrphanEnds, RecordLost, Interrupt,
     LoopStops, Exit, Crash, Restart
<1> QED BY <1>8 DEF Goal

\* What one worker does to a notification is a behaviour of the abstract life
\* cycle, whatever the database, the senders and the process do.
THEOREM Refinement ==
  ASSUME OneWorker PROVE Spec => ImplementsLifecycle
<1>1. Init => Lifecycle!Init
  BY DEF Init, Lifecycle!Init
<1>2. TypeInv /\ SoloInv /\ [Next]_vars => [Lifecycle!Next]_LifeNow
  BY StepRefines
<1> QED
  BY <1>1, <1>2, SoloInvariant, PTL DEF Spec, ImplementsLifecycle, Lifecycle!Spec, LifeNow, LifeOf

---------------------------------------------------------------------------
(* What a fault is needed for *)

\* No step deletes a notification.
LEMMA RowsStay ==
  ASSUME TypeInv, [Next]_vars, NEW n \in Notif, row[n].status # "absent"
  PROVE  row'[n].status # "absent"
<1>1. CASE UNCHANGED row
  BY <1>1
<1>2. ASSUME NEW m \in Notif, NEW r, r.status # "absent", row' = [row EXCEPT ![m] = r]
      PROVE  row'[n].status # "absent"
  BY <1>2 DEF TypeInv, TypeOK
<1>3. ASSUME NEW m \in Notif, BackoffElapses(m) PROVE row'[n].status # "absent"
  BY <1>3 DEF BackoffElapses, TypeInv, TypeOK, Row
<1>4. ASSUME NEW w \in Worker, Mark(w) \/ MarkFails(w) \/ Record(w)
      PROVE  row'[n].status # "absent"
  BY <1>1, <1>2, <1>4
  DEF Mark, MarkFails, Record, Marked, Outcome, AfterSuccess, AfterFailure
<1> QED
  BY <1>1, <1>2, <1>3, <1>4
  DEF Next, LoopStep, Create, Fresh, IdleTick, FindPending, StartSend, SendSucceeds, SendFails,
      SendAbandoned, OrphanEnds, RecordLost, LoopStops, Exit, Restart, Crash, Interrupt, vars

\* As long as no call has failed and no process has been told to stop or has
\* died, a notification that is 'processing' is in the batch of a worker that
\* will record its outcome, although other workers may have read, marked and
\* settled it meanwhile.  There is no other way to be left 'processing'.
OnlyFaultsStrand ==
  faults = 0 =>
    \A n \in Notif : row[n].status = "processing" => \E w \in Worker : n \in DOMAIN batch[w]

\* It is the one that worker has marked and not recorded.
InHands(w, n) == Current(w, n) /\ pc[w] \in {"send", "sending", "succeeded", "unsuccessful"}

StrandInv ==
  faults = 0 =>
    /\ \A w \in Worker : ~canceled[w]
    /\ \A n \in Notif : row[n].status = "processing" => \E w \in Worker : InHands(w, n)

\* An injected fault is counted.
LEMMA FaultFree ==
  ASSUME TypeOK, StrandInv, [Next]_vars, faults' = 0
  PROVE  /\ faults = 0
         /\ \A w \in Worker : ~MarkFails(w) /\ ~RecordLost(w) /\ ~Interrupt(w) /\ ~Crash(w)
<1>1. faults \in Nat /\ \A kind : ~Inject(kind)
  BY DEF TypeOK, Inject
<1>2. \A w \in Worker : Interrupt(w) \/ Crash(w) => FALSE
  BY <1>1 DEF Interrupt, Crash
<1>3. \A w \in Worker : MarkFails(w) \/ RecordLost(w) => UNCHANGED faults /\ canceled[w]
  BY <1>1 DEF MarkFails, RecordLost
<1>4. UNCHANGED faults
  BY <1>2, <1>3
  DEF Next, LoopStep, Create, BackoffElapses, IdleTick, FindPending, Mark, StartSend,
      SendSucceeds, SendFails, SendAbandoned, OrphanEnds, Record, LoopStops, Exit, Restart, vars
<1> QED BY <1>2, <1>3, <1>4 DEF StrandInv

LEMMA StepStrand == TypeInv /\ StrandInv /\ [Next]_vars => StrandInv'
<1> DEFINE Goal ==
      /\ \A w \in Worker : ~canceled'[w]
      /\ \A n \in Notif : row'[n].status = "processing" => \E w \in Worker : InHands(w, n)'
<1> SUFFICES ASSUME TypeInv, StrandInv, [Next]_vars, faults' = 0 PROVE Goal
  BY DEF StrandInv
<1>a. /\ \A w \in Worker : ~canceled[w]
      /\ \A n \in Notif : row[n].status = "processing" => \E w \in Worker : InHands(w, n)
      /\ \A w \in Worker : ~MarkFails(w) /\ ~RecordLost(w) /\ ~Interrupt(w) /\ ~Crash(w)
  BY FaultFree DEF TypeInv, StrandInv
\* No row becomes 'processing', no worker lets go of one.
<1>0. ASSUME \A w \in Worker : ~canceled'[w],
             \A n \in Notif : row'[n].status = "processing" => row[n].status = "processing",
             \A w \in Worker : \A n \in Notif : InHands(w, n) => InHands(w, n)'
      PROVE  Goal
  BY <1>0, <1>a
<1> HIDE DEF Goal
<1> USE DEF TypeInv, TypeOK
<1>1. ASSUME NEW n \in Notif, Create(n) \/ BackoffElapses(n) PROVE Goal
  <2>1. \A m \in Notif : row'[m].status = "processing" => row[m].status = "processing"
    BY <1>1 DEF Create, BackoffElapses, Fresh, Row
  <2> QED BY <1>0, <1>1, <1>a, <2>1 DEF Create, BackoffElapses, InHands, Current
<1>2. ASSUME NEW w \in Worker, FindPending(w) PROVE Goal
  BY <1>0, <1>2, <1>a DEF FindPending, InHands, Current
<1>3. ASSUME NEW w \in Worker, Mark(w) PROVE Goal
  <2>1. PICK n \in Notif : Current(w, n) /\ row' = [row EXCEPT ![n] = Marked(batch[w][n])]
    BY <1>3 DEF Mark
  <2>2. /\ pc[w] = "mark" /\ pc' = [pc EXCEPT ![w] = "send"]
        /\ UNCHANGED <<batch, canceled>>
    BY <1>3 DEF Mark
  <2>3. InHands(w, n)'
    BY <2>1, <2>2 DEF InHands, Current
  <2>4. \A v \in Worker : \A m \in Notif : InHands(v, m) => InHands(v, m)'
    BY <2>2 DEF InHands, Current
  <2>5. \A m \in Notif : m # n => row'[m] = row[m]
    BY <2>1
  <2> QED BY <1>a, <2>2, <2>3, <2>4, <2>5 DEF Goal
<1>4. ASSUME NEW w \in Worker, StartSend(w) \/ SendSucceeds(w) \/ SendFails(w) \/ SendAbandoned(w)
      PROVE  Goal
  <2>1. /\ UNCHANGED <<row, batch, canceled>>
        /\ \E p \in {"sending", "succeeded", "unsuccessful"} : pc' = [pc EXCEPT ![w] = p]
    BY <1>4 DEF StartSend, SendSucceeds, SendFails, SendAbandoned
  <2> QED BY <1>0, <1>a, <2>1 DEF InHands, Current
<1>5. ASSUME NEW w \in Worker, Record(w) PROVE Goal
  <2>1. PICK n \in Notif : /\ Current(w, n) /\ MoveOn(w, n)
                           /\ row' = [row EXCEPT ![n] = Outcome(w, n)]
    BY <1>5 DEF Record
  <2>2. row'[n].status # "processing"
    BY <2>1 DEF Outcome, AfterSuccess, AfterFailure
  <2>3. \A m \in Notif : m # n => row'[m] = row[m] /\ ~Current(w, m)
    BY <2>1, CurrentUnique DEF Current
  <2>4. \A v \in Worker : \A m \in Notif : m # n /\ InHands(v, m) => InHands(v, m)'
    BY <2>1, <2>3 DEF InHands, Current, MoveOn
  <2>5. \A v \in Worker : ~canceled'[v]
    BY <1>5, <1>a DEF Record
  <2> QED BY <1>a, <2>2, <2>3, <2>4, <2>5 DEF Goal
<1>6. ASSUME NEW w \in Worker, LoopStops(w) \/ Exit(w) \/ Restart(w) PROVE Goal
  <2>1. /\ UNCHANGED row /\ pc[w] \in {"idle", "stopped", "down"}
        /\ \A v \in Worker : v # w => pc'[v] = pc[v] /\ batch'[v] = batch[v]
        /\ \A v \in Worker : ~canceled'[v]
    BY <1>6, <1>a DEF LoopStops, Exit, Restart, Gone
  <2> QED BY <1>0, <2>1 DEF InHands, Current
<1>7. ASSUME UNCHANGED <<row, pc, batch, canceled>> PROVE Goal
  BY <1>0, <1>7, <1>a DEF InHands, Current
<1>8. ASSUME NEW w \in Worker, OrphanEnds(w) \/ IdleTick(w) PROVE Goal
  BY <1>7, <1>8 DEF OrphanEnds, IdleTick, vars
<1>9. CASE UNCHANGED vars
  BY <1>7, <1>9 DEF vars
<1> QED
  BY <1>1, <1>2, <1>3, <1>4, <1>5, <1>6, <1>8, <1>9, <1>a DEF Next, LoopStep

\* The safety that SettlesForGood rests on, for any number of workers.
THEOREM OnlyFaults == Spec => []OnlyFaultsStrand
<1>1. Init => StrandInv
  BY DEF Init, StrandInv
<1>2. StrandInv => OnlyFaultsStrand
  BY DEF StrandInv, OnlyFaultsStrand, InHands, Current
<1> QED BY <1>1, <1>2, InitTypeInv, StepTypeInv, StepStrand, PTL DEF Spec

===========================================================================
