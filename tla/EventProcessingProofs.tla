----------------------- MODULE EventProcessingProofs -----------------------
(***************************************************************************)
(* Machine-checked proofs about EventProcessing, for any number of workers *)
(* events, targets and faults.                                             *)
(***************************************************************************)
EXTENDS EventProcessing, TLAPS

---------------------------------------------------------------------------
(* The type invariant *)

\* The step that leaves an event keeps the loop's variables typed.
LEMMA LeaveTyped ==
  ASSUME TypeOK, NEW w \in Worker, Leave(w)
  PROVE  /\ todo' \in [Worker -> SUBSET Event]
         /\ cur' \in [Worker -> Event \cup {NoEvent}]
         /\ pos' \in [Worker -> Nat \ {0}]
         /\ pc' \in [Worker -> PC]
BY DEF TypeOK, Leave, PC

LEMMA GoneTyped ==
  ASSUME TypeOK, NEW w \in Worker, Gone(w)
  PROVE  /\ pc' \in [Worker -> PC]
         /\ lock' \in [Worker -> SUBSET Event]
         /\ todo' \in [Worker -> SUBSET Event]
         /\ cur' \in [Worker -> Event \cup {NoEvent}]
         /\ pos' \in [Worker -> Nat \ {0}]
         /\ canceled' \in [Worker -> BOOLEAN]
BY DEF TypeOK, Gone, PC

LEMMA InsertTyped ==
  ASSUME TypeOK, NEW e, NEW k, Insert(e, k)
  PROVE  /\ DOMAIN stored' = Event
         /\ \A d \in Event : stored'[d] \in [1 .. Targets[d] -> Nat]
<1>1. ASSUME NEW d \in Event PROVE stored'[d] \in [1 .. Targets[d] -> Nat]
  <2>1. CASE d # e
    BY <2>1 DEF TypeOK, Insert
  <2>2. CASE d = e /\ k \in 1 .. Targets[e]
    <3>1. stored[e][k] \in Nat
      BY <2>2 DEF TypeOK
    <3> QED BY <2>2, <3>1 DEF TypeOK, Insert
  <2>3. CASE d = e /\ k \notin 1 .. Targets[e]
    BY <2>3 DEF TypeOK, Insert
  <2> QED BY <2>1, <2>2, <2>3
<1> QED BY <1>1 DEF TypeOK, Insert

LEMMA InitTyped == Init => TypeOK
BY ConstantsAssumption DEF Init, TypeOK, Status, PC, NoEvent

LEMMA StepTyped == TypeOK /\ [Next]_vars => TypeOK'
<1> SUFFICES ASSUME TypeOK, [Next]_vars PROVE TypeOK'
  OBVIOUS
<1> USE ConstantsAssumption
<1>1. ASSUME NEW e \in Event, Submit(e) PROVE TypeOK'
  BY <1>1 DEF Submit, TypeOK, Status, loop
<1>2. ASSUME NEW w \in Worker, ClaimLock(w) PROVE TypeOK'
  BY <1>2 DEF ClaimLock, Picked, TypeOK, PC, tables
<1>3. ASSUME NEW w \in Worker, Commit(w) PROVE status' \in [Event -> Status]
  BY <1>3 DEF Commit, TypeOK, Status
<1>4. ASSUME NEW w \in Worker, CallFails(w) PROVE faults' \in 0 .. MaxFaults
  BY <1>4 DEF CallFails, Inject, TypeOK
<1>5. ASSUME NEW w \in Worker, ClaimCommit(w) PROVE TypeOK'
  BY <1>5, <1>3 DEF ClaimCommit, TypeOK, PC
<1>6. ASSUME NEW w \in Worker, ClaimFails(w) PROVE TypeOK'
  BY <1>6, <1>3, <1>4 DEF ClaimFails, TypeOK, PC
<1>7. ASSUME NEW w \in Worker, TakeEvent(w) PROVE TypeOK'
  BY <1>7 DEF TakeEvent, TypeOK, PC, tables
<1>8. ASSUME NEW w \in Worker, StoreNext(w) PROVE TypeOK'
  BY <1>8, InsertTyped DEF StoreNext, TypeOK, NoEvent, AtTarget
<1>9. ASSUME NEW w \in Worker, RejectNext(w) PROVE TypeOK'
  BY <1>9 DEF RejectNext, TypeOK, PC, tables, loop
<1>10. ASSUME NEW w \in Worker, StoreFails(w) PROVE TypeOK'
  BY <1>10, <1>4, InsertTyped DEF StoreFails, TypeOK, PC, loop, AtTarget
<1>11. ASSUME NEW w \in Worker, FinishEvent(w) PROVE TypeOK'
  BY <1>11, LeaveTyped DEF FinishEvent, TypeOK, tables
<1>12. ASSUME NEW w \in Worker, SetFailed(w) PROVE TypeOK'
  <2>1. status' \in [Event -> Status]
    BY <1>12 DEF SetFailed, TypeOK, Status
  <2> QED BY <1>12, <2>1, LeaveTyped DEF SetFailed, TypeOK
<1>13. ASSUME NEW w \in Worker, SetFailedLost(w) PROVE TypeOK'
  BY <1>13, <1>4, LeaveTyped DEF SetFailedLost, TypeOK, tables
<1>14. ASSUME NEW w \in Worker, Interrupt(w) PROVE TypeOK'
  BY <1>14 DEF Interrupt, Inject, TypeOK, tables, loop
<1>15. ASSUME NEW w \in Worker, LoopStops(w) PROVE TypeOK'
  BY <1>15 DEF LoopStops, TypeOK, PC, tables, loop
<1>16. ASSUME NEW w \in Worker, Exit(w) PROVE TypeOK'
  BY <1>16, GoneTyped DEF Exit, TypeOK, tables
<1>17. ASSUME NEW w \in Worker, Crash(w) PROVE TypeOK'
  <2>1. status' \in [Event -> Status] /\ faults' \in 0 .. MaxFaults
    BY <1>17, <1>3 DEF Crash, Inject, TypeOK
  <2> QED BY <1>17, <2>1, GoneTyped DEF Crash, TypeOK
<1>18. ASSUME NEW w \in Worker, Restart(w) PROVE TypeOK'
  BY <1>18 DEF Restart, TypeOK, PC, tables, loop
<1>19. CASE UNCHANGED vars
  BY <1>19 DEF vars, TypeOK
<1> QED
  BY <1>1, <1>2, <1>5, <1>6, <1>7, <1>8, <1>9, <1>10, <1>11, <1>12, <1>13, <1>14, <1>15,
     <1>16, <1>17, <1>18, <1>19 DEF Next, LoopStep, IdleTick

\* TypeOK holds of every state the processing loops reach: the status column
\* of an event takes no other value, 'notified' among them.
THEOREM TypeCorrect == Spec => []TypeOK
BY InitTyped, StepTyped, PTL DEF Spec

---------------------------------------------------------------------------
(* The inductive invariant *)

\* The rows a worker's claim statement has locked, or its loop has claimed
\* and not finished, are no other worker's.
Exclusive ==
  \A v, w \in Worker :
    v # w => (lock[v] \cup todo[v]) \cap (lock[w] \cup todo[w]) = {}

AtEvent(w) == pc[w] \in {"creating", "failing"}

\* What a worker holds agrees with the table and with where its loop is.
Holding(w) ==
  /\ lock[w] # {} => pc[w] = "claiming"
  /\ todo[w] # {} => pc[w] \in {"next", "creating", "failing"}
  /\ AtEvent(w) => cur[w] \in todo[w]
  /\ \A e \in lock[w] : status[e] = "accepted"
  /\ \A e \in todo[w] : status[e] = "processing"

\* An event has no notification before the loop is at it, and the targets
\* before pos[w] while it is.
Progress(w) ==
  /\ \A e \in todo[w] : ~(AtEvent(w) /\ e = cur[w])
                          => \A k \in 1 .. Targets[e] : stored[e][k] = 0
  /\ pc[w] = "creating" =>
       \A k \in 1 .. Targets[cur[w]] : stored[cur[w]][k] = IF k < pos[w] THEN 1 ELSE 0

\* An event that was never claimed has no notification, and no event has a
\* second one for the same target.
Counted(e) ==
  /\ status[e] \in {"absent", "accepted"} => \A k \in 1 .. Targets[e] : stored[e][k] = 0
  /\ \A k \in 1 .. Targets[e] : stored[e][k] <= 1

FanOutInv == /\ Exclusive
             /\ \A w \in Worker : Holding(w) /\ Progress(w)
             /\ \A e \in Event : Counted(e)

Held(w) == lock[w] \cup todo[w]

LEMMA InitFanOut == Init => FanOutInv
BY ConstantsAssumption
DEF Init, FanOutInv, Exclusive, Holding, Progress, Counted, AtEvent

\* Workers that hold no more than before stay exclusive.
LEMMA ExclusiveKept ==
  ASSUME Exclusive, \A v \in Worker : Held(v)' \subseteq Held(v)
  PROVE  Exclusive'
BY DEF Exclusive, Held

\* A worker is not disturbed by what happens to events it does not hold.
LEMMA OthersKept ==
  ASSUME NEW v \in Worker, Holding(v), Progress(v),
         lock'[v] = lock[v], todo'[v] = todo[v], cur'[v] = cur[v], pos'[v] = pos[v],
         pc'[v] = pc[v],
         \A e \in Held(v) : status'[e] = status[e] /\ stored'[e] = stored[e]
  PROVE  Holding(v)' /\ Progress(v)'
<1>1. Holding(v)'
  BY DEF Holding, Held, AtEvent
<1>2. Progress(v)'
  BY DEF Holding, Progress, Held, AtEvent
<1> QED BY <1>1, <1>2

\* Leaving an event keeps the rest of the batch as it was.
LEMMA LeaveKept ==
  ASSUME TypeOK, NEW w \in Worker, Holding(w), Progress(w), AtEvent(w), Leave(w),
         UNCHANGED <<lock, stored>>,
         \A e \in todo[w] \ {cur[w]} : status'[e] = status[e]
  PROVE  /\ Holding(w)' /\ Progress(w)'
         /\ \A v \in Worker : Held(v)' \subseteq Held(v)
         /\ \A v \in Worker \ {w} : /\ todo'[v] = todo[v]
                                    /\ cur'[v] = cur[v]
                                    /\ pos'[v] = pos[v]
                                    /\ pc'[v] = pc[v]
<1>1. /\ todo'[w] = todo[w] \ {cur[w]}
      /\ pc'[w] = IF todo'[w] = {} THEN "idle" ELSE "next"
  BY DEF TypeOK, Leave
<1>2. lock[w] = {}
  BY DEF Holding, AtEvent
<1>3. Holding(w)'
  BY <1>1, <1>2 DEF Holding, AtEvent
<1>4. Progress(w)'
  BY <1>1 DEF Progress, AtEvent
<1>5. \A v \in Worker : Held(v)' \subseteq Held(v)
  BY DEF TypeOK, Leave, Held
<1> QED BY <1>3, <1>4, <1>5 DEF TypeOK, Leave

\* A target the loop is at has no notification yet, and all before it have.
LEMMA AtTargetFacts ==
  ASSUME TypeOK, FanOutInv, NEW w \in Worker, AtTarget(w)
  PROVE  /\ cur[w] \in Event
         /\ cur[w] \in todo[w]
         /\ status[cur[w]] = "processing"
         /\ pos[w] \in 1 .. Targets[cur[w]]
         /\ \A k \in 1 .. Targets[cur[w]] : stored[cur[w]][k] = IF k < pos[w] THEN 1 ELSE 0
<1>1. cur[w] \in todo[w] /\ todo[w] \subseteq Event /\ pos[w] \in Nat \ {0}
  BY DEF FanOutInv, Holding, AtEvent, AtTarget, TypeOK
<1> QED BY <1>1, ConstantsAssumption DEF FanOutInv, Holding, Progress, AtTarget

\* Storing the target the loop is at.
LEMMA InsertKept ==
  ASSUME TypeOK, FanOutInv, NEW w \in Worker, AtTarget(w), Insert(cur[w], pos[w])
  PROVE  /\ \A e \in Event : e # cur[w] => stored'[e] = stored[e]
         /\ \A k \in 1 .. Targets[cur[w]] :
              stored'[cur[w]][k] = IF k <= pos[w] THEN 1 ELSE 0
<1>1. /\ cur[w] \in Event
      /\ pos[w] \in 1 .. Targets[cur[w]]
      /\ \A k \in 1 .. Targets[cur[w]] : stored[cur[w]][k] = IF k < pos[w] THEN 1 ELSE 0
  BY AtTargetFacts
<1>2. stored'[cur[w]] = [stored[cur[w]] EXCEPT ![pos[w]] = stored[cur[w]][pos[w]] + 1]
  BY <1>1 DEF Insert, TypeOK
<1>3. stored[cur[w]] \in [1 .. Targets[cur[w]] -> Nat] /\ Targets[cur[w]] \in Nat
  BY <1>1, ConstantsAssumption DEF TypeOK
<1> QED BY <1>1, <1>2, <1>3 DEF Insert, TypeOK

LEMMA StepFanOut == TypeOK /\ FanOutInv /\ [Next]_vars => FanOutInv'
<1> SUFFICES ASSUME TypeOK, FanOutInv, [Next]_vars PROVE FanOutInv'
  OBVIOUS
<1> USE ConstantsAssumption
<1> DEFINE Workers == \A v \in Worker : Holding(v) /\ Progress(v)
           Events == \A e \in Event : Counted(e)
           Goal == Exclusive' /\ Workers' /\ Events'
<1>a. Exclusive /\ Workers /\ Events
  BY DEF FanOutInv
<1>b. SUFFICES Goal
  BY DEF FanOutInv
<1>c. ASSUME UNCHANGED <<lock, todo>> PROVE Exclusive'
  BY <1>a, <1>c DEF Exclusive
<1>d. ASSUME UNCHANGED tables PROVE Events'
  BY <1>a, <1>d DEF Counted, tables
<1>e. ASSUME NEW w \in Worker, NEW v \in Worker, v # w PROVE Held(v) \cap Held(w) = {}
  BY <1>a, <1>e DEF Exclusive, Held
<1> HIDE DEF Workers, Events
<1>1. ASSUME NEW e \in Event, Submit(e) PROVE Goal
  <2>1. \A v \in Worker : e \notin Held(v)
    BY <1>1, <1>a DEF Submit, Workers, Holding, Held
  <2>2. ASSUME NEW v \in Worker PROVE Holding(v)' /\ Progress(v)'
    <3>1. \A d \in Held(v) : status'[d] = status[d] /\ stored'[d] = stored[d]
      BY <1>1, <2>1 DEF Submit, TypeOK, Held
    <3> QED BY <1>1, <1>a, <3>1, OthersKept DEF Submit, loop, Workers
  <2>3. Events'
    BY <1>1, <1>a DEF Submit, Events, Counted, TypeOK
  <2> QED BY <1>1, <1>c, <2>2, <2>3 DEF Submit, loop, Workers
<1>2. ASSUME NEW w \in Worker, ClaimLock(w) PROVE Goal
  <2>1. \A e \in Picked : e \in Event /\ status[e] = "accepted"
    BY DEF Picked, Claimable
  <2>2. \A v \in Worker : Picked \cap Held(v) = {}
    BY <2>1, <1>a DEF Picked, Claimable, Workers, Holding, Held
  <2>3. todo[w] = {} /\ pc[w] = "idle"
    BY <1>2, <1>a DEF ClaimLock, Workers, Holding
  <2>4. Exclusive'
    BY <1>2, <2>2, <1>a DEF ClaimLock, Exclusive, Held, TypeOK
  <2>5. Holding(w)' /\ Progress(w)'
    BY <1>2, <2>1, <2>3 DEF ClaimLock, Holding, Progress, AtEvent, TypeOK, tables
  <2>6. ASSUME NEW v \in Worker, v # w PROVE Holding(v)' /\ Progress(v)'
    BY <1>2, <2>6, <1>a, OthersKept DEF ClaimLock, Workers, tables, TypeOK
  <2> QED BY <1>2, <2>4, <2>5, <2>6, <1>d DEF ClaimLock, Workers
<1>3. ASSUME NEW w \in Worker, pc[w] = "claiming",
             Commit(w), UNCHANGED stored,
             \A v \in Worker : v # w => /\ lock'[v] = lock[v] /\ todo'[v] = todo[v]
                                       /\ cur'[v] = cur[v] /\ pos'[v] = pos[v]
                                       /\ pc'[v] = pc[v],
             lock'[w] = {}, todo'[w] \in {{}, lock[w]},
             pc'[w] \in {"idle", "down", "next"},
             todo'[w] # {} => pc'[w] = "next"
      PROVE  Goal
  <2>1. todo[w] = {} /\ \A e \in lock[w] : e \in Event /\ status[e] = "accepted"
    BY <1>3, <1>a DEF Workers, Holding, TypeOK
  <2>2. \A e \in Event : status'[e] = IF e \in lock[w] THEN "processing" ELSE status[e]
    BY <1>3 DEF Commit
  <2>3. \A v \in Worker : Held(v)' \subseteq Held(v)
    BY <1>3 DEF Held
  <2>4. Holding(w)'
    BY <1>3, <2>1, <2>2 DEF Holding, AtEvent
  <2>5. Progress(w)'
    BY <1>3, <2>1, <1>a DEF Progress, AtEvent, Events, Counted
  <2>6. ASSUME NEW v \in Worker, v # w PROVE Holding(v)' /\ Progress(v)'
    <3>1. \A e \in Held(v) : e \in Event /\ e \notin lock[w]
      BY <2>6, <1>e DEF Held, TypeOK
    <3> QED BY <1>3, <2>2, <2>6, <3>1, <1>a, OthersKept DEF Workers
  <2>7. Events'
    BY <1>3, <2>2, <1>a DEF Events, Counted
  <2> QED BY <2>3, <2>4, <2>5, <2>6, <2>7, <1>a, ExclusiveKept DEF Workers
<1>4. ASSUME NEW w \in Worker,
             UNCHANGED tables,
             \A v \in Worker : v # w => /\ lock'[v] = lock[v] /\ todo'[v] = todo[v]
                                       /\ cur'[v] = cur[v] /\ pos'[v] = pos[v]
                                       /\ pc'[v] = pc[v],
             lock'[w] = {}, todo'[w] = {}, pc'[w] \in {"idle", "down"}
      PROVE  Goal
  <2>1. \A v \in Worker : Held(v)' \subseteq Held(v)
    BY <1>4 DEF Held
  <2>2. Holding(w)' /\ Progress(w)'
    BY <1>4 DEF Holding, Progress, AtEvent
  <2>3. ASSUME NEW v \in Worker, v # w PROVE Holding(v)' /\ Progress(v)'
    BY <1>4, <2>3, <1>a, OthersKept DEF Workers, tables
  <2> QED BY <1>4, <2>1, <2>2, <2>3, <1>a, <1>d, ExclusiveKept DEF Workers
<1>5. ASSUME NEW w \in Worker, ClaimCommit(w) PROVE Goal
  BY <1>5, <1>3 DEF ClaimCommit, TypeOK, Workers, Events
<1>6. ASSUME NEW w \in Worker, ClaimFails(w) PROVE Goal
  <2>1. /\ pc[w] = "claiming"
        /\ lock' = [lock EXCEPT ![w] = {}]
        /\ pc' = [pc EXCEPT ![w] = "idle"]
        /\ UNCHANGED <<stored, todo, cur, pos>>
    BY <1>6 DEF ClaimFails
  <2>2. todo[w] = {}
    BY <2>1, <1>a DEF Workers, Holding
  <2>3. CASE Commit(w)
    BY <2>1, <2>2, <2>3, <1>3 DEF TypeOK
  <2>4. CASE UNCHANGED status
    BY <2>1, <2>2, <2>4, <1>4 DEF TypeOK, tables
  <2> QED BY <1>6, <2>3, <2>4 DEF ClaimFails
<1>7. ASSUME NEW w \in Worker, Exit(w) \/ Crash(w) PROVE Goal
  <2>1. /\ Gone(w) /\ UNCHANGED stored
        /\ (Commit(w) /\ Crash(w)) \/ UNCHANGED status
    BY <1>7 DEF Exit, Crash, tables
  <2>2. /\ lock'[w] = {} /\ todo'[w] = {} /\ pc'[w] = "down"
        /\ \A v \in Worker : v # w => /\ lock'[v] = lock[v] /\ todo'[v] = todo[v]
                                     /\ cur'[v] = cur[v] /\ pos'[v] = pos[v]
                                     /\ pc'[v] = pc[v]
    BY <2>1 DEF Gone, TypeOK
  <2>3. CASE Commit(w) /\ pc[w] = "claiming"
    BY <2>1, <2>2, <2>3, <1>3
  <2>4. CASE UNCHANGED status
    BY <2>1, <2>2, <2>4, <1>4 DEF tables
  <2>5. CASE Commit(w) /\ pc[w] # "claiming"
    <3>1. lock[w] = {}
      BY <2>5, <1>a DEF Workers, Holding
    <3>2. UNCHANGED status
      BY <2>5, <3>1 DEF Commit, TypeOK
    <3> QED BY <3>2, <2>4
  <2> QED BY <2>1, <2>3, <2>4, <2>5
<1>8. ASSUME NEW w \in Worker, TakeEvent(w) PROVE Goal
  <2>1. PICK e \in todo[w] :
          /\ cur' = [cur EXCEPT ![w] = e]
          /\ pos' = [pos EXCEPT ![w] = 1]
          /\ pc' = [pc EXCEPT ![w] = IF e \in Unreadable THEN "failing" ELSE "creating"]
    BY <1>8 DEF TakeEvent
  <2>2. /\ pc[w] = "next" /\ UNCHANGED <<tables, lock, todo>>
        /\ e \in Event /\ lock[w] = {}
    BY <1>8, <1>a DEF TakeEvent, TypeOK, Workers, Holding
  <2>3. \A d \in todo[w] : \A k \in 1 .. Targets[d] : stored[d][k] = 0
    BY <2>2, <1>a DEF Workers, Progress, AtEvent
  <2>4. cur'[w] = e /\ pos'[w] = 1 /\ pc'[w] \in {"failing", "creating"}
    BY <2>1 DEF TypeOK
  <2>5. Holding(w)'
    BY <2>2, <2>4, <1>a DEF Workers, Holding, AtEvent, tables
  <2>6. Progress(w)'
    BY <2>2, <2>3, <2>4 DEF Progress, AtEvent, tables
  <2>7. ASSUME NEW v \in Worker, v # w PROVE Holding(v)' /\ Progress(v)'
    BY <2>1, <2>2, <2>7, <1>a, OthersKept DEF Workers, tables, TypeOK
  <2> QED BY <2>2, <2>5, <2>6, <2>7, <1>c, <1>d DEF Workers
\* A target is stored, and the loop goes on to the next one or gives up.
<1>9. ASSUME NEW w \in Worker, AtTarget(w), Insert(cur[w], pos[w]),
             UNCHANGED <<status, lock, todo, cur>>,
             \A v \in Worker : v # w => pos'[v] = pos[v] /\ pc'[v] = pc[v],
             \/ pc'[w] = "creating" /\ pos'[w] = pos[w] + 1
             \/ pc'[w] = "failing"
      PROVE  Goal
  <2> DEFINE c == cur[w]
  <2>1. /\ c \in Event /\ c \in todo[w] /\ status[c] = "processing"
        /\ pos[w] \in 1 .. Targets[c]
    BY <1>9, AtTargetFacts
  <2>2. /\ \A e \in Event : e # c => stored'[e] = stored[e]
        /\ \A k \in 1 .. Targets[c] : stored'[c][k] = IF k <= pos[w] THEN 1 ELSE 0
    BY <1>9, InsertKept
  <2> HIDE DEF c
  <2>3. cur'[w] = c /\ cur[w] = c /\ AtEvent(w) /\ AtEvent(w)'
    BY <1>9 DEF c, AtEvent, AtTarget
  <2>4. Holding(w)'
    <3>1. Holding(w)
      BY <1>a DEF Workers
    <3> QED BY <1>9, <2>1, <2>3, <3>1 DEF Holding, AtEvent, AtTarget
  <2>5. Progress(w)'
    <3>1. \A e \in todo[w] : e # c => \A k \in 1 .. Targets[e] : stored'[e][k] = 0
      BY <2>2, <2>3, <1>a DEF Workers, Progress, TypeOK
    <3>2. pc'[w] = "creating" =>
            \A k \in 1 .. Targets[c] : stored'[c][k] = IF k < pos'[w] THEN 1 ELSE 0
      BY <1>9, <2>1, <2>2
    <3> QED BY <1>9, <2>3, <3>1, <3>2 DEF Progress
  <2>6. ASSUME NEW v \in Worker, v # w PROVE Holding(v)' /\ Progress(v)'
    <3>1. \A e \in Held(v) : e \in Event /\ e # c
      BY <2>6, <2>1, <1>e DEF Held, TypeOK
    <3> QED BY <1>9, <2>2, <2>6, <3>1, <1>a, OthersKept DEF Workers
  <2>7. Events'
    <3>1. ASSUME NEW e \in Event, e # c PROVE Counted(e)'
      BY <1>9, <2>2, <3>1, <1>a DEF Events, Counted
    <3>2. ASSUME NEW e \in Event, e = c PROVE Counted(e)'
      BY <1>9, <2>1, <2>2, <3>2 DEF Counted
    <3> QED BY <3>1, <3>2 DEF Events
  <2> QED BY <1>9, <2>4, <2>5, <2>6, <2>7, <1>c DEF Workers
<1>10. ASSUME NEW w \in Worker, StoreNext(w) PROVE Goal
  <2>1. /\ pc'[w] = "creating" /\ pos'[w] = pos[w] + 1
        /\ \A v \in Worker : v # w => pos'[v] = pos[v] /\ pc'[v] = pc[v]
    BY <1>10 DEF StoreNext, AtTarget, TypeOK
  <2> QED BY <1>10, <2>1, <1>9 DEF StoreNext
\* The loop gives the event up, nothing stored.
<1>11. ASSUME NEW w \in Worker, AtTarget(w), pc' = [pc EXCEPT ![w] = "failing"],
              UNCHANGED <<tables, loop>>
       PROVE  Goal
  <2>1. Holding(w) /\ Progress(w) /\ pc[w] = "creating" /\ pc'[w] = "failing"
    BY <1>11, <1>a DEF Workers, AtTarget, TypeOK
  <2>2. Holding(w)' /\ Progress(w)'
    BY <1>11, <2>1 DEF Holding, Progress, AtEvent, tables, loop
  <2>3. ASSUME NEW v \in Worker, v # w PROVE Holding(v)' /\ Progress(v)'
    BY <1>11, <2>3, <1>a, OthersKept DEF Workers, tables, loop, TypeOK
  <2> QED BY <1>11, <2>2, <2>3, <1>c, <1>d DEF Workers, loop
<1>12. ASSUME NEW w \in Worker, RejectNext(w) PROVE Goal
  BY <1>12, <1>11 DEF RejectNext
<1>13. ASSUME NEW w \in Worker, StoreFails(w) PROVE Goal
  <2>1. CASE UNCHANGED stored
    BY <1>13, <2>1, <1>11 DEF StoreFails, tables, loop
  <2>2. CASE Insert(cur[w], pos[w])
    <3>1. /\ pc'[w] = "failing"
          /\ \A v \in Worker : v # w => pos'[v] = pos[v] /\ pc'[v] = pc[v]
      BY <1>13 DEF StoreFails, TypeOK, loop
    <3> QED BY <1>13, <2>2, <3>1, <1>9 DEF StoreFails, loop
  <2> QED BY <1>13, <2>1, <2>2 DEF StoreFails
<1>14. ASSUME NEW w \in Worker, FinishEvent(w) \/ SetFailed(w) \/ SetFailedLost(w) PROVE Goal
  <2>1. /\ AtEvent(w) /\ Leave(w) /\ UNCHANGED <<lock, stored>>
        /\ \/ UNCHANGED status
           \/ status' = [status EXCEPT ![cur[w]] = "failed"]
    BY <1>14 DEF FinishEvent, SetFailed, SetFailedLost, AtEvent, tables
  <2>2. Holding(w) /\ Progress(w) /\ cur[w] \in todo[w] /\ cur[w] \in Event
    BY <2>1, <1>a DEF Workers, Holding, TypeOK
  <2>3. \A e \in Event : e # cur[w] => status'[e] = status[e]
    BY <2>1 DEF TypeOK
  <2>4. /\ Holding(w)' /\ Progress(w)'
        /\ \A v \in Worker : Held(v)' \subseteq Held(v)
        /\ \A v \in Worker \ {w} : /\ todo'[v] = todo[v]
                                   /\ cur'[v] = cur[v]
                                   /\ pos'[v] = pos[v]
                                   /\ pc'[v] = pc[v]
    <3>1. \A e \in todo[w] \ {cur[w]} : status'[e] = status[e]
      BY <2>3 DEF TypeOK
    <3> QED BY <2>1, <2>2, <3>1, LeaveKept
  <2>5. ASSUME NEW v \in Worker, v # w PROVE Holding(v)' /\ Progress(v)'
    <3>1. \A e \in Held(v) : e \in Event /\ e # cur[w]
      BY <2>2, <2>5, <1>e DEF Held, TypeOK
    <3> QED BY <2>1, <2>3, <2>4, <2>5, <3>1, <1>a, OthersKept DEF Workers
  <2>6. Events'
    <3>1. ASSUME NEW e \in Event PROVE Counted(e)'
      <4>1. status'[e] \in {"absent", "accepted"} => status[e] \in {"absent", "accepted"}
        BY <2>1 DEF TypeOK
      <4> QED BY <2>1, <4>1, <1>a DEF Events, Counted
    <3> QED BY <3>1 DEF Events
  <2> QED BY <2>4, <2>5, <2>6, <1>a, ExclusiveKept DEF Workers
<1>15. ASSUME NEW w \in Worker, LoopStops(w) \/ Restart(w) PROVE Goal
  <2>1. /\ UNCHANGED <<tables, loop>>
        /\ pc[w] \in {"idle", "down"} /\ pc'[w] \in {"stopped", "idle"}
        /\ \A v \in Worker : v # w => pc'[v] = pc[v]
    BY <1>15 DEF LoopStops, Restart, TypeOK
  <2>2. Holding(w)' /\ Progress(w)'
    BY <2>1, <1>a DEF Workers, Holding, Progress, AtEvent, tables, loop
  <2>3. ASSUME NEW v \in Worker, v # w PROVE Holding(v)' /\ Progress(v)'
    BY <2>1, <2>3, <1>a, OthersKept DEF Workers, tables, loop
  <2> QED BY <2>1, <2>2, <2>3, <1>c, <1>d DEF Workers, loop
<1>16. ASSUME UNCHANGED <<tables, pc, loop>> PROVE Goal
  <2>1. ASSUME NEW v \in Worker PROVE Holding(v)' /\ Progress(v)'
    BY <1>16, <1>a, OthersKept DEF Workers, tables, loop
  <2> QED BY <1>16, <2>1, <1>c, <1>d DEF Workers, loop
<1>17. ASSUME NEW w \in Worker, Interrupt(w) PROVE Goal
  BY <1>17, <1>16 DEF Interrupt
<1>18. CASE UNCHANGED vars
  BY <1>18, <1>16 DEF vars, tables, loop
<1> HIDE DEF Goal
<1> QED
  BY <1>1, <1>2, <1>5, <1>6, <1>7, <1>8, <1>10, <1>12, <1>13, <1>14, <1>15, <1>17, <1>18
  DEF Next, LoopStep, IdleTick

\* No recipient of an event gets a second notification, for any number of
\* workers that compete, fail, stop, crash and start again.
THEOREM NoDuplicates == Spec => []NoDuplicateFanOut
<1>1. FanOutInv => NoDuplicateFanOut
  BY DEF FanOutInv, Counted, NoDuplicateFanOut
<1> QED
  BY <1>1, InitTyped, StepTyped, InitFanOut, StepFanOut, PTL DEF Spec

---------------------------------------------------------------------------
(* Refinement *)

\* A commit claims the rows the statement has locked, or none.
LEMMA CommitRefines ==
  ASSUME TypeOK, FanOutInv, NEW w \in Worker, Commit(w), UNCHANGED stored
  PROVE  Abstract!Next
<1>1. lock[w] \in SUBSET Event /\ \A e \in lock[w] : status[e] = "accepted"
  BY DEF TypeOK, FanOutInv, Holding
<1>2. Abstract!Claim(lock[w])
  BY <1>1 DEF Commit, Abstract!Claim
<1> QED BY <1>1, <1>2 DEF Abstract!Next

\* Storing the target the loop is at is the abstract step that stores it.
LEMMA InsertRefines ==
  ASSUME TypeOK, FanOutInv, NEW w \in Worker, AtTarget(w), Insert(cur[w], pos[w]),
         UNCHANGED status
  PROVE  Abstract!Next
<1> DEFINE e == cur[w]
           k == pos[w]
<1>1. /\ e \in Event /\ status[e] = "processing" /\ k \in 1 .. Targets[e]
      /\ \A j \in 1 .. Targets[e] : stored[e][j] = IF j < k THEN 1 ELSE 0
  BY AtTargetFacts
<1>2. stored[e][k] = 0 /\ \A j \in 1 .. k - 1 : stored[e][j] = 1
  BY <1>1, ConstantsAssumption
<1>3. stored' = [stored EXCEPT ![e] = [stored[e] EXCEPT ![k] = 1]]
  BY <1>2 DEF Insert
<1>4. Abstract!Store(e, k)
  BY <1>1, <1>2, <1>3 DEF Abstract!Store
<1> QED BY <1>1, <1>4 DEF Abstract!Next

LEMMA StepRefines ==
  ASSUME TypeOK, FanOutInv, [Next]_vars
  PROVE  Abstract!Next \/ UNCHANGED tables
<1> DEFINE Goal == Abstract!Next \/ UNCHANGED tables
<1>1. ASSUME NEW e \in Event, Submit(e) PROVE Goal
  BY <1>1 DEF Submit, Abstract!Next, Abstract!Submit
<1>2. ASSUME NEW w \in Worker, ClaimCommit(w) \/ ClaimFails(w) \/ Crash(w) PROVE Goal
  <2>1. UNCHANGED stored /\ (Commit(w) \/ UNCHANGED status)
    BY <1>2 DEF ClaimCommit, ClaimFails, Crash
  <2> QED BY <2>1, CommitRefines DEF tables
<1>3. ASSUME NEW w \in Worker, StoreNext(w) \/ StoreFails(w) PROVE Goal
  <2>1. /\ AtTarget(w) /\ UNCHANGED status
        /\ Insert(cur[w], pos[w]) \/ UNCHANGED stored
    BY <1>3 DEF StoreNext, StoreFails
  <2> QED BY <2>1, InsertRefines DEF tables
<1>4. ASSUME NEW w \in Worker, SetFailed(w) PROVE Goal
  <2>1. cur[w] \in Event /\ status[cur[w]] = "processing"
    BY <1>4 DEF SetFailed, FanOutInv, Holding, AtEvent, TypeOK
  <2>2. Abstract!Fail(cur[w])
    BY <1>4, <2>1 DEF SetFailed, Abstract!Fail
  <2> QED BY <2>1, <2>2 DEF Abstract!Next
<1>5. ASSUME UNCHANGED tables PROVE Goal
  BY <1>5
<1> HIDE DEF Goal
<1>6. Goal
  BY <1>1, <1>2, <1>3, <1>4, <1>5
  DEF Next, LoopStep, vars, tables, IdleTick, ClaimLock, TakeEvent, RejectNext, FinishEvent,
      SetFailedLost, Interrupt, LoopStops, Exit, Restart
<1> QED BY <1>6 DEF Goal

\* The loops of any number of workers are behaviours of the abstract fan-out:
\* in order, none twice, none before the claim or after the failure.
THEOREM Refinement == Spec => ImplementsFanOut
<1>1. Init => Abstract!Init
  BY DEF Init, Abstract!Init
<1>2. TypeOK /\ FanOutInv /\ [Next]_vars => [Abstract!Next]_tables
  BY StepRefines
<1> QED
  BY <1>1, <1>2, InitTyped, StepTyped, InitFanOut, StepFanOut, PTL
  DEF Spec, ImplementsFanOut, Abstract!Spec, Abstract!vars, tables

---------------------------------------------------------------------------
(* What a fault is needed for *)

\* As long as nothing has failed, been told to stop or died, an event is
\* marked failed only if it is malformed, and one that is 'processing' is
\* still in a worker's hands or fanned out whole.  There is no other way to
\* lose an event half-way, whatever workers compete for it.
OnlyFaultsStrand ==
  faults = 0 => \A e \in Event :
    /\ status[e] = "failed" => Malformed(e)
    /\ status[e] = "processing" => \/ \E w \in Worker : e \in todo[w]
                                   \/ FannedOut(e) /\ ~Malformed(e)

\* A loop without a fault has found its event well formed so far, or not.
Undisturbed(w) ==
  /\ ~canceled[w]
  /\ pc[w] = "failing" => Malformed(cur[w])
  /\ pc[w] = "creating" =>
       cur[w] \notin Unreadable /\ \A k \in 1 .. pos[w] - 1 : <<cur[w], k>> \notin Rejected

StrandInv == OnlyFaultsStrand /\ (faults = 0 => \A w \in Worker : Undisturbed(w))

\* An injected fault is counted.
LEMMA FaultFree ==
  ASSUME TypeOK, [Next]_vars, faults' = 0
  PROVE  /\ faults = 0
         /\ \A w \in Worker : ~Interrupt(w) /\ ~Crash(w)
         /\ \A w \in Worker : ~canceled[w] => ~CallFails(w)
<1>1. faults \in Nat
  BY DEF TypeOK
<1>2. \A kind : ~Inject(kind)
  BY <1>1 DEF Inject
<1>3. faults' # faults => \E w \in Worker : CallFails(w) \/ Interrupt(w) \/ Crash(w)
  BY DEF Next, LoopStep, Submit, IdleTick, ClaimLock, ClaimCommit, ClaimFails, TakeEvent,
     StoreNext, RejectNext, StoreFails, FinishEvent, SetFailed, SetFailedLost, LoopStops,
     Exit, Restart, vars
<1> QED BY <1>2, <1>3 DEF CallFails, Interrupt, Crash

\* An event whose targets have all been passed is whole.
LEMMA PassedIsWhole ==
  ASSUME TypeOK, FanOutInv, NEW w \in Worker, pc[w] = "creating", ~AtTarget(w), Undisturbed(w)
  PROVE  FannedOut(cur[w]) /\ ~Malformed(cur[w])
<1>1. cur[w] \in Event /\ pos[w] \in Nat \ {0} /\ Targets[cur[w]] \in Nat
  BY ConstantsAssumption DEF TypeOK, FanOutInv, Holding, AtEvent
<1>2. \A k \in 1 .. Targets[cur[w]] : k < pos[w]
  BY <1>1 DEF AtTarget
<1>3. FannedOut(cur[w])
  BY <1>2 DEF FanOutInv, Progress, FannedOut
<1>4. ~Malformed(cur[w])
  <2>1. \A k \in 1 .. Targets[cur[w]] : k \in 1 .. pos[w] - 1
    BY <1>1, <1>2
  <2>2. cur[w] \notin Unreadable /\ \A k \in 1 .. pos[w] - 1 : <<cur[w], k>> \notin Rejected
    BY DEF Undisturbed
  <2> QED BY <2>1, <2>2 DEF Malformed
<1> QED BY <1>3, <1>4

LEMMA StepStrand == TypeOK /\ FanOutInv /\ StrandInv /\ [Next]_vars => StrandInv'
<1> SUFFICES ASSUME TypeOK, FanOutInv, StrandInv, [Next]_vars, faults' = 0
             PROVE  /\ \A w \in Worker : Undisturbed(w)'
                    /\ \A e \in Event :
                         /\ status'[e] = "failed" => Malformed(e)
                         /\ status'[e] = "processing" => \/ \E w \in Worker : e \in todo'[w]
                                                         \/ FannedOut(e)' /\ ~Malformed(e)
  BY DEF StrandInv, OnlyFaultsStrand, Malformed
<1> DEFINE Good(e) == /\ status[e] = "failed" => Malformed(e)
                      /\ status[e] = "processing" => \/ \E w \in Worker : e \in todo[w]
                                                     \/ FannedOut(e) /\ ~Malformed(e)
           Goal == (\A w \in Worker : Undisturbed(w)') /\ (\A e \in Event : Good(e)')
<1>b. SUFFICES Goal
  BY DEF Malformed
<1>a. /\ faults = 0 /\ \A w \in Worker : Undisturbed(w) /\ ~canceled[w]
      /\ \A e \in Event : Good(e)
      /\ \A w \in Worker : ~Interrupt(w) /\ ~Crash(w) /\ ~CallFails(w)
  BY FaultFree DEF StrandInv, OnlyFaultsStrand, Undisturbed
<1> HIDE DEF Good
<1>0. ASSUME NEW v \in Worker, pc'[v] = pc[v], cur'[v] = cur[v], pos'[v] = pos[v],
             canceled'[v] = canceled[v]
      PROVE  Undisturbed(v)'
  BY <1>0, <1>a DEF Undisturbed, Malformed
<1>1. ASSUME NEW e \in Event, Submit(e) PROVE Goal
  <2>1. \A d \in Event : Good(d)'
    BY <1>1, <1>a DEF Submit, Good, FannedOut, Malformed, loop, TypeOK
  <2> QED BY <1>0, <1>1, <2>1 DEF Submit, loop
<1>2. ASSUME UNCHANGED <<tables, todo>> PROVE \A e \in Event : Good(e)'
  BY <1>2, <1>a DEF Good, FannedOut, Malformed, tables
<1>3. ASSUME NEW w \in Worker, ClaimLock(w) PROVE Goal
  <2>1. ASSUME NEW v \in Worker PROVE Undisturbed(v)'
    BY <1>3, <1>a DEF ClaimLock, Undisturbed, Malformed, TypeOK
  <2> QED BY <1>2, <1>3, <2>1 DEF ClaimLock
<1>4. ASSUME NEW w \in Worker, ClaimCommit(w) PROVE Goal
  <2>1. ASSUME NEW v \in Worker PROVE Undisturbed(v)'
    BY <1>4, <1>a DEF ClaimCommit, Undisturbed, Malformed, TypeOK
  <2>2. todo[w] = {}
    BY <1>4 DEF FanOutInv, Holding, ClaimCommit
  <2>3. ASSUME NEW e \in Event PROVE Good(e)'
    <3>1. /\ todo'[w] = lock[w] /\ \A v \in Worker : v # w => todo'[v] = todo[v]
          /\ status'[e] = (IF e \in lock[w] THEN "processing" ELSE status[e])
          /\ UNCHANGED stored
      BY <1>4 DEF ClaimCommit, Commit, TypeOK
    <3> QED BY <1>a, <2>2, <3>1 DEF Good, FannedOut, Malformed
  <2> QED BY <2>1, <2>3
<1>5. ASSUME NEW w \in Worker, TakeEvent(w) PROVE Goal
  <2>1. PICK e \in todo[w] :
          /\ cur' = [cur EXCEPT ![w] = e]
          /\ pos' = [pos EXCEPT ![w] = 1]
          /\ pc' = [pc EXCEPT ![w] = IF e \in Unreadable THEN "failing" ELSE "creating"]
    BY <1>5 DEF TakeEvent
  <2>2. Undisturbed(w)'
    BY <1>5, <1>a, <2>1 DEF TakeEvent, Undisturbed, Malformed, TypeOK
  <2>3. ASSUME NEW v \in Worker, v # w PROVE Undisturbed(v)'
    BY <1>5, <1>0, <2>1, <2>3 DEF TakeEvent, TypeOK
  <2> QED BY <1>2, <1>5, <2>2, <2>3 DEF TakeEvent
<1>6. ASSUME NEW w \in Worker, StoreNext(w) PROVE Goal
  <2>1. /\ cur[w] \in todo[w] /\ cur[w] \in Event /\ pos[w] \in Nat \ {0}
        /\ \A e \in Event : e # cur[w] => stored'[e] = stored[e]
        /\ UNCHANGED <<status, todo, cur, pc, canceled>> /\ pos' = [pos EXCEPT ![w] = @ + 1]
    BY <1>6, AtTargetFacts, InsertKept DEF StoreNext, TypeOK
  <2>2. Undisturbed(w)'
    <3>1. pos'[w] = pos[w] + 1 /\ <<cur[w], pos[w]>> \notin Rejected /\ pc[w] = "creating"
      BY <1>6, <2>1 DEF StoreNext, TypeOK, AtTarget
    <3>2. \A k \in 1 .. pos'[w] - 1 : k = pos[w] \/ k \in 1 .. pos[w] - 1
      BY <2>1, <3>1
    <3> QED BY <1>a, <2>1, <3>1, <3>2 DEF Undisturbed
  <2>3. ASSUME NEW v \in Worker, v # w PROVE Undisturbed(v)'
    BY <1>0, <2>1, <2>3
  <2>4. ASSUME NEW e \in Event PROVE Good(e)'
    BY <1>a, <2>1 DEF Good, FannedOut, Malformed
  <2> QED BY <2>2, <2>3, <2>4
<1>7. ASSUME NEW w \in Worker, RejectNext(w) PROVE Goal
  <2>1. Malformed(cur[w])
    BY <1>7, AtTargetFacts DEF RejectNext, Malformed
  <2>2. ASSUME NEW v \in Worker PROVE Undisturbed(v)'
    BY <1>7, <1>a, <2>1 DEF RejectNext, Undisturbed, Malformed, loop, TypeOK
  <2> QED BY <1>2, <1>7, <2>2 DEF RejectNext, loop
\* The event the loop leaves is whole, or marked as failed.
<1>8. ASSUME NEW w \in Worker, FinishEvent(w) \/ SetFailed(w) PROVE Goal
  <2>1. /\ Leave(w) /\ UNCHANGED <<stored, canceled>> /\ cur[w] \in Event
        /\ \/ UNCHANGED status /\ FannedOut(cur[w]) /\ ~Malformed(cur[w])
           \/ status' = [status EXCEPT ![cur[w]] = "failed"] /\ Malformed(cur[w])
    BY <1>8, <1>a, PassedIsWhole
    DEF FinishEvent, SetFailed, tables, Undisturbed, FanOutInv, Holding, AtEvent, TypeOK
  <2>2. /\ todo'[w] = todo[w] \ {cur[w]} /\ pc'[w] \in {"idle", "next"}
        /\ \A v \in Worker : v # w => /\ todo'[v] = todo[v] /\ cur'[v] = cur[v]
                                     /\ pos'[v] = pos[v] /\ pc'[v] = pc[v]
    BY <2>1 DEF Leave, TypeOK
  <2>3. ASSUME NEW v \in Worker PROVE Undisturbed(v)'
    BY <1>0, <1>a, <2>1, <2>2 DEF Undisturbed
  <2>4. ASSUME NEW e \in Event PROVE Good(e)'
    <3>1. CASE e = cur[w]
      BY <1>a, <2>1, <3>1 DEF Good, FannedOut, Malformed, TypeOK
    <3>2. CASE e # cur[w]
      <4>1. status'[e] = status[e] /\ stored'[e] = stored[e]
        BY <2>1, <3>2 DEF TypeOK
      <4>2. \A v \in Worker : e \in todo[v] => e \in todo'[v]
        BY <2>2, <3>2
      <4> QED BY <1>a, <4>1, <4>2 DEF Good, FannedOut, Malformed
    <3> QED BY <3>1, <3>2
  <2> QED BY <2>3, <2>4
<1>9. ASSUME NEW w \in Worker, ~ClaimFails(w), ~StoreFails(w), ~SetFailedLost(w), LoopStep(w)
      PROVE  Goal
  <2>1. CASE LoopStops(w) \/ Restart(w)
    <3>1. ASSUME NEW v \in Worker PROVE Undisturbed(v)'
      BY <2>1, <1>a DEF LoopStops, Restart, Undisturbed, Malformed, loop, TypeOK
    <3> QED BY <1>2, <2>1, <3>1 DEF LoopStops, Restart, loop
  <2>2. CASE Exit(w)
    <3>1. ASSUME NEW v \in Worker PROVE Undisturbed(v)'
      BY <2>2, <1>a DEF Exit, Gone, Undisturbed, Malformed, TypeOK
    <3>2. todo' = todo
      <4>1. todo[w] = {}
        BY <2>2 DEF Exit, FanOutInv, Holding
      <4>2. todo' = [todo EXCEPT ![w] = {}] /\ todo \in [Worker -> SUBSET Event]
        BY <2>2 DEF Exit, Gone, TypeOK
      <4> QED BY <4>1, <4>2
    <3> QED BY <1>2, <2>2, <3>1, <3>2 DEF Exit
  <2>3. CASE IdleTick(w)
    BY <1>0, <1>2, <2>3 DEF IdleTick, vars, tables
  <2> HIDE DEF Goal
  <2> QED BY <1>3, <1>4, <1>5, <1>6, <1>7, <1>8, <1>9, <2>1, <2>2, <2>3 DEF LoopStep
<1>10. CASE UNCHANGED vars
  BY <1>0, <1>2, <1>10 DEF vars, tables
<1>11. \A w \in Worker : ~ClaimFails(w) /\ ~StoreFails(w) /\ ~SetFailedLost(w)
  BY <1>a DEF ClaimFails, StoreFails, SetFailedLost
<1> HIDE DEF Goal
<1> QED BY <1>1, <1>9, <1>10, <1>11, <1>a DEF Next

\* The safety that AcceptedIsFannedOut rests on, for any number of workers.
THEOREM OnlyFaults == Spec => []OnlyFaultsStrand
<1>1. Init => StrandInv
  BY DEF Init, StrandInv, OnlyFaultsStrand, Undisturbed
<1>2. StrandInv => OnlyFaultsStrand
  BY DEF StrandInv
<1> QED
  BY <1>1, <1>2, InitTyped, StepTyped, InitFanOut, StepFanOut, StepStrand, PTL DEF Spec

===========================================================================
