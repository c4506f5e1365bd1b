---------------------------- MODULE ProgramProofs ----------------------------
(***************************************************************************)
(* Machine-checked proofs about the programs of cmd/: the migration runner *)
(* (Migrations), for any number of runners, then the API and the worker    *)
(* from their configuration to their exit (ApiProcess), for any clients,   *)
(* environments and timeouts.                                              *)
(***************************************************************************)
EXTENDS Migrations, ApiProcess, TLAPS


---------------------------------------------------------------------------
(* Migrations: type correctness *)

\* A ledger that is not empty has a latest row.
LEMMA LastIsLatest ==
  ASSUME TypeOK, Ledger # {}
  PROVE  Last \in Ledger /\ \A w \in Ledger : appliedAt[Last] >= appliedAt[w]
<1>1. PICK v \in Version : \A w \in Version : appliedAt[v] >= appliedAt[w]
  <2>1. Version = {1, 2, 3, 4, 5, 6, 7, 8}
    BY DEF Version
  <2> DEFINE t(v) == appliedAt[v]
  <2>2. /\ t(1) \in Nat /\ t(2) \in Nat /\ t(3) \in Nat /\ t(4) \in Nat
        /\ t(5) \in Nat /\ t(6) \in Nat /\ t(7) \in Nat /\ t(8) \in Nat
    BY <2>1 DEF TypeOK
  <2>3. \E v \in {1, 2, 3, 4, 5, 6, 7, 8} : \A w \in {1, 2, 3, 4, 5, 6, 7, 8} : t(v) >= t(w)
    <3> HIDE DEF t
    <3> QED BY <2>2
  <2> QED BY <2>1, <2>3
<1>2. v \in Ledger
  <2>1. PICK w \in Ledger : TRUE
    OBVIOUS
  <2>2. w \in Version /\ appliedAt[w] > 0
    BY <2>1 DEF Ledger, TypeOK
  <2> QED BY <1>1, <2>2 DEF Ledger, TypeOK
<1>3. \E u \in Ledger : \A w \in Ledger : appliedAt[u] >= appliedAt[w]
  BY <1>1, <1>2 DEF Ledger
<1> QED BY <1>3 DEF Last

LEMMA NowIsLater ==
  ASSUME TypeOK
  PROVE  Now \in Nat \ {0} /\ \A w \in Ledger : Now > appliedAt[w]
<1>1. CASE Ledger = {}
  BY <1>1 DEF Now
<1>2. CASE Ledger # {}
  <2>1. Last \in Version /\ \A w \in Ledger : w \in Version
    BY <1>2, LastIsLatest DEF Ledger
  <2> QED BY <1>2, <2>1, LastIsLatest DEF Now, TypeOK
<1> QED BY <1>1, <1>2

LEMMA TypeInductive == TypeOK /\ [Next]_vars => TypeOK'
<1> SUFFICES ASSUME TypeOK, [Next]_vars PROVE TypeOK'
  OBVIOUS
<1>1. CASE UNCHANGED vars
  BY <1>1 DEF vars, TypeOK
<1>2. ASSUME NEW r \in Runner, StartUp(r) PROVE TypeOK'
  BY <1>2 DEF StartUp, TypeOK, Ledger
<1>3. ASSUME NEW r \in Runner, Skip(r) PROVE TypeOK'
  <2>1. at[r] \in 1 .. 8
    BY <1>3 DEF Skip, TypeOK, Version
  <2> QED BY <1>3, <2>1 DEF Skip, TypeOK
<1>4. ASSUME NEW r \in Runner, Apply(r) \/ ApplyLost(r) PROVE TypeOK'
  <2>1. at[r] \in Version
    BY <1>4 DEF Apply, ApplyLost, Commits, Pending
  <2>2. schema' \subseteq Version /\ appliedAt' \in [Version -> Nat]
    BY <1>4, <2>1, NowIsLater DEF Apply, ApplyLost, Commits, TypeOK
  <2>3. CASE Apply(r)
    BY <2>1, <2>2, <2>3 DEF Apply, TypeOK, Version
  <2>4. CASE ApplyLost(r)
    BY <2>2, <2>4 DEF ApplyLost, Stop, TypeOK
  <2> QED BY <1>4, <2>3, <2>4
<1>5. ASSUME NEW r \in Runner, ApplyFails(r) \/ UpReturns(r) \/ RollBackFails(r) PROVE TypeOK'
  BY <1>5 DEF ApplyFails, UpReturns, RollBackFails, Stop, TypeOK
<1>6. ASSUME NEW r \in Runner, StartDown(r) PROVE TypeOK'
  <2>1. Last \in 1 .. 9
    BY <1>6, LastIsLatest DEF StartDown, Version, Ledger
  <2> QED BY <1>6, <2>1 DEF StartDown, TypeOK
<1>7. ASSUME NEW r \in Runner, RollBack(r) PROVE TypeOK'
  BY <1>7 DEF RollBack, Dropped, Forgotten, Stop, TypeOK
<1> QED BY <1>1, <1>2, <1>3, <1>4, <1>5, <1>6, <1>7 DEF Next

\* What a committed transaction, and a rollback, do to the ledger.
LEMMA CommitAdds ==
  ASSUME TypeOK, NEW r \in Runner, Commits(r)
  PROVE  /\ at[r] \in Version \ loaded[r] /\ pc[r] = "up"
         /\ Ledger' = Ledger \cup {at[r]}
         /\ schema' = schema \cup {at[r]}
         /\ \A v \in Ledger : appliedAt'[v] = appliedAt[v]
         /\ appliedAt'[at[r]] = Now
<1>1. at[r] \in Version \ loaded[r] /\ at[r] \notin Ledger
  BY DEF Commits, Pending
<1>2. /\ appliedAt'[at[r]] = Now
      /\ \A v \in Version : v # at[r] => appliedAt'[v] = appliedAt[v]
  BY <1>1 DEF Commits, TypeOK
<1>3. Ledger' = Ledger \cup {at[r]}
  BY <1>1, <1>2, NowIsLater DEF Ledger
<1> QED BY <1>1, <1>2, <1>3 DEF Commits, Pending, Ledger

LEMMA RollBackRemoves ==
  ASSUME TypeOK, NEW r \in Runner, RollBack(r), at[r] \in Version
  PROVE  /\ Ledger' = Ledger \ {at[r]}
         /\ \A v \in Version : v # at[r] => appliedAt'[v] = appliedAt[v]
BY DEF RollBack, Forgotten, Ledger, TypeOK

---------------------------------------------------------------------------
(* The inductive invariant *)

\* The ledger is 001 up to some version, each applied after the one before;
\* the schema is what it says, and whatsapp remains only with its type.
LedgerSound ==
  /\ NoGaps
  /\ LedgerMatches
  /\ 7 \in schema => 2 \in schema
  /\ \A v \in Ledger : appliedAt[v] = v

\* A runner going up has passed only versions that are in the ledger; what a
\* runner going down has read is still the last, for it is alone.
Fresh(r) ==
  /\ pc[r] = "up" => loaded[r] \subseteq Ledger
  /\ pc[r] = "up" => \A v \in Version : v < at[r] => v \in Ledger
  /\ pc[r] = "down" => at[r] \in Ledger /\ \A v \in Ledger : v <= at[r]
  /\ pc[r] = "down" => \A q \in Runner : q # r => pc[q] = "idle"

MigrateInv == TypeOK /\ LedgerSound /\ \A r \in Runner : Fresh(r)

LEMMA NothingWritten ==
  ASSUME LedgerSound, schema' = schema, appliedAt' = appliedAt
  PROVE  LedgerSound' /\ Ledger' = Ledger
BY DEF LedgerSound, NoGaps, LedgerMatches, Ledger

\* The next version is applied right after the one below it.
LEMMA NextIsNext ==
  ASSUME TypeOK, LedgerSound, NEW v \in Version, v \notin Ledger,
         \A w \in Version : w < v => w \in Ledger
  PROVE  Now = v
<1>1. \A w \in Ledger : w \in Version /\ w < v
  BY DEF LedgerSound, NoGaps, Ledger, Version
<1>2. CASE Ledger = {}
  BY <1>2 DEF Now, Version
<1>3. CASE Ledger # {}
  <2>1. Last \in Ledger /\ \A w \in Ledger : appliedAt[Last] >= appliedAt[w]
    BY <1>3, LastIsLatest
  <2>2. \A w \in Ledger : appliedAt[w] = w
    BY DEF LedgerSound
  <2>3. v - 1 \in Ledger
    BY <1>1, <2>1 DEF Version
  <2>4. Last = v - 1
    BY <1>1, <2>1, <2>2, <2>3 DEF Version
  <2> QED BY <1>3, <2>2, <2>3, <2>4 DEF Now, Version
<1> QED BY <1>2, <1>3

LEMMA StepMigrate ==
  ASSUME DownsAlone, MigrateInv, [Next]_vars
  PROVE  MigrateInv'
<1>a. TypeOK /\ TypeOK' /\ LedgerSound
  BY TypeInductive DEF MigrateInv
<1>b. \A r \in Runner : at[r] \in 1 .. 9 /\ Fresh(r)
  BY DEF MigrateInv, TypeOK
<1>c. SUFFICES LedgerSound' /\ \A q \in Runner : Fresh(q)'
  BY <1>a DEF MigrateInv
<1>1. CASE UNCHANGED vars
  BY <1>1, <1>a, <1>b, NothingWritten DEF vars, Fresh
<1>3. ASSUME NEW r \in Runner, StartUp(r) PROVE LedgerSound' /\ \A q \in Runner : Fresh(q)'
  <2>1. LedgerSound' /\ Ledger' = Ledger
    BY <1>3, <1>a, NothingWritten DEF StartUp
  <2>2. /\ pc'[r] = "up" /\ loaded'[r] = Ledger /\ at'[r] = 1
        /\ \A q \in Runner : pc[q] # "down" /\ pc'[q] # "down"
        /\ \A q \in Runner : q # r => pc'[q] = pc[q] /\ loaded'[q] = loaded[q] /\ at'[q] = at[q]
    BY <1>3, <1>a DEF StartUp, TypeOK
  <2> QED BY <1>b, <2>1, <2>2 DEF Fresh, Version
<1>4. ASSUME NEW r \in Runner, Skip(r) PROVE LedgerSound' /\ \A q \in Runner : Fresh(q)'
  <2>1. LedgerSound' /\ Ledger' = Ledger
    BY <1>4, <1>a, NothingWritten DEF Skip
  <2>2. /\ pc[r] = "up" /\ pc' = pc /\ loaded' = loaded
        /\ at[r] \in loaded[r] /\ at'[r] = at[r] + 1
        /\ \A q \in Runner : q # r => at'[q] = at[q]
    BY <1>4, <1>a DEF Skip, TypeOK
  <2>3. \A v \in Version : v < at[r] + 1 => v \in Ledger
    BY <1>b, <2>2 DEF Fresh, Version
  <2> QED BY <1>b, <2>1, <2>2, <2>3 DEF Fresh
<1>5. ASSUME NEW r \in Runner, Commits(r), Apply(r) \/ ApplyLost(r)
      PROVE  LedgerSound' /\ \A q \in Runner : Fresh(q)'
  <2>1. /\ at[r] \in Version \ loaded[r] /\ pc[r] = "up"
        /\ Ledger' = Ledger \cup {at[r]} /\ schema' = schema \cup {at[r]}
        /\ \A v \in Ledger : appliedAt'[v] = appliedAt[v]
        /\ appliedAt'[at[r]] = Now
    BY <1>5, <1>a, CommitAdds
  <2>2. at[r] \notin Ledger /\ \A v \in Version : v < at[r] => v \in Ledger
    BY <1>5, <1>b, <2>1 DEF Commits, Fresh
  <2>3. Now = at[r]
    BY <1>a, <2>1, <2>2, NextIsNext
  <2>4. NoGaps'
    BY <1>a, <2>1, <2>2 DEF LedgerSound, NoGaps, Version
  <2>5. LedgerMatches'
    BY <1>a, <2>1 DEF LedgerSound, LedgerMatches
  <2>6. (7 \in schema => 2 \in schema)'
    <3>1. at[r] = 7 => 2 \in schema
      BY <1>a, <2>2 DEF LedgerSound, LedgerMatches, Version
    <3> QED BY <1>a, <2>1, <3>1 DEF LedgerSound
  <2>7. (\A v \in Ledger : appliedAt[v] = v)'
    BY <1>a, <2>1, <2>3 DEF LedgerSound
  <2>8. ASSUME NEW q \in Runner PROVE Fresh(q)'
    <3>1. \A p \in Runner : pc[p] # "down" /\ pc'[p] # "down"
      BY <1>5, <1>a, <1>b, <2>1 DEF Apply, ApplyLost, Stop, Fresh, TypeOK
    <3>2. \A v \in Version : v < at[r] + 1 => v \in Ledger'
      BY <2>1, <2>2 DEF Version
    <3>3. loaded' = loaded /\ (pc'[q] = "up" => pc[q] = "up")
      BY <1>5, <1>a, <2>1 DEF Apply, ApplyLost, Stop, TypeOK
    <3>4. at'[q] = at[q] \/ (q = r /\ at'[q] = at[r] + 1)
      BY <1>5, <1>a, <2>1 DEF Apply, ApplyLost, Stop, TypeOK
    <3> QED BY <1>b, <2>1, <3>1, <3>2, <3>3, <3>4 DEF Fresh
  <2> QED BY <2>4, <2>5, <2>6, <2>7, <2>8 DEF LedgerSound
<1>6. ASSUME NEW r \in Runner, ApplyFails(r) \/ UpReturns(r) \/ RollBackFails(r)
      PROVE  LedgerSound' /\ \A q \in Runner : Fresh(q)'
  <2>1. LedgerSound' /\ Ledger' = Ledger
    BY <1>6, <1>a, NothingWritten DEF ApplyFails, UpReturns, RollBackFails
  <2>2. /\ loaded' = loaded /\ at' = at
        /\ \A q \in Runner : pc'[q] \in {pc[q], "idle"}
    BY <1>6, <1>a DEF ApplyFails, UpReturns, RollBackFails, Stop, TypeOK
  <2> QED BY <1>b, <2>1, <2>2 DEF Fresh
<1>7. ASSUME NEW r \in Runner, StartDown(r) PROVE LedgerSound' /\ \A q \in Runner : Fresh(q)'
  <2>1. LedgerSound' /\ Ledger' = Ledger
    BY <1>7, <1>a, NothingWritten DEF StartDown
  <2>2. /\ at'[r] = Last
        /\ \A q \in Runner : q # r => pc'[q] = "idle"
        /\ pc'[r] = "down"
    BY <1>7, <1>a DEF StartDown, TypeOK
  <2>3. Last \in Ledger /\ \A v \in Ledger : v <= Last
    BY <1>7, <1>a, LastIsLatest DEF StartDown, LedgerSound
  <2> QED BY <2>1, <2>2, <2>3 DEF Fresh
<1>8. ASSUME NEW r \in Runner, RollBack(r) PROVE LedgerSound' /\ \A q \in Runner : Fresh(q)'
  <2>1. at[r] \in Ledger /\ at[r] \in Version /\ \A v \in Ledger : v <= at[r]
    BY <1>8, <1>b DEF RollBack, Fresh, Ledger
  <2>2. /\ Ledger' = Ledger \ {at[r]}
        /\ \A v \in Version : v # at[r] => appliedAt'[v] = appliedAt[v]
    BY <1>8, <1>a, <2>1, RollBackRemoves
  <2>3. NoGaps'
    BY <1>a, <2>1, <2>2 DEF LedgerSound, NoGaps, Ledger, Version
  <2>4. (\A v \in Ledger : appliedAt[v] = v)'
    BY <1>a, <2>2 DEF LedgerSound, Ledger
  <2>5. schema' = IF at[r] = 7 THEN schema
                  ELSE {w \in schema : w # at[r] /\ (Host(w) # at[r] \/ w = 2)}
    BY <1>8 DEF RollBack, Dropped
  <2>6. \A w \in Ledger' : w \in schema /\ w # at[r] /\ Host(w) # at[r]
    BY <1>a, <2>1, <2>2 DEF LedgerSound, LedgerMatches, Host, Ledger, Version
  <2>7. LedgerMatches'
    BY <1>a, <2>2, <2>5, <2>6 DEF LedgerSound, LedgerMatches
  <2>8. (7 \in schema => 2 \in schema)'
    <3>1. Host(7) = 2
      BY DEF Host
    <3> QED BY <1>a, <2>5, <3>1 DEF LedgerSound
  <2>9. \A q \in Runner : pc'[q] = "idle"
    BY <1>8, <1>a, <1>b DEF RollBack, Stop, Fresh, TypeOK
  <2> QED BY <2>3, <2>4, <2>7, <2>8, <2>9 DEF LedgerSound, Fresh
<1> QED BY <1>1, <1>3, <1>4, <1>5, <1>6, <1>7, <1>8 DEF Next, Apply, ApplyLost

LEMMA MigrateInvariant == ASSUME DownsAlone PROVE Spec => []MigrateInv
<1>1. Init => MigrateInv
  BY DEF Init, MigrateInv, TypeOK, LedgerSound, LedgerMatches, NoGaps, Ledger, Fresh, Version
<1>2. MigrateInv /\ [Next]_vars => MigrateInv'
  BY StepMigrate
<1> QED BY <1>1, <1>2, PTL DEF Spec

---------------------------------------------------------------------------
(* Migrations: theorems, any number of runners, downs alone *)

\* However many runners race, one that returns without an error leaves every
\* migration applied.
THEOREM Completes == ASSUME DownsAlone PROVE Spec => []UpCompletes
<1>1. MigrateInv => UpCompletes
  BY DEF MigrateInv, Fresh, UpCompletes, Ledger, Version
<1> QED BY <1>1, MigrateInvariant, PTL

\* The ledger and the schema agree after any ups and downs.
THEOREM Matches == ASSUME DownsAlone PROVE Spec => []LedgerMatches
<1>1. MigrateInv => LedgerMatches
  BY DEF MigrateInv, LedgerSound
<1> QED BY <1>1, MigrateInvariant, PTL

\* The ledger has no gaps: what is applied is a prefix of the migrations.
THEOREM Gapless == ASSUME DownsAlone PROVE Spec => []NoGaps
<1>1. MigrateInv => NoGaps
  BY DEF MigrateInv, LedgerSound
<1> QED BY <1>1, MigrateInvariant, PTL

\* No pending up and no down is refused by the schema: each script finds its
\* host, for the ledger has no gaps, and nothing of its own.
THEOREM NothingRefused == ASSUME DownsAlone PROVE Spec => []NeverRefused
<1>1. ASSUME MigrateInv, NEW r \in Runner, Pending(r), at[r] \notin Ledger
      PROVE  UpRuns(schema, at[r])
  <2>1. at[r] \in Version /\ \A v \in Version : v < at[r] => v \in Ledger
    BY <1>1 DEF MigrateInv, Fresh, Pending
  <2>2. Ledger \subseteq schema /\ schema \subseteq Ledger \cup {7}
    BY <1>1 DEF MigrateInv, LedgerSound, LedgerMatches
  <2>3. Host(at[r]) # 0 => Host(at[r]) \in Version /\ Host(at[r]) < at[r]
    BY <2>1 DEF Host, Version
  <2>4. at[r] \in schema => at[r] \in Rerunnable
    BY <1>1, <2>2 DEF Rerunnable
  <2> QED BY <2>1, <2>2, <2>3, <2>4 DEF UpRuns
<1>2. ASSUME MigrateInv, NEW r \in Runner, pc[r] = "down"
      PROVE  DownRuns(schema, at[r])
  <2>1. at[r] \in Ledger /\ at[r] \in Version /\ \A v \in Ledger : v <= at[r]
    BY <1>2 DEF MigrateInv, Fresh, Ledger
  <2>2. /\ Ledger \subseteq schema /\ schema \subseteq Ledger \cup {7}
        /\ \A v \in Version : v < at[r] => v \in Ledger
    BY <1>2, <2>1 DEF MigrateInv, LedgerSound, LedgerMatches, NoGaps
  <2>3. at[r] \in {3, 5, 6, 8} => Host(at[r]) \in Version /\ Host(at[r]) < at[r]
    BY <2>1 DEF Host, Version
  <2> QED BY <2>1, <2>2, <2>3 DEF DownRuns
<1>3. MigrateInv => NeverRefused
  BY <1>1, <1>2 DEF NeverRefused
<1> QED BY <1>3, MigrateInvariant, PTL

---------------------------------------------------------------------------
(* ApiProcess: time goes in steps of Quantum *)

Multiple(x) == \E k \in Int : x = Quantum * k

LEMMA QuantumPositive == Quantum \in Nat /\ Quantum > 0
BY ProcessAssumption

\* One more step of time from below a multiple does not pass it.
LEMMA StepsToMultiples ==
  ASSUME NEW a \in Int, NEW b \in Int, Multiple(a), Multiple(b)
  PROVE  Multiple(a + Quantum) /\ (a < b => a + Quantum <= b)
<1>1. PICK k \in Int : a = Quantum * k
  BY DEF Multiple
<1>2. PICK j \in Int : b = Quantum * j
  BY DEF Multiple
<1>3. a + Quantum = Quantum * (k + 1)
  BY <1>1, QuantumPositive
<1>4. ASSUME a < b PROVE a + Quantum <= b
  <2>1. k < j
    <3>1. ASSUME k >= j PROVE FALSE
      <4>1. Quantum * (k - j) >= 0
        BY <3>1, QuantumPositive
      <4>2. Quantum * k - Quantum * j = Quantum * (k - j)
        BY QuantumPositive
      <4> QED BY <1>1, <1>2, <1>4, <4>1, <4>2, QuantumPositive
    <3> QED BY <3>1
  <2>2. Quantum * (j - (k + 1)) >= 0
    BY <2>1, QuantumPositive
  <2>3. Quantum * j - Quantum * (k + 1) = Quantum * (j - (k + 1))
    BY QuantumPositive
  <2> QED BY <1>2, <1>3, <2>2, <2>3, QuantumPositive
<1> QED BY <1>3, <1>4 DEF Multiple

LEMMA DividedIsMultiple ==
  ASSUME NEW a \in Int, a % Quantum = 0 PROVE Multiple(a)
<1>1. a = Quantum * (a \div Quantum) + (a % Quantum) /\ (a \div Quantum) \in Int
  BY QuantumPositive
<1> QED BY <1>1, QuantumPositive DEF Multiple

---------------------------------------------------------------------------
(* ApiProcess: the configuration *)

\* What main has seen of the environment when it serves.
Settings(c) == [f \in DOMAIN Unused |-> c[f]]

LEMMA GetenvTyped ==
  ASSUME NEW S, NEW value \in SUBSET S, NEW fallback \in S
  PROVE  Getenv(value, fallback) \in S
BY DEF Getenv

LEMMA LoadFields ==
  ASSUME NEW e
  PROVE  /\ Load(e).shutdownTimeout = Getenv(e.SHUTDOWN_TIMEOUT, 15)
         /\ Load(e).dbQueryTimeout = Getenv(e.DB_QUERY_TIMEOUT, 5)
         /\ Load(e).dbPoolMaxConns = Getenv(e.DB_POOL_MAX_CONNS, 10)
         /\ Load(e).workerProcessInterval = Getenv(e.WORKER_PROCESS_INTERVAL, 5)
         /\ Load(e).workerDeliverInterval = Getenv(e.WORKER_DELIVER_INTERVAL, 3)
         /\ Load(e).corsAllowedOrigins = e.CORS_ALLOWED_ORIGINS
BY SMT DEF Load

LEMMA SettingsTyped ==
  ASSUME NEW e \in Environments
  PROVE  /\ Settings(Load(e)) = [shutdownTimeout |-> Load(e).shutdownTimeout,
                                 dbQueryTimeout |-> Load(e).dbQueryTimeout,
                                 dbPoolMaxConns |-> Load(e).dbPoolMaxConns]
         /\ Load(e).shutdownTimeout \in Int
         /\ Load(e).dbQueryTimeout \in Int
         /\ Load(e).dbPoolMaxConns \in Int
<1>1. /\ e.SHUTDOWN_TIMEOUT \in SUBSET Int
      /\ e.DB_QUERY_TIMEOUT \in SUBSET Int
      /\ e.DB_POOL_MAX_CONNS \in SUBSET Int
  BY ProcessAssumption DEF Environment
<1>2. DOMAIN Unused = {"shutdownTimeout", "dbQueryTimeout", "dbPoolMaxConns"}
  BY DEF Unused
<1>3. Settings(Load(e)) = [shutdownTimeout |-> Load(e).shutdownTimeout,
                           dbQueryTimeout |-> Load(e).dbQueryTimeout,
                           dbPoolMaxConns |-> Load(e).dbPoolMaxConns]
  BY <1>2 DEF Settings
<1> QED BY <1>1, <1>3, LoadFields, GetenvTyped

\* A process that serves has a timeout for its queries, whatever Validate
\* overlooks.
LEMMA ValidIsTimed ==
  ASSUME NEW e \in Environments, Valid(Load(e))
  PROVE  Load(e).dbQueryTimeout > 0 /\ Multiple(Load(e).dbQueryTimeout)
BY ProcessAssumption, SettingsTyped, DividedIsMultiple DEF Valid, TimeoutValid

\* Validate and cors.New agree on the list of origins, but for their form.
LEMMA CorsPanicIsBare ==
  ASSUME NEW e \in Environments, Valid(Load(e)), CorsPanics(Load(e))
  PROVE  "bare" \in e.CORS_ALLOWED_ORIGINS
<1>1. ~(Load(e).corsAllowAllOrigins <=> Load(e).corsAllowedOrigins # {})
  BY DEF Valid, CorsValid
<1> QED BY <1>1, LoadFields DEF CorsPanics

\* The fallbacks of the intervals are positive.
LEMMA TickerPanicIsSet ==
  ASSUME NEW e \in Environments, TickerPanics(Load(e))
  PROVE  \E n \in e.WORKER_PROCESS_INTERVAL \cup e.WORKER_DELIVER_INTERVAL : n <= 0
<1>1. ASSUME NEW value, NEW fallback \in Nat \ {0}, Getenv(value, fallback) <= 0
      PROVE  \E n \in value : n <= 0
  BY <1>1 DEF Getenv
<1> QED BY <1>1, LoadFields DEF TickerPanics

---------------------------------------------------------------------------
(* ApiProcess: the inductive invariant *)

Loaded == [shutdownTimeout : Int, dbQueryTimeout : Int, dbPoolMaxConns : Int]

Phase == {"starting", "invalid", "failed", "panicked", "looping", "serving",
          "draining", "flushing", "closing", "exited"}

Stage == {"new", "auth", "reading", "store", "ping", "answered", "gone"}

ApiTypeOK ==
  /\ program \in {"api", "worker"}
  /\ phase \in Phase
  /\ phase \in {"starting", "invalid", "failed", "panicked"} => env \in Environments
  /\ cfg \in Loaded
  /\ clock \in Nat
  /\ handling \in [Request -> Stage]
  /\ call \in [Call -> {"none", "waiting", "querying"}]
  /\ age \in [Call -> Nat]
  /\ database \in {"up", "silent"}

T == cfg.dbQueryTimeout

\* A call of a submission is there exactly while it is authenticated or
\* stored, and no older than its timeout.
CallInv(r) ==
  LET c == Handler(r)
  IN  /\ handling[r] # "ping"
      /\ handling[r] = "reading" => r \in Slow
      /\ call[c] # "none" <=> handling[r] \in {"auth", "store"}
      /\ call[c] # "none" => Alive /\ age[c] <= T /\ Multiple(age[c])

\* Since the signal a submission had its two calls to make at most, the
\* second of which begins when the first one's time is over at the latest.
DrainInv(r) ==
  LET c == Handler(r)
  IN  /\ phase \in {"serving", "draining"} =>
           /\ handling[r] = "auth" => clock <= age[c]
           /\ handling[r] = "store" => clock <= age[c] + T
      /\ phase \in {"flushing", "closing"} /\ Grace > 2 * T => ~InHand(r)

ApiInv ==
  /\ ApiTypeOK
  /\ PanicsAreKnown
  /\ Alive => T > 0 /\ Multiple(T)
  /\ phase \in {"starting", "serving"} => clock = 0
  /\ phase = "starting" => \A r \in Post : handling[r] = "new"
  /\ \A r \in Post : CallInv(r)
  /\ \A r \in Post \ Slow : DrainInv(r)

LEMMA ZeroIsMultiple == Multiple(0)
<1>1. 0 = Quantum * 0
  BY QuantumPositive
<1> QED BY <1>1 DEF Multiple

LEMMA Handlers ==
  /\ \A r \in Request : Handler(r) \in Call /\ Touch(r) \in Call /\ Handler(r) # Touch(r)
  /\ \A q, r \in Request : q # r => Handler(q) # Handler(r) /\ Handler(q) # Touch(r)
BY DEF Handler, Touch, Call

LEMMA InitApi == ApiInit => ApiInv
<1> SUFFICES ASSUME ApiInit PROVE ApiInv
  OBVIOUS
<1>1. ApiTypeOK
  BY DEF ApiInit, ApiTypeOK, Phase, Stage, Loaded, Unused
<1>2. ASSUME NEW r \in Post PROVE CallInv(r) /\ DrainInv(r)
  BY Handlers DEF ApiInit, CallInv, DrainInv, Request
<1>3. phase = "starting" /\ clock = 0 /\ \A r \in Post : handling[r] = "new"
  BY DEF ApiInit, Request
<1> QED BY <1>1, <1>2, <1>3 DEF ApiInv, PanicsAreKnown, Alive

\* What the two kinds of invariants read has not changed.
LEMMA CallsKeep ==
  ASSUME ApiInv, NEW q \in Post, UNCHANGED process, handling'[q] = handling[q],
         call'[Handler(q)] = "none" <=> call[Handler(q)] = "none",
         age'[Handler(q)] = age[Handler(q)]
  PROVE  CallInv(q)' /\ (q \notin Slow => DrainInv(q)')
BY DEF ApiInv, process, CallInv, DrainInv, Alive, T, Grace, InHand, Multiple, Handler

LEMMA ProcessKeeps ==
  ASSUME ApiInv, UNCHANGED process
  PROVE  /\ PanicsAreKnown'
         /\ Alive' => T' > 0 /\ Multiple(T)'
         /\ phase' \in {"starting", "serving"} => clock' = 0
         /\ phase' \in {"starting", "invalid", "failed", "panicked"} => env' \in Environments
         /\ program' \in {"api", "worker"} /\ phase' \in Phase
         /\ cfg' \in Loaded /\ clock' \in Nat
BY DEF ApiInv, ApiTypeOK, process, PanicsAreKnown, Alive, T, Multiple

---------------------------------------------------------------------------
(* ApiProcess: the start *)

LEMMA StartKeeps == ApiInv /\ Start => ApiInv'
<1> SUFFICES ASSUME ApiInv, Start PROVE ApiInv'
  OBVIOUS
<1> DEFINE c == Load(env)
<1>a. /\ phase = "starting"
      /\ \/ ~Valid(c) /\ Dies("invalid")
         \/ Valid(c) /\ program = "api" /\ StartApi(c)
         \/ Valid(c) /\ program = "worker" /\ StartWorker(c)
  BY DEF Start
<1>b. env \in Environments /\ clock = 0 /\ \A r \in Post : handling[r] = "new"
  BY <1>a DEF ApiInv, ApiTypeOK
<1> HIDE DEF c
<1>1. UNCHANGED <<program, clock, handling, call, age, database>>
  BY <1>a DEF StartApi, StartWorker, Dies, Runs, StartsAs
<1>2. \/ /\ phase' \in {"invalid", "failed", "panicked"} /\ UNCHANGED <<env, cfg>>
         /\ phase' = "panicked" => \/ program = "api" /\ Valid(c) /\ CorsPanics(c)
                                   \/ program = "worker" /\ TickerPanics(c)
      \/ /\ phase' \in {"serving", "looping"} /\ cfg' = Settings(c) /\ Valid(c)
  <2>1. ASSUME NEW p, Dies(p) PROVE phase' = p /\ UNCHANGED <<env, cfg>>
    BY <2>1 DEF Dies, StartsAs
  <2>2. ASSUME NEW p, Runs(p, c) PROVE phase' = p /\ cfg' = Settings(c)
    BY <2>2 DEF Runs, StartsAs, Settings
  <2>3. CASE ~Valid(c) /\ Dies("invalid")
    BY <2>1, <2>3
  <2>4. CASE Valid(c) /\ program = "api" /\ StartApi(c)
    <3>1. \/ Dies("failed")
          \/ CorsPanics(c) /\ Dies("panicked")
          \/ Runs("serving", c)
      BY <2>4 DEF StartApi
    <3>2. CASE Dies("failed")
      BY <2>1, <3>2
    <3>3. CASE CorsPanics(c) /\ Dies("panicked")
      BY <2>1, <2>4, <3>3
    <3>4. CASE Runs("serving", c)
      BY <2>2, <2>4, <3>4
    <3> QED BY <3>1, <3>2, <3>3, <3>4
  <2>5. CASE Valid(c) /\ program = "worker" /\ StartWorker(c)
    <3>1. \/ Dies("failed")
          \/ TickerPanics(c) /\ Dies("panicked")
          \/ Runs("looping", c)
      BY <2>5 DEF StartWorker
    <3> QED BY <2>1, <2>2, <2>5, <3>1
  <2> QED BY <1>a, <2>3, <2>4, <2>5
<1>3. PanicsAreKnown'
  <2>1. CASE phase' = "panicked"
    BY <1>b, <1>1, <1>2, <2>1, CorsPanicIsBare, TickerPanicIsSet DEF PanicsAreKnown, c
  <2>2. CASE phase' # "panicked"
    BY <2>2 DEF PanicsAreKnown
  <2> QED BY <2>1, <2>2
<1>4. cfg' \in Loaded /\ (Alive' => T' > 0 /\ Multiple(T)')
  <2>1. CASE UNCHANGED cfg /\ phase' \in {"invalid", "failed", "panicked"}
    BY <2>1 DEF ApiInv, ApiTypeOK, Alive
  <2>2. CASE cfg' = Settings(c) /\ Valid(c)
    <3>1. cfg' \in Loaded /\ T' = c.dbQueryTimeout
      BY <1>b, <2>2, SettingsTyped DEF Loaded, T, c
    <3> QED BY <1>b, <2>2, <3>1, ValidIsTimed DEF Multiple, c
  <2> QED BY <1>2, <2>1, <2>2
<1>5. ApiTypeOK'
  BY <1>b, <1>1, <1>2, <1>4 DEF ApiInv, ApiTypeOK, Phase
<1>6. ASSUME NEW r \in Post PROVE CallInv(r)' /\ DrainInv(r)'
  BY <1>a, <1>b, <1>1, <1>2 DEF ApiInv, CallInv, DrainInv, Handler
<1> QED BY <1>b, <1>1, <1>2, <1>3, <1>4, <1>5, <1>6 DEF ApiInv

---------------------------------------------------------------------------
(* ApiProcess: calls and requests *)

LEMMA AcquireKeeps == ASSUME ApiInv, NEW c \in Call, Acquire(c) PROVE ApiInv'
<1>1. /\ UNCHANGED process /\ UNCHANGED <<handling, age, database>>
      /\ call[c] = "waiting" /\ call' = [call EXCEPT ![c] = "querying"]
  BY DEF Acquire
<1>2. ApiTypeOK'
  BY <1>1, ProcessKeeps DEF ApiInv, ApiTypeOK
<1>3. ASSUME NEW q \in Post PROVE CallInv(q)' /\ (q \notin Slow => DrainInv(q)')
  <2>1. Handler(q) \in Call
    BY Handlers DEF Request
  <2>2. call'[Handler(q)] = "none" <=> call[Handler(q)] = "none"
    BY <1>1, <2>1 DEF ApiInv, ApiTypeOK
  <2> QED BY <1>1, <2>2, CallsKeep
<1> QED BY <1>1, <1>2, <1>3, ProcessKeeps DEF ApiInv, process

LEMMA TouchEndsKeeps == ASSUME ApiInv, NEW c \in Call, TouchEnds(c) PROVE ApiInv'
<1>1. /\ UNCHANGED process /\ UNCHANGED <<handling, database>> /\ c[2] = "touch"
      /\ call' = [call EXCEPT ![c] = "none"] /\ age' = [age EXCEPT ![c] = 0]
  BY DEF TouchEnds, End
<1>2. ApiTypeOK'
  BY <1>1, ProcessKeeps DEF ApiInv, ApiTypeOK
<1>3. ASSUME NEW q \in Post PROVE CallInv(q)' /\ (q \notin Slow => DrainInv(q)')
  <2>1. Handler(q) \in Call /\ Handler(q) # c
    BY <1>1, Handlers DEF Request, Handler
  <2>2. call'[Handler(q)] = call[Handler(q)] /\ age'[Handler(q)] = age[Handler(q)]
    BY <1>1, <2>1 DEF ApiInv, ApiTypeOK
  <2> QED BY <1>1, <2>2, CallsKeep
<1> QED BY <1>1, <1>2, <1>3, ProcessKeeps DEF ApiInv, process

\* A request moves to a stage; its own calls alone may change with it.
Moves(r, stage) ==
  /\ UNCHANGED process /\ UNCHANGED database
  /\ phase # "starting" /\ stage \in Stage
  /\ handling' = [handling EXCEPT ![r] = stage]
  /\ call' \in [Call -> {"none", "waiting", "querying"}] /\ age' \in [Call -> Nat]
  /\ \A q \in Request \ {r} : /\ call'[Handler(q)] = call[Handler(q)]
                              /\ age'[Handler(q)] = age[Handler(q)]

\* The own invariants of r are all that is left to show.
LEMMA MovesKeeps ==
  ASSUME ApiInv, NEW r \in Request, NEW stage, Moves(r, stage),
         r \in Post => CallInv(r)' /\ (r \notin Slow => DrainInv(r)')
  PROVE  ApiInv'
<1>1. ApiTypeOK'
  BY ProcessKeeps DEF ApiInv, ApiTypeOK, Moves
<1>2. ASSUME NEW q \in Post, q # r PROVE CallInv(q)' /\ (q \notin Slow => DrainInv(q)')
  <2>1. /\ UNCHANGED process /\ handling'[q] = handling[q]
        /\ call'[Handler(q)] = call[Handler(q)] /\ age'[Handler(q)] = age[Handler(q)]
    BY <1>2 DEF Moves, ApiInv, ApiTypeOK, Request
  <2> QED BY <2>1, CallsKeep
<1> QED BY <1>1, <1>2, ProcessKeeps DEF ApiInv, Moves, process

LEMMA AliveStarted == Alive => phase # "starting"
BY DEF Alive

LEMMA AnsweredMoves ==
  ASSUME ApiInv, NEW r \in Request, NEW stage \in {"answered", "gone"}, Alive,
         Goes(r, stage), End(Handler(r)), UNCHANGED <<process, database>>
  PROVE  ApiInv'
<1>1. Moves(r, stage)
  BY Handlers, AliveStarted DEF ApiInv, ApiTypeOK, Goes, End, Moves, Stage
<1>2. /\ handling'[r] = stage /\ call'[Handler(r)] = "none"
  BY Handlers DEF ApiInv, ApiTypeOK, Goes, End
<1>3. CallInv(r)' /\ DrainInv(r)'
  BY <1>2 DEF CallInv, DrainInv, InHand, Handler
<1> QED BY <1>1, <1>3, MovesKeeps

LEMMA RequestKeeps ==
  ASSUME ApiInv, NEW r \in Request,
         \/ Arrive(r) \/ CallFails(r) \/ Authenticated(r) \/ Answer(r)
         \/ Receive(r) \/ HangUp(r)
  PROVE  ApiInv'
<1> USE Handlers DEF Handler
<1>1. CASE Arrive(r)
  <2> DEFINE stage == IF r \in Ping THEN "ping" ELSE "auth"
  <2>1. Moves(r, stage) /\ phase = "serving"
    BY <1>1 DEF ApiInv, ApiTypeOK, Arrive, Goes, Begin, Moves, Stage
  <2>2. ASSUME r \in Post
        PROVE  handling'[r] = "auth" /\ call'[Handler(r)] = "waiting" /\ age'[Handler(r)] = 0
    BY <1>1, <2>2, ProcessAssumption DEF ApiInv, ApiTypeOK, Arrive, Goes, Begin
  <2>3. /\ Alive' /\ phase' = "serving" /\ clock' = 0
        /\ T' > 0 /\ T' \in Int
    BY <2>1, ProcessKeeps DEF Moves, process, Alive, Loaded, T
  <2>4. r \in Post => CallInv(r)' /\ DrainInv(r)'
    BY <2>2, <2>3, ZeroIsMultiple DEF CallInv, DrainInv, Multiple
  <2> QED BY <2>1, <2>4, MovesKeeps
<1>2. CASE CallFails(r)
  BY <1>2, AnsweredMoves DEF CallFails, Answered
<1>3. CASE Authenticated(r)
  <2> DEFINE stage == IF r \in Slow THEN "reading" ELSE "store"
  <2>1. Moves(r, stage)
    BY <1>3, AliveStarted DEF ApiInv, ApiTypeOK, Authenticated, Replied, Goes, Moves, Stage
  <2>2. /\ handling'[r] = stage /\ age'[Handler(r)] = 0
        /\ call'[Handler(r)] = IF r \in Slow THEN "none" ELSE "waiting"
    BY <1>3 DEF ApiInv, ApiTypeOK, Authenticated, Goes
  <2>3. Alive' /\ T' > 0 /\ T' \in Int
    BY <1>3, ProcessKeeps DEF Authenticated, Replied, process, Alive, Loaded, T
  <2>4. r \in Post => CallInv(r)'
    BY <2>2, <2>3, ZeroIsMultiple DEF CallInv, Multiple
  <2>5. r \in Post \ Slow => DrainInv(r)'
    <3>1. ASSUME r \in Post \ Slow PROVE DrainInv(r)'
      <4>1. handling[r] = "auth" /\ call[Handler(r)] # "none"
        BY <1>3 DEF Authenticated, Replied
      <4>2. /\ CallInv(r) /\ DrainInv(r)
            /\ age[Handler(r)] \in Nat /\ clock \in Nat /\ T \in Int
        BY <3>1 DEF ApiInv, ApiTypeOK, Loaded, T
      <4>3. phase \in {"serving", "draining"} => clock <= T
        BY <4>1, <4>2 DEF CallInv, DrainInv
      <4>4. ~(phase \in {"flushing", "closing"} /\ Grace > 2 * T)
        BY <4>1, <4>2 DEF DrainInv, InHand
      <4>5. phase' = phase /\ clock' = clock /\ T' = T /\ Grace' = Grace
        BY <1>3 DEF Authenticated, process, T, Grace
      <4> QED BY <2>2, <3>1, <4>2, <4>3, <4>4, <4>5 DEF DrainInv
    <3> QED BY <3>1
  <2> QED BY <2>1, <2>4, <2>5, MovesKeeps
<1>4. CASE Answer(r)
  BY <1>4, AnsweredMoves DEF Answer, Replied, Answered
<1>5. CASE Receive(r)
  <2>1. Moves(r, "store")
    BY <1>5, AliveStarted DEF ApiInv, ApiTypeOK, Receive, Goes, Begin, Moves, Stage
  <2>2. handling'[r] = "store" /\ call'[Handler(r)] = "waiting" /\ age'[Handler(r)] = 0
    BY <1>5 DEF ApiInv, ApiTypeOK, Receive, Goes, Begin
  <2>3. Alive' /\ T' > 0 /\ T' \in Int
    BY <1>5, ProcessKeeps DEF Receive, process, Alive, Loaded, T
  <2>4. r \in Post => CallInv(r)' /\ r \in Slow
    BY <1>5, <2>2, <2>3, ZeroIsMultiple DEF ApiInv, CallInv, Receive, Multiple
  <2> QED BY <2>1, <2>4, MovesKeeps
<1>6. CASE HangUp(r)
  BY <1>6, AnsweredMoves DEF HangUp
<1> QED BY <1>1, <1>2, <1>3, <1>4, <1>5, <1>6

---------------------------------------------------------------------------
(* ApiProcess: shutdown and time *)

\* A phase follows another, while no submission with its body is in hand or
\* the grace is too short for it.
LEMMA PhaseKeeps ==
  ASSUME ApiInv, NEW p \in {"draining", "flushing", "closing"}, Turns(p), Alive,
         p # "draining" /\ Grace > 2 * T => \A r \in Post \ Slow : ~InHand(r),
         p = "draining" => phase = "serving"
  PROVE  ApiInv'
<1>1. phase' = p /\ UNCHANGED <<program, env, cfg, clock, handling, call, age, database>>
  BY DEF Turns
<1>2. ApiTypeOK'
  BY <1>1 DEF ApiInv, ApiTypeOK, Phase
<1>3. Alive' /\ T' = T /\ Grace' = Grace
  BY <1>1 DEF Alive, T, Grace
<1>4. ASSUME NEW r \in Post PROVE CallInv(r)'
  BY <1>1, <1>3 DEF ApiInv, CallInv, Multiple, Handler
<1>5. ASSUME NEW r \in Post \ Slow PROVE DrainInv(r)'
  BY <1>1, <1>3 DEF ApiInv, DrainInv, InHand, Handler
<1> QED BY <1>1, <1>2, <1>3, <1>4, <1>5 DEF ApiInv, Multiple, PanicsAreKnown

\* The two calls of a submission take less than the grace, if that is longer
\* than twice their timeout: whoever is still in hand has a slow body.
LEMMA GraceSuffices ==
  ASSUME ApiInv, phase = "draining", Grace > 2 * T, clock >= Grace, NEW r \in Post \ Slow
  PROVE  ~InHand(r)
<1> SUFFICES ASSUME InHand(r) PROVE FALSE
  OBVIOUS
<1>1. CallInv(r) /\ DrainInv(r)
  BY DEF ApiInv
<1>2. age[Handler(r)] \in Nat /\ clock \in Nat /\ T \in Int
  BY Handlers DEF ApiInv, ApiTypeOK, Loaded, T, Request
<1>3. Grace \in Int
  BY DEF ApiInv, ApiTypeOK, Loaded, Grace, Least, Most
<1>4. handling[r] \in {"auth", "store"} /\ age[Handler(r)] <= T
  BY <1>1 DEF CallInv, InHand
<1>5. clock <= 2 * T
  BY <1>1, <1>2, <1>4 DEF DrainInv, CallInv
<1> QED BY <1>2, <1>3, <1>5

LEMMA ShutdownKeeps ==
  ASSUME ApiInv, Sigterm \/ Drained \/ GraceOver \/ Flush PROVE ApiInv'
<1>1. CASE Sigterm
  BY <1>1, PhaseKeeps DEF Sigterm, Alive
<1>2. CASE Drained
  BY <1>2, PhaseKeeps DEF Drained, Alive, Request
<1>3. CASE GraceOver
  BY <1>3, GraceSuffices, PhaseKeeps DEF GraceOver, Alive
<1>4. CASE Flush
  BY <1>4, PhaseKeeps DEF Flush, Alive, ApiInv, DrainInv
<1> QED BY <1>1, <1>2, <1>3, <1>4

LEMMA ExitKeeps == ApiInv /\ Exit => ApiInv'
<1> SUFFICES ASSUME ApiInv, Exit PROVE ApiInv'
  OBVIOUS
<1>1. /\ phase' = "exited" /\ UNCHANGED <<program, env, cfg, clock, database>>
      /\ handling' = [r \in Request |-> IF InHand(r) THEN "gone" ELSE handling[r]]
      /\ call' = [c \in Call |-> "none"] /\ age' = [c \in Call |-> 0]
  BY DEF Exit
<1>2. ApiTypeOK'
  BY <1>1 DEF ApiInv, ApiTypeOK, Phase, Stage
<1>3. ASSUME NEW r \in Post PROVE CallInv(r)'
  <2>1. handling'[r] \notin {"auth", "reading", "store", "ping"} /\ call'[Handler(r)] = "none"
    BY <1>1, Handlers DEF InHand, Request
  <2> QED BY <2>1 DEF CallInv, Handler
<1>4. ASSUME NEW r \in Post \ Slow PROVE DrainInv(r)'
  BY <1>1 DEF DrainInv
<1> QED BY <1>1, <1>2, <1>3, <1>4 DEF ApiInv, PanicsAreKnown, Alive

\* Time does not pass the end of a timeout.
LEMMA TickKeeps == ApiInv /\ Tick => ApiInv'
<1> SUFFICES ASSUME ApiInv, Tick PROVE ApiInv'
  OBVIOUS
<1>1. /\ UNCHANGED <<program, phase, env, cfg, handling, call, database>>
      /\ clock' = IF Timing THEN clock + Quantum ELSE clock
      /\ age' = [c \in Call |-> IF Running(c) THEN age[c] + Quantum ELSE age[c]]
      /\ \A c \in Call : ~Expired(c)
  BY DEF Tick
<1>2. ApiTypeOK'
  BY <1>1, QuantumPositive DEF ApiInv, ApiTypeOK
<1>3. T' = T /\ Grace' = Grace /\ (Alive' <=> Alive)
  BY <1>1 DEF Alive, T, Grace
<1>4. ASSUME NEW r \in Post, call[Handler(r)] # "none"
      PROVE  /\ age'[Handler(r)] = age[Handler(r)] + Quantum
             /\ age'[Handler(r)] <= T /\ Multiple(age'[Handler(r)])
  <2> DEFINE c == Handler(r)
  <2>1. c \in Call /\ c[1] = r /\ c[2] = "handler"
    BY Handlers DEF Handler, Request
  <2>2. /\ T > 0 /\ T \in Int /\ Multiple(T)
        /\ age[c] \in Nat /\ age[c] <= T /\ Multiple(age[c])
    BY <1>4, <2>1 DEF ApiInv, ApiTypeOK, CallInv, Loaded, T
  <2>3. Timed(c) /\ Limit(c) = T
    BY <2>1, <2>2 DEF Timed, Limit, T
  <2>4. age[c] < T
    BY <1>1, <1>4, <2>1, <2>2, <2>3 DEF Expired
  <2>5. age'[c] = age[c] + Quantum
    BY <1>1, <1>4, <2>1, <2>3 DEF Running
  <2> QED BY <2>2, <2>4, <2>5, StepsToMultiples
<1>5. ASSUME NEW r \in Post PROVE CallInv(r)'
  BY <1>1, <1>3, <1>4, <1>5 DEF ApiInv, CallInv, Multiple, Handler
<1>6. ASSUME NEW r \in Post \ Slow PROVE DrainInv(r)'
  <2>1. /\ age[Handler(r)] \in Nat /\ clock \in Nat /\ T \in Int
        /\ CallInv(r) /\ DrainInv(r)
    BY Handlers DEF ApiInv, ApiTypeOK, Loaded, T, Request
  <2>2. clock' <= clock + Quantum
    BY <1>1, <2>1, QuantumPositive
  <2>3. handling[r] \in {"auth", "store"} => age'[Handler(r)] = age[Handler(r)] + Quantum
    BY <1>4, <2>1 DEF CallInv
  <2>4. clock' \in Nat
    BY <1>2 DEF ApiTypeOK
  <2>5. (InHand(r)' <=> InHand(r)) /\ Handler(r)' = Handler(r)
    BY <1>1 DEF InHand, Handler
  <2> QED BY <1>1, <1>3, <2>1, <2>2, <2>3, <2>4, <2>5, QuantumPositive DEF DrainInv
<1>7. phase' \in {"starting", "serving"} => clock' = 0
  BY <1>1 DEF ApiInv, Timing
<1> QED BY <1>1, <1>2, <1>3, <1>5, <1>6, <1>7 DEF ApiInv, PanicsAreKnown, Multiple

---------------------------------------------------------------------------
(* ApiProcess: theorems *)

LEMMA StepApi == ApiInv /\ [ApiNext]_apiVars => ApiInv'
<1> SUFFICES ASSUME ApiInv, [ApiNext]_apiVars PROVE ApiInv'
  OBVIOUS
<1>1. ASSUME Silence \/ UNCHANGED apiVars PROVE ApiInv'
  <2>1. UNCHANGED <<process, handling, call, age>> /\ database' \in {"up", "silent"}
    BY <1>1 DEF Silence, apiVars, process, ApiInv, ApiTypeOK
  <2>2. ASSUME NEW q \in Post PROVE CallInv(q)' /\ (q \notin Slow => DrainInv(q)')
    BY <2>1, CallsKeep
  <2>3. ApiTypeOK'
    BY <2>1, ProcessKeeps DEF ApiInv, ApiTypeOK
  <2> QED BY <2>1, <2>2, <2>3, ProcessKeeps DEF ApiInv, process
<1> QED
  BY <1>1, StartKeeps, AcquireKeeps, TouchEndsKeeps, RequestKeeps, ShutdownKeeps,
     ExitKeeps, TickKeeps
  DEF ApiNext

LEMMA ApiInvariant == ApiSpec => []ApiInv
BY InitApi, StepApi, PTL DEF ApiSpec

\* Nothing but an origin without a scheme, or an interval of zero, makes a
\* program panic over a configuration that Validate has let pass.
THEOREM PanicsKnown == ApiSpec => []PanicsAreKnown
<1>1. ApiInv => PanicsAreKnown
  BY DEF ApiInv
<1> QED BY <1>1, ApiInvariant, PTL

\* The shutdown does not take the pool from a submission that had come whole,
\* for any number of clients, pool size and timeouts with a sufficient grace.
THEOREM PoolOutlives == ApiSpec => []PoolOutlivesRequests
<1>1. ApiInv => PoolOutlivesRequests
  BY DEF ApiInv, DrainInv, PoolOutlivesRequests, T
<1> QED BY <1>1, ApiInvariant, PTL

\* However long the database is silent and whatever the pool has left, a call
\* made for a submission is never older than the timeout it was made with.
CallsTimely ==
  \A r \in Post : call[Handler(r)] # "none" =>
    cfg.dbQueryTimeout > 0 /\ age[Handler(r)] <= cfg.dbQueryTimeout

\* The safety part of CallsEnd, for every configuration that Validate accepts.
THEOREM Timely == ApiSpec => []CallsTimely
<1>1. ApiInv => CallsTimely
  BY DEF ApiInv, CallInv, CallsTimely, T
<1> QED BY <1>1, ApiInvariant, PTL
=============================================================================
