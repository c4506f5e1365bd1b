----------------------------- MODULE Migrations -----------------------------
(***************************************************************************)
(* The migration runner (cmd/migrate) and the migrations 001 to 008, for   *)
(* any number of runners on one database: the deploy pipeline, an          *)
(* operator's shell.  A runner starts one command after another; a command *)
(* that fails ends at once.                                                *)
(*                                                                         *)
(* Each migration is one transaction, its script and its row of            *)
(* schema_migrations together.  The runners' clocks agree: a row applied   *)
(* later has a later applied_at.                                           *)
(***************************************************************************)
EXTENDS Naturals

CONSTANTS
  Runner,     \* processes of cmd/migrate
  DownsAlone  \* nobody starts "down" while another command runs, or a command
              \* while "down" runs: the code has no lock, operators may take care

ASSUME DownsAssumption == DownsAlone \in BOOLEAN

---------------------------------------------------------------------------
(* The scripts *)

Version == 1 .. 8

\* The migration whose table or type a script alters or refers to, 0 for none.
Host(v) ==
  CASE v \in {2, 3, 6, 8} -> 1    \* events
    [] v = 5 -> 4                 \* api_keys
    [] v = 7 -> 2                 \* notification_channel
    [] OTHER -> 0

\* Scripts that tolerate finding what they create.
Rerunnable == {1, 4, 7, 8}

\* The up script of v runs without an error on this schema.
UpRuns(schema, v) ==
  /\ Host(v) # 0 => Host(v) \in schema
  /\ v \notin schema \/ v \in Rerunnable

\* The down script of v runs: ALTER TABLE needs its table, and events cannot
\* be dropped while notifications refers to it.
DownRuns(schema, v) ==
  /\ v \in {3, 5, 6, 8} => Host(v) \in schema
  /\ v = 1 => 2 \notin schema

\* Mutant of Dropped: 005 down forgets the column.
DroppedPartly(schema, v) ==
  IF v \in {5, 7} THEN schema ELSE {w \in schema : w # v /\ (Host(w) # v \/ w = 2)}

\* What is left after the down script of v: a table goes with its columns, a
\* type with its values; an enum value cannot be removed, 007 down does nothing.
Dropped(schema, v) ==
  IF v = 7 THEN schema ELSE {w \in schema : w # v /\ (Host(w) # v \/ w = 2)}

---------------------------------------------------------------------------
VARIABLES
  schema,     \* the migrations whose objects exist
  appliedAt,  \* schema_migrations: version -> instant, 0 when it has no row
  pc,         \* "idle", "up" or "down", for each runner
  loaded,     \* versions runUp loaded at its start
  at          \* runUp: the next file (9 after the last); runDown: its version

vars == <<schema, appliedAt, pc, loaded, at>>

TypeOK ==
  /\ schema \subseteq Version
  /\ appliedAt \in [Version -> Nat]
  /\ pc \in [Runner -> {"idle", "up", "down"}]
  /\ loaded \in [Runner -> SUBSET Version]
  /\ at \in [Runner -> 1 .. 9]

Init ==
  /\ schema = {}
  /\ appliedAt = [v \in Version |-> 0]
  /\ pc = [r \in Runner |-> "idle"]
  /\ loaded = [r \in Runner |-> {}]
  /\ at = [r \in Runner |-> 1]

Ledger == {v \in Version : appliedAt[v] # 0}

\* lastApplied: the row with the latest applied_at.
Last == CHOOSE v \in Ledger : \A w \in Ledger : appliedAt[v] >= appliedAt[w]

\* A later instant than every applied_at.
Now == IF Ledger = {} THEN 1 ELSE appliedAt[Last] + 1

Stop(r) ==
  /\ pc' = [pc EXCEPT ![r] = "idle"]
  /\ UNCHANGED <<loaded, at>>

---------------------------------------------------------------------------
(* up *)

\* loadApplied.
StartUp(r) ==
  /\ pc[r] = "idle"
  /\ DownsAlone => \A q \in Runner : pc[q] # "down"
  /\ pc' = [pc EXCEPT ![r] = "up"]
  /\ loaded' = [loaded EXCEPT ![r] = Ledger]
  /\ at' = [at EXCEPT ![r] = 1]
  /\ UNCHANGED <<schema, appliedAt>>

Skip(r) ==
  /\ pc[r] = "up"
  /\ at[r] \in loaded[r]
  /\ at' = [at EXCEPT ![r] = @ + 1]
  /\ UNCHANGED <<schema, appliedAt, pc, loaded>>

Pending(r) == pc[r] = "up" /\ at[r] \in Version \ loaded[r]

\* The transaction of at[r] commits: its script runs and no other runner has
\* put the same version into the ledger.
Commits(r) ==
  /\ Pending(r)
  /\ UpRuns(schema, at[r])
  /\ at[r] \notin Ledger
  /\ schema' = schema \cup {at[r]}
  /\ appliedAt' = [appliedAt EXCEPT ![at[r]] = Now]

Apply(r) ==
  /\ Commits(r)
  /\ at' = [at EXCEPT ![r] = @ + 1]
  /\ UNCHANGED <<pc, loaded>>

\* It commits and the runner does not learn of it, or ends.
ApplyLost(r) == Commits(r) /\ Stop(r)

\* Mutants of ApplyFails: the loop goes on after an error; the script of a
\* failed migration is not rolled back.
ApplyFailsOn(r) ==
  /\ Pending(r)
  /\ at' = [at EXCEPT ![r] = @ + 1]
  /\ UNCHANGED <<schema, appliedAt, pc, loaded>>
ApplyFailsHalf(r) ==
  /\ Pending(r)
  /\ schema' = schema \cup {at[r]}
  /\ Stop(r)
  /\ UNCHANGED appliedAt

\* The script, the INSERT or the connection fails: nothing of it remains.
ApplyFails(r) ==
  /\ Pending(r)
  /\ Stop(r)
  /\ UNCHANGED <<schema, appliedAt>>

UpReturns(r) ==
  /\ pc[r] = "up"
  /\ at[r] = 9
  /\ Stop(r)
  /\ UNCHANGED <<schema, appliedAt>>

---------------------------------------------------------------------------
(* down *)

\* lastApplied; without a row there is nothing to roll back.
StartDown(r) ==
  /\ pc[r] = "idle"
  /\ DownsAlone => \A q \in Runner : pc[q] = "idle"
  /\ Ledger # {}
  /\ pc' = [pc EXCEPT ![r] = "down"]
  /\ at' = [at EXCEPT ![r] = Last]
  /\ UNCHANGED <<schema, appliedAt, loaded>>

\* DELETE FROM schema_migrations WHERE version = v.
Forgotten(v) == [appliedAt EXCEPT ![v] = 0]

\* The transaction commits, whether or not the runner learns of it.
RollBack(r) ==
  /\ pc[r] = "down"
  /\ DownRuns(schema, at[r])
  /\ schema' = Dropped(schema, at[r])
  /\ appliedAt' = Forgotten(at[r])
  /\ Stop(r)

RollBackFails(r) ==
  /\ pc[r] = "down"
  /\ Stop(r)
  /\ UNCHANGED <<schema, appliedAt>>

Next ==
  \E r \in Runner :
    \/ StartUp(r) \/ Skip(r) \/ Apply(r) \/ ApplyLost(r) \/ ApplyFails(r) \/ UpReturns(r)
    \/ StartDown(r) \/ RollBack(r) \/ RollBackFails(r)

Spec == Init /\ [][Next]_vars

---------------------------------------------------------------------------
(* Properties, as long as downs are alone *)

\* The ledger tells the truth: what it lists exists, and nothing else does,
\* save the enum value that cannot be removed.
LedgerMatches == Ledger \subseteq schema /\ schema \subseteq Ledger \cup {7}

\* Migrations are applied in order, without gaps.
NoGaps == \A v \in Ledger : \A w \in Version : w < v => w \in Ledger

\* "Apply all pending migrations" (README.md:824): when runUp returns without
\* an error every migration is in the ledger.
UpCompletes == \A r \in Runner : pc[r] = "up" /\ at[r] = 9 => Ledger = Version

\* From any schema that ups and downs lead to, failed ones among them, the
\* next script runs: a runner is refused only for what another has applied
\* since it started, never for what an earlier command left behind.
NeverRefused ==
  \A r \in Runner :
    /\ Pending(r) /\ at[r] \notin Ledger => UpRuns(schema, at[r])
    /\ pc[r] = "down" => DownRuns(schema, at[r])

(* What the documents say of any two commands *)

\* "Rollback last migration" (README.md:829): what is rolled back is the
\* latest migration of those applied.  The version is read outside the
\* transaction, and nothing keeps another command from coming between.
RollsBackLast ==
  [][\A v \in Ledger \ Ledger' : \A w \in Ledger : w <= v]_vars
=============================================================================
