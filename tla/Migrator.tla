------------------------------ MODULE Migrator ------------------------------
(***************************************************************************)
(* internal/store/migrator.go, run by cmd/migrate ahead of every start of  *)
(* the server: the numbered SQL files are applied in order, each in one    *)
(* transaction with the row that records its version.  Every runSQL is a   *)
(* sqlite3 process of its own, so that the busy_timeout set by the first   *)
(* does not hold for the others: who finds the database locked fails.      *)
(* Migrators may run side by side, crash anywhere and are run again.       *)
(*                                                                         *)
(* A file either creates what is missing, or adds columns (and fails where *)
(* one is there already), fills them and creates an index, or rebuilds a   *)
(* table (and fails on the rebuilt one).  Databases of an older, partly    *)
(* unrecorded past may hold columns whose version is not recorded.         *)
(***************************************************************************)
EXTENDS Naturals, Sequences, FiniteSetsExt

CONSTANTS
  Migrators,        \* processes that run Apply
  Columns,          \* Columns[v]: how many columns the file of version v adds
  Indexed,          \* the versions among them whose index is recovered too
  Rebuilds,         \* the versions that rebuild a table
  MaxFaults,        \* bound: statements that fail for other reasons
  MaxCrashes,       \* bound: migrators that are killed
  Nil

Versions == DOMAIN Columns

Additive == {v \in Versions : Columns[v] > 0}

ASSUME MigratorAssumption ==
  /\ Columns \in Seq(Nat)
  /\ Indexed \subseteq Additive
  /\ Rebuilds \subseteq Versions \ Additive
  /\ Nil \notin Migrators

VARIABLES
  db,           \* the committed database
  tx,           \* the database as the open transaction sees it, or Nil
  lock,         \* the migrator in a transaction, or Nil
  pc,           \* where each migrator is
  version,      \* the version each migrator has come to
  applied,      \* appliedVersions, as each migrator has read them
  legacy,       \* history: the columns there at first, their version not recorded
  faults, crashes

vars == <<db, tx, lock, pc, version, applied, legacy, faults, crashes>>

(* hasTable: schema_migrations; recorded: its rows; built: the versions    *)
(* whose tables are made; columns: how many of a version's columns there   *)
(* are; index, filled: the versions whose index and column values are set. *)
Database ==
  [hasTable : BOOLEAN, recorded : SUBSET Versions, built : SUBSET Versions,
   columns : [Additive -> Nat], index : SUBSET Indexed, filled : SUBSET Additive]

(* The first k versions were applied and recorded; of the others, columns  *)
(* may be there all the same.                                              *)
Init ==
  /\ \E k \in 0..Len(Columns) : \E extra \in [Additive -> UNION {0..Columns[v] : v \in Versions}] :
       /\ \A v \in Additive : extra[v] <= Columns[v] /\ (v <= k => extra[v] = Columns[v])
       /\ db = [hasTable |-> k > 0,
                recorded |-> 1..k,
                built    |-> (1..k) \ Additive,
                columns  |-> extra,
                index    |-> (1..k) \cap Indexed,
                filled   |-> (1..k) \cap Additive]
       /\ legacy = [v \in Additive |-> IF v <= k THEN 0 ELSE extra[v]]
  /\ tx = Nil
  /\ lock = Nil
  /\ pc = [m \in Migrators |-> "start"]
  /\ version = [m \in Migrators |-> 0]
  /\ applied = [m \in Migrators |-> {}]
  /\ faults = 0
  /\ crashes = 0

Goto(m, label) == pc' = [pc EXCEPT ![m] = label]

Fault == faults < MaxFaults /\ faults' = faults + 1

-----------------------------------------------------------------------------
(* Apply *)

(* The pragmas and CREATE TABLE IF NOT EXISTS schema_migrations, which     *)
(* writes only where it is missing.                                        *)
Prepare(m) ==
  /\ pc[m] = "start"
  /\ IF lock = Nil \/ db.hasTable
       THEN db' = [db EXCEPT !.hasTable = TRUE] /\ Goto(m, "load")
       ELSE UNCHANGED db /\ Goto(m, "failed")
  /\ UNCHANGED <<tx, lock, version, applied, legacy, faults, crashes>>

Load(m) ==
  /\ pc[m] = "load"
  /\ applied' = [applied EXCEPT ![m] = db.recorded]
  /\ version' = [version EXCEPT ![m] = 0]
  /\ Goto(m, "loop")
  /\ UNCHANGED <<db, tx, lock, legacy, faults, crashes>>

(* Mutant of Pending: the files in another order.                          *)
PendingAnyOrder(m) == {Max({0} \cup (Versions \ applied[m]))} \ (1..version[m] \cup {0})

(* Mutant of Pending: what was recorded is not looked at.                  *)
PendingAll(m) == {v \in Versions : v > version[m]}

(* The files still to come that were not recorded when they were read.     *)
Pending(m) == {v \in Versions \ applied[m] : v > version[m]}

Finish(m) ==
  /\ pc[m] = "loop"
  /\ Pending(m) = {}
  /\ Goto(m, "done")
  /\ UNCHANGED <<db, tx, lock, version, applied, legacy, faults, crashes>>

-----------------------------------------------------------------------------
(* applyMigration *)

(* BEGIN IMMEDIATE *)
Begin(m) ==
  /\ pc[m] = "loop"
  /\ Pending(m) # {}
  /\ version' = [version EXCEPT ![m] = Min(Pending(m))]
  /\ IF lock = Nil
       THEN lock' = m /\ tx' = db /\ Goto(m, "script")
       ELSE UNCHANGED <<lock, tx>> /\ Goto(m, "check")
  /\ UNCHANGED <<db, applied, legacy, faults, crashes>>

(* The file's statements succeed, and so does the INSERT of its version.   *)
ScriptRuns(d, v) ==
  /\ v \in Additive => d.columns[v] = 0
  /\ v \in Rebuilds => v \notin d.built
  /\ v \notin d.recorded

(* Mutant of AddColumns: outside the transaction.                          *)
AddColumnsAtOnce(m, d) == tx' = d /\ db' = d

AddColumns(m, d) == tx' = d /\ UNCHANGED db

(* ALTER TABLE ... ADD COLUMN, or a statement that fails and, with -bail,  *)
(* ends the process and its transaction.                                   *)
RunScript(m) ==
  /\ pc[m] = "script"
  /\ LET v == version[m]
     IN  IF ScriptRuns(tx, v)
           THEN /\ AddColumns(m, IF v \in Additive
                                   THEN [tx EXCEPT !.columns[v] = Columns[v]] ELSE tx)
                /\ Goto(m, "commit")
                /\ UNCHANGED lock
           ELSE tx' = Nil /\ lock' = Nil /\ Goto(m, "check") /\ UNCHANGED db
  /\ UNCHANGED <<version, applied, legacy, faults, crashes>>

(* The UPDATE of the new columns, the CREATEs, the version and COMMIT.     *)
Commit(m) ==
  /\ pc[m] = "commit"
  /\ LET v == version[m]
     IN  db' = [tx EXCEPT !.built = IF v \in Additive THEN @ ELSE @ \cup {v},
                          !.index = @ \cup ({v} \cap Indexed),
                          !.filled = @ \cup ({v} \cap Additive),
                          !.recorded = @ \cup {v}]
  /\ tx' = Nil
  /\ lock' = Nil
  /\ Goto(m, "loop")
  /\ UNCHANGED <<version, applied, legacy, faults, crashes>>

(* Mutant of HasColumns: the first column is enough.                       *)
HasFirstColumn(v) == v \in Additive /\ db.columns[v] > 0

(* columnExists for each column of the versions that have a check at all.  *)
HasColumns(v) == v \in Additive /\ db.columns[v] = Columns[v]

(* Mutant of AfterCheck: the loop goes on with the next file.              *)
AfterCheckSkip(v) ==
  IF ~HasColumns(v) THEN "loop"
  ELSE IF v \in Indexed \ db.index THEN "reindex" ELSE "record"

(* migrationSchemaAlreadyApplied *)
AfterCheck(v) ==
  IF ~HasColumns(v) THEN "failed"
  ELSE IF v \in Indexed \ db.index THEN "reindex" ELSE "record"

(* After a script that failed, whatever the reason.                        *)
Check(m) ==
  /\ pc[m] = "check"
  /\ Goto(m, AfterCheck(version[m]))
  /\ UNCHANGED <<db, tx, lock, version, applied, legacy, faults, crashes>>

(* CREATE UNIQUE INDEX IF NOT EXISTS *)
Reindex(m) ==
  /\ pc[m] = "reindex"
  /\ IF lock = Nil \/ version[m] \in db.index
       THEN db' = [db EXCEPT !.index = @ \cup {version[m]}] /\ Goto(m, "record")
       ELSE UNCHANGED db /\ Goto(m, "failed")
  /\ UNCHANGED <<tx, lock, version, applied, legacy, faults, crashes>>

(* INSERT OR IGNORE of the version.                                        *)
Record(m) ==
  /\ pc[m] = "record"
  /\ IF lock = Nil
       THEN db' = [db EXCEPT !.recorded = @ \cup {version[m]}] /\ Goto(m, "loop")
       ELSE UNCHANGED db /\ Goto(m, "failed")
  /\ UNCHANGED <<tx, lock, version, applied, legacy, faults, crashes>>

-----------------------------------------------------------------------------
(* A transaction in which a statement fails: the check comes after it.     *)
ScriptFails(m) ==
  /\ Fault
  /\ pc[m] \in {"script", "commit"}
  /\ tx' = Nil
  /\ lock' = Nil
  /\ Goto(m, "check")
  /\ UNCHANGED <<db, version, applied, legacy, crashes>>

(* Any other runSQL that fails ends Apply with an error.                   *)
StatementFails(m) ==
  /\ Fault
  /\ pc[m] \in {"start", "load", "check", "reindex", "record"}
  /\ Goto(m, "failed")
  /\ UNCHANGED <<db, tx, lock, version, applied, legacy, crashes>>

(* The migrator is killed; SQLite rolls its transaction back.              *)
Crash(m) ==
  /\ pc[m] \notin {"done", "failed"}
  /\ crashes < MaxCrashes
  /\ crashes' = crashes + 1
  /\ IF lock = m THEN lock' = Nil /\ tx' = Nil ELSE UNCHANGED <<lock, tx>>
  /\ Goto(m, "failed")
  /\ UNCHANGED <<db, version, applied, legacy, faults>>

(* The container is started again.                                         *)
Rerun(m) ==
  /\ pc[m] = "failed"
  /\ Goto(m, "start")
  /\ UNCHANGED <<db, tx, lock, version, applied, legacy, faults, crashes>>

Step(m) ==
  \/ Prepare(m) \/ Load(m) \/ Finish(m) \/ Begin(m) \/ RunScript(m) \/ Commit(m)
  \/ Check(m) \/ Reindex(m) \/ Record(m) \/ Rerun(m)

Next == \E m \in Migrators : Step(m) \/ ScriptFails(m) \/ StatementFails(m) \/ Crash(m)

Spec == Init /\ [][Next]_vars

(* A migrator that runs makes its steps, and is run again when it failed.  *)
FairSpec == Spec /\ \A m \in Migrators : WF_vars(Step(m))

-----------------------------------------------------------------------------
(* Properties *)

(* The database and the migrators' own variables have their types.         *)
TypeOK ==
  /\ db \in Database
  /\ lock \in Migrators \cup {Nil}
  /\ IF lock = Nil THEN tx = Nil ELSE tx \in Database
  /\ \A m \in Migrators : version[m] \in Versions \cup {0} /\ applied[m] \subseteq Versions
  /\ \A m \in Migrators : lock = m <=> pc[m] \in {"script", "commit"}

(* A version is recorded only when all that its file makes is there: the   *)
(* tables, every column and the index, also where the version was recorded *)
(* without its file, after a failure, a crash or another migrator.         *)
RecordedApplied ==
  \A v \in db.recorded :
    /\ v \notin Additive => v \in db.built
    /\ v \in Additive => db.columns[v] = Columns[v]
    /\ v \in Indexed => v \in db.index

(* The versions are recorded in the order of the files, without a gap,     *)
(* whoever applies them.                                                   *)
RecordedInOrder == \A v \in db.recorded : 1..v \subseteq db.recorded

(* The server, which starts when Apply succeeds, finds every version.      *)
DoneMeansAll == \A m \in Migrators : pc[m] = "done" => db.recorded = Versions

(* A recorded version whose columns were never filled is one whose columns *)
(* were all there before any migrator ran: no crash, failure or race of    *)
(* the migrators' own leaves columns without their values.                 *)
FilledUnlessLegacy ==
  \A v \in (db.recorded \cap Additive) \ db.filled : legacy[v] = Columns[v]

(* Where no unrecorded version has columns already, every migrator comes   *)
(* to its end, however often they fail each other on the way.  (With such  *)
(* columns two of them can go on for ever: each finds the lock, when it    *)
(* goes to record the version, held by the other's file, bound to fail.)   *)
Converges ==
  (\A v \in Additive : legacy[v] = 0) => <>(\A m \in Migrators : pc[m] = "done")
=============================================================================
