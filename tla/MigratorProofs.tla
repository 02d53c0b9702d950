--------------------------- MODULE MigratorProofs ---------------------------
(***************************************************************************)
(* Proofs about Migrator, for every set of migrators, every list of files  *)
(* and every number of failures and crashes:                               *)
(*                                                                         *)
(*   MigratorTypeCorrect       Spec => []TypeOK                            *)
(*   MigratorRecordsApplied    Spec => []RecordedApplied                   *)
(*   MigratorRecordsInOrder    Spec => []RecordedInOrder                   *)
(*   MigratorDoneMeansAll      Spec => []DoneMeansAll                      *)
(*   MigratorFills             Spec => []FilledUnlessLegacy                *)
(***************************************************************************)
EXTENDS Migrator, WellFoundedInduction, TLAPS

Labels == {"start", "load", "loop", "script", "commit", "check", "reindex",
           "record", "done", "failed"}

Typed ==
  /\ db \in Database
  /\ pc \in [Migrators -> Labels]
  /\ version \in [Migrators -> Versions \cup {0}]
  /\ applied \in [Migrators -> SUBSET Versions]

(* The open transaction: its owner is in the script, and nobody else has   *)
(* changed the database under it.                                          *)
Scripted(m) ==
  LET v == version[m]
  IN  /\ v \in Versions /\ ScriptRuns(db, v)
      /\ tx = IF v \in Additive THEN [db EXCEPT !.columns[v] = Columns[v]] ELSE db

Isolated ==
  /\ lock \in Migrators \cup {Nil}
  /\ lock = Nil => tx = Nil
  /\ \A m \in Migrators : lock = m <=> pc[m] \in {"script", "commit"}
  /\ lock # Nil => db.hasTable
  /\ \A m \in Migrators : pc[m] = "script" => tx = db
  /\ \A m \in Migrators : pc[m] = "commit" => Scripted(m)

(* Where a migrator has come to: all versions before its own are recorded, *)
(* and what it is about to record is there.                                *)
InTurn ==
  \A m \in Migrators :
    /\ applied[m] \subseteq db.recorded
    /\ pc[m] \notin {"start", "failed"} => db.hasTable
    /\ pc[m] = "loop" => 1..version[m] \subseteq db.recorded
    /\ pc[m] \in {"script", "commit", "check", "reindex", "record"} =>
         version[m] \in Versions /\ \A v \in 1..version[m] : v = version[m] \/ v \in db.recorded
    /\ pc[m] \in {"reindex", "record"} => HasColumns(version[m])
    /\ pc[m] = "reindex" => version[m] \in Indexed
    /\ pc[m] = "record" /\ version[m] \in Indexed => version[m] \in db.index

(* Columns that no script filled are the ones that were there at first.    *)
Unfilled == \A v \in Additive \ db.filled : db.columns[v] = legacy[v]

MigratorInv ==
  Typed /\ Isolated /\ InTurn /\ Unfilled
  /\ RecordedApplied /\ RecordedInOrder /\ DoneMeansAll

-----------------------------------------------------------------------------
LEMMA VersionsAre == /\ Versions = 1..Len(Columns) /\ Len(Columns) \in Nat
                     /\ \A v \in Versions : Columns[v] \in Nat
                     /\ Additive \subseteq Versions /\ Indexed \subseteq Additive
                     /\ Nil \notin Migrators
  BY MigratorAssumption DEF Versions, Additive

(* The file that is taken next is the first of those pending.              *)
LEMMA MinOf ==
  ASSUME NEW S \in SUBSET Nat, S # {}
  PROVE  Min(S) \in S /\ \A j \in S : Min(S) <= j
  <1> DEFINE Less == {ss \in Nat \X Nat : ss[1] < ss[2]}
  <1>1. IsWellFoundedOn(Less, Nat)
    BY NatLessThanWellFounded, Zenon DEF OpToRel
  <1>2. \A i, j \in Nat : j < i => <<j, i>> \in Less
    OBVIOUS
  <1> HIDE DEF Less
  <1>3. PICK i \in S : \A j \in S : ~(<<j, i>> \in Less)
    BY <1>1, WFMin, Zenon
  <1>4. \A j \in S : ~(j < i)
    BY <1>2, <1>3
  <1>5. \A j \in S : i <= j
    BY <1>4
  <1> QED BY <1>5 DEF Min

LEMMA InvInit == Init => MigratorInv
  <1> SUFFICES ASSUME Init PROVE MigratorInv
    OBVIOUS
  <1>1. PICK k \in 0..Len(Columns),
             extra \in [Additive -> UNION {0..Columns[v] : v \in Versions}] :
       /\ \A v \in Additive : extra[v] <= Columns[v] /\ (v <= k => extra[v] = Columns[v])
       /\ db = [hasTable |-> k > 0,
                recorded |-> 1..k,
                built    |-> (1..k) \ Additive,
                columns  |-> extra,
                index    |-> (1..k) \cap Indexed,
                filled   |-> (1..k) \cap Additive]
       /\ legacy = [v \in Additive |-> IF v <= k THEN 0 ELSE extra[v]]
    BY DEF Init
  <1>2. 1..k \subseteq Versions /\ k \in Nat
    BY VersionsAre
  <1>3. extra \in [Additive -> Nat]
    BY VersionsAre
  <1>4. db \in Database
    BY <1>1, <1>2, <1>3, VersionsAre DEF Database
  <1>5. Typed
    BY <1>4 DEF Init, Typed, Labels
  <1>6. Isolated /\ InTurn /\ DoneMeansAll
    BY VersionsAre DEF Init, Isolated, InTurn, DoneMeansAll
  <1>7. Unfilled
    BY <1>1, <1>2, VersionsAre DEF Unfilled
  <1>8. RecordedApplied /\ RecordedInOrder
    BY <1>1, <1>2, VersionsAre DEF RecordedApplied, RecordedInOrder
  <1> QED BY <1>5, <1>6, <1>7, <1>8 DEF MigratorInv

-----------------------------------------------------------------------------
(* One lemma for each kind of step.                                        *)

LEMMA LoadStep ==
  ASSUME MigratorInv, NEW m \in Migrators, Load(m)
  PROVE  MigratorInv'
  <1> USE DEF MigratorInv
  <1>1. Typed'
    BY VersionsAre DEF Load, Typed, Labels, Goto, Database
  <1>2. Isolated'
    BY VersionsAre DEF Load, Typed, Labels, Isolated, Scripted, ScriptRuns, Goto
  <1>3. InTurn'
    BY VersionsAre DEF Load, Typed, Labels, Isolated, InTurn, HasColumns, Goto
  <1>4. Unfilled' /\ RecordedApplied' /\ RecordedInOrder'
    BY DEF Load, Unfilled, RecordedApplied, RecordedInOrder
  <1>5. DoneMeansAll'
    BY VersionsAre DEF Load, Typed, Labels, InTurn, DoneMeansAll, Goto
  <1> QED BY <1>1, <1>2, <1>3, <1>4, <1>5

LEMMA FinishStep ==
  ASSUME MigratorInv, NEW m \in Migrators, Finish(m)
  PROVE  MigratorInv'
  <1> USE DEF MigratorInv
  <1>1. Typed'
    BY VersionsAre DEF Finish, Typed, Labels, Goto, Database, Pending
  <1>2. Isolated'
    BY VersionsAre DEF Finish, Typed, Labels, Isolated, Scripted, ScriptRuns, Goto, Pending
  <1>3. InTurn'
    BY VersionsAre DEF Finish, Typed, Labels, Isolated, InTurn, HasColumns, Goto, Pending
  <1>4. Unfilled' /\ RecordedApplied' /\ RecordedInOrder'
    BY DEF Finish, Unfilled, RecordedApplied, RecordedInOrder, Pending
  <1>5. DoneMeansAll'
    <2>1. \A v \in Versions : v \in applied[m] \/ v \in 1..version[m]
      BY VersionsAre DEF Finish, Pending, Typed
    <2>2. db.recorded = Versions
      BY <2>1 DEF Finish, InTurn, Typed, Database
    <2> QED BY <2>2 DEF Finish, DoneMeansAll
  <1> QED BY <1>1, <1>2, <1>3, <1>4, <1>5

LEMMA BeginStep ==
  ASSUME MigratorInv, NEW m \in Migrators, Begin(m)
  PROVE  MigratorInv'
  <1> USE DEF MigratorInv
  <1> DEFINE v == Min(Pending(m))
  <1>1. /\ v \in Versions /\ v \notin applied[m]
        /\ \A w \in Pending(m) : v <= w
    <2>1. Pending(m) \subseteq Nat /\ Pending(m) # {} /\ Pending(m) \subseteq Versions
      BY VersionsAre DEF Begin, Pending
    <2>2. v \in Pending(m) /\ \A w \in Pending(m) : v <= w
      BY <2>1, MinOf
    <2> QED BY <2>1, <2>2 DEF Pending
  <1>2. \A w \in 1..v : w = v \/ w \in db.recorded
    <2> SUFFICES ASSUME NEW w \in 1..v, w # v
                 PROVE  w \in db.recorded
      OBVIOUS
    <2>1. w \in Versions /\ version[m] \in Nat
      BY <1>1, VersionsAre DEF Typed
    <2>2. w \notin Pending(m)
      BY <1>1, <2>1, VersionsAre
    <2>3. w \in applied[m] \/ w \in 1..version[m]
      BY <2>1, <2>2, VersionsAre DEF Pending
    <2> QED BY <2>3 DEF Begin, InTurn
  <1> HIDE DEF v
  <1>3. /\ version' = [version EXCEPT ![m] = v] /\ pc[m] = "loop"
        /\ UNCHANGED <<db, applied, legacy>>
        /\ \/ lock = Nil /\ lock' = m /\ tx' = db /\ pc' = [pc EXCEPT ![m] = "script"]
           \/ lock # Nil /\ UNCHANGED <<lock, tx>> /\ pc' = [pc EXCEPT ![m] = "check"]
    BY DEF Begin, Goto, v
  <1>4. Typed'
    BY <1>1, <1>3 DEF Typed, Labels
  <1>5. Isolated'
    <2>1. CASE lock = Nil
      BY <1>3, <2>1, VersionsAre DEF Typed, Isolated, InTurn
    <2>2. CASE lock # Nil
      BY <1>3, <2>2, VersionsAre DEF Typed, Isolated, Scripted, ScriptRuns
    <2> QED BY <2>1, <2>2
  <1>6. InTurn'
    BY <1>1, <1>2, <1>3, VersionsAre DEF Typed, InTurn, HasColumns
  <1>7. Unfilled' /\ RecordedApplied' /\ RecordedInOrder' /\ DoneMeansAll'
    BY <1>3 DEF Typed, Unfilled, RecordedApplied, RecordedInOrder, DoneMeansAll
  <1> QED BY <1>4, <1>5, <1>6, <1>7

LEMMA RunScriptStep ==
  ASSUME MigratorInv, NEW m \in Migrators, RunScript(m)
  PROVE  MigratorInv'
  <1> USE DEF MigratorInv
  <1>1. Typed'
    BY VersionsAre DEF RunScript, Typed, Labels, Goto, Database, AddColumns, ScriptRuns
  <1>2. Isolated'
    <2> DEFINE v == version[m]
    <2>1. lock = m /\ tx = db /\ pc[m] = "script" /\ v \in Versions /\ db.hasTable
      BY VersionsAre DEF RunScript, Isolated, InTurn
    <2>2. \A n \in Migrators : n # m => pc[n] \notin {"script", "commit"}
      BY <2>1 DEF Isolated
    <2>3. CASE ScriptRuns(tx, v)
      <3>1. /\ tx' = IF v \in Additive THEN [db EXCEPT !.columns[v] = Columns[v]] ELSE db
            /\ pc' = [pc EXCEPT ![m] = "commit"]
            /\ UNCHANGED <<lock, db, version>>
        BY <2>1, <2>3 DEF RunScript, AddColumns, Goto
      <3>2. Scripted(m)'
        BY <2>1, <2>3, <3>1 DEF Scripted, ScriptRuns
      <3>3. pc' \in [Migrators -> Labels] /\ pc'[m] = "commit"
            /\ \A n \in Migrators : n # m => pc'[n] = pc[n]
        BY <3>1 DEF Typed, Labels
      <3> QED BY <2>1, <2>2, <3>1, <3>2, <3>3, VersionsAre DEF Isolated
    <2>4. CASE ~ScriptRuns(tx, v)
      <3>1. tx' = Nil /\ lock' = Nil /\ pc' = [pc EXCEPT ![m] = "check"] /\ UNCHANGED db
        BY <2>1, <2>4 DEF RunScript, Goto
      <3> QED BY <2>2, <3>1, VersionsAre DEF Isolated, Typed
    <2> QED BY <2>3, <2>4
  <1>3. InTurn'
    BY VersionsAre DEF RunScript, Typed, Labels, Isolated, InTurn, HasColumns, Goto, AddColumns, ScriptRuns
  <1>4. Unfilled' /\ RecordedApplied' /\ RecordedInOrder'
    BY DEF RunScript, Unfilled, RecordedApplied, RecordedInOrder, AddColumns, ScriptRuns
  <1>5. DoneMeansAll'
    BY VersionsAre DEF RunScript, Typed, Labels, InTurn, DoneMeansAll, Goto, AddColumns, ScriptRuns
  <1> QED BY <1>1, <1>2, <1>3, <1>4, <1>5

LEMMA CheckStep ==
  ASSUME MigratorInv, NEW m \in Migrators, Check(m)
  PROVE  MigratorInv'
  <1> USE DEF MigratorInv
  <1>1. Typed'
    BY VersionsAre DEF Check, Typed, Labels, Goto, Database, AfterCheck, HasColumns
  <1>2. Isolated'
    BY VersionsAre DEF Check, Typed, Labels, Isolated, Scripted, ScriptRuns, Goto, AfterCheck, HasColumns
  <1>3. InTurn'
    BY VersionsAre DEF Check, Typed, Labels, Isolated, InTurn, HasColumns, Goto, AfterCheck
  <1>4. Unfilled' /\ RecordedApplied' /\ RecordedInOrder'
    BY DEF Check, Unfilled, RecordedApplied, RecordedInOrder, AfterCheck, HasColumns
  <1>5. DoneMeansAll'
    BY VersionsAre DEF Check, Typed, Labels, InTurn, DoneMeansAll, Goto, AfterCheck, HasColumns
  <1> QED BY <1>1, <1>2, <1>3, <1>4, <1>5

LEMMA ScriptFailsStep ==
  ASSUME MigratorInv, NEW m \in Migrators, ScriptFails(m)
  PROVE  MigratorInv'
  <1> USE DEF MigratorInv
  <1>1. Typed'
    BY VersionsAre DEF ScriptFails, Typed, Labels, Goto, Database
  <1>2. Isolated'
    BY VersionsAre DEF ScriptFails, Typed, Labels, Isolated, Scripted, ScriptRuns, Goto
  <1>3. InTurn'
    BY VersionsAre DEF ScriptFails, Typed, Labels, Isolated, InTurn, HasColumns, Goto
  <1>4. Unfilled' /\ RecordedApplied' /\ RecordedInOrder'
    BY DEF ScriptFails, Unfilled, RecordedApplied, RecordedInOrder
  <1>5. DoneMeansAll'
    BY VersionsAre DEF ScriptFails, Typed, Labels, InTurn, DoneMeansAll, Goto
  <1> QED BY <1>1, <1>2, <1>3, <1>4, <1>5

LEMMA StatementFailsStep ==
  ASSUME MigratorInv, NEW m \in Migrators, StatementFails(m)
  PROVE  MigratorInv'
  <1> USE DEF MigratorInv
  <1>1. Typed'
    BY VersionsAre DEF StatementFails, Typed, Labels, Goto, Database
  <1>2. Isolated'
    BY VersionsAre DEF StatementFails, Typed, Labels, Isolated, Scripted, ScriptRuns, Goto
  <1>3. InTurn'
    BY VersionsAre DEF StatementFails, Typed, Labels, Isolated, InTurn, HasColumns, Goto
  <1>4. Unfilled' /\ RecordedApplied' /\ RecordedInOrder'
    BY DEF StatementFails, Unfilled, RecordedApplied, RecordedInOrder
  <1>5. DoneMeansAll'
    BY VersionsAre DEF StatementFails, Typed, Labels, InTurn, DoneMeansAll, Goto
  <1> QED BY <1>1, <1>2, <1>3, <1>4, <1>5

LEMMA CrashStep ==
  ASSUME MigratorInv, NEW m \in Migrators, Crash(m)
  PROVE  MigratorInv'
  <1> USE DEF MigratorInv
  <1>1. Typed'
    BY VersionsAre DEF Crash, Typed, Labels, Goto, Database
  <1>2. Isolated'
    BY VersionsAre DEF Crash, Typed, Labels, Isolated, Scripted, ScriptRuns, Goto
  <1>3. InTurn'
    BY VersionsAre DEF Crash, Typed, Labels, Isolated, InTurn, HasColumns, Goto
  <1>4. Unfilled' /\ RecordedApplied' /\ RecordedInOrder'
    BY DEF Crash, Unfilled, RecordedApplied, RecordedInOrder
  <1>5. DoneMeansAll'
    BY VersionsAre DEF Crash, Typed, Labels, InTurn, DoneMeansAll, Goto
  <1> QED BY <1>1, <1>2, <1>3, <1>4, <1>5

LEMMA RerunStep ==
  ASSUME MigratorInv, NEW m \in Migrators, Rerun(m)
  PROVE  MigratorInv'
  <1> USE DEF MigratorInv
  <1>1. Typed'
    BY VersionsAre DEF Rerun, Typed, Labels, Goto, Database
  <1>2. Isolated'
    BY VersionsAre DEF Rerun, Typed, Labels, Isolated, Scripted, ScriptRuns, Goto
  <1>3. InTurn'
    BY VersionsAre DEF Rerun, Typed, Labels, Isolated, InTurn, HasColumns, Goto
  <1>4. Unfilled' /\ RecordedApplied' /\ RecordedInOrder'
    BY DEF Rerun, Unfilled, RecordedApplied, RecordedInOrder
  <1>5. DoneMeansAll'
    BY VersionsAre DEF Rerun, Typed, Labels, InTurn, DoneMeansAll, Goto
  <1> QED BY <1>1, <1>2, <1>3, <1>4, <1>5

LEMMA PrepareStep ==
  ASSUME MigratorInv, NEW m \in Migrators, Prepare(m)
  PROVE  MigratorInv'
  <1> USE DEF MigratorInv
  <1>1. CASE lock = Nil \/ db.hasTable
    <2>1. /\ db' = [db EXCEPT !.hasTable = TRUE] /\ pc' = [pc EXCEPT ![m] = "load"]
          /\ pc[m] = "start" /\ UNCHANGED <<tx, lock, version, applied, legacy>>
      BY <1>1 DEF Prepare, Goto
    <2>2. /\ db' \in Database /\ db'.hasTable
          /\ db'.recorded = db.recorded /\ db'.built = db.built /\ db'.columns = db.columns
          /\ db'.index = db.index /\ db'.filled = db.filled
          /\ lock # Nil => db' = db
      BY <1>1, <2>1 DEF Typed, Database
    <2>3. Typed'
      BY <2>1, <2>2 DEF Typed, Labels
    <2>4. Isolated'
      <3>1. /\ pc' \in [Migrators -> Labels] /\ pc'[m] = "load"
            /\ \A k \in Migrators \ {m} : pc'[k] = pc[k]
        BY <2>1, <2>3 DEF Typed
      <3>2. \A k \in Migrators : pc'[k] \in {"script", "commit"} <=> pc[k] \in {"script", "commit"}
        BY <2>1, <3>1
      <3>3. \A k \in Migrators : pc'[k] \in {"script", "commit"} => pc'[k] = pc[k] /\ db' = db
        BY <2>2, <3>1, <3>2, VersionsAre DEF Isolated
      <3>4. ASSUME NEW k \in Migrators, pc'[k] = "commit"
            PROVE  Scripted(k)'
        <4>1. Scripted(k) /\ db' = db /\ UNCHANGED <<version, tx>>
          BY <2>1, <3>3, <3>4 DEF Isolated
        <4> QED BY <4>1 DEF Scripted, ScriptRuns
      <3> QED BY <2>1, <2>2, <3>2, <3>3, <3>4 DEF Isolated
    <2>5. InTurn' /\ DoneMeansAll'
      BY <2>1, <2>2 DEF Typed, InTurn, HasColumns, DoneMeansAll
    <2>6. Unfilled' /\ RecordedApplied' /\ RecordedInOrder'
      BY <2>1, <2>2 DEF Unfilled, RecordedApplied, RecordedInOrder
    <2> QED BY <2>3, <2>4, <2>5, <2>6
  <1>2. CASE ~(lock = Nil \/ db.hasTable)
    BY <1>2 DEF Isolated
  <1> QED BY <1>1, <1>2

LEMMA ReindexStep ==
  ASSUME MigratorInv, NEW m \in Migrators, Reindex(m)
  PROVE  MigratorInv'
  <1> USE DEF MigratorInv
  <1> DEFINE v == version[m]
  <1>0. pc[m] = "reindex" /\ v \in Indexed /\ HasColumns(v) /\ db.hasTable
        /\ UNCHANGED <<tx, lock, version, applied, legacy>>
    BY DEF Reindex, InTurn
  <1>1. CASE lock = Nil \/ v \in db.index
    <2>1. /\ db' = [db EXCEPT !.index = @ \cup {v}] /\ pc' = [pc EXCEPT ![m] = "record"]
      BY <1>1 DEF Reindex, Goto
    <2>2. /\ db' \in Database /\ db'.hasTable = db.hasTable
          /\ db'.recorded = db.recorded /\ db'.built = db.built /\ db'.columns = db.columns
          /\ db'.index = db.index \cup {v} /\ db'.filled = db.filled
      BY <1>0, <2>1 DEF Typed, Database
    <2>3. lock # Nil => db' = db
      BY <1>1, <2>1 DEF Typed, Database
    <2>4. Typed'
      BY <1>0, <2>1, <2>2 DEF Typed, Labels
    <2>5. Isolated'
      <3>1. CASE lock = Nil
        BY <1>0, <2>1, <3>1, VersionsAre DEF Typed, Isolated
      <3>2. CASE lock # Nil
        BY <1>0, <2>1, <2>3, <3>2 DEF Typed, Isolated, Scripted, ScriptRuns
      <3> QED BY <3>1, <3>2
    <2>6. InTurn' /\ DoneMeansAll'
      BY <1>0, <2>1, <2>2 DEF Typed, InTurn, HasColumns, DoneMeansAll
    <2>7. Unfilled' /\ RecordedApplied' /\ RecordedInOrder'
      BY <1>0, <2>2 DEF Unfilled, RecordedApplied, RecordedInOrder
    <2> QED BY <2>4, <2>5, <2>6, <2>7
  <1>2. CASE ~(lock = Nil \/ v \in db.index)
    <2>1. UNCHANGED db /\ pc' = [pc EXCEPT ![m] = "failed"]
      BY <1>2 DEF Reindex, Goto
    <2>2. Typed'
      BY <1>0, <2>1 DEF Typed, Labels
    <2>3. Isolated'
      BY <1>0, <2>1 DEF Typed, Isolated, Scripted, ScriptRuns
    <2>4. InTurn' /\ DoneMeansAll'
      BY <1>0, <2>1 DEF Typed, InTurn, HasColumns, DoneMeansAll
    <2>5. Unfilled' /\ RecordedApplied' /\ RecordedInOrder'
      BY <1>0, <2>1 DEF Unfilled, RecordedApplied, RecordedInOrder
    <2> QED BY <2>2, <2>3, <2>4, <2>5
  <1> QED BY <1>1, <1>2

LEMMA RecordStep ==
  ASSUME MigratorInv, NEW m \in Migrators, Record(m)
  PROVE  MigratorInv'
  <1> USE DEF MigratorInv
  <1> DEFINE v == version[m]
  <1>0. /\ pc[m] = "record" /\ HasColumns(v) /\ v \in Versions
        /\ \A w \in 1..v : w = v \/ w \in db.recorded
        /\ v \in Indexed => v \in db.index
        /\ UNCHANGED <<tx, lock, version, applied, legacy>>
    BY DEF Record, InTurn
  <1>1. CASE lock = Nil
    <2>1. /\ db' = [db EXCEPT !.recorded = @ \cup {v}] /\ pc' = [pc EXCEPT ![m] = "loop"]
      BY <1>1 DEF Record, Goto
    <2>2. /\ db' \in Database /\ db'.hasTable = db.hasTable
          /\ db'.recorded = db.recorded \cup {v} /\ db'.built = db.built
          /\ db'.columns = db.columns /\ db'.index = db.index /\ db'.filled = db.filled
      BY <1>0, <2>1 DEF Typed, Database
    <2>3. Typed'
      BY <1>0, <2>1, <2>2 DEF Typed, Labels
    <2>4. Isolated'
      BY <1>0, <1>1, <2>1, VersionsAre DEF Typed, Isolated
    <2>5. InTurn'
      BY <1>0, <2>1, <2>2 DEF Typed, InTurn, HasColumns
    <2>6. DoneMeansAll'
      BY <1>0, <2>1, <2>2 DEF Typed, DoneMeansAll
    <2>7. Unfilled' /\ RecordedApplied'
      BY <1>0, <2>2 DEF Unfilled, RecordedApplied, HasColumns
    <2>8. RecordedInOrder'
      BY <1>0, <2>2 DEF RecordedInOrder
    <2> QED BY <2>3, <2>4, <2>5, <2>6, <2>7, <2>8
  <1>2. CASE lock # Nil
    <2>1. UNCHANGED db /\ pc' = [pc EXCEPT ![m] = "failed"]
      BY <1>2 DEF Record, Goto
    <2>2. Typed'
      BY <1>0, <2>1 DEF Typed, Labels
    <2>3. Isolated'
      BY <1>0, <2>1 DEF Typed, Isolated, Scripted, ScriptRuns
    <2>4. InTurn' /\ DoneMeansAll'
      BY <1>0, <2>1 DEF Typed, InTurn, HasColumns, DoneMeansAll
    <2>5. Unfilled' /\ RecordedApplied' /\ RecordedInOrder'
      BY <1>0, <2>1 DEF Unfilled, RecordedApplied, RecordedInOrder
    <2> QED BY <2>2, <2>3, <2>4, <2>5
  <1> QED BY <1>1, <1>2

LEMMA CommitStep ==
  ASSUME MigratorInv, NEW m \in Migrators, Commit(m)
  PROVE  MigratorInv'
  <1> USE DEF MigratorInv
  <1> DEFINE v == version[m]
  <1>1. /\ pc[m] = "commit" /\ lock = m /\ v \in Versions /\ ScriptRuns(db, v)
        /\ tx = IF v \in Additive THEN [db EXCEPT !.columns[v] = Columns[v]] ELSE db
        /\ \A w \in 1..v : w = v \/ w \in db.recorded
        /\ \A n \in Migrators : n # m => pc[n] \notin {"script", "commit"}
    BY DEF Commit, Isolated, Scripted, InTurn
  <1>2. /\ pc' = [pc EXCEPT ![m] = "loop"] /\ tx' = Nil /\ lock' = Nil
        /\ UNCHANGED <<version, applied, legacy>>
    BY DEF Commit, Goto
  <1>3. /\ tx \in Database /\ tx.hasTable = db.hasTable /\ tx.recorded = db.recorded
        /\ tx.built = db.built /\ tx.index = db.index /\ tx.filled = db.filled
        /\ \A w \in Additive : tx.columns[w] = IF w = v THEN Columns[v] ELSE db.columns[w]
    BY <1>1, VersionsAre DEF Typed, Database
  <1>4. /\ db' \in Database /\ db'.hasTable = db.hasTable
        /\ db'.recorded = db.recorded \cup {v}
        /\ db.built \subseteq db'.built /\ (v \notin Additive => v \in db'.built)
        /\ db'.index = db.index \cup ({v} \cap Indexed)
        /\ db'.filled = db.filled \cup ({v} \cap Additive)
        /\ db'.columns = tx.columns
    <2>1. db' = [tx EXCEPT !.built = IF v \in Additive THEN tx.built ELSE tx.built \cup {v},
                           !.index = tx.index \cup ({v} \cap Indexed),
                           !.filled = tx.filled \cup ({v} \cap Additive),
                           !.recorded = tx.recorded \cup {v}]
      BY <1>3 DEF Commit, Database
    <2>2. tx.built \cup {v} \subseteq Versions /\ tx.recorded \cup {v} \subseteq Versions
      BY <1>1, <1>3 DEF Database
    <2>3. CASE v \in Additive
      BY <1>3, <2>1, <2>2, <2>3 DEF Database
    <2>4. CASE v \notin Additive
      BY <1>3, <2>1, <2>2, <2>4 DEF Database
    <2> QED BY <2>3, <2>4
  <1>5. \A w \in Additive : db'.columns[w] = IF w = v THEN Columns[v] ELSE db.columns[w]
    BY <1>3, <1>4
  <1>6. Typed'
    BY <1>2, <1>4 DEF Typed, Labels
  <1>7. Isolated'
    BY <1>1, <1>2, VersionsAre DEF Typed, Isolated
  <1>8. InTurn'
    BY <1>1, <1>2, <1>4, <1>5, VersionsAre DEF Typed, InTurn, HasColumns
  <1>9. DoneMeansAll'
    BY <1>1, <1>2, <1>4 DEF Typed, DoneMeansAll
  <1>10. Unfilled'
    BY <1>2, <1>4, <1>5 DEF Unfilled
  <1>11. RecordedApplied'
    BY <1>1, <1>4, <1>5, VersionsAre DEF RecordedApplied
  <1>12. RecordedInOrder'
    BY <1>1, <1>4 DEF RecordedInOrder
  <1> QED BY <1>6, <1>7, <1>8, <1>9, <1>10, <1>11, <1>12

LEMMA InvNext == MigratorInv /\ [Next]_vars => MigratorInv'
  <1> SUFFICES ASSUME MigratorInv, [Next]_vars PROVE MigratorInv'
    OBVIOUS
  <1>1. CASE UNCHANGED vars
    BY <1>1 DEF vars, MigratorInv, Typed, Isolated, Scripted, ScriptRuns, InTurn, HasColumns,
                Unfilled, RecordedApplied, RecordedInOrder, DoneMeansAll
  <1>2. CASE Next
    <2> PICK m \in Migrators : Step(m) \/ ScriptFails(m) \/ StatementFails(m) \/ Crash(m)
      BY <1>2 DEF Next
    <2> QED BY PrepareStep, LoadStep, FinishStep, BeginStep, RunScriptStep, CommitStep,
               CheckStep, ReindexStep, RecordStep, RerunStep, ScriptFailsStep,
               StatementFailsStep, CrashStep DEF Step
  <1> QED BY <1>1, <1>2

LEMMA InvHolds == Spec => []MigratorInv
  BY InvInit, InvNext, PTL DEF Spec

-----------------------------------------------------------------------------
(* The database, the transaction and the migrators' variables are well     *)
(* typed, and a transaction is open exactly while its owner is in a script.*)
THEOREM MigratorTypeCorrect == Spec => []TypeOK
  <1>1. MigratorInv => TypeOK
    <2> SUFFICES ASSUME MigratorInv PROVE TypeOK
      OBVIOUS
    <2> USE DEF MigratorInv
    <2>1. lock # Nil => tx \in Database
      <3> SUFFICES ASSUME lock # Nil PROVE tx \in Database
        OBVIOUS
      <3>1. lock \in Migrators /\ pc[lock] \in {"script", "commit"}
        BY DEF Isolated
      <3>2. CASE pc[lock] = "script"
        BY <3>1, <3>2 DEF Isolated, Typed
      <3>3. CASE pc[lock] = "commit"
        <4> DEFINE v == version[lock]
        <4>1. /\ v \in Versions
              /\ tx = IF v \in Additive THEN [db EXCEPT !.columns[v] = Columns[v]] ELSE db
          BY <3>1, <3>3 DEF Isolated, Scripted
        <4> QED BY <4>1, VersionsAre DEF Typed, Database
      <3> QED BY <3>1, <3>2, <3>3
    <2> QED BY <2>1 DEF TypeOK, Typed, Isolated
  <1> QED BY <1>1, InvHolds, PTL

(* A recorded version is complete: tables, columns and index are there,    *)
(* whoever recorded it and whatever failed before.                         *)
THEOREM MigratorRecordsApplied == Spec => []RecordedApplied
  <1>1. MigratorInv => RecordedApplied
    BY DEF MigratorInv
  <1> QED BY <1>1, InvHolds, PTL

(* Versions are recorded in the order of the files, without a gap.         *)
THEOREM MigratorRecordsInOrder == Spec => []RecordedInOrder
  <1>1. MigratorInv => RecordedInOrder
    BY DEF MigratorInv
  <1> QED BY <1>1, InvHolds, PTL

(* When Apply succeeds, every version is recorded.                         *)
THEOREM MigratorDoneMeansAll == Spec => []DoneMeansAll
  <1>1. MigratorInv => DoneMeansAll
    BY DEF MigratorInv
  <1> QED BY <1>1, InvHolds, PTL

(* Columns of a recorded version are left without their values only where  *)
(* all of them were there before any migrator ran.                         *)
THEOREM MigratorFills == Spec => []FilledUnlessLegacy
  <1>1. MigratorInv => FilledUnlessLegacy
    <2> SUFFICES ASSUME MigratorInv, NEW v \in (db.recorded \cap Additive) \ db.filled
                 PROVE  legacy[v] = Columns[v]
      BY DEF FilledUnlessLegacy
    <2> QED BY DEF MigratorInv, Unfilled, RecordedApplied
  <1> QED BY <1>1, InvHolds, PTL
=============================================================================
