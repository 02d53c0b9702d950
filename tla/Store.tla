------------------------------- MODULE Store --------------------------------
(***************************************************************************)
(* internal/store, the part the flusher writes: raw_points (with points,   *)
(* which gets one row for each new raw row) and devices.last_seq_received. *)
(*                                                                         *)
(* SQLite itself is external.  A batch is one transaction.  The database   *)
(* runs in WAL mode with synchronous = NORMAL: a commit is not fsynced     *)
(* until the log is checkpointed, so a power loss may take back commits.   *)
(***************************************************************************)
EXTENDS Ingest, FiniteSets

VARIABLES
  db,           \* the committed state
  durableDb     \* the state as of the last WAL fsync

storeVars == <<db, durableDb>>

Row == [seq : Nat, point : Points]

EmptyDb == [rows |-> {}, lastSeq |-> [d \in Devices |-> 0]]

StoreInit == db = EmptyDb /\ durableDb = EmptyDb

Stored(p) == \E row \in db.rows : row.point = p

-----------------------------------------------------------------------------
(* The records to insert are those at the positions W of a batch.          *)
(* ON CONFLICT(ingest_hash) DO NOTHING: one of them is a new row unless    *)
(* its hash is in the table or earlier in the batch.                       *)
NewRows(records, W) ==
  {i \in W : /\ ~Stored(records[i].point)
             /\ \A j \in W : j < i => records[j].point # records[i].point}

(* raw_points.seq is UNIQUE too, and no conflict clause covers it.         *)
SeqConflict(records, W) ==
  \E i \in NewRows(records, W) :
    \/ \E row \in db.rows : row.seq = records[i].seq
    \/ \E j \in NewRows(records, W) : j < i /\ records[j].seq = records[i].seq

(* last_seq_received only moves forward.                                   *)
LastSeqAfter(records, W) ==
  [d \in Devices |->
     LET seqs == {records[i].seq : i \in {j \in W : DeviceOf[records[j].point] = d}}
                   \cup {db.lastSeq[d]}
     IN  CHOOSE m \in seqs : \A n \in seqs : n <= m]

(* InsertSpoolBatch commits.                                               *)
InsertSpoolBatch(records, W) ==
  /\ ~SeqConflict(records, W)
  /\ db' = [rows    |-> db.rows \cup {[seq |-> records[i].seq, point |-> records[i].point] :
                                        i \in NewRows(records, W)},
            lastSeq |-> LastSeqAfter(records, W)]
  /\ UNCHANGED durableDb

(* The transaction is rolled back as a whole.                              *)
InsertConflicts(records, W) ==
  /\ SeqConflict(records, W)
  /\ UNCHANGED storeVars

(* SQLite fsyncs the write-ahead log, on its own schedule or on Close.     *)
WalSync ==
  /\ durableDb' = db
  /\ UNCHANGED db

StorePowerLoss ==
  /\ db' \in {db, durableDb}
  /\ durableDb' = db'

-----------------------------------------------------------------------------
StoreTypeOK ==
  /\ db \in [rows : SUBSET Row, lastSeq : [Devices -> Nat]]
  /\ durableDb \in [rows : SUBSET Row, lastSeq : [Devices -> Nat]]
=============================================================================
