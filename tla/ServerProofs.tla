---------------------------- MODULE ServerProofs ----------------------------
(***************************************************************************)
(* Theorems about the ingest pipeline as a whole, for every set of points, *)
(* handlers and batches, every limit, any number of failing calls, crashes *)
(* and power losses:                                                       *)
(*                                                                         *)
(*   PipelineImplementsQueue   Spec => ImplementsQueue                     *)
(*   ServerKeepsLog            Spec => [](the promises of the spool)       *)
(*   ServerCheckpointMonotone  Spec => CheckpointMonotone                  *)
(*   AcknowledgedIsHeld        Spec => []AckedHeld                         *)
(*   ServerTypeCorrect         Spec => []ServerTypeOK                      *)
(*   SequencesStayUnique       Spec => []InsertsNeverConflict              *)
(*   RecoveryGivesUpRightly    Spec => []RecoveryGivesUp                   *)
(*                                                                         *)
(* What the spool promises is not assumed here: every step of the pipeline *)
(* is shown to be one that SpoolBufferProofs covers.                       *)
(***************************************************************************)
EXTENDS Server, SpoolBufferProofs

ReplayTyped == replay \in Seq(SpoolRecord)

Written(r) == r.checkpointOnly \/ \E row \in db.rows : row.point = r.point

(* The inductive invariant.  What the refinement needs is Flushed: between *)
(* its insert and the end of its pass, a batch is in SQLite but for its    *)
(* markers; and Lags: a power loss can only take points back.              *)
Typed ==
  /\ queue \in Seq(SpoolRecord)
  /\ batch \in Seq(SpoolRecord)
  /\ records \in [Handlers -> Seq(SpoolRecord)]
  /\ request \in [Handlers -> Seq(Points)]
  /\ todo \in Seq(Points)
  /\ done \in Seq(SpoolRecord)
  /\ nextSeq \in Nat

Flushed ==
  /\ fpc \in {"idle", "stats", "drain", "again", "stopped"} => batch = <<>>
  /\ fpc \in {"checkpoint", "write", "compact"} => \A i \in DOMAIN batch : Written(batch[i])

Lags == durableDb.rows \subseteq db.rows

QueueInv == Typed /\ Flushed /\ Lags

(* A commit leaves every record of the write batch in the table: a record  *)
(* that is not a new row has its hash there already, or earlier in the     *)
(* batch.                                                                  *)
LEMMA InsertStores ==
  ASSUME batch \in Seq(SpoolRecord), InsertSpoolBatch(batch, WriteBatch),
         NEW i \in DOMAIN batch
  PROVE  batch[i].checkpointOnly \/ \E row \in db'.rows : row.point = batch[i].point
  <1> SUFFICES ASSUME ~batch[i].checkpointOnly
               PROVE  \E row \in db'.rows : row.point = batch[i].point
    OBVIOUS
  <1>1. i \in WriteBatch
    BY DEF WriteBatch
  <1>2. db'.rows = db.rows \cup {[seq |-> batch[k].seq, point |-> batch[k].point] :
                                   k \in NewRows(batch, WriteBatch)}
    BY DEF InsertSpoolBatch
  <1>3. CASE Stored(batch[i].point)
    BY <1>2, <1>3 DEF Stored
  <1>4. CASE ~Stored(batch[i].point)
    <2> DEFINE Same == {k \in WriteBatch : batch[k].point = batch[i].point}
    <2>1. Same \in SUBSET Nat /\ Same # {}
      <3>1. DOMAIN batch = 1..Len(batch) /\ Len(batch) \in Nat
        OBVIOUS
      <3> QED BY <1>1, <3>1 DEF WriteBatch
    <2>2. PICK k \in Same : \A j \in Same : ~(j < k)
      <3> HIDE DEF Same
      <3> QED BY <2>1, FirstOf
    <2>3. k \in NewRows(batch, WriteBatch)
      BY <1>4, <2>2 DEF NewRows
    <2>4. [seq |-> batch[k].seq, point |-> batch[k].point] \in db'.rows
      BY <1>2, <2>3
    <2> QED BY <2>2, <2>4
  <1> QED BY <1>3, <1>4

LEMMA InsertGrows ==
  ASSUME InsertSpoolBatch(batch, WriteBatch)
  PROVE  /\ db.rows \subseteq db'.rows
         /\ \A row \in db'.rows \ db.rows : \E i \in DOMAIN batch : row.point = batch[i].point
         /\ durableDb' = durableDb
  BY DEF InsertSpoolBatch, NewRows, WriteBatch

-----------------------------------------------------------------------------
(* What a step of each component may do to the invariant's variables.      *)

(* Enqueue puts its records, some of them marked, behind the queue.        *)
LEMMA EnqueueAppends ==
  ASSUME NEW recs \in Seq(SpoolRecord), Enqueue(recs), queue \in Seq(SpoolRecord)
  PROVE  /\ queue' \in Seq(SpoolRecord)
         /\ \E out \in Seq(SpoolRecord) : queue' = queue \o out
  <1>1. FilterNearDuplicates(recs).out \in Seq(SpoolRecord)
    BY FilterKeepsLength
  <1>2. queue' = queue \o FilterNearDuplicates(recs).out
    BY DEF Enqueue
  <1> QED BY <1>1, <1>2, ConcatProperties

(* DrainBatch moves the front of the queue, nothing else.                  *)
LEMMA DrainMoves ==
  ASSUME queue \in Seq(SpoolRecord), DrainBatch
  PROVE  /\ queue' \in Seq(SpoolRecord) /\ batch' \in Seq(SpoolRecord)
         /\ batch' \o queue' = queue
         /\ queue = <<>> => batch' = <<>>
  <1> DEFINE n == DrainCount
  <1>1. Len(queue) \in Nat /\ n \in 0..Len(queue)
    BY BufferAssumption DEF DrainCount
  <1>2. batch' = SubSeq(queue, 1, n) /\ queue' = SubSeq(queue, n + 1, Len(queue))
    BY DEF DrainBatch
  <1> HIDE DEF n
  <1>3. queue' \in Seq(SpoolRecord) /\ batch' \in Seq(SpoolRecord) /\ Len(batch') = n
    BY <1>1, <1>2
  <1>4. batch' \o queue' = queue
    BY <1>1, <1>2, CutAt
  <1>5. ASSUME queue = <<>> PROVE batch' = <<>>
    BY <1>1, <1>3, <1>5
  <1> QED BY <1>3, <1>4, <1>5

(* The variables of the append call in progress keep their types.          *)
AppendTyped == todo \in Seq(Points) /\ done \in Seq(SpoolRecord) /\ nextSeq \in Nat

LEMMA AppendLineTyped ==
  ASSUME AppendTyped, NEW h, AppendLine(h)
  PROVE  AppendTyped'
  <1>1. todo # <<>> /\ todo' = Tail(todo) /\ nextSeq' = nextSeq + 1
        /\ done' = Append(done, NewRecord(nextSeq, Head(todo)))
    BY DEF AppendLine
  <1>2. Head(todo) \in Points /\ Tail(todo) \in Seq(Points)
    BY <1>1 DEF AppendTyped
  <1>3. NewRecord(nextSeq, Head(todo)) \in SpoolRecord
    BY <1>2 DEF AppendTyped, NewRecord, SpoolRecord
  <1> QED BY <1>1, <1>2, <1>3 DEF AppendTyped

LEMMA ReleaseTyped ==
  ASSUME nextSeq \in Nat, Release, nextSeq' = nextSeq
  PROVE  AppendTyped'
  BY DEF Release, AppendTyped

LEMMA QueueInit == Init => QueueInv
  BY DEF Init, SpoolInit, BufferInit, StoreInit, FlusherInit, EmptyDb,
         QueueInv, Typed, Flushed, Lags

-----------------------------------------------------------------------------
(* Simulation: the abstract step that each kind of step maps to.           *)

Simulated == AbstractQueue!Next \/ UNCHANGED AbstractQueue!queueVars

(* Memory and tables unchanged: a stutter, or the process starts or ends.  *)
LEMMA QuietSimulated ==
  ASSUME UNCHANGED <<queue, batch, db>>
  PROVE  Simulated
  <1>1. CASE Running' = Running
    BY <1>1 DEF Simulated, AbstractQueue!queueVars
  <1>2. CASE Running' # Running
    <2>1. Running \in BOOLEAN /\ Running' \in BOOLEAN
      BY DEF Running
    <2>2. Running' = ~Running
      BY <1>2, <2>1
    <2> QED BY <2>2 DEF Simulated, AbstractQueue!Next, AbstractQueue!Turn
  <1> QED BY <1>1, <1>2

(* Records added behind the queue are accepted.                            *)
LEMMA AcceptSimulated ==
  ASSUME NEW recs \in Seq(SpoolRecord), Enqueue(recs), UNCHANGED <<batch, db>>,
         queue \in Seq(SpoolRecord), batch \in Seq(SpoolRecord),
         Running, Running'
  PROVE  Simulated
  <1>1. PICK out \in Seq(SpoolRecord) : queue' = queue \o out
    BY EnqueueAppends
  <1> DEFINE old == batch \o queue
  <1>2. batch' \o queue' = old \o out
    BY <1>1, Regroup
  <1>3. old \in Seq(SpoolRecord)
    BY ConcatProperties
  <1> HIDE DEF old
  <1>4. /\ Len(old \o out) >= Len(old)
        /\ SubSeq(old \o out, 1, Len(old)) = old
    <2>1. /\ Len(old) \in Nat /\ Len(out) \in Nat
          /\ old \o out \in Seq(SpoolRecord)
          /\ Len(old \o out) = Len(old) + Len(out)
          /\ \A i \in 1..Len(old) : (old \o out)[i] = old[i]
      BY <1>3
    <2>2. /\ SubSeq(old \o out, 1, Len(old)) \in Seq(SpoolRecord)
          /\ Len(SubSeq(old \o out, 1, Len(old))) = Len(old)
          /\ \A i \in 1..Len(old) : SubSeq(old \o out, 1, Len(old))[i] = (old \o out)[i]
      BY <2>1
    <2>3. SubSeq(old \o out, 1, Len(old)) = old
      BY <1>3, <2>1, <2>2
    <2> QED BY <2>1, <2>3
  <1>5. AbstractQueue!Accept
    BY <1>2, <1>4 DEF AbstractQueue!Accept, old
  <1> QED BY <1>5 DEF Simulated, AbstractQueue!Next

(* A batch that leaves memory has been written.                            *)
LEMMA SettleSimulated ==
  ASSUME Typed, \A i \in DOMAIN batch : Written(batch[i]), Running, Running',
         batch' = <<>>, UNCHANGED <<queue, db>>
  PROVE  Simulated
  <1> DEFINE old == batch \o queue
             n   == Len(batch)
  <1>1. /\ queue \in Seq(SpoolRecord) /\ batch \in Seq(SpoolRecord)
        /\ n \in Nat /\ Len(queue) \in Nat
    BY DEF Typed
  <1>2. /\ old \in Seq(SpoolRecord) /\ Len(old) = n + Len(queue)
        /\ \A i \in 1..n : old[i] = batch[i]
        /\ \A i \in 1..Len(queue) : old[n + i] = queue[i]
    BY <1>1
  <1>3. batch' \o queue' = queue
    BY <1>1
  <1>4. CASE batch = <<>>
    BY <1>3, <1>4 DEF Simulated, AbstractQueue!queueVars
  <1>5. CASE batch # <<>>
    <2>1. n \in 1..Len(old)
      BY <1>1, <1>2, <1>5
    <2>2. \A i \in 1..n : AbstractQueue!Settled(old[i])
      BY <1>1, <1>2 DEF AbstractQueue!Settled, Written
    <2>3. queue = SubSeq(old, n + 1, Len(old))
      <3> HIDE DEF old, n
      <3>1. /\ SubSeq(old, n + 1, Len(old)) \in Seq(SpoolRecord)
            /\ Len(SubSeq(old, n + 1, Len(old))) = Len(queue)
            /\ \A i \in 1..Len(queue) : SubSeq(old, n + 1, Len(old))[i] = old[n + i]
        BY <1>1, <1>2, <2>1, SMTT(30)
      <3> QED BY <1>1, <1>2, <3>1
    <2>4. AbstractQueue!Settle
      <3> HIDE DEF n
      <3> QED BY <1>3, <2>1, <2>2, <2>3 DEF AbstractQueue!Settle
    <2> QED BY <2>4 DEF Simulated, AbstractQueue!Next
  <1> QED BY <1>4, <1>5

(* A commit of records that are in memory.                                 *)
LEMMA KeepSimulated ==
  ASSUME Typed, InsertSpoolBatch(batch, WriteBatch), UNCHANGED <<queue, batch>>,
         Running, Running'
  PROVE  Simulated
  <1> DEFINE kept == {row.point : row \in db.rows}
             new  == {row.point : row \in db'.rows \ db.rows}
  <1>1. kept' = kept \cup new
    BY InsertGrows
  <1>2. new \in SUBSET AbstractQueue!PendingPoints
    <2>1. ASSUME NEW row \in db'.rows \ db.rows
          PROVE  row.point \in AbstractQueue!PendingPoints
      <3>1. PICK i \in DOMAIN batch : row.point = batch[i].point
        BY InsertGrows
      <3>2. i \in DOMAIN (batch \o queue) /\ (batch \o queue)[i] = batch[i]
        BY DEF Typed
      <3> QED BY <3>1, <3>2 DEF AbstractQueue!PendingPoints
    <2> QED BY <2>1
  <1>3. AbstractQueue!Keep
    BY <1>1, <1>2 DEF AbstractQueue!Keep
  <1> QED BY <1>3 DEF Simulated, AbstractQueue!Next

(* A new process.                                                          *)
LEMMA RestartSimulated ==
  ASSUME NewProcess, db'.rows \subseteq db.rows
  PROVE  Simulated
  <1>1. queue' = <<>> /\ batch' = <<>> /\ phase' = "down"
    BY DEF NewProcess, BufferReset, FlusherReset
  <1>2. batch' \o queue' = <<>> /\ ~Running'
    BY <1>1 DEF Running
  <1>3. AbstractQueue!Restart
    BY <1>2 DEF AbstractQueue!Restart
  <1> QED BY <1>3 DEF Simulated, AbstractQueue!Next

-----------------------------------------------------------------------------
(* One lemma per group of actions: the invariant is kept and the step is   *)
(* simulated.                                                              *)

LEMMA RecoverStep ==
  ASSUME QueueInv, ReplayTyped, Recover
  PROVE  QueueInv' /\ Simulated
  <1> USE DEF QueueInv, Typed, Flushed, Lags, Written
  <1>1. Chunk \in Seq(SpoolRecord)
    <2>1. Len(replay) \in Nat /\ ChunkSize \in 0..Len(replay)
      BY BufferAssumption DEF ReplayTyped, ChunkSize
    <2> QED BY <2>1 DEF ReplayTyped, Chunk
  <1>2. CASE Boot
    BY <1>2, QuietSimulated DEF Boot, pipeVars, spoolVars, callVars, managerVars, bufferVars,
                               storeVars, flusherVars, handlerVars
  <1>3. CASE RecoverRead
    BY <1>3, QuietSimulated DEF RecoverRead, pipeVars, spoolVars, callVars, managerVars,
                               bufferVars, storeVars, flusherVars, handlerVars
  <1>4. ASSUME EnqueueChunk, phase \in {"enqueue", "retry"},
               UNCHANGED <<spoolVars, storeVars, batch, handlerVars>>
        PROVE  QueueInv' /\ Simulated
    <2>1. Running /\ Running'
      BY <1>4 DEF EnqueueChunk, Running
    <2>2. Simulated
      BY <1>1, <1>4, <2>1, AcceptSimulated DEF EnqueueChunk, storeVars
    <2>3. queue' \in Seq(SpoolRecord)
      BY <1>1, <1>4, EnqueueAppends DEF EnqueueChunk
    <2>4. QueueInv'
      BY <1>4, <2>3 DEF EnqueueChunk, spoolVars, callVars, managerVars, storeVars,
                        handlerVars, flusherVars
    <2> QED BY <2>2, <2>4
  <1>5. CASE RecoverEnqueue
    <2>1. CASE EnqueueChunk
      BY <1>4, <1>5, <2>1 DEF RecoverEnqueue
    <2>2. CASE EnqueueRefused(Chunk) /\ FlushNow
      BY <1>5, <2>2, QuietSimulated
         DEF RecoverEnqueue, EnqueueRefused, FlushNow, StartPass, spoolVars, callVars,
             managerVars, bufferVars, storeVars, handlerVars
    <2> QED BY <1>5, <2>1, <2>2 DEF RecoverEnqueue
  <1>6. CASE RecoverRetry
    <2>1. CASE EnqueueChunk
      BY <1>4, <1>6, <2>1 DEF RecoverRetry
    <2>2. CASE UNCHANGED bufferVars /\ UNCHANGED flusherVars
      BY <1>6, <2>2, QuietSimulated
         DEF RecoverRetry, spoolVars, callVars, managerVars, bufferVars, storeVars,
             handlerVars, flusherVars
    <2> QED BY <1>6, <2>1, <2>2 DEF RecoverRetry, EnqueueRefused
  <1>7. CASE RecoverFinal
    BY <1>7, QuietSimulated
       DEF RecoverFinal, FlushNow, StartPass, pipeVars, spoolVars, callVars, managerVars,
           bufferVars, storeVars, handlerVars
  <1>8. CASE RecoverFinish
    BY <1>8, QuietSimulated
       DEF RecoverFinish, pipeVars, spoolVars, callVars, managerVars, bufferVars,
           storeVars, flusherVars, handlerVars
  <1> QED BY <1>2, <1>3, <1>5, <1>6, <1>7, <1>8 DEF Recover

LEMMA HandleStep ==
  ASSUME QueueInv, NEW h \in Handlers, HandleRequest(h) \/ HandlerStep(h)
  PROVE  QueueInv' /\ Simulated
  <1> USE DEF QueueInv, Typed, Flushed, Lags, Written
  <1>1. CASE HandleRequest(h)
    <2>1. PICK pts \in Batches : request' = [request EXCEPT ![h] = pts]
      BY <1>1 DEF HandleRequest
    <2>2. request' \in [Handlers -> Seq(Points)]
      BY <2>1, IngestAssumption
    <2> QED BY <1>1, <2>2, QuietSimulated
               DEF HandleRequest, pipeVars, spoolVars, callVars, managerVars, bufferVars,
                   storeVars, flusherVars
  <1>2. CASE HandleAppend(h)
    <2> USE <1>2 DEF HandleAppend, storeVars, bufferVars, flusherVars
    <2>1. Simulated
      BY QuietSimulated
    <2>2. CASE AppendBegin(h, request[h]) /\ UNCHANGED records
      BY <2>1, <2>2 DEF AppendBegin, managerVars
    <2>3. CASE AppendLine(h) /\ UNCHANGED records
      BY <2>1, <2>3, AppendLineTyped DEF AppendTyped
    <2>4. CASE AppendReturn(h) /\ records' = [records EXCEPT ![h] = done]
      <3>1. AppendTyped'
        BY <2>4, ReleaseTyped DEF AppendReturn, managerVars
      <3> QED BY <2>1, <2>4, <3>1 DEF AppendTyped
    <2> QED BY <2>2, <2>3, <2>4
  <1>3. CASE HandleAppendFails(h)
    <2>1. Release /\ nextSeq' = nextSeq
      BY <1>3 DEF HandleAppendFails, AppendFails, AppendOpenFails, AppendWriteFails, AppendSyncFails
    <2>2. AppendTyped'
      BY <2>1, ReleaseTyped
    <2>3. request' \in [Handlers -> Seq(Points)]
      BY <1>3 DEF HandleAppendFails
    <2> QED BY <1>3, <2>2, <2>3, QuietSimulated
               DEF HandleAppendFails, AppendTyped, bufferVars, storeVars, flusherVars
  <1>4. CASE HandleEnqueue(h)
    <2>1. Running /\ Running' /\ records[h] \in Seq(SpoolRecord)
      BY <1>4 DEF HandleEnqueue, HandlerAt, Started, Running
    <2>2. Simulated
      BY <1>4, <2>1, AcceptSimulated DEF HandleEnqueue, storeVars
    <2>3. queue' \in Seq(SpoolRecord)
      BY <1>4, <2>1, EnqueueAppends DEF HandleEnqueue
    <2> QED BY <1>4, <2>2, <2>3
               DEF HandleEnqueue, spoolVars, callVars, managerVars, storeVars, flusherVars
  <1>5. CASE HandleEnqueueRefused(h)
    <2>1. request' \in [Handlers -> Seq(Points)] /\ records' \in [Handlers -> Seq(SpoolRecord)]
      BY <1>5 DEF HandleEnqueueRefused
    <2> QED BY <1>5, <2>1, QuietSimulated
               DEF HandleEnqueueRefused, pipeVars, spoolVars, callVars, managerVars, bufferVars, storeVars
  <1>6. CASE HandleRespond(h)
    <2>1. request' \in [Handlers -> Seq(Points)] /\ records' \in [Handlers -> Seq(SpoolRecord)]
      BY <1>6 DEF HandleRespond
    <2> QED BY <1>6, <2>1, QuietSimulated
               DEF HandleRespond, pipeVars, spoolVars, callVars, managerVars, bufferVars, storeVars
  <1> QED BY <1>1, <1>2, <1>3, <1>4, <1>5, <1>6 DEF HandlerStep

LEMMA FlushStep ==
  ASSUME QueueInv, FlusherRuns
  PROVE  QueueInv' /\ Simulated
  <1> USE DEF QueueInv, Typed, Flushed, Lags, Written
  <1>1. /\ Running /\ Running'
        /\ UNCHANGED <<hpc, request, records>>
    BY DEF FlusherRuns, Running, handlerVars
  <1>2. CASE PassStats
    BY <1>1, <1>2, QuietSimulated
       DEF PassStats, EndPass, GoTo, spoolVars, callVars, managerVars, bufferVars, storeVars
  <1>3. CASE FlushDrain
    <2>1. batch = <<>> /\ UNCHANGED <<db, durableDb, todo, done, nextSeq>>
      BY <1>3 DEF FlushDrain, spoolVars, callVars, managerVars, storeVars
    <2>2. /\ queue' \in Seq(SpoolRecord) /\ batch' \in Seq(SpoolRecord)
          /\ batch' \o queue' = queue
          /\ queue = <<>> => batch' = <<>>
      BY <1>3, DrainMoves DEF FlushDrain
    <2>3. batch \o queue = queue
      BY <2>1
    <2>4. Simulated
      BY <1>1, <2>1, <2>2, <2>3 DEF Simulated, AbstractQueue!queueVars
    <2>5. (fpc' \in {"idle", "stopped"} /\ queue = <<>>) \/ fpc' = "insert"
      BY <1>3 DEF FlushDrain, EndPass, GoTo
    <2> QED BY <1>1, <2>1, <2>2, <2>4, <2>5
  <1>4. CASE FlushInsert
    <2>1. Simulated
      BY <1>1, <1>4, KeepSimulated DEF FlushInsert, bufferVars
    <2>2. \A i \in DOMAIN batch : Written(batch[i])'
      BY <1>4, InsertStores DEF FlushInsert
    <2>3. Lags'
      BY <1>4, InsertGrows DEF FlushInsert
    <2> QED BY <1>1, <1>4, <2>1, <2>2, <2>3
               DEF FlushInsert, GoTo, spoolVars, callVars, managerVars, bufferVars
  <1>5. CASE FlushInsertFails
    <2>1. UNCHANGED <<db, durableDb>>
      BY <1>5 DEF FlushInsertFails, InsertConflicts, storeVars
    <2> QED BY <1>1, <1>5, <2>1, QuietSimulated
               DEF FlushInsertFails, GoTo, callVars, managerVars, bufferVars
  <1>6. CASE FlushCheckpoint
    <2>1. UNCHANGED <<todo, done, nextSeq>>
      BY <1>6 DEF FlushCheckpoint, CheckpointCurrent, CheckpointTruncate, CheckpointRefused,
                  spoolVars, callVars, managerVars
    <2>2. fpc' \in {"compact", "write", "requeue"} /\ fpc = "checkpoint"
      BY <1>6 DEF FlushCheckpoint, GoTo
    <2> QED BY <1>1, <1>6, <2>1, <2>2, QuietSimulated DEF FlushCheckpoint, bufferVars, storeVars
  <1>7. CASE FlushCheckpointWrite
    <2>1. Release /\ nextSeq' = nextSeq
      BY <1>7 DEF FlushCheckpointWrite, CheckpointWrite, CheckpointWriteFails, managerVars
    <2>2. AppendTyped'
      BY <2>1, ReleaseTyped
    <2>3. fpc' \in {"compact", "requeue"} /\ fpc = "write"
      BY <1>7 DEF FlushCheckpointWrite, GoTo
    <2> QED BY <1>1, <1>7, <2>2, <2>3, QuietSimulated
               DEF FlushCheckpointWrite, AppendTyped, bufferVars, storeVars
  <1>8. CASE FlushCompact
    <2>1. UNCHANGED <<todo, done, nextSeq>>
      BY <1>8 DEF FlushCompact, Compact, CompactFails, callVars, managerVars
    <2>2. Simulated
      BY <1>1, <1>8, SettleSimulated DEF FlushCompact, bufferVars, storeVars
    <2> QED BY <1>1, <1>8, <2>1, <2>2 DEF FlushCompact, GoTo, bufferVars, storeVars
  <1>9. CASE FlushAgain
    BY <1>1, <1>9, QuietSimulated
       DEF FlushAgain, EndPass, GoTo, spoolVars, callVars, managerVars, bufferVars, storeVars
  <1>10. CASE FlushRequeue
    <2>1. queue' = batch \o queue /\ batch' = <<>> /\ UNCHANGED <<db, durableDb, todo, done, nextSeq>>
      BY <1>10 DEF FlushRequeue, RequeueFront, spoolVars, callVars, managerVars, storeVars
    <2>2. queue' \in Seq(SpoolRecord) /\ batch' \o queue' = batch \o queue
      BY <2>1, ConcatProperties
    <2>3. Simulated
      BY <1>1, <2>1, <2>2 DEF Simulated, AbstractQueue!queueVars
    <2>4. fpc' \in {"idle", "stopped"}
      BY <1>10 DEF FlushRequeue, EndPass
    <2> QED BY <1>1, <2>1, <2>2, <2>3, <2>4
  <1> QED BY <1>2, <1>3, <1>4, <1>5, <1>6, <1>7, <1>8, <1>9, <1>10 DEF FlusherRuns, FlusherStep

(* The life of the process.                                                *)
LEMMA ProcessStep ==
  ASSUME QueueInv,
         FlusherWakes \/ Signal \/ ShutdownReturns \/ Exit \/ WalSyncs \/ Crash \/ PowerLoss
  PROVE  QueueInv' /\ Simulated
  <1> USE DEF QueueInv, Typed, Flushed, Lags, Written
  <1>1. CASE FlusherWakes
    BY <1>1, QuietSimulated
       DEF FlusherWakes, TimerTick, TriggerReceived, StopReceived, StartPass, pipeVars, spoolVars,
           callVars, managerVars, bufferVars, storeVars, handlerVars
  <1>2. CASE Signal \/ ShutdownReturns
    BY <1>2, QuietSimulated
       DEF Signal, ShutdownReturns, pipeVars, spoolVars, callVars, managerVars, bufferVars,
           storeVars, handlerVars, flusherVars
  <1>3. CASE Exit
    BY <1>3, QuietSimulated
       DEF Exit, SpoolClose, WalSync, callVars, bufferVars, handlerVars, flusherVars
  <1>4. CASE WalSyncs
    BY <1>4, QuietSimulated
       DEF WalSyncs, WalSync, spoolVars, callVars, managerVars, bufferVars, handlerVars, flusherVars
  <1>5. ASSUME NewProcess, NewManager, db'.rows \subseteq db.rows, durableDb'.rows \subseteq db'.rows
        PROVE  QueueInv' /\ Simulated
    <2>1. /\ queue' = <<>> /\ batch' = <<>> /\ todo' = <<>> /\ done' = <<>> /\ nextSeq' = 1
          /\ request' = [h \in Handlers |-> <<>>] /\ records' = [h \in Handlers |-> <<>>]
          /\ fpc' = "idle"
      BY <1>5 DEF NewProcess, NewManager, BufferReset, FlusherReset
    <2>2. QueueInv'
      BY <1>5, <2>1
    <2> QED BY <1>5, <2>2, RestartSimulated
  <1>6. CASE Crash
    BY <1>5, <1>6 DEF Crash, SpoolRestart, storeVars
  <1>7. CASE PowerLoss
    BY <1>5, <1>7 DEF PowerLoss, SpoolPowerLoss, StorePowerLoss
  <1> QED BY <1>1, <1>2, <1>3, <1>4, <1>6, <1>7

LEMMA Step ==
  ASSUME QueueInv, ReplayTyped, [Next]_vars
  PROVE  QueueInv' /\ Simulated
  <1>1. CASE UNCHANGED vars
    BY <1>1, QuietSimulated
       DEF vars, pipeVars, spoolVars, callVars, managerVars, bufferVars, storeVars, handlerVars,
           flusherVars, QueueInv, Typed, Flushed, Lags, Written
  <1>2. CASE Ended
    BY <1>1, <1>2 DEF Ended
  <1> QED BY <1>1, <1>2, RecoverStep, HandleStep, FlushStep, ProcessStep DEF Next

-----------------------------------------------------------------------------
(* Replay.                                                                 *)

LineSet(lines) == {lines[i] : i \in 1..Len(lines)}

(* What is read of a segment, line by line.                                *)
LEMMA PastUnfold ==
  ASSUME NEW lines \in Seq(SpoolRecord)
  PROVE  \E past \in [0..Len(lines) -> Seq(LineSet(lines))] :
           /\ past[0] = <<>>
           /\ \A i \in 1..Len(lines) :
                past[i] = IF lines[i].seq > checkpoint THEN Append(past[i - 1], lines[i])
                                                       ELSE past[i - 1]
           /\ PastCheckpoint(lines) = past[Len(lines)]
  <1> DEFINE n == Len(lines)
             V == Seq(LineSet(lines))
             More(i, v) == IF lines[i].seq > checkpoint THEN Append(v, lines[i]) ELSE v
             IsPast(f) == f = [i \in 0..n |-> IF i = 0 THEN <<>> ELSE More(i, f[i - 1])]
             step == [i \in 1..n |-> [v \in V |-> More(i, v)]]
             past == CHOOSE f : IsPast(f)
  <1>1. n \in Nat /\ <<>> \in V
    OBVIOUS
  <1>2. ASSUME NEW i \in 1..n, NEW v \in V
        PROVE  More(i, v) \in V
    <2>1. lines[i] \in LineSet(lines)
      BY DEF LineSet
    <2>2. Append(v, lines[i]) \in V
      BY <2>1
    <2> QED BY <2>2
  <1> HIDE DEF More, V
  <1>3. \E f : IsPast(f)
    <2>1. step \in [1..n -> [V -> V]]
      BY <1>2
    <2> HIDE DEF step
    <2>2. PICK f \in [0..n -> V] : Follows(f, n, <<>>, step)
      BY <1>1, <2>1, Iterates
    <2>3. ASSUME NEW i \in 1..n
          PROVE  f[i] = More(i, f[i - 1])
      <3>1. f[i - 1] \in V
        <4> HIDE DEF n
        <4> QED BY <1>1, <2>2
      <3>2. f[i] = step[i][f[i - 1]]
        BY <2>2 DEF Follows
      <3> QED BY <3>1, <3>2 DEF step
    <2>4. f[0] = <<>>
      BY <2>2 DEF Follows
    <2> HIDE DEF n
    <2>5. IsPast(f)
      BY <1>1, <2>2, <2>3, <2>4
    <2> QED BY <2>5
  <1>4. IsPast(past)
    BY <1>3, Zenon
  <1>5. PastCheckpoint(lines) = past[n]
    BY Zenon DEF PastCheckpoint, More
  <1> HIDE DEF past, n
  <1>6. past[0] = <<>> /\ \A i \in 1..n : past[i] = More(i, past[i - 1])
    BY <1>1, <1>4
  <1>7. past = [i \in 0..n |-> past[i]]
    BY <1>4
  <1> HIDE DEF IsPast
  <1> DEFINE G == {i \in 0..n : past[i] \in V}
  <1>8. 0 \in G
    BY <1>1, <1>6
  <1>9. \A i \in 1..n : i - 1 \in G => i \in G
    BY <1>1, <1>2, <1>6
  <1> HIDE DEF G
  <1>10. \A i \in 0..n : i \in G
    BY <1>1, <1>8, <1>9, Climb, Zenon
  <1>11. past \in [0..n -> V]
    BY <1>7, <1>10 DEF G
  <1> QED BY <1>5, <1>6, <1>11 DEF V, More, n

LEMMA PastSound ==
  ASSUME NEW lines \in Seq(SpoolRecord)
  PROVE  PastCheckpoint(lines) \in Seq(LineSet(lines))
  <1>1. Len(lines) \in 0..Len(lines)
    OBVIOUS
  <1> QED BY <1>1, PastUnfold, Zenon

(* What recovery reads, segment by segment: records of the spool.          *)
LEMMA ReplayUnfold ==
  ASSUME SpoolTypeOK
  PROVE  \E read \in [0..MaxSeq -> Seq(Spooled)] :
           /\ read[0] = <<>>
           /\ \A s \in 1..MaxSeq :
                read[s] = IF s \in DOMAIN segments
                          THEN read[s - 1] \o PastCheckpoint(segments[s].lines)
                          ELSE read[s - 1]
           /\ ReplayAfterCheckpoint = read[MaxSeq]
  <1> DEFINE V == Seq(Spooled)
             More(s, v) == IF s \in DOMAIN segments THEN v \o PastCheckpoint(segments[s].lines)
                                                   ELSE v
             IsRead(f) == f = [s \in 0..MaxSeq |-> IF s = 0 THEN <<>> ELSE More(s, f[s - 1])]
             step == [s \in 1..MaxSeq |-> [v \in V |-> More(s, v)]]
             read == CHOOSE f : IsRead(f)
  <1>1. MaxSeq \in Nat /\ <<>> \in V
    BY SpoolAssumption
  <1>2. ASSUME NEW s \in 1..MaxSeq, NEW v \in V
        PROVE  More(s, v) \in V
    <2>1. CASE s \in DOMAIN segments
      <3>1. segments[s].lines \in Seq(SpoolRecord)
        BY <2>1, FileNumbers
      <3>2. PastCheckpoint(segments[s].lines) \in Seq(LineSet(segments[s].lines))
        BY <3>1, PastSound
      <3>3. LineSet(segments[s].lines) \subseteq Spooled
        <4>1. LineSet(segments[s].lines) = LinesOf(s)
          BY <3>1 DEF LineSet, LinesOf
        <4> QED BY <2>1, <4>1 DEF Spooled
      <3>4. PastCheckpoint(segments[s].lines) \in Seq(Spooled)
        BY <3>2, <3>3, SeqMonotonic, Zenon
      <3>5. v \o PastCheckpoint(segments[s].lines) \in Seq(Spooled)
        BY <3>4, ConcatProperties
      <3> QED BY <2>1, <3>5
    <2>2. CASE s \notin DOMAIN segments
      BY <2>2
    <2> QED BY <2>1, <2>2
  <1> HIDE DEF More, V
  <1>3. \E f : IsRead(f)
    <2>1. step \in [1..MaxSeq -> [V -> V]]
      BY <1>2
    <2> HIDE DEF step
    <2>2. PICK f \in [0..MaxSeq -> V] : Follows(f, MaxSeq, <<>>, step)
      BY <1>1, <2>1, Iterates
    <2>3. ASSUME NEW s \in 1..MaxSeq
          PROVE  f[s] = More(s, f[s - 1])
      <3>1. f[s - 1] \in V
        BY <1>1, <2>2
      <3>2. f[s] = step[s][f[s - 1]]
        BY <2>2 DEF Follows
      <3> QED BY <3>1, <3>2 DEF step
    <2>4. f[0] = <<>>
      BY <2>2 DEF Follows
    <2>5. IsRead(f)
      BY <1>1, <2>2, <2>3, <2>4
    <2> QED BY <2>5
  <1>4. IsRead(read)
    BY <1>3, Zenon
  <1>5. ReplayAfterCheckpoint = read[MaxSeq]
    BY Zenon DEF ReplayAfterCheckpoint, More
  <1> HIDE DEF read
  <1>6. read[0] = <<>> /\ \A s \in 1..MaxSeq : read[s] = More(s, read[s - 1])
    BY <1>1, <1>4
  <1>7. read = [s \in 0..MaxSeq |-> read[s]]
    BY <1>4
  <1> HIDE DEF IsRead
  <1> DEFINE G == {s \in 0..MaxSeq : read[s] \in V}
  <1>8. 0 \in G
    BY <1>1, <1>6
  <1>9. \A s \in 1..MaxSeq : s - 1 \in G => s \in G
    BY <1>1, <1>2, <1>6
  <1> HIDE DEF G
  <1>10. \A s \in 0..MaxSeq : s \in G
    BY <1>1, <1>8, <1>9, Climb, Zenon
  <1>11. read \in [0..MaxSeq -> V]
    BY <1>7, <1>10 DEF G
  <1> QED BY <1>5, <1>6, <1>11 DEF V, More

LEMMA ReplaySound ==
  ASSUME SpoolTypeOK
  PROVE  ReplayAfterCheckpoint \in Seq(Spooled)
  <1>1. MaxSeq \in 0..MaxSeq
    BY SpoolAssumption
  <1> QED BY <1>1, ReplayUnfold, Zenon

-----------------------------------------------------------------------------
(* The spool inside the server.  Every step of the server is a step of the *)
(* spool on its own, or a failing insert, which counts as a fault.         *)

StoreFault ==
  /\ faults' = faults + 1
  /\ UNCHANGED <<diskVars, managerVars, callVars, spoolHist, crashVars>>

SpoolMove == [SpoolNext]_spoolVars \/ StoreFault

(* A record whose number was handed out, and one as AppendCanonicalPoints  *)
(* returns it.                                                             *)
InLog(r) == r.seq \in 1..highSeq

Fresh(r) == InLog(r) /\ ~r.checkpointOnly

Numbered ==
  /\ \A i \in DOMAIN queue : InLog(queue[i])
  /\ \A i \in DOMAIN batch : InLog(batch[i])
  /\ \A h \in Handlers : \A i \in DOMAIN records[h] : Fresh(records[h][i])
  /\ \A i \in DOMAIN replay : Fresh(replay[i])
  /\ \A i \in DOMAIN done : Fresh(done[i])

(* A handler about to append has a request, and a flush a batch.           *)
Working ==
  /\ hpc \in [Handlers -> {"idle", "append", "spool", "enqueue", "respond"}]
  /\ \A h \in Handlers : hpc[h] = "append" => request[h] \in Batches
  /\ fpc \in {"insert", "checkpoint", "write", "compact", "requeue"} => batch # <<>>

LogOK == SpoolInv /\ LogInv /\ SyncInv /\ Numbered /\ Working /\ ReplayTyped

(* A largest element of a bounded set of numbers.                          *)
LEMMA LastOf ==
  ASSUME NEW n \in Nat, NEW S \in SUBSET (0..n), S # {}
  PROVE  \E m \in S : \A k \in S : k <= m
  <1> DEFINE T == {j \in 0..n : n - j \in S}
  <1>1. T \in SUBSET Nat /\ T # {}
    <2>1. PICK k \in S : TRUE
      OBVIOUS
    <2>2. n - k \in 0..n /\ n - (n - k) = k
      OBVIOUS
    <2>3. n - k \in T
      BY <2>2
    <2>4. T \subseteq Nat
      OBVIOUS
    <2> HIDE DEF T
    <2> QED BY <2>3, <2>4
  <1>2. PICK j \in T : \A i \in T : ~(i < j)
    <2> HIDE DEF T
    <2> QED BY <1>1, FirstOf
  <1>3. n - j \in S
    BY <1>2
  <1>4. ASSUME NEW k \in S PROVE k <= n - j
    <2>1. n - k \in 0..n /\ n - (n - k) = k
      OBVIOUS
    <2>2. n - k \in T
      BY <2>1
    <2>3. ~(n - k < j)
      BY <1>2, <2>2
    <2> QED BY <1>2, <2>1, <2>3
  <1> QED BY <1>3, <1>4

(* The checkpoint is asked for a number that was handed out, the largest   *)
(* of the batch.                                                           *)
LEMMA MaxSeqInLog ==
  ASSUME batch \in Seq(SpoolRecord), batch # <<>>, highSeq \in Nat,
         \A i \in DOMAIN batch : InLog(batch[i])
  PROVE  /\ MaxSeqOf(batch) \in 1..highSeq
         /\ \E i \in DOMAIN batch : batch[i].seq = MaxSeqOf(batch)
         /\ \A i \in DOMAIN batch : batch[i].seq <= MaxSeqOf(batch)
  <1> DEFINE seqs == {batch[i].seq : i \in DOMAIN batch}
  <1>1. seqs \in SUBSET (0..highSeq) /\ seqs \subseteq 1..highSeq
    BY DEF InLog
  <1>2. seqs # {}
    <2>1. 1 \in DOMAIN batch
      OBVIOUS
    <2> QED BY <2>1
  <1>3. MaxSeqOf(batch) = CHOOSE m \in seqs : \A k \in seqs : k <= m
    BY DEF MaxSeqOf
  <1> HIDE DEF seqs
  <1>4. \E m \in seqs : \A k \in seqs : k <= m
    BY <1>1, <1>2, LastOf
  <1>5. MaxSeqOf(batch) \in seqs /\ \A k \in seqs : k <= MaxSeqOf(batch)
    BY <1>3, <1>4, Zenon
  <1> QED BY <1>1, <1>5 DEF seqs

LEMMA SpoolMoves ==
  ASSUME Typed, Numbered, Working, highSeq \in Nat, [Next]_vars
  PROVE  SpoolMove
  <1>0. ASSUME UNCHANGED spoolVars PROVE SpoolMove
    BY <1>0 DEF SpoolMove
  <1>1. CASE UNCHANGED vars \/ Ended
    BY <1>0, <1>1 DEF Ended, vars, pipeVars
  <1>2. CASE Recover
    BY <1>0, <1>2 DEF Recover, Boot, RecoverRead, RecoverEnqueue, RecoverRetry, RecoverFinal,
                      RecoverFinish, pipeVars
  <1>3. ASSUME NEW h \in Handlers, HandleRequest(h) \/ HandlerStep(h)
        PROVE  SpoolMove
    <2>1. h \in Callers
      BY ServerAssumption
    <2>2. CASE HandleRequest(h) \/ HandleEnqueue(h) \/ HandleEnqueueRefused(h) \/ HandleRespond(h)
      BY <1>0, <2>2 DEF HandleRequest, HandleEnqueue, HandleEnqueueRefused, HandleRespond, pipeVars
    <2>3. CASE HandleAppend(h)
      <3>1. CASE AppendBegin(h, request[h]) /\ HandlerAt(h, "append", "spool")
        <4>1. request[h] \in Batches
          BY <3>1 DEF HandlerAt, Working
        <4> QED BY <2>1, <3>1, <4>1 DEF SpoolMove, SpoolNext, SpoolStep
      <3>2. CASE AppendLine(h) \/ AppendReturn(h)
        BY <2>1, <3>2 DEF SpoolMove, SpoolNext, SpoolStep
      <3> QED BY <2>3, <3>1, <3>2 DEF HandleAppend
    <2>4. CASE HandleAppendFails(h)
      BY <2>1, <2>4 DEF HandleAppendFails, SpoolMove, SpoolNext, SpoolStep
    <2> QED BY <1>3, <2>2, <2>3, <2>4 DEF HandlerStep
  <1>4. CASE FlusherWakes \/ Signal \/ ShutdownReturns \/ WalSyncs
    BY <1>0, <1>4 DEF FlusherWakes, Signal, ShutdownReturns, WalSyncs, pipeVars
  <1>5. CASE FlusherRuns
    <2>1. CASE PassStats \/ FlushDrain \/ FlushInsert \/ FlushAgain \/ FlushRequeue
      BY <1>0, <2>1 DEF PassStats, FlushDrain, FlushInsert, FlushAgain, FlushRequeue
    <2>2. CASE FlushInsertFails
      <3>1. UNCHANGED <<diskVars, managerVars, callVars, spoolHist, crashVars>>
        BY <2>2 DEF FlushInsertFails
      <3>2. faults' = faults + 1 \/ UNCHANGED faults
        BY <2>2 DEF FlushInsertFails
      <3>3. CASE UNCHANGED faults
        BY <1>0, <3>1, <3>3 DEF spoolVars
      <3> QED BY <3>1, <3>2, <3>3 DEF SpoolMove, StoreFault
    <2>3. CASE FlushCheckpoint
      <3>1. MaxSeqOf(batch) \in 1..highSeq
        BY <2>3, MaxSeqInLog DEF FlushCheckpoint, Working, Numbered, Typed
      <3> DEFINE m == MaxSeqOf(batch)
      <3> HIDE DEF m
      <3>2. CheckpointCurrent(m) \/ CheckpointTruncate(FlusherCaller, m) \/ CheckpointRefused(m)
        BY <2>3 DEF FlushCheckpoint, m
      <3> QED BY <3>1, <3>2, FlusherAssumption DEF m, SpoolMove, SpoolNext, SpoolStep
    <2>4. CASE FlushCheckpointWrite
      BY <2>4, FlusherAssumption DEF FlushCheckpointWrite, SpoolMove, SpoolNext, SpoolStep
    <2>5. CASE FlushCompact
      BY <2>5 DEF FlushCompact, SpoolMove, SpoolNext
    <2> QED BY <1>5, <2>1, <2>2, <2>3, <2>4, <2>5 DEF FlusherRuns, FlusherStep
  <1>6. CASE Exit \/ Crash \/ PowerLoss
    BY <1>6 DEF Exit, Crash, PowerLoss, SpoolMove, SpoolNext
  <1> QED BY <1>1, <1>2, <1>3, <1>4, <1>5, <1>6 DEF Next

(* What such a step keeps of the spool.                                    *)
LEMMA SpoolMoveKeeps ==
  ASSUME SpoolInv, LogInv, SyncInv, SpoolMove
  PROVE  /\ SpoolInv' /\ LogInv' /\ SyncInv'
         /\ checkpoint <= checkpoint'
         /\ highSeq \in Nat /\ highSeq' \in Nat /\ highSeq <= highSeq'
  <1>0. SpoolTypeOK
    BY DEF SpoolInv
  <1>1. CASE [SpoolNext]_spoolVars
    <2>1. SpoolInv' /\ LogInv' /\ SyncInv' /\ checkpoint <= checkpoint'
      BY <1>0, <1>1, InvStep, LogStep, SyncStep
    <2>2. highSeq \in Nat /\ highSeq' \in Nat /\ nextSeq \in Nat
      BY <1>0, <2>1 DEF SpoolInv, SpoolTypeOK
    <2>3. highSeq' \in {highSeq, IF nextSeq > highSeq THEN nextSeq ELSE highSeq}
      BY <1>1 DEF SpoolNext, SpoolStep, AppendBegin, AppendLine, AppendReturn, AppendFails,
                  AppendOpenFails, AppendWriteFails, AppendSyncFails, CheckpointTruncate,
                  CheckpointWrite, CheckpointWriteFails, CheckpointCurrent, CheckpointRefused,
                  Compact, CompactFails, SpoolClose, SpoolRestart, SpoolPowerLoss, spoolHist,
                  spoolVars
    <2> QED BY <2>1, <2>2, <2>3
  <1>2. CASE StoreFault
    <2>1. /\ UNCHANGED <<segments, checkpoint, readable, nextSeq, active, unsynced, holder, todo,
                         done, target, highSeq, reused, returned, restarts, powerLosses>>
          /\ faults' = faults + 1
      BY <1>2 DEF StoreFault, diskVars, managerVars, callVars, spoolHist, crashVars
    <2>2. SpoolTypeOK'
      BY <1>0, <2>1 DEF SpoolTypeOK
    <2>3. SpoolInv'
      BY <2>1, <2>2, SMTT(30) DEF SpoolInv, CallIdle, TargetAhead, ActiveBehind, NamesBound, Kept, OnDisk
    <2>4. LogInv' /\ SyncInv'
      BY <2>1 DEF LogInv, NextBehind, LinesBelow, Unmarked, ActiveLast, Ascending, SyncInv
    <2> QED BY <1>0, <2>1, <2>3, <2>4 DEF SpoolTypeOK
  <1> QED BY <1>1, <1>2 DEF SpoolMove

(* What is in the spool was numbered and carries no mark.                  *)
LEMMA SpooledFresh ==
  ASSUME SpoolInv, LogInv, NEW r \in Spooled
  PROVE  r \in SpoolRecord /\ Fresh(r)
  <1>1. PICK s \in DOMAIN segments : r \in LinesOf(s)
    BY DEF Spooled
  <1>2. /\ segments[s].lines \in Seq(SpoolRecord) /\ Len(segments[s].lines) \in Nat
        /\ s \in Nat \ {0} /\ highSeq \in Nat
    BY FileNumbers DEF SpoolInv, SpoolTypeOK
  <1>3. PICK i \in 1..Len(segments[s].lines) : r = segments[s].lines[i]
    BY <1>1, <1>2 DEF LinesOf
  <1>4. r \in SpoolRecord
    BY <1>2, <1>3
  <1>5. r.seq \in Nat /\ s <= r.seq /\ r.seq <= highSeq /\ ~r.checkpointOnly
    BY <1>3, <1>4 DEF SpoolInv, NamesBound, LogInv, LinesBelow, Unmarked, SpoolRecord
  <1> QED BY <1>2, <1>4, <1>5 DEF Fresh, InLog

(* Enqueue gives no record a new number.                                   *)
LEMMA EnqueueNumbered ==
  ASSUME NEW recs \in Seq(SpoolRecord), \A i \in DOMAIN recs : InLog(recs[i]),
         queue \in Seq(SpoolRecord), \A i \in DOMAIN queue : InLog(queue[i]),
         Enqueue(recs), UNCHANGED highSeq
  PROVE  \A i \in DOMAIN queue' : InLog(queue[i])'
  <1> DEFINE out == FilterNearDuplicates(recs).out
  <1>1. /\ out \in Seq(SpoolRecord) /\ Len(out) = Len(recs)
        /\ \A i \in 1..Len(recs) : out[i].seq = recs[i].seq
    BY FilterKeepsLength
  <1>2. queue' = queue \o out
    BY DEF Enqueue
  <1> HIDE DEF out
  <1>3. \A i \in DOMAIN out : InLog(out[i])
    BY <1>1 DEF InLog
  <1>4. ASSUME NEW i \in DOMAIN queue'
        PROVE  InLog(queue'[i])
    <2>1. Len(queue) \in Nat /\ Len(out) \in Nat /\ i \in 1..(Len(queue) + Len(out))
      BY <1>1, <1>2, <1>4
    <2>2. CASE i <= Len(queue)
      BY <1>2, <2>1, <2>2
    <2>3. CASE i > Len(queue)
      <3>1. i - Len(queue) \in 1..Len(out) /\ queue'[i] = out[i - Len(queue)]
        BY <1>1, <1>2, <2>1, <2>3
      <3> QED BY <1>1, <1>3, <3>1
    <2> QED BY <2>1, <2>2, <2>3
  <1> QED BY <1>4 DEF InLog

(* What a step must leave of the records it does not touch.                *)
MemoryKept == UNCHANGED <<queue, batch, records, replay, done>>

LEMMA NumberedStays ==
  ASSUME Numbered, MemoryKept, highSeq \in Nat, highSeq' \in Nat, highSeq <= highSeq'
  PROVE  Numbered'
  BY DEF MemoryKept, Numbered, InLog, Fresh

LEMMA RecoverNumbered ==
  ASSUME QueueInv, LogOK, Recover
  PROVE  Numbered' /\ Working' /\ ReplayTyped'
  <1>0. UNCHANGED <<done, highSeq, batch, hpc, request, records>> /\ highSeq \in Nat
    BY DEF Recover, Boot, RecoverRead, RecoverEnqueue, RecoverRetry, RecoverFinal, RecoverFinish,
           pipeVars, spoolVars, callVars, spoolHist, handlerVars, LogOK, SpoolInv, SpoolTypeOK
  <1>1. fpc' \in {fpc, "stats"}
    BY DEF Recover, Boot, RecoverRead, RecoverEnqueue, RecoverRetry, RecoverFinal, RecoverFinish,
           EnqueueChunk, FlushNow, StartPass, flusherVars
  <1>2. Working'
    BY <1>0, <1>1 DEF LogOK, Working
  <1>3. CASE UNCHANGED <<queue, replay>>
    BY <1>0, <1>2, <1>3, NumberedStays DEF LogOK, MemoryKept, ReplayTyped
  <1>4. CASE RecoverRead
    <2>1. replay' \in {replay, ReplayAfterCheckpoint} /\ UNCHANGED queue
      BY <1>4 DEF RecoverRead, pipeVars, bufferVars
    <2>2. CASE replay' = ReplayAfterCheckpoint
      <3>1. replay' \in Seq(Spooled)
        BY <2>2, ReplaySound DEF LogOK, SpoolInv
      <3>2. \A r \in Spooled : r \in SpoolRecord /\ Fresh(r)
        BY SpooledFresh DEF LogOK
      <3>3. replay' \in Seq(SpoolRecord)
        BY <3>1, <3>2, SeqMonotonic, Zenon
      <3>4. \A i \in DOMAIN replay' : Fresh(replay'[i])
        <4>1. \A i \in DOMAIN replay' : replay'[i] \in Spooled
          BY <3>1
        <4> QED BY <3>2, <4>1
      <3> QED BY <1>0, <1>2, <2>1, <3>3, <3>4 DEF LogOK, Numbered, InLog, Fresh, ReplayTyped
    <2> QED BY <1>3, <2>1, <2>2
  <1>5. CASE EnqueueChunk
    <2>1. /\ replay \in Seq(SpoolRecord) /\ Len(replay) \in Nat
          /\ ChunkSize \in 0..Len(replay)
          /\ \A i \in DOMAIN replay : Fresh(replay[i])
      BY BufferAssumption DEF LogOK, ReplayTyped, Numbered, ChunkSize
    <2>2. /\ Chunk \in Seq(SpoolRecord)
          /\ \A i \in DOMAIN Chunk : InLog(Chunk[i])
      BY <2>1 DEF Chunk, Fresh
    <2>3. \A i \in DOMAIN queue' : InLog(queue[i])'
      BY <1>0, <1>5, <2>2, EnqueueNumbered DEF EnqueueChunk, QueueInv, Typed, LogOK, Numbered
    <2>4. replay' = SubSeq(replay, ChunkSize + 1, Len(replay))
      BY <1>5 DEF EnqueueChunk
    <2>5. /\ replay' \in Seq(SpoolRecord)
          /\ \A i \in DOMAIN replay' : Fresh(replay'[i])
      BY <2>1, <2>4
    <2> QED BY <1>0, <1>2, <2>3, <2>5 DEF LogOK, Numbered, InLog, Fresh, ReplayTyped
  <1>6. EnqueueChunk \/ RecoverRead \/ UNCHANGED <<queue, replay>>
    BY DEF Recover, Boot, RecoverEnqueue, RecoverRetry, RecoverFinal, RecoverFinish, EnqueueRefused,
           pipeVars, bufferVars
  <1> QED BY <1>3, <1>4, <1>5, <1>6

LEMMA HandleNumbered ==
  ASSUME QueueInv, LogOK, NEW h \in Handlers, HandleRequest(h) \/ HandlerStep(h),
         highSeq' \in Nat, highSeq <= highSeq'
  PROVE  Numbered' /\ Working' /\ ReplayTyped'
  <1>0. /\ UNCHANGED <<batch, replay, fpc>> /\ highSeq \in Nat
        /\ request \in [Handlers -> Seq(Points)]
        /\ records \in [Handlers -> Seq(SpoolRecord)]
        /\ hpc \in [Handlers -> {"idle", "append", "spool", "enqueue", "respond"}]
    BY DEF HandleRequest, HandlerStep, HandleAppend, HandleAppendFails, HandleEnqueue,
           HandleEnqueueRefused, HandleRespond, pipeVars, flusherVars, LogOK, SpoolInv,
           SpoolTypeOK, QueueInv, Typed, Working
  <1>1. ReplayTyped'
    BY <1>0 DEF LogOK, ReplayTyped
  <1>2. Working'
    <2>1. CASE HandleRequest(h)
      BY <1>0, <2>1 DEF HandleRequest, HandlerAt, LogOK, Working
    <2>2. CASE HandlerStep(h)
      <3>1. PICK pc \in {"idle", "spool", "enqueue", "respond"} : hpc' = [hpc EXCEPT ![h] = pc]
        BY <2>2 DEF HandlerStep, HandleAppend, HandleAppendFails, HandleEnqueue,
                    HandleEnqueueRefused, HandleRespond, HandlerAt
      <3>2. request' = request \/ request' = [request EXCEPT ![h] = <<>>]
        BY <2>2 DEF HandlerStep, HandleAppend, HandleAppendFails, HandleEnqueue,
                    HandleEnqueueRefused, HandleRespond
      <3> QED BY <1>0, <3>1, <3>2 DEF LogOK, Working
    <2> QED BY <2>1, <2>2
  <1>3. CASE MemoryKept
    BY <1>0, <1>1, <1>2, <1>3, NumberedStays DEF LogOK
  <1>4. CASE HandleRequest(h)
    BY <1>3, <1>4 DEF HandleRequest, pipeVars, spoolVars, callVars, bufferVars, MemoryKept
  <1>5. CASE HandleAppend(h)
    <2>0. UNCHANGED queue
      BY <1>5 DEF HandleAppend, bufferVars
    <2>1. CASE AppendBegin(h, request[h]) /\ UNCHANGED records
      BY <1>0, <1>3, <2>0, <2>1 DEF AppendBegin, MemoryKept
    <2>2. CASE AppendLine(h) /\ UNCHANGED records
      <3>1. /\ nextSeq \in Nat \ {0} /\ nextSeq <= highSeq'
            /\ done \in Seq(SpoolRecord)
            /\ done' = Append(done, NewRecord(nextSeq, Head(todo)))
        BY <1>0, <2>2 DEF AppendLine, LogOK, SpoolInv, SpoolTypeOK
      <3>2. \A i \in DOMAIN done' : Fresh(done[i])'
        <4>1. Len(done) \in Nat /\ DOMAIN done' = 1..(Len(done) + 1)
          BY <3>1
        <4>2. done'[Len(done) + 1] = NewRecord(nextSeq, Head(todo))
          BY <3>1
        <4>3. \A i \in 1..Len(done) : done'[i] = done[i]
          BY <3>1
        <4>4. \A i \in 1..Len(done) : Fresh(done[i])
          BY <3>1 DEF LogOK, Numbered
        <4> QED BY <1>0, <3>1, <4>1, <4>2, <4>3, <4>4 DEF Fresh, InLog, NewRecord
      <3> QED BY <1>0, <1>1, <1>2, <2>0, <2>2, <3>2 DEF LogOK, Numbered, Fresh, InLog
    <2>3. CASE AppendReturn(h) /\ records' = [records EXCEPT ![h] = done]
      <3>1. done' = <<>> /\ UNCHANGED highSeq
        BY <2>3 DEF AppendReturn, Release
      <3>2. \A k \in Handlers : records'[k] = records[k] \/ records'[k] = done
        BY <1>0, <2>3
      <3>3. \A k \in Handlers : \A i \in DOMAIN records'[k] : Fresh(records'[k][i])
        BY <3>2 DEF LogOK, Numbered
      <3> QED BY <1>0, <1>1, <1>2, <2>0, <3>1, <3>3 DEF LogOK, Numbered, Fresh, InLog
    <2> QED BY <1>5, <2>1, <2>2, <2>3 DEF HandleAppend
  <1>6. CASE HandleAppendFails(h)
    <2>1. done' = <<>> /\ UNCHANGED <<queue, records>>
      BY <1>6 DEF HandleAppendFails, AppendFails, AppendOpenFails, AppendWriteFails,
                  AppendSyncFails, Release, bufferVars
    <2> QED BY <1>0, <1>1, <1>2, <2>1 DEF LogOK, Numbered, Fresh, InLog
  <1>7. CASE HandleEnqueue(h)
    <2>1. /\ records[h] \in Seq(SpoolRecord)
          /\ \A i \in DOMAIN records[h] : InLog(records[h][i])
      BY <1>0 DEF LogOK, Numbered, Fresh
    <2>2. UNCHANGED <<highSeq, records, done>> /\ Enqueue(records[h])
      BY <1>7 DEF HandleEnqueue, spoolVars, spoolHist, callVars
    <2>3. \A i \in DOMAIN queue' : InLog(queue[i])'
      BY <2>1, <2>2, EnqueueNumbered DEF QueueInv, Typed, LogOK, Numbered
    <2> QED BY <1>0, <1>1, <1>2, <2>2, <2>3 DEF LogOK, Numbered, Fresh, InLog
  <1>8. CASE HandleEnqueueRefused(h) \/ HandleRespond(h)
    <2>1. /\ records' = [records EXCEPT ![h] = <<>>]
          /\ UNCHANGED <<queue, done, highSeq>>
      BY <1>8 DEF HandleEnqueueRefused, HandleRespond, pipeVars, spoolVars, spoolHist, callVars,
                  bufferVars
    <2>2. \A k \in Handlers : records'[k] = records[k] \/ records'[k] = <<>>
      BY <1>0, <2>1
    <2> QED BY <1>0, <1>1, <1>2, <2>1, <2>2 DEF LogOK, Numbered, Fresh, InLog
  <1> QED BY <1>4, <1>5, <1>6, <1>7, <1>8 DEF HandlerStep

LEMMA FlushNumbered ==
  ASSUME QueueInv, LogOK, FlusherRuns, highSeq' \in Nat, highSeq <= highSeq'
  PROVE  Numbered' /\ Working' /\ ReplayTyped'
  <1>0. /\ UNCHANGED <<hpc, request, records, replay>> /\ highSeq \in Nat
        /\ queue \in Seq(SpoolRecord) /\ batch \in Seq(SpoolRecord)
    BY DEF FlusherRuns, handlerVars, LogOK, SpoolInv, SpoolTypeOK, QueueInv, Typed
  <1>1. ReplayTyped'
    BY <1>0 DEF LogOK, ReplayTyped
  <1>2. done' \in {done, <<>>}
    BY DEF FlusherRuns, FlusherStep, PassStats, FlushDrain, FlushInsert, FlushInsertFails,
           FlushCheckpoint, CheckpointCurrent, CheckpointTruncate, CheckpointRefused,
           FlushCheckpointWrite, CheckpointWrite, CheckpointWriteFails, Release, FlushCompact,
           Compact, CompactFails, FlushAgain, FlushRequeue, spoolVars, callVars
  <1>3. ASSUME \A i \in DOMAIN queue' : InLog(queue'[i]),
               \A i \in DOMAIN batch' : InLog(batch'[i])
        PROVE  Numbered'
    BY <1>0, <1>2, <1>3 DEF LogOK, Numbered, Fresh, InLog
  <1>4. CASE ~FlushDrain /\ UNCHANGED <<queue, batch>>
    <2>1. Numbered'
      BY <1>3, <1>4 DEF LogOK, Numbered
    <2>2. fpc' \in {"insert", "checkpoint", "write", "compact", "requeue"}
            => fpc \in {"insert", "checkpoint", "write", "compact", "requeue"}
      BY <1>4 DEF FlusherRuns, FlusherStep, PassStats, FlushInsert, FlushInsertFails,
                  FlushCheckpoint, FlushCheckpointWrite, FlushCompact, FlushAgain, FlushRequeue,
                  GoTo, EndPass
    <2> QED BY <1>0, <1>1, <1>4, <2>1, <2>2 DEF LogOK, Working
  <1>5. CASE FlushDrain
    <2> DEFINE n == DrainCount
    <2>1. /\ Len(queue) \in Nat /\ n \in 0..Len(queue)
          /\ queue # <<>> => n # 0
      BY <1>0, BufferAssumption DEF DrainCount
    <2>2. /\ batch' = SubSeq(queue, 1, n) /\ queue' = SubSeq(queue, n + 1, Len(queue))
      BY <1>5 DEF FlushDrain, DrainBatch
    <2> HIDE DEF n
    <2>3. /\ DOMAIN batch' = 1..n /\ DOMAIN queue' = 1..(Len(queue) - n)
          /\ \A i \in 1..n : batch'[i] = queue[i]
          /\ \A i \in 1..(Len(queue) - n) : queue'[i] = queue[n + i]
      BY <1>0, <2>1, <2>2
    <2>4. Numbered'
      <3>1. \A i \in 1..Len(queue) : InLog(queue[i])
        BY <1>0 DEF LogOK, Numbered
      <3>2. ASSUME NEW i \in DOMAIN batch'
            PROVE  InLog(batch'[i])
        <4>1. i \in 1..n /\ i \in 1..Len(queue)
          BY <2>1, <2>3
        <4> QED BY <2>3, <3>1, <4>1
      <3>3. ASSUME NEW i \in DOMAIN queue'
            PROVE  InLog(queue'[i])
        <4>1. i \in 1..(Len(queue) - n) /\ n + i \in 1..Len(queue)
          BY <2>1, <2>3
        <4> QED BY <2>3, <3>1, <4>1
      <3> QED BY <1>3, <3>2, <3>3
    <2>5. queue # <<>> => batch' # <<>>
      BY <1>0, <2>1, <2>3
    <2>6. fpc' \in {"idle", "stopped"} \/ queue # <<>>
      BY <1>5 DEF FlushDrain, EndPass
    <2> QED BY <1>0, <1>1, <2>4, <2>5, <2>6 DEF LogOK, Working
  <1>6. CASE FlushCompact
    <2>1. UNCHANGED queue /\ batch' = <<>> /\ fpc' = "again"
      BY <1>6 DEF FlushCompact, GoTo, bufferVars
    <2>2. Numbered'
      BY <1>3, <2>1 DEF LogOK, Numbered
    <2> QED BY <1>0, <1>1, <2>1, <2>2 DEF LogOK, Working
  <1>7. CASE FlushRequeue
    <2>1. queue' = batch \o queue /\ batch' = <<>> /\ fpc' \in {"idle", "stopped"}
      BY <1>7 DEF FlushRequeue, RequeueFront, EndPass
    <2>2. \A i \in DOMAIN queue' : InLog(queue'[i])
      <3>1. /\ Len(batch) \in Nat /\ Len(queue) \in Nat
            /\ DOMAIN queue' = 1..(Len(batch) + Len(queue))
            /\ \A i \in 1..Len(batch) : queue'[i] = batch[i]
            /\ \A i \in 1..Len(queue) : queue'[Len(batch) + i] = queue[i]
        BY <1>0, <2>1
      <3>2. /\ \A i \in 1..Len(batch) : InLog(batch[i])
            /\ \A i \in 1..Len(queue) : InLog(queue[i])
        BY <1>0 DEF LogOK, Numbered
      <3>3. ASSUME NEW i \in DOMAIN queue', i > Len(batch)
            PROVE  i - Len(batch) \in 1..Len(queue) /\ i = Len(batch) + (i - Len(batch))
        BY <3>1, <3>3
      <3>4. ASSUME NEW i \in DOMAIN queue', i > Len(batch)
            PROVE  InLog(queue'[i])
        BY <3>1, <3>2, <3>3, <3>4
      <3>5. ASSUME NEW i \in DOMAIN queue', ~(i > Len(batch))
            PROVE  InLog(queue'[i])
        BY <3>1, <3>2, <3>5
      <3> QED BY <3>4, <3>5
    <2>3. Numbered'
      BY <1>3, <2>1, <2>2
    <2> QED BY <1>0, <1>1, <2>1, <2>3 DEF LogOK, Working
  <1>8. FlushDrain \/ FlushCompact \/ FlushRequeue \/ UNCHANGED <<queue, batch>>
    BY DEF FlusherRuns, FlusherStep, PassStats, FlushInsert, FlushInsertFails, FlushCheckpoint,
           FlushCheckpointWrite, FlushAgain, bufferVars
  <1> QED BY <1>4, <1>5, <1>6, <1>7, <1>8

LEMMA ProcessNumbered ==
  ASSUME LogOK, highSeq' \in Nat, highSeq <= highSeq',
         FlusherWakes \/ Signal \/ ShutdownReturns \/ Exit \/ WalSyncs \/ Crash \/ PowerLoss
  PROVE  Numbered' /\ Working' /\ ReplayTyped'
  <1>0. highSeq \in Nat
    BY DEF LogOK, SpoolInv, SpoolTypeOK
  <1>1. CASE FlusherWakes \/ Signal \/ ShutdownReturns \/ Exit \/ WalSyncs
    <2>1. MemoryKept /\ UNCHANGED <<hpc, request>> /\ fpc' \in {fpc, "stats", "drain"}
      BY <1>1 DEF FlusherWakes, TimerTick, TriggerReceived, StopReceived, StartPass, Signal,
                  ShutdownReturns, Exit, SpoolClose, WalSyncs, pipeVars, spoolVars, callVars,
                  bufferVars, handlerVars, flusherVars, MemoryKept
    <2>2. Numbered'
      BY <1>0, <2>1, NumberedStays DEF LogOK
    <2> QED BY <2>1, <2>2 DEF LogOK, Working, ReplayTyped, MemoryKept
  <1>2. CASE Crash \/ PowerLoss
    <2>1. /\ queue' = <<>> /\ batch' = <<>> /\ done' = <<>> /\ replay' = <<>>
          /\ hpc' = [h \in Handlers |-> "idle"]
          /\ records' = [h \in Handlers |-> <<>>]
          /\ fpc' = "idle"
      BY <1>2 DEF Crash, PowerLoss, SpoolRestart, SpoolPowerLoss, NewProcess, NewManager,
                  BufferReset, FlusherReset
    <2> QED BY <2>1 DEF Numbered, Working, ReplayTyped
  <1> QED BY <1>1, <1>2

LEMMA LogStepServer ==
  ASSUME QueueInv, LogOK, [Next]_vars
  PROVE  LogOK' /\ checkpoint <= checkpoint'
  <1>1. highSeq \in Nat
    BY DEF LogOK, SpoolInv, SpoolTypeOK
  <1>2. SpoolMove
    BY <1>1, SpoolMoves DEF LogOK, QueueInv
  <1>3. /\ SpoolInv' /\ LogInv' /\ SyncInv' /\ checkpoint <= checkpoint'
        /\ highSeq' \in Nat /\ highSeq <= highSeq'
    BY <1>2, SpoolMoveKeeps DEF LogOK
  <1>4. Numbered' /\ Working' /\ ReplayTyped'
    <2>1. CASE UNCHANGED vars \/ Ended
      <3>1. UNCHANGED vars
        BY <2>1 DEF Ended
      <3>2. MemoryKept /\ UNCHANGED <<hpc, request, fpc>>
        BY <3>1 DEF vars, pipeVars, spoolVars, callVars, bufferVars, handlerVars, flusherVars,
                    MemoryKept
      <3> QED BY <1>1, <1>3, <3>2, NumberedStays DEF LogOK, Working, ReplayTyped, MemoryKept
    <2> QED BY <1>3, <2>1, RecoverNumbered, HandleNumbered, FlushNumbered, ProcessNumbered DEF Next
  <1> QED BY <1>3, <1>4 DEF LogOK

LEMMA LogInitServer == Init => LogOK
  <1> SUFFICES ASSUME Init PROVE LogOK
    OBVIOUS
  <1>1. SpoolInv /\ LogInv /\ SyncInv
    BY InvInit, LogInit DEF Init, SpoolInit, SyncInv
  <1>2. Numbered /\ Working /\ ReplayTyped
    BY DEF Init, SpoolInit, BufferInit, FlusherInit, Numbered, Working, ReplayTyped
  <1> QED BY <1>1, <1>2 DEF LogOK

(* The invariant of the refinement, with the log's.                        *)
ServerInv == QueueInv /\ LogOK

LEMMA ServerInvInit == Init => ServerInv
  BY QueueInit, LogInitServer DEF ServerInv

LEMMA ServerInvStep == ServerInv /\ [Next]_vars => ServerInv' /\ Simulated
  BY Step, LogStepServer DEF ServerInv, LogOK

(* The ingest pipeline is a queue that loses nothing while the process     *)
(* runs: records leave memory in order, and only when they are in SQLite   *)
(* or mark a near duplicate.                                               *)
THEOREM PipelineImplementsQueue == Spec => ImplementsQueue
  <1>1. Init => AbstractQueue!Init
    BY DEF Init, BufferInit, StoreInit, FlusherInit, EmptyDb, Running, AbstractQueue!Init
  <1>2. ServerInv /\ [Next]_vars => [AbstractQueue!Next]_(AbstractQueue!queueVars)
    BY ServerInvStep DEF Simulated
  <1>3. ServerInv /\ [Next]_vars => ServerInv'
    BY ServerInvStep
  <1> QED BY <1>1, <1>2, <1>3, ServerInvInit, PTL DEF Spec, ImplementsQueue, AbstractQueue!Spec

(* The spool keeps its promises when the handlers and the flusher call it: *)
(* a replay returns, in order, every record that was returned to a handler *)
(* and is past the checkpoint; compaction judges segments by true bounds;  *)
(* a power loss costs lines of the active segment only.                    *)
THEOREM ServerKeepsLog ==
  Spec => [](ReplayComplete /\ ReplayAscending /\ SegmentNameBounds /\ SealedSegmentsSynced)
  <1>1. ServerInv => ReplayComplete /\ ReplayAscending /\ SegmentNameBounds /\ SealedSegmentsSynced
    BY KeptReplays, BoundNames, AscendingReplays
       DEF ServerInv, LogOK, SpoolInv, SyncInv, SealedSegmentsSynced
  <1>2. ServerInv /\ [Next]_vars => ServerInv'
    BY ServerInvStep
  <1> QED BY <1>1, <1>2, ServerInvInit, PTL DEF Spec

(* The flusher only ever moves the checkpoint forward, in every            *)
(* interleaving with handlers, failed writes, crashes and restarts.        *)
THEOREM ServerCheckpointMonotone == Spec => CheckpointMonotone
  <1>1. ServerInv /\ [Next]_vars => ServerInv'
    BY ServerInvStep
  <1>2. ServerInv /\ [Next]_vars => [checkpoint <= checkpoint']_spoolVars
    BY LogStepServer DEF ServerInv
  <1> QED BY <1>1, <1>2, ServerInvInit, PTL DEF Spec, CheckpointMonotone

-----------------------------------------------------------------------------
(* What was acknowledged is held.  A record in memory may be a marker, and *)
(* then the point it repeats has to reach SQLite no later than the marker  *)
(* leaves memory: it is stored, or plain and no later in the queue.        *)

Pending == batch \o queue

Held(p) == InMemory(p) \/ SafeInDb(p)

MemoryBacked ==
  \A i \in DOMAIN Pending :
    \E q \in Points :
      /\ StandsFor(q, Pending[i].point)
      /\ Stored(q) \/ \E j \in 1..i : Plain(Pending, j, q)

(* What the buffer compares the next points with is stored or to be stored. *)
LastBacked ==
  \A d \in Names :
    lastByDevice[d] \in Points =>
      \/ Stored(lastByDevice[d])
      \/ \E j \in DOMAIN Pending : Plain(Pending, j, lastByDevice[d])

BackedInv == lastByDevice \in LastPoints /\ MemoryBacked /\ LastBacked

(* Where the points of a request are until it is answered.                 *)
Placed(h) ==
  /\ hpc[h] = "spool" =>
       /\ holder = h
       /\ \A i \in DOMAIN request[h] :
            \/ \E j \in DOMAIN done : done[j].point = request[h][i]
            \/ \E j \in DOMAIN todo : todo[j] = request[h][i]
  /\ hpc[h] = "enqueue" =>
       \A i \in DOMAIN request[h] :
         \E j \in DOMAIN records[h] : records[h][j].point = request[h][i]
  /\ hpc[h] = "respond" => \A i \in DOMAIN request[h] : Held(request[h][i])

InFlight == \A h \in Handlers : Placed(h)

HeldInv == BackedInv /\ InFlight /\ AckedHeld

(* The positions of the batch and the queue in what is pending.            *)
LEMMA PendingParts ==
  ASSUME NEW s \in Seq(SpoolRecord), NEW t \in Seq(SpoolRecord)
  PROVE  /\ Len(s) \in Nat /\ Len(t) \in Nat
         /\ DOMAIN s = 1..Len(s) /\ DOMAIN t = 1..Len(t)
         /\ s \o t \in Seq(SpoolRecord)
         /\ DOMAIN (s \o t) = 1..(Len(s) + Len(t))
         /\ \A i \in 1..Len(s) : (s \o t)[i] = s[i]
         /\ \A i \in 1..Len(t) : (s \o t)[Len(s) + i] = t[i]
         /\ \A i \in 1..(Len(s) + Len(t)) : i > Len(s) =>
              i - Len(s) \in 1..Len(t) /\ (s \o t)[i] = t[i - Len(s)]
  <1>1. /\ Len(s) \in Nat /\ Len(t) \in Nat
        /\ DOMAIN s = 1..Len(s) /\ DOMAIN t = 1..Len(t)
        /\ s \o t \in Seq(SpoolRecord)
        /\ DOMAIN (s \o t) = 1..(Len(s) + Len(t))
    OBVIOUS
  <1>2. \A i \in 1..Len(s) : (s \o t)[i] = s[i]
    OBVIOUS
  <1>3. \A i \in 1..(Len(s) + Len(t)) : i > Len(s) =>
           i - Len(s) \in 1..Len(t) /\ (s \o t)[i] = t[i - Len(s)]
    OBVIOUS
  <1>4. \A i \in 1..Len(t) : (s \o t)[Len(s) + i] = t[i]
    OBVIOUS
  <1> QED BY <1>1, <1>2, <1>3, <1>4

HasPoint(s, p) == \E i \in DOMAIN s : s[i].point = p

LEMMA AmongPending ==
  ASSUME NEW s \in Seq(SpoolRecord), NEW t \in Seq(SpoolRecord), NEW p
  PROVE  HasPoint(s \o t, p) <=> HasPoint(s, p) \/ HasPoint(t, p)
  <1>1. ASSUME NEW k \in DOMAIN s, s[k].point = p
        PROVE  HasPoint(s \o t, p)
    <2>1. k \in 1..(Len(s) + Len(t)) /\ (s \o t)[k] = s[k]
      BY PendingParts
    <2> QED BY <1>1, <2>1, PendingParts DEF HasPoint
  <1>2. ASSUME NEW k \in DOMAIN t, t[k].point = p
        PROVE  HasPoint(s \o t, p)
    <2>1. Len(s) + k \in 1..(Len(s) + Len(t)) /\ (s \o t)[Len(s) + k] = t[k]
      BY PendingParts
    <2> QED BY <1>2, <2>1, PendingParts DEF HasPoint
  <1>3. ASSUME NEW i \in DOMAIN (s \o t), (s \o t)[i].point = p
        PROVE  HasPoint(s, p) \/ HasPoint(t, p)
    BY <1>3, PendingParts DEF HasPoint
  <1> QED BY <1>1, <1>2, <1>3 DEF HasPoint

LEMMA InMemoryIs == \A p : InMemory(p) <=> HasPoint(queue, p) \/ HasPoint(batch, p)
  BY DEF InMemory, HasPoint

(* Memory and its order unchanged, and no row lost.                        *)
LEMMA QuietBacked ==
  ASSUME Typed, BackedInv, UNCHANGED lastByDevice, db.rows \subseteq db'.rows,
         \/ UNCHANGED <<queue, batch>>
         \/ queue' \in Seq(SpoolRecord) /\ batch' \in Seq(SpoolRecord) /\ Pending' = Pending
  PROVE  BackedInv' /\ \A p : Held(p) => Held(p)'
  <1>1. \A q : Stored(q) => Stored(q)'
    BY DEF Stored
  <1>2. Pending' = Pending
    BY DEF Pending
  <1>3. BackedInv'
    <2>1. MemoryBacked'
      BY <1>1, <1>2 DEF BackedInv, MemoryBacked
    <2>2. LastBacked'
      BY <1>1, <1>2 DEF BackedInv, LastBacked
    <2> QED BY <2>1, <2>2 DEF BackedInv
  <1>4. ASSUME NEW p, SafeInDb(p) PROVE SafeInDb(p)'
    BY <1>1, <1>4 DEF SafeInDb
  <1>5. ASSUME NEW p, InMemory(p) PROVE InMemory(p)'
    <2>1. CASE UNCHANGED <<queue, batch>>
      BY <1>5, <2>1 DEF InMemory
    <2>2. CASE queue' \in Seq(SpoolRecord) /\ batch' \in Seq(SpoolRecord)
      <3>1. batch \in Seq(SpoolRecord) /\ queue \in Seq(SpoolRecord)
        BY DEF Typed
      <3>2. HasPoint(Pending, p)
        BY <1>5, <3>1, AmongPending, InMemoryIs DEF Pending
      <3> DEFINE b == batch'
                 q == queue'
      <3>3. /\ HasPoint(b \o q, p) /\ b \in Seq(SpoolRecord) /\ q \in Seq(SpoolRecord)
        BY <1>2, <2>2, <3>2 DEF Pending
      <3> HIDE DEF b, q
      <3>4. HasPoint(b, p) \/ HasPoint(q, p)
        BY <3>3, AmongPending
      <3> QED BY <3>4 DEF InMemory, HasPoint, b, q
    <2> QED BY <2>1, <2>2
  <1> QED BY <1>3, <1>4, <1>5 DEF Held

(* New records behind the queue.                                           *)
LEMMA EnqueueBacked ==
  ASSUME Typed, BackedInv, UNCHANGED <<batch, db>>,
         NEW recs \in Seq(SpoolRecord), \A i \in DOMAIN recs : ~recs[i].checkpointOnly,
         Enqueue(recs)
  PROVE  /\ BackedInv'
         /\ \A p : Held(p) => Held(p)'
         /\ \A i \in DOMAIN recs : Held(recs[i].point)'
  <1> DEFINE out  == FilterNearDuplicates(recs).out
             last == FilterNearDuplicates(recs).last
             old  == Pending
             m    == Len(old)
             n    == Len(out)
             new  == old \o out
  <1>0. lastByDevice \in LastPoints /\ queue \in Seq(SpoolRecord) /\ batch \in Seq(SpoolRecord)
    BY DEF BackedInv, Typed
  <1>1. /\ last \in LastPoints
        /\ out \in Seq(SpoolRecord) /\ n = Len(recs)
        /\ \A i \in 1..n : out[i].point = recs[i].point
    BY <1>0, FilterStands
  <1>2. ASSUME NEW i \in 1..n, out[i].checkpointOnly
        PROVE  \E q \in Points :
                 /\ <<recs[i].point, q>> \in NearPairs
                 /\ \/ \E d \in Names : lastByDevice[d] = q
                    \/ \E j \in 1..i : Plain(out, j, q)
    BY <1>0, <1>1, <1>2, FilterStands
  <1>3. ASSUME NEW d \in Names
        PROVE  \/ last[d] = lastByDevice[d]
               \/ \E j \in 1..n : Plain(out, j, last[d])
    BY <1>0, <1>1, FilterStands
  <1>4. queue' = queue \o out /\ lastByDevice' = last
    BY DEF Enqueue
  <1> HIDE DEF out, last
  <1>5. Pending' = new /\ old \in Seq(SpoolRecord)
    <2>1. batch \o (queue \o out) = (batch \o queue) \o out
      BY <1>0, <1>1, Regroup
    <2> QED BY <1>0, <1>4, <2>1, ConcatProperties DEF Pending
  <1>6. \A q : Stored(q)' <=> Stored(q)
    BY DEF Stored
  <1> HIDE DEF old
  <1>7. /\ m \in Nat /\ n \in Nat /\ DOMAIN old = 1..m
        /\ DOMAIN new = 1..(m + n)
        /\ \A i \in 1..m : new[i] = old[i]
        /\ \A i \in 1..n : new[m + i] = out[i]
        /\ \A i \in 1..(m + n) : i > m => i - m \in 1..n /\ new[i] = out[i - m]
    BY <1>1, <1>5, PendingParts
  <1> HIDE DEF m, n, new
  <1>8. /\ \A j \in 1..m : \A q : Plain(old, j, q) => Plain(new, j, q)
        /\ \A j \in 1..n : \A q : Plain(out, j, q) => Plain(new, m + j, q)
    BY <1>7 DEF Plain
  <1>9. ASSUME NEW d \in Names, lastByDevice[d] \in Points
        PROVE  Stored(lastByDevice[d]) \/ \E j \in 1..m : Plain(new, j, lastByDevice[d])
    <2>1. Stored(lastByDevice[d]) \/ \E j \in DOMAIN old : Plain(old, j, lastByDevice[d])
      BY <1>9 DEF BackedInv, LastBacked, old
    <2> QED BY <1>7, <1>8, <2>1
  <1>10. MemoryBacked'
    <2>1. ASSUME NEW i \in 1..(m + n)
          PROVE  \E q \in Points : /\ StandsFor(q, new[i].point)
                                   /\ Stored(q) \/ \E j \in 1..i : Plain(new, j, q)
      <3>1. CASE i <= m
        <4>1. i \in 1..m /\ i \in DOMAIN old /\ new[i] = old[i]
          BY <1>7, <2>1, <3>1
        <4>2. PICK q \in Points : /\ StandsFor(q, old[i].point)
                                  /\ Stored(q) \/ \E j \in 1..i : Plain(old, j, q)
          BY <4>1 DEF BackedInv, MemoryBacked, old
        <4>3. \A j \in 1..i : j \in 1..m
          BY <1>7, <4>1
        <4>4. CASE Stored(q)
          BY <4>1, <4>2, <4>4
        <4>5. CASE \E j \in 1..i : Plain(old, j, q)
          <5>1. PICK j \in 1..i : Plain(old, j, q)
            BY <4>5
          <5>2. Plain(new, j, q)
            BY <1>8, <4>3, <5>1
          <5> QED BY <4>1, <4>2, <5>2
        <4> QED BY <4>2, <4>4, <4>5
      <3>2. CASE i > m
        <4> DEFINE k == i - m
        <4>1. k \in 1..n /\ new[i] = out[k] /\ m + k = i
          BY <1>7, <2>1, <3>2
        <4> HIDE DEF k
        <4>2. out[k].point = recs[k].point /\ out[k].point \in Points
          <5>1. out[k] \in SpoolRecord
            BY <1>1, <4>1 DEF n
          <5> QED BY <1>1, <4>1, <5>1 DEF SpoolRecord
        <4>3. CASE ~out[k].checkpointOnly
          <5>1. Plain(new, i, out[k].point) /\ StandsFor(out[k].point, new[i].point) /\ i \in 1..i
            BY <1>7, <2>1, <4>1, <4>3 DEF Plain, StandsFor
          <5> QED BY <4>2, <5>1
        <4>4. CASE out[k].checkpointOnly
          <5>1. PICK q \in Points :
                  /\ <<recs[k].point, q>> \in NearPairs
                  /\ \/ \E d \in Names : lastByDevice[d] = q
                     \/ \E j \in 1..k : Plain(out, j, q)
            BY <1>2, <4>1, <4>4
          <5>2. StandsFor(q, new[i].point)
            BY <4>1, <4>2, <5>1 DEF StandsFor
          <5>3. CASE \E d \in Names : lastByDevice[d] = q
            <6>1. Stored(q) \/ \E j \in 1..m : Plain(new, j, q)
              BY <1>9, <5>3
            <6>2. \A j \in 1..m : j \in 1..i
              BY <1>7, <2>1, <3>2
            <6> QED BY <5>2, <6>1, <6>2
          <5>4. CASE \E j \in 1..k : Plain(out, j, q)
            <6>1. PICK j \in 1..k : Plain(out, j, q)
              BY <5>4
            <6>2. j \in 1..n /\ m + j \in 1..i
              BY <1>7, <4>1
            <6>3. Plain(new, m + j, q)
              BY <1>8, <6>1, <6>2
            <6> QED BY <5>2, <6>2, <6>3
          <5> QED BY <5>1, <5>3, <5>4
        <4> QED BY <4>3, <4>4
      <3> QED BY <1>7, <2>1, <3>1, <3>2
    <2> QED BY <1>5, <1>6, <1>7, <2>1 DEF MemoryBacked
  <1>11. LastBacked'
    <2>1. ASSUME NEW d \in Names, last[d] \in Points
          PROVE  Stored(last[d]) \/ \E j \in 1..(m + n) : Plain(new, j, last[d])
      <3>1. CASE last[d] = lastByDevice[d]
        <4>1. Stored(last[d]) \/ \E j \in 1..m : Plain(new, j, last[d])
          BY <1>9, <2>1, <3>1
        <4>2. \A j \in 1..m : j \in 1..(m + n)
          BY <1>7
        <4> QED BY <4>1, <4>2
      <3>2. CASE \E j \in 1..n : Plain(out, j, last[d])
        <4>1. PICK j \in 1..n : Plain(out, j, last[d])
          BY <3>2
        <4>2. m + j \in 1..(m + n) /\ Plain(new, m + j, last[d])
          BY <1>7, <1>8, <4>1
        <4> QED BY <4>2
      <3> QED BY <1>3, <3>1, <3>2
    <2> QED BY <1>4, <1>5, <1>6, <1>7, <2>1 DEF LastBacked
  <1>12. ASSUME NEW p PROVE HasPoint(queue', p) <=> HasPoint(queue, p) \/ HasPoint(out, p)
    BY <1>0, <1>1, <1>4, AmongPending
  <1>13. ASSUME NEW p, Held(p) PROVE Held(p)'
    <2>1. SafeInDb(p) => SafeInDb(p)'
      BY <1>6 DEF SafeInDb
    <2>2. HasPoint(queue, p) => InMemory(p)'
      BY <1>12 DEF InMemory, HasPoint
    <2> QED BY <1>13, <2>1, <2>2, InMemoryIs DEF Held, InMemory, HasPoint
  <1>14. ASSUME NEW i \in DOMAIN recs PROVE Held(recs[i].point)'
    <2>1. i \in DOMAIN out /\ out[i].point = recs[i].point
      BY <1>1 DEF n
    <2>2. HasPoint(queue', recs[i].point)
      BY <1>12, <2>1 DEF HasPoint
    <2> QED BY <2>2 DEF Held, InMemory, HasPoint
  <1> QED BY <1>1, <1>4, <1>10, <1>11, <1>13, <1>14 DEF BackedInv

(* A written batch leaves memory.                                          *)
LEMMA SettleBacked ==
  ASSUME Typed, BackedInv, \A i \in DOMAIN batch : Written(batch[i]),
         batch' = <<>>, UNCHANGED <<queue, lastByDevice, db>>
  PROVE  BackedInv' /\ \A p : Held(p) => Held(p)'
  <1> DEFINE n   == Len(batch)
             old == Pending
  <1>0. queue \in Seq(SpoolRecord) /\ batch \in Seq(SpoolRecord)
    BY DEF Typed
  <1>1. /\ n \in Nat /\ Len(queue) \in Nat
        /\ DOMAIN batch = 1..n /\ DOMAIN queue = 1..Len(queue)
        /\ DOMAIN old = 1..(n + Len(queue))
        /\ \A i \in 1..n : old[i] = batch[i]
        /\ \A i \in 1..Len(queue) : old[n + i] = queue[i]
        /\ \A i \in 1..(n + Len(queue)) : i > n =>
             i - n \in 1..Len(queue) /\ old[i] = queue[i - n]
    BY <1>0, PendingParts DEF Pending
  <1>2. Pending' = queue
    BY <1>0 DEF Pending
  <1>3. \A q : Stored(q)' <=> Stored(q)
    BY DEF Stored
  <1>4. \A j \in 1..n : \A q : Plain(old, j, q) => Stored(q)
    BY <1>1 DEF Plain, Written, Stored
  <1> HIDE DEF n, old
  <1>5. ASSUME NEW i \in 1..Len(queue)
        PROVE  \E q \in Points : /\ StandsFor(q, queue[i].point)
                                 /\ Stored(q) \/ \E j \in 1..i : Plain(queue, j, q)
    <2>1. n + i \in DOMAIN old /\ old[n + i] = queue[i]
      BY <1>1
    <2>2. PICK q \in Points : /\ StandsFor(q, queue[i].point)
                              /\ Stored(q) \/ \E j \in 1..(n + i) : Plain(old, j, q)
      BY <2>1 DEF BackedInv, MemoryBacked, old
    <2>3. ASSUME NEW j \in 1..(n + i), Plain(old, j, q), ~Stored(q)
          PROVE  \E k \in 1..i : Plain(queue, k, q)
      <3>1. j > n /\ j \in 1..(n + Len(queue))
        BY <1>1, <1>4, <2>3
      <3>2. j - n \in 1..i /\ old[j] = queue[j - n]
        BY <1>1, <3>1
      <3> QED BY <2>3, <3>2 DEF Plain
    <2>4. Stored(q) \/ \E j \in 1..i : Plain(queue, j, q)
      BY <2>2, <2>3
    <2> QED BY <2>2, <2>4
  <1>6. MemoryBacked'
    BY <1>1, <1>2, <1>3, <1>5 DEF MemoryBacked
  <1>7. LastBacked'
    <2>1. ASSUME NEW d \in Names, lastByDevice[d] \in Points, ~Stored(lastByDevice[d])
          PROVE  \E k \in 1..Len(queue) : Plain(queue, k, lastByDevice[d])
      <3>1. PICK j \in DOMAIN old : Plain(old, j, lastByDevice[d])
        BY <2>1 DEF BackedInv, LastBacked, old
      <3>2. j \in 1..(n + Len(queue)) /\ j > n
        BY <1>1, <1>4, <2>1, <3>1
      <3>3. j - n \in 1..Len(queue) /\ old[j] = queue[j - n]
        BY <1>1, <3>2
      <3> QED BY <3>1, <3>3 DEF Plain
    <2> QED BY <1>1, <1>2, <1>3, <2>1 DEF LastBacked
  <1>8. ASSUME NEW p, Held(p) PROVE Held(p)'
    <2>1. CASE SafeInDb(p) \/ \E i \in DOMAIN queue : queue[i].point = p
      BY <1>3, <2>1 DEF Held, SafeInDb, InMemory
    <2>2. CASE \E i \in DOMAIN batch : batch[i].point = p
      <3>1. PICK i \in 1..n : batch[i].point = p
        BY <1>1, <2>2
      <3>2. i \in DOMAIN old /\ old[i].point = p
        BY <1>1, <3>1
      <3>3. PICK q \in Points : /\ StandsFor(q, p)
                                /\ Stored(q) \/ \E j \in 1..i : Plain(old, j, q)
        BY <3>2 DEF BackedInv, MemoryBacked, old
      <3>4. \A j \in 1..i : j \in 1..n
        BY <1>1, <3>1
      <3>5. Stored(q)
        BY <1>4, <3>3, <3>4
      <3>6. Stored(q)'
        BY <1>3, <3>5
      <3> QED BY <3>3, <3>6 DEF Held, SafeInDb
    <2> QED BY <1>8, <2>1, <2>2 DEF Held, InMemory
  <1> QED BY <1>6, <1>7, <1>8 DEF BackedInv

LEMMA HeldInit == Init => HeldInv
  BY BufferAssumption
     DEF Init, BufferInit, FlusherInit, HeldInv, BackedInv, MemoryBacked, LastBacked, InFlight,
         Placed, AckedHeld, Pending, LastPoints

(* A step that leaves a handler alone: either the append in progress goes  *)
(* on, or it is not this handler's.                                        *)
LEMMA PlacedStays ==
  ASSUME NEW h \in Handlers, Placed(h), \A p : Held(p) => Held(p)',
         hpc'[h] = hpc[h], request'[h] = request[h], records'[h] = records[h],
         UNCHANGED <<holder, todo, done>> \/ holder # h
  PROVE  Placed(h)'
  <1>1. CASE hpc[h] = "respond"
    BY <1>1 DEF Placed
  <1>2. CASE hpc[h] # "respond"
    BY <1>2 DEF Placed
  <1> QED BY <1>1, <1>2

LEMMA HandlersStay ==
  ASSUME InFlight, AckedHeld, \A p : Held(p) => Held(p)',
         UNCHANGED <<hpc, request, records, ackedHere>>,
         UNCHANGED <<holder, todo, done>> \/ \A h \in Handlers : holder # h
  PROVE  InFlight' /\ AckedHeld'
  <1>1. AckedHeld'
    BY DEF AckedHeld, Held
  <1>2. ASSUME NEW h \in Handlers PROVE Placed(h)'
    BY PlacedStays DEF InFlight
  <1> QED BY <1>1, <1>2 DEF InFlight

LEMMA RecoverHeld ==
  ASSUME ServerInv, HeldInv, Recover
  PROVE  HeldInv' /\ \A p : Held(p) => Held(p)'
  <1>0. /\ UNCHANGED <<hpc, request, records, ackedHere, holder, todo, done, batch, db>>
        /\ Typed /\ BackedInv /\ InFlight /\ AckedHeld
    BY DEF Recover, Boot, RecoverRead, RecoverEnqueue, RecoverRetry, RecoverFinal, RecoverFinish,
           pipeVars, spoolVars, callVars, storeVars, handlerVars, ackVars, ServerInv, QueueInv,
           HeldInv
  <1>1. BackedInv' /\ \A p : Held(p) => Held(p)'
    <2>1. CASE EnqueueChunk
      <3>1. /\ replay \in Seq(SpoolRecord) /\ Len(replay) \in Nat
            /\ ChunkSize \in 0..Len(replay)
            /\ \A i \in DOMAIN replay : Fresh(replay[i])
        BY BufferAssumption DEF ServerInv, LogOK, ReplayTyped, Numbered, ChunkSize
      <3>2. /\ Chunk \in Seq(SpoolRecord)
            /\ \A i \in DOMAIN Chunk : ~Chunk[i].checkpointOnly
        BY <3>1 DEF Chunk, Fresh
      <3> QED BY <1>0, <2>1, <3>2, EnqueueBacked DEF EnqueueChunk
    <2>2. CASE UNCHANGED <<queue, lastByDevice>>
      BY <1>0, <2>2, QuietBacked
    <2> QED BY <2>1, <2>2 DEF Recover, Boot, RecoverRead, RecoverEnqueue, RecoverRetry,
                              RecoverFinal, RecoverFinish, EnqueueRefused, pipeVars, bufferVars
  <1>2. InFlight' /\ AckedHeld'
    BY <1>0, <1>1, HandlersStay
  <1> QED BY <1>1, <1>2 DEF HeldInv

LEMMA FlushHeld ==
  ASSUME ServerInv, HeldInv, FlusherRuns
  PROVE  HeldInv' /\ \A p : Held(p) => Held(p)'
  <1>0. /\ UNCHANGED <<hpc, request, records, ackedHere>>
        /\ Typed /\ BackedInv /\ InFlight /\ AckedHeld
        /\ queue \in Seq(SpoolRecord) /\ batch \in Seq(SpoolRecord)
    BY DEF FlusherRuns, handlerVars, ackVars, ServerInv, QueueInv, HeldInv, Typed
  <1>1. UNCHANGED <<holder, todo, done>> \/ \A h \in Handlers : holder # h
    <2>1. CASE FlushCheckpoint
      <3>1. holder = NoCaller
        BY <2>1 DEF FlushCheckpoint, CheckpointCurrent, CheckpointTruncate, CheckpointRefused
      <3> QED BY <3>1, SpoolAssumption, ServerAssumption
    <2>2. CASE FlushCheckpointWrite
      <3>1. holder = FlusherCaller
        BY <2>2 DEF FlushCheckpointWrite, CheckpointWrite, CheckpointWriteFails
      <3> QED BY <3>1, ServerAssumption
    <2> QED BY <2>1, <2>2 DEF FlusherRuns, FlusherStep, PassStats, FlushDrain, FlushInsert,
                              FlushInsertFails, FlushCompact, Compact, CompactFails, FlushAgain,
                              FlushRequeue, spoolVars, callVars
  <1>2. BackedInv' /\ \A p : Held(p) => Held(p)'
    <2>1. CASE UNCHANGED <<queue, batch, lastByDevice>> /\ db.rows \subseteq db'.rows
      BY <1>0, <2>1, QuietBacked
    <2>2. CASE PassStats \/ FlushInsertFails \/ FlushCheckpoint \/ FlushCheckpointWrite \/ FlushAgain
      BY <2>1, <2>2 DEF PassStats, FlushInsertFails, InsertConflicts, FlushCheckpoint,
                        FlushCheckpointWrite, FlushAgain, bufferVars, storeVars
    <2>3. CASE FlushInsert
      BY <2>1, <2>3, InsertGrows DEF FlushInsert, bufferVars
    <2>4. CASE FlushDrain
      <3>1. /\ queue' \in Seq(SpoolRecord) /\ batch' \in Seq(SpoolRecord)
            /\ batch' \o queue' = queue
        BY <1>0, <2>4, DrainMoves DEF FlushDrain
      <3>2. batch = <<>> /\ UNCHANGED <<db, lastByDevice>>
        BY <2>4 DEF FlushDrain, DrainBatch, storeVars, ServerInv, QueueInv, Flushed
      <3>3. Pending' = Pending
        BY <1>0, <3>1, <3>2 DEF Pending
      <3> QED BY <1>0, <3>1, <3>2, <3>3, QuietBacked
    <2>5. CASE FlushRequeue
      <3>1. queue' = batch \o queue /\ batch' = <<>> /\ UNCHANGED <<db, lastByDevice>>
        BY <2>5 DEF FlushRequeue, RequeueFront, storeVars
      <3>2. queue' \in Seq(SpoolRecord) /\ batch' \in Seq(SpoolRecord)
        BY <1>0, <3>1, ConcatProperties
      <3>3. Pending' = Pending
        BY <1>0, <3>1, <3>2 DEF Pending
      <3> QED BY <1>0, <3>1, <3>2, <3>3, QuietBacked
    <2>6. CASE FlushCompact
      <3>1. /\ \A i \in DOMAIN batch : Written(batch[i])
            /\ batch' = <<>> /\ UNCHANGED <<queue, lastByDevice, db>>
        BY <2>6 DEF FlushCompact, bufferVars, storeVars, ServerInv, QueueInv, Flushed
      <3> QED BY <1>0, <3>1, SettleBacked
    <2> QED BY <2>2, <2>3, <2>4, <2>5, <2>6 DEF FlusherRuns, FlusherStep
  <1>3. InFlight' /\ AckedHeld'
    BY <1>0, <1>1, <1>2, HandlersStay
  <1> QED BY <1>2, <1>3 DEF HeldInv

LEMMA ProcessHeld ==
  ASSUME ServerInv, HeldInv,
         FlusherWakes \/ Signal \/ ShutdownReturns \/ Exit \/ WalSyncs \/ Crash \/ PowerLoss
  PROVE  HeldInv'
  <1>1. CASE FlusherWakes \/ Signal \/ ShutdownReturns \/ Exit \/ WalSyncs
    <2>1. /\ UNCHANGED <<queue, batch, lastByDevice, db, holder, todo, done>>
          /\ UNCHANGED <<hpc, request, records, ackedHere>>
      BY <1>1 DEF FlusherWakes, Signal, ShutdownReturns, Exit, SpoolClose, WalSyncs, WalSync,
                  pipeVars, spoolVars, callVars, bufferVars, storeVars, handlerVars, ackVars
    <2>2. BackedInv' /\ \A p : Held(p) => Held(p)'
      BY <2>1, QuietBacked DEF ServerInv, QueueInv, HeldInv
    <2>3. InFlight' /\ AckedHeld'
      BY <2>1, <2>2, HandlersStay DEF HeldInv
    <2> QED BY <2>2, <2>3 DEF HeldInv
  <1>2. CASE Crash \/ PowerLoss
    <2>1. /\ queue' = <<>> /\ batch' = <<>> /\ ackedHere' = {}
          /\ lastByDevice' = [d \in Names |-> NoPoint]
          /\ hpc' = [h \in Handlers |-> "idle"]
      BY <1>2 DEF Crash, PowerLoss, NewProcess, BufferReset, FlusherReset
    <2>2. BackedInv'
      BY <2>1, BufferAssumption DEF BackedInv, MemoryBacked, LastBacked, Pending, LastPoints
    <2>3. InFlight' /\ AckedHeld'
      BY <2>1 DEF InFlight, Placed, AckedHeld
    <2> QED BY <2>2, <2>3 DEF HeldInv
  <1> QED BY <1>1, <1>2

LEMMA HandleHeld ==
  ASSUME ServerInv, HeldInv, NEW h \in Handlers, HandleRequest(h) \/ HandlerStep(h)
  PROVE  HeldInv' /\ \A p : Held(p) => Held(p)'
  <1>0. /\ Typed /\ BackedInv /\ InFlight /\ AckedHeld /\ Placed(h)
        /\ request \in [Handlers -> Seq(Points)]
        /\ records \in [Handlers -> Seq(SpoolRecord)]
        /\ hpc \in [Handlers -> {"idle", "append", "spool", "enqueue", "respond"}]
        /\ todo \in Seq(Points) /\ done \in Seq(SpoolRecord)
        /\ NoCaller \notin Handlers
    BY SpoolAssumption, ServerAssumption
       DEF ServerInv, QueueInv, Typed, HeldInv, InFlight, LogOK, Working
  <1>1. /\ \A k \in Handlers \ {h} :
             hpc'[k] = hpc[k] /\ request'[k] = request[k] /\ records'[k] = records[k]
        /\ UNCHANGED <<batch, db>>
    BY <1>0 DEF HandleRequest, HandlerStep, HandleAppend, HandleAppendFails, HandleEnqueue,
                HandleEnqueueRefused, HandleRespond, HandlerAt, pipeVars, storeVars
  <1>2. UNCHANGED <<holder, todo, done>> \/ \A k \in Handlers \ {h} : holder # k
    <2>1. holder = NoCaller => \A k \in Handlers \ {h} : holder # k
      BY <1>0
    <2> QED BY <2>1 DEF HandleRequest, HandlerStep, HandleAppend, AppendBegin, AppendLine,
                        AppendReturn, HandleAppendFails, AppendFails, AppendOpenFails,
                        AppendWriteFails, AppendSyncFails, HandleEnqueue, HandleEnqueueRefused,
                        HandleRespond, pipeVars, spoolVars, callVars
  <1>3. ASSUME BackedInv', \A p : Held(p) => Held(p)', Placed(h)', AckedHeld'
        PROVE  HeldInv' /\ \A p : Held(p) => Held(p)'
    <2>1. ASSUME NEW k \in Handlers \ {h} PROVE Placed(k)'
      BY <1>0, <1>1, <1>2, <1>3, PlacedStays DEF InFlight
    <2> QED BY <1>3, <2>1 DEF HeldInv, InFlight
  <1>4. ASSUME \A p : Held(p) => Held(p)', UNCHANGED ackedHere
        PROVE  AckedHeld'
    BY <1>0, <1>4 DEF AckedHeld, Held
  <1>5. ASSUME UNCHANGED <<queue, lastByDevice>>
        PROVE  BackedInv' /\ \A p : Held(p) => Held(p)'
    BY <1>0, <1>1, <1>5, QuietBacked
  <1>6. CASE HandleRequest(h) \/ HandleAppendFails(h) \/ HandleEnqueueRefused(h)
    <2>1. UNCHANGED <<queue, lastByDevice, ackedHere>> /\ hpc'[h] \in {"idle", "append"}
      BY <1>0, <1>6 DEF HandleRequest, HandleAppendFails, HandleEnqueueRefused, HandlerAt,
                        pipeVars, bufferVars, ackVars
    <2>2. Placed(h)'
      BY <2>1 DEF Placed
    <2> QED BY <1>3, <1>4, <1>5, <2>1, <2>2
  <1>7. CASE HandleAppend(h)
    <2>1. UNCHANGED <<queue, lastByDevice, ackedHere, request>>
      BY <1>7 DEF HandleAppend, bufferVars, ackVars
    <2>2. CASE AppendBegin(h, request[h]) /\ HandlerAt(h, "append", "spool")
      <3>1. hpc'[h] = "spool" /\ holder' = h /\ todo' = request[h]
        BY <1>0, <2>2 DEF AppendBegin, HandlerAt
      <3>2. Placed(h)'
        BY <2>1, <3>1 DEF Placed
      <3> QED BY <1>3, <1>4, <1>5, <2>1, <3>2
    <2>3. CASE AppendLine(h) /\ HandlerAt(h, "spool", "spool")
      <3>1. /\ hpc[h] = "spool" /\ hpc'[h] = "spool" /\ holder' = holder
            /\ todo # <<>> /\ todo' = Tail(todo)
            /\ done' = Append(done, NewRecord(nextSeq, Head(todo)))
        BY <1>0, <2>3 DEF AppendLine, HandlerAt
      <3>2. /\ Len(done) \in Nat /\ DOMAIN done = 1..Len(done)
            /\ DOMAIN done' = 1..(Len(done) + 1)
            /\ \A j \in 1..Len(done) : done'[j] = done[j]
            /\ done'[Len(done) + 1].point = Head(todo)
        BY <1>0, <3>1 DEF NewRecord
      <3>3. /\ Len(todo) \in Nat \ {0} /\ DOMAIN todo = 1..Len(todo)
            /\ DOMAIN todo' = 1..(Len(todo) - 1)
            /\ todo[1] = Head(todo)
            /\ \A j \in 1..(Len(todo) - 1) : todo'[j] = todo[j + 1]
        BY <1>0, <3>1
      <3>4. ASSUME NEW i \in DOMAIN request[h]
            PROVE  \/ \E j \in DOMAIN done' : done'[j].point = request[h][i]
                   \/ \E j \in DOMAIN todo' : todo'[j] = request[h][i]
        <4>1. CASE \E j \in DOMAIN done : done[j].point = request[h][i]
          BY <3>2, <4>1
        <4>2. CASE todo[1] = request[h][i]
          BY <3>2, <3>3, <4>2
        <4>3. ASSUME NEW j \in DOMAIN todo, todo[j] = request[h][i], j # 1
              PROVE  \E k \in DOMAIN todo' : todo'[k] = request[h][i]
          <5>1. j - 1 \in 1..(Len(todo) - 1) /\ (j - 1) + 1 = j
            BY <3>3, <4>3
          <5>2. todo'[j - 1] = todo[j]
            BY <3>3, <5>1
          <5> QED BY <3>3, <4>3, <5>1, <5>2
        <4> QED BY <1>0, <3>1, <4>1, <4>2, <4>3 DEF Placed
      <3>5. Placed(h)'
        BY <1>0, <2>1, <3>1, <3>4 DEF Placed
      <3> QED BY <1>3, <1>4, <1>5, <2>1, <3>5
    <2>4. CASE AppendReturn(h) /\ HandlerAt(h, "spool", "enqueue")
               /\ records' = [records EXCEPT ![h] = done]
      <3>1. /\ hpc[h] = "spool" /\ hpc'[h] = "enqueue" /\ records'[h] = done /\ todo = <<>>
        BY <1>0, <2>4 DEF AppendReturn, HandlerAt
      <3>2. Placed(h)'
        BY <1>0, <2>1, <3>1 DEF Placed
      <3> QED BY <1>3, <1>4, <1>5, <2>1, <3>2
    <2> QED BY <1>7, <2>2, <2>3, <2>4 DEF HandleAppend
  <1>8. CASE HandleEnqueue(h)
    <2>1. /\ hpc[h] = "enqueue" /\ hpc'[h] = "respond" /\ Enqueue(records[h])
          /\ UNCHANGED <<request, records, ackedHere>>
      BY <1>0, <1>8 DEF HandleEnqueue, HandlerAt, ackVars
    <2>2. records[h] \in Seq(SpoolRecord) /\ \A i \in DOMAIN records[h] : ~records[h][i].checkpointOnly
      BY <1>0 DEF ServerInv, LogOK, Numbered, Fresh
    <2>3. /\ BackedInv' /\ \A p : Held(p) => Held(p)'
          /\ \A i \in DOMAIN records[h] : Held(records[h][i].point)'
      BY <1>0, <1>1, <2>1, <2>2, EnqueueBacked
    <2>4. ASSUME NEW i \in DOMAIN request[h] PROVE Held(request[h][i])'
      <3>1. PICK j \in DOMAIN records[h] : records[h][j].point = request[h][i]
        BY <1>0, <2>1 DEF Placed
      <3>2. Held(records[h][j].point)'
        BY <2>3
      <3> QED BY <2>1, <3>1, <3>2 DEF Held, InMemory, SafeInDb
    <2>5. Placed(h)'
      BY <2>1, <2>4 DEF Placed
    <2> QED BY <1>3, <1>4, <2>1, <2>3, <2>5
  <1>9. CASE HandleRespond(h)
    <2>1. /\ hpc[h] = "respond" /\ hpc'[h] = "idle"
          /\ ackedHere' = ackedHere \cup {request[h][i] : i \in DOMAIN request[h]}
          /\ UNCHANGED <<queue, lastByDevice>>
      BY <1>0, <1>9 DEF HandleRespond, HandlerAt, pipeVars, bufferVars
    <2>2. Placed(h)'
      BY <2>1 DEF Placed
    <2>3. \A p \in ackedHere' : Held(p)
      BY <1>0, <2>1 DEF Placed, AckedHeld, Held
    <2>4. AckedHeld'
      BY <1>5, <2>1, <2>3 DEF AckedHeld, Held
    <2> QED BY <1>3, <1>5, <2>1, <2>2, <2>4
  <1> QED BY <1>6, <1>7, <1>8, <1>9 DEF HandlerStep

LEMMA HeldStep ==
  ASSUME ServerInv, HeldInv, [Next]_vars
  PROVE  HeldInv'
  <1>1. CASE UNCHANGED vars \/ Ended
    <2>1. /\ UNCHANGED <<queue, batch, lastByDevice, db, holder, todo, done>>
          /\ UNCHANGED <<hpc, request, records, ackedHere>>
      BY <1>1 DEF Ended, vars, pipeVars, spoolVars, callVars, bufferVars, storeVars, handlerVars,
                  ackVars
    <2>2. BackedInv' /\ \A p : Held(p) => Held(p)'
      BY <2>1, QuietBacked DEF ServerInv, QueueInv, HeldInv
    <2>3. InFlight' /\ AckedHeld'
      BY <2>1, <2>2, HandlersStay DEF HeldInv
    <2> QED BY <2>2, <2>3 DEF HeldInv
  <1> QED BY <1>1, RecoverHeld, HandleHeld, FlushHeld, ProcessHeld DEF Next

(* No acknowledged point is lost while the process that acknowledged it    *)
(* runs: whatever handlers and flusher interleave and however often a      *)
(* flush fails, the point is in the buffer, in the batch being flushed or, *)
(* itself or the point it repeats, in SQLite.                              *)
THEOREM AcknowledgedIsHeld == Spec => []AckedHeld
  <1>1. ServerInv /\ HeldInv /\ [Next]_vars => ServerInv' /\ HeldInv'
    BY ServerInvStep, HeldStep
  <1>2. HeldInv => AckedHeld
    BY DEF HeldInv
  <1> QED BY <1>1, <1>2, ServerInvInit, HeldInit, PTL DEF Spec

-----------------------------------------------------------------------------
(* Shutdown.  Once main waits for the flusher, a clean shutdown has no     *)
(* handler left to enqueue anything, so that the last drain of the stop    *)
(* pass leaves the queue empty for good (ShutdownDrains, DurabilityProofs). *)

Stopping == phase \in {"stopping", "exited"}

StopsLast ==
  /\ fmode = "stop" => Stopping /\ fpc \notin {"idle", "stats"}
  /\ fpc = "stopped" => fmode = "stop"

QuietAfter == Stopping /\ clean => AllIdle

Drained == fpc = "stopped" /\ lastFlush = "ok" /\ clean => queue = <<>>

ExitsAfter == phase = "exited" /\ clean => fpc = "stopped" /\ lastFlush = "ok"

DrainInv == StopsLast /\ QuietAfter /\ Drained /\ ExitsAfter

LEMMA DrainInit == Init => DrainInv
  BY DEF Init, FlusherInit, DrainInv, StopsLast, Stopping, QuietAfter, Drained, ExitsAfter

(* Before the shutdown waits for the flusher nothing is to be shown.       *)
LEMMA EarlyDrained ==
  ASSUME StopsLast', ~Stopping'
  PROVE  DrainInv'
  <1>1. QuietAfter'
    BY DEF QuietAfter
  <1>2. ExitsAfter'
    BY DEF ExitsAfter, Stopping
  <1>3. Drained'
    BY DEF Drained, StopsLast
  <1> QED BY <1>1, <1>2, <1>3 DEF DrainInv

LEMMA RecoverDrained ==
  ASSUME DrainInv, Recover
  PROVE  DrainInv'
  <1>1. ~Stopping /\ ~Stopping'
    BY DEF Stopping, Recover, Boot, RecoverRead, RecoverEnqueue, RecoverRetry, RecoverFinal,
           RecoverFinish, EnqueueChunk
  <1>2. UNCHANGED <<fpc, fmode>> \/ (fpc' = "stats" /\ fmode' = "now")
    <2>1. FlushNow => fpc' = "stats" /\ fmode' = "now"
      BY DEF FlushNow, StartPass
    <2>2. FlushNow \/ UNCHANGED flusherVars
      BY DEF Recover, Boot, RecoverRead, RecoverEnqueue, RecoverRetry, RecoverFinal,
             RecoverFinish, EnqueueChunk
    <2>3. UNCHANGED flusherVars => UNCHANGED <<fpc, fmode>>
      BY DEF flusherVars
    <2> QED BY <2>1, <2>2, <2>3
  <1>3. StopsLast'
    BY <1>1, <1>2 DEF DrainInv, StopsLast
  <1> QED BY <1>1, <1>3, EarlyDrained

LEMMA HandleDrained ==
  ASSUME DrainInv, NEW h \in Handlers, HandleRequest(h) \/ HandlerStep(h)
  PROVE  DrainInv'
  <1>1. UNCHANGED <<phase, clean, fpc, fmode, lastFlush>> /\ (hpc[h] # "idle" \/ phase = "serving")
    BY DEF HandleRequest, HandlerStep, HandleAppend, HandleAppendFails, HandleEnqueue,
           HandleEnqueueRefused, HandleRespond, HandlerAt, flusherVars
  <1>2. StopsLast'
    BY <1>1 DEF DrainInv, StopsLast, Stopping
  <1>3. CASE ~Stopping
    BY <1>1, <1>2, <1>3, EarlyDrained DEF Stopping
  <1>4. CASE Stopping
    <2>1. ~clean
      BY <1>1, <1>4 DEF DrainInv, QuietAfter, AllIdle, Stopping
    <2> QED BY <1>1, <1>2, <2>1 DEF DrainInv, QuietAfter, Drained, ExitsAfter
  <1> QED BY <1>3, <1>4

LEMMA FlushDrained ==
  ASSUME DrainInv, FlusherRuns
  PROVE  DrainInv'
  <1>1. UNCHANGED <<phase, clean, hpc, fmode>> /\ phase # "exited" /\ fpc # "stopped"
    BY DEF FlusherRuns, Running, handlerVars, FlusherStep, PassStats, FlushDrain, FlushInsert,
           FlushInsertFails, FlushCheckpoint, FlushCheckpointWrite, FlushCompact, FlushAgain,
           FlushRequeue, GoTo, EndPass
  <1>2. \/ fpc' \notin {"idle", "stats", "stopped"}
        \/ fpc' = IF fmode = "stop" THEN "stopped" ELSE "idle"
    BY DEF FlusherRuns, FlusherStep, PassStats, FlushDrain, FlushInsert, FlushInsertFails,
           FlushCheckpoint, FlushCheckpointWrite, FlushCompact, FlushAgain, FlushRequeue, GoTo,
           EndPass
  <1>3. StopsLast'
    BY <1>1, <1>2 DEF DrainInv, StopsLast, Stopping
  <1>4. QuietAfter'
    BY <1>1 DEF DrainInv, QuietAfter, AllIdle, Stopping
  <1>5. ExitsAfter'
    BY <1>1 DEF ExitsAfter
  <1>6. Drained'
    <2> SUFFICES ASSUME fpc' = "stopped", lastFlush' = "ok" PROVE queue' = <<>>
      BY DEF Drained
    <2>1. fmode = "stop" /\ fpc # "stats"
      BY <1>1, <1>3 DEF StopsLast, DrainInv
    <2>2. FlushDrain /\ queue = <<>>
      BY <1>1, <2>1 DEF FlusherRuns, FlusherStep, PassStats, FlushDrain, FlushInsert,
             FlushInsertFails, FlushCheckpoint, FlushCheckpointWrite, FlushCompact, FlushAgain,
             FlushRequeue, GoTo, EndPass
    <2>3. queue' = SubSeq(queue, DrainCount + 1, Len(queue)) /\ DrainCount = 0 /\ Len(queue) = 0
      BY <2>2, BufferAssumption DEF FlushDrain, DrainBatch, DrainCount
    <2> QED BY <2>2, <2>3
  <1> QED BY <1>3, <1>4, <1>5, <1>6 DEF DrainInv

LEMMA ProcessDrained ==
  ASSUME DrainInv, clean \in BOOLEAN,
         FlusherWakes \/ Signal \/ ShutdownReturns \/ Exit \/ WalSyncs \/ Crash \/ PowerLoss
  PROVE  DrainInv'
  <1>1. CASE FlusherWakes
    <2>1. /\ UNCHANGED <<phase, clean, hpc>> /\ phase # "exited"
          /\ \/ fmode' # "stop" /\ fpc' = "stats"
             \/ fmode' = "stop" /\ fpc' = "drain" /\ phase = "stopping"
      BY <1>1 DEF FlusherWakes, Started, TimerTick, TriggerReceived, StopReceived, StartPass,
                  handlerVars
    <2>2. StopsLast'
      BY <2>1 DEF StopsLast, Stopping
    <2>3. QuietAfter'
      BY <2>1 DEF DrainInv, QuietAfter, AllIdle, Stopping
    <2> QED BY <2>1, <2>2, <2>3 DEF DrainInv, Drained, ExitsAfter
  <1>2. CASE Signal
    <2>1. ~Stopping /\ ~Stopping' /\ UNCHANGED <<fpc, fmode>>
      BY <1>2 DEF Signal, Stopping, flusherVars
    <2>2. StopsLast'
      BY <2>1 DEF DrainInv, StopsLast
    <2> QED BY <2>1, <2>2, EarlyDrained
  <1>3. CASE ShutdownReturns
    <2>1. /\ phase = "draining" /\ phase' = "stopping" /\ clean' = (clean /\ AllIdle)
          /\ UNCHANGED <<fpc, fmode, hpc>>
      BY <1>3 DEF ShutdownReturns, flusherVars, handlerVars
    <2>2. StopsLast' /\ fpc' # "stopped"
      BY <2>1 DEF DrainInv, StopsLast, Stopping
    <2>3. QuietAfter'
      BY <2>1, Zenon DEF QuietAfter, AllIdle
    <2> QED BY <2>1, <2>2, <2>3 DEF DrainInv, Drained, ExitsAfter
  <1>4. CASE Exit
    <2>1. /\ phase = "stopping" /\ phase' = "exited"
          /\ clean' = (clean /\ fpc = "stopped" /\ lastFlush = "ok")
          /\ UNCHANGED <<fpc, fmode, lastFlush, hpc, queue>>
      BY <1>4 DEF Exit, flusherVars, handlerVars, bufferVars
    <2>2. clean' => clean /\ fpc = "stopped" /\ lastFlush = "ok"
      BY <2>1, Zenon
    <2>3. StopsLast' /\ QuietAfter'
      BY <2>1, <2>2 DEF DrainInv, StopsLast, Stopping, QuietAfter, AllIdle
    <2>4. Drained' /\ ExitsAfter'
      BY <2>1, <2>2 DEF DrainInv, Drained, ExitsAfter
    <2> QED BY <2>3, <2>4 DEF DrainInv
  <1>5. CASE WalSyncs
    BY <1>5 DEF WalSyncs, flusherVars, handlerVars, bufferVars, DrainInv, StopsLast, Stopping,
                QuietAfter, AllIdle, Drained, ExitsAfter
  <1>6. CASE Crash \/ PowerLoss
    <2>1. phase' = "down" /\ fpc' = "idle" /\ fmode' = "timer"
      BY <1>6 DEF Crash, PowerLoss, NewProcess, FlusherReset
    <2>2. StopsLast' /\ ~Stopping'
      BY <2>1 DEF StopsLast, Stopping
    <2> QED BY <2>2, EarlyDrained
  <1> QED BY <1>1, <1>2, <1>3, <1>4, <1>5, <1>6

LEMMA DrainStep ==
  ASSUME DrainInv, clean \in BOOLEAN, [Next]_vars
  PROVE  DrainInv' /\ clean' \in BOOLEAN
  <1>1. clean' \in BOOLEAN
    BY Zenon DEF Next, Recover, Boot, RecoverRead, RecoverEnqueue, RecoverRetry, RecoverFinal,
           RecoverFinish, HandleRequest, HandlerStep, HandleAppend, HandleAppendFails,
           HandleEnqueue, HandleEnqueueRefused, HandleRespond, FlusherWakes, FlusherRuns, Signal,
           ShutdownReturns, Exit, Crash, PowerLoss, NewProcess, WalSyncs, Ended, vars
  <1>2. CASE UNCHANGED vars \/ Ended
    BY <1>2 DEF Ended, vars, pipeVars, flusherVars, handlerVars, bufferVars, DrainInv, StopsLast,
                Stopping, QuietAfter, AllIdle, Drained, ExitsAfter
  <1> QED BY <1>1, <1>2, RecoverDrained, HandleDrained, FlushDrained, ProcessDrained DEF Next

-----------------------------------------------------------------------------
(* Type correctness: what the invariants above do not say yet.             *)
RestTyped ==
  /\ StoreTypeOK
  /\ phase \in {"down", "read", "enqueue", "retry", "final", "finish",
                "serving", "draining", "stopping", "exited", "fatal"}
  /\ fpc \in {"idle", "stats", "drain", "insert", "checkpoint", "write",
              "compact", "again", "requeue", "stopped"}
  /\ request \in [Handlers -> Batches \cup {<<>>}]
  /\ ackedHere \subseteq acked
  /\ ackedRecords \subseteq SpoolRecord

(* last_seq_received is the largest of finitely many numbers.              *)
LEMMA InsertTyped ==
  ASSUME StoreTypeOK, batch \in Seq(SpoolRecord), highSeq \in Nat,
         \A i \in DOMAIN batch : InLog(batch[i]),
         InsertSpoolBatch(batch, WriteBatch)
  PROVE  StoreTypeOK'
  <1>1. ASSUME NEW i \in DOMAIN batch
        PROVE  batch[i].seq \in 0..highSeq /\ batch[i].seq \in Nat /\ batch[i].point \in Points
    <2>1. batch[i] \in SpoolRecord
      OBVIOUS
    <2> QED BY <2>1 DEF SpoolRecord, InLog
  <1>2. db.lastSeq \in [Devices -> Nat] /\ db.rows \subseteq Row
    BY DEF StoreTypeOK
  <1>3. LastSeqAfter(batch, WriteBatch) \in [Devices -> Nat]
    <2> DEFINE Seqs(d) == {batch[i].seq : i \in {j \in WriteBatch : DeviceOf[batch[j].point] = d}}
                            \cup {db.lastSeq[d]}
    <2>1. ASSUME NEW d \in Devices
          PROVE  (CHOOSE m \in Seqs(d) : \A n \in Seqs(d) : n <= m) \in Nat
      <3> DEFINE top == highSeq + db.lastSeq[d]
      <3>1. db.lastSeq[d] \in Nat /\ top \in Nat
        BY <1>2
      <3>2. Seqs(d) \in SUBSET (0..top) /\ Seqs(d) # {}
        BY <1>1, <3>1 DEF WriteBatch
      <3> HIDE DEF Seqs, top
      <3>3. \E m \in Seqs(d) : \A n \in Seqs(d) : n <= m
        BY <3>1, <3>2, LastOf
      <3>4. (CHOOSE m \in Seqs(d) : \A n \in Seqs(d) : n <= m) \in Seqs(d)
        BY <3>3, Zenon
      <3> QED BY <3>1, <3>2, <3>4
    <2> QED BY <2>1 DEF LastSeqAfter
  <1>4. \A i \in NewRows(batch, WriteBatch) :
           [seq |-> batch[i].seq, point |-> batch[i].point] \in Row
    BY <1>1 DEF NewRows, WriteBatch, Row
  <1> DEFINE new == {[seq |-> batch[i].seq, point |-> batch[i].point] : i \in NewRows(batch, WriteBatch)}
  <1>5. db' = [rows |-> db.rows \cup new, lastSeq |-> LastSeqAfter(batch, WriteBatch)] /\ UNCHANGED durableDb
    BY DEF InsertSpoolBatch
  <1>6. db.rows \cup new \in SUBSET Row
    BY <1>2, <1>4
  <1> HIDE DEF new
  <1> QED BY <1>3, <1>5, <1>6 DEF StoreTypeOK

(* Only a response adds to the acknowledged records.                       *)
LEMMA AckedRecordsStay ==
  ASSUME [Next]_vars
  PROVE  \/ ackedRecords' = ackedRecords
         \/ ackedRecords' = {} /\ (Crash \/ PowerLoss)
         \/ \E h \in Handlers : HandleRespond(h)
  <1>1. ASSUME NEW h \in Handlers, HandleRequest(h) \/ HandlerStep(h), ~HandleRespond(h)
        PROVE  ackedRecords' = ackedRecords
    BY <1>1 DEF HandleRequest, HandlerStep, HandleAppend, HandleAppendFails, HandleEnqueue,
                HandleEnqueueRefused, ackVars
  <1>2. CASE Crash \/ PowerLoss
    BY <1>2 DEF Crash, PowerLoss, NewProcess
  <1>3. CASE Recover \/ FlusherWakes \/ FlusherRuns \/ Signal \/ ShutdownReturns \/ Exit
             \/ WalSyncs \/ Ended \/ UNCHANGED vars
    BY <1>3 DEF Recover, Boot, RecoverRead, RecoverEnqueue, RecoverRetry, RecoverFinal,
           RecoverFinish, FlusherWakes, FlusherRuns, Signal, ShutdownReturns, Exit, WalSyncs,
           Ended, vars, ackVars
  <1> QED BY <1>1, <1>2, <1>3 DEF Next

LEMMA RestTypedInit == Init => RestTyped
  BY DEF Init, StoreInit, EmptyDb, FlusherInit, StoreTypeOK, RestTyped

LEMMA RestTypedStep ==
  ASSUME ServerInv, RestTyped, [Next]_vars
  PROVE  RestTyped'
  <1>1. StoreTypeOK'
    <2>1. CASE UNCHANGED storeVars
      BY <2>1 DEF RestTyped, StoreTypeOK, storeVars
    <2>2. CASE FlushInsert
      <3>1. InsertSpoolBatch(batch, WriteBatch)
        BY <2>2 DEF FlushInsert
      <3> QED BY <3>1, InsertTyped DEF RestTyped, ServerInv, QueueInv, Typed, LogOK, SpoolInv,
                                       SpoolTypeOK, Numbered
    <2>3. CASE Exit \/ WalSyncs \/ PowerLoss
      BY <2>3 DEF Exit, WalSyncs, WalSync, PowerLoss, StorePowerLoss, RestTyped, StoreTypeOK
    <2>4. CASE FlusherRuns
      BY <2>1, <2>2, <2>4 DEF FlusherRuns, FlusherStep, PassStats, FlushDrain, FlushInsertFails,
             InsertConflicts, FlushCheckpoint, FlushCheckpointWrite, FlushCompact, FlushAgain,
             FlushRequeue
    <2>5. CASE Recover \/ FlusherWakes \/ Signal \/ ShutdownReturns \/ Crash \/ Ended \/ UNCHANGED vars
      BY <2>1, <2>5 DEF Recover, Boot, RecoverRead, RecoverEnqueue, RecoverRetry, RecoverFinal,
             RecoverFinish, FlusherWakes, Signal, ShutdownReturns, Crash, Ended, vars, pipeVars
    <2>6. ASSUME NEW h \in Handlers, HandleRequest(h) \/ HandlerStep(h)
          PROVE  StoreTypeOK'
      BY <2>1, <2>6 DEF HandleRequest, HandlerStep, HandleAppend, HandleAppendFails,
             HandleEnqueue, HandleEnqueueRefused, HandleRespond, pipeVars
    <2> QED BY <2>3, <2>4, <2>5, <2>6 DEF Next
  <1>2. phase' \in {"down", "read", "enqueue", "retry", "final", "finish",
                    "serving", "draining", "stopping", "exited", "fatal"}
    BY DEF RestTyped, Next, Recover, Boot, RecoverRead, RecoverEnqueue, RecoverRetry, RecoverFinal,
           RecoverFinish, EnqueueChunk, HandleRequest, HandlerStep, HandleAppend,
           HandleAppendFails, HandleEnqueue, HandleEnqueueRefused, HandleRespond, FlusherWakes,
           FlusherRuns, Signal, ShutdownReturns, Exit, Crash, PowerLoss, NewProcess, WalSyncs,
           Ended, vars
  <1>3. fpc' \in {"idle", "stats", "drain", "insert", "checkpoint", "write",
                  "compact", "again", "requeue", "stopped"}
    <2>1. CASE UNCHANGED flusherVars
      BY <2>1 DEF RestTyped, flusherVars
    <2>2. CASE FlusherRuns
      BY <2>2 DEF FlusherRuns, FlusherStep, PassStats, FlushDrain, FlushInsert, FlushInsertFails,
             FlushCheckpoint, FlushCheckpointWrite, FlushCompact, FlushAgain, FlushRequeue, GoTo,
             EndPass
    <2>3. CASE Recover \/ FlusherWakes
      <3>1. fpc' \in {"stats", "drain"} \/ UNCHANGED flusherVars
        BY <2>3 DEF Recover, Boot, RecoverRead, RecoverEnqueue, RecoverRetry, RecoverFinal,
               RecoverFinish, EnqueueChunk, FlushNow, FlusherWakes, TimerTick, TriggerReceived,
               StopReceived, StartPass
      <3> QED BY <2>1, <3>1
    <2>4. CASE Crash \/ PowerLoss
      BY <2>4 DEF Crash, PowerLoss, NewProcess, FlusherReset
    <2>5. CASE Signal \/ ShutdownReturns \/ Exit \/ WalSyncs \/ Ended \/ UNCHANGED vars
      BY <2>1, <2>5 DEF Signal, ShutdownReturns, Exit, WalSyncs, Ended, vars
    <2>6. ASSUME NEW h \in Handlers, HandleRequest(h) \/ HandlerStep(h)
          PROVE  fpc' = fpc
      BY <2>6 DEF HandleRequest, HandlerStep, HandleAppend, HandleAppendFails,
             HandleEnqueue, HandleEnqueueRefused, HandleRespond, flusherVars
    <2> QED BY <2>2, <2>3, <2>4, <2>5, <2>6 DEF Next, RestTyped
  <1>4. request' \in [Handlers -> Batches \cup {<<>>}] /\ ackedHere' \subseteq acked'
    <2>1. CASE UNCHANGED <<request, acked, ackedHere>>
      BY <2>1 DEF RestTyped
    <2>2. ASSUME NEW h \in Handlers, HandleRequest(h) \/ HandlerStep(h)
          PROVE  request' \in [Handlers -> Batches \cup {<<>>}] /\ ackedHere' \subseteq acked'
      <3>1. \E pts \in Batches \cup {<<>>} :
              request' = request \/ request' = [request EXCEPT ![h] = pts]
        BY <2>2 DEF HandleRequest, HandlerStep, HandleAppend, HandleAppendFails, HandleEnqueue,
                    HandleEnqueueRefused, HandleRespond
      <3>2. ackedHere' \subseteq acked'
        BY <2>2 DEF RestTyped, HandleRequest, HandlerStep, HandleAppend, HandleAppendFails,
                    HandleEnqueue, HandleEnqueueRefused, HandleRespond, ackVars
      <3> QED BY <3>1, <3>2 DEF RestTyped
    <2>3. CASE Crash \/ PowerLoss
      BY <2>3 DEF Crash, PowerLoss, NewProcess
    <2>4. CASE Recover \/ FlusherWakes \/ FlusherRuns \/ Signal \/ ShutdownReturns \/ Exit
               \/ WalSyncs \/ Ended \/ UNCHANGED vars
      BY <2>1, <2>4 DEF Recover, Boot, RecoverRead, RecoverEnqueue, RecoverRetry, RecoverFinal,
             RecoverFinish, FlusherWakes, FlusherRuns, Signal, ShutdownReturns, Exit, WalSyncs,
             Ended, vars, handlerVars, ackVars
    <2> QED BY <2>2, <2>3, <2>4 DEF Next
  <1>5. ackedRecords' \subseteq SpoolRecord
    <2>1. ASSUME NEW h \in Handlers, HandleRespond(h)
          PROVE  ackedRecords' \subseteq SpoolRecord
      <3>1. records[h] \in Seq(SpoolRecord)
        BY DEF ServerInv, QueueInv, Typed
      <3>2. \A i \in DOMAIN records[h] : records[h][i] \in SpoolRecord
        BY <3>1
      <3> QED BY <2>1, <3>2 DEF HandleRespond, RestTyped
    <2>2. ackedRecords' = ackedRecords \/ ackedRecords' = {} \/ \E h \in Handlers : HandleRespond(h)
      BY AckedRecordsStay
    <2> QED BY <2>1, <2>2 DEF RestTyped
  <1> QED BY <1>1, <1>2, <1>3, <1>4, <1>5 DEF RestTyped

(* Every variable of the pipeline keeps its type, through crashes, torn    *)
(* files and rolled back transactions.                                     *)
THEOREM ServerTypeCorrect == Spec => []ServerTypeOK
  <1>1. ServerInv /\ HeldInv /\ RestTyped /\ [Next]_vars => ServerInv' /\ HeldInv' /\ RestTyped'
    BY ServerInvStep, HeldStep, RestTypedStep
  <1>2. ServerInv /\ HeldInv /\ RestTyped => ServerTypeOK
    BY DEF ServerInv, QueueInv, Typed, LogOK, SpoolInv, Working, ReplayTyped, HeldInv, BackedInv,
           LastPoints, RestTyped, ServerTypeOK
  <1> QED BY <1>1, <1>2, ServerInvInit, HeldInit, RestTypedInit, PTL DEF Spec

-----------------------------------------------------------------------------
(* Sequence numbers.  As long as none is written twice, a number stands    *)
(* for one point wherever a record with it is: in the spool, on its way to *)
(* the buffer, in memory or in SQLite.                                     *)

Carries(s, n, p) == \E i \in DOMAIN s : s[i].seq = n /\ s[i].point = p

InMemoryAs(n, p) ==
  \/ Carries(queue, n, p) \/ Carries(batch, n, p)
  \/ Carries(replay, n, p) \/ Carries(done, n, p)
  \/ \E h \in Handlers : Carries(records[h], n, p)

Given(n, p) ==
  \/ \E r \in Spooled : r.seq = n /\ r.point = p
  \/ \E row \in db.rows : row.seq = n /\ row.point = p
  \/ InMemoryAs(n, p)

GivenOnce == ~reused => \A n, p, q : Given(n, p) /\ Given(n, q) => p = q

RowsInLog == \A row \in db.rows : row.seq \in 1..highSeq

GivenInv == GivenOnce /\ RowsInLog

(* The record being written is the one exception.                          *)
NewlyGiven(n, p) == WritesLine /\ n = nextSeq /\ p = Head(todo)

LEMMA CarriesConcat ==
  ASSUME NEW s \in Seq(SpoolRecord), NEW t \in Seq(SpoolRecord), NEW n, NEW p
  PROVE  Carries(s \o t, n, p) => Carries(s, n, p) \/ Carries(t, n, p)
  BY PendingParts DEF Carries

LEMMA CarriesJoin ==
  ASSUME NEW s \in Seq(SpoolRecord), NEW t \in Seq(SpoolRecord), NEW n, NEW p
  PROVE  Carries(s, n, p) \/ Carries(t, n, p) => Carries(s \o t, n, p)
  <1>1. ASSUME NEW i \in DOMAIN s, s[i].seq = n, s[i].point = p
        PROVE  Carries(s \o t, n, p)
    <2>1. i \in DOMAIN (s \o t) /\ (s \o t)[i] = s[i]
      BY PendingParts
    <2> QED BY <1>1, <2>1 DEF Carries
  <1>2. ASSUME NEW i \in DOMAIN t, t[i].seq = n, t[i].point = p
        PROVE  Carries(s \o t, n, p)
    <2>1. Len(s) + i \in DOMAIN (s \o t) /\ (s \o t)[Len(s) + i] = t[i]
      BY PendingParts
    <2> QED BY <1>2, <2>1 DEF Carries
  <1> QED BY <1>1, <1>2 DEF Carries

LEMMA CarriesPart ==
  ASSUME NEW s \in Seq(SpoolRecord), NEW a \in Nat \ {0}, NEW b \in 0..Len(s), NEW n, NEW p,
         Carries(SubSeq(s, a, b), n, p)
  PROVE  Carries(s, n, p)
  <1>1. Len(s) \in Nat /\ DOMAIN s = 1..Len(s)
    OBVIOUS
  <1>2. ASSUME NEW i \in DOMAIN SubSeq(s, a, b)
        PROVE  a + i - 1 \in 1..Len(s) /\ SubSeq(s, a, b)[i] = s[a + i - 1]
    BY <1>1
  <1> QED BY <1>1, <1>2 DEF Carries

LEMMA EnqueueCarries ==
  ASSUME NEW recs \in Seq(SpoolRecord), queue \in Seq(SpoolRecord), Enqueue(recs),
         NEW n, NEW p, Carries(queue', n, p)
  PROVE  Carries(queue, n, p) \/ Carries(recs, n, p)
  <1> DEFINE out == FilterNearDuplicates(recs).out
  <1>1. /\ out \in Seq(SpoolRecord) /\ Len(out) = Len(recs)
        /\ \A i \in 1..Len(recs) : out[i].seq = recs[i].seq /\ out[i].point = recs[i].point
    BY FilterKeepsLength
  <1>2. queue' = queue \o out
    BY DEF Enqueue
  <1> HIDE DEF out
  <1>3. Carries(queue, n, p) \/ Carries(out, n, p)
    BY <1>1, <1>2, CarriesConcat
  <1>4. Carries(out, n, p) => Carries(recs, n, p)
    BY <1>1 DEF Carries
  <1> QED BY <1>3, <1>4

LEMMA RecoverGiven ==
  ASSUME ServerInv, Recover, NEW n, NEW p, InMemoryAs(n, p)'
  PROVE  Given(n, p)
  <1>1. UNCHANGED <<batch, done, records>>
    BY DEF Recover, Boot, RecoverRead, RecoverEnqueue, RecoverRetry, RecoverFinal, RecoverFinish,
           pipeVars, spoolVars, callVars, handlerVars
  <1>2. CASE UNCHANGED <<queue, replay>>
    BY <1>1, <1>2 DEF Given, InMemoryAs
  <1>3. CASE EnqueueChunk
    <2>1. /\ replay \in Seq(SpoolRecord) /\ Len(replay) \in Nat /\ ChunkSize \in 0..Len(replay)
          /\ queue \in Seq(SpoolRecord)
      BY BufferAssumption DEF ServerInv, QueueInv, Typed, LogOK, ReplayTyped, ChunkSize
    <2>2. Chunk = SubSeq(replay, 1, ChunkSize) /\ replay' = SubSeq(replay, ChunkSize + 1, Len(replay))
          /\ Enqueue(Chunk)
      BY <1>3 DEF EnqueueChunk, Chunk
    <2>3. Carries(Chunk, n, p) => Carries(replay, n, p)
      BY <2>1, <2>2, CarriesPart
    <2>4. Carries(replay', n, p) => Carries(replay, n, p)
      <3>1. ChunkSize + 1 \in Nat \ {0} /\ Len(replay) \in 0..Len(replay)
        BY <2>1
      <3> QED BY <2>1, <2>2, <3>1, CarriesPart
    <2>5. Chunk \in Seq(SpoolRecord)
      BY <2>1, <2>2
    <2>6. Carries(queue', n, p) => Carries(queue, n, p) \/ Carries(Chunk, n, p)
      BY <2>1, <2>2, <2>5, EnqueueCarries
    <2>7. InMemoryAs(n, p)
      BY <1>1, <2>3, <2>4, <2>6 DEF InMemoryAs
    <2> QED BY <2>7 DEF Given
  <1>4. CASE RecoverRead
    <2>1. replay' \in {replay, ReplayAfterCheckpoint} /\ UNCHANGED queue
      BY <1>4 DEF RecoverRead, pipeVars, bufferVars
    <2>2. ASSUME replay' = ReplayAfterCheckpoint, Carries(replay', n, p)
          PROVE  \E r \in Spooled : r.seq = n /\ r.point = p
      <3>1. replay' \in Seq(Spooled)
        BY <2>2, ReplaySound DEF ServerInv, LogOK, SpoolInv
      <3>2. \A i \in DOMAIN replay' : replay'[i] \in Spooled
        BY <3>1
      <3> QED BY <2>2, <3>2 DEF Carries
    <2>3. Carries(replay', n, p) => Carries(replay, n, p) \/ \E r \in Spooled : r.seq = n /\ r.point = p
      BY <2>1, <2>2
    <2> QED BY <1>1, <2>1, <2>3 DEF Given, InMemoryAs
  <1>5. EnqueueChunk \/ RecoverRead \/ UNCHANGED <<queue, replay>>
    BY DEF Recover, Boot, RecoverEnqueue, RecoverRetry, RecoverFinal, RecoverFinish, EnqueueRefused,
           pipeVars, bufferVars
  <1> QED BY <1>2, <1>3, <1>4, <1>5

LEMMA HandleGiven ==
  ASSUME ServerInv, NEW h \in Handlers, HandleRequest(h) \/ HandlerStep(h),
         NEW n, NEW p, InMemoryAs(n, p)'
  PROVE  InMemoryAs(n, p) \/ NewlyGiven(n, p)
  <1>0. /\ UNCHANGED <<batch, replay>>
        /\ records \in [Handlers -> Seq(SpoolRecord)] /\ queue \in Seq(SpoolRecord)
        /\ done \in Seq(SpoolRecord)
    BY DEF HandleRequest, HandlerStep, HandleAppend, HandleAppendFails, HandleEnqueue,
           HandleEnqueueRefused, HandleRespond, pipeVars, ServerInv, QueueInv, Typed
  <1>1. ~Carries(<<>>, n, p)
    BY DEF Carries
  <1>2. Carries(queue', n, p) => Carries(queue, n, p) \/ Carries(records[h], n, p)
    <2>1. CASE UNCHANGED queue
      BY <2>1
    <2>2. CASE Enqueue(records[h])
      BY <1>0, <2>2, EnqueueCarries
    <2> QED BY <2>1, <2>2 DEF HandleRequest, HandlerStep, HandleAppend, HandleAppendFails,
               HandleEnqueue, HandleEnqueueRefused, HandleRespond, pipeVars, bufferVars
  <1>3. ASSUME NEW k \in Handlers, Carries(records'[k], n, p)
        PROVE  Carries(records[k], n, p) \/ Carries(done, n, p)
    <2>1. records'[k] \in {records[k], done, <<>>}
      BY <1>0 DEF HandleRequest, HandlerStep, HandleAppend, HandleAppendFails, HandleEnqueue,
                  HandleEnqueueRefused, HandleRespond
    <2> QED BY <1>1, <1>3, <2>1
  <1>4. Carries(done', n, p) => Carries(done, n, p) \/ NewlyGiven(n, p)
    <2>1. CASE done' \in {done, <<>>}
      BY <1>1, <2>1
    <2>2. CASE AppendLine(h)
      <3>1. done' = Append(done, NewRecord(nextSeq, Head(todo)))
        BY <2>2 DEF AppendLine
      <3>2. WritesLine
        BY <2>2, SyncChoicesType DEF AppendLine, WritesLine
      <3>3. /\ Len(done) \in Nat /\ DOMAIN done = 1..Len(done)
            /\ DOMAIN done' = 1..(Len(done) + 1)
            /\ \A j \in 1..Len(done) : done'[j] = done[j]
            /\ done'[Len(done) + 1] = NewRecord(nextSeq, Head(todo))
        BY <1>0, <3>1
      <3> QED BY <3>2, <3>3 DEF Carries, NewlyGiven, NewRecord
    <2> QED BY <2>1, <2>2 DEF HandleRequest, HandlerStep, HandleAppend, AppendBegin, AppendReturn,
               HandleAppendFails, AppendFails, AppendOpenFails, AppendWriteFails, AppendSyncFails,
               Release, HandleEnqueue, HandleEnqueueRefused, HandleRespond, pipeVars, spoolVars,
               callVars
  <1> QED BY <1>0, <1>2, <1>3, <1>4 DEF InMemoryAs

LEMMA FlushGiven ==
  ASSUME ServerInv, FlusherRuns, NEW n, NEW p, InMemoryAs(n, p)'
  PROVE  InMemoryAs(n, p)
  <1>0. /\ UNCHANGED <<records, replay>>
        /\ queue \in Seq(SpoolRecord) /\ batch \in Seq(SpoolRecord)
    BY DEF FlusherRuns, handlerVars, ServerInv, QueueInv, Typed
  <1>1. ~Carries(<<>>, n, p)
    BY DEF Carries
  <1>2. done' \in {done, <<>>}
    BY DEF FlusherRuns, FlusherStep, PassStats, FlushDrain, FlushInsert, FlushInsertFails,
           FlushCheckpoint, CheckpointCurrent, CheckpointTruncate, CheckpointRefused,
           FlushCheckpointWrite, CheckpointWrite, CheckpointWriteFails, Release, FlushCompact,
           Compact, CompactFails, FlushAgain, FlushRequeue, spoolVars, callVars
  <1>3. CASE queue' = queue /\ batch' \in {batch, <<>>}
    BY <1>0, <1>1, <1>2, <1>3 DEF InMemoryAs
  <1>4. CASE FlushDrain
    <2>1. /\ queue' \in Seq(SpoolRecord) /\ batch' \in Seq(SpoolRecord)
          /\ batch' \o queue' = queue
      BY <1>0, <1>4, DrainMoves DEF FlushDrain
    <2> DEFINE q == queue'
               b == batch'
    <2>2. Carries(q, n, p) \/ Carries(b, n, p) => Carries(b \o q, n, p)
      <3> HIDE DEF q, b
      <3>1. b \in Seq(SpoolRecord) /\ q \in Seq(SpoolRecord)
        BY <2>1 DEF b, q
      <3> QED BY <3>1, CarriesJoin
    <2> QED BY <1>0, <1>1, <1>2, <2>1, <2>2 DEF InMemoryAs
  <1>5. CASE FlushRequeue
    <2>1. queue' = batch \o queue /\ batch' = <<>>
      BY <1>5 DEF FlushRequeue, RequeueFront
    <2>2. Carries(queue', n, p) => Carries(batch, n, p) \/ Carries(queue, n, p)
      BY <1>0, <2>1, CarriesConcat
    <2> QED BY <1>0, <1>1, <1>2, <2>1, <2>2 DEF InMemoryAs
  <1> QED BY <1>3, <1>4, <1>5 DEF FlusherRuns, FlusherStep, PassStats, FlushInsert,
             FlushInsertFails, FlushCheckpoint, FlushCheckpointWrite, FlushCompact, FlushAgain,
             bufferVars

LEMMA ProcessGiven ==
  ASSUME FlusherWakes \/ Signal \/ ShutdownReturns \/ Exit \/ WalSyncs \/ Crash \/ PowerLoss,
         NEW n, NEW p, InMemoryAs(n, p)'
  PROVE  InMemoryAs(n, p)
  <1>1. ~Carries(<<>>, n, p)
    BY DEF Carries
  <1>2. CASE UNCHANGED <<queue, batch, replay, records>> /\ done' \in {done, <<>>}
    BY <1>1, <1>2 DEF InMemoryAs
  <1>3. CASE Crash \/ PowerLoss
    <2>1. /\ queue' = <<>> /\ batch' = <<>> /\ replay' = <<>> /\ done' = <<>>
          /\ \A h \in Handlers : records'[h] = <<>>
      BY <1>3 DEF Crash, PowerLoss, NewProcess, BufferReset, FlusherReset, SpoolRestart,
                  SpoolPowerLoss, NewManager
    <2> QED BY <1>1, <2>1 DEF InMemoryAs
  <1> QED BY <1>2, <1>3 DEF FlusherWakes, TimerTick, TriggerReceived, StopReceived, StartPass,
             Signal, ShutdownReturns, Exit, SpoolClose, Release, WalSyncs, pipeVars, spoolVars, callVars,
             bufferVars, handlerVars

LEMMA SpooledGiven ==
  ASSUME ServerInv, [Next]_vars, NEW r \in Spooled'
  PROVE  Given(r.seq, r.point) \/ NewlyGiven(r.seq, r.point)
  <1>1. SpoolTypeOK /\ SpoolMove
    BY SpoolMoves DEF ServerInv, QueueInv, LogOK, SpoolInv, SpoolTypeOK
  <1>2. CASE StoreFault
    BY <1>2 DEF StoreFault, diskVars, Spooled, LinesOf, Given
  <1>3. CASE [SpoolNext]_spoolVars
    <2>1. r \in Spooled \/ (r = NewRecord(nextSeq, Head(todo)) /\ WritesLine)
      BY <1>1, <1>3, SpooledStep
    <2> QED BY <2>1 DEF Given, NewlyGiven, NewRecord
  <1> QED BY <1>1, <1>2, <1>3 DEF SpoolMove

LEMMA RowsGiven ==
  ASSUME ServerInv, [Next]_vars, NEW row \in db'.rows
  PROVE  row \in db.rows \/ Carries(batch, row.seq, row.point)
  <1>1. CASE db' = db
    BY <1>1
  <1>2. CASE PowerLoss
    BY <1>2 DEF PowerLoss, StorePowerLoss, ServerInv, QueueInv, Lags
  <1>3. CASE InsertSpoolBatch(batch, WriteBatch)
    BY <1>3 DEF InsertSpoolBatch, NewRows, WriteBatch, Carries
  <1> QED BY <1>1, <1>2, <1>3 DEF Next, Recover, Boot, RecoverRead, RecoverEnqueue, RecoverRetry,
             RecoverFinal, RecoverFinish, HandleRequest, HandlerStep, HandleAppend, HandleAppendFails,
             HandleEnqueue, HandleEnqueueRefused, HandleRespond, FlusherWakes, FlusherRuns,
             FlusherStep, PassStats, FlushDrain, FlushInsert, FlushInsertFails, InsertConflicts,
             FlushCheckpoint, FlushCheckpointWrite, FlushCompact, FlushAgain, FlushRequeue, Signal,
             ShutdownReturns, Exit, Crash, WalSyncs, WalSync, Ended, pipeVars, storeVars, vars

(* A step gives out no number but the one it writes a line with.           *)
LEMMA GivenBefore ==
  ASSUME ServerInv, [Next]_vars, NEW n, NEW p, Given(n, p)'
  PROVE  Given(n, p) \/ NewlyGiven(n, p)
  <1>1. CASE \E r \in Spooled' : r.seq = n /\ r.point = p
    BY <1>1, SpooledGiven
  <1>2. CASE \E row \in db'.rows : row.seq = n /\ row.point = p
    BY <1>2, RowsGiven DEF Given, InMemoryAs
  <1>3. CASE InMemoryAs(n, p)'
    <2>1. CASE Recover
      BY <1>3, <2>1, RecoverGiven
    <2>2. ASSUME NEW h \in Handlers, HandleRequest(h) \/ HandlerStep(h)
          PROVE  Given(n, p) \/ NewlyGiven(n, p)
      BY <1>3, <2>2, HandleGiven DEF Given
    <2>3. CASE FlusherRuns
      BY <1>3, <2>3, FlushGiven DEF Given
    <2>4. CASE FlusherWakes \/ Signal \/ ShutdownReturns \/ Exit \/ WalSyncs \/ Crash \/ PowerLoss
      BY <1>3, <2>4, ProcessGiven DEF Given
    <2>5. CASE UNCHANGED vars
      <3>1. InMemoryAs(n, p)
        BY <1>3, <2>5 DEF vars, pipeVars, spoolVars, callVars, bufferVars, handlerVars, InMemoryAs
      <3> QED BY <3>1 DEF Given
    <2> QED BY <2>1, <2>2, <2>3, <2>4, <2>5 DEF Next, Ended
  <1> QED BY <1>1, <1>2, <1>3 DEF Given

LEMMA GivenInLog ==
  ASSUME ServerInv, RowsInLog, NEW n, NEW p, Given(n, p)
  PROVE  n \in 1..highSeq
  <1>1. CASE \E r \in Spooled : r.seq = n /\ r.point = p
    BY <1>1, SpooledFresh DEF ServerInv, LogOK, Fresh, InLog
  <1>2. CASE \E row \in db.rows : row.seq = n /\ row.point = p
    BY <1>2 DEF RowsInLog
  <1>3. CASE InMemoryAs(n, p)
    BY <1>3 DEF InMemoryAs, Carries, ServerInv, LogOK, Numbered, InLog, Fresh
  <1> QED BY <1>1, <1>2, <1>3 DEF Given

LEMMA GivenInit == Init => GivenInv
  BY DEF Init, SpoolInit, BufferInit, StoreInit, FlusherInit, EmptyDb, GivenInv, GivenOnce, Given,
         InMemoryAs, Carries, RowsInLog, Spooled, LinesOf

LEMMA ReusedStays ==
  ASSUME SpoolTypeOK, SpoolMove, reused
  PROVE  reused'
  <1>1. CASE [SpoolNext]_spoolVars
    <2>1. LogMove
      BY <1>1, LogMoves
    <2>2. reused' = reused \/ reused' = (reused \/ nextSeq <= highSeq)
      BY <2>1, Zenon DEF LogMove, Lessens, WritesLine, WritesNoLine
    <2> QED BY <2>2, Zenon
  <1>2. CASE StoreFault
    BY <1>2 DEF StoreFault, spoolHist
  <1> QED BY <1>1, <1>2 DEF SpoolMove

LEMMA GivenStep ==
  ASSUME ServerInv, GivenInv, [Next]_vars
  PROVE  GivenInv'
  <1>1. highSeq \in Nat /\ highSeq' \in Nat /\ highSeq <= highSeq' /\ SpoolMove
    <2>1. SpoolMove
      BY SpoolMoves DEF ServerInv, QueueInv, LogOK, SpoolInv, SpoolTypeOK
    <2> QED BY <2>1, SpoolMoveKeeps DEF ServerInv, LogOK
  <1>2. RowsInLog'
    <2> SUFFICES ASSUME NEW row \in db'.rows
                 PROVE  row.seq \in 1..highSeq'
      BY DEF RowsInLog
    <2>1. row.seq \in 1..highSeq
      BY RowsGiven, GivenInLog DEF GivenInv, Given, InMemoryAs
    <2> QED BY <1>1, <2>1
  <1>3. reused => reused'
    BY <1>1, ReusedStays DEF ServerInv, LogOK, SpoolInv
  <1>4. ASSUME NEW n, NEW p, NewlyGiven(n, p), ~reused'
        PROVE  \A q : ~Given(n, q)
    <2>1. n = nextSeq /\ reused' = (reused \/ nextSeq <= highSeq)
      BY <1>4, Zenon DEF NewlyGiven, WritesLine
    <2>2. ~(nextSeq <= highSeq)
      BY <1>4, <2>1, Zenon
    <2> QED BY <1>1, <2>1, <2>2, GivenInLog DEF GivenInv
  <1>5. GivenOnce'
    <2> SUFFICES ASSUME ~reused', NEW n, NEW p, NEW q, Given(n, p)', Given(n, q)'
                 PROVE  p = q
      BY DEF GivenOnce
    <2>1. Given(n, p) \/ NewlyGiven(n, p)
      BY GivenBefore
    <2>2. Given(n, q) \/ NewlyGiven(n, q)
      BY GivenBefore
    <2>3. CASE Given(n, p) /\ Given(n, q)
      BY <1>3, <2>3 DEF GivenInv, GivenOnce
    <2>4. CASE NewlyGiven(n, p) /\ NewlyGiven(n, q)
      BY <2>4 DEF NewlyGiven
    <2> QED BY <1>4, <2>1, <2>2, <2>3, <2>4
  <1> QED BY <1>2, <1>5 DEF GivenInv

(* Without a number used twice, no new row of a batch takes the number of  *)
(* another row.                                                            *)
LEMMA NoConflict ==
  ASSUME ServerInv, GivenInv, ~reused
  PROVE  ~SeqConflict(batch, WriteBatch)
  <1> SUFFICES ASSUME NEW i \in NewRows(batch, WriteBatch),
                      \/ \E row \in db.rows : row.seq = batch[i].seq
                      \/ \E j \in NewRows(batch, WriteBatch) : j < i /\ batch[j].seq = batch[i].seq
               PROVE  FALSE
    BY DEF SeqConflict
  <1>1. \A j \in NewRows(batch, WriteBatch) : j \in DOMAIN batch /\ j \in WriteBatch
    BY DEF NewRows, WriteBatch
  <1>2. \A j \in DOMAIN batch : Given(batch[j].seq, batch[j].point)
    BY DEF Given, InMemoryAs, Carries
  <1>3. ASSUME NEW row \in db.rows, row.seq = batch[i].seq
        PROVE  FALSE
    <2>1. Given(batch[i].seq, row.point)
      BY <1>3 DEF Given
    <2>2. row.point = batch[i].point
      BY <1>1, <1>2, <2>1 DEF GivenInv, GivenOnce
    <2> QED BY <2>2 DEF NewRows, Stored
  <1>4. ASSUME NEW j \in NewRows(batch, WriteBatch), j < i, batch[j].seq = batch[i].seq
        PROVE  FALSE
    <2>1. batch[j].point = batch[i].point
      BY <1>1, <1>2, <1>4 DEF GivenInv, GivenOnce
    <2> QED BY <1>1, <1>4, <2>1 DEF NewRows
  <1> QED BY <1>3, <1>4

(* No transaction of the flusher runs into UNIQUE (seq).                   *)
InsertsNeverConflict == ~reused => ~SeqConflict(batch, WriteBatch)

(* raw_points.seq is UNIQUE without a conflict clause, and a batch that    *)
(* breaks it fails whole, each time it is tried again.  Until the manager  *)
(* hands a number out twice, no batch does, whatever handlers, replays,    *)
(* failed flushes and power losses come together.                          *)
THEOREM SequencesStayUnique == Spec => []InsertsNeverConflict
  <1>1. ServerInv /\ GivenInv => InsertsNeverConflict
    BY NoConflict DEF InsertsNeverConflict
  <1>2. ServerInv /\ GivenInv /\ [Next]_vars => (ServerInv /\ GivenInv)'
    BY ServerInvStep, GivenStep
  <1> QED BY <1>1, <1>2, ServerInvInit, GivenInit, PTL DEF Spec

-----------------------------------------------------------------------------
(* Startup recovery.  Nothing else runs while it does, so a flush pass can *)
(* only fail on a fault or on a number used twice, and what is queued is a *)
(* whole number of batches until the last chunk: a pass before a retry     *)
(* leaves the buffer empty.                                                *)

Orderly == faults = 0 /\ ~reused

Counted == totalPoints = Len(queue)

Between ==
  /\ phase \in {"down", "read", "enqueue", "final"} => fpc = "idle"
  /\ phase \in {"down", "read"} => queue = <<>> /\ lastFlush = "none"
  /\ phase = "retry" => fmode = "now"
  /\ phase \in {"enqueue", "retry"} => replay # <<>>

NotFailed ==
  phase \in {"enqueue", "retry", "final", "finish"} /\ Orderly =>
    /\ lastFlush # "failed"
    /\ fpc # "requeue"
    /\ readable \/ fpc = "write"

Whole ==
  phase \in {"enqueue", "retry"} /\ Orderly =>
    /\ \E k \in Nat : Len(queue) = k * FlushBatchSize
    /\ phase = "retry" /\ fpc = "idle" /\ lastFlush = "ok" => queue = <<>>

RecoveryInv == Counted /\ Between /\ NotFailed /\ Whole /\ RecoveryGivesUp

LEMMA CountedStep ==
  ASSUME ServerInv, Counted, [Next]_vars
  PROVE  Counted'
  <1>0. queue \in Seq(SpoolRecord) /\ batch \in Seq(SpoolRecord) /\ replay \in Seq(SpoolRecord)
        /\ records \in [Handlers -> Seq(SpoolRecord)] /\ Len(queue) \in Nat
    BY DEF ServerInv, QueueInv, Typed, LogOK, ReplayTyped
  <1>1. CASE UNCHANGED <<queue, totalPoints>>
    BY <1>1 DEF Counted
  <1>2. ASSUME NEW recs \in Seq(SpoolRecord), Enqueue(recs)
        PROVE  Counted'
    <2> DEFINE out == FilterNearDuplicates(recs).out
    <2>1. out \in Seq(SpoolRecord) /\ queue' = queue \o out /\ totalPoints' = totalPoints + Len(out)
      BY <1>2, FilterKeepsLength DEF Enqueue
    <2> HIDE DEF out
    <2>2. Len(queue \o out) = Len(queue) + Len(out)
      BY <1>0, <2>1
    <2> QED BY <2>1, <2>2 DEF Counted
  <1>3. CASE DrainBatch
    <2>1. DrainCount \in 0..Len(queue)
      BY <1>0, BufferAssumption DEF DrainCount
    <2>2. queue' = SubSeq(queue, DrainCount + 1, Len(queue)) /\ totalPoints' = totalPoints - DrainCount
      BY <1>3 DEF DrainBatch
    <2>3. Len(SubSeq(queue, DrainCount + 1, Len(queue))) = Len(queue) - DrainCount
      BY <1>0, <2>1
    <2> QED BY <2>2, <2>3 DEF Counted
  <1>4. CASE RequeueFront
    <2>1. Len(batch \o queue) = Len(batch) + Len(queue) /\ Len(batch) \in Nat
      BY <1>0
    <2> QED BY <1>0, <1>4, <2>1 DEF RequeueFront, Counted
  <1>5. CASE BufferReset
    BY <1>5 DEF BufferReset, Counted
  <1>6. CASE Recover
    <2>1. Chunk \in Seq(SpoolRecord)
      <3>1. ChunkSize \in 0..Len(replay)
        BY <1>0, BufferAssumption DEF ChunkSize
      <3> QED BY <1>0, <3>1 DEF Chunk
    <2>2. Enqueue(Chunk) \/ UNCHANGED <<queue, totalPoints>>
      BY <1>6 DEF Recover, Boot, RecoverRead, RecoverEnqueue, RecoverRetry, RecoverFinal,
                  RecoverFinish, EnqueueChunk, EnqueueRefused, pipeVars, bufferVars
    <2> QED BY <1>1, <1>2, <2>1, <2>2
  <1>7. ASSUME NEW h \in Handlers, HandleRequest(h) \/ HandlerStep(h)
        PROVE  Counted'
    <2>1. Enqueue(records[h]) \/ UNCHANGED <<queue, totalPoints>>
      BY <1>7 DEF HandleRequest, HandlerStep, HandleAppend, HandleAppendFails, HandleEnqueue,
                  HandleEnqueueRefused, HandleRespond, pipeVars, bufferVars
    <2>2. records[h] \in Seq(SpoolRecord)
      BY <1>0
    <2> QED BY <1>1, <1>2, <2>1, <2>2
  <1>8. CASE FlusherRuns
    BY <1>1, <1>3, <1>4, <1>8 DEF FlusherRuns, FlusherStep, PassStats, FlushDrain, FlushInsert,
       FlushInsertFails, FlushCheckpoint, FlushCheckpointWrite, FlushCompact, FlushAgain,
       FlushRequeue, bufferVars
  <1>9. CASE FlusherWakes \/ Signal \/ ShutdownReturns \/ Exit \/ WalSyncs \/ Crash \/ PowerLoss
             \/ UNCHANGED vars
    BY <1>1, <1>5, <1>9 DEF FlusherWakes, Signal, ShutdownReturns, Exit, WalSyncs, Crash, PowerLoss,
       NewProcess, vars, pipeVars, bufferVars
  <1> QED BY <1>6, <1>7, <1>8, <1>9 DEF Next, Ended

(* No step takes a fault or a number used twice back.                      *)
LEMMA OrderlyBefore ==
  ASSUME ServerInv, [Next]_vars, Orderly'
  PROVE  Orderly
  <1>1. SpoolTypeOK /\ SpoolMove /\ faults \in Nat
    BY SpoolMoves DEF ServerInv, QueueInv, LogOK, SpoolInv, SpoolTypeOK
  <1>2. reused => reused'
    BY <1>1, ReusedStays
  <1>3. faults' = faults \/ faults' = faults + 1
    BY <1>1 DEF SpoolMove, StoreFault, SpoolNext, SpoolStep, AppendBegin, AppendLine, AppendReturn,
       AppendFails, AppendOpenFails, AppendWriteFails, AppendSyncFails, CheckpointTruncate,
       CheckpointWrite, CheckpointWriteFails, CheckpointCurrent, CheckpointRefused, Compact,
       CompactFails, SpoolClose, SpoolRestart, SpoolPowerLoss, Fail, spoolVars
  <1>4. faults = 0
    BY <1>1, <1>3 DEF Orderly
  <1> QED BY <1>2, <1>4, Zenon DEF Orderly

(* Whether the next chunk fits, as a function of the state it depends on,  *)
(* for the steps that leave that state alone.                              *)
FilterAfter(before, recs) ==
  LET last[i \in 0..Len(recs)] ==
        IF i = 0 THEN before
        ELSE IF IsNearDuplicate(recs[i], last[i - 1]) THEN last[i - 1]
        ELSE [last[i - 1] EXCEPT ![DeviceName(recs[i].point)] = recs[i].point]
  IN  [out  |-> [i \in 1..Len(recs) |->
                   [recs[i] EXCEPT !.checkpointOnly =
                      @ \/ IsNearDuplicate(recs[i], last[i - 1])]],
       last |-> last[Len(recs)]]

ChunkFits(points, bytes, before, left) ==
  LET out == FilterAfter(before, SubSeq(left, 1, IF FlushBatchSize > Len(left) THEN Len(left)
                                                                   ELSE FlushBatchSize)).out
  IN  /\ points + Len(out) <= BufferMaxPoints
      /\ bytes + BytesOf(out) <= BufferMaxBytes

LEMMA ChunkStays ==
  ASSUME UNCHANGED <<totalPoints, totalBytes, lastByDevice, replay>>
  PROVE  Fits(FilterNearDuplicates(Chunk).out)' <=> Fits(FilterNearDuplicates(Chunk).out)
  <1>1. Fits(FilterNearDuplicates(Chunk).out)
          <=> ChunkFits(totalPoints, totalBytes, lastByDevice, replay)
    BY Zenon DEF Fits, FilterNearDuplicates, Chunk, ChunkSize, ChunkFits, FilterAfter
  <1>2. Fits(FilterNearDuplicates(Chunk).out)'
          <=> ChunkFits(totalPoints', totalBytes', lastByDevice', replay')
    BY Zenon DEF Fits, FilterNearDuplicates, Chunk, ChunkSize, ChunkFits, FilterAfter
  <1> QED BY <1>1, <1>2

(* A step that leaves the buffer, the flusher and recovery alone.          *)
LEMMA QuietRecovery ==
  ASSUME RecoveryInv, Orderly' => Orderly,
         UNCHANGED <<queue, totalPoints, totalBytes, lastByDevice, fpc, fmode, lastFlush, phase,
                     replay, segments, readable>>
  PROVE  RecoveryInv'
  <1>1. (Counted /\ Between)'
    BY DEF RecoveryInv, Counted, Between
  <1>2. NotFailed'
    BY DEF RecoveryInv, NotFailed
  <1>3. Whole'
    BY DEF RecoveryInv, Whole
  <1>4. RecoveryGivesUp'
    <2> SUFFICES ASSUME (phase = "fatal" /\ Replayable /\ faults = 0 /\ ~reused)'
                 PROVE  (/\ queue = <<>> /\ replay # <<>>
                         /\ ~Fits(FilterNearDuplicates(Chunk).out))'
      BY Zenon DEF RecoveryGivesUp
    <2>1. phase = "fatal" /\ Replayable /\ faults = 0 /\ ~reused
      BY DEF Replayable, Orderly
    <2>2. queue = <<>> /\ replay # <<>> /\ ~Fits(FilterNearDuplicates(Chunk).out)
      BY <2>1, Zenon DEF RecoveryInv, RecoveryGivesUp
    <2> QED BY <2>2, ChunkStays
  <1> QED BY <1>1, <1>2, <1>3, <1>4 DEF RecoveryInv

(* A chunk that is not the last is a whole batch.                          *)
LEMMA ChunkRecovery ==
  ASSUME ServerInv, RecoveryInv, Counted', Orderly' => Orderly,
         phase \in {"enqueue", "retry"}, fpc = "idle", EnqueueChunk, UNCHANGED readable
  PROVE  RecoveryInv'
  <1>1. /\ replay \in Seq(SpoolRecord) /\ Len(replay) \in Nat /\ queue \in Seq(SpoolRecord)
        /\ Len(queue) \in Nat /\ FlushBatchSize \in Nat \ {0}
    BY BufferAssumption DEF ServerInv, QueueInv, Typed, LogOK, ReplayTyped
  <1>2. ChunkSize \in 0..Len(replay) /\ (ChunkSize # Len(replay) => ChunkSize = FlushBatchSize)
    BY <1>1 DEF ChunkSize
  <1>3. /\ replay' = SubSeq(replay, ChunkSize + 1, Len(replay))
        /\ phase' = (IF ChunkSize = Len(replay) THEN "final" ELSE "enqueue")
        /\ UNCHANGED <<fpc, fmode, trigger, lastFlush>>
        /\ Enqueue(Chunk)
    BY DEF EnqueueChunk, flusherVars
  <1>4. Between'
    <2>1. ChunkSize # Len(replay) => replay' # <<>>
      <3>1. Len(SubSeq(replay, ChunkSize + 1, Len(replay))) = Len(replay) - ChunkSize
        BY <1>1, <1>2
      <3>2. ASSUME ChunkSize # Len(replay), replay' = <<>>
            PROVE  FALSE
        <4>1. Len(replay') = 0
          BY <3>2
        <4> QED BY <1>1, <1>2, <1>3, <3>1, <3>2, <4>1
      <3> QED BY <3>2
    <2> QED BY <1>3, <2>1 DEF Between
  <1>5. NotFailed'
    BY <1>3 DEF RecoveryInv, NotFailed
  <1>6. Whole'
    <2> SUFFICES ASSUME phase' = "enqueue", Orderly'
                 PROVE  \E k \in Nat : Len(queue') = k * FlushBatchSize
      BY <1>3 DEF Whole
    <2>1. PICK k \in Nat : Len(queue) = k * FlushBatchSize
      BY DEF RecoveryInv, Whole
    <2> DEFINE out == FilterNearDuplicates(Chunk).out
    <2>2. Chunk \in Seq(SpoolRecord) /\ Len(Chunk) = ChunkSize
      BY <1>1, <1>2 DEF Chunk
    <2>3. out \in Seq(SpoolRecord) /\ Len(out) = Len(Chunk) /\ queue' = queue \o out
      BY <1>3, <2>2, FilterKeepsLength DEF Enqueue
    <2> HIDE DEF out
    <2>4. Len(queue') = Len(queue) + FlushBatchSize
      <3>0. out \in Seq(SpoolRecord)
        BY <2>3
      <3>1. Len(queue \o out) = Len(queue) + Len(out)
        BY <1>1, <3>0
      <3>2. ChunkSize = FlushBatchSize
        BY <1>2, <1>3
      <3> QED BY <2>2, <2>3, <3>1, <3>2
    <2>5. k + 1 \in Nat /\ Len(queue') = (k + 1) * FlushBatchSize
      BY <1>1, <2>1, <2>4
    <2> QED BY <2>5
  <1>7. RecoveryGivesUp'
    BY <1>3 DEF RecoveryGivesUp
  <1> QED BY <1>4, <1>5, <1>6, <1>7 DEF RecoveryInv

LEMMA RecoverRecovery ==
  ASSUME ServerInv, RecoveryInv, Recover, Counted', Orderly' => Orderly
  PROVE  RecoveryInv'
  <1>0. UNCHANGED <<segments, readable>>
    BY DEF Recover, Boot, RecoverRead, RecoverEnqueue, RecoverRetry, RecoverFinal, RecoverFinish,
           pipeVars, spoolVars, diskVars
  <1>1. CASE Boot
    <2>1. /\ phase = "down" /\ phase' = "read"
          /\ UNCHANGED <<queue, fpc, fmode, lastFlush, replay>>
      BY <1>1 DEF Boot, pipeVars, bufferVars, flusherVars
    <2> QED BY <2>1 DEF RecoveryInv, Between, NotFailed, Whole, RecoveryGivesUp
  <1>2. CASE RecoverRead
    <2>1. /\ phase = "read" /\ UNCHANGED <<queue, fpc, fmode, lastFlush>>
          /\ fpc = "idle" /\ queue = <<>> /\ lastFlush = "none"
      BY <1>2 DEF RecoverRead, pipeVars, bufferVars, flusherVars, RecoveryInv, Between
    <2>2. CASE ~Replayable
      <3>1. phase' = "fatal" /\ ~Replayable'
        BY <1>0, <1>2, <2>2 DEF RecoverRead, Replayable
      <3> QED BY <2>1, <3>1 DEF RecoveryInv, Between, NotFailed, Whole, RecoveryGivesUp
    <2>3. CASE Replayable
      <3>1. phase' = "serving" \/ (phase' = "enqueue" /\ replay' # <<>>)
        BY <1>2, <2>3 DEF RecoverRead
      <3>2. readable'
        BY <1>0, <2>3 DEF Replayable
      <3>3. Len(queue') = 0 * FlushBatchSize
        BY <2>1, BufferAssumption
      <3>4. 0 \in Nat
        OBVIOUS
      <3> QED BY <2>1, <3>1, <3>2, <3>3, <3>4
              DEF RecoveryInv, Between, NotFailed, Whole, RecoveryGivesUp
    <2> QED BY <2>2, <2>3
  <1>3. CASE RecoverEnqueue
    <2>1. phase = "enqueue" /\ fpc = "idle"
      BY <1>3 DEF RecoverEnqueue, RecoveryInv, Between
    <2>2. CASE EnqueueChunk
      BY <1>0, <2>1, <2>2, ChunkRecovery
    <2>3. CASE FlushNow /\ phase' = "retry" /\ UNCHANGED <<queue, replay>>
      <3>1. fpc' = "stats" /\ fmode' = "now" /\ lastFlush' = lastFlush /\ replay # <<>>
        BY <2>1, <2>3 DEF FlushNow, StartPass, RecoveryInv, Between
      <3> QED BY <1>0, <2>1, <2>3, <3>1 DEF RecoveryInv, Between, NotFailed, Whole, RecoveryGivesUp
    <2> QED BY <1>3, <2>2, <2>3 DEF RecoverEnqueue, EnqueueRefused, bufferVars
  <1>4. CASE RecoverRetry
    <2>1. phase = "retry" /\ fpc = "idle"
      BY <1>4 DEF RecoverRetry
    <2>2. CASE EnqueueChunk
      BY <1>0, <2>1, <2>2, ChunkRecovery
    <2>3. CASE phase' = "fatal" /\ (lastFlush = "failed" \/ (lastFlush = "ok" /\ EnqueueRefused(Chunk)))
               /\ UNCHANGED <<replay, bufferVars>>
      <3>1. Between' /\ NotFailed' /\ Whole'
        BY <2>3 DEF Between, NotFailed, Whole
      <3>2. RecoveryGivesUp'
        <4> SUFFICES ASSUME faults' = 0, ~reused'
                     PROVE  (/\ queue = <<>> /\ replay # <<>>
                             /\ ~Fits(FilterNearDuplicates(Chunk).out))'
          BY Zenon DEF RecoveryGivesUp
        <4>1. Orderly
          BY DEF Orderly
        <4>2. lastFlush = "ok" /\ EnqueueRefused(Chunk)
          BY <2>1, <2>3, <4>1 DEF RecoveryInv, NotFailed
        <4>3. queue = <<>> /\ replay # <<>> /\ ~Fits(FilterNearDuplicates(Chunk).out)
          BY <2>1, <4>1, <4>2 DEF RecoveryInv, Whole, Between, EnqueueRefused
        <4>4. UNCHANGED <<queue, totalPoints, totalBytes, lastByDevice, replay>>
          BY <2>3 DEF bufferVars
        <4> QED BY <4>3, <4>4, ChunkStays
      <3> QED BY <3>1, <3>2 DEF RecoveryInv
    <2> QED BY <1>4, <2>2, <2>3 DEF RecoverRetry, EnqueueRefused
  <1>5. CASE RecoverFinal
    <2>1. /\ phase = "final" /\ phase' = "finish" /\ fpc = "idle" /\ fpc' = "stats"
          /\ lastFlush' = lastFlush
      BY <1>5 DEF RecoverFinal, FlushNow, StartPass
    <2> QED BY <1>0, <2>1 DEF RecoveryInv, Between, NotFailed, Whole, RecoveryGivesUp
  <1>6. CASE RecoverFinish
    <2>1. /\ phase = "finish" /\ UNCHANGED lastFlush
          /\ phase' = IF lastFlush = "failed" THEN "fatal" ELSE "serving"
      BY <1>6 DEF RecoverFinish, flusherVars
    <2>2. Orderly' => phase' = "serving"
      BY <2>1 DEF RecoveryInv, NotFailed
    <2> QED BY <2>1, <2>2 DEF RecoveryInv, Between, NotFailed, Whole, RecoveryGivesUp, Orderly
  <1> QED BY <1>1, <1>2, <1>3, <1>4, <1>5, <1>6 DEF Recover

(* A number of batches that is less than one is none.                      *)
LEMMA LessThanOne ==
  ASSUME NEW k \in Nat, NEW m \in Nat \ {0}, k * m < m
  PROVE  k = 0
  <1>1. ASSUME k # 0
        PROVE  FALSE
    <2>1. PICK j \in Nat : k = j + 1
      <3>1. k - 1 \in Nat /\ k = (k - 1) + 1
        BY <1>1
      <3> QED BY <3>1
    <2>2. k * m = j * m + m /\ j * m \in Nat
      BY <2>1
    <2>3. m \in Int
      OBVIOUS
    <2> QED BY <2>2, <2>3
  <1> QED BY <1>1

LEMMA FlushRecovery ==
  ASSUME ServerInv, GivenInv, RecoveryInv, FlusherRuns, Counted', Orderly' => Orderly
  PROVE  RecoveryInv'
  <1>0. /\ UNCHANGED <<phase, replay, fmode>> /\ phase # "fatal" /\ fpc # "idle"
        /\ queue \in Seq(SpoolRecord) /\ Len(queue) \in Nat /\ faults \in Nat
        /\ FlushBatchSize \in Nat \ {0} /\ totalPoints = Len(queue)
    <2>1. UNCHANGED <<phase, replay>> /\ phase # "fatal"
      BY DEF FlusherRuns, Running
    <2>2. UNCHANGED fmode /\ fpc # "idle"
      BY DEF FlusherRuns, FlusherStep, PassStats, FlushDrain, FlushInsert, FlushInsertFails,
             FlushCheckpoint, FlushCheckpointWrite, FlushCompact, FlushAgain, FlushRequeue,
             EndPass, GoTo
    <2> QED BY <2>1, <2>2, BufferAssumption
            DEF ServerInv, QueueInv, Typed, LogOK, SpoolInv, SpoolTypeOK, RecoveryInv, Counted
  <1>1. phase \notin {"down", "read", "enqueue", "final"}
    BY <1>0 DEF RecoveryInv, Between
  <1>2. Between'
    BY <1>0, <1>1 DEF RecoveryInv, Between
  <1>3. NotFailed'
    <2> SUFFICES ASSUME phase \in {"retry", "finish"}, Orderly'
                 PROVE  lastFlush' # "failed" /\ fpc' # "requeue" /\ (readable' \/ fpc' = "write")
      BY <1>0, <1>1 DEF NotFailed
    <2>1. /\ Orderly /\ lastFlush # "failed" /\ fpc # "requeue"
          /\ fpc # "write" => readable
      BY DEF RecoveryInv, NotFailed
    <2>2. faults' = 0 /\ faults = 0
      BY <2>1 DEF Orderly
    <2>3. ~SeqConflict(batch, WriteBatch)
      BY <2>1, NoConflict DEF Orderly
    <2>4. \A kind : ~Fail(kind)
      BY <2>2 DEF Fail
    <2>5. CASE PassStats \/ FlushDrain \/ FlushInsert \/ FlushAgain
      BY <2>1, <2>5 DEF PassStats, FlushDrain, FlushInsert, FlushAgain, EndPass, GoTo, spoolVars,
         diskVars
    <2>6. CASE FlushInsertFails
      BY <2>2, <2>3, <2>6 DEF FlushInsertFails, InsertConflicts
    <2>7. CASE FlushCheckpoint
      <3>1. readable
        BY <2>1, <2>7 DEF FlushCheckpoint
      <3>2. ~CheckpointRefused(MaxSeqOf(batch))
        BY <2>4, <3>1 DEF CheckpointRefused
      <3> QED BY <2>1, <2>7, <3>1, <3>2 DEF FlushCheckpoint, CheckpointCurrent, CheckpointTruncate,
                 GoTo, spoolVars, diskVars
    <2>8. CASE FlushCheckpointWrite
      <3>1. ~CheckpointWriteFails(FlusherCaller)
        BY <2>4 DEF CheckpointWriteFails
      <3> QED BY <2>1, <2>8, <3>1 DEF FlushCheckpointWrite, CheckpointWrite, GoTo
    <2>9. CASE FlushCompact
      BY <2>1, <2>9 DEF FlushCompact, Compact, CompactFails, GoTo
    <2>10. CASE FlushRequeue
      BY <2>1, <2>10 DEF FlushRequeue
    <2> QED BY <2>5, <2>6, <2>7, <2>8, <2>9, <2>10 DEF FlusherRuns, FlusherStep
  <1>4. Whole'
    <2> SUFFICES ASSUME phase = "retry", Orderly'
                 PROVE  /\ \E k \in Nat : Len(queue') = k * FlushBatchSize
                        /\ fpc' = "idle" /\ lastFlush' = "ok" => queue' = <<>>
      BY <1>0, <1>1 DEF Whole
    <2>1. Orderly /\ fpc # "requeue" /\ fmode = "now"
      BY DEF RecoveryInv, NotFailed, Between
    <2>2. PICK k \in Nat : Len(queue) = k * FlushBatchSize
      BY <2>1 DEF RecoveryInv, Whole
    <2>3. CASE PassStats
      <3>1. UNCHANGED queue /\ (fpc' = "idle" => totalPoints = 0)
        BY <2>1, <2>3 DEF PassStats, GoTo, EndPass, bufferVars
      <3>2. fpc' = "idle" => queue = <<>>
        BY <1>0, <3>1
      <3> QED BY <2>2, <3>1, <3>2
    <2>4. CASE FlushDrain
      <3> DEFINE m == DrainCount
      <3>1. queue' = SubSeq(queue, m + 1, Len(queue)) /\ (fpc' = "idle" => queue = <<>>)
        BY <2>4 DEF FlushDrain, DrainBatch, GoTo
      <3>2. m \in 0..Len(queue) /\ (Len(queue) < FlushBatchSize => m = Len(queue))
            /\ (Len(queue) >= FlushBatchSize => m = FlushBatchSize)
        BY <1>0 DEF DrainCount
      <3> HIDE DEF m
      <3>3. SubSeq(queue, m + 1, Len(queue)) \in Seq(SpoolRecord)
            /\ Len(SubSeq(queue, m + 1, Len(queue))) = Len(queue) - m
        BY <1>0, <3>2
      <3>4. queue' \in Seq(SpoolRecord) /\ Len(queue') = Len(queue) - m
        BY <3>1, <3>3
      <3>5. CASE Len(queue) < FlushBatchSize
        <4>1. k = 0
          BY <1>0, <2>2, <3>5, LessThanOne
        <4>2. Len(queue') = 0 * FlushBatchSize /\ Len(queue') = 0
          BY <1>0, <2>2, <3>2, <3>4, <3>5, <4>1
        <4>3. queue' = <<>> /\ 0 \in Nat
          BY <3>4, <4>2
        <4> QED BY <4>2, <4>3
      <3>6. CASE Len(queue) >= FlushBatchSize
        <4>1. k # 0
          BY <1>0, <2>2, <3>6
        <4>2. PICK j \in Nat : k = j + 1
          <5>1. k - 1 \in Nat /\ k = (k - 1) + 1
            BY <4>1
          <5> QED BY <5>1
        <4>3. k * FlushBatchSize = j * FlushBatchSize + FlushBatchSize
          BY <1>0, <4>2
        <4>4. Len(queue') = Len(queue) - FlushBatchSize
          BY <3>2, <3>4, <3>6
        <4>5. j * FlushBatchSize \in Int /\ FlushBatchSize \in Int
          BY <1>0
        <4>6. Len(queue') = j * FlushBatchSize
          BY <2>2, <4>3, <4>4, <4>5
        <4>7. queue # <<>>
          BY <1>0, <3>6
        <4> QED BY <3>1, <4>6, <4>7
      <3> QED BY <1>0, <3>5, <3>6
    <2>5. CASE FlushAgain
      <3>1. UNCHANGED queue /\ (fpc' = "idle" => ~(totalPoints >= FlushBatchSize))
        BY <2>1, <2>5 DEF FlushAgain, GoTo, EndPass, bufferVars
      <3>2. fpc' = "idle" => Len(queue) < FlushBatchSize
        BY <1>0, <3>1
      <3>3. fpc' = "idle" => k = 0
        BY <1>0, <2>2, <3>2, LessThanOne
      <3>4. fpc' = "idle" => queue = <<>>
        BY <1>0, <2>2, <3>3
      <3> QED BY <2>2, <3>1, <3>4
    <2>6. CASE UNCHANGED queue /\ fpc' # "idle"
      BY <2>2, <2>6
    <2> QED BY <2>1, <2>3, <2>4, <2>5, <2>6 DEF FlusherRuns, FlusherStep, FlushInsert,
               FlushInsertFails, FlushCheckpoint, FlushCheckpointWrite, FlushCompact, FlushRequeue,
               GoTo, bufferVars
  <1>5. RecoveryGivesUp'
    BY <1>0 DEF RecoveryGivesUp
  <1> QED BY <1>2, <1>3, <1>4, <1>5 DEF RecoveryInv

LEMMA RecoveryStep ==
  ASSUME ServerInv, GivenInv, RecoveryInv, [Next]_vars
  PROVE  RecoveryInv'
  <1>1. Counted' /\ (Orderly' => Orderly)
    BY CountedStep, OrderlyBefore DEF RecoveryInv
  <1>2. CASE Recover
    BY <1>1, <1>2, RecoverRecovery
  <1>3. CASE FlusherRuns
    BY <1>1, <1>3, FlushRecovery
  <1>4. CASE phase' \in {"serving", "draining", "stopping", "exited"}
    BY <1>1, <1>4 DEF RecoveryInv, Between, NotFailed, Whole, RecoveryGivesUp
  <1>5. CASE NewProcess
    BY <1>1, <1>5 DEF NewProcess, BufferReset, FlusherReset, RecoveryInv, Between, NotFailed, Whole,
                      RecoveryGivesUp
  <1>6. CASE WalSyncs \/ UNCHANGED vars
    <2>1. UNCHANGED <<queue, totalPoints, totalBytes, lastByDevice, fpc, fmode, lastFlush, phase,
                      replay, segments, readable>>
      BY <1>6 DEF WalSyncs, vars, pipeVars, spoolVars, diskVars, bufferVars, flusherVars
    <2> QED BY <1>1, <2>1, QuietRecovery
  <1>7. ASSUME NEW h \in Handlers, HandleRequest(h) \/ HandlerStep(h)
        PROVE  phase' \in {"serving", "draining", "stopping", "exited"}
    BY <1>7 DEF HandleRequest, HandlerStep, HandleAppend, HandleAppendFails, HandleEnqueue,
       HandleEnqueueRefused, HandleRespond, HandlerAt, Started
  <1>8. FlusherWakes \/ Signal \/ ShutdownReturns \/ Exit =>
          phase' \in {"serving", "draining", "stopping", "exited"}
    BY DEF FlusherWakes, Signal, ShutdownReturns, Exit, Started
  <1> QED BY <1>2, <1>3, <1>4, <1>5, <1>6, <1>7, <1>8 DEF Next, Ended, Crash, PowerLoss

LEMMA RecoveryInit == Init => RecoveryInv
  BY DEF Init, BufferInit, FlusherInit, RecoveryInv, Counted, Between, NotFailed, Whole,
         RecoveryGivesUp

(* Startup is abandoned only for a reason: a spool that does not decode, a *)
(* failing call, a number used twice, or a chunk too large for the empty   *)
(* buffer.  However full the buffer was, a retry finds it empty.           *)
THEOREM RecoveryGivesUpRightly == Spec => []RecoveryGivesUp
  <1> DEFINE Inv == ServerInv /\ GivenInv /\ RecoveryInv
  <1>1. Init => Inv
    BY ServerInvInit, GivenInit, RecoveryInit
  <1>2. Inv /\ [Next]_vars => Inv'
    BY ServerInvStep, GivenStep, RecoveryStep
  <1>3. Inv => RecoveryGivesUp
    BY DEF RecoveryInv
  <1> HIDE DEF Inv
  <1> QED BY <1>1, <1>2, <1>3, PTL DEF Spec
=============================================================================
