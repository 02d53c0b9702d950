------------------------------ MODULE Flusher -------------------------------
(***************************************************************************)
(* internal/flusher: the goroutine that moves batches from the buffer to   *)
(* SQLite, advances the spool checkpoint and compacts the spool.           *)
(*                                                                         *)
(* One step per call into the buffer, the store or the spool, each of      *)
(* which takes its own lock; handlers run between any two of them.  The    *)
(* same machine runs FlushNow for the startup recovery (fmode "now").      *)
(***************************************************************************)
EXTENDS Spool, Buffer, Store

CONSTANTS
  FlusherCaller,    \* the flusher as a caller of the spool
  StoreFails        \* whether InsertSpoolBatch may fail (disk, lock)

ASSUME FlusherAssumption ==
  /\ FlusherCaller \in Callers
  /\ StoreFails \in BOOLEAN

VARIABLES
  fpc,          \* where the flusher is
  fmode,        \* why it runs: "timer", "trigger", "stop" or "now"
  trigger,      \* triggerCh, a channel of capacity one, holds a token
  lastFlush     \* lastResult: "none", "ok" or "failed"

flusherVars == <<fpc, fmode, trigger, lastFlush>>

FlusherInit ==
  /\ batch = <<>>
  /\ fpc = "idle"
  /\ fmode = "timer"
  /\ trigger = FALSE
  /\ lastFlush = "none"

FlusherReset ==
  /\ batch' = <<>>
  /\ fpc' = "idle"
  /\ fmode' = "timer"
  /\ trigger' = FALSE
  /\ lastFlush' = "none"

GoTo(pc) == fpc' = pc /\ UNCHANGED <<fmode, trigger, lastFlush>>

(* Mutant of EndPass: run does not return after the stop.                  *)
EndPassIdle(result) ==
  /\ fpc' = "idle"
  /\ lastFlush' = result
  /\ UNCHANGED <<fmode, trigger>>

(* recordFlushResult, and the end of run after a stop.                     *)
EndPass(result) ==
  /\ fpc' = IF fmode = "stop" THEN "stopped" ELSE "idle"
  /\ lastFlush' = result
  /\ UNCHANGED <<fmode, trigger>>

-----------------------------------------------------------------------------
(* The three cases of the select in run, and FlushNow.                     *)

StartPass(mode) ==
  /\ fpc = "idle"
  /\ fpc' = IF mode = "stop" THEN "drain" ELSE "stats"
  /\ fmode' = mode
  /\ UNCHANGED lastFlush

TimerTick == StartPass("timer") /\ UNCHANGED trigger

TriggerReceived == trigger /\ StartPass("trigger") /\ trigger' = FALSE

StopReceived == StartPass("stop") /\ UNCHANGED trigger

FlushNow == StartPass("now") /\ UNCHANGED trigger

-----------------------------------------------------------------------------
(* flushPass, flushUntilEmpty and flushOneBatch.                           *)

(* Mutant of PassStats: the timer waits for a full batch too.              *)
PassStatsFull ==
  /\ fpc = "stats"
  /\ IF totalPoints < FlushBatchSize THEN EndPass("ok") ELSE GoTo("drain")
  /\ UNCHANGED <<spoolVars, bufferVars, storeVars, batch>>

(* A triggered pass wants a full batch.                                    *)
PassStats ==
  /\ fpc = "stats"
  /\ IF totalPoints = 0 \/ (fmode = "trigger" /\ totalPoints < FlushBatchSize)
     THEN EndPass("ok")
     ELSE GoTo("drain")
  /\ UNCHANGED <<spoolVars, bufferVars, storeVars, batch>>

FlushDrain ==
  /\ fpc = "drain"
  /\ DrainBatch
  /\ IF queue = <<>> THEN EndPass("ok") ELSE GoTo("insert")
  /\ UNCHANGED <<spoolVars, storeVars>>

(* splitWriteAndCheckpointBatch: the positions of the records to write.    *)
WriteBatch == {i \in DOMAIN batch : ~batch[i].checkpointOnly}

(* Mutant of MaxSeqOf: the sequence number of the first record.            *)
MaxSeqOfFirst(records) == records[1].seq

MaxSeqOf(records) ==
  LET seqs == {records[i].seq : i \in DOMAIN records}
  IN  CHOOSE m \in seqs : \A n \in seqs : n <= m

(* An empty write batch skips the store; inserting nothing is the same.    *)
FlushInsert ==
  /\ fpc = "insert"
  /\ InsertSpoolBatch(batch, WriteBatch)
  /\ GoTo("checkpoint")
  /\ UNCHANGED <<spoolVars, bufferVars, batch>>

(* Mutant of FlushInsertFails: the error is not looked at.                 *)
FlushInsertIgnored ==
  /\ fpc = "insert"
  /\ WriteBatch # {}
  /\ StoreFails
  /\ faults < MaxFaults
  /\ faults' = faults + 1
  /\ GoTo("checkpoint")
  /\ UNCHANGED <<diskVars, managerVars, callVars, spoolHist, crashVars, bufferVars, storeVars, batch>>

FlushInsertFails ==
  /\ fpc = "insert"
  /\ WriteBatch # {}
  /\ \/ InsertConflicts(batch, WriteBatch) /\ UNCHANGED faults
     \/ /\ StoreFails
        /\ faults < MaxFaults
        /\ faults' = faults + 1
        /\ UNCHANGED storeVars
  /\ GoTo("requeue")
  /\ UNCHANGED <<diskVars, managerVars, callVars, spoolHist, crashVars, bufferVars, batch>>

FlushCheckpoint ==
  /\ fpc = "checkpoint"
  /\ \/ CheckpointCurrent(MaxSeqOf(batch)) /\ GoTo("compact")
     \/ CheckpointTruncate(FlusherCaller, MaxSeqOf(batch)) /\ GoTo("write")
     \/ CheckpointRefused(MaxSeqOf(batch)) /\ GoTo("requeue")
  /\ UNCHANGED <<bufferVars, storeVars, batch>>

FlushCheckpointWrite ==
  /\ fpc = "write"
  /\ \/ CheckpointWrite(FlusherCaller) /\ GoTo("compact")
     \/ CheckpointWriteFails(FlusherCaller) /\ GoTo("requeue")
  /\ UNCHANGED <<bufferVars, storeVars, batch>>

(* compactCommittedSegmentsBestEffort: its error is only logged.           *)
FlushCompact ==
  /\ fpc = "compact"
  /\ Compact \/ CompactFails
  /\ batch' = <<>>
  /\ GoTo("again")
  /\ UNCHANGED <<bufferVars, storeVars>>

(* flushUntilEmpty goes on to an empty drain, flushPass while a full batch *)
(* is left.                                                                *)
FlushAgain ==
  /\ fpc = "again"
  /\ IF fmode = "stop" \/ totalPoints >= FlushBatchSize
     THEN GoTo("drain")
     ELSE EndPass("ok")
  /\ UNCHANGED <<spoolVars, bufferVars, storeVars, batch>>

FlushRequeue ==
  /\ fpc = "requeue"
  /\ RequeueFront
  /\ EndPass("failed")
  /\ UNCHANGED <<spoolVars, storeVars>>

FlusherStep ==
  \/ PassStats
  \/ FlushDrain
  \/ FlushInsert
  \/ FlushInsertFails
  \/ FlushCheckpoint
  \/ FlushCheckpointWrite
  \/ FlushCompact
  \/ FlushAgain
  \/ FlushRequeue
=============================================================================
