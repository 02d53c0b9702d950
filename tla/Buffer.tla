------------------------------- MODULE Buffer -------------------------------
(***************************************************************************)
(* internal/buffer: the bounded FIFO queue between the ingest handlers and *)
(* the flusher.  Every operation runs under Manager.mu and is one step.    *)
(*                                                                         *)
(* batch is the flusher's: the records it has drained and not yet settled. *)
(* There is one flusher at a time (startup recovery flushes before the     *)
(* flusher goroutine starts), so there is one such batch.                  *)
(* deviceCounts is left out: the code maintains it and never reads it.     *)
(***************************************************************************)
EXTENDS Ingest

CONSTANTS
  BufferMaxPoints,    \* m.maxPoints
  BufferMaxBytes,     \* m.maxBytes
  FlushBatchSize,     \* config.FlushBatchSize, the argument of DrainBatch
  NoPoint,            \* no point accepted yet, in lastByDevice
  MaxAccepted         \* bound: records enqueued, in the buffer's own runs

ASSUME BufferAssumption ==
  /\ BufferMaxPoints \in Nat \ {0}
  /\ BufferMaxBytes \in Nat \ {0}
  /\ FlushBatchSize \in Nat \ {0}
  /\ NoPoint \notin Points
  /\ MaxAccepted \in Nat

VARIABLES
  queue,          \* m.queue
  totalPoints,    \* m.totalPoints
  totalBytes,     \* m.totalBytes
  lastByDevice,   \* m.lastByDevice: last point accepted under each name
  batch           \* the drained batch the flusher is working on

bufferVars == <<queue, totalPoints, totalBytes, lastByDevice>>

-----------------------------------------------------------------------------
(* estimateRecordBytes *)
RecordBytes(r) == IF r.checkpointOnly THEN MarkerBytes ELSE Bytes[r.point]

(* The sum over the batch, as the loops of Enqueue and DrainBatch add it up. *)
BytesOf(records) ==
  LET sum[i \in 0..Len(records)] ==
        IF i = 0 THEN 0 ELSE sum[i - 1] + RecordBytes(records[i])
  IN  sum[Len(records)]

(* isNearDuplicate: time and distance are within the window of the last    *)
(* point accepted from a device of that name, whoever owns it.             *)
IsNearDuplicate(r, last) == <<r.point, last[DeviceName(r.point)]>> \in NearPairs

(* filterNearDuplicates: last[i] is the candidate state after i records.   *)
(* A near duplicate stays in the batch as a checkpoint marker, any other   *)
(* record becomes the last point of its device's name.                     *)
FilterNearDuplicates(records) ==
  LET last[i \in 0..Len(records)] ==
        IF i = 0 THEN lastByDevice
        ELSE IF IsNearDuplicate(records[i], last[i - 1]) THEN last[i - 1]
        ELSE [last[i - 1] EXCEPT ![DeviceName(records[i].point)] = records[i].point]
  IN  [out  |-> [i \in 1..Len(records) |->
                   [records[i] EXCEPT !.checkpointOnly =
                      @ \/ IsNearDuplicate(records[i], last[i - 1])]],
       last |-> last[Len(records)]]

-----------------------------------------------------------------------------
BufferInit ==
  /\ queue = <<>>
  /\ totalPoints = 0
  /\ totalBytes = 0
  /\ lastByDevice = [n \in Names |-> NoPoint]

(* A new process has an empty buffer.                                      *)
BufferReset ==
  /\ queue' = <<>>
  /\ totalPoints' = 0
  /\ totalBytes' = 0
  /\ lastByDevice' = [n \in Names |-> NoPoint]

(* Mutant of Fits: one of the two limits is not checked.                   *)
FitsBytesOnly(records) == totalBytes + BytesOf(records) <= BufferMaxBytes

Fits(records) ==
  /\ totalPoints + Len(records) <= BufferMaxPoints
  /\ totalBytes + BytesOf(records) <= BufferMaxBytes

(* Enqueue: all records or, past a limit, none.                            *)
Enqueue(records) ==
  LET filtered == FilterNearDuplicates(records)
  IN  /\ Fits(filtered.out)
      /\ queue' = queue \o filtered.out
      /\ totalPoints' = totalPoints + Len(filtered.out)
      /\ totalBytes' = totalBytes + BytesOf(filtered.out)
      /\ lastByDevice' = filtered.last

EnqueueRefused(records) ==
  /\ ~Fits(FilterNearDuplicates(records).out)
  /\ UNCHANGED bufferVars

(* DrainBatch(FlushBatchSize) *)
DrainCount == IF FlushBatchSize > Len(queue) THEN Len(queue) ELSE FlushBatchSize

DrainBatch ==
  LET drained == SubSeq(queue, 1, DrainCount)
  IN  /\ batch' = drained
      /\ queue' = SubSeq(queue, DrainCount + 1, Len(queue))
      /\ totalPoints' = totalPoints - DrainCount
      /\ totalBytes' = totalBytes - BytesOf(drained)
      /\ UNCHANGED lastByDevice

(* Mutants of RequeueFront: the bytes are not counted again; the batch     *)
(* goes to the back of the queue; the batch is dropped.                    *)
RequeueUncounted ==
  /\ queue' = batch \o queue
  /\ totalPoints' = totalPoints + Len(batch)
  /\ batch' = <<>>
  /\ UNCHANGED <<totalBytes, lastByDevice>>

RequeueBack ==
  /\ queue' = queue \o batch
  /\ totalPoints' = totalPoints + Len(batch)
  /\ totalBytes' = totalBytes + BytesOf(batch)
  /\ batch' = <<>>
  /\ UNCHANGED lastByDevice

RequeueDropped == batch' = <<>> /\ UNCHANGED bufferVars

(* RequeueFront(batch): no limit is checked.                               *)
RequeueFront ==
  /\ queue' = batch \o queue
  /\ totalPoints' = totalPoints + Len(batch)
  /\ totalBytes' = totalBytes + BytesOf(batch)
  /\ batch' = <<>>
  /\ UNCHANGED lastByDevice

-----------------------------------------------------------------------------
(* RequeueFront ignores the limits.  The overshoot is never more than the  *)
(* one batch that was drained, however often the flush fails and however   *)
(* many enqueues slip in between.                                          *)
OvershootBounded ==
  /\ Len(queue) + Len(batch) <= BufferMaxPoints + FlushBatchSize
  /\ batch # <<>> => Len(queue) <= BufferMaxPoints

(* The byte counter, which the limit and the flush triggers look at, stays *)
(* that of the queue through every requeue, and the limit holds again as   *)
(* soon as a batch is out: the batch that overshot it is drained first, in *)
(* full.                                                                   *)
BytesRecover ==
  /\ totalBytes = BytesOf(queue)
  /\ batch # <<>> => totalBytes <= BufferMaxBytes
=============================================================================
