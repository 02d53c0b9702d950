----------------------------- MODULE BufferSpec -----------------------------
(***************************************************************************)
(* The buffer between an arbitrary producer and one flusher that drains a  *)
(* batch, then either settles it (committed downstream) or requeues it.    *)
(***************************************************************************)
EXTENDS Buffer

VARIABLES
  accepted,     \* history: every record enqueued, in order
  settled       \* history: every record settled, in order

fifoVars == <<bufferVars, batch, accepted, settled>>

FifoInit ==
  /\ BufferInit
  /\ batch = <<>>
  /\ accepted = <<>>
  /\ settled = <<>>

(* A producer hands over the records of a request (sequence numbers carry  *)
(* on from the records accepted so far).                                   *)
Produce ==
  \E pts \in Batches :
    LET records == [i \in 1..Len(pts) |-> NewRecord(Len(accepted) + i, pts[i])]
    IN  /\ Len(accepted) + Len(pts) <= MaxAccepted
        /\ \/ /\ Enqueue(records)
              /\ accepted' = accepted \o FilterNearDuplicates(records).out
           \/ EnqueueRefused(records) /\ UNCHANGED accepted
        /\ UNCHANGED <<batch, settled>>

(* Draining an empty queue yields an empty batch and changes nothing.      *)
Drain ==
  /\ batch = <<>>
  /\ DrainBatch
  /\ UNCHANGED <<accepted, settled>>

FlushFails ==
  /\ batch # <<>>
  /\ RequeueFront
  /\ UNCHANGED <<accepted, settled>>

FlushSucceeds ==
  /\ batch # <<>>
  /\ settled' = settled \o batch
  /\ batch' = <<>>
  /\ UNCHANGED <<bufferVars, accepted>>

FifoNext == Produce \/ Drain \/ FlushFails \/ FlushSucceeds

FifoSpec == FifoInit /\ [][FifoNext]_fifoVars

-----------------------------------------------------------------------------
FifoTypeOK ==
  /\ queue \in Seq(SpoolRecord)
  /\ batch \in Seq(SpoolRecord)
  /\ accepted \in Seq(SpoolRecord)
  /\ settled \in Seq(SpoolRecord)
  /\ totalPoints \in Nat
  /\ totalBytes \in Nat
  /\ lastByDevice \in [Names -> Points \cup {NoPoint}]

(* Records are settled in exactly the order in which they were accepted,   *)
(* none lost and none twice, however many flushes fail: what was accepted  *)
(* is what is settled, then the batch, then the queue.                     *)
FifoAcrossRequeue == accepted = settled \o batch \o queue
=============================================================================
