------------------------------- MODULE Server -------------------------------
(***************************************************************************)
(* The ingest pipeline as one process: the HTTP ingest handlers            *)
(* (internal/api/ingest.go), the startup recovery                          *)
(* (internal/tasks/startup_recovery.go) and the life of the process        *)
(* (cmd/server/main.go), on top of the flusher and through it the spool,   *)
(* the buffer and the store.                                               *)
(*                                                                         *)
(* phase is where main is: "down" before it starts; "read", "enqueue",     *)
(* "retry", "final" and "finish" inside RecoverFromSpool; "serving";       *)
(* "draining" while server.Shutdown waits; "stopping" while flusher.Stop   *)
(* waits; "exited" after main returns and "fatal" after log.Fatalf.        *)
(***************************************************************************)
EXTENDS Flusher

CONSTANTS
  Handlers,             \* requests that can be in progress at once
  FlushTriggerPoints,   \* deps.FlushTriggerPoints
  FlushTriggerBytes,    \* deps.FlushTriggerBytes
  ShutdownTimeouts,     \* whether the shutdown contexts may expire
  MaxRequests           \* bound: requests accepted

ASSUME ServerAssumption ==
  /\ Handlers \subseteq Callers \ {FlusherCaller}
  /\ FlushTriggerPoints \in Nat
  /\ FlushTriggerBytes \in Nat
  /\ ShutdownTimeouts \in BOOLEAN
  /\ MaxRequests \in Nat

VARIABLES
  phase,        \* where main is
  hpc,          \* where each handler is
  request,      \* the points each handler was sent
  records,      \* the spool records each handler got back
  replay,       \* recovery: records still to enqueue
  requests,     \* number of requests accepted so far
  acked,        \* history: points answered with 200
  ackedHere,    \* history: those answered by the running process
  ackedRecords, \* history: the records it answered for
  clean         \* history: the shutdown met no timeout and no flush error

handlerVars == <<hpc, request, records>>
ackVars     == <<requests, acked, ackedHere, ackedRecords>>
pipeVars    == <<spoolVars, bufferVars, storeVars, batch>>
vars        == <<pipeVars, flusherVars, phase, handlerVars, replay, ackVars, clean>>

Running == phase \notin {"down", "exited", "fatal"}

(* The flusher goroutine exists from Start on.                             *)
Started == phase \in {"serving", "draining", "stopping"}

Init ==
  /\ SpoolInit /\ BufferInit /\ StoreInit /\ FlusherInit
  /\ phase = "down"
  /\ hpc = [h \in Handlers |-> "idle"]
  /\ request = [h \in Handlers |-> <<>>]
  /\ records = [h \in Handlers |-> <<>>]
  /\ replay = <<>>
  /\ requests = 0
  /\ acked = {}
  /\ ackedHere = {}
  /\ ackedRecords = {}
  /\ clean = TRUE

-----------------------------------------------------------------------------
(* Startup recovery.                                                       *)

Boot ==
  /\ phase = "down"
  /\ phase' = "read"
  /\ UNCHANGED <<pipeVars, flusherVars, handlerVars, replay, ackVars, clean>>

(* Mutant of PastCheckpoint: the first record past it is skipped.          *)
PastCheckpointLate(lines) ==
  SelectSeq(lines, LAMBDA r : r.seq > checkpoint + 1)

(* The records of a segment past the checkpoint, in file order.            *)
PastCheckpoint(lines) ==
  LET past[i \in 0..Len(lines)] ==
        IF i = 0 THEN <<>>
        ELSE IF lines[i].seq > checkpoint THEN Append(past[i - 1], lines[i])
        ELSE past[i - 1]
  IN  past[Len(lines)]

(* ReplayAfterCheckpoint: the segments in ascending order of their names,  *)
(* none of which is past MaxSeq; read[s] is what those up to s hold.       *)
ReplayAfterCheckpoint ==
  LET read[s \in 0..MaxSeq] ==
        IF s = 0 THEN <<>>
        ELSE IF s \in DOMAIN segments THEN read[s - 1] \o PastCheckpoint(segments[s].lines)
        ELSE read[s - 1]
  IN  read[MaxSeq]

RecoverRead ==
  /\ phase = "read"
  /\ IF ~Replayable
     THEN phase' = "fatal" /\ UNCHANGED replay
     ELSE /\ replay' = ReplayAfterCheckpoint
          /\ phase' = IF ReplayAfterCheckpoint = <<>> THEN "serving" ELSE "enqueue"
  /\ UNCHANGED <<pipeVars, flusherVars, handlerVars, ackVars, clean>>

(* main passes FlushBatchSize as EnqueueBatchSize.                         *)
ChunkSize == IF FlushBatchSize > Len(replay) THEN Len(replay) ELSE FlushBatchSize
Chunk     == SubSeq(replay, 1, ChunkSize)

EnqueueChunk ==
  /\ Enqueue(Chunk)
  /\ replay' = SubSeq(replay, ChunkSize + 1, Len(replay))
  /\ phase' = IF ChunkSize = Len(replay) THEN "final" ELSE "enqueue"
  /\ UNCHANGED flusherVars

(* Mutant of RecoverEnqueue: a full buffer ends recovery.                  *)
RecoverEnqueueOnce ==
  /\ phase = "enqueue"
  /\ \/ EnqueueChunk
     \/ EnqueueRefused(Chunk) /\ phase' = "fatal" /\ UNCHANGED <<replay, flusherVars>>
  /\ UNCHANGED <<spoolVars, storeVars, batch, handlerVars, ackVars, clean>>

RecoverEnqueue ==
  /\ phase = "enqueue"
  /\ \/ EnqueueChunk
     \/ EnqueueRefused(Chunk) /\ FlushNow /\ phase' = "retry" /\ UNCHANGED replay
  /\ UNCHANGED <<spoolVars, storeVars, batch, handlerVars, ackVars, clean>>

(* After a flush that freed no room, or failed, startup is abandoned.      *)
RecoverRetry ==
  /\ phase = "retry"
  /\ fpc = "idle"
  /\ \/ lastFlush = "ok" /\ EnqueueChunk
     \/ /\ \/ lastFlush = "failed" /\ UNCHANGED bufferVars
           \/ lastFlush = "ok" /\ EnqueueRefused(Chunk)
        /\ phase' = "fatal"
        /\ UNCHANGED <<replay, flusherVars>>
  /\ UNCHANGED <<spoolVars, storeVars, batch, handlerVars, ackVars, clean>>

RecoverFinal ==
  /\ phase = "final"
  /\ FlushNow
  /\ phase' = "finish"
  /\ UNCHANGED <<pipeVars, handlerVars, replay, ackVars, clean>>

RecoverFinish ==
  /\ phase = "finish"
  /\ fpc = "idle"
  /\ phase' = IF lastFlush = "failed" THEN "fatal" ELSE "serving"
  /\ UNCHANGED <<pipeVars, flusherVars, handlerVars, replay, ackVars, clean>>

Recover == Boot \/ RecoverRead \/ RecoverEnqueue \/ RecoverRetry \/ RecoverFinal \/ RecoverFinish

-----------------------------------------------------------------------------
(* The ingest handlers.                                                    *)

HandlerAt(h, from, to) == Started /\ hpc[h] = from /\ hpc' = [hpc EXCEPT ![h] = to]

(* The draining check comes first and is not repeated.                     *)
HandleRequest(h) ==
  /\ phase = "serving"
  /\ requests < MaxRequests
  /\ HandlerAt(h, "idle", "append")
  /\ \E pts \in Batches : request' = [request EXCEPT ![h] = pts]
  /\ requests' = requests + 1
  /\ UNCHANGED <<pipeVars, flusherVars, phase, records, replay, acked, ackedHere, ackedRecords, clean>>

HandleAppend(h) ==
  /\ \/ AppendBegin(h, request[h]) /\ HandlerAt(h, "append", "spool") /\ UNCHANGED records
     \/ AppendLine(h) /\ HandlerAt(h, "spool", "spool") /\ UNCHANGED records
     \/ /\ AppendReturn(h)
        /\ HandlerAt(h, "spool", "enqueue")
        /\ records' = [records EXCEPT ![h] = done]
  /\ UNCHANGED <<bufferVars, storeVars, batch, flusherVars, phase, request, replay, ackVars, clean>>

(* A failed append answers 500; lines written before it stay in the spool. *)
HandleAppendFails(h) ==
  /\ AppendFails(h)
  /\ HandlerAt(h, "spool", "idle")
  /\ request' = [request EXCEPT ![h] = <<>>]
  /\ UNCHANGED <<bufferVars, storeVars, batch, flusherVars, phase, records, replay, ackVars, clean>>

HandleEnqueue(h) ==
  /\ Enqueue(records[h])
  /\ HandlerAt(h, "enqueue", "respond")
  /\ UNCHANGED <<spoolVars, storeVars, batch, flusherVars, phase, request, records, replay, ackVars, clean>>

(* A full buffer answers 503 and asks for a flush; the records stay in the *)
(* spool, in nobody's queue.                                               *)
HandleEnqueueRefused(h) ==
  /\ EnqueueRefused(records[h])
  /\ HandlerAt(h, "enqueue", "idle")
  /\ trigger' = TRUE
  /\ request' = [request EXCEPT ![h] = <<>>]
  /\ records' = [records EXCEPT ![h] = <<>>]
  /\ UNCHANGED <<pipeVars, fpc, fmode, lastFlush, phase, replay, ackVars, clean>>

UnderPressure ==
  \/ FlushTriggerPoints > 0 /\ totalPoints >= FlushTriggerPoints
  \/ FlushTriggerBytes > 0 /\ totalBytes >= FlushTriggerBytes

(* maybeTriggerPressureFlush and the 200 response.                         *)
HandleRespond(h) ==
  /\ HandlerAt(h, "respond", "idle")
  /\ trigger' = (trigger \/ UnderPressure)
  /\ acked' = acked \cup {request[h][i] : i \in DOMAIN request[h]}
  /\ ackedHere' = ackedHere \cup {request[h][i] : i \in DOMAIN request[h]}
  /\ ackedRecords' = ackedRecords \cup {records[h][i] : i \in DOMAIN records[h]}
  /\ request' = [request EXCEPT ![h] = <<>>]
  /\ records' = [records EXCEPT ![h] = <<>>]
  /\ UNCHANGED <<pipeVars, fpc, fmode, lastFlush, phase, replay, requests, clean>>

HandlerStep(h) ==
  \/ HandleAppend(h)
  \/ HandleAppendFails(h)
  \/ HandleEnqueue(h)
  \/ HandleEnqueueRefused(h)
  \/ HandleRespond(h)

-----------------------------------------------------------------------------
(* The flusher goroutine, and the flush passes recovery runs.              *)

FlusherWakes ==
  /\ Started
  /\ \/ TimerTick
     \/ TriggerReceived
     \/ phase = "stopping" /\ StopReceived
  /\ UNCHANGED <<pipeVars, phase, handlerVars, replay, ackVars, clean>>

FlusherRuns ==
  /\ Running
  /\ FlusherStep
  /\ UNCHANGED <<phase, handlerVars, replay, ackVars, clean>>

-----------------------------------------------------------------------------
(* Shutdown.                                                               *)

AllIdle == \A h \in Handlers : hpc[h] = "idle"

Signal ==
  /\ phase = "serving"
  /\ phase' = "draining"
  /\ UNCHANGED <<pipeVars, flusherVars, handlerVars, replay, ackVars, clean>>

(* server.Shutdown returns when no request is in progress or its context   *)
(* expires.                                                                *)
ShutdownReturns ==
  /\ phase = "draining"
  /\ AllIdle \/ ShutdownTimeouts
  /\ phase' = "stopping"
  /\ clean' = (clean /\ AllIdle)
  /\ UNCHANGED <<pipeVars, flusherVars, handlerVars, replay, ackVars>>

(* flusher.Stop returns; the deferred calls close SQLite, then the spool.  *)
Exit ==
  /\ phase = "stopping"
  /\ fpc = "stopped" \/ ShutdownTimeouts
  /\ SpoolClose
  /\ WalSync
  /\ phase' = "exited"
  /\ clean' = (clean /\ fpc = "stopped" /\ lastFlush = "ok")
  /\ UNCHANGED <<bufferVars, batch, flusherVars, handlerVars, replay, ackVars>>

(* What a new process starts from.                                         *)
NewProcess ==
  /\ phase' = "down"
  /\ BufferReset
  /\ FlusherReset
  /\ hpc' = [h \in Handlers |-> "idle"]
  /\ request' = [h \in Handlers |-> <<>>]
  /\ records' = [h \in Handlers |-> <<>>]
  /\ replay' = <<>>
  /\ ackedHere' = {}
  /\ ackedRecords' = {}
  /\ clean' = TRUE
  /\ UNCHANGED <<requests, acked>>

(* The process is killed at any point, or is started again after it ended. *)
Crash ==
  /\ SpoolRestart
  /\ NewProcess
  /\ UNCHANGED storeVars

PowerLoss ==
  /\ SpoolPowerLoss
  /\ StorePowerLoss
  /\ NewProcess

(* SQLite syncs its log on its own; only a power loss can tell.            *)
WalSyncs ==
  /\ MaxPowerLosses > 0
  /\ WalSync
  /\ UNCHANGED <<spoolVars, bufferVars, batch, flusherVars, phase, handlerVars, replay, ackVars, clean>>

(* The process has ended and is not started again.                         *)
Ended ==
  /\ phase \in {"exited", "fatal"}
  /\ UNCHANGED vars

Next ==
  \/ Recover
  \/ \E h \in Handlers : HandleRequest(h) \/ HandlerStep(h)
  \/ FlusherWakes
  \/ FlusherRuns
  \/ Signal
  \/ ShutdownReturns
  \/ Exit
  \/ Crash
  \/ PowerLoss
  \/ WalSyncs
  \/ Ended

Spec == Init /\ [][Next]_vars

(* Goroutines that can run do run, the ticker keeps firing, and main goes  *)
(* through recovery and shutdown.  A select with several ready cases picks *)
(* one at random, so the closed stop channel is not passed over forever.   *)
(* Requests, signals, crashes and faults need not happen.                  *)
Fairness ==
  /\ \A h \in Handlers : WF_vars(HandlerStep(h))
  /\ WF_vars(FlusherWakes)
  /\ SF_vars(FlusherWakes /\ StopReceived)
  /\ WF_vars(FlusherRuns)
  /\ WF_vars(Recover)
  /\ WF_vars(ShutdownReturns)
  /\ WF_vars(Exit)

FairSpec == Spec /\ Fairness

-----------------------------------------------------------------------------
ServerTypeOK ==
  /\ SpoolTypeOK /\ StoreTypeOK
  /\ queue \in Seq(SpoolRecord)
  /\ batch \in Seq(SpoolRecord)
  /\ lastByDevice \in [Names -> Points \cup {NoPoint}]
  /\ phase \in {"down", "read", "enqueue", "retry", "final", "finish",
                "serving", "draining", "stopping", "exited", "fatal"}
  /\ fpc \in {"idle", "stats", "drain", "insert", "checkpoint", "write",
              "compact", "again", "requeue", "stopped"}
  /\ hpc \in [Handlers -> {"idle", "append", "spool", "enqueue", "respond"}]
  /\ request \in [Handlers -> Batches \cup {<<>>}]
  /\ records \in [Handlers -> Seq(SpoolRecord)]
  /\ replay \in Seq(SpoolRecord)
  /\ ackedHere \subseteq acked
  /\ ackedRecords \subseteq SpoolRecord

(* A near duplicate is never stored; the point it repeats stands for it.   *)
StandsFor(q, p) == q = p \/ <<p, q>> \in NearPairs

SafeInDb(p) == \E q \in Points : StandsFor(q, p) /\ Stored(q)

InMemory(p) ==
  \/ \E i \in DOMAIN queue : queue[i].point = p
  \/ \E i \in DOMAIN batch : batch[i].point = p

ReplayReturns(p) == \E r \in Spooled : r.point = p /\ r.seq > checkpoint

(* A crash now would not lose the point: it, or the point it repeats, is   *)
(* in SQLite or will be returned by the next replay.                       *)
Recoverable(p) ==
  \E q \in Points : StandsFor(q, p) /\ (Stored(q) \/ ReplayReturns(q))

(* While the process that acknowledged a point runs, the point is in the   *)
(* buffer, in the batch being flushed or in SQLite: neither a failed flush *)
(* nor the interleaving of handlers and flusher drops it.                  *)
AckedHeld == \A p \in ackedHere : InMemory(p) \/ SafeInDb(p)

(* Every acknowledged point survives a crash ("startup recovery replays    *)
(* uncheckpointed spool records", README.md).                              *)
AckedSurvivesCrash == Replayable => \A p \in acked : Recoverable(p)

(* The same, for as long as no sequence number has been used twice and the *)
(* power has not failed.                                                   *)
AckedRecoverable == ~reused /\ powerLosses = 0 => AckedSurvivesCrash

(* "last_committed_seq means all records <= this sequence are already      *)
(* committed downstream" (spool/checkpoint.go), of the acknowledged ones.  *)
CheckpointCovers ==
  \A r \in Spooled : r.seq <= checkpoint /\ r.point \in acked => SafeInDb(r.point)

(* A shutdown without timeouts and flush errors leaves every point that    *)
(* the process acknowledged in SQLite, and the checkpoint past every       *)
(* record it acknowledged, so that the next replay returns none of them    *)
(* ("flushes buffer to SQLite, advances checkpoint", README.md).           *)
GracefulDrain ==
  phase = "exited" /\ clean =>
    /\ queue = <<>> /\ batch = <<>>
    /\ \A p \in ackedHere : SafeInDb(p)
    /\ \A r \in ackedRecords : r.seq <= checkpoint

(* What a running server owes to earlier processes: once recovery is over, *)
(* every point ever acknowledged is in the buffer, in the batch being      *)
(* flushed or in SQLite, even where a flush failed during recovery.        *)
RecoveredHeld ==
  Started /\ ~reused /\ powerLosses = 0 =>
    \A p \in acked : InMemory(p) \/ SafeInDb(p)

(* Recovery only gives up on a spool that does not decode, on a failing    *)
(* call, on sequence numbers used twice, or on a chunk that does not even  *)
(* fit an empty buffer: whatever is queued is flushed before the retry.    *)
RecoveryGivesUp ==
  phase = "fatal" /\ Replayable /\ faults = 0 /\ ~reused =>
    /\ queue = <<>>
    /\ replay # <<>>
    /\ ~Fits(FilterNearDuplicates(Chunk).out)

(* The two ways in which the flusher gets no further in this process: a    *)
(* checkpoint write failed or was cut short and left a file that does not  *)
(* decode; and, after a restart, a record of the next batch has a sequence *)
(* number that another row in SQLite, or another record of the batch, has. *)
CheckpointTorn == ~readable /\ target = 0

NextBatch ==
  LET all == batch \o queue
  IN  SubSeq(all, 1, IF FlushBatchSize > Len(all) THEN Len(all) ELSE FlushBatchSize)

NumberTaken ==
  /\ reused
  /\ SeqConflict(NextBatch, {i \in DOMAIN NextBatch : ~NextBatch[i].checkpointOnly})

Stalled == CheckpointTorn \/ NumberTaken

(* Once a process has stalled it stays so until it ends: it neither gets   *)
(* over it, although the flusher requeues "so normal runtime can retry     *)
(* checkpoint progression" (flusher.go), nor passes over a record that     *)
(* SQLite refuses.                                                         *)
StallLasts == [][Stalled /\ Running /\ Running' => Stalled']_vars

(* No point that was acknowledged, or taken back from the spool by         *)
(* recovery, waits for ever to reach SQLite, unless the process ends first *)
(* or stalls.                                                              *)
AckedEventuallyStored ==
  \/ <>[]Stalled
  \/ \A p \in Points : []<>(Running /\ (p \in ackedHere \/ InMemory(p)) => SafeInDb(p))

(* A shutdown that was asked for comes to an end, stalled or not.          *)
ShutdownEnds == []<>(phase \notin {"draining", "stopping"})
-----------------------------------------------------------------------------
(* The abstract queue: the batch being flushed, then the buffer's queue.   *)
AbstractQueue ==
  INSTANCE IngestQueue WITH
    pending <- batch \o queue,
    kept    <- {row.point : row \in db.rows},
    up      <- Running

(* The pipeline implements the queue: under every interleaving of handlers *)
(* and flusher, failed flush, crash and power loss, a record leaves memory *)
(* in order, and only when it is stored, is a marker, or the process ends. *)
ImplementsQueue == AbstractQueue!Spec

(* Under the scheduling of FairSpec it implements the queue's progress too, *)
(* unless it stalls for good: the oldest record in memory gets stored, and *)
(* then leaves.                                                            *)
QueueProgress == <>[]Stalled \/ AbstractQueue!Progress
=============================================================================
