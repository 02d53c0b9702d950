------------------------------- MODULE Spool --------------------------------
(***************************************************************************)
(* internal/spool: the segmented append-only log on disk, its checkpoint   *)
(* file and their manager.                                                 *)
(*                                                                         *)
(* On disk: segments, one file per start sequence, each with its lines,    *)
(* the number of them an fsync has covered, and whether some line cannot   *)
(* be decoded; and the checkpoint file.  In memory: the manager's fields.  *)
(* FileSpoolManager.mu is held for a whole call; the two calls that a      *)
(* crash can cut short (append, one line at a time; checkpoint, truncated  *)
(* then written) are split into steps, and holder is the caller inside.    *)
(*                                                                         *)
(* Sizes are left out: whether the next line fits the active segment       *)
(* depends on bytes, so a segment that holds anything may or may not be    *)
(* rolled.  In the same way the byte and time thresholds of the balanced   *)
(* mode are a free choice to fsync or not.                                 *)
(***************************************************************************)
EXTENDS Ingest, FiniteSets

CONSTANTS
  Callers,          \* goroutines that call the manager
  NoCaller,         \* holder while the mutex is free
  FSyncMode,        \* "always", "balanced" or "low-wear"
  SpoolFaults,      \* the I/O calls that may fail
  MaxSeq,           \* bound: the last sequence number handed out
  MaxRestarts,      \* bound: process restarts
  MaxPowerLosses,   \* bound: restarts that also lose the page cache
  MaxFaults         \* bound: failing I/O calls

ASSUME SpoolAssumption ==
  /\ NoCaller \notin Callers
  /\ FSyncMode \in {"always", "balanced", "low-wear"}
  /\ SpoolFaults \subseteq {"open", "write", "fsync", "checkpoint", "remove"}
  /\ MaxSeq \in Nat
  /\ MaxRestarts \in Nat
  /\ MaxPowerLosses \in Nat
  /\ MaxFaults \in Nat

VARIABLES
  segments,         \* disk: start sequence -> segment file
  checkpoint,       \* disk: last committed sequence (0: no file yet)
  readable,         \* disk: the checkpoint file decodes
  nextSeq,          \* m.nextSeq
  active,           \* m.activeSegmentStart, 0 when m.activeFile is nil
  unsynced,         \* m.bytesSinceSync > 0
  holder,           \* the caller that holds m.mu across steps
  todo,             \* the points the running append still has to write
  done,             \* the records it has written
  target,           \* the sequence the running checkpoint write stores, or 0
  highSeq,          \* history: largest sequence number ever written
  reused,           \* history: a sequence number was written again
  returned,         \* history: records AppendCanonicalPoints returned
  restarts,         \* number of restarts so far
  powerLosses,      \* number of power losses so far
  faults            \* number of failed I/O calls so far

diskVars    == <<segments, checkpoint, readable>>
managerVars == <<nextSeq, active, unsynced>>
callVars    == <<holder, todo, done, target>>
spoolHist   == <<highSeq, reused, returned>>
crashVars   == <<restarts, powerLosses>>
spoolVars   == <<diskVars, managerVars, callVars, spoolHist, crashVars, faults>>

-----------------------------------------------------------------------------
(* A segment file.  Only the first synced lines survive a power loss for   *)
(* certain; a garbled file makes readSegmentFile fail as a whole.          *)
File == [lines : Seq(SpoolRecord), synced : Nat, garbled : BOOLEAN]

EmptyFile == [lines |-> <<>>, synced |-> 0, garbled |-> FALSE]

LinesOf(s) == {segments[s].lines[i] : i \in DOMAIN segments[s].lines}

Spooled == UNION {LinesOf(s) : s \in DOMAIN segments}

Synced(file) == [file EXCEPT !.synced = Len(file.lines)]

(* Opening a segment creates its file unless it exists (O_APPEND).         *)
FileAt(s) == IF s \in DOMAIN segments THEN segments[s] ELSE EmptyFile

(* Mutant of WithFile: the rolled segment is closed without its last sync. *)
WithFileUnsynced(s, f) ==
  [t \in DOMAIN segments \cup {s} |-> IF t = s THEN f ELSE segments[t]]

(* segments once the file at s is f, the active file having been closed    *)
(* first if the write rolls to another segment: closeActiveLocked syncs    *)
(* what was written to it since the last sync.                             *)
WithFile(s, f) ==
  [t \in DOMAIN segments \cup {s} |->
     IF t = s THEN f
     ELSE IF t = active /\ unsynced THEN Synced(segments[t])
     ELSE segments[t]]

-----------------------------------------------------------------------------
(* NewFileSpoolManager: nothing is read back from disk, so the sequence    *)
(* starts at 1 again.                                                      *)
NewManager ==
  /\ nextSeq' = 1
  /\ active' = 0
  /\ unsynced' = FALSE
  /\ holder' = NoCaller
  /\ todo' = <<>>
  /\ done' = <<>>
  /\ target' = 0

Release ==
  /\ holder' = NoCaller
  /\ todo' = <<>>
  /\ done' = <<>>
  /\ target' = 0

SpoolInit ==
  /\ segments = [s \in {} |-> EmptyFile]
  /\ checkpoint = 0
  /\ readable = TRUE
  /\ nextSeq = 1
  /\ active = 0
  /\ unsynced = FALSE
  /\ holder = NoCaller
  /\ todo = <<>>
  /\ done = <<>>
  /\ target = 0
  /\ highSeq = 0
  /\ reused = FALSE
  /\ returned = {}
  /\ restarts = 0
  /\ powerLosses = 0
  /\ faults = 0

(* An I/O call of this kind fails.                                         *)
Fail(kind) ==
  /\ kind \in SpoolFaults
  /\ faults < MaxFaults
  /\ faults' = faults + 1

-----------------------------------------------------------------------------
(* AppendCanonicalPoints, line by line under the mutex.                    *)

AppendBegin(c, pts) ==
  /\ holder = NoCaller
  /\ pts # <<>>
  /\ nextSeq + Len(pts) <= MaxSeq + 1
  /\ holder' = c
  /\ todo' = pts
  /\ UNCHANGED <<done, target, diskVars, managerVars, spoolHist, crashVars, faults>>

(* Mutants of WritableSegments: with none open, the oldest segment is      *)
(* opened again; a rolled segment is named after the record behind the     *)
(* one that opens it.                                                      *)
WritableOldest ==
  IF active # 0 THEN {active, nextSeq}
  ELSE IF DOMAIN segments = {} THEN {nextSeq}
  ELSE {CHOOSE s \in DOMAIN segments : \A t \in DOMAIN segments : s <= t}

WritableMisnamed == ({active} \ {0}) \cup {nextSeq + 1}

(* ensureSegmentForWriteLocked: stay in the active segment, or open the    *)
(* one named after the next sequence number if none is open or the active  *)
(* one holds something and the line does not fit.                          *)
WritableSegments ==
  LET stay == {active} \ {0}
      roll == IF active = 0 \/ segments[active].lines # <<>> \/ segments[active].garbled
              THEN {nextSeq} ELSE {}
  IN  stay \cup roll

(* shouldFSyncLocked *)
SyncChoices ==
  CASE FSyncMode = "always"   -> {TRUE}
    [] FSyncMode = "balanced" -> {TRUE, FALSE}
    [] FSyncMode = "low-wear" -> {FALSE}

WriteLine(s, sync) ==
  LET lines == Append(FileAt(s).lines, NewRecord(nextSeq, Head(todo)))
  IN  [lines   |-> lines,
       synced  |-> IF sync THEN Len(lines) ELSE FileAt(s).synced,
       garbled |-> FileAt(s).garbled]

AppendLine(c) ==
  /\ holder = c
  /\ todo # <<>>
  /\ \E s \in WritableSegments, sync \in SyncChoices :
       /\ segments' = WithFile(s, WriteLine(s, sync))
       /\ active' = s
       /\ unsynced' = ~sync
  /\ nextSeq' = nextSeq + 1
  /\ todo' = Tail(todo)
  /\ done' = Append(done, NewRecord(nextSeq, Head(todo)))
  /\ highSeq' = IF nextSeq > highSeq THEN nextSeq ELSE highSeq
  /\ reused' = (reused \/ nextSeq <= highSeq)
  /\ UNCHANGED <<checkpoint, readable, holder, target, returned, crashVars, faults>>

AppendReturn(c) ==
  /\ holder = c
  /\ todo = <<>>
  /\ done # <<>>
  /\ returned' = returned \cup {done[i] : i \in DOMAIN done}
  /\ Release
  /\ UNCHANGED <<diskVars, managerVars, highSeq, reused, crashVars, faults>>

(* The active file cannot be closed, or is closed and no segment opened.   *)
AppendOpenFails(c) ==
  /\ Fail("open")
  /\ holder = c
  /\ todo # <<>>
  /\ nextSeq \in WritableSegments
  /\ \/ UNCHANGED <<segments, active, unsynced>>
     \/ /\ active # 0
        /\ segments' = WithFile(active, IF unsynced THEN Synced(segments[active])
                                                 ELSE segments[active])
        /\ active' = 0
        /\ unsynced' = FALSE
  /\ Release
  /\ UNCHANGED <<checkpoint, readable, nextSeq, spoolHist, crashVars>>

(* Write fails after none or part of the line reached the file.            *)
AppendWriteFails(c) ==
  /\ Fail("write")
  /\ holder = c
  /\ todo # <<>>
  /\ \E s \in WritableSegments, torn \in BOOLEAN :
       /\ segments' = WithFile(s, [FileAt(s) EXCEPT !.garbled = @ \/ torn])
       /\ active' = s
       /\ unsynced' = (s = active /\ unsynced)
  /\ Release
  /\ UNCHANGED <<checkpoint, readable, nextSeq, spoolHist, crashVars>>

(* Sync fails: the line is in the file, but nextSeq has not moved on, so   *)
(* the next record will have the same sequence number.                     *)
AppendSyncFails(c) ==
  /\ Fail("fsync")
  /\ TRUE \in SyncChoices
  /\ holder = c
  /\ todo # <<>>
  /\ \E s \in WritableSegments :
       /\ segments' = WithFile(s, WriteLine(s, FALSE))
       /\ active' = s
       /\ unsynced' = TRUE
  /\ Release
  /\ highSeq' = IF nextSeq > highSeq THEN nextSeq ELSE highSeq
  /\ reused' = (reused \/ nextSeq <= highSeq)
  /\ UNCHANGED <<checkpoint, readable, nextSeq, returned, crashVars>>

AppendFails(c) == AppendOpenFails(c) \/ AppendWriteFails(c) \/ AppendSyncFails(c)

-----------------------------------------------------------------------------
(* AdvanceCheckpoint: the file is truncated by opening it, then written.   *)

(* lastCommittedSeq is not past the checkpoint: nothing to write.          *)
CheckpointCurrent(seq) ==
  /\ holder = NoCaller
  /\ readable
  /\ seq <= checkpoint
  /\ UNCHANGED spoolVars

(* Mutant of CheckpointTruncate: no check that the sequence is ahead.      *)
CheckpointTruncateAny(c, seq) ==
  /\ holder = NoCaller
  /\ readable
  /\ holder' = c
  /\ target' = seq
  /\ readable' = FALSE
  /\ UNCHANGED <<segments, checkpoint, todo, done, managerVars, spoolHist, crashVars, faults>>

CheckpointTruncate(c, seq) ==
  /\ holder = NoCaller
  /\ readable
  /\ seq > checkpoint
  /\ holder' = c
  /\ target' = seq
  /\ readable' = FALSE
  /\ UNCHANGED <<segments, checkpoint, todo, done, managerVars, spoolHist, crashVars, faults>>

CheckpointWrite(c) ==
  /\ holder = c
  /\ target # 0
  /\ checkpoint' = target
  /\ readable' = TRUE
  /\ Release
  /\ UNCHANGED <<segments, managerVars, spoolHist, crashVars, faults>>

(* readCheckpointLocked fails on an empty or torn file, or the file cannot *)
(* be opened for writing.                                                  *)
CheckpointRefused(seq) ==
  /\ holder = NoCaller
  /\ \/ ~readable /\ UNCHANGED faults
     \/ readable /\ seq > checkpoint /\ Fail("checkpoint")
  /\ UNCHANGED <<diskVars, managerVars, callVars, spoolHist, crashVars>>

(* Write fails, the file stays empty or torn; or Sync or Close fails after *)
(* the new value was written.                                              *)
CheckpointWriteFails(c) ==
  /\ Fail("checkpoint")
  /\ holder = c
  /\ target # 0
  /\ \/ UNCHANGED <<checkpoint, readable>>
     \/ checkpoint' = target /\ readable' = TRUE
  /\ Release
  /\ UNCHANGED <<segments, managerVars, spoolHist, crashVars>>

-----------------------------------------------------------------------------
(* CompactCommittedSegments walks the segments in ascending order and      *)
(* stops at the first one it cannot read.                                  *)

(* Mutant of Compactable: the active segment is not spared.                *)
CompactableActive(s) == s <= checkpoint

Compactable(s) == s # active /\ s <= checkpoint

(* Mutant of Committed: only the first record is compared.                 *)
CommittedByFirst(s) ==
  /\ Compactable(s)
  /\ ~segments[s].garbled
  /\ segments[s].lines # <<>> => segments[s].lines[1].seq <= checkpoint

Committed(s) ==
  /\ Compactable(s)
  /\ ~segments[s].garbled
  /\ \A r \in LinesOf(s) : r.seq <= checkpoint

CompactedBefore(stop) ==
  {s \in DOMAIN segments :
     /\ Committed(s)
     /\ s < stop
     /\ \A t \in DOMAIN segments : Compactable(t) /\ segments[t].garbled => s < t}

RemoveSegments(S) == segments' = [s \in DOMAIN segments \ S |-> segments[s]]

Compact ==
  /\ holder = NoCaller
  /\ IF readable THEN RemoveSegments(CompactedBefore(MaxSeq + 1))
                 ELSE UNCHANGED segments
  /\ UNCHANGED <<checkpoint, readable, managerVars, callVars, spoolHist, crashVars, faults>>

(* Remove fails at segment stop and ends the walk.                         *)
CompactFails ==
  /\ holder = NoCaller
  /\ readable
  /\ Fail("remove")
  /\ \E stop \in DOMAIN segments :
       Committed(stop) /\ RemoveSegments(CompactedBefore(stop))
  /\ UNCHANGED <<checkpoint, readable, managerVars, callVars, spoolHist, crashVars>>

-----------------------------------------------------------------------------
(* Close, a process restart and a power loss.                              *)

SpoolClose ==
  /\ holder = NoCaller
  /\ IF active # 0 /\ unsynced
     THEN segments' = [segments EXCEPT ![active] = Synced(@)]
     ELSE UNCHANGED segments
  /\ active' = 0
  /\ unsynced' = FALSE
  /\ UNCHANGED <<checkpoint, readable, nextSeq, callVars, spoolHist, crashVars, faults>>

(* The process ends at any point and a new one builds a new manager.       *)
SpoolRestart ==
  /\ restarts < MaxRestarts
  /\ restarts' = restarts + 1
  /\ NewManager
  /\ UNCHANGED <<diskVars, spoolHist, powerLosses, faults>>

(* What may be left of a file: its synced lines and some of the others,    *)
(* the first one lost possibly torn.                                       *)
Survivors(f) ==
  {g \in {[lines |-> SubSeq(f.lines, 1, k), synced |-> k, garbled |-> f.garbled \/ torn] :
             k \in f.synced..Len(f.lines), torn \in BOOLEAN} :
     Len(g.lines) = Len(f.lines) => g.garbled = f.garbled}

SpoolPowerLoss ==
  /\ restarts < MaxRestarts
  /\ powerLosses < MaxPowerLosses
  /\ restarts' = restarts + 1
  /\ powerLosses' = powerLosses + 1
  /\ segments' \in {g \in [DOMAIN segments -> UNION {Survivors(segments[s]) : s \in DOMAIN segments}] :
                     \A s \in DOMAIN segments : g[s] \in Survivors(segments[s])}
  /\ NewManager
  /\ UNCHANGED <<checkpoint, readable, spoolHist, faults>>

-----------------------------------------------------------------------------
(* The spool on its own: any caller appends any batch, and the checkpoint  *)
(* is advanced to any sequence number that was written.                    *)

SpoolStep(c) ==
  \/ \E pts \in Batches : AppendBegin(c, pts)
  \/ AppendLine(c)
  \/ AppendReturn(c)
  \/ AppendFails(c)
  \/ \E seq \in 1..highSeq : CheckpointTruncate(c, seq)
  \/ CheckpointWrite(c)
  \/ CheckpointWriteFails(c)

SpoolNext ==
  \/ \E c \in Callers : SpoolStep(c)
  \/ \E seq \in 1..highSeq : CheckpointCurrent(seq) \/ CheckpointRefused(seq)
  \/ Compact
  \/ CompactFails
  \/ SpoolClose
  \/ SpoolRestart
  \/ SpoolPowerLoss

SpoolSpec == SpoolInit /\ [][SpoolNext]_spoolVars

-----------------------------------------------------------------------------
SpoolTypeOK ==
  /\ DOMAIN segments \subseteq Nat \ {0}
  /\ segments \in [DOMAIN segments -> File]
  /\ \A s \in DOMAIN segments : segments[s].synced <= Len(segments[s].lines)
  /\ checkpoint \in Nat
  /\ readable \in BOOLEAN
  /\ nextSeq \in Nat \ {0}
  /\ active \in {0} \cup DOMAIN segments
  /\ unsynced \in BOOLEAN
  /\ holder \in Callers \cup {NoCaller}
  /\ todo \in Seq(Points)
  /\ done \in Seq(SpoolRecord)
  /\ target \in Nat
  /\ highSeq \in Nat
  /\ reused \in BOOLEAN
  /\ returned \subseteq SpoolRecord
  /\ restarts \in Nat
  /\ powerLosses \in Nat
  /\ faults \in Nat

(* ReplayAfterCheckpoint succeeds: the checkpoint and every segment decode. *)
Replayable ==
  /\ readable
  /\ \A s \in DOMAIN segments : ~segments[s].garbled

(* A replay that succeeds returns every record an append call returned and *)
(* the checkpoint has not passed, whatever rollovers, failing calls,       *)
(* compactions and restarts came between; after a power loss this is       *)
(* promised only by the "always" fsync mode.                               *)
ReplayComplete ==
  Replayable /\ (FSyncMode = "always" \/ powerLosses = 0)
    => \A r \in returned : r.seq > checkpoint => r \in Spooled

(* As long as no sequence number was used twice, reading the segments in   *)
(* the order of their names yields the records in strictly ascending       *)
(* order, which is what replay into the FIFO buffer relies on.             *)
ReplayAscending ==
  ~reused =>
    \A s, t \in DOMAIN segments :
      \A i \in DOMAIN segments[s].lines, j \in DOMAIN segments[t].lines :
        (s < t \/ (s = t /\ i < j)) => segments[s].lines[i].seq < segments[t].lines[j].seq

(* Compaction skips a segment whose name is past the checkpoint without    *)
(* reading it: no record of a segment is older than the segment's name,    *)
(* even after restarts reuse names.                                        *)
SegmentNameBounds ==
  \A s \in DOMAIN segments : \A r \in LinesOf(s) : s <= r.seq

(* Until the process restarts, every segment but the active one has been   *)
(* fsynced in full, so that a power loss costs a suffix of the log only.   *)
SealedSegmentsSynced ==
  restarts = 0 =>
    \A s \in DOMAIN segments \ {active} : segments[s].synced = Len(segments[s].lines)

(* A restart finds a spool it can replay: no torn line, no torn checkpoint. *)
RestartReplayable == holder = NoCaller => Replayable

(* The checkpoint on disk never moves back, whichever call stores it and   *)
(* however often the process restarts: AdvanceCheckpoint is a maximum.     *)
CheckpointMonotone == [][checkpoint <= checkpoint']_spoolVars
=============================================================================
