-------------------------- MODULE SpoolBufferProofs -------------------------
(***************************************************************************)
(* Theorems about the two parts of the ingest pipeline that stand on their *)
(* own, for every set of points, every limit and every bound.  The spool,  *)
(* for every set of callers, every fsync mode and every set of failing     *)
(* calls:                                                                  *)
(*                                                                         *)
(*   SpoolTypeCorrect         SpoolSpec => []SpoolTypeOK                   *)
(*   SpoolNamesBound          SpoolSpec => []SegmentNameBounds             *)
(*   SpoolReplays             SpoolSpec => []ReplayComplete                *)
(*   SpoolCheckpointMonotone  SpoolSpec => CheckpointMonotone              *)
(*   SpoolReplaysAscending    SpoolSpec => []ReplayAscending               *)
(*   SpoolSealsSynced         SpoolSpec => []SealedSegmentsSynced          *)
(*                                                                         *)
(* The buffer and the flusher that drains it:                              *)
(*                                                                         *)
(*   BufferFifo       FifoSpec => []FifoAcrossRequeue                      *)
(*   BufferOvershoot  FifoSpec => []OvershootBounded                       *)
(*   BufferBytes      FifoSpec => []BytesRecover                           *)
(*                                                                         *)
(* The first two of these are about positions and counts only.  The third  *)
(* is about the byte counter and rests on sums.  The facts about the       *)
(* buffer's sequences come before them: the proofs about the whole         *)
(* pipeline use them too.                                                  *)
(***************************************************************************)
EXTENDS Spool, BufferSpec, SequenceTheorems, WellFoundedInduction, TLAPS

(***************************************************************************)
(* The spool.                                                              *)
(***************************************************************************)

-----------------------------------------------------------------------------
(* Type correctness.                                                       *)

(* What an fsync makes of a file.                                          *)
LEMMA SyncedFile ==
  ASSUME NEW f \in File
  PROVE  /\ Synced(f) \in File
         /\ Synced(f).lines = f.lines
         /\ Synced(f).garbled = f.garbled
         /\ Synced(f).synced = Len(f.lines)
  BY DEF Synced, File

(* Files that are stored keep their type, and so do the others.            *)
LEMMA WithFileType ==
  ASSUME SpoolTypeOK, NEW s \in Nat \ {0}, NEW f \in File, f.synced <= Len(f.lines)
  PROVE  /\ DOMAIN WithFile(s, f) = DOMAIN segments \cup {s}
         /\ WithFile(s, f) \in [DOMAIN segments \cup {s} -> File]
         /\ \A t \in DOMAIN segments \cup {s} :
              WithFile(s, f)[t].synced <= Len(WithFile(s, f)[t].lines)
  <1>1. ASSUME NEW t \in DOMAIN segments \cup {s}
        PROVE  /\ WithFile(s, f)[t] \in File
               /\ WithFile(s, f)[t].synced <= Len(WithFile(s, f)[t].lines)
    <2>1. CASE t = s
      BY <2>1 DEF WithFile
    <2>2. CASE t # s /\ t = active /\ unsynced
      <3>1. segments[t] \in File /\ WithFile(s, f)[t] = Synced(segments[t])
        BY <2>2 DEF SpoolTypeOK, WithFile
      <3>2. Len(segments[t].lines) \in Nat
        BY <3>1 DEF File
      <3> QED BY <3>1, <3>2, SyncedFile
    <2>3. CASE t # s /\ ~(t = active /\ unsynced)
      BY <2>3 DEF SpoolTypeOK, WithFile
    <2> QED BY <2>1, <2>2, <2>3
  <1>2. DOMAIN WithFile(s, f) = DOMAIN segments \cup {s}
    BY DEF WithFile
  <1>3. WithFile(s, f) \in [DOMAIN segments \cup {s} -> File]
    BY <1>1 DEF WithFile
  <1> QED BY <1>1, <1>2, <1>3

LEMMA FileAtType ==
  ASSUME SpoolTypeOK, NEW s
  PROVE  FileAt(s) \in File /\ FileAt(s).synced <= Len(FileAt(s).lines)
  BY DEF SpoolTypeOK, FileAt, EmptyFile, File

(* A write that fails may garble a file, and changes nothing else of it.   *)
LEMMA FileGarble ==
  ASSUME NEW f \in File, NEW torn \in BOOLEAN
  PROVE  /\ [f EXCEPT !.garbled = @ \/ torn] \in File
         /\ [f EXCEPT !.garbled = @ \/ torn].lines = f.lines
         /\ [f EXCEPT !.garbled = @ \/ torn].synced = f.synced
         /\ f.garbled => [f EXCEPT !.garbled = @ \/ torn].garbled
  BY DEF File

(* The line AppendLine writes goes behind those that are there.            *)
LEMMA WriteLineType ==
  ASSUME SpoolTypeOK, NEW s, NEW sync \in BOOLEAN, todo # <<>>
  PROVE  /\ NewRecord(nextSeq, Head(todo)) \in SpoolRecord
         /\ WriteLine(s, sync) \in File
         /\ WriteLine(s, sync).lines = Append(FileAt(s).lines, NewRecord(nextSeq, Head(todo)))
         /\ WriteLine(s, sync).synced =
               IF sync THEN Len(FileAt(s).lines) + 1 ELSE FileAt(s).synced
         /\ WriteLine(s, sync).garbled = FileAt(s).garbled
         /\ WriteLine(s, sync).synced <= Len(WriteLine(s, sync).lines)
  <1>1. NewRecord(nextSeq, Head(todo)) \in SpoolRecord
    BY DEF SpoolTypeOK, NewRecord, SpoolRecord
  <1>2. FileAt(s) \in File /\ FileAt(s).synced <= Len(FileAt(s).lines)
    BY FileAtType
  <1> DEFINE lines == Append(FileAt(s).lines, NewRecord(nextSeq, Head(todo)))
             n     == IF sync THEN Len(lines) ELSE FileAt(s).synced
  <1>3. /\ FileAt(s).lines \in Seq(SpoolRecord)
        /\ FileAt(s).synced \in Nat
        /\ Len(FileAt(s).lines) \in Nat
    BY <1>2 DEF File
  <1>4. lines \in Seq(SpoolRecord) /\ Len(lines) = Len(FileAt(s).lines) + 1
    BY <1>1, <1>3
  <1>5. n \in Nat /\ n <= Len(lines) /\ n = IF sync THEN Len(FileAt(s).lines) + 1 ELSE FileAt(s).synced
    BY <1>2, <1>3, <1>4
  <1>6. WriteLine(s, sync) = [lines |-> lines, synced |-> n, garbled |-> FileAt(s).garbled]
    BY DEF WriteLine
  <1> HIDE DEF lines, n
  <1>7. WriteLine(s, sync) \in File
    BY <1>2, <1>4, <1>5, <1>6 DEF File
  <1> QED BY <1>1, <1>4, <1>5, <1>6, <1>7 DEF lines

LEMMA WritableType ==
  ASSUME SpoolTypeOK, NEW s \in WritableSegments
  PROVE  s \in Nat \ {0}
  BY DEF SpoolTypeOK, WritableSegments

LEMMA SyncChoicesType == SyncChoices \subseteq BOOLEAN
  BY SpoolAssumption DEF SyncChoices

(* Removing segments that are not active.                                  *)
LEMMA RemoveType ==
  ASSUME SpoolTypeOK, NEW S, active \notin S, RemoveSegments(S)
  PROVE  /\ DOMAIN segments' = DOMAIN segments \ S
         /\ \A s \in DOMAIN segments \ S : segments'[s] = segments[s]
         /\ DOMAIN segments' \subseteq Nat \ {0}
         /\ segments' \in [DOMAIN segments' -> File]
         /\ \A s \in DOMAIN segments' : segments'[s].synced <= Len(segments'[s].lines)
         /\ active \in {0} \cup DOMAIN segments'
  BY DEF SpoolTypeOK, RemoveSegments

LEMMA CompactedInactive == ASSUME NEW stop PROVE active \notin CompactedBefore(stop)
  BY DEF CompactedBefore, Committed, Compactable

(* A file after a power loss: its lines are the first k, k at least what   *)
(* was synced.                                                             *)
LEMMA SurvivorFile ==
  ASSUME NEW f \in File, f.synced <= Len(f.lines), NEW g \in Survivors(f)
  PROVE  /\ g \in File
         /\ Len(g.lines) \in f.synced..Len(f.lines)
         /\ g.synced = Len(g.lines)
         /\ \A i \in 1..Len(g.lines) : g.lines[i] = f.lines[i]
  <1>1. PICK k \in f.synced..Len(f.lines), torn \in BOOLEAN :
          g = [lines |-> SubSeq(f.lines, 1, k), synced |-> k, garbled |-> f.garbled \/ torn]
    BY DEF Survivors
  <1>2. /\ f.lines \in Seq(SpoolRecord)
        /\ f.synced \in Nat
        /\ f.garbled \in BOOLEAN
        /\ Len(f.lines) \in Nat
    BY DEF File
  <1>3. k \in Nat /\ k <= Len(f.lines)
    BY <1>1, <1>2
  <1>4. /\ SubSeq(f.lines, 1, k) \in Seq(SpoolRecord)
        /\ Len(SubSeq(f.lines, 1, k)) = k
        /\ \A i \in 1..k : SubSeq(f.lines, 1, k)[i] = f.lines[i]
    BY <1>2, <1>3
  <1>5. g \in File
    BY <1>1, <1>2, <1>3, <1>4 DEF File
  <1> QED BY <1>1, <1>3, <1>4, <1>5

(* The part of the type invariant an action on the segments can disturb.   *)
SegmentsTyped ==
  /\ DOMAIN segments \subseteq Nat \ {0}
  /\ segments \in [DOMAIN segments -> File]
  /\ \A s \in DOMAIN segments : segments[s].synced <= Len(segments[s].lines)

LEMMA WithFileStores ==
  ASSUME SpoolTypeOK, NEW s \in Nat \ {0}, NEW f \in File, f.synced <= Len(f.lines),
         segments' = WithFile(s, f)
  PROVE  SegmentsTyped' /\ s \in DOMAIN segments' /\ DOMAIN segments \subseteq DOMAIN segments'
  <1>1. DOMAIN segments' = DOMAIN segments \cup {s}
    BY WithFileType
  <1>2. segments' \in [DOMAIN segments' -> File]
    BY <1>1, WithFileType
  <1>3. \A t \in DOMAIN segments' : segments'[t].synced <= Len(segments'[t].lines)
    BY <1>1, WithFileType
  <1>4. DOMAIN segments \subseteq Nat \ {0}
    BY DEF SpoolTypeOK
  <1> QED BY <1>1, <1>2, <1>3, <1>4 DEF SegmentsTyped

LEMMA TypeInit == SpoolInit => SpoolTypeOK
  <1> SUFFICES ASSUME SpoolInit PROVE SpoolTypeOK
    OBVIOUS
  <1>1. readable \in BOOLEAN /\ unsynced \in BOOLEAN /\ reused \in BOOLEAN
    BY Zenon DEF SpoolInit
  <1>2. DOMAIN segments = {}
    BY DEF SpoolInit
  <1> QED BY <1>1, <1>2 DEF SpoolInit, SpoolTypeOK

LEMMA TypeStep ==
  ASSUME SpoolTypeOK, [SpoolNext]_spoolVars
  PROVE  SpoolTypeOK'
  <1> USE DEF SpoolTypeOK
  <1>1. ASSUME NEW c \in Callers, NEW pts \in Batches, AppendBegin(c, pts)
        PROVE  SpoolTypeOK'
    BY <1>1, IngestAssumption DEF AppendBegin, diskVars, managerVars, spoolHist, crashVars
  <1>2. ASSUME NEW c \in Callers, AppendLine(c)
        PROVE  SpoolTypeOK'
    <2>1. PICK s \in WritableSegments, sync \in SyncChoices :
            /\ segments' = WithFile(s, WriteLine(s, sync))
            /\ active' = s
            /\ unsynced' = ~sync
      BY <1>2 DEF AppendLine
    <2>2. s \in Nat \ {0} /\ sync \in BOOLEAN /\ todo # <<>>
      BY <1>2, <2>1, WritableType, SyncChoicesType DEF AppendLine
    <2>3. SegmentsTyped' /\ s \in DOMAIN segments'
      BY <2>1, <2>2, WriteLineType, WithFileStores
    <2>4. NewRecord(nextSeq, Head(todo)) \in SpoolRecord
      BY <2>2, WriteLineType
    <2>5. todo' \in Seq(Points) /\ done' \in Seq(SpoolRecord)
      BY <1>2, <2>4 DEF AppendLine
    <2> QED BY <1>2, <2>1, <2>2, <2>3, <2>5, SMTT(30) DEF AppendLine, SegmentsTyped, crashVars
  <1>3. ASSUME NEW c \in Callers, AppendReturn(c)
        PROVE  SpoolTypeOK'
    BY <1>3 DEF AppendReturn, Release, diskVars, managerVars, crashVars
  <1>4. ASSUME NEW c \in Callers, AppendOpenFails(c)
        PROVE  SpoolTypeOK'
    <2>1. CASE UNCHANGED <<segments, active, unsynced>>
      BY <1>4, <2>1 DEF AppendOpenFails, Release, Fail, spoolHist, crashVars
    <2>2. CASE /\ active # 0
               /\ segments' = WithFile(active, IF unsynced THEN Synced(segments[active])
                                                          ELSE segments[active])
               /\ active' = 0
               /\ unsynced' = FALSE
      <3>1. active \in DOMAIN segments /\ active \in Nat \ {0} /\ segments[active] \in File
        BY <2>2
      <3> DEFINE f == IF unsynced THEN Synced(segments[active]) ELSE segments[active]
      <3>2. f \in File /\ f.synced <= Len(f.lines)
        <4>1. Len(segments[active].lines) \in Nat
          BY <3>1 DEF File
        <4> QED BY <3>1, <4>1, SyncedFile
      <3>3. SegmentsTyped'
        BY <2>2, <3>1, <3>2, WithFileStores
      <3>4. unsynced' \in BOOLEAN
        BY <2>2, Zenon
      <3> QED BY <1>4, <2>2, <3>3, <3>4 DEF AppendOpenFails, Release, Fail, SegmentsTyped, spoolHist, crashVars
    <2> QED BY <1>4, <2>1, <2>2 DEF AppendOpenFails
  <1>5. ASSUME NEW c \in Callers, AppendWriteFails(c)
        PROVE  SpoolTypeOK'
    <2>1. PICK s \in WritableSegments, torn \in BOOLEAN :
            /\ segments' = WithFile(s, [FileAt(s) EXCEPT !.garbled = @ \/ torn])
            /\ active' = s
            /\ unsynced' = (s = active /\ unsynced)
      BY <1>5 DEF AppendWriteFails
    <2>2. s \in Nat \ {0}
      BY <2>1, WritableType
    <2>3. SegmentsTyped' /\ s \in DOMAIN segments'
      <3> DEFINE f == [FileAt(s) EXCEPT !.garbled = @ \/ torn]
      <3>1. f \in File /\ f.lines = FileAt(s).lines /\ f.synced = FileAt(s).synced
        BY FileAtType, FileGarble
      <3>2. f.synced <= Len(f.lines)
        BY <3>1, FileAtType
      <3> HIDE DEF f
      <3>3. segments' = WithFile(s, f)
        BY <2>1 DEF f
      <3> QED BY <2>2, <3>1, <3>2, <3>3, WithFileStores
    <2>4. unsynced' \in BOOLEAN
      BY <2>1, Zenon
    <2>5. active' = s
      BY <2>1
    <2>6. /\ Fail("write")
          /\ Release
          /\ UNCHANGED <<checkpoint, readable, nextSeq, spoolHist, crashVars>>
      BY <1>5 DEF AppendWriteFails
    <2> QED BY <2>3, <2>4, <2>5, <2>6 DEF Release, Fail, SegmentsTyped, spoolHist, crashVars
  <1>6. ASSUME NEW c \in Callers, AppendSyncFails(c)
        PROVE  SpoolTypeOK'
    <2>1. PICK s \in WritableSegments :
            /\ segments' = WithFile(s, WriteLine(s, FALSE))
            /\ active' = s
            /\ unsynced' = TRUE
      BY <1>6 DEF AppendSyncFails
    <2>2. s \in Nat \ {0} /\ todo # <<>>
      BY <1>6, <2>1, WritableType DEF AppendSyncFails
    <2>3. SegmentsTyped' /\ s \in DOMAIN segments'
      BY <2>1, <2>2, WriteLineType, WithFileStores
    <2>4. unsynced' \in BOOLEAN /\ reused' \in BOOLEAN
      BY <1>6, <2>1, Zenon DEF AppendSyncFails
    <2>5. active' = s
      BY <2>1
    <2>6. highSeq' \in Nat
      BY <1>6 DEF AppendSyncFails
    <2>7. /\ faults' \in Nat
          /\ holder' \in Callers \cup {NoCaller}
          /\ todo' \in Seq(Points)
          /\ done' \in Seq(SpoolRecord)
          /\ target' \in Nat
      BY <1>6 DEF AppendSyncFails, Release, Fail
    <2>8. UNCHANGED <<checkpoint, readable, nextSeq, returned, crashVars>>
      BY <1>6 DEF AppendSyncFails
    <2> QED BY <2>3, <2>4, <2>5, <2>6, <2>7, <2>8 DEF SegmentsTyped, crashVars
  <1>7. ASSUME NEW c \in Callers, NEW seq \in 1..highSeq, CheckpointTruncate(c, seq)
        PROVE  SpoolTypeOK'
    <2>1. readable' \in BOOLEAN
      BY <1>7, Zenon DEF CheckpointTruncate
    <2> QED BY <1>7, <2>1 DEF CheckpointTruncate, managerVars, spoolHist, crashVars
  <1>8. ASSUME NEW c \in Callers, CheckpointWrite(c) \/ CheckpointWriteFails(c)
        PROVE  SpoolTypeOK'
    <2>1. readable' \in BOOLEAN
      BY <1>8, Zenon DEF CheckpointWrite, CheckpointWriteFails
    <2>2. CASE CheckpointWrite(c)
      BY <2>1, <2>2 DEF CheckpointWrite, Release, managerVars, spoolHist, crashVars
    <2>3. CASE CheckpointWriteFails(c)
      <3>1. checkpoint' \in Nat
        BY <2>3 DEF CheckpointWriteFails
      <3> QED BY <2>1, <2>3, <3>1 DEF CheckpointWriteFails, Release, Fail, managerVars, spoolHist, crashVars
    <2> QED BY <1>8, <2>2, <2>3
  <1>9. ASSUME NEW seq \in 1..highSeq, CheckpointCurrent(seq) \/ CheckpointRefused(seq)
        PROVE  SpoolTypeOK'
    BY <1>9, SMTT(30) DEF CheckpointCurrent, CheckpointRefused, Fail, spoolVars, diskVars, managerVars,
                callVars, spoolHist, crashVars
  <1>10. CASE Compact
    <2>1. CASE readable
      BY <1>10, <2>1, CompactedInactive, RemoveType
         DEF Compact, managerVars, callVars, spoolHist, crashVars
    <2>2. CASE ~readable
      BY <1>10, <2>2 DEF Compact, managerVars, callVars, spoolHist, crashVars
    <2> QED BY <2>1, <2>2
  <1>11. CASE CompactFails
    <2>1. PICK stop \in DOMAIN segments : RemoveSegments(CompactedBefore(stop))
      BY <1>11 DEF CompactFails
    <2>2. SegmentsTyped' /\ active \in {0} \cup DOMAIN segments'
      BY <2>1, CompactedInactive, RemoveType DEF SegmentsTyped
    <2> QED BY <1>11, <2>2 DEF SegmentsTyped, CompactFails, Fail, managerVars, callVars, spoolHist, crashVars
  <1>12. CASE SpoolClose
    <2>1. SegmentsTyped'
      <3>1. CASE active # 0 /\ unsynced
        <4>1. segments' = [segments EXCEPT ![active] = Synced(segments[active])]
          BY <1>12, <3>1 DEF SpoolClose
        <4>2. segments[active] \in File /\ Len(segments[active].lines) \in Nat
          BY <3>1 DEF File
        <4> QED BY <3>1, <4>1, <4>2, SyncedFile DEF SegmentsTyped
      <3>2. CASE ~(active # 0 /\ unsynced)
        BY <1>12, <3>2 DEF SpoolClose, SegmentsTyped
      <3> QED BY <3>1, <3>2
    <2> QED BY <1>12, <2>1 DEF SpoolClose, SegmentsTyped, callVars, spoolHist, crashVars
  <1>13. CASE SpoolRestart
    <2>1. unsynced' \in BOOLEAN
      BY <1>13, Zenon DEF SpoolRestart, NewManager
    <2> QED BY <1>13, <2>1 DEF SpoolRestart, NewManager, diskVars, spoolHist
  <1>14. CASE SpoolPowerLoss
    <2>1. /\ DOMAIN segments' = DOMAIN segments
          /\ \A s \in DOMAIN segments : segments'[s] \in Survivors(segments[s])
          /\ segments' = [s \in DOMAIN segments |-> segments'[s]]
      BY <1>14 DEF SpoolPowerLoss
    <2>2. ASSUME NEW s \in DOMAIN segments
          PROVE  segments'[s] \in File /\ segments'[s].synced <= Len(segments'[s].lines)
      <3>1. segments[s] \in File /\ segments[s].synced <= Len(segments[s].lines)
        OBVIOUS
      <3>2. segments'[s] \in File /\ segments'[s].synced = Len(segments'[s].lines)
        BY <2>1, <3>1, SurvivorFile
      <3> QED BY <3>2 DEF File
    <2>3. SegmentsTyped'
      BY <2>1, <2>2 DEF SegmentsTyped
    <2>4. unsynced' \in BOOLEAN
      BY <1>14, Zenon DEF SpoolPowerLoss, NewManager
    <2> QED BY <1>14, <2>3, <2>4 DEF SpoolPowerLoss, NewManager, SegmentsTyped, spoolHist
  <1>15. CASE UNCHANGED spoolVars
    BY <1>15 DEF spoolVars, diskVars, managerVars, callVars, spoolHist, crashVars
  <1> QED
    BY <1>1, <1>2, <1>3, <1>4, <1>5, <1>6, <1>7, <1>8, <1>9, <1>10, <1>11, <1>12, <1>13,
       <1>14, <1>15 DEF SpoolNext, SpoolStep, AppendFails

(* Type correctness, whatever fails and whenever the process restarts.     *)
THEOREM SpoolTypeCorrect == SpoolSpec => []SpoolTypeOK
  BY TypeInit, TypeStep, PTL DEF SpoolSpec

-----------------------------------------------------------------------------
(* The inductive invariant behind the replay theorems.                     *)

(* Outside a call nothing is half written.                                 *)
CallIdle == holder = NoCaller => done = <<>> /\ target = 0

(* The checkpoint write under way moves the checkpoint forward.            *)
TargetAhead == target # 0 => target > checkpoint

(* The active segment is not named after a sequence number still to come.  *)
ActiveBehind == active <= nextSeq

(* SegmentNameBounds, line by line.                                        *)
NamesBound ==
  \A s \in DOMAIN segments :
    \A i \in 1..Len(segments[s].lines) : s <= segments[s].lines[i].seq

(* The record is in a segment; in the "always" mode, among the lines that  *)
(* an fsync has covered.                                                   *)
OnDisk(r) ==
  \E s \in DOMAIN segments :
    \E i \in 1..Len(segments[s].lines) :
      /\ segments[s].lines[i] = r
      /\ FSyncMode = "always" => i <= segments[s].synced

(* Records are on disk from the moment their line is written until the     *)
(* checkpoint has passed them.                                             *)
Kept ==
  FSyncMode = "always" \/ powerLosses = 0 =>
    /\ \A r \in returned : r.seq > checkpoint => OnDisk(r)
    /\ \A i \in 1..Len(done) : OnDisk(done[i])

SpoolInv ==
  SpoolTypeOK /\ CallIdle /\ TargetAhead /\ ActiveBehind /\ NamesBound /\ Kept

(* Every line stays where it is and stays synced.                          *)
Grows ==
  /\ DOMAIN segments \subseteq DOMAIN segments'
  /\ \A s \in DOMAIN segments :
       /\ segments[s].synced <= segments'[s].synced
       /\ Len(segments[s].lines) <= Len(segments'[s].lines)
       /\ \A i \in 1..Len(segments[s].lines) : segments'[s].lines[i] = segments[s].lines[i]

LEMMA FileNumbers ==
  ASSUME SpoolTypeOK, NEW s \in DOMAIN segments
  PROVE  /\ segments[s] \in File
         /\ segments[s].synced \in Nat
         /\ Len(segments[s].lines) \in Nat
         /\ segments[s].lines \in Seq(SpoolRecord)
         /\ segments[s].synced <= Len(segments[s].lines)
  BY DEF SpoolTypeOK, File

LEMMA GrowsKeeps ==
  ASSUME SpoolTypeOK, SpoolTypeOK', Grows, NEW r, OnDisk(r)
  PROVE  OnDisk(r)'
  <1>1. PICK s \in DOMAIN segments : \E i \in 1..Len(segments[s].lines) :
          segments[s].lines[i] = r /\ (FSyncMode = "always" => i <= segments[s].synced)
    BY DEF OnDisk
  <1>2. PICK i \in 1..Len(segments[s].lines) :
          segments[s].lines[i] = r /\ (FSyncMode = "always" => i <= segments[s].synced)
    BY <1>1
  <1>3. /\ s \in DOMAIN segments'
        /\ segments[s].synced <= segments'[s].synced
        /\ Len(segments[s].lines) <= Len(segments'[s].lines)
        /\ segments'[s].lines[i] = r
    BY <1>2 DEF Grows
  <1>4. /\ segments[s].synced \in Nat /\ Len(segments[s].lines) \in Nat
        /\ segments'[s].synced \in Nat /\ Len(segments'[s].lines) \in Nat
    <2>1. segments[s] \in File /\ segments'[s] \in File
      BY <1>3 DEF SpoolTypeOK
    <2> QED BY <2>1 DEF File
  <1>5. i \in 1..Len(segments'[s].lines) /\ (FSyncMode = "always" => i <= segments'[s].synced)
    BY <1>2, <1>3, <1>4
  <1> QED BY <1>3, <1>5 DEF OnDisk

(* What WithFile stores at each name.                                      *)
LEMMA WithFileAt ==
  ASSUME SpoolTypeOK, NEW s \in Nat \ {0}, NEW f \in File, segments' = WithFile(s, f)
  PROVE  /\ DOMAIN segments' = DOMAIN segments \cup {s}
         /\ segments'[s] = f
         /\ \A t \in DOMAIN segments \ {s} :
              /\ segments'[t].lines = segments[t].lines
              /\ segments'[t].synced \in {segments[t].synced, Len(segments[t].lines)}
  <1>1. DOMAIN segments' = DOMAIN segments \cup {s} /\ segments'[s] = f
    BY DEF WithFile
  <1>2. ASSUME NEW t \in DOMAIN segments \ {s}
        PROVE  /\ segments'[t].lines = segments[t].lines
               /\ segments'[t].synced \in {segments[t].synced, Len(segments[t].lines)}
    <2>1. segments'[t] = IF t = active /\ unsynced THEN Synced(segments[t]) ELSE segments[t]
      BY DEF WithFile
    <2> QED BY <2>1, FileNumbers, SyncedFile
  <1> QED BY <1>1, <1>2

LEMMA WithFileGrows ==
  ASSUME SpoolTypeOK, NEW s \in Nat \ {0}, NEW f \in File, segments' = WithFile(s, f),
         FileAt(s).synced <= f.synced,
         Len(FileAt(s).lines) <= Len(f.lines),
         \A i \in 1..Len(FileAt(s).lines) : f.lines[i] = FileAt(s).lines[i]
  PROVE  Grows
  <1> SUFFICES ASSUME NEW t \in DOMAIN segments
               PROVE  /\ segments[t].synced <= segments'[t].synced
                      /\ Len(segments[t].lines) <= Len(segments'[t].lines)
                      /\ \A i \in 1..Len(segments[t].lines) : segments'[t].lines[i] = segments[t].lines[i]
    BY WithFileAt DEF Grows
  <1>1. CASE t = s
    <2>1. segments'[s] = f
      BY WithFileAt
    <2>2. FileAt(s) = segments[t]
      BY <1>1 DEF FileAt
    <2> QED BY <1>1, <2>1, <2>2
  <1>2. CASE t # s
    <2>1. /\ segments'[t].lines = segments[t].lines
          /\ segments'[t].synced \in {segments[t].synced, Len(segments[t].lines)}
      BY <1>2, WithFileAt
    <2> QED BY <2>1, FileNumbers
  <1> QED BY <1>1, <1>2

LEMMA WithFileNames ==
  ASSUME SpoolTypeOK, NamesBound, NEW s \in Nat \ {0}, NEW f \in File, segments' = WithFile(s, f),
         \A i \in 1..Len(f.lines) : s <= f.lines[i].seq
  PROVE  NamesBound'
  <1> SUFFICES ASSUME NEW t \in DOMAIN segments'
               PROVE  \A i \in 1..Len(segments'[t].lines) : t <= segments'[t].lines[i].seq
    BY DEF NamesBound
  <1>1. CASE t = s
    <2>1. segments'[s] = f
      BY WithFileAt
    <2> QED BY <1>1, <2>1
  <1>2. CASE t # s
    <2>1. t \in DOMAIN segments /\ segments'[t].lines = segments[t].lines
      BY <1>2, WithFileAt
    <2> QED BY <2>1 DEF NamesBound
  <1> QED BY <1>1, <1>2

LEMMA UnchangedGrows ==
  ASSUME SpoolTypeOK, UNCHANGED segments
  PROVE  Grows
  BY FileNumbers DEF Grows

LEMMA KeptByGrowth ==
  ASSUME SpoolInv, SpoolTypeOK', Grows,
         powerLosses' = powerLosses, checkpoint <= checkpoint',
         returned' = returned, done' \in {done, <<>>}
  PROVE  Kept'
  <1> SUFFICES ASSUME FSyncMode = "always" \/ powerLosses = 0
               PROVE  /\ \A r \in returned : r.seq > checkpoint' => OnDisk(r)'
                      /\ \A i \in 1..Len(done') : OnDisk(done[i])'
    BY DEF Kept
  <1>1. ASSUME NEW r \in returned, r.seq > checkpoint'
        PROVE  OnDisk(r)'
    <2>1. r.seq > checkpoint
      <3>1. r.seq \in Nat /\ checkpoint \in Nat /\ checkpoint' \in Nat
        BY DEF SpoolInv, SpoolTypeOK, SpoolRecord
      <3> QED BY <1>1, <3>1
    <2>2. OnDisk(r)
      BY <2>1 DEF SpoolInv, Kept
    <2> QED BY <2>2, GrowsKeeps DEF SpoolInv
  <1>2. ASSUME NEW i \in 1..Len(done')
        PROVE  OnDisk(done[i])'
    <2>1. done' = done
      <3>1. done' # <<>>
        BY <1>2
      <3> QED BY <3>1
    <2>2. OnDisk(done[i])
      BY <1>2, <2>1 DEF SpoolInv, Kept
    <2>3. ASSUME NEW r, r = done[i] PROVE OnDisk(r)'
      BY <2>2, <2>3, GrowsKeeps DEF SpoolInv
    <2> QED BY <2>1, <2>3 DEF OnDisk
  <1> QED BY <1>1, <1>2

(* A removed segment holds nothing past the checkpoint.                    *)
LEMMA RemoveKeeps ==
  ASSUME SpoolInv, SpoolTypeOK', NEW stop, RemoveSegments(CompactedBefore(stop)),
         NEW r \in SpoolRecord, r.seq > checkpoint, OnDisk(r)
  PROVE  OnDisk(r)'
  <1>1. PICK s \in DOMAIN segments : \E i \in 1..Len(segments[s].lines) :
          segments[s].lines[i] = r /\ (FSyncMode = "always" => i <= segments[s].synced)
    BY DEF OnDisk
  <1>2. PICK i \in 1..Len(segments[s].lines) :
          segments[s].lines[i] = r /\ (FSyncMode = "always" => i <= segments[s].synced)
    BY <1>1
  <1>3. r \in LinesOf(s)
    <2>1. segments[s].lines \in Seq(SpoolRecord)
      BY FileNumbers DEF SpoolInv
    <2> QED BY <1>2, <2>1 DEF LinesOf
  <1>4. s \notin CompactedBefore(stop)
    <2>1. r.seq \in Nat /\ checkpoint \in Nat
      BY DEF SpoolInv, SpoolTypeOK, SpoolRecord
    <2>2. ~(r.seq <= checkpoint)
      BY <2>1
    <2> QED BY <1>3, <2>2 DEF CompactedBefore, Committed
  <1>5. s \in DOMAIN segments' /\ segments'[s] = segments[s]
    BY <1>4 DEF RemoveSegments
  <1> QED BY <1>2, <1>5 DEF OnDisk

LEMMA InvInit == SpoolInit => SpoolInv
  BY TypeInit DEF SpoolInit, SpoolInv, CallIdle, TargetAhead, ActiveBehind, NamesBound, Kept

(* Writing a line, synced or not, to a writable segment.                   *)
LEMMA LineGrows ==
  ASSUME SpoolInv, todo # <<>>, NEW s \in WritableSegments, NEW sync \in BOOLEAN,
         segments' = WithFile(s, WriteLine(s, sync))
  PROVE  /\ Grows
         /\ NamesBound'
         /\ s <= nextSeq
         /\ segments'[s] = WriteLine(s, sync)
  <1>1. SpoolTypeOK /\ s \in Nat \ {0}
    BY WritableType DEF SpoolInv
  <1>2. s <= nextSeq
    BY <1>1 DEF SpoolInv, ActiveBehind, WritableSegments, SpoolTypeOK
  <1> DEFINE f == WriteLine(s, sync)
             r == NewRecord(nextSeq, Head(todo))
  <1>3. /\ f \in File
        /\ f.lines = Append(FileAt(s).lines, r)
        /\ r \in SpoolRecord
        /\ f.synced = IF sync THEN Len(FileAt(s).lines) + 1 ELSE FileAt(s).synced
    BY <1>1, WriteLineType
  <1>4. /\ FileAt(s).lines \in Seq(SpoolRecord)
        /\ FileAt(s).synced \in Nat
        /\ FileAt(s).synced <= Len(FileAt(s).lines)
        /\ Len(FileAt(s).lines) \in Nat
    BY <1>1, FileAtType DEF File
  <1>5. /\ Len(f.lines) = Len(FileAt(s).lines) + 1
        /\ \A i \in 1..Len(FileAt(s).lines) : f.lines[i] = FileAt(s).lines[i]
        /\ f.lines[Len(f.lines)] = r
        /\ FileAt(s).synced <= f.synced
        /\ Len(FileAt(s).lines) <= Len(f.lines)
    BY <1>3, <1>4
  <1>6. \A i \in 1..Len(f.lines) : s <= f.lines[i].seq
    <2>1. \A i \in 1..Len(FileAt(s).lines) : s <= FileAt(s).lines[i].seq
      BY <1>1 DEF SpoolInv, NamesBound, FileAt, EmptyFile
    <2>2. r.seq = nextSeq
      BY DEF NewRecord
    <2> HIDE DEF f, r
    <2> QED BY <1>2, <1>4, <1>5, <2>1, <2>2
  <1> HIDE DEF f, r
  <1>7. segments' = WithFile(s, f)
    BY DEF f
  <1>8. Grows
    BY <1>1, <1>3, <1>5, <1>7, WithFileGrows
  <1>9. NamesBound'
    BY <1>1, <1>3, <1>6, <1>7, WithFileNames DEF SpoolInv
  <1>10. segments'[s] = f
    BY <1>1, <1>3, <1>7, WithFileAt
  <1> QED BY <1>2, <1>8, <1>9, <1>10 DEF f

LEMMA AppendLineInv ==
  ASSUME SpoolInv, SpoolTypeOK', NEW c \in Callers, AppendLine(c)
  PROVE  SpoolInv'
  <1>1. PICK s \in WritableSegments, sync \in SyncChoices :
          segments' = WithFile(s, WriteLine(s, sync)) /\ active' = s
    BY DEF AppendLine
  <1>2. todo # <<>> /\ sync \in BOOLEAN
    BY SyncChoicesType DEF AppendLine
  <1>3. Grows /\ NamesBound' /\ s <= nextSeq /\ segments'[s] = WriteLine(s, sync)
    BY <1>1, <1>2, LineGrows
  <1>4. CallIdle' /\ TargetAhead' /\ ActiveBehind'
    <2>1. holder' = c /\ c # NoCaller
      BY SpoolAssumption DEF AppendLine
    <2>2. UNCHANGED <<target, checkpoint>>
      BY DEF AppendLine
    <2>3. active' = s /\ nextSeq' = nextSeq + 1 /\ s \in Nat /\ nextSeq \in Nat
      BY <1>1, WritableType DEF AppendLine, SpoolInv, SpoolTypeOK
    <2> QED BY <1>3, <2>1, <2>2, <2>3 DEF SpoolInv, CallIdle, TargetAhead, ActiveBehind
  <1>5. Kept'
    <2> DEFINE rec == NewRecord(nextSeq, Head(todo))
    <2> SUFFICES ASSUME FSyncMode = "always" \/ powerLosses = 0
                 PROVE  /\ \A r \in returned : r.seq > checkpoint => OnDisk(r)'
                        /\ \A i \in 1..Len(done') : OnDisk(done[i])'
      BY DEF Kept, AppendLine, crashVars
    <2>1. ASSUME NEW r \in returned, r.seq > checkpoint
          PROVE  OnDisk(r)'
      BY <1>3, <2>1, GrowsKeeps DEF SpoolInv, Kept
    <2>2. ASSUME NEW r, r = rec
          PROVE  OnDisk(r)'
      <3>1. /\ segments'[s].lines = Append(FileAt(s).lines, rec)
            /\ segments'[s].synced = IF sync THEN Len(FileAt(s).lines) + 1 ELSE FileAt(s).synced
            /\ FileAt(s).lines \in Seq(SpoolRecord)
            /\ rec \in SpoolRecord
        BY <1>2, <1>3, WriteLineType, FileAtType DEF SpoolInv, File
      <3>2. s \in DOMAIN segments'
        BY <1>1 DEF WithFile
      <3>3. FSyncMode = "always" => sync
        BY <1>1 DEF SyncChoices
      <3> HIDE DEF rec
      <3> DEFINE n == Len(FileAt(s).lines) + 1
      <3>4. /\ n \in 1..Len(segments'[s].lines)
            /\ segments'[s].lines[n] = rec
            /\ FSyncMode = "always" => n <= segments'[s].synced
        BY <3>1, <3>3
      <3> QED BY <2>2, <3>2, <3>4 DEF OnDisk
    <2>3. ASSUME NEW i \in 1..Len(done')
          PROVE  OnDisk(done[i])'
      <3>1. done \in Seq(SpoolRecord) /\ rec \in SpoolRecord
        BY <1>2, WriteLineType DEF SpoolInv, SpoolTypeOK
      <3>2. done' = Append(done, rec)
        BY DEF AppendLine
      <3>3. CASE i \in 1..Len(done)
        <4>1. done'[i] = done[i]
          BY <3>1, <3>2, <3>3
        <4>2. OnDisk(done[i])
          BY <3>3 DEF SpoolInv, Kept
        <4>3. ASSUME NEW r, r = done[i] PROVE OnDisk(r)'
          BY <1>3, <4>2, <4>3, GrowsKeeps DEF SpoolInv
        <4> QED BY <4>1, <4>3 DEF OnDisk
      <3>4. CASE i \notin 1..Len(done)
        <4>1. done'[i] = rec
          BY <2>3, <3>1, <3>2, <3>4
        <4> QED BY <2>2, <4>1 DEF OnDisk
      <3> QED BY <3>3, <3>4
    <2> QED BY <2>1, <2>3
  <1> QED BY <1>3, <1>4, <1>5 DEF SpoolInv

LEMMA AppendReturnInv ==
  ASSUME SpoolInv, SpoolTypeOK', NEW c \in Callers, AppendReturn(c)
  PROVE  SpoolInv'
  <1>1. UNCHANGED <<segments, checkpoint, nextSeq, active, powerLosses>>
    BY DEF AppendReturn, diskVars, managerVars, crashVars
  <1>2. done' = <<>> /\ target' = 0
    BY DEF AppendReturn, Release
  <1>3. Kept'
    <2> SUFFICES ASSUME FSyncMode = "always" \/ powerLosses = 0,
                        NEW r \in returned', r.seq > checkpoint
                 PROVE  OnDisk(r)'
      BY <1>1, <1>2 DEF Kept
    <2>1. OnDisk(r)
      <3>1. CASE r \in returned
        BY <3>1 DEF SpoolInv, Kept
      <3>2. CASE r \notin returned
        <4>1. PICK i \in DOMAIN done : r = done[i]
          BY <3>2 DEF AppendReturn
        <4>2. done \in Seq(SpoolRecord)
          BY DEF SpoolInv, SpoolTypeOK
        <4>3. i \in 1..Len(done)
          BY <4>1, <4>2
        <4> QED BY <4>1, <4>3 DEF SpoolInv, Kept
      <3> QED BY <3>1, <3>2
    <2> QED BY <1>1, <2>1 DEF OnDisk
  <1> QED BY <1>1, <1>2, <1>3 DEF SpoolInv, CallIdle, TargetAhead, ActiveBehind, NamesBound

LEMMA AppendFailsInv ==
  ASSUME SpoolInv, SpoolTypeOK', NEW c \in Callers, AppendFails(c)
  PROVE  SpoolInv' /\ Grows
  <1>1. /\ UNCHANGED <<checkpoint, nextSeq, returned, powerLosses>>
        /\ done' = <<>>
        /\ target' = 0
    BY DEF AppendFails, AppendOpenFails, AppendWriteFails, AppendSyncFails, Release, spoolHist, crashVars
  <1>2. SpoolTypeOK /\ NamesBound /\ nextSeq \in Nat /\ active <= nextSeq
    BY DEF SpoolInv, SpoolTypeOK, ActiveBehind
  <1>3. Grows /\ NamesBound' /\ active' <= nextSeq
    <2>1. CASE AppendOpenFails(c)
      <3>1. CASE UNCHANGED <<segments, active, unsynced>>
        BY <1>2, <3>1, UnchangedGrows DEF NamesBound
      <3>2. CASE /\ active # 0
                 /\ segments' = WithFile(active, IF unsynced THEN Synced(segments[active])
                                                            ELSE segments[active])
                 /\ active' = 0
                 /\ unsynced' = FALSE
        <4>1. active \in DOMAIN segments /\ active \in Nat \ {0}
          BY <1>2, <3>2 DEF SpoolTypeOK
        <4> DEFINE f == IF unsynced THEN Synced(segments[active]) ELSE segments[active]
        <4>2. /\ f \in File
              /\ f.lines = FileAt(active).lines
              /\ FileAt(active) = segments[active]
              /\ f.synced \in {segments[active].synced, Len(segments[active].lines)}
          BY <1>2, <4>1, FileNumbers, SyncedFile DEF FileAt
        <4> HIDE DEF f
        <4>3. FileAt(active).synced <= f.synced /\ Len(FileAt(active).lines) <= Len(f.lines)
          BY <1>2, <4>1, <4>2, FileNumbers
        <4>4. \A i \in 1..Len(f.lines) : active <= f.lines[i].seq
          BY <1>2, <4>1, <4>2 DEF NamesBound
        <4>5. segments' = WithFile(active, f)
          BY <3>2 DEF f
        <4> QED BY <1>2, <3>2, <4>1, <4>2, <4>3, <4>4, <4>5, WithFileGrows, WithFileNames, SMTT(30)
      <3> QED BY <2>1, <3>1, <3>2 DEF AppendOpenFails
    <2>2. CASE AppendWriteFails(c)
      <3>1. PICK s \in WritableSegments, torn \in BOOLEAN :
              segments' = WithFile(s, [FileAt(s) EXCEPT !.garbled = @ \/ torn]) /\ active' = s
        BY <2>2 DEF AppendWriteFails
      <3>2. s \in Nat \ {0} /\ s <= nextSeq
        BY <1>2, <3>1, WritableType DEF WritableSegments
      <3> DEFINE f == [FileAt(s) EXCEPT !.garbled = @ \/ torn]
      <3>3. f \in File /\ f.lines = FileAt(s).lines /\ f.synced = FileAt(s).synced
        BY <1>2, FileAtType, FileGarble
      <3> HIDE DEF f
      <3>4. FileAt(s).synced <= f.synced /\ Len(FileAt(s).lines) <= Len(f.lines)
        BY <3>3 DEF File
      <3>5. \A i \in 1..Len(f.lines) : s <= f.lines[i].seq
        BY <1>2, <3>3 DEF NamesBound, FileAt, EmptyFile
      <3>6. segments' = WithFile(s, f)
        BY <3>1 DEF f
      <3> QED BY <1>2, <3>1, <3>2, <3>3, <3>4, <3>5, <3>6, WithFileGrows, WithFileNames
    <2>3. CASE AppendSyncFails(c)
      <3>1. PICK s \in WritableSegments : segments' = WithFile(s, WriteLine(s, FALSE)) /\ active' = s
        BY <2>3 DEF AppendSyncFails
      <3>2. todo # <<>>
        BY <2>3 DEF AppendSyncFails
      <3> QED BY <3>1, <3>2, LineGrows
    <2> QED BY <2>1, <2>2, <2>3 DEF AppendFails
  <1>4. Kept'
    BY <1>1, <1>2, <1>3, KeptByGrowth DEF SpoolTypeOK
  <1> QED BY <1>1, <1>3, <1>4 DEF SpoolInv, CallIdle, TargetAhead, ActiveBehind

LEMMA CompactInv ==
  ASSUME SpoolInv, SpoolTypeOK', NEW stop, RemoveSegments(CompactedBefore(stop)), holder = NoCaller,
         UNCHANGED <<checkpoint, managerVars, callVars, spoolHist, crashVars>>
  PROVE  SpoolInv'
  <1>1. /\ UNCHANGED <<checkpoint, nextSeq, active, holder, done, target, returned, powerLosses>>
        /\ done = <<>>
    BY DEF SpoolInv, CallIdle, managerVars, callVars, spoolHist, crashVars
  <1>2. NamesBound'
    BY DEF SpoolInv, NamesBound, RemoveSegments
  <1>3. Kept'
    <2> SUFFICES ASSUME FSyncMode = "always" \/ powerLosses = 0,
                        NEW r \in returned, r.seq > checkpoint
                 PROVE  OnDisk(r)'
      BY <1>1 DEF Kept
    <2>1. r \in SpoolRecord /\ OnDisk(r)
      BY DEF SpoolInv, Kept, SpoolTypeOK
    <2> QED BY <2>1, RemoveKeeps
  <1> QED BY <1>1, <1>2, <1>3 DEF SpoolInv, CallIdle, TargetAhead, ActiveBehind

(* A power loss in the "always" mode takes back no synced line.            *)
LEMMA PowerLossInv ==
  ASSUME SpoolInv, SpoolTypeOK', SpoolPowerLoss
  PROVE  SpoolInv'
  <1>1. /\ DOMAIN segments' = DOMAIN segments
        /\ \A s \in DOMAIN segments : segments'[s] \in Survivors(segments[s])
    BY DEF SpoolPowerLoss
  <1>2. /\ UNCHANGED <<checkpoint, returned>>
        /\ done' = <<>> /\ target' = 0 /\ active' = 0 /\ nextSeq' = 1
        /\ powerLosses \in Nat
        /\ powerLosses' = powerLosses + 1
    BY DEF SpoolPowerLoss, NewManager, spoolHist, SpoolInv, SpoolTypeOK
  <1>3. ASSUME NEW s \in DOMAIN segments
        PROVE  /\ Len(segments'[s].lines) \in segments[s].synced..Len(segments[s].lines)
               /\ segments'[s].synced = Len(segments'[s].lines)
               /\ \A i \in 1..Len(segments'[s].lines) : segments'[s].lines[i] = segments[s].lines[i]
    BY <1>1, FileNumbers, SurvivorFile DEF SpoolInv
  <1>4. NamesBound'
    <2> SUFFICES ASSUME NEW s \in DOMAIN segments', NEW i \in 1..Len(segments'[s].lines)
                 PROVE  s <= segments'[s].lines[i].seq
      BY DEF NamesBound
    <2>1. /\ s \in DOMAIN segments
          /\ Len(segments[s].lines) \in Nat
          /\ segments[s].synced \in Nat
      BY <1>1, FileNumbers DEF SpoolInv
    <2>2. i \in 1..Len(segments[s].lines) /\ segments'[s].lines[i] = segments[s].lines[i]
      BY <1>3, <2>1
    <2> QED BY <2>1, <2>2 DEF SpoolInv, NamesBound
  <1>5. Kept'
    <2> SUFFICES ASSUME FSyncMode = "always", NEW r \in returned, r.seq > checkpoint
                 PROVE  OnDisk(r)'
      BY <1>2 DEF Kept
    <2>1. OnDisk(r)
      BY DEF SpoolInv, Kept
    <2>2. PICK s \in DOMAIN segments : \E i \in 1..Len(segments[s].lines) :
            segments[s].lines[i] = r /\ i <= segments[s].synced
      BY <2>1 DEF OnDisk
    <2>3. PICK i \in 1..Len(segments[s].lines) : segments[s].lines[i] = r /\ i <= segments[s].synced
      BY <2>2
    <2>4. segments[s].synced \in Nat /\ Len(segments[s].lines) \in Nat
      BY FileNumbers DEF SpoolInv
    <2>5. i \in 1..Len(segments'[s].lines) /\ i <= segments'[s].synced /\ segments'[s].lines[i] = r
      BY <1>3, <2>3, <2>4
    <2> QED BY <1>1, <2>5 DEF OnDisk
  <1> QED BY <1>2, <1>4, <1>5 DEF SpoolInv, CallIdle, TargetAhead, ActiveBehind

(* Actions on the checkpoint or the manager only.                          *)
LEMMA CallInv ==
  ASSUME SpoolInv, SpoolTypeOK', UNCHANGED <<segments, returned, powerLosses>>,
         checkpoint <= checkpoint', done' \in {done, <<>>}, CallIdle', TargetAhead', ActiveBehind'
  PROVE  SpoolInv'
  <1>1. Kept'
    BY UnchangedGrows, KeptByGrowth DEF SpoolInv
  <1>2. NamesBound'
    BY DEF SpoolInv, NamesBound
  <1> QED BY <1>1, <1>2 DEF SpoolInv

LEMMA InvStep ==
  ASSUME SpoolInv, [SpoolNext]_spoolVars
  PROVE  SpoolInv' /\ checkpoint <= checkpoint'
  <1>1. SpoolTypeOK'
    BY TypeStep DEF SpoolInv
  <1>2. /\ checkpoint \in Nat /\ checkpoint' \in Nat
        /\ nextSeq \in Nat /\ active \in Nat /\ target \in Nat
        /\ CallIdle /\ TargetAhead /\ active <= nextSeq
    BY <1>1, SMTT(30) DEF SpoolInv, SpoolTypeOK, ActiveBehind
  <1> USE DEF CallIdle, TargetAhead, ActiveBehind
  <1>3. ASSUME NEW c \in Callers, NEW pts \in Batches, AppendBegin(c, pts)
        PROVE  SpoolInv' /\ checkpoint <= checkpoint'
    BY <1>1, <1>2, <1>3, CallInv, SpoolAssumption
       DEF AppendBegin, diskVars, managerVars, spoolHist, crashVars
  <1>4. ASSUME NEW c \in Callers, AppendLine(c)
        PROVE  SpoolInv' /\ checkpoint <= checkpoint'
    BY <1>1, <1>2, <1>4, AppendLineInv DEF AppendLine
  <1>5. ASSUME NEW c \in Callers, AppendReturn(c)
        PROVE  SpoolInv' /\ checkpoint <= checkpoint'
    BY <1>1, <1>2, <1>5, AppendReturnInv DEF AppendReturn, diskVars
  <1>6. ASSUME NEW c \in Callers, AppendFails(c)
        PROVE  SpoolInv' /\ checkpoint <= checkpoint'
    <2>1. checkpoint' = checkpoint
      BY <1>6 DEF AppendFails, AppendOpenFails, AppendWriteFails, AppendSyncFails
    <2> QED BY <1>1, <1>2, <1>6, <2>1, AppendFailsInv
  <1>7. ASSUME NEW c \in Callers, NEW seq \in 1..highSeq, CheckpointTruncate(c, seq)
        PROVE  SpoolInv' /\ checkpoint <= checkpoint'
    BY <1>1, <1>2, <1>7, CallInv, SpoolAssumption
       DEF CheckpointTruncate, managerVars, spoolHist, crashVars
  <1>8. ASSUME NEW c \in Callers, CheckpointWrite(c) \/ CheckpointWriteFails(c)
        PROVE  SpoolInv' /\ checkpoint <= checkpoint'
    <2>1. checkpoint' \in {checkpoint, target} /\ target > checkpoint
      BY <1>2, <1>8 DEF CheckpointWrite, CheckpointWriteFails
    <2>2. /\ UNCHANGED <<segments, active, nextSeq, returned, powerLosses>>
          /\ done' = <<>> /\ target' = 0
      BY <1>8 DEF CheckpointWrite, CheckpointWriteFails, Release, managerVars, spoolHist, crashVars
    <2> QED BY <1>1, <1>2, <2>1, <2>2, CallInv
  <1>9. ASSUME NEW seq \in 1..highSeq, CheckpointCurrent(seq) \/ CheckpointRefused(seq)
        PROVE  SpoolInv' /\ checkpoint <= checkpoint'
    <2>1. UNCHANGED <<diskVars, managerVars, callVars, spoolHist, crashVars>>
      BY <1>9 DEF CheckpointCurrent, CheckpointRefused, spoolVars
    <2> QED BY <1>1, <1>2, <2>1, CallInv DEF diskVars, managerVars, callVars, spoolHist, crashVars
  <1>10. CASE Compact
    <2>1. CASE readable
      BY <1>1, <1>2, <1>10, <2>1, CompactInv DEF Compact
    <2>2. CASE ~readable
      BY <1>1, <1>2, <1>10, <2>2, CallInv DEF Compact, managerVars, callVars, spoolHist, crashVars
    <2> QED BY <2>1, <2>2
  <1>11. CASE CompactFails
    <2>1. PICK stop \in DOMAIN segments : RemoveSegments(CompactedBefore(stop))
      BY <1>11 DEF CompactFails
    <2> QED BY <1>1, <1>2, <1>11, <2>1, CompactInv DEF CompactFails
  <1>12. CASE SpoolClose
    <2>1. SpoolTypeOK
      BY DEF SpoolInv
    <2>2. /\ UNCHANGED <<checkpoint, nextSeq, holder, done, target, returned, powerLosses>>
          /\ active' = 0
      BY <1>12 DEF SpoolClose, callVars, spoolHist, crashVars
    <2>3. /\ DOMAIN segments' = DOMAIN segments
          /\ \A s \in DOMAIN segments :
               /\ segments'[s].lines = segments[s].lines
               /\ segments'[s].synced \in {segments[s].synced, Len(segments[s].lines)}
      <3>1. CASE active # 0 /\ unsynced
        <4>1. segments' = [segments EXCEPT ![active] = Synced(segments[active])]
          BY <1>12, <3>1 DEF SpoolClose
        <4>2. active \in DOMAIN segments /\ segments[active] \in File
          BY <2>1, <3>1 DEF SpoolTypeOK
        <4> QED BY <4>1, <4>2, SyncedFile
      <3>2. CASE ~(active # 0 /\ unsynced)
        BY <1>12, <3>2 DEF SpoolClose
      <3> QED BY <3>1, <3>2
    <2>4. Grows
      BY <2>1, <2>3, FileNumbers DEF Grows
    <2>5. NamesBound'
      BY <2>3 DEF SpoolInv, NamesBound
    <2>6. Kept'
      BY <1>1, <1>2, <2>2, <2>4, KeptByGrowth
    <2> QED BY <1>1, <1>2, <2>2, <2>5, <2>6 DEF SpoolInv
  <1>13. CASE SpoolRestart
    BY <1>1, <1>2, <1>13, CallInv DEF SpoolRestart, NewManager, diskVars, spoolHist
  <1>14. CASE SpoolPowerLoss
    BY <1>1, <1>2, <1>14, PowerLossInv DEF SpoolPowerLoss
  <1>15. CASE UNCHANGED spoolVars
    BY <1>1, <1>2, <1>15, CallInv
       DEF spoolVars, diskVars, managerVars, callVars, spoolHist, crashVars
  <1> QED
    BY <1>3, <1>4, <1>5, <1>6, <1>7, <1>8, <1>9, <1>10, <1>11, <1>12, <1>13, <1>14, <1>15
       DEF SpoolNext, SpoolStep

LEMMA InvSpec == SpoolSpec => []SpoolInv
  BY InvInit, InvStep, PTL DEF SpoolSpec

-----------------------------------------------------------------------------
(* What is kept on disk is replayed.                                       *)
LEMMA KeptReplays ==
  ASSUME SpoolInv
  PROVE  ReplayComplete
  <1> SUFFICES ASSUME FSyncMode = "always" \/ powerLosses = 0,
                      NEW r \in returned, r.seq > checkpoint
               PROVE  r \in Spooled
    BY DEF ReplayComplete
  <1>1. OnDisk(r)
    BY DEF SpoolInv, Kept
  <1>2. PICK s \in DOMAIN segments : \E i \in 1..Len(segments[s].lines) : segments[s].lines[i] = r
    BY <1>1 DEF OnDisk
  <1>3. segments[s].lines \in Seq(SpoolRecord)
    BY FileNumbers DEF SpoolInv
  <1>4. r \in LinesOf(s)
    BY <1>2, <1>3 DEF LinesOf
  <1> QED BY <1>4 DEF Spooled

(* AppendCanonicalPoints, AdvanceCheckpoint and CompactCommittedSegments   *)
(* together never lose a record that was returned to a caller and that the *)
(* checkpoint has not passed.                                              *)
THEOREM SpoolReplays == SpoolSpec => []ReplayComplete
  BY KeptReplays, InvSpec, PTL

(* The bound holds of the lines as sets of records.                        *)
LEMMA BoundNames ==
  ASSUME SpoolInv
  PROVE  SegmentNameBounds
  <1> SUFFICES ASSUME NEW s \in DOMAIN segments, NEW r \in LinesOf(s)
               PROVE  s <= r.seq
    BY DEF SegmentNameBounds
  <1>1. segments[s].lines \in Seq(SpoolRecord)
    BY FileNumbers DEF SpoolInv
  <1>2. PICK i \in 1..Len(segments[s].lines) : r = segments[s].lines[i]
    BY <1>1 DEF LinesOf
  <1> QED BY <1>2 DEF SpoolInv, NamesBound

(* No record is older than the name of its segment, which is why           *)
(* CompactCommittedSegments may skip a segment by its name alone.          *)
THEOREM SpoolNamesBound == SpoolSpec => []SegmentNameBounds
  BY BoundNames, InvSpec, PTL

(* No call and no restart moves the checkpoint back.                       *)
THEOREM SpoolCheckpointMonotone == SpoolSpec => CheckpointMonotone
  <1>1. ASSUME SpoolInv, [SpoolNext]_spoolVars PROVE [checkpoint <= checkpoint']_spoolVars
    BY <1>1, InvStep
  <1> QED BY <1>1, InvSpec, PTL DEF SpoolSpec, CheckpointMonotone

-----------------------------------------------------------------------------
(* The order of the log, as long as no sequence number is used twice.  A   *)
(* line goes to the last segment because the next sequence number is then  *)
(* past all lines; once it is not, as after a restart or a failed sync, it *)
(* stays so until a number has been used again.                            *)

NextBehind == nextSeq <= highSeq + 1

LinesBelow ==
  \A s \in DOMAIN segments :
    /\ s <= highSeq + 1
    /\ \A i \in 1..Len(segments[s].lines) : segments[s].lines[i].seq <= highSeq

ActiveLast ==
  ~reused /\ nextSeq > highSeq /\ active # 0 => \A s \in DOMAIN segments : s <= active

Ascending ==
  ~reused =>
    \A s, t \in DOMAIN segments :
      \A i \in 1..Len(segments[s].lines), j \in 1..Len(segments[t].lines) :
        (s < t \/ (s = t /\ i < j)) => segments[s].lines[i].seq < segments[t].lines[j].seq

(* Records are written without the mark that the buffer may give them.     *)
Unmarked ==
  \A s \in DOMAIN segments :
    \A i \in 1..Len(segments[s].lines) : ~segments[s].lines[i].checkpointOnly

LogInv == NextBehind /\ LinesBelow /\ Unmarked /\ ActiveLast /\ Ascending

(* What is not synced is in the active segment and known to be unsynced.   *)
SyncInv ==
  restarts = 0 =>
    \A s \in DOMAIN segments :
      s # active \/ ~unsynced => segments[s].synced = Len(segments[s].lines)

(* Every line was there before.                                            *)
Shrinks ==
  \A s \in DOMAIN segments' :
    /\ s \in DOMAIN segments
    /\ Len(segments'[s].lines) <= Len(segments[s].lines)
    /\ \A i \in 1..Len(segments'[s].lines) : segments'[s].lines[i] = segments[s].lines[i]

LEMMA LineSeq ==
  ASSUME SpoolTypeOK, LogInv, NEW s \in DOMAIN segments, NEW i \in 1..Len(segments[s].lines)
  PROVE  segments[s].lines[i].seq \in Nat /\ segments[s].lines[i].seq <= highSeq
  <1>1. segments[s].lines[i] \in SpoolRecord
    BY FileNumbers
  <1> QED BY <1>1 DEF SpoolRecord, LogInv, LinesBelow

LEMMA ShrinksOrdered ==
  ASSUME SpoolTypeOK, SpoolTypeOK', LogInv, Shrinks, UNCHANGED <<highSeq, reused>>,
         (nextSeq' = nextSeq /\ active' \in {0, active}) \/ (nextSeq' = 1 /\ active' = 0)
  PROVE  LogInv'
  <1>1. ASSUME NEW s \in DOMAIN segments'
        PROVE  /\ s \in DOMAIN segments
               /\ Len(segments'[s].lines) \in Nat /\ Len(segments[s].lines) \in Nat
               /\ \A i \in 1..Len(segments'[s].lines) :
                    i \in 1..Len(segments[s].lines) /\ segments'[s].lines[i] = segments[s].lines[i]
    <2>1. s \in DOMAIN segments /\ segments[s] \in File /\ segments'[s] \in File
      BY DEF Shrinks, SpoolTypeOK
    <2>2. Len(segments'[s].lines) \in Nat /\ Len(segments[s].lines) \in Nat
      BY <2>1 DEF File
    <2> QED BY <2>1, <2>2 DEF Shrinks
  <1>0. nextSeq \in Nat /\ highSeq \in Nat
    BY DEF SpoolTypeOK
  <1>2. NextBehind' /\ ActiveLast'
    <2>1. CASE nextSeq' = nextSeq /\ active' \in {0, active}
      BY <1>1, <2>1 DEF LogInv, NextBehind, ActiveLast
    <2>2. CASE nextSeq' = 1 /\ active' = 0
      BY <1>0, <2>2 DEF NextBehind, ActiveLast
    <2> QED BY <2>1, <2>2
  <1>3. LinesBelow'
    BY <1>1 DEF LogInv, LinesBelow
  <1>4. Ascending'
    BY <1>1 DEF LogInv, Ascending
  <1>5. Unmarked'
    BY <1>1 DEF LogInv, Unmarked
  <1> QED BY <1>2, <1>3, <1>4, <1>5 DEF LogInv

(* A writable segment is the last one, if the next number is a new one.    *)
LEMMA WritableLast ==
  ASSUME SpoolTypeOK, LogInv, ~reused, nextSeq > highSeq, NEW s \in WritableSegments,
         NEW t \in DOMAIN segments
  PROVE  t <= s
  <1>1. CASE s = active
    BY <1>1, WritableType DEF LogInv, ActiveLast
  <1>2. CASE s # active
    <2>1. s = nextSeq
      BY <1>2 DEF WritableSegments
    <2> QED BY <2>1 DEF LogInv, NextBehind, LinesBelow, SpoolTypeOK
  <1> QED BY <1>1, <1>2

LEMMA WritableBelow ==
  ASSUME SpoolTypeOK, LogInv, NEW s \in WritableSegments
  PROVE  s <= highSeq + 1
  BY DEF SpoolTypeOK, LogInv, NextBehind, LinesBelow, WritableSegments

LEMMA LineOrdered ==
  ASSUME SpoolTypeOK, SpoolTypeOK', LogInv, todo # <<>>,
         NEW s \in WritableSegments, NEW sync \in BOOLEAN,
         segments' = WithFile(s, WriteLine(s, sync)), active' = s,
         nextSeq' \in {nextSeq, nextSeq + 1},
         highSeq' = IF nextSeq > highSeq THEN nextSeq ELSE highSeq,
         reused' = (reused \/ nextSeq <= highSeq)
  PROVE  LogInv'
  <1> DEFINE r == NewRecord(nextSeq, Head(todo))
             old == FileAt(s).lines
             new == segments'[s].lines
  <1>1. s \in Nat \ {0} /\ nextSeq \in Nat /\ highSeq \in Nat
    BY WritableType DEF SpoolTypeOK
  <1>2. /\ DOMAIN segments' = DOMAIN segments \cup {s}
        /\ new = Append(old, r) /\ old \in Seq(SpoolRecord) /\ r \in SpoolRecord
        /\ \A t \in DOMAIN segments \ {s} : segments'[t].lines = segments[t].lines
    <2>1. /\ WriteLine(s, sync) \in File
          /\ WriteLine(s, sync).lines = Append(old, r)
          /\ r \in SpoolRecord
      BY WriteLineType
    <2>2. old \in Seq(SpoolRecord)
      BY FileAtType DEF File
    <2> QED BY <1>1, <2>1, <2>2, WithFileAt
  <1>3. /\ Len(old) \in Nat /\ Len(new) = Len(old) + 1
        /\ \A i \in 1..Len(old) : new[i] = old[i]
        /\ new[Len(new)] = r /\ r.seq = nextSeq /\ ~r.checkpointOnly
    <2>1. r.seq = nextSeq /\ ~r.checkpointOnly
      BY DEF NewRecord
    <2> HIDE DEF r, old, new
    <2> QED BY <1>2, <2>1
  <1>4. /\ s \in DOMAIN segments => old = segments[s].lines
        /\ s \notin DOMAIN segments => Len(old) = 0
    BY DEF FileAt, EmptyFile
  <1>5. /\ highSeq' \in Nat /\ highSeq <= highSeq' /\ nextSeq <= highSeq'
        /\ highSeq' \in {highSeq, nextSeq}
    BY <1>1
  <1>6. NextBehind'
    BY <1>1, <1>5 DEF NextBehind
  <1> HIDE DEF r, old, new
  <1>7. \A t \in DOMAIN segments' : Len(segments'[t].lines) \in Nat
    BY <1>2, <1>3, FileNumbers DEF new
  <1>8. LinesBelow'
    <2>1. ASSUME NEW t \in DOMAIN segments'
          PROVE  /\ t <= highSeq' + 1
                 /\ \A i \in 1..Len(segments'[t].lines) : segments'[t].lines[i].seq <= highSeq'
      <3>1. CASE t = s
        <4>1. s <= highSeq' + 1
          BY <1>1, <1>5, WritableBelow
        <4>2. ASSUME NEW i \in 1..Len(new) PROVE new[i].seq <= highSeq'
          <5>1. CASE i = Len(new)
            BY <1>3, <1>5, <5>1
          <5>2. CASE i # Len(new)
            <6>1. i \in 1..Len(old) /\ new[i] = old[i] /\ s \in DOMAIN segments /\ old[i] \in SpoolRecord
              BY <1>2, <1>3, <1>4, <5>2
            <6>2. old[i].seq <= highSeq /\ old[i].seq \in Nat
              BY <1>4, <6>1 DEF LogInv, LinesBelow, SpoolRecord
            <6> QED BY <1>1, <1>5, <6>1, <6>2
          <5> QED BY <5>1, <5>2
        <4> QED BY <3>1, <4>1, <4>2 DEF new
      <3>2. CASE t # s
        <4>1. t \in DOMAIN segments /\ segments'[t].lines = segments[t].lines /\ t \in Nat
          BY <1>2, <3>2 DEF SpoolTypeOK
        <4>2. ASSUME NEW i \in 1..Len(segments[t].lines)
              PROVE  segments[t].lines[i].seq <= highSeq /\ segments[t].lines[i].seq \in Nat
          BY <4>1, LineSeq
        <4> QED BY <1>1, <1>5, <4>1, <4>2 DEF LogInv, LinesBelow
      <3> QED BY <3>1, <3>2
    <2> QED BY <2>1 DEF LinesBelow
  <1>9. Unmarked'
    <2>1. ASSUME NEW t \in DOMAIN segments', NEW i \in 1..Len(segments'[t].lines)
          PROVE  ~segments'[t].lines[i].checkpointOnly
      <3>1. CASE t = s /\ i = Len(new)
        BY <1>3, <3>1 DEF new
      <3>2. CASE ~(t = s /\ i = Len(new))
        <4>1. /\ t \in DOMAIN segments /\ i \in 1..Len(segments[t].lines)
              /\ segments'[t].lines[i] = segments[t].lines[i]
          BY <1>2, <1>3, <1>4, <3>2 DEF new
        <4> QED BY <4>1 DEF LogInv, Unmarked
      <3> QED BY <3>1, <3>2
    <2> QED BY <2>1 DEF Unmarked
  <1>10. CASE reused'
    BY <1>6, <1>8, <1>9, <1>10 DEF LogInv, ActiveLast, Ascending
  <1>11. CASE ~reused'
    <2>0. ~reused /\ ~(nextSeq <= highSeq)
      BY <1>11, Zenon
    <2>1. ~reused /\ nextSeq > highSeq /\ highSeq' = nextSeq
      BY <1>1, <2>0
    <2>2. \A t \in DOMAIN segments' : t <= s
      BY <1>1, <1>2, <2>1, WritableLast
    <2>3. ActiveLast'
      BY <2>2 DEF ActiveLast
    <2>4. ASSUME NEW t \in DOMAIN segments', NEW u \in DOMAIN segments',
                 NEW i \in 1..Len(segments'[t].lines), NEW j \in 1..Len(segments'[u].lines),
                 t < u \/ (t = u /\ i < j)
          PROVE  segments'[t].lines[i].seq < segments'[u].lines[j].seq
      <3>1. t # s \/ i # Len(new)
        <4>1. t \in Nat /\ u \in Nat /\ u <= s
          BY <2>2 DEF SpoolTypeOK
        <4>2. CASE t < u
          BY <1>1, <4>1, <4>2
        <4>3. CASE t = u /\ i < j
          BY <1>7, <4>3 DEF new
        <4> QED BY <2>4, <4>2, <4>3
      <3>2. /\ t \in DOMAIN segments /\ i \in 1..Len(segments[t].lines)
            /\ segments'[t].lines[i] = segments[t].lines[i]
        BY <1>2, <1>3, <1>4, <3>1 DEF new
      <3>3. segments[t].lines[i].seq <= highSeq /\ segments[t].lines[i].seq \in Nat
        BY <3>2, LineSeq
      <3>4. CASE u = s /\ j = Len(new)
        BY <1>1, <1>3, <2>1, <3>2, <3>3, <3>4, SMTT(30) DEF new
      <3>5. CASE ~(u = s /\ j = Len(new))
        <4>1. /\ u \in DOMAIN segments /\ j \in 1..Len(segments[u].lines)
              /\ segments'[u].lines[j] = segments[u].lines[j]
          BY <1>2, <1>3, <1>4, <3>5 DEF new
        <4> QED BY <2>1, <2>4, <3>2, <4>1 DEF LogInv, Ascending
      <3> QED BY <3>4, <3>5
    <2>5. Ascending'
      BY <2>4 DEF Ascending
    <2> QED BY <1>6, <1>8, <1>9, <2>3, <2>5 DEF LogInv
  <1> QED BY <1>10, <1>11

(* A write that failed leaves at most an empty segment behind.             *)
LEMMA NoLineOrdered ==
  ASSUME SpoolTypeOK, SpoolTypeOK', LogInv, NEW s \in WritableSegments, NEW f \in File,
         segments' = WithFile(s, f), f.lines = FileAt(s).lines, active' = s,
         UNCHANGED <<nextSeq, highSeq, reused>>
  PROVE  LogInv'
  <1>1. s \in Nat \ {0} /\ s <= highSeq + 1
    BY WritableType, WritableBelow
  <1>2. /\ DOMAIN segments' = DOMAIN segments \cup {s}
        /\ segments'[s] = f
        /\ \A t \in DOMAIN segments \ {s} : segments'[t].lines = segments[t].lines
    BY <1>1, WithFileAt
  <1>3. ASSUME NEW t \in DOMAIN segments', NEW i \in 1..Len(segments'[t].lines)
        PROVE  t \in DOMAIN segments /\ segments'[t].lines = segments[t].lines
    <2>1. CASE t # s
      BY <1>2, <2>1
    <2>2. CASE t = s
      <3>1. s \in DOMAIN segments
        BY <1>2, <2>2 DEF FileAt, EmptyFile
      <3> QED BY <1>2, <2>2, <3>1 DEF FileAt
    <2> QED BY <2>1, <2>2
  <1>4. NextBehind'
    BY DEF LogInv, NextBehind
  <1>5. LinesBelow'
    BY <1>1, <1>2, <1>3 DEF LogInv, LinesBelow
  <1>6. ActiveLast'
    <2> SUFFICES ASSUME ~reused, nextSeq > highSeq, NEW t \in DOMAIN segments' PROVE t <= s
      BY DEF ActiveLast
    <2>1. CASE t = s
      BY <1>1, <2>1
    <2>2. CASE t # s
      BY <1>2, <2>2, WritableLast
    <2> QED BY <2>1, <2>2
  <1>7. Ascending'
    <2> SUFFICES ASSUME ~reused, NEW t \in DOMAIN segments', NEW u \in DOMAIN segments',
                        NEW i \in 1..Len(segments'[t].lines), NEW j \in 1..Len(segments'[u].lines),
                        t < u \/ (t = u /\ i < j)
                 PROVE  segments'[t].lines[i].seq < segments'[u].lines[j].seq
      BY DEF Ascending
    <2>1. /\ t \in DOMAIN segments /\ segments'[t].lines = segments[t].lines
          /\ u \in DOMAIN segments /\ segments'[u].lines = segments[u].lines
      BY <1>3
    <2> QED BY <2>1 DEF LogInv, Ascending
  <1>8. Unmarked'
    BY <1>3 DEF LogInv, Unmarked
  <1> QED BY <1>4, <1>5, <1>6, <1>7, <1>8 DEF LogInv

LEMMA LogInit == SpoolInit => LogInv
  BY DEF SpoolInit, LogInv, NextBehind, LinesBelow, Unmarked, ActiveLast, Ascending

(* What a step of the spool can do to the lines on disk.                   *)
Lessens ==
  /\ Shrinks
  /\ UNCHANGED <<highSeq, reused>>
  /\ (nextSeq' = nextSeq /\ active' \in {0, active}) \/ (nextSeq' = 1 /\ active' = 0)

WritesLine ==
  /\ todo # <<>>
  /\ \E s \in WritableSegments, sync \in BOOLEAN :
       segments' = WithFile(s, WriteLine(s, sync)) /\ active' = s
  /\ nextSeq' \in {nextSeq, nextSeq + 1}
  /\ highSeq' = IF nextSeq > highSeq THEN nextSeq ELSE highSeq
  /\ reused' = (reused \/ nextSeq <= highSeq)

WritesNoLine ==
  /\ todo # <<>>
  /\ \E s \in WritableSegments, f \in File :
       segments' = WithFile(s, f) /\ f.lines = FileAt(s).lines /\ active' = s
  /\ UNCHANGED <<nextSeq, highSeq, reused>>

LogMove == Lessens \/ WritesLine \/ WritesNoLine

LEMMA LogMoves ==
  ASSUME SpoolTypeOK, [SpoolNext]_spoolVars
  PROVE  LogMove
  <1> USE DEF LogMove
  <1>2. ASSUME UNCHANGED <<segments, highSeq, reused>>,
               (nextSeq' = nextSeq /\ active' \in {0, active}) \/ (nextSeq' = 1 /\ active' = 0)
        PROVE  LogMove
    <2>1. Shrinks
      BY <1>2, FileNumbers DEF Shrinks
    <2> QED BY <1>2, <2>1 DEF Lessens
  <1>3. ASSUME NEW c \in Callers, AppendLine(c)
        PROVE  LogMove
    <2>1. PICK s \in WritableSegments, sync \in SyncChoices :
            segments' = WithFile(s, WriteLine(s, sync)) /\ active' = s
      BY <1>3 DEF AppendLine
    <2>2. sync \in BOOLEAN
      BY SyncChoicesType
    <2> QED BY <1>3, <2>1, <2>2 DEF AppendLine, WritesLine
  <1>4. ASSUME NEW c \in Callers, AppendSyncFails(c)
        PROVE  LogMove
    <2>1. PICK s \in WritableSegments : segments' = WithFile(s, WriteLine(s, FALSE)) /\ active' = s
      BY <1>4 DEF AppendSyncFails
    <2> QED BY <1>4, <2>1 DEF AppendSyncFails, WritesLine
  <1>5. ASSUME NEW c \in Callers, AppendWriteFails(c)
        PROVE  LogMove
    <2>1. PICK s \in WritableSegments, torn \in BOOLEAN :
            segments' = WithFile(s, [FileAt(s) EXCEPT !.garbled = @ \/ torn]) /\ active' = s
      BY <1>5 DEF AppendWriteFails
    <2> DEFINE f == [FileAt(s) EXCEPT !.garbled = @ \/ torn]
    <2>2. f \in File /\ f.lines = FileAt(s).lines
      BY FileAtType, FileGarble
    <2>3. segments' = WithFile(s, f) /\ active' = s
      BY <2>1
    <2>4. todo # <<>> /\ UNCHANGED <<nextSeq, highSeq, reused>>
      BY <1>5 DEF AppendWriteFails, spoolHist
    <2> HIDE DEF f
    <2> QED BY <2>2, <2>3, <2>4 DEF WritesNoLine
  <1>6. ASSUME NEW c \in Callers, AppendOpenFails(c)
        PROVE  LogMove
    <2>0. UNCHANGED <<nextSeq, highSeq, reused>>
      BY <1>6 DEF AppendOpenFails, spoolHist
    <2>1. CASE UNCHANGED <<segments, active, unsynced>>
      BY <1>2, <2>0, <2>1
    <2>2. CASE /\ active # 0
               /\ segments' = WithFile(active, IF unsynced THEN Synced(segments[active])
                                                          ELSE segments[active])
               /\ active' = 0
      <3>1. active \in DOMAIN segments /\ active \in Nat \ {0}
        BY <2>2 DEF SpoolTypeOK
      <3> DEFINE f == IF unsynced THEN Synced(segments[active]) ELSE segments[active]
      <3>2. f \in File /\ f.lines = segments[active].lines
        BY <3>1, FileNumbers, SyncedFile
      <3>3. segments' = WithFile(active, f)
        BY <2>2
      <3> HIDE DEF f
      <3>4. /\ DOMAIN segments' = DOMAIN segments
            /\ \A t \in DOMAIN segments : segments'[t].lines = segments[t].lines
        BY <3>1, <3>2, <3>3, WithFileAt
      <3>5. Shrinks
        BY <3>4, FileNumbers DEF Shrinks
      <3> QED BY <2>0, <2>2, <3>5 DEF Lessens
    <2> QED BY <1>6, <2>1, <2>2 DEF AppendOpenFails
  <1>7. ASSUME NEW stop, RemoveSegments(CompactedBefore(stop)),
               UNCHANGED <<managerVars, spoolHist>>
        PROVE  LogMove
    <2>1. Shrinks
      BY <1>7, FileNumbers DEF Shrinks, RemoveSegments
    <2> QED BY <1>7, <2>1 DEF Lessens, managerVars, spoolHist
  <1>8. CASE Compact
    <2>1. CASE readable
      BY <1>7, <1>8, <2>1 DEF Compact
    <2>2. CASE ~readable
      BY <1>2, <1>8, <2>2 DEF Compact, managerVars, spoolHist
    <2> QED BY <2>1, <2>2
  <1>9. CASE CompactFails
    <2>1. PICK stop \in DOMAIN segments : RemoveSegments(CompactedBefore(stop))
      BY <1>9 DEF CompactFails
    <2> QED BY <1>7, <1>9, <2>1 DEF CompactFails
  <1>10. CASE SpoolClose
    <2>1. Shrinks
      <3>1. CASE active # 0 /\ unsynced
        <4>1. segments' = [segments EXCEPT ![active] = Synced(segments[active])]
          BY <1>10, <3>1 DEF SpoolClose
        <4>2. active \in DOMAIN segments
          BY <3>1 DEF SpoolTypeOK
        <4>3. \A t \in DOMAIN segments' : t \in DOMAIN segments /\ segments'[t].lines = segments[t].lines
          BY <4>1, <4>2, FileNumbers, SyncedFile
        <4> QED BY <4>3, FileNumbers DEF Shrinks
      <3>2. CASE ~(active # 0 /\ unsynced)
        BY <1>10, <3>2, FileNumbers DEF SpoolClose, Shrinks
      <3> QED BY <3>1, <3>2
    <2> QED BY <1>10, <2>1 DEF Lessens, SpoolClose, spoolHist
  <1>11. CASE SpoolRestart
    BY <1>2, <1>11 DEF SpoolRestart, NewManager, diskVars, spoolHist
  <1>12. CASE SpoolPowerLoss
    <2>1. /\ DOMAIN segments' = DOMAIN segments
          /\ \A s \in DOMAIN segments : segments'[s] \in Survivors(segments[s])
      BY <1>12 DEF SpoolPowerLoss
    <2>2. Shrinks
      <3> SUFFICES ASSUME NEW s \in DOMAIN segments
                   PROVE  /\ Len(segments'[s].lines) <= Len(segments[s].lines)
                          /\ \A i \in 1..Len(segments'[s].lines) :
                               segments'[s].lines[i] = segments[s].lines[i]
        BY <2>1 DEF Shrinks
      <3>1. Len(segments'[s].lines) \in segments[s].synced..Len(segments[s].lines)
        BY <2>1, FileNumbers, SurvivorFile
      <3>2. \A i \in 1..Len(segments'[s].lines) : segments'[s].lines[i] = segments[s].lines[i]
        BY <2>1, FileNumbers, SurvivorFile
      <3> QED BY <3>1, <3>2, FileNumbers
    <2> QED BY <1>12, <2>2 DEF Lessens, SpoolPowerLoss, NewManager, spoolHist
  <1>13. ASSUME NEW c \in Callers,
                \/ \E pts \in Batches : AppendBegin(c, pts)
                \/ AppendReturn(c)
                \/ \E seq \in 1..highSeq : CheckpointTruncate(c, seq)
                \/ CheckpointWrite(c)
                \/ CheckpointWriteFails(c)
         PROVE  LogMove
    <2>1. UNCHANGED <<segments, managerVars, highSeq, reused>>
      BY <1>13 DEF AppendBegin, AppendReturn, CheckpointTruncate, CheckpointWrite, CheckpointWriteFails,
                   diskVars, spoolHist
    <2> QED BY <1>2, <2>1 DEF managerVars
  <1>14. ASSUME NEW seq \in 1..highSeq, CheckpointCurrent(seq) \/ CheckpointRefused(seq)
         PROVE  LogMove
    <2>1. UNCHANGED <<diskVars, managerVars, spoolHist>>
      BY <1>14 DEF CheckpointCurrent, CheckpointRefused, spoolVars
    <2> QED BY <1>2, <2>1 DEF diskVars, managerVars, spoolHist
  <1>15. CASE UNCHANGED spoolVars
    BY <1>2, <1>15 DEF spoolVars, diskVars, managerVars, spoolHist
  <1> QED
    BY <1>3, <1>4, <1>5, <1>6, <1>8, <1>9, <1>10, <1>11, <1>12, <1>13, <1>14, <1>15
       DEF SpoolNext, SpoolStep, AppendFails

LEMMA LogStep ==
  ASSUME SpoolTypeOK, LogInv, [SpoolNext]_spoolVars
  PROVE  LogInv'
  <1>1. SpoolTypeOK' /\ LogMove
    BY TypeStep, LogMoves
  <1>2. CASE Lessens
    BY <1>1, <1>2, ShrinksOrdered DEF Lessens
  <1>3. CASE WritesLine
    BY <1>1, <1>3, LineOrdered DEF WritesLine
  <1>4. CASE WritesNoLine
    BY <1>1, <1>4, NoLineOrdered DEF WritesNoLine
  <1> QED BY <1>1, <1>2, <1>3, <1>4 DEF LogMove

(* What is in the spool after a step was there before, or is the one       *)
(* record that was written.                                                *)
LEMMA SpooledStep ==
  ASSUME SpoolTypeOK, [SpoolNext]_spoolVars, NEW r \in Spooled'
  PROVE  \/ r \in Spooled
         \/ r = NewRecord(nextSeq, Head(todo)) /\ WritesLine
  <1>0. SpoolTypeOK' /\ LogMove
    BY TypeStep, LogMoves
  <1>1. PICK t \in DOMAIN segments' : \E i \in DOMAIN segments'[t].lines : r = segments'[t].lines[i]
    BY DEF Spooled, LinesOf
  <1>2. segments'[t].lines \in Seq(SpoolRecord)
    BY <1>0, <1>1 DEF SpoolTypeOK, File
  <1>3. PICK i \in 1..Len(segments'[t].lines) : r = segments'[t].lines[i]
    BY <1>1, <1>2
  <1>4. ASSUME t \in DOMAIN segments, \E j \in DOMAIN segments[t].lines : r = segments[t].lines[j]
        PROVE  r \in Spooled
    BY <1>4 DEF Spooled, LinesOf
  <1>5. CASE Lessens
    <2>1. t \in DOMAIN segments /\ Len(segments'[t].lines) <= Len(segments[t].lines)
          /\ segments'[t].lines[i] = segments[t].lines[i]
      BY <1>1, <1>3, <1>5 DEF Lessens, Shrinks
    <2>2. Len(segments[t].lines) \in Nat /\ segments[t].lines \in Seq(SpoolRecord)
          /\ Len(segments'[t].lines) \in Nat
      BY <1>2, <2>1, FileNumbers
    <2>3. i \in DOMAIN segments[t].lines
      BY <1>3, <2>1, <2>2
    <2> QED BY <1>3, <1>4, <2>1, <2>3
  <1>6. CASE WritesLine
    <2>1. PICK s \in WritableSegments, sync \in BOOLEAN : segments' = WithFile(s, WriteLine(s, sync))
      BY <1>6 DEF WritesLine
    <2> DEFINE new == NewRecord(nextSeq, Head(todo))
               old == FileAt(s).lines
    <2>2. /\ WriteLine(s, sync) \in File /\ WriteLine(s, sync).lines = Append(old, new)
          /\ old \in Seq(SpoolRecord) /\ s \in Nat \ {0}
      BY <1>6, WriteLineType, FileAtType, WritableType DEF File, WritesLine
    <2>3. /\ segments'[s] = WriteLine(s, sync)
          /\ \A u \in DOMAIN segments \ {s} : segments'[u].lines = segments[u].lines
          /\ DOMAIN segments' = DOMAIN segments \cup {s}
      BY <2>1, <2>2, WithFileAt
    <2>4. /\ s \in DOMAIN segments => old = segments[s].lines
          /\ s \notin DOMAIN segments => old = <<>>
      BY DEF FileAt, EmptyFile
    <2> HIDE DEF new, old
    <2>5. CASE t # s
      BY <1>3, <1>4, <2>3, <2>5, FileNumbers
    <2>6. CASE t = s
      <3>1. r = Append(old, new)[i] /\ i \in 1..(Len(old) + 1) /\ Len(old) \in Nat
        BY <1>3, <2>2, <2>3, <2>6
      <3>2. CASE i = Len(old) + 1
        BY <1>6, <2>2, <3>1, <3>2 DEF new
      <3>3. CASE i # Len(old) + 1
        <4>1. i \in 1..Len(old) /\ r = old[i] /\ i \in DOMAIN old
          BY <2>2, <3>1, <3>3
        <4>2. s \in DOMAIN segments
          BY <2>4, <4>1
        <4> QED BY <1>4, <2>4, <2>6, <4>1, <4>2
      <3> QED BY <3>2, <3>3
    <2> QED BY <2>5, <2>6
  <1>7. CASE WritesNoLine
    <2>1. PICK s \in WritableSegments, f \in File :
            segments' = WithFile(s, f) /\ f.lines = FileAt(s).lines
      BY <1>7 DEF WritesNoLine
    <2>2. s \in Nat \ {0}
      BY WritableType
    <2>3. /\ segments'[s] = f
          /\ \A u \in DOMAIN segments \ {s} : segments'[u].lines = segments[u].lines
          /\ DOMAIN segments' = DOMAIN segments \cup {s}
      BY <2>1, <2>2, WithFileAt
    <2>4. CASE t # s
      BY <1>3, <1>4, <2>3, <2>4, FileNumbers
    <2>5. CASE t = s
      <3>1. s \in DOMAIN segments
        BY <1>3, <2>1, <2>3, <2>5 DEF FileAt, EmptyFile
      <3>2. segments'[t].lines = segments[t].lines
        BY <2>1, <2>3, <2>5, <3>1 DEF FileAt
      <3> QED BY <1>1, <1>4, <2>5, <3>1, <3>2
    <2> QED BY <2>4, <2>5
  <1> QED BY <1>0, <1>5, <1>6, <1>7 DEF LogMove

LEMMA AscendingReplays ==
  ASSUME SpoolTypeOK, LogInv
  PROVE  ReplayAscending
  <1>1. \A s \in DOMAIN segments : DOMAIN segments[s].lines = 1..Len(segments[s].lines)
    BY FileNumbers
  <1> QED BY <1>1 DEF LogInv, Ascending, ReplayAscending

(* The segments that ReplayAfterCheckpoint reads one after the other give  *)
(* records in ascending order, whatever was rolled, compacted, refused or  *)
(* torn, for as long as no restart and no failed sync made the manager     *)
(* hand out a number twice.                                                *)
THEOREM SpoolReplaysAscending == SpoolSpec => []ReplayAscending
  <1>1. SpoolTypeOK /\ LogInv => ReplayAscending
    BY AscendingReplays
  <1>2. SpoolInit => LogInv
    BY LogInit
  <1>3. SpoolTypeOK /\ LogInv /\ [SpoolNext]_spoolVars => LogInv'
    BY LogStep
  <1> QED BY <1>1, <1>2, <1>3, SpoolTypeCorrect, PTL DEF SpoolSpec

-----------------------------------------------------------------------------
(* What is synced.                                                         *)

(* Rolling over syncs the segment that is left.                            *)
LEMMA RolledSynced ==
  ASSUME SpoolTypeOK, SyncInv, restarts = 0, NEW s \in Nat \ {0}, NEW f, segments' = WithFile(s, f),
         NEW t \in DOMAIN segments \ {s}
  PROVE  segments'[t].synced = Len(segments'[t].lines)
  <1>1. segments'[t] = IF t = active /\ unsynced THEN Synced(segments[t]) ELSE segments[t]
    BY DEF WithFile
  <1>2. CASE t = active /\ unsynced
    BY <1>1, <1>2, FileNumbers, SyncedFile
  <1>3. CASE ~(t = active /\ unsynced)
    BY <1>1, <1>3 DEF SyncInv
  <1> QED BY <1>2, <1>3

(* The segment s is stored as f and is active next, with f synced unless   *)
(* it is known to be unsynced.                                             *)
LEMMA StoredSynced ==
  ASSUME SpoolTypeOK, SyncInv, NEW s \in Nat \ {0}, NEW f, segments' = WithFile(s, f),
         UNCHANGED restarts,
         restarts = 0 => (active' = s /\ unsynced') \/ f.synced = Len(f.lines)
  PROVE  SyncInv'
  <1> SUFFICES ASSUME restarts = 0, NEW t \in DOMAIN segments', t # active' \/ ~unsynced'
               PROVE  segments'[t].synced = Len(segments'[t].lines)
    BY DEF SyncInv
  <1>1. DOMAIN segments' = DOMAIN segments \cup {s} /\ segments'[s] = f
    BY DEF WithFile
  <1>2. CASE t = s
    BY <1>1, <1>2
  <1>3. CASE t # s
    BY <1>1, <1>3, RolledSynced
  <1> QED BY <1>2, <1>3

LEMMA SyncStep ==
  ASSUME SpoolTypeOK, SyncInv, [SpoolNext]_spoolVars
  PROVE  SyncInv'
  <1>1. ASSUME UNCHANGED <<segments, active, unsynced, restarts>>
        PROVE  SyncInv'
    BY <1>1 DEF SyncInv
  <1>2. ASSUME NEW c \in Callers, AppendLine(c)
        PROVE  SyncInv'
    <2>1. PICK s \in WritableSegments, sync \in SyncChoices :
            segments' = WithFile(s, WriteLine(s, sync)) /\ active' = s /\ unsynced' = ~sync
      BY <1>2 DEF AppendLine
    <2>2. s \in Nat \ {0} /\ sync \in BOOLEAN /\ todo # <<>>
      BY <1>2, WritableType, SyncChoicesType DEF AppendLine
    <2>3. sync => WriteLine(s, sync).synced = Len(WriteLine(s, sync).lines)
      BY DEF WriteLine
    <2>4. UNCHANGED restarts
      BY <1>2 DEF AppendLine, crashVars
    <2> QED BY <2>1, <2>2, <2>3, <2>4, StoredSynced
  <1>3. ASSUME NEW c \in Callers, AppendSyncFails(c)
        PROVE  SyncInv'
    <2>1. PICK s \in WritableSegments :
            segments' = WithFile(s, WriteLine(s, FALSE)) /\ active' = s /\ unsynced' = TRUE
      BY <1>3 DEF AppendSyncFails
    <2>2. s \in Nat \ {0} /\ UNCHANGED restarts
      BY <1>3, WritableType DEF AppendSyncFails, crashVars
    <2> QED BY <2>1, <2>2, StoredSynced
  <1>4. ASSUME NEW c \in Callers, AppendWriteFails(c)
        PROVE  SyncInv'
    <2>1. PICK s \in WritableSegments, torn \in BOOLEAN :
            /\ segments' = WithFile(s, [FileAt(s) EXCEPT !.garbled = @ \/ torn])
            /\ active' = s
            /\ unsynced' = (s = active /\ unsynced)
      BY <1>4 DEF AppendWriteFails
    <2> DEFINE f == [FileAt(s) EXCEPT !.garbled = @ \/ torn]
    <2>2. f.lines = FileAt(s).lines /\ f.synced = FileAt(s).synced
      BY FileAtType, FileGarble
    <2>3. s \in Nat \ {0} /\ UNCHANGED restarts
      BY <1>4, WritableType DEF AppendWriteFails, crashVars
    <2>4. ASSUME restarts = 0, ~(s = active /\ unsynced)
          PROVE  f.synced = Len(f.lines)
      BY <2>2, <2>4 DEF SyncInv, FileAt, EmptyFile
    <2>5. restarts = 0 => (active' = s /\ unsynced') \/ f.synced = Len(f.lines)
      <3>1. CASE s = active /\ unsynced
        BY <2>1, <3>1, Zenon
      <3>2. CASE ~(s = active /\ unsynced)
        BY <2>4, <3>2
      <3> QED BY <3>1, <3>2
    <2>6. segments' = WithFile(s, f)
      BY <2>1
    <2> HIDE DEF f
    <2> QED BY <2>3, <2>5, <2>6, StoredSynced
  <1>5. ASSUME NEW c \in Callers, AppendOpenFails(c)
        PROVE  SyncInv'
    <2>0. UNCHANGED restarts
      BY <1>5 DEF AppendOpenFails, crashVars
    <2>1. CASE UNCHANGED <<segments, active, unsynced>>
      BY <1>1, <2>0, <2>1
    <2>2. CASE /\ active # 0
               /\ segments' = WithFile(active, IF unsynced THEN Synced(segments[active])
                                                          ELSE segments[active])
               /\ active' = 0
      <3>1. active \in DOMAIN segments /\ active \in Nat \ {0}
        BY <2>2 DEF SpoolTypeOK
      <3> DEFINE f == IF unsynced THEN Synced(segments[active]) ELSE segments[active]
      <3>2. restarts = 0 => f.synced = Len(f.lines)
        BY <3>1, FileNumbers, SyncedFile DEF SyncInv
      <3>3. segments' = WithFile(active, f)
        BY <2>2
      <3> HIDE DEF f
      <3> QED BY <2>0, <3>1, <3>2, <3>3, StoredSynced
    <2> QED BY <1>5, <2>1, <2>2 DEF AppendOpenFails
  <1>6. ASSUME NEW stop, RemoveSegments(CompactedBefore(stop)),
               UNCHANGED <<active, unsynced, restarts>>
        PROVE  SyncInv'
    BY <1>6 DEF SyncInv, RemoveSegments
  <1>7. CASE Compact
    <2>1. UNCHANGED <<active, unsynced, restarts>>
      BY <1>7 DEF Compact, managerVars, crashVars
    <2>2. CASE readable
      BY <1>6, <1>7, <2>1, <2>2 DEF Compact
    <2>3. CASE ~readable
      BY <1>1, <1>7, <2>1, <2>3 DEF Compact
    <2> QED BY <2>2, <2>3
  <1>8. CASE CompactFails
    <2>1. PICK stop \in DOMAIN segments : RemoveSegments(CompactedBefore(stop))
      BY <1>8 DEF CompactFails
    <2> QED BY <1>6, <1>8, <2>1 DEF CompactFails, managerVars, crashVars
  <1>9. CASE SpoolClose
    <2>0. UNCHANGED restarts
      BY <1>9 DEF SpoolClose, crashVars
    <2>1. CASE active # 0 /\ unsynced
      <3>1. segments' = [segments EXCEPT ![active] = Synced(segments[active])]
        BY <1>9, <2>1 DEF SpoolClose
      <3>2. active \in DOMAIN segments
        BY <2>1 DEF SpoolTypeOK
      <3>3. segments'[active].synced = Len(segments'[active].lines)
        BY <3>1, <3>2, FileNumbers, SyncedFile
      <3> QED BY <2>0, <3>1, <3>2, <3>3 DEF SyncInv
    <2>2. CASE ~(active # 0 /\ unsynced)
      <3>1. UNCHANGED segments /\ active \in {0} \cup DOMAIN segments
        BY <1>9, <2>2 DEF SpoolClose, SpoolTypeOK
      <3>2. 0 \notin DOMAIN segments
        BY DEF SpoolTypeOK
      <3> QED BY <2>0, <2>2, <3>1, <3>2 DEF SyncInv
    <2> QED BY <2>1, <2>2
  <1>10. CASE SpoolRestart \/ SpoolPowerLoss
    <2>1. restarts' # 0
      BY <1>10 DEF SpoolRestart, SpoolPowerLoss, SpoolTypeOK
    <2> QED BY <2>1 DEF SyncInv
  <1>11. ASSUME NEW c \in Callers,
                \/ \E pts \in Batches : AppendBegin(c, pts)
                \/ AppendReturn(c)
                \/ \E seq \in 1..highSeq : CheckpointTruncate(c, seq)
                \/ CheckpointWrite(c)
                \/ CheckpointWriteFails(c)
         PROVE  SyncInv'
    <2>1. UNCHANGED <<segments, managerVars, crashVars>>
      BY <1>11 DEF AppendBegin, AppendReturn, CheckpointTruncate, CheckpointWrite, CheckpointWriteFails,
                   diskVars
    <2> QED BY <1>1, <2>1 DEF managerVars, crashVars
  <1>12. ASSUME NEW seq \in 1..highSeq, CheckpointCurrent(seq) \/ CheckpointRefused(seq)
         PROVE  SyncInv'
    <2>1. UNCHANGED <<diskVars, managerVars, crashVars>>
      BY <1>12 DEF CheckpointCurrent, CheckpointRefused, spoolVars
    <2> QED BY <1>1, <2>1 DEF diskVars, managerVars, crashVars
  <1>13. CASE UNCHANGED spoolVars
    BY <1>1, <1>13 DEF spoolVars, diskVars, managerVars, crashVars
  <1> QED
    BY <1>2, <1>3, <1>4, <1>5, <1>7, <1>8, <1>9, <1>10, <1>11, <1>12, <1>13
       DEF SpoolNext, SpoolStep, AppendFails

(* In every fsync mode, closeActiveLocked leaves a segment fully synced:   *)
(* until the process restarts, a power loss costs lines of the active      *)
(* segment only.                                                           *)
THEOREM SpoolSealsSynced == SpoolSpec => []SealedSegmentsSynced
  <1>1. SyncInv => SealedSegmentsSynced
    BY DEF SyncInv, SealedSegmentsSynced
  <1>2. SpoolInit => SyncInv
    BY DEF SpoolInit, SyncInv
  <1>3. SpoolTypeOK /\ SyncInv /\ [SpoolNext]_spoolVars => SyncInv'
    BY SyncStep
  <1> QED BY <1>1, <1>2, <1>3, SpoolTypeCorrect, PTL DEF SpoolSpec

(***************************************************************************)
(* The buffer.                                                             *)
(***************************************************************************)

-----------------------------------------------------------------------------
(* Induction over positions.  The statements are about sets and functions  *)
(* rather than operators, so that they can be cited with any of them.      *)

(* A smallest position in a set of positions.                              *)
LEMMA FirstOf ==
  ASSUME NEW S \in SUBSET Nat, S # {}
  PROVE  \E i \in S : \A j \in S : ~(j < i)
  <1> DEFINE Less == {ss \in Nat \X Nat : ss[1] < ss[2]}
  <1>1. IsWellFoundedOn(Less, Nat)
    BY NatLessThanWellFounded, Zenon DEF OpToRel
  <1>2. \A i, j \in Nat : j < i => <<j, i>> \in Less
    OBVIOUS
  <1> HIDE DEF Less
  <1>3. \E i \in S : \A j \in S : ~(<<j, i>> \in Less)
    BY <1>1, WFMin, Zenon
  <1> QED BY <1>2, <1>3

(* A set that has 0 and with each position the next one has all of them.   *)
LEMMA Climb ==
  ASSUME NEW n \in Nat, NEW G,
         0 \in G,
         \A i \in 1..n : i - 1 \in G => i \in G
  PROVE  \A i \in 0..n : i \in G
  <1> SUFFICES ASSUME (0..n) \ G # {}
               PROVE  FALSE
    OBVIOUS
  <1>1. PICK i \in (0..n) \ G : \A j \in (0..n) \ G : ~(j < i)
    <2>1. (0..n) \ G \in SUBSET Nat
      OBVIOUS
    <2> QED BY <2>1, FirstOf
  <1>2. i \in 1..n
    BY <1>1
  <1>3. i - 1 \in G
    BY <1>1, <1>2
  <1> QED BY <1>1, <1>2, <1>3

(* A recursive definition whose steps stay in V has a solution.            *)
Follows(f, n, b, step) == f[0] = b /\ \A i \in 1..n : f[i] = step[i][f[i - 1]]

LEMMA Iterates ==
  ASSUME NEW n \in Nat, NEW V, NEW b \in V, NEW step \in [1..n -> [V -> V]]
  PROVE  \E f \in [0..n -> V] : Follows(f, n, b, step)
  <1> DEFINE G == {m \in 0..n : \E f \in [0..m -> V] : Follows(f, m, b, step)}
  <1>1. 0 \in G
    <2>1. [i \in 0..0 |-> b] \in [0..0 -> V] /\ Follows([i \in 0..0 |-> b], 0, b, step)
      BY DEF Follows
    <2> QED BY <2>1
  <1>2. ASSUME NEW m \in 1..n, m - 1 \in G
        PROVE  m \in G
    <2>1. PICK f \in [0..(m - 1) -> V] : Follows(f, m - 1, b, step)
      BY <1>2
    <2> DEFINE g == [i \in 0..m |-> IF i = m THEN step[m][f[m - 1]] ELSE f[i]]
    <2>2. f[m - 1] \in V
      OBVIOUS
    <2>3. g \in [0..m -> V]
      BY <2>2
    <2>4. g[0] = b
      BY <2>1 DEF Follows
    <2>5. ASSUME NEW i \in 1..m
          PROVE  g[i] = step[i][g[i - 1]]
      <3>1. CASE i = m
        BY <3>1
      <3>2. CASE i # m
        <4>1. i \in 1..(m - 1)
          BY <3>2
        <4>2. f[i] = step[i][f[i - 1]]
          BY <2>1, <4>1 DEF Follows
        <4> QED BY <3>2, <4>1, <4>2
      <3> QED BY <3>1, <3>2
    <2> HIDE DEF g
    <2>6. Follows(g, m, b, step)
      BY <2>4, <2>5 DEF Follows
    <2> QED BY <2>3, <2>6
  <1> HIDE DEF G
  <1>3. \A i \in 0..n : i \in G
    BY <1>1, <1>2, Climb, Zenon
  <1> QED BY <1>3 DEF G

-----------------------------------------------------------------------------
(* Sequences of records.                                                   *)

(* Concatenation of records is associative.                                *)
LEMMA Regroup ==
  \A s, t, u \in Seq(SpoolRecord) : (s \o t) \o u = s \o (t \o u)
  BY ConcatAssociative

(* A queue is what is cut off its front followed by the rest.              *)
LEMMA CutAt ==
  ASSUME NEW q \in Seq(SpoolRecord), NEW n \in 0..Len(q)
  PROVE  SubSeq(q, 1, n) \o SubSeq(q, n + 1, Len(q)) = q
  <1>1. Len(q) \in Nat
    OBVIOUS
  <1>2. 1 \in 1..Len(q) + 1 /\ n \in 1 - 1..Len(q) /\ Len(q) \in n..Len(q)
    BY <1>1
  <1>3. SubSeq(q, 1, n) \o SubSeq(q, n + 1, Len(q)) = SubSeq(q, 1, Len(q))
    BY <1>2, ConcatAdjacentSubSeq, Zenon
  <1>4. SubSeq(q, 1, Len(q)) = q
    BY SubSeqFull
  <1> QED BY <1>3, <1>4

(* Filtering a batch marks records, it drops, renumbers and reorders none. *)
LEMMA FilterKeepsLength ==
  ASSUME NEW recs \in Seq(SpoolRecord)
  PROVE  /\ FilterNearDuplicates(recs).out \in Seq(SpoolRecord)
         /\ Len(FilterNearDuplicates(recs).out) = Len(recs)
         /\ \A i \in 1..Len(recs) :
              /\ FilterNearDuplicates(recs).out[i].seq = recs[i].seq
              /\ FilterNearDuplicates(recs).out[i].point = recs[i].point
  <1> DEFINE Out(last) == [i \in 1..Len(recs) |->
                             [recs[i] EXCEPT !.checkpointOnly =
                                @ \/ IsNearDuplicate(recs[i], last[i - 1])]]
  <1>1. PICK last : FilterNearDuplicates(recs).out = Out(last)
    BY DEF FilterNearDuplicates
  <1>2. ASSUME NEW i \in 1..Len(recs)
        PROVE  /\ Out(last)[i] \in SpoolRecord
               /\ Out(last)[i].seq = recs[i].seq /\ Out(last)[i].point = recs[i].point
    <2>1. recs[i] \in SpoolRecord
      OBVIOUS
    <2>2. ASSUME NEW b \in BOOLEAN
          PROVE  /\ [recs[i] EXCEPT !.checkpointOnly = @ \/ b] \in SpoolRecord
                 /\ [recs[i] EXCEPT !.checkpointOnly = @ \/ b].seq = recs[i].seq
                 /\ [recs[i] EXCEPT !.checkpointOnly = @ \/ b].point = recs[i].point
      BY <2>1 DEF SpoolRecord
    <2>3. IsNearDuplicate(recs[i], last[i - 1]) \in BOOLEAN
      BY DEF IsNearDuplicate
    <2> QED BY <2>2, <2>3
  <1>3. Out(last) \in [1..Len(recs) -> SpoolRecord]
    BY <1>2
  <1>4. Len(recs) \in Nat
    OBVIOUS
  <1> HIDE DEF Out
  <1>5. Out(last) \in Seq(SpoolRecord) /\ Len(Out(last)) = Len(recs)
    BY <1>3, <1>4
  <1> QED BY <1>1, <1>2, <1>5

-----------------------------------------------------------------------------
(* The bytes of a batch: what the loop has added up after each record.     *)
LEMMA BytesUnfold ==
  ASSUME NEW recs \in Seq(SpoolRecord)
  PROVE  \E sum \in [0..Len(recs) -> Nat] :
           /\ BytesOf(recs) = sum[Len(recs)]
           /\ sum[0] = 0
           /\ \A i \in 1..Len(recs) : sum[i] = sum[i - 1] + RecordBytes(recs[i])
  <1> DEFINE n == Len(recs)
             IsSum(f) == f = [i \in 0..n |-> IF i = 0 THEN 0
                                            ELSE f[i - 1] + RecordBytes(recs[i])]
             step == [i \in 1..n |-> [v \in Nat |-> v + RecordBytes(recs[i])]]
             sum == CHOOSE f : IsSum(f)
  <1>1. n \in Nat /\ \A i \in 1..n : RecordBytes(recs[i]) \in Nat
    <2>1. ASSUME NEW i \in 1..n PROVE RecordBytes(recs[i]) \in Nat
      <3>1. recs[i] \in SpoolRecord
        OBVIOUS
      <3>2. recs[i].point \in Points
        BY <3>1 DEF SpoolRecord
      <3> QED BY <3>2, IngestAssumption DEF RecordBytes
    <2> QED BY <2>1
  <1>2. \E f : IsSum(f)
    <2>1. step \in [1..n -> [Nat -> Nat]]
      BY <1>1
    <2> HIDE DEF step
    <2>2. PICK f \in [0..n -> Nat] : Follows(f, n, 0, step)
      BY <1>1, <2>1, Iterates
    <2>3. ASSUME NEW i \in 1..n
          PROVE  f[i] = f[i - 1] + RecordBytes(recs[i])
      <3>1. f[i - 1] \in Nat
        <4> HIDE DEF n
        <4> QED BY <1>1, <2>2
      <3>2. f[i] = step[i][f[i - 1]]
        BY <2>2 DEF Follows
      <3> QED BY <3>1, <3>2 DEF step
    <2>4. f[0] = 0
      BY <2>2 DEF Follows
    <2> HIDE DEF n
    <2>5. IsSum(f)
      BY <1>1, <2>2, <2>3, <2>4
    <2> QED BY <2>5
  <1>3. IsSum(sum)
    BY <1>2, Zenon
  <1>4. BytesOf(recs) = sum[n]
    BY Zenon DEF BytesOf
  <1> HIDE DEF sum, n
  <1>5. sum[0] = 0 /\ \A i \in 1..n : sum[i] = sum[i - 1] + RecordBytes(recs[i])
    BY <1>1, <1>3
  <1>6. sum \in [0..n -> Nat]
    <2> DEFINE G == {i \in 0..n : sum[i] \in Nat}
    <2>1. 0 \in G
      BY <1>1, <1>5
    <2>2. \A i \in 1..n : i - 1 \in G => i \in G
      BY <1>1, <1>5
    <2> HIDE DEF G
    <2>3. \A i \in 0..n : i \in G
      BY <1>1, <2>1, <2>2, Climb, Zenon
    <2>4. \A i \in 0..n : sum[i] \in Nat
      BY <2>3 DEF G
    <2> QED BY <1>3, <2>4
  <1> HIDE DEF IsSum
  <1> QED BY <1>4, <1>5, <1>6 DEF n

(* Bytes add up over concatenation.                                        *)
LEMMA BytesConcat ==
  ASSUME NEW s \in Seq(SpoolRecord), NEW t \in Seq(SpoolRecord)
  PROVE  /\ BytesOf(s) \in Nat /\ BytesOf(t) \in Nat
         /\ BytesOf(s \o t) = BytesOf(s) + BytesOf(t)
  <1> DEFINE m == Len(s)
             n == Len(t)
  <1>0. m \in Nat /\ n \in Nat
    OBVIOUS
  <1>1. /\ s \o t \in Seq(SpoolRecord) /\ Len(s \o t) = m + n
        /\ \A i \in 1..m : (s \o t)[i] = s[i]
        /\ \A i \in 1..n : (s \o t)[m + i] = t[i]
    OBVIOUS
  <1> HIDE DEF m, n
  <1>2. PICK a \in [0..m -> Nat] :
          /\ BytesOf(s) = a[m] /\ a[0] = 0
          /\ \A i \in 1..m : a[i] = a[i - 1] + RecordBytes(s[i])
    BY BytesUnfold DEF m
  <1>3. PICK b \in [0..n -> Nat] :
          /\ BytesOf(t) = b[n] /\ b[0] = 0
          /\ \A i \in 1..n : b[i] = b[i - 1] + RecordBytes(t[i])
    BY BytesUnfold DEF n
  <1>4. PICK c \in [0..(m + n) -> Nat] :
          /\ BytesOf(s \o t) = c[m + n] /\ c[0] = 0
          /\ \A i \in 1..(m + n) : c[i] = c[i - 1] + RecordBytes((s \o t)[i])
    <2>1. Len(s \o t) = m + n /\ s \o t \in Seq(SpoolRecord)
      BY <1>1
    <2> QED BY <2>1, BytesUnfold
  <1>5. \A i \in 0..m : c[i] = a[i]
    <2> DEFINE G == {i \in 0..m : c[i] = a[i]}
    <2>1. 0 \in G
      BY <1>0, <1>2, <1>4
    <2>2. ASSUME NEW i \in 1..m, i - 1 \in G PROVE i \in G
      <3>1. i \in 1..(m + n)
        BY <1>0
      <3>2. c[i] = c[i - 1] + RecordBytes(s[i])
        BY <1>1, <1>4, <3>1
      <3> QED BY <1>0, <1>2, <2>2, <3>2
    <2> HIDE DEF G
    <2>3. \A i \in 0..m : i \in G
      BY <1>0, <2>1, <2>2, Climb, Zenon
    <2> QED BY <2>3 DEF G
  <1>6. \A i \in 0..n : c[m + i] = a[m] + b[i]
    <2> DEFINE G == {i \in 0..n : c[m + i] = a[m] + b[i]}
    <2>1. 0 \in G
      BY <1>0, <1>2, <1>3, <1>5
    <2>2. ASSUME NEW i \in 1..n, i - 1 \in G PROVE i \in G
      <3>1. m + i \in 1..(m + n) /\ (m + i) - 1 = m + (i - 1)
        BY <1>0
      <3>2. c[m + i] = c[m + (i - 1)] + RecordBytes(t[i])
        BY <1>1, <1>4, <3>1
      <3>3. c[m + (i - 1)] = a[m] + b[i - 1]
        BY <2>2
      <3>4. b[i] = b[i - 1] + RecordBytes(t[i])
        BY <1>3
      <3>5. a[m] \in Nat /\ b[i - 1] \in Nat /\ b[i] \in Nat
        BY <1>0
      <3>6. RecordBytes(t[i]) \in Nat
        <4>1. t[i] \in SpoolRecord
          BY DEF n
        <4> QED BY <4>1, IngestAssumption DEF RecordBytes, SpoolRecord
      <3> QED BY <3>2, <3>3, <3>4, <3>5, <3>6
    <2> HIDE DEF G
    <2>3. \A i \in 0..n : i \in G
      BY <1>0, <2>1, <2>2, Climb, Zenon
    <2> QED BY <2>3 DEF G
  <1> QED BY <1>0, <1>2, <1>3, <1>4, <1>6

-----------------------------------------------------------------------------
(* The buffer looks a point up by the name its device has.                 *)
LEMMA NameTyped ==
  ASSUME NEW p \in Points
  PROVE  DeviceName(p) \in Names
  BY IngestAssumption DEF DeviceName, Names

(* The near-duplicate filter, step by step: last[i] is what it takes for   *)
(* the last point of each device name after i records.                     *)
LastPoints == [Names -> Points \cup {NoPoint}]

FilterFrom(recs, last) ==
  [i \in 1..Len(recs) |->
     [recs[i] EXCEPT !.checkpointOnly = @ \/ IsNearDuplicate(recs[i], last[i - 1])]]

After(r, last) ==
  IF IsNearDuplicate(r, last) THEN last ELSE [last EXCEPT ![DeviceName(r.point)] = r.point]

LEMMA FilterUnfold ==
  ASSUME NEW recs \in Seq(SpoolRecord), lastByDevice \in LastPoints
  PROVE  \E last \in [0..Len(recs) -> LastPoints] :
           /\ last[0] = lastByDevice
           /\ \A i \in 1..Len(recs) : last[i] = After(recs[i], last[i - 1])
           /\ FilterNearDuplicates(recs) = [out  |-> FilterFrom(recs, last),
                                            last |-> last[Len(recs)]]
  <1> DEFINE n == Len(recs)
             IsLast(f) == f = [i \in 0..n |->
                                 IF i = 0 THEN lastByDevice ELSE After(recs[i], f[i - 1])]
             step == [i \in 1..n |-> [v \in LastPoints |-> After(recs[i], v)]]
             last == CHOOSE f : IsLast(f)
  <1>1. n \in Nat
    OBVIOUS
  <1>2. ASSUME NEW i \in 1..n, NEW v \in LastPoints
        PROVE  After(recs[i], v) \in LastPoints
    <2>1. recs[i] \in SpoolRecord
      OBVIOUS
    <2>2. recs[i].point \in Points
      BY <2>1 DEF SpoolRecord
    <2> QED BY <2>2 DEF After, LastPoints
  <1>3. \E f : IsLast(f)
    <2>1. step \in [1..n -> [LastPoints -> LastPoints]]
      BY <1>2
    <2> HIDE DEF step
    <2>2. PICK f \in [0..n -> LastPoints] : Follows(f, n, lastByDevice, step)
      BY <1>1, <2>1, Iterates
    <2>3. ASSUME NEW i \in 1..n
          PROVE  f[i] = After(recs[i], f[i - 1])
      <3>1. f[i - 1] \in LastPoints
        <4> HIDE DEF n
        <4> QED BY <1>1, <2>2
      <3>2. f[i] = step[i][f[i - 1]]
        BY <2>2 DEF Follows
      <3> QED BY <3>1, <3>2 DEF step
    <2>4. f[0] = lastByDevice
      BY <2>2 DEF Follows
    <2> HIDE DEF n
    <2>5. IsLast(f)
      BY <1>1, <2>2, <2>3, <2>4
    <2> QED BY <2>5
  <1>4. IsLast(last)
    BY <1>3, Zenon
  <1>5. FilterNearDuplicates(recs) = [out |-> FilterFrom(recs, last), last |-> last[n]]
    BY Zenon DEF FilterNearDuplicates, FilterFrom, After
  <1> HIDE DEF last, n
  <1>6. last[0] = lastByDevice /\ \A i \in 1..n : last[i] = After(recs[i], last[i - 1])
    BY <1>1, <1>4
  <1>7. last \in [0..n -> LastPoints]
    <2> DEFINE G == {i \in 0..n : last[i] \in LastPoints}
    <2>1. 0 \in G
      BY <1>1, <1>6
    <2>2. \A i \in 1..n : i - 1 \in G => i \in G
      BY <1>1, <1>2, <1>6
    <2> HIDE DEF G
    <2>3. \A i \in 0..n : i \in G
      BY <1>1, <2>1, <2>2, Climb, Zenon
    <2>4. \A i \in 0..n : last[i] \in LastPoints
      BY <2>3 DEF G
    <2> QED BY <1>4, <2>4
  <1> HIDE DEF IsLast
  <1> QED BY <1>5, <1>6, <1>7, Zenon DEF n

(* The record at position j is an unmarked one of point p.                 *)
Plain(s, j, p) == s[j].point = p /\ ~s[j].checkpointOnly

(* What the filter makes of records that carry no mark: the same points,   *)
(* and a record is marked only because the last point of its device's      *)
(* name, from before or earlier in the batch, stands for it.               *)
LEMMA FilterStands ==
  ASSUME NEW recs \in Seq(SpoolRecord), lastByDevice \in LastPoints,
         \A i \in DOMAIN recs : ~recs[i].checkpointOnly
  PROVE  LET out  == FilterNearDuplicates(recs).out
             last == FilterNearDuplicates(recs).last
         IN  /\ last \in LastPoints
             /\ out \in Seq(SpoolRecord) /\ Len(out) = Len(recs)
             /\ \A i \in 1..Len(recs) : out[i].point = recs[i].point /\ out[i].seq = recs[i].seq
             /\ \A i \in 1..Len(recs) : out[i].checkpointOnly =>
                  \E q \in Points :
                    /\ <<recs[i].point, q>> \in NearPairs
                    /\ \/ \E d \in Names : lastByDevice[d] = q
                       \/ \E j \in 1..i : Plain(out, j, q)
             /\ \A d \in Names :
                  \/ last[d] = lastByDevice[d]
                  \/ \E j \in 1..Len(recs) : Plain(out, j, last[d])
  <1> DEFINE n == Len(recs)
             Out == FilterNearDuplicates(recs).out
  <1>1. PICK last \in [0..n -> LastPoints] :
          /\ last[0] = lastByDevice
          /\ \A i \in 1..n : last[i] = After(recs[i], last[i - 1])
          /\ FilterNearDuplicates(recs) = [out |-> FilterFrom(recs, last), last |-> last[n]]
    BY FilterUnfold
  <1>2. Out = FilterFrom(recs, last) /\ FilterNearDuplicates(recs).last = last[n]
    BY <1>1
  <1>3. Out \in Seq(SpoolRecord) /\ Len(Out) = n /\ n \in Nat
    BY FilterKeepsLength
  <1> HIDE DEF Out
  <1>4. ASSUME NEW i \in 1..n
        PROVE  /\ recs[i] \in SpoolRecord /\ recs[i].point \in Points
               /\ Out[i].point = recs[i].point /\ Out[i].seq = recs[i].seq
               /\ Out[i].checkpointOnly <=> IsNearDuplicate(recs[i], last[i - 1])
               /\ last[i - 1] \in LastPoints
               /\ last[i] = After(recs[i], last[i - 1])
    <2>1. recs[i] \in SpoolRecord /\ ~recs[i].checkpointOnly
      OBVIOUS
    <2>2. Out[i] = [recs[i] EXCEPT !.checkpointOnly =
                      @ \/ IsNearDuplicate(recs[i], last[i - 1])]
      BY <1>2 DEF FilterFrom
    <2>3. Out[i].point = recs[i].point /\ Out[i].seq = recs[i].seq
      BY <2>1, <2>2 DEF SpoolRecord
    <2>4. Out[i].checkpointOnly <=> IsNearDuplicate(recs[i], last[i - 1])
      BY <2>1, <2>2 DEF SpoolRecord, IsNearDuplicate
    <2>5. last[i - 1] \in LastPoints
      <3> HIDE DEF n
      <3> QED BY <1>3
    <2> QED BY <1>1, <2>1, <2>3, <2>4, <2>5 DEF SpoolRecord
  <1> HIDE DEF n
  <1> DEFINE Known(i, d) == \/ last[i][d] = lastByDevice[d]
                            \/ \E j \in 1..i : Plain(Out, j, last[i][d])
             G == {i \in 0..n : \A d \in Names : Known(i, d)}
  <1>5. 0 \in G
    BY <1>1, <1>3
  <1>6. ASSUME NEW i \in 1..n, i - 1 \in G
        PROVE  i \in G
    <2>1. CASE Out[i].checkpointOnly
      <3>1. last[i] = last[i - 1]
        BY <1>4, <2>1 DEF After
      <3>2. \A j \in 1..(i - 1) : j \in 1..i
        OBVIOUS
      <3> QED BY <1>3, <1>6, <3>1, <3>2
    <2>2. CASE ~Out[i].checkpointOnly
      <3>1. last[i] = [last[i - 1] EXCEPT ![DeviceName(recs[i].point)] = recs[i].point]
        BY <1>4, <2>2 DEF After
      <3>2. \A j \in 1..(i - 1) : j \in 1..i
        OBVIOUS
      <3>3. ASSUME NEW d \in Names PROVE Known(i, d)
        <4>1. CASE d = DeviceName(recs[i].point)
          <5>1. last[i][d] = recs[i].point
            BY <1>4, <3>1, <4>1 DEF LastPoints
          <5>2. Plain(Out, i, last[i][d]) /\ i \in 1..i
            BY <1>4, <2>2, <5>1 DEF Plain
          <5> QED BY <5>2
        <4>2. CASE d # DeviceName(recs[i].point)
          <5>1. last[i][d] = last[i - 1][d]
            BY <1>4, <3>1, <4>2 DEF LastPoints
          <5>2. Known(i - 1, d)
            BY <1>6
          <5> QED BY <3>2, <5>1, <5>2
        <4> QED BY <4>1, <4>2
      <3> HIDE DEF Known
      <3> QED BY <1>3, <3>3
    <2> QED BY <2>1, <2>2
  <1> HIDE DEF G
  <1>7. \A i \in 0..n : i \in G
    BY <1>3, <1>5, <1>6, Climb, Zenon
  <1>8. ASSUME NEW i \in 1..n, Out[i].checkpointOnly
        PROVE  \E q \in Points :
                 /\ <<recs[i].point, q>> \in NearPairs
                 /\ \/ \E d \in Names : lastByDevice[d] = q
                    \/ \E j \in 1..i : Plain(Out, j, q)
    <2> DEFINE d == DeviceName(recs[i].point)
               q == last[i - 1][d]
    <2>1. d \in Names
      BY <1>4, NameTyped
    <2>2. <<recs[i].point, q>> \in NearPairs
      BY <1>4, <1>8 DEF IsNearDuplicate
    <2>3. q \in Points
      BY <2>2, IngestAssumption
    <2>4. i - 1 \in 0..n /\ \A j \in 1..(i - 1) : j \in 1..i
      BY <1>3
    <2>5. Known(i - 1, d)
      BY <1>7, <2>1, <2>4 DEF G
    <2> HIDE DEF d
    <2>6. \/ \E e \in Names : lastByDevice[e] = q
          \/ \E j \in 1..i : Plain(Out, j, q)
      BY <2>1, <2>4, <2>5
    <2> QED BY <2>2, <2>3, <2>6
  <1>9. \A d \in Names : Known(n, d)
    BY <1>3, <1>7 DEF G
  <1>10. last[n] \in LastPoints
    BY <1>1, <1>3
  <1> QED BY <1>2, <1>3, <1>4, <1>8, <1>9, <1>10 DEF Out, n

-----------------------------------------------------------------------------
(* The inductive invariant: the types of the sequences, that the points    *)
(* counter (which Enqueue's limit looks at) is the length of the queue,    *)
(* that a batch has at most FlushBatchSize records, and both properties.   *)
BufferInv ==
  /\ queue \in Seq(SpoolRecord)
  /\ batch \in Seq(SpoolRecord)
  /\ accepted \in Seq(SpoolRecord)
  /\ settled \in Seq(SpoolRecord)
  /\ totalPoints = Len(queue)
  /\ Len(batch) <= FlushBatchSize
  /\ FifoAcrossRequeue
  /\ OvershootBounded

LEMMA FifoInvInit == FifoInit => BufferInv
  BY BufferAssumption
     DEF FifoInit, BufferInit, BufferInv, FifoAcrossRequeue, OvershootBounded

(* The records a producer hands over.                                      *)
LEMMA ProducedTyped ==
  ASSUME accepted \in Seq(SpoolRecord), NEW pts \in Batches
  PROVE  [i \in 1..Len(pts) |-> NewRecord(Len(accepted) + i, pts[i])] \in Seq(SpoolRecord)
  <1>1. pts \in Seq(Points) /\ Len(pts) \in Nat /\ Len(accepted) \in Nat
    BY IngestAssumption
  <1>2. \A i \in 1..Len(pts) : NewRecord(Len(accepted) + i, pts[i]) \in SpoolRecord
    BY <1>1 DEF NewRecord, SpoolRecord
  <1> QED BY <1>1, <1>2

(* Enqueue accepts a batch as a whole, behind what is queued.              *)
LEMMA ProduceInv ==
  ASSUME BufferInv, Produce
  PROVE  BufferInv'
  <1>1. PICK pts \in Batches :
          LET recs == [i \in 1..Len(pts) |-> NewRecord(Len(accepted) + i, pts[i])]
          IN  /\ \/ /\ Enqueue(recs)
                    /\ accepted' = accepted \o FilterNearDuplicates(recs).out
                 \/ EnqueueRefused(recs) /\ UNCHANGED accepted
              /\ UNCHANGED <<batch, settled>>
    BY DEF Produce
  <1> DEFINE recs == [i \in 1..Len(pts) |-> NewRecord(Len(accepted) + i, pts[i])]
             out  == FilterNearDuplicates(recs).out
  <1>2. recs \in Seq(SpoolRecord)
    BY ProducedTyped DEF BufferInv
  <1>3. out \in Seq(SpoolRecord) /\ Len(out) \in Nat
    <2> HIDE DEF recs
    <2>1. out \in Seq(SpoolRecord)
      BY <1>2, FilterKeepsLength
    <2> QED BY <2>1
  <1>4. CASE EnqueueRefused(recs) /\ UNCHANGED accepted
    BY <1>1, <1>4 DEF EnqueueRefused, bufferVars, BufferInv, FifoAcrossRequeue, OvershootBounded
  <1>5. CASE Enqueue(recs) /\ accepted' = accepted \o out
    <2>1. /\ queue' = queue \o out
          /\ totalPoints' = totalPoints + Len(out)
          /\ totalPoints + Len(out) <= BufferMaxPoints
          /\ accepted' = accepted \o out
          /\ UNCHANGED <<batch, settled>>
      BY <1>1, <1>5 DEF Enqueue, Fits
    <2> HIDE DEF recs, out
    <2>2. /\ queue' \in Seq(SpoolRecord)
          /\ Len(queue') = Len(queue) + Len(out)
          /\ accepted' \in Seq(SpoolRecord)
      BY <1>3, <2>1, ConcatProperties DEF BufferInv
    <2>3. FifoAcrossRequeue'
      <3>1. settled \o batch \in Seq(SpoolRecord)
        BY ConcatProperties DEF BufferInv
      <3>2. ((settled \o batch) \o queue) \o out = (settled \o batch) \o (queue \o out)
        BY <1>3, <3>1, Regroup DEF BufferInv
      <3> QED BY <2>1, <3>2 DEF BufferInv, FifoAcrossRequeue
    <2>4. OvershootBounded'
      BY <1>3, <2>1, <2>2, BufferAssumption DEF BufferInv, OvershootBounded
    <2> QED BY <2>1, <2>2, <2>3, <2>4 DEF BufferInv
  <1> QED BY <1>1, <1>4, <1>5

(* DrainBatch cuts the queue in two.                                       *)
LEMMA DrainsInv ==
  ASSUME BufferInv, Drain
  PROVE  BufferInv'
  <1> DEFINE n == DrainCount
  <1>1. /\ queue \in Seq(SpoolRecord) /\ Len(queue) \in Nat
        /\ settled \in Seq(SpoolRecord)
        /\ FlushBatchSize \in Nat /\ BufferMaxPoints \in Nat
        /\ batch = <<>>
        /\ Len(queue) <= BufferMaxPoints + FlushBatchSize
    BY BufferAssumption DEF BufferInv, Drain, OvershootBounded
  <1>2. /\ n \in 0..Len(queue)
        /\ n <= FlushBatchSize
        /\ Len(queue) - n <= BufferMaxPoints
    BY <1>1 DEF DrainCount
  <1>3. /\ batch' = SubSeq(queue, 1, n)
        /\ queue' = SubSeq(queue, n + 1, Len(queue))
        /\ totalPoints' = totalPoints - n
        /\ UNCHANGED <<accepted, settled>>
    BY DEF Drain, DrainBatch
  <1> HIDE DEF n
  <1>4. /\ batch' \in Seq(SpoolRecord) /\ Len(batch') = n
        /\ queue' \in Seq(SpoolRecord) /\ Len(queue') = Len(queue) - n
    BY <1>1, <1>2, <1>3
  <1>5. FifoAcrossRequeue'
    <2>1. batch' \o queue' = queue
      BY <1>1, <1>2, <1>3, CutAt
    <2>2. (settled \o batch') \o queue' = settled \o (batch' \o queue')
      BY <1>1, <1>4, Regroup
    <2>3. settled \o batch = settled
      BY <1>1, ConcatEmptySeq
    <2> QED BY <1>3, <2>1, <2>2, <2>3 DEF BufferInv, FifoAcrossRequeue
  <1>6. OvershootBounded'
    BY <1>1, <1>2, <1>4 DEF OvershootBounded
  <1> QED BY <1>2, <1>3, <1>4, <1>5, <1>6 DEF BufferInv

(* RequeueFront puts the batch back where it came from.                    *)
LEMMA FlushFailsInv ==
  ASSUME BufferInv, FlushFails
  PROVE  BufferInv'
  <1>1. /\ queue' = batch \o queue
        /\ totalPoints' = totalPoints + Len(batch)
        /\ batch' = <<>>
        /\ UNCHANGED <<accepted, settled>>
    BY DEF FlushFails, RequeueFront
  <1>2. /\ queue \in Seq(SpoolRecord) /\ batch \in Seq(SpoolRecord) /\ settled \in Seq(SpoolRecord)
        /\ Len(queue) \in Nat /\ Len(batch) \in Nat
    BY DEF BufferInv
  <1>3. queue' \in Seq(SpoolRecord) /\ Len(queue') = Len(batch) + Len(queue)
    BY <1>1, <1>2, ConcatProperties
  <1>4. FifoAcrossRequeue'
    <2>1. (settled \o batch) \o queue = settled \o (batch \o queue)
      BY <1>2, Regroup
    <2>2. settled \o <<>> = settled
      BY <1>2, ConcatEmptySeq
    <2> QED BY <1>1, <2>1, <2>2 DEF BufferInv, FifoAcrossRequeue
  <1>5. OvershootBounded'
    BY <1>1, <1>2, <1>3 DEF BufferInv, OvershootBounded
  <1> QED BY <1>1, <1>2, <1>3, <1>4, <1>5, BufferAssumption DEF BufferInv

LEMMA FlushSucceedsInv ==
  ASSUME BufferInv, FlushSucceeds
  PROVE  BufferInv'
  <1>1. /\ settled' = settled \o batch
        /\ batch' = <<>>
        /\ UNCHANGED <<queue, totalPoints, accepted>>
    BY DEF FlushSucceeds, bufferVars
  <1>2. /\ queue \in Seq(SpoolRecord) /\ batch \in Seq(SpoolRecord) /\ settled \in Seq(SpoolRecord)
        /\ Len(queue) \in Nat /\ Len(batch) \in Nat
    BY DEF BufferInv
  <1>3. settled' \in Seq(SpoolRecord)
    BY <1>1, <1>2, ConcatProperties
  <1>4. FifoAcrossRequeue'
    <2>1. settled' \o <<>> = settled'
      BY <1>3, ConcatEmptySeq
    <2> QED BY <1>1, <2>1 DEF BufferInv, FifoAcrossRequeue
  <1>5. OvershootBounded'
    BY <1>1, <1>2, BufferAssumption DEF BufferInv, OvershootBounded
  <1> QED BY <1>1, <1>2, <1>3, <1>4, <1>5, BufferAssumption DEF BufferInv

LEMMA FifoInvStep ==
  ASSUME BufferInv, [FifoNext]_fifoVars
  PROVE  BufferInv'
  <1>1. CASE UNCHANGED fifoVars
    BY <1>1 DEF fifoVars, bufferVars, BufferInv, FifoAcrossRequeue, OvershootBounded
  <1> QED BY <1>1, ProduceInv, DrainsInv, FlushFailsInv, FlushSucceedsInv DEF FifoNext

LEMMA FifoInvSpec == FifoSpec => []BufferInv
  BY FifoInvInit, FifoInvStep, PTL DEF FifoSpec

-----------------------------------------------------------------------------
(* Records leave the buffer in the order in which Enqueue accepted them,   *)
(* none lost and none twice, however many batches RequeueFront puts back.  *)
THEOREM BufferFifo == FifoSpec => []FifoAcrossRequeue
  <1>1. BufferInv => FifoAcrossRequeue
    BY DEF BufferInv
  <1> QED BY <1>1, FifoInvSpec, PTL

(* RequeueFront overshoots the points limit by at most one batch, and the  *)
(* queue is within the limit again while a batch is out.                   *)
THEOREM BufferOvershoot == FifoSpec => []OvershootBounded
  <1>1. BufferInv => OvershootBounded
    BY DEF BufferInv
  <1> QED BY <1>1, FifoInvSpec, PTL

-----------------------------------------------------------------------------
(* The records behind those that the next drain takes.  A requeue may take *)
(* the queue past the byte limit, but never this part of it: a requeued    *)
(* batch is no longer than the next one.                                   *)
Cut(q) == IF FlushBatchSize > Len(q) THEN Len(q) ELSE FlushBatchSize

Rest(q) == SubSeq(q, Cut(q) + 1, Len(q))

RestFits == batch = <<>> => BytesOf(Rest(queue)) <= BufferMaxBytes

BytesInv == BytesRecover /\ RestFits

LEMMA EmptyBytes == BytesOf(<<>>) = 0
  <1>1. <<>> \in Seq(SpoolRecord) /\ Len(<<>>) = 0
    OBVIOUS
  <1>2. PICK sum \in [0..Len(<<>>) -> Nat] :
          BytesOf(<<>>) = sum[Len(<<>>)] /\ sum[0] = 0
    BY <1>1, BytesUnfold
  <1> QED BY <1>1, <1>2

(* A queue is what the next drain takes followed by the rest.              *)
LEMMA RestBytes ==
  ASSUME NEW q \in Seq(SpoolRecord)
  PROVE  LET front == SubSeq(q, 1, Cut(q)) IN
         /\ Cut(q) \in 0..Len(q)
         /\ front \in Seq(SpoolRecord) /\ Rest(q) \in Seq(SpoolRecord)
         /\ BytesOf(front) \in Nat /\ BytesOf(Rest(q)) \in Nat
         /\ BytesOf(q) = BytesOf(front) + BytesOf(Rest(q))
  <1>1. Cut(q) \in 0..Len(q) /\ Len(q) \in Nat
    BY BufferAssumption DEF Cut
  <1>2. SubSeq(q, 1, Cut(q)) \in Seq(SpoolRecord) /\ Rest(q) \in Seq(SpoolRecord)
    BY <1>1 DEF Rest
  <1>3. SubSeq(q, 1, Cut(q)) \o Rest(q) = q
    BY <1>1, CutAt DEF Rest
  <1> QED BY <1>1, <1>2, <1>3, BytesConcat

(* A queue within the limit has a rest within the limit.                   *)
LEMMA WithinLimit ==
  ASSUME NEW q \in Seq(SpoolRecord), BytesOf(q) <= BufferMaxBytes
  PROVE  BytesOf(Rest(q)) <= BufferMaxBytes
  BY RestBytes, BufferAssumption

(* The rest of a queue with a batch put in front of it is a part of the    *)
(* queue.                                                                  *)
LEMMA RestOfRequeued ==
  ASSUME NEW b \in Seq(SpoolRecord), NEW q \in Seq(SpoolRecord), Len(b) <= FlushBatchSize
  PROVE  BytesOf(Rest(b \o q)) <= BytesOf(q)
  <1> DEFINE k == Len(b)
             n == Len(q)
             c == Cut(b \o q) - k
  <1>1. k \in Nat /\ n \in Nat /\ FlushBatchSize \in Nat /\ b \o q \in Seq(SpoolRecord)
        /\ Len(b \o q) = k + n
    BY BufferAssumption
  <1>2. Cut(b \o q) = k + c /\ c \in 0..n
    BY <1>1 DEF Cut
  <1>3. Rest(b \o q) = SubSeq(q, c + 1, n)
    <2>1. \A i \in 1..n : (b \o q)[k + i] = q[i]
      OBVIOUS
    <2> DEFINE r == Rest(b \o q)
               t == SubSeq(q, c + 1, n)
    <2>2. r = SubSeq(b \o q, k + c + 1, k + n)
      BY <1>1, <1>2 DEF Rest
    <2> HIDE DEF k, n, c
    <2>3. /\ r \in Seq(SpoolRecord) /\ Len(r) = n - c
          /\ \A i \in 1..(n - c) : r[i] = (b \o q)[k + c + i]
      <3> HIDE DEF r
      <3> DEFINE w == b \o q
      <3> HIDE DEF w
      <3>1. w \in Seq(SpoolRecord) /\ Len(w) = k + n /\ r = SubSeq(w, k + c + 1, k + n)
        BY <1>1, <2>2 DEF w
      <3>2. /\ r \in Seq(SpoolRecord) /\ Len(r) = n - c
            /\ \A i \in 1..(n - c) : r[i] = w[k + c + i]
        BY <1>1, <1>2, <3>1
      <3> QED BY <3>2 DEF w
    <2>4. /\ t \in Seq(SpoolRecord) /\ Len(t) = n - c
          /\ \A i \in 1..(n - c) : t[i] = q[c + i]
      BY <1>1, <1>2 DEF n
    <2>5. \A i \in 1..(n - c) : r[i] = t[i]
      <3> HIDE DEF r, t
      <3> TAKE i \in 1..(n - c)
      <3>1. c + i \in 1..n /\ k + c + i = k + (c + i)
        BY <1>1, <1>2
      <3> QED BY <2>1, <2>3, <2>4, <3>1
    <2> HIDE DEF r, t
    <2>6. r = t
      BY <2>3, <2>4, <2>5
    <2> QED BY <2>6 DEF r, t
  <1> HIDE DEF c
  <1>4. SubSeq(q, 1, c) \o SubSeq(q, c + 1, n) = q
    BY <1>2, CutAt
  <1>5. SubSeq(q, 1, c) \in Seq(SpoolRecord) /\ SubSeq(q, c + 1, n) \in Seq(SpoolRecord)
    BY <1>1, <1>2
  <1>6. /\ BytesOf(SubSeq(q, 1, c)) \in Nat /\ BytesOf(SubSeq(q, c + 1, n)) \in Nat
        /\ BytesOf(q) = BytesOf(SubSeq(q, 1, c)) + BytesOf(SubSeq(q, c + 1, n))
    BY <1>4, <1>5, BytesConcat
  <1> QED BY <1>3, <1>6

LEMMA BytesInit == FifoInit => BytesInv
  <1> SUFFICES ASSUME FifoInit PROVE BytesInv
    OBVIOUS
  <1>1. queue = <<>> /\ batch = <<>> /\ totalBytes = 0
    BY DEF FifoInit, BufferInit
  <1>2. BytesOf(queue) = 0 /\ 0 <= BufferMaxBytes
    BY <1>1, EmptyBytes, BufferAssumption
  <1>3. queue \in Seq(SpoolRecord)
    BY <1>1
  <1>4. BytesOf(Rest(queue)) <= BufferMaxBytes
    BY <1>2, <1>3, WithinLimit
  <1> QED BY <1>1, <1>2, <1>4 DEF BytesInv, BytesRecover, RestFits

(* Enqueue keeps within the limit, DrainBatch leaves the rest, a requeue   *)
(* puts back what was counted before.                                      *)
LEMMA BytesStep ==
  ASSUME BufferInv, BytesInv, [FifoNext]_fifoVars
  PROVE  BytesInv'
  <1>0. /\ queue \in Seq(SpoolRecord) /\ batch \in Seq(SpoolRecord)
        /\ Len(batch) <= FlushBatchSize
        /\ totalBytes = BytesOf(queue)
        /\ BytesOf(queue) \in Nat /\ BytesOf(batch) \in Nat /\ BufferMaxBytes \in Nat
    BY BytesConcat, BufferAssumption DEF BufferInv, BytesInv, BytesRecover
  <1>1. CASE UNCHANGED <<queue, batch, totalBytes>>
    BY <1>1 DEF BytesInv, BytesRecover, RestFits
  <1>2. CASE Produce
    <2>1. PICK pts \in Batches :
            LET recs == [i \in 1..Len(pts) |-> NewRecord(Len(accepted) + i, pts[i])]
            IN  (Enqueue(recs) \/ EnqueueRefused(recs)) /\ UNCHANGED batch
      BY <1>2 DEF Produce
    <2> DEFINE recs == [i \in 1..Len(pts) |-> NewRecord(Len(accepted) + i, pts[i])]
               out  == FilterNearDuplicates(recs).out
    <2>2. recs \in Seq(SpoolRecord)
      BY ProducedTyped DEF BufferInv
    <2> HIDE DEF recs
    <2>3. CASE EnqueueRefused(recs)
      BY <1>1, <2>1, <2>3 DEF recs, EnqueueRefused, bufferVars
    <2>4. CASE Enqueue(recs)
      <3>1. /\ queue' = queue \o out
            /\ totalBytes' = totalBytes + BytesOf(out)
            /\ totalBytes + BytesOf(out) <= BufferMaxBytes
            /\ UNCHANGED batch
        BY <2>1, <2>4 DEF recs, Enqueue, Fits
      <3>2. out \in Seq(SpoolRecord)
        BY <2>2, FilterKeepsLength
      <3> HIDE DEF out
      <3>3. /\ queue' \in Seq(SpoolRecord)
            /\ BytesOf(queue') = BytesOf(queue) + BytesOf(out)
        BY <1>0, <3>1, <3>2, BytesConcat, ConcatProperties
      <3>4. BytesOf(queue') <= BufferMaxBytes /\ totalBytes' = BytesOf(queue')
        BY <1>0, <3>1, <3>3
      <3>5. BytesOf(Rest(queue')) <= BufferMaxBytes
        BY <3>3, <3>4, WithinLimit
      <3> QED BY <3>4, <3>5 DEF BytesInv, BytesRecover, RestFits
    <2> QED BY <2>1, <2>3, <2>4 DEF recs
  <1>3. CASE Drain
    <2> DEFINE front == SubSeq(queue, 1, Cut(queue))
    <2>1. /\ batch' = front /\ queue' = Rest(queue)
          /\ totalBytes' = totalBytes - BytesOf(front)
          /\ batch = <<>>
      BY <1>3 DEF Drain, DrainBatch, DrainCount, Cut, Rest
    <2> HIDE DEF front
    <2>2. /\ Rest(queue) \in Seq(SpoolRecord)
          /\ BytesOf(front) \in Nat /\ BytesOf(Rest(queue)) \in Nat
          /\ BytesOf(queue) = BytesOf(front) + BytesOf(Rest(queue))
      BY <1>0, RestBytes DEF front
    <2>3. BytesOf(queue') <= BufferMaxBytes /\ totalBytes' = BytesOf(queue')
      BY <1>0, <2>1, <2>2 DEF BytesInv, RestFits
    <2>4. BytesOf(Rest(queue')) <= BufferMaxBytes
      BY <2>1, <2>2, <2>3, WithinLimit
    <2> QED BY <2>3, <2>4 DEF BytesInv, BytesRecover, RestFits
  <1>4. CASE FlushFails
    <2>1. /\ queue' = batch \o queue /\ batch' = <<>> /\ batch # <<>>
          /\ totalBytes' = totalBytes + BytesOf(batch)
      BY <1>4 DEF FlushFails, RequeueFront
    <2>2. BytesOf(queue') = BytesOf(batch) + BytesOf(queue)
      BY <1>0, <2>1, BytesConcat
    <2>3. BytesOf(Rest(queue')) <= BytesOf(queue)
      BY <1>0, <2>1, RestOfRequeued
    <2>4. BytesOf(queue) <= BufferMaxBytes
      BY <1>0, <2>1 DEF BytesInv, BytesRecover
    <2>5. BytesOf(Rest(queue')) \in Nat
      BY <1>0, <2>1, RestBytes, ConcatProperties
    <2> QED BY <1>0, <2>1, <2>2, <2>3, <2>4, <2>5 DEF BytesInv, BytesRecover, RestFits
  <1>5. CASE FlushSucceeds
    <2>1. batch' = <<>> /\ batch # <<>> /\ UNCHANGED <<queue, totalBytes>>
      BY <1>5 DEF FlushSucceeds, bufferVars
    <2>2. BytesOf(queue) <= BufferMaxBytes
      BY <1>0, <2>1 DEF BytesInv, BytesRecover
    <2>3. BytesOf(Rest(queue)) <= BufferMaxBytes
      BY <1>0, <2>2, WithinLimit
    <2> QED BY <1>0, <2>1, <2>3 DEF BytesInv, BytesRecover, RestFits
  <1>6. CASE UNCHANGED fifoVars
    BY <1>1, <1>6 DEF fifoVars, bufferVars
  <1> QED BY <1>2, <1>3, <1>4, <1>5, <1>6 DEF FifoNext

(* The byte counter is that of the queue through every requeue, and while  *)
(* a batch is out the byte limit holds, though RequeueFront ignores it.    *)
THEOREM BufferBytes == FifoSpec => []BytesRecover
  <1>1. BufferInv /\ BytesInv /\ [FifoNext]_fifoVars => BytesInv'
    BY BytesStep
  <1>2. BytesInv => BytesRecover
    BY DEF BytesInv
  <1> QED BY <1>1, <1>2, BytesInit, FifoInvSpec, PTL DEF FifoSpec
=============================================================================
