--------------------------- MODULE VisitScheduler ---------------------------
(***************************************************************************)
(* internal/tasks/visit_scheduler.go: the goroutine that keeps the visits  *)
(* up to date, with the watermark it keeps for each device                 *)
(* (store/visit_generation_state.go), while points arrive and a user may   *)
(* rebuild a window by hand (POST /api/v1/visits/generate).                *)
(*                                                                         *)
(* One step per access to the database.  The two reads that follow the one *)
(* of MAX(seq) belong to the same step: the watermark is written by the    *)
(* scheduler alone and a stored point never changes.  Run counters and     *)
(* telemetry are left out.                                                 *)
(***************************************************************************)
EXTENDS Visits

CONSTANTS
  DeviceBatchSize,    \* cfg.DeviceBatchSize
  Lookback,           \* cfg.Lookback
  MinDwell,           \* cfg.DetectConfig.MinDwell
  Arrivals,           \* the points that devices may send: device, ts, pos
  ManualWindows,      \* the windows users ask for
  ManualDwells,       \* the min_dwell they ask for
  MaxSeq,             \* bound: sequence numbers of stored points
  MaxGenerates,       \* bound: manual rebuilds
  MaxRestarts,        \* bound: process restarts
  MaxFaults           \* bound: failing database calls

ASSUME SchedulerAssumption ==
  /\ DeviceBatchSize \in Nat \ {0}
  /\ Lookback \in Nat \ {0}
  /\ MinDwell \in Nat \ {0}
  /\ Arrivals \subseteq [device : DeviceIDs, ts : Int, pos : Int]
  /\ ManualWindows \subseteq Window
  /\ ManualDwells \subseteq Nat \ {0}
  /\ {MaxSeq, MaxGenerates, MaxRestarts, MaxFaults} \subseteq Nat

VARIABLES
  devices,          \* the ids in the devices table
  watermark,        \* visit_generation_state.last_processed_seq, 0: no row
  roundRobinStart,  \* s.roundRobinStart
  spc,              \* where the scheduler is
  todo,             \* the devices of this run still to process, in order
  maxSeq,           \* processDevice: MAX(seq) as read
  window,           \* processDevice: the window to rebuild
  found,            \* processDevice: the visits detected in it
  cancelled,        \* the scheduler's context is cancelled
  manual,           \* the manual rebuild in progress, or Nil
  waited,           \* history: runs since the device was last in one
  byHand,           \* history: devices rebuilt by hand
  late,             \* history: points stored below the device's largest number
                    \* since a rebuild last listed its points
  cuts,             \* history: where rebuilt windows of the device began
  generates,        \* number of manual rebuilds so far
  restarts,         \* number of restarts so far
  faults            \* number of failed calls so far

processVars == <<maxSeq, window, found>>
runVars     == <<roundRobinStart, spc, todo, processVars, cancelled>>
histVars    == <<waited, byHand, late, cuts>>
boundVars   == <<generates, restarts, faults>>
vars        == <<tableVars, devices, watermark, runVars, manual, histVars, boundVars>>

NoWindow == [from |-> Nil, to |-> Nil]

Init ==
  /\ VisitsInit
  /\ devices = {}
  /\ watermark = [d \in DeviceIDs |-> 0]
  /\ roundRobinStart = 0
  /\ spc = "idle"
  /\ todo = <<>>
  /\ maxSeq = 0
  /\ window = NoWindow
  /\ found = <<>>
  /\ cancelled = FALSE
  /\ manual = Nil
  /\ waited = [d \in DeviceIDs |-> 0]
  /\ byHand = {}
  /\ late = [d \in DeviceIDs |-> {}]
  /\ cuts = [d \in DeviceIDs |-> {}]
  /\ generates = 0
  /\ restarts = 0
  /\ faults = 0

MaxPointSeq(d) ==
  IF points[d] = {} THEN 0
  ELSE CHOOSE m \in {p.seq : p \in points[d]} : \A p \in points[d] : p.seq <= m

-----------------------------------------------------------------------------
(* Around the scheduler: devices are created, and the flusher commits      *)
(* points, mostly but not always in the order of their numbers.            *)

(* Ids are handed out in ascending order.                                  *)
CreateDevice(d) ==
  /\ d \notin devices
  /\ \A e \in DeviceIDs : e < d => e \in devices
  /\ devices' = devices \cup {d}
  /\ UNCHANGED <<tableVars, watermark, runVars, manual, histVars, boundVars>>

UsedSeqs == {p.seq : p \in UNION {points[d] : d \in DeviceIDs}}

StorePoint(a, seq) ==
  LET p == [seq |-> seq, ts |-> a.ts, pos |-> a.pos]
  IN  /\ a.device \in devices
      /\ seq \notin UsedSeqs
      /\ points' = [points EXCEPT ![a.device] = @ \cup {p}]
      /\ late' = [late EXCEPT ![a.device] = IF seq < MaxPointSeq(a.device) THEN @ \cup {p} ELSE @]
      /\ UNCHANGED <<visits, devices, watermark, runVars, manual, waited, byHand, cuts, boundVars>>

-----------------------------------------------------------------------------
(* A run of the scheduler.                                                 *)

CallFails ==
  \/ cancelled /\ UNCHANGED faults
  \/ faults < MaxFaults /\ faults' = faults + 1

Sorted == OrderBy(devices, <)

(* Mutant of SelectDeviceBatch: the next run starts where this one did.    *)
SelectFirstBatch ==
  /\ todo' = IF Len(Sorted) <= DeviceBatchSize THEN Sorted ELSE SubSeq(Sorted, 1, DeviceBatchSize)
  /\ UNCHANGED roundRobinStart

SelectDeviceBatch ==
  LET n == Len(Sorted)
      start == roundRobinStart % n
  IN  IF n <= DeviceBatchSize
      THEN todo' = Sorted /\ UNCHANGED roundRobinStart
      ELSE /\ todo' = [i \in 1..DeviceBatchSize |-> Sorted[((start + i - 1) % n) + 1]]
           /\ roundRobinStart' = (start + DeviceBatchSize) % n

(* The run that Start begins with, and those of the ticker.                *)
RunOnce ==
  /\ spc = "idle"
  /\ ~cancelled
  /\ SelectDeviceBatch
  /\ spc' = IF devices = {} THEN "idle" ELSE "read"
  /\ waited' = [d \in DeviceIDs |-> IF d \in ToSet(todo') \/ d \notin devices THEN 0 ELSE waited[d] + 1]
  /\ UNCHANGED <<tableVars, devices, watermark, processVars, cancelled, manual, byHand, late, cuts, boundVars>>

(* ListDevices fails: this run does nothing.                               *)
RunFails ==
  /\ spc = "idle"
  /\ ~cancelled
  /\ CallFails
  /\ UNCHANGED <<tableVars, devices, watermark, runVars, manual, histVars, generates, restarts>>

(* The next device of the run, whatever became of this one.                *)
NextDevice ==
  /\ todo' = Tail(todo)
  /\ spc' = IF Len(todo) = 1 THEN "idle" ELSE "read"
  /\ maxSeq' = 0
  /\ window' = NoWindow
  /\ found' = <<>>
  /\ UNCHANGED <<roundRobinStart, cancelled>>

StampOf(d, seq) == (CHOOSE p \in points[d] : p.seq = seq).ts

(* Skip the device, or find where the rebuild starts.                      *)
ProcessRead ==
  /\ spc = "read"
  /\ LET d == Head(todo)
         mark == watermark[d]
     IN  IF points[d] = {} \/ MaxPointSeq(d) <= mark
         THEN NextDevice
         ELSE /\ maxSeq' = MaxPointSeq(d)
              /\ window' = [from |-> IF mark = 0 THEN Nil ELSE StampOf(d, mark) - Lookback,
                            to   |-> Nil]
              /\ spc' = "list"
              /\ UNCHANGED <<roundRobinStart, todo, found, cancelled>>
  /\ UNCHANGED <<tableVars, devices, watermark, manual, histVars, boundVars>>

ProcessList ==
  /\ spc = "list"
  /\ found' = Detect(ListPoints(Head(todo), window), MinDwell)
  /\ spc' = "rewrite"
  /\ late' = [late EXCEPT ![Head(todo)] = {}]
  /\ UNCHANGED <<tableVars, devices, watermark, roundRobinStart, todo, maxSeq, window, cancelled,
                 manual, waited, byHand, cuts, boundVars>>

ProcessRewrite ==
  /\ spc = "rewrite"
  /\ RewriteVisits(Head(todo), window, found)
  /\ spc' = "mark"
  /\ cuts' = [cuts EXCEPT ![Head(todo)] = @ \cup ({window.from} \ {Nil})]
  /\ UNCHANGED <<points, devices, watermark, roundRobinStart, todo, processVars, cancelled,
                 manual, waited, byHand, late, boundVars>>

(* Mutant of ProcessMark: the watermark is the largest number there is.    *)
ProcessMarkLatest ==
  /\ spc = "mark"
  /\ watermark' = [watermark EXCEPT ![Head(todo)] = MaxPointSeq(Head(todo))]
  /\ NextDevice
  /\ UNCHANGED <<tableVars, devices, manual, histVars, boundVars>>

ProcessMark ==
  /\ spc = "mark"
  /\ watermark' = [watermark EXCEPT ![Head(todo)] = maxSeq]
  /\ NextDevice
  /\ UNCHANGED <<tableVars, devices, manual, histVars, boundVars>>

ProcessFails ==
  /\ spc # "idle"
  /\ CallFails
  /\ NextDevice
  /\ UNCHANGED <<tableVars, devices, watermark, manual, histVars, generates, restarts>>

Process == ProcessRead \/ ProcessList \/ ProcessRewrite \/ ProcessMark \/ ProcessFails

(* Stop cancels the context; calls made from then on may fail.             *)
Stop ==
  /\ ~cancelled
  /\ cancelled' = TRUE
  /\ UNCHANGED <<tableVars, devices, watermark, roundRobinStart, spc, todo, processVars,
                 manual, histVars, boundVars>>

-----------------------------------------------------------------------------
(* generateVisitsHandler: the points are read, then the rows rewritten.    *)

GenerateList(d, w, dwell) ==
  /\ manual = Nil
  /\ d \in devices
  /\ generates < MaxGenerates
  /\ generates' = generates + 1
  /\ manual' = [device |-> d, window |-> w, found |-> Detect(ListPoints(d, w), dwell)]
  /\ UNCHANGED <<tableVars, devices, watermark, runVars, histVars, restarts, faults>>

GenerateRewrite ==
  /\ manual # Nil
  /\ RewriteVisits(manual.device, manual.window, manual.found)
  /\ byHand' = byHand \cup {manual.device}
  /\ manual' = Nil
  /\ UNCHANGED <<points, devices, watermark, runVars, waited, late, cuts, boundVars>>

GenerateFails ==
  /\ manual # Nil
  /\ faults < MaxFaults
  /\ faults' = faults + 1
  /\ manual' = Nil
  /\ UNCHANGED <<tableVars, devices, watermark, runVars, histVars, generates, restarts>>

(* A new process: the tables stay, the scheduler starts over.              *)
Restart ==
  /\ restarts < MaxRestarts
  /\ restarts' = restarts + 1
  /\ roundRobinStart' = 0
  /\ spc' = "idle"
  /\ todo' = <<>>
  /\ maxSeq' = 0
  /\ window' = NoWindow
  /\ found' = <<>>
  /\ cancelled' = FALSE
  /\ manual' = Nil
  /\ waited' = [d \in DeviceIDs |-> 0]
  /\ UNCHANGED <<tableVars, devices, watermark, byHand, late, cuts, generates, faults>>

Next ==
  \/ \E d \in DeviceIDs : CreateDevice(d)
  \/ \E a \in Arrivals, seq \in 1..MaxSeq : StorePoint(a, seq)
  \/ RunOnce
  \/ RunFails
  \/ Process
  \/ Stop
  \/ \E d \in DeviceIDs, w \in ManualWindows, dwell \in ManualDwells : GenerateList(d, w, dwell)
  \/ GenerateRewrite
  \/ GenerateFails
  \/ Restart

Spec == Init /\ [][Next]_vars

-----------------------------------------------------------------------------
TypeOK ==
  /\ points \in [DeviceIDs -> SUBSET Point]
  /\ visits \in [DeviceIDs -> Seq(Visit)]
  /\ devices \subseteq DeviceIDs
  /\ watermark \in [DeviceIDs -> Nat]
  /\ roundRobinStart \in Nat
  /\ spc \in {"idle", "read", "list", "rewrite", "mark"}
  /\ todo \in Seq(devices)
  /\ maxSeq \in Nat
  /\ window \in Window
  /\ found \in Seq(Visit)
  /\ cancelled \in BOOLEAN
  /\ manual = Nil \/ manual \in [device : devices, window : Window, found : Seq(Visit)]
  /\ waited \in [DeviceIDs -> Nat]
  /\ byHand \subseteq devices
  /\ late \in [DeviceIDs -> SUBSET Point]
  /\ cuts \in [DeviceIDs -> SUBSET Int]

(* However scheduled and manual rebuilds of overlapping windows interleave *)
(* with each other, with new points and with restarts, no visit is stored  *)
(* twice: at most one row of a device starts at any time.                  *)
VisitStartsUnique ==
  \A d \in DeviceIDs : \A i, j \in DOMAIN visits[d] :
    i # j => visits[d][i].start # visits[d][j].start

(* Every stored visit, however old the read it came from, is backed by     *)
(* points that are stored: it starts and ends at one of them, lasts long   *)
(* enough, and counts no more than there are between the two.              *)
VisitsBacked ==
  \A d \in DeviceIDs : \A i \in DOMAIN visits[d] :
    LET v == visits[d][i]
        between == {p \in points[d] : TextLE(v.start, p.ts) /\ TextLE(p.ts, v.end)}
    IN  /\ \E p, q \in points[d] : p.ts = v.start /\ q.ts = v.end
        /\ \E dwell \in ManualDwells \cup {MinDwell} : v.end - v.start >= dwell
        /\ v.count <= Cardinality(between)

(* A window that begins one lookback before a point of the device holds    *)
(* all of its points.                                                      *)
WithinLookback(d) == \A p, q \in points[d] : TextLE(p.ts - Lookback, q.ts)

(* What a watermark promises, of a device that nobody rebuilt by hand and  *)
(* whose points lie within one lookback: once it has reached the last      *)
(* point, the stored visits are those of all the points, although points   *)
(* were stored during the rebuild, calls failed and the process restarted. *)
(* A point stored below the largest number does not wake the scheduler and *)
(* may be missing, but no other, and only until the next rebuild.          *)
CaughtUp ==
  \A d \in devices \ byHand :
    watermark[d] >= MaxPointSeq(d) /\ WithinLookback(d) =>
      visits[d] = Detect(OrderBy(points[d] \ late[d], ListBefore), MinDwell)

(* "scheduler applies configurable lookback overlap for visit-boundary     *)
(* safety" (PROJECT_LOG.md).  It is not safe everywhere: a rebuild whose   *)
(* window begins inside a stay keeps the old row and adds another for the  *)
(* rest of the stay.  This is the only way two visits of a device come to  *)
(* overlap, as long as only the scheduler writes them, in the text order   *)
(* of times in which the points are read; by the clock, two visits may     *)
(* share part of a second.                                                 *)
OverlapOnlyAtCut ==
  \A d \in devices \ byHand : \A i, j \in DOMAIN visits[d] :
    LET v == visits[d][i]
        w == visits[d][j]
    IN  i # j /\ TextLE(v.start, w.start) /\ ~TextLE(v.end, w.start) =>
          \E c \in cuts[d] : ~TextLE(c, v.start) /\ TextLE(c, w.start)

(* Round robin serves everyone in turn while devices are being added: the  *)
(* runs that passed over a device since its last one have served, each a   *)
(* full batch, only other devices and none of them twice.                  *)
ServedInTurn ==
  \A d \in devices : waited[d] * DeviceBatchSize < Cardinality(devices)
=============================================================================
