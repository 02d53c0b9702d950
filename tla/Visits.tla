------------------------------- MODULE Visits -------------------------------
(***************************************************************************)
(* internal/visits/detector.go and internal/store/visits.go: finding the   *)
(* visits in a device's points and rewriting its rows of the visits table. *)
(*                                                                         *)
(* Positions are integers on a line, so that the centroid test is exact.   *)
(* The store replaces a zero time when it writes a point, so the detector  *)
(* never meets one here.                                                   *)
(***************************************************************************)
EXTENDS TextTime, SequencesExt, FiniteSets

CONSTANTS
  DeviceIDs,        \* devices.id, positive integers
  MaxRadius         \* cfg.MaxRadiusMeters

ASSUME VisitsAssumption ==
  /\ DeviceIDs \subseteq Nat \ {0}
  /\ MaxRadius \in Nat \ {0}

VARIABLES
  points,       \* raw_points: the set of stored points of each device
  visits        \* visits: the rows of each device, in the order of their ids

tableVars == <<points, visits>>

Point == [seq : Nat \ {0}, ts : Int, pos : Int]
Visit == [start : Int, end : Int, sum : Int, count : Nat]

-----------------------------------------------------------------------------
(* listPointsForVisitDetectionByDeviceID: by time as text, then by seq.    *)
ListPoints(d, w) == OrderBy({p \in points[d] : InWindow(p.ts, w)}, ListBefore)

-----------------------------------------------------------------------------
(* Detect *)

SumOf(pts, i, j) ==
  LET sum[k \in i - 1..j] == IF k < i THEN 0 ELSE sum[k - 1] + pts[k].pos
  IN  sum[j]

(* windowWithinRadius, multiplied out: |pos - sum / n| <= MaxRadius.       *)
WindowWithinRadius(pts, i, j) ==
  LET n == j - i + 1
      sum == SumOf(pts, i, j)
  IN  \A k \in i..j : /\ n * pts[k].pos - sum <= n * MaxRadius
                      /\ sum - n * pts[k].pos <= n * MaxRadius

(* The window that starts at i grows until the next point breaks it.       *)
WindowEnd(pts, i) ==
  CHOOSE e \in i..Len(pts) :
    /\ \A j \in i + 1..e : WindowWithinRadius(pts, i, j)
    /\ e < Len(pts) => ~WindowWithinRadius(pts, i, e + 1)

(* Mutant of IsVisit: passing through is enough.                           *)
IsVisitAnyDwell(pts, i, dwell) == WindowEnd(pts, i) > i

IsVisit(pts, i, dwell) ==
  /\ WindowEnd(pts, i) > i
  /\ pts[WindowEnd(pts, i)].ts - pts[i].ts >= dwell

VisitFrom(pts, i) ==
  LET e == WindowEnd(pts, i)
  IN  [start |-> pts[i].ts, end |-> pts[e].ts, sum |-> SumOf(pts, i, e), count |-> e - i + 1]

(* Mutant of Detect: after a visit the scan goes on at its second point.   *)
DetectAgain(pts, dwell) ==
  LET found[i \in 1..Len(pts) + 1] ==
        IF i > Len(pts) THEN <<>>
        ELSE IF IsVisit(pts, i, dwell) THEN <<VisitFrom(pts, i)>> \o found[i + 1]
        ELSE found[i + 1]
  IN  found[1]

Detect(pts, dwell) ==
  LET found[i \in 1..Len(pts) + 1] ==
        IF i > Len(pts) THEN <<>>
        ELSE IF IsVisit(pts, i, dwell)
             THEN <<VisitFrom(pts, i)>> \o found[WindowEnd(pts, i) + 1]
             ELSE found[i + 1]
  IN  found[1]

-----------------------------------------------------------------------------
VisitsInit ==
  /\ points = [d \in DeviceIDs |-> {}]
  /\ visits = [d \in DeviceIDs |-> <<>>]

(* Mutant of RewriteVisits: a row that starts with the window is kept.     *)
RewriteAfterFrom(d, w, found) ==
  LET kept == {i \in DOMAIN visits[d] :
                 ~InWindow(visits[d][i].start, w) \/ visits[d][i].start = w.from}
  IN  visits' = [visits EXCEPT ![d] = RowsAt(@, kept) \o found]

(* The transaction of RebuildVisitsForDeviceRange: the rows that start in  *)
(* the window are replaced by what was found in it.                        *)
RewriteVisits(d, w, found) ==
  LET kept == {i \in DOMAIN visits[d] : ~InWindow(visits[d][i].start, w)}
  IN  visits' = [visits EXCEPT ![d] = RowsAt(@, kept) \o found]
=============================================================================
