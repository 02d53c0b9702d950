----------------------------- MODULE PointReads -----------------------------
(***************************************************************************)
(* internal/store/points.go, internal/api/points.go and                    *)
(* internal/api/exports.go: one signed-in user, Reader, pages through the  *)
(* point history, downloads an export or asks for the recent points while  *)
(* the flusher goes on storing points of every user.                       *)
(*                                                                         *)
(* Reads do not change the table, so one of them in flight is enough.  A   *)
(* statement reads one snapshot (WAL), so it is one step; a page and the   *)
(* next, or the probe of an export and its stream, are two.  A page that   *)
(* fails answers 500 and is asked for again: nothing has moved.  A request *)
(* holds max_points if it simplifies, and its defaults where a parameter   *)
(* is absent; a malformed one is a 400 and reads nothing.  What is written *)
(* for a point differs per format and is left out; the first is too short  *)
(* to fail in the 16 KiB writer.                                           *)
(***************************************************************************)
EXTENDS TextTime, SequencesExt, FiniteSetsExt

CONSTANTS
  DeviceIDs,            \* devices.id
  Owner,                \* devices.user_id, by device
  Reader,               \* the user of the session
  Arrivals,             \* the points that arrive: device and time
  MaxSeq,               \* bound: the numbers of stored points
  Requests,             \* the parameters of the requests
  MaxPointsLimit,           \* maxPointsLimit, 1000
  MaxSimplifiedPointsLimit, \* maxSimplifiedPointsLimit, 20000
  ListPointsCap,            \* ListPoints never reads more rows: 5000
  MaxExportLimit,           \* maxExportLimit, 20000
  RecentCap                 \* ListRecentPoints never reads more rows: 500

ASSUME PointReadsAssumption ==
  /\ Owner \in [DeviceIDs -> Nat \ {0}]
  /\ Arrivals \subseteq [device : DeviceIDs, ts : Int]
  /\ Requests \subseteq [device : DeviceIDs \cup {Nil}, window : Window,
                         limit : Nat \ {0}, max : (Nat \ {0}) \cup {Nil}]
  /\ DeviceIDs \subseteq Nat \ {0}
  /\ MaxSeq \in Nat
  /\ {MaxPointsLimit, MaxSimplifiedPointsLimit, ListPointsCap, MaxExportLimit, RecentCap}
       \subseteq Nat \ {0}
  /\ MaxPointsLimit < ListPointsCap /\ ListPointsCap <= MaxSimplifiedPointsLimit

VARIABLES
  rows,         \* raw_points
  pc,           \* what the reader is doing
  req,          \* the parameters of its request
  cursor,       \* the cursor of the next page, 0 at first
  scanned,      \* the pages as they were read from the table
  sent,         \* the pages (or the one export) as they were answered
  failed,       \* the X-Export-Error trailer
  before        \* history: the rows when the read began

vars == <<rows, pc, req, cursor, scanned, sent, failed, before>>

Row == [seq : 1..MaxSeq, user : Nat \ {0}, device : DeviceIDs, ts : Int]

Over == pc \in {"listed", "exported"}

Init ==
  /\ rows = {}
  /\ pc = "idle"
  /\ req = Nil
  /\ cursor = 0
  /\ scanned = <<>>
  /\ sent = <<>>
  /\ failed = FALSE
  /\ before = {}

(* The flusher commits a point.  Numbers are given out before the commit,  *)
(* by concurrent requests, and devices report late: neither the numbers    *)
(* nor the times arrive in order.                                          *)
StorePoint(n, p) ==
  /\ ~Over
  /\ \A row \in rows : row.seq # n
  /\ rows' = rows \cup
       {[seq |-> n, user |-> Owner[p.device], device |-> p.device, ts |-> p.ts]}
  /\ UNCHANGED <<pc, req, cursor, scanned, sent, failed, before>>

-----------------------------------------------------------------------------
(* currentUserAllowedDeviceIDs *)
Allowed == {d \in DeviceIDs : Owner[d] = Reader}

(* Mutant of Matches: the rows are not restricted to the user's own.       *)
MatchesAnyUser(row, after) ==
  /\ req.device # Nil => row.device = req.device
  /\ InWindow(row.ts, req.window)
  /\ row.seq > after

(* Mutant of Matches: the row the cursor names is read again.              *)
MatchesFromCursor(row, after) ==
  /\ req.device # Nil => row.device = req.device
  /\ row.user = Reader
  /\ InWindow(row.ts, req.window)
  /\ row.seq >= after

(* The WHERE clause of ListPoints and StreamPointsForExport.               *)
Matches(row, after) ==
  /\ req.device # Nil => row.device = req.device
  /\ row.user = Reader
  /\ InWindow(row.ts, req.window)
  /\ row.seq > after

Take(s, n) == SubSeq(s, 1, Min({n, Len(s)}))

(* Mutant of SelectRows: in the order of the numbers.                      *)
SelectRowsBySeq(after, limit) ==
  Take(OrderBy({row \in rows : Matches(row, after)}, LAMBDA p, q : p.seq < q.seq), limit)

(* The query: the first rows by time, then by number.                      *)
SelectRows(after, limit) ==
  Take(OrderBy({row \in rows : Matches(row, after)}, ListBefore), limit)

ListPoints(after, limit) == SelectRows(after, Min({limit, ListPointsCap}))

-----------------------------------------------------------------------------
(* Mutant of Downsample: m steps from the first point miss the last one.   *)
DownsampleShort(pts, m) ==
  IF Len(pts) <= m THEN pts
  ELSE [i \in 1..m |-> pts[1 + ((i - 1) * Len(pts)) \div m]]

(* downsampleRecentPoints: m points spread over the page.  The step is     *)
(* above 1, so that neither correction of a rounded index is ever taken.   *)
Downsample(pts, m) ==
  IF Len(pts) <= m THEN pts
  ELSE IF m = 1 THEN <<Last(pts)>>
  ELSE [i \in 1..m |->
          pts[1 + (2 * (i - 1) * (Len(pts) - 1) + (m - 1)) \div (2 * (m - 1))]]

(* parseOptionalLimitParamWithMax, against the maximum of the mode.        *)
PageLimit ==
  Min({req.limit, IF req.max = Nil THEN MaxPointsLimit ELSE MaxSimplifiedPointsLimit})

(* Mutant of NextCursor: the number of the row read ahead.                 *)
NextCursorAhead(found, out) == Last(found).seq

(* next_cursor: the number of the last row of the answer.                  *)
NextCursor(found, out) == Last(out).seq

(* A client opens the point history, with or without simplify.             *)
StartListing(r) ==
  /\ pc = "idle"
  /\ pc' = "listing"
  /\ req' = r
  /\ before' = rows
  /\ UNCHANGED <<rows, cursor, scanned, sent, failed>>

(* pointsHandler, a device of somebody else: an empty page, no cursor.     *)
PageRefused ==
  /\ pc = "listing"
  /\ req.device \notin Allowed \cup {Nil}
  /\ scanned' = Append(scanned, <<>>)
  /\ sent' = Append(sent, <<>>)
  /\ pc' = "listed"
  /\ UNCHANGED <<rows, req, cursor, failed, before>>

(* pointsHandler: one row is read ahead to see whether there are more, and *)
(* the client asks for the next page for as long as it is given a cursor.  *)
ReadPage ==
  /\ pc = "listing"
  /\ req.device \in Allowed \cup {Nil}
  /\ LET found == ListPoints(cursor, PageLimit + 1)
         more == Len(found) > PageLimit
         page == Take(found, PageLimit)
         out == IF req.max = Nil THEN page ELSE Downsample(page, req.max)
     IN  /\ scanned' = Append(scanned, page)
         /\ sent' = Append(sent, out)
         /\ cursor' = IF more THEN NextCursor(found, out) ELSE cursor
         /\ pc' = IF more THEN "listing" ELSE "listed"
  /\ UNCHANGED <<rows, req, failed, before>>

-----------------------------------------------------------------------------
ExportLimit == Min({req.limit, MaxExportLimit})

(* A client asks for an export; a device of somebody else is a 404.        *)
StartExport(r) ==
  /\ pc = "idle"
  /\ r.device \in Allowed \cup {Nil}
  /\ pc' = "exporting"
  /\ req' = r
  /\ UNCHANGED <<rows, cursor, scanned, sent, failed, before>>

(* probeExportFirstPoint: the first row is read, and written, before the   *)
(* handler commits to a 200 with a body of unknown length.                 *)
ProbeExport ==
  /\ pc = "exporting"
  /\ sent' = <<SelectRows(0, 1)>>
  /\ pc' = IF SelectRows(0, 1) = <<>> THEN "exported" ELSE "probed"
  /\ before' = rows
  /\ UNCHANGED <<rows, req, cursor, scanned, failed>>

(* Mutant of WithoutFirst: the first streamed row is taken for the probed. *)
WithoutFirstRow(stream) == IF stream = <<>> THEN stream ELSE Tail(stream)

(* The callback of StreamPointsForExport skips the row already written.    *)
WithoutFirst(stream) ==
  RowsAt(stream, {i \in DOMAIN stream : stream[i].seq # sent[1][1].seq})

(* geoJSONExportHandler and gpxExportHandler: the rest of the rows.        *)
StreamExport ==
  /\ pc = "probed"
  /\ sent' = <<sent[1] \o WithoutFirst(SelectRows(0, ExportLimit))>>
  /\ pc' = "exported"
  /\ UNCHANGED <<rows, req, cursor, scanned, failed, before>>

(* The stream breaks off (a read error, the request's context): what was   *)
(* written stays, the document is closed and the trailer tells.            *)
StreamFails ==
  /\ pc = "probed"
  /\ \E n \in 0..ExportLimit - 1 :
       sent' = <<sent[1] \o WithoutFirst(SelectRows(0, n))>>
  /\ failed' = TRUE
  /\ pc' = "exported"
  /\ UNCHANGED <<rows, req, cursor, scanned, before>>

-----------------------------------------------------------------------------
(* Mutant of NewestRows: the oldest rows come first.                       *)
NewestRowsAscending(d, limit) ==
  Take(OrderBy({row \in rows : d # Nil => row.device = d}, ListBefore), limit)

(* ListRecentPoints: the newest rows of one device or of the whole table.  *)
NewestRows(d, limit) ==
  Take(OrderBy({row \in rows : d # Nil => row.device = d}, LAMBDA p, q : ListBefore(q, p)),
       Min({limit, RecentCap}))

(* recentPointsHandler: what is not the reader's is dropped afterwards.    *)
RecentPoints(d, limit) ==
  IF d \in Allowed \cup {Nil}
    THEN LET all == NewestRows(d, limit)
         IN  RowsAt(all, {i \in DOMAIN all : all[i].device \in Allowed /\ all[i].user = Reader})
    ELSE <<>>

-----------------------------------------------------------------------------
Next ==
  \/ \E n \in 1..MaxSeq, p \in Arrivals : StorePoint(n, p)
  \/ \E r \in Requests : StartListing(r) \/ (r.max = Nil /\ StartExport(r))
  \/ PageRefused
  \/ ReadPage
  \/ ProbeExport
  \/ StreamExport
  \/ StreamFails

Spec == Init /\ [][Next]_vars

-----------------------------------------------------------------------------
(* Properties *)

(* The reader's answers and the table hold rows of their types.            *)
TypeOK ==
  /\ rows \subseteq Row /\ before \subseteq rows
  /\ pc \in {"idle", "listing", "listed", "exporting", "probed", "exported"}
  /\ cursor \in 0..MaxSeq
  /\ scanned \in Seq(Seq(rows)) /\ sent \in Seq(Seq(rows))
  /\ failed \in BOOLEAN

Pages == DOMAIN scanned

(* The rows of a request, whatever was read so far.                        *)
Wanted(row) ==
  /\ row.user = Reader
  /\ req.device \in {Nil, row.device}
  /\ InWindow(row.ts, req.window)

(* A row that was there when the client began to page is on one of the     *)
(* pages, unless a page ended on a row that comes before it and has a      *)
(* larger number (the cursor is a number, the order is by time), or the    *)
(* last page of a simplified listing is as long as ListPoints ever reads,  *)
(* where the row read ahead is cut off and the listing seems to be over.   *)
ListingComplete ==
  pc = "listed" =>
    \A row \in before : Wanted(row) =>
      \/ \E k \in Pages : row \in ToSet(scanned[k])
      \/ \E k \in Pages : /\ k < Len(scanned)
                          /\ ListBefore(Last(scanned[k]), row)
                          /\ Last(scanned[k]).seq > row.seq
      \/ req.max # Nil /\ Len(Last(scanned)) = ListPointsCap

(* A row is on two pages only if, on the first, a row with a smaller       *)
(* number comes after it; one whose numbers follow the times is sent once. *)
ListingOnce ==
  pc \in {"listing", "listed"} =>
    \A j, k \in Pages : j < k =>
      \A row \in ToSet(scanned[j]) \cap ToSet(scanned[k]) : Last(scanned[j]).seq < row.seq

(* A simplified page keeps the last row it stands for, on which the cursor *)
(* depends, and the first one if there is room for two, in the same order, *)
(* and what it leaves out between two rows is as long everywhere.          *)
SampleSpread ==
  (pc \in {"listing", "listed"} /\ req.max # Nil) =>
    \A k \in Pages : scanned[k] # <<>> =>
      LET at == [i \in DOMAIN sent[k] |->
                   CHOOSE j \in DOMAIN scanned[k] : scanned[k][j] = sent[k][i]]
          gaps == {at[i + 1] - at[i] : i \in 1..Len(at) - 1}
      IN  /\ Len(at) = Min({req.max, Len(scanned[k])})
          /\ Last(at) = Len(scanned[k])
          /\ req.max > 1 => at[1] = 1
          /\ gaps # {} => Min(gaps) > 0 /\ Max(gaps) <= Min(gaps) + 1

(* No answer holds a point of another user, nor does the list of recent    *)
(* points, which reads everybody's.                                        *)
OwnPointsOnly ==
  /\ \A k \in DOMAIN sent : \A row \in ToSet(sent[k]) : row.user = Reader
  /\ \A r \in Requests : \A row \in ToSet(RecentPoints(r.device, r.limit)) : row.user = Reader

(* An export without the error trailer holds every row that was there when *)
(* it was asked for, up to the limit, although the table is read twice and *)
(* grows in between, and no row twice.                                     *)
ExportWhole ==
  pc = "exported" =>
    /\ IsInjective(sent[1])
    /\ ~failed => \A row \in before : Wanted(row) =>
         \/ row \in ToSet(sent[1])
         \/ Cardinality({r \in rows : Wanted(r) /\ ListBefore(r, row)}) >= ExportLimit

(* An export is in time order, to the second, from its second row on.  The *)
(* first row is out of place, and the limit exceeded by it, only when rows *)
(* stored after the probe come before it.                                  *)
ExportOrdered ==
  pc = "exported" =>
    \A j, k \in DOMAIN sent[1] : j < k =>
      \/ sent[1][j].ts \div 2 <= sent[1][k].ts \div 2 /\ k <= ExportLimit
      \/ \E row \in rows \ before : Wanted(row) /\ ListBefore(row, sent[1][1])

(* The recent points are the newest of the reader's: none is passed over   *)
(* for an older one, and one is left out only when as many points as were  *)
(* asked for, of anybody, are newer.                                       *)
RecentNewest ==
  \A r \in Requests : r.device \in Allowed \cup {Nil} =>
    LET asked == {row \in rows : r.device \in {Nil, row.device}}
        shown == ToSet(RecentPoints(r.device, r.limit))
    IN  \A row \in {p \in asked : p.user = Reader} \ shown :
          /\ \A p \in shown : ListBefore(row, p)
          /\ Cardinality({p \in asked : ListBefore(row, p)}) >= Min({r.limit, RecentCap})
=============================================================================
