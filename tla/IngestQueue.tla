---------------------------- MODULE IngestQueue -----------------------------
(***************************************************************************)
(* What the ingest pipeline promises of the records in memory, without its *)
(* buffer, flusher, spool or checkpoint: records are accepted at the end,  *)
(* stored in SQLite while they are pending, and leave from the front only, *)
(* each one stored or a marker of a near duplicate.  Whatever is pending   *)
(* is lost with the process and only with it.                              *)
(***************************************************************************)
EXTENDS Sequences, Naturals

VARIABLES
  pending,      \* the records in memory, oldest first
  kept,         \* the points in SQLite
  up            \* the process runs

queueVars == <<pending, kept, up>>

PendingPoints == {pending[i].point : i \in DOMAIN pending}

Init == pending = <<>> /\ kept = {} /\ up = FALSE

Accept ==
  /\ up
  /\ Len(pending') >= Len(pending)
  /\ SubSeq(pending', 1, Len(pending)) = pending
  /\ UNCHANGED <<kept, up>>

Keep ==
  /\ up
  /\ kept' \in {kept \cup new : new \in SUBSET PendingPoints}
  /\ UNCHANGED <<pending, up>>

Settled(r) == r.checkpointOnly \/ r.point \in kept

Settle ==
  /\ up
  /\ \E n \in 1..Len(pending) :
       /\ \A i \in 1..n : Settled(pending[i])
       /\ pending' = SubSeq(pending, n + 1, Len(pending))
  /\ UNCHANGED <<kept, up>>

(* The process starts, or ends (what it had in memory can still be told).  *)
Turn == up' = ~up /\ UNCHANGED <<pending, kept>>

(* What was pending is gone; a power loss may take stored points with it.  *)
Restart ==
  /\ pending' = <<>>
  /\ kept' \subseteq kept
  /\ up' = FALSE

Next == Accept \/ Keep \/ Settle \/ Turn \/ Restart

Spec == Init /\ [][Next]_queueVars

(* While the process runs, the oldest record does not wait for ever to be  *)
(* stored, and a stored one is not held on to.                             *)
OldestSettled == ~up \/ pending = <<>> \/ Settled(Head(pending))

Progress == []<>OldestSettled /\ WF_queueVars(Settle)
=============================================================================
