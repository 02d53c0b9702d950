------------------------------ MODULE TextTime ------------------------------
(***************************************************************************)
(* Stored times, and the filters and orders of the queries on them         *)
(* (internal/store/points.go and internal/store/visits.go).  Times count   *)
(* half seconds.  SQLite compares them as RFC3339Nano text, where          *)
(* "...:07.5Z" comes before "...:07Z".                                     *)
(***************************************************************************)
EXTENDS Integers, FiniteSets, Sequences

CONSTANT Nil        \* an absent bound or parameter

ASSUME NilAssumption == Nil \notin Int

Window == [from : Int \cup {Nil}, to : Int \cup {Nil}]

(* Text order of times: a whole second (even) sorts after its fractions.   *)
TextKey(t) == IF t % 2 = 0 THEN t + 1 ELSE t - 1

TextLE(t, u) == TextKey(t) <= TextKey(u)

(* timestamp_utc >= from and timestamp_utc <= to, where they are given.    *)
InWindow(t, w) ==
  /\ w.from # Nil => TextLE(w.from, t)
  /\ w.to # Nil => TextLE(t, w.to)

(* ORDER BY timestamp_utc ASC, seq ASC.                                    *)
ListBefore(p, q) ==
  \/ TextKey(p.ts) < TextKey(q.ts)
  \/ p.ts = q.ts /\ p.seq < q.seq

(* ORDER BY: each row in the place given by how many come before it.  The  *)
(* whole is taken with SubSeq because TLC then evaluates it once only.     *)
OrderBy(S, Before(_, _)) ==
  LET row == [i \in 1..Cardinality(S) |->
                CHOOSE p \in S : Cardinality({q \in S : Before(q, p)}) = i - 1]
  IN  SubSeq(row, 1, Cardinality(S))

(* The rows of a result at some of its positions, in their order.          *)
RowsAt(s, positions) ==
  LET at == OrderBy(positions, <)
  IN  [j \in DOMAIN at |-> s[at[j]]]
=============================================================================
