---------------------------- MODULE VisitsProofs ----------------------------
(***************************************************************************)
(* Theorems about the visit scheduler and the manual rebuilds, for every   *)
(* set of devices and points, every batch size, lookback and dwell, any    *)
(* number of failing calls and restarts:                                   *)
(*                                                                         *)
(*   SchedulerTypeCorrect  Spec => []TypeOK                                *)
(*   StartsStayUnique      Spec => []VisitStartsUnique                     *)
(*   VisitsAreBacked       Spec => []VisitsBacked                          *)
(*   WatermarkCatchesUp    Spec => []CaughtUp                              *)
(*   OverlapsOnlyAtCuts    Spec => []OverlapOnlyAtCut                      *)
(*   EveryoneInTurn        Spec => []ServedInTurn                          *)
(*                                                                         *)
(* The facts about ordered queries are those of PointReadsProofs: neither  *)
(* module can extend the other.                                            *)
(***************************************************************************)
EXTENDS VisitScheduler, FiniteSetTheorems, WellFoundedInduction, TLAPS

-----------------------------------------------------------------------------
(* Induction over positions, by sets of them.                              *)

(* A smallest position in a set of positions.                              *)
LEMMA FirstOf ==
  ASSUME NEW S \in SUBSET Nat, S # {}
  PROVE  \E i \in S : \A j \in S : ~(j < i)
  <1> DEFINE Less == {ss \in Nat \X Nat : ss[1] < ss[2]}
  <1>1. IsWellFoundedOn(Less, Nat)
    BY NatLessThanWellFounded, Zenon DEF OpToRel
  <1>2. \A i, j \in Nat : j < i => <<j, i>> \in Less
    OBVIOUS
  <1> HIDE DEF Less
  <1>3. \E i \in S : \A j \in S : ~(<<j, i>> \in Less)
    BY <1>1, WFMin, Zenon
  <1> QED BY <1>2, <1>3

(* A set that has 0 and with each position the next one has all of them.   *)
LEMMA Climb ==
  ASSUME NEW n \in Nat, NEW G,
         0 \in G,
         \A i \in 1..n : i - 1 \in G => i \in G
  PROVE  \A i \in 0..n : i \in G
  <1> SUFFICES ASSUME (0..n) \ G # {}
               PROVE  FALSE
    OBVIOUS
  <1>1. PICK i \in (0..n) \ G : \A j \in (0..n) \ G : ~(j < i)
    <2>1. (0..n) \ G \in SUBSET Nat
      OBVIOUS
    <2> QED BY <2>1, FirstOf
  <1>2. i \in 1..n
    BY <1>1
  <1>3. i - 1 \in G
    BY <1>1, <1>2
  <1> QED BY <1>1, <1>2, <1>3

(* A recursive definition, from values at earlier positions, has a         *)
(* solution.                                                               *)
Recurs(f, n, b, prev, step) == f[0] = b /\ \A i \in 1..n : f[i] = step[i][f[prev[i]]]

LEMMA Recursive ==
  ASSUME NEW n \in Nat, NEW V, NEW b \in V, NEW step \in [1..n -> [V -> V]],
         NEW prev, \A i \in 1..n : prev[i] \in 0..(i - 1)
  PROVE  \E f \in [0..n -> V] : Recurs(f, n, b, prev, step)
  <1> DEFINE G == {m \in 0..n : \E f \in [0..m -> V] : Recurs(f, m, b, prev, step)}
  <1>1. 0 \in G
    <2>1. [i \in 0..0 |-> b] \in [0..0 -> V] /\ Recurs([i \in 0..0 |-> b], 0, b, prev, step)
      BY DEF Recurs
    <2> QED BY <2>1
  <1>2. ASSUME NEW m \in 1..n, m - 1 \in G
        PROVE  m \in G
    <2>1. PICK f \in [0..(m - 1) -> V] : Recurs(f, m - 1, b, prev, step)
      BY <1>2
    <2> DEFINE g == [i \in 0..m |-> IF i = m THEN step[m][f[prev[m]]] ELSE f[i]]
    <2>2. prev[m] \in 0..(m - 1) /\ f[prev[m]] \in V
      OBVIOUS
    <2>3. g \in [0..m -> V]
      BY <2>2
    <2>4. g[0] = b
      BY <2>1 DEF Recurs
    <2>5. ASSUME NEW i \in 1..m
          PROVE  g[i] = step[i][g[prev[i]]]
      <3>1. prev[i] \in 0..(i - 1) /\ prev[i] \in 0..m /\ prev[i] # m
        OBVIOUS
      <3>2. g[prev[i]] = f[prev[i]]
        BY <3>1
      <3>3. CASE i = m
        BY <3>2, <3>3
      <3>4. CASE i # m
        <4>1. i \in 1..(m - 1)
          BY <3>4
        <4>2. f[i] = step[i][f[prev[i]]]
          BY <2>1, <4>1 DEF Recurs
        <4> QED BY <3>2, <3>4, <4>1, <4>2
      <3> QED BY <3>3, <3>4
    <2> HIDE DEF g
    <2>6. Recurs(g, m, b, prev, step)
      BY <2>4, <2>5 DEF Recurs
    <2> QED BY <2>3, <2>6
  <1> HIDE DEF G
  <1>3. \A i \in 0..n : i \in G
    BY <1>1, <1>2, Climb, Zenon
  <1> QED BY <1>3 DEF G

-----------------------------------------------------------------------------
(* Sorting a finite set.  An order is a set of pairs here, so that the     *)
(* lemmas can be cited for any.                                            *)

Orders(R, S) ==
  /\ \A p \in S : <<p, p>> \notin R
  /\ \A p, q, r \in S : <<p, q>> \in R /\ <<q, r>> \in R => <<p, r>> \in R
  /\ \A p, q \in S : p = q \/ <<p, q>> \in R \/ <<q, p>> \in R

Rank(R, S, p) == Cardinality({q \in S : <<q, p>> \in R})

(* There are 0, 1, 2 ... elements before the elements of an ordered set.   *)
LEMMA Ranks ==
  ASSUME NEW S, IsFiniteSet(S), NEW R, Orders(R, S)
  PROVE  /\ \A p \in S : Rank(R, S, p) \in 0..(Cardinality(S) - 1)
         /\ \A p, q \in S : <<p, q>> \in R <=> Rank(R, S, p) < Rank(R, S, q)
         /\ \A i \in 1..Cardinality(S) : \E p \in S : Rank(R, S, p) = i - 1
  <1> DEFINE n == Cardinality(S)
             Under(p) == {q \in S : <<q, p>> \in R}
  <1>n. n \in Nat
    BY FS_CardinalityType
  <1>1. \A p \in S : IsFiniteSet(Under(p)) /\ Cardinality(Under(p)) \in Nat
    BY FS_Subset, FS_CardinalityType
  <1>2. ASSUME NEW p \in S
        PROVE  Cardinality(Under(p)) \in 0..(n - 1)
    <2>1. IsFiniteSet(S \ {p}) /\ Cardinality(S \ {p}) = n - 1
      BY FS_RemoveElement
    <2>2. Under(p) \subseteq S \ {p}
      BY DEF Orders
    <2>3. Cardinality(Under(p)) <= Cardinality(S \ {p})
      BY <2>1, <2>2, FS_Subset
    <2> QED BY <1>1, <1>n, <2>1, <2>3
  <1>3. ASSUME NEW p \in S, NEW q \in S, <<p, q>> \in R
        PROVE  Cardinality(Under(p)) < Cardinality(Under(q))
    <2>1. Under(p) \subseteq Under(q) /\ p \in Under(q) /\ p \notin Under(p)
      BY <1>3 DEF Orders
    <2>2. /\ Cardinality(Under(p)) <= Cardinality(Under(q))
          /\ Cardinality(Under(p)) # Cardinality(Under(q))
      <3>1. IsFiniteSet(Under(q)) /\ Under(p) \in SUBSET Under(q)
        BY <1>1, <2>1
      <3> QED BY <3>1, <2>1, FS_Subset
    <2> QED BY <1>1, <2>2
  <1>4. \A p, q \in S : <<p, q>> \in R <=> Cardinality(Under(p)) < Cardinality(Under(q))
    <2> SUFFICES ASSUME NEW p \in S, NEW q \in S, <<p, q>> \notin R
                 PROVE  ~(Cardinality(Under(p)) < Cardinality(Under(q)))
      BY <1>3
    <2>1. p = q \/ Cardinality(Under(q)) < Cardinality(Under(p))
      BY <1>3 DEF Orders
    <2> HIDE DEF Under
    <2> QED BY <2>1, <1>1
  <1>5. ASSUME NEW i \in 1..n
        PROVE  \E p \in S : Cardinality(Under(p)) = i - 1
    <2> DEFINE f == [p \in S |-> Cardinality(Under(p))]
    <2> HIDE DEF Under
    <2>1. f \in Injection(S, 0..(n - 1))
      <3>1. f \in [S -> 0..(n - 1)]
        BY <1>2
      <3>2. ASSUME NEW p \in S, NEW q \in S, f[p] = f[q]
            PROVE  p = q
        BY <3>2, <1>1, <1>4 DEF Orders
      <3> QED BY <3>1, <3>2 DEF Injection, IsInjective
    <2>2. IsFiniteSet(0..(n - 1)) /\ Cardinality(0..(n - 1)) = n
      <3>1. 0 \in Int /\ n - 1 \in Int
        BY <1>n
      <3>2. /\ IsFiniteSet(0..(n - 1))
            /\ Cardinality(0..(n - 1)) = IF 0 > n - 1 THEN 0 ELSE n - 1 - 0 + 1
        BY <3>1, FS_Interval
      <3> QED BY <3>2, <1>n
    <2>3. f \in Surjection(S, 0..(n - 1))
      BY <2>1, <2>2, FS_Injection
    <2>4. i - 1 \in 0..(n - 1)
      BY <1>n
    <2> QED BY <2>3, <2>4 DEF Surjection
  <1> QED BY <1>2, <1>4, <1>5 DEF Rank

(* s holds the elements of S, each once, in order.                         *)
Ascends(s, R) == \A j \in DOMAIN s : \A i \in 1..j - 1 : <<s[i], s[j]>> \in R

(* What ORDER BY returns: in each place the row that many come before.     *)
Placed(R, S) ==
  LET row == [i \in 1..Cardinality(S) |-> CHOOSE p \in S : Rank(R, S, p) = i - 1]
  IN  SubSeq(row, 1, Cardinality(S))

LEMMA PlacedAscends ==
  ASSUME NEW S, IsFiniteSet(S), NEW R, Orders(R, S)
  PROVE  Placed(R, S) \in [1..Cardinality(S) -> S] /\ Ascends(Placed(R, S), R)
  <1> DEFINE n == Cardinality(S)
             s == [i \in 1..n |-> CHOOSE p \in S : Rank(R, S, p) = i - 1]
  <1>n. n \in Nat
    BY FS_CardinalityType
  <1>1. \A i \in 1..n : s[i] \in S /\ Rank(R, S, s[i]) = i - 1
    BY Ranks
  <1>2. s \in [1..n -> S]
    BY <1>1
  <1>3. ASSUME NEW j \in 1..n, NEW i \in 1..j - 1
        PROVE  <<s[i], s[j]>> \in R
    <2> HIDE DEF s, n
    <2>0. i \in 1..n
      BY <1>n
    <2>1. s[i] \in S /\ s[j] \in S /\ Rank(R, S, s[i]) = i - 1 /\ Rank(R, S, s[j]) = j - 1
      BY <1>1, <2>0
    <2>2. Rank(R, S, s[i]) < Rank(R, S, s[j])
      BY <2>1, <1>n
    <2> QED BY <2>1, <2>2, Ranks
  <1>4. Ascends(s, R)
    <2> HIDE DEF n
    <2> QED BY <1>2, <1>3 DEF Ascends
  <1>5. Placed(R, S) = s
    <2>1. Placed(R, S) = SubSeq(s, 1, n)
      BY Zenon DEF Placed
    <2> HIDE DEF s, n
    <2> QED BY <2>1, <1>2, <1>n
  <1> QED BY <1>2, <1>4, <1>5

LEMMA SortCovers ==
  ASSUME NEW S, IsFiniteSet(S), NEW R, Orders(R, S),
         NEW s \in [1..Cardinality(S) -> S], Ascends(s, R)
  PROVE  \A p \in S : \E i \in 1..Cardinality(S) : s[i] = p
  <1> DEFINE n == Cardinality(S)
  <1>n. n \in Nat
    BY FS_CardinalityType
  <1> HIDE DEF n
  <1>s. s \in [1..n -> S]
    BY DEF n
  <1>1. ASSUME NEW i \in 1..n, NEW j \in 1..n, s[i] = s[j]
        PROVE  i = j
    <2>1. ASSUME NEW k \in 1..n, NEW l \in 1..n, k < l
          PROVE  <<s[k], s[l]>> \in R
      <3>1. DOMAIN s = 1..n
        BY <1>s
      <3>2. k \in 1..l - 1
        BY <2>1, <1>n
      <3> QED BY <3>1, <3>2 DEF Ascends
    <2>2. s[i] \in S /\ <<s[i], s[i]>> \notin R
      BY <1>s DEF Orders
    <2> QED BY <2>1, <2>2, <1>1, <1>n
  <1>2. s \in Injection(1..n, S)
    BY <1>s, <1>1 DEF Injection, IsInjective
  <1>3. Cardinality(1..n) = n
    <2>1. 1 \in Int /\ n \in Int
      BY <1>n
    <2>2. Cardinality(1..n) = IF 1 > n THEN 0 ELSE n - 1 + 1
      BY <2>1, FS_Interval
    <2> QED BY <2>2, <1>n
  <1>4. s \in Surjection(1..n, S)
    <2>1. Cardinality(1..n) = Cardinality(S)
      BY <1>3 DEF n
    <2> QED BY <1>2, <2>1, FS_Injection
  <1>5. \A p \in S : \E i \in 1..n : s[i] = p
    BY <1>4 DEF Surjection
  <1> QED BY <1>5 DEF n

(* What a query returns that orders its rows.                              *)
Sorts(s, R, S) ==
  /\ s \in Seq(S)
  /\ Len(s) = Cardinality(S)
  /\ \A i, j \in 1..Len(s) : i < j => <<s[i], s[j]>> \in R
  /\ \A p \in S : \E i \in 1..Len(s) : s[i] = p

LEMMA SortsSet ==
  ASSUME NEW S, IsFiniteSet(S), NEW R, Orders(R, S)
  PROVE  Sorts(Placed(R, S), R, S)
  <1> DEFINE n == Cardinality(S)
             s == Placed(R, S)
  <1>n. n \in Nat
    BY FS_CardinalityType
  <1>1. s \in [1..n -> S] /\ Ascends(s, R)
    BY PlacedAscends
  <1>2. \A p \in S : \E i \in 1..n : s[i] = p
    BY <1>1, SortCovers
  <1>3. Sorts(s, R, S)
    <2> HIDE DEF s
    <2>1. s \in Seq(S) /\ Len(s) = n
      BY <1>1, <1>n
    <2>2. \A i, j \in 1..n : i < j => <<s[i], s[j]>> \in R
      <3> HIDE DEF n
      <3> QED BY <1>1, <1>n DEF Ascends
    <2> QED BY <2>1, <2>2, <1>2 DEF Sorts
  <1> QED BY <1>3

(* The orders of the queries: by time, newest first, and of positions.     *)
Pairs(S, Before(_, _)) == {pq \in S \X S : Before(pq[1], pq[2])}

Rows(S) ==
  /\ IsFiniteSet(S)
  /\ \A p \in S : p.ts \in Int /\ p.seq \in Int
  /\ \A p, q \in S : p.seq = q.seq => p = q

LEMMA SortedByTime ==
  ASSUME NEW S, Rows(S)
  PROVE  Sorts(OrderBy(S, ListBefore), Pairs(S, ListBefore), S)
  <1> DEFINE R == Pairs(S, ListBefore)
  <1>1. Orders(R, S)
    BY DEF Orders, Pairs, Rows, ListBefore, TextKey
  <1>2. \A p \in S : {q \in S : ListBefore(q, p)} = {q \in S : <<q, p>> \in R}
    BY DEF Pairs
  <1> HIDE DEF R
  <1>3. \A p \in S : Cardinality({q \in S : ListBefore(q, p)}) = Rank(R, S, p)
    BY <1>2, Zenon DEF Rank
  <1> DEFINE here(i) == CHOOSE p \in S : Cardinality({q \in S : ListBefore(q, p)}) = i - 1
             there(i) == CHOOSE p \in S : Rank(R, S, p) = i - 1
  <1>4. \A i \in 1..Cardinality(S) : here(i) = there(i)
    BY <1>3, Zenon
  <1>5. OrderBy(S, ListBefore) = SubSeq([i \in 1..Cardinality(S) |-> here(i)], 1, Cardinality(S))
    BY Zenon DEF OrderBy
  <1>6. Placed(R, S) = SubSeq([i \in 1..Cardinality(S) |-> there(i)], 1, Cardinality(S))
    BY Zenon DEF Placed
  <1> HIDE DEF here, there
  <1>7. OrderBy(S, ListBefore) = Placed(R, S)
    <2>1. [i \in 1..Cardinality(S) |-> here(i)] = [i \in 1..Cardinality(S) |-> there(i)]
      BY <1>4
    <2> QED BY <1>5, <1>6, <2>1, Zenon
  <1>8. Sorts(Placed(R, S), R, S)
    BY <1>1, SortsSet DEF Rows
  <1>9. Sorts(OrderBy(S, ListBefore), R, S)
    BY <1>7, <1>8, Zenon
  <1> QED BY <1>9 DEF R

LEMMA SortedPositions ==
  ASSUME NEW S \in SUBSET Int, IsFiniteSet(S)
  PROVE  Sorts(OrderBy(S, <), {pq \in S \X S : pq[1] < pq[2]}, S)
  <1> DEFINE R == {pq \in S \X S : pq[1] < pq[2]}
  <1>1. Orders(R, S)
    BY DEF Orders
  <1>2. \A p \in S : {q \in S : q < p} = {q \in S : <<q, p>> \in R}
    OBVIOUS
  <1> HIDE DEF R
  <1>3. \A p \in S : Cardinality({q \in S : q < p}) = Rank(R, S, p)
    BY <1>2, Zenon DEF Rank
  <1> DEFINE here(i) == CHOOSE p \in S : Cardinality({q \in S : q < p}) = i - 1
             there(i) == CHOOSE p \in S : Rank(R, S, p) = i - 1
  <1>4. \A i \in 1..Cardinality(S) : here(i) = there(i)
    BY <1>3, Zenon
  <1>5. OrderBy(S, <) = SubSeq([i \in 1..Cardinality(S) |-> here(i)], 1, Cardinality(S))
    BY Zenon DEF OrderBy
  <1>6. Placed(R, S) = SubSeq([i \in 1..Cardinality(S) |-> there(i)], 1, Cardinality(S))
    BY Zenon DEF Placed
  <1> HIDE DEF here, there
  <1>7. OrderBy(S, <) = Placed(R, S)
    <2>1. [i \in 1..Cardinality(S) |-> here(i)] = [i \in 1..Cardinality(S) |-> there(i)]
      BY <1>4
    <2> QED BY <1>5, <1>6, <2>1, Zenon
  <1>8. Sorts(Placed(R, S), R, S)
    BY <1>1, SortsSet
  <1>9. Sorts(OrderBy(S, <), R, S)
    BY <1>7, <1>8, Zenon
  <1> QED BY <1>9 DEF R

(* at lists the positions that are kept.                                   *)
Keeps(t, s, I, at) ==
  /\ at \in Seq(I) /\ Len(at) = Cardinality(I)
  /\ \A i, j \in 1..Len(at) : i < j => at[i] < at[j]
  /\ \A k \in I : \E i \in 1..Len(at) : at[i] = k
  /\ t \in Seq({s[k] : k \in I}) /\ Len(t) = Len(at)
  /\ \A i \in 1..Len(at) : t[i] = s[at[i]]

LEMMA KeptRows ==
  ASSUME NEW S, NEW s \in Seq(S), NEW I \in SUBSET (1..Len(s))
  PROVE  \E at : Keeps(RowsAt(s, I), s, I, at)
  <1> DEFINE at == OrderBy(I, <)
             t == [j \in DOMAIN at |-> s[at[j]]]
  <1>1. IsFiniteSet(I) /\ I \in SUBSET Int
    <2>1. Len(s) \in Nat
      OBVIOUS
    <2>2. IsFiniteSet(1..Len(s))
      BY <2>1, FS_Interval
    <2>3. IsFiniteSet(I)
      BY <2>2, FS_Subset
    <2> QED BY <2>1, <2>3
  <1>2. Sorts(at, {pq \in I \X I : pq[1] < pq[2]}, I)
    BY <1>1, SortedPositions
  <1>3. RowsAt(s, I) = t
    BY DEF RowsAt
  <1> HIDE DEF at
  <1>4. at \in Seq(I) /\ Len(at) = Cardinality(I) /\ Len(at) \in Nat /\ DOMAIN at = 1..Len(at)
    BY <1>2 DEF Sorts
  <1>5. \A i, j \in 1..Len(at) : i < j => at[i] < at[j]
    BY <1>2, <1>4 DEF Sorts
  <1>6. \A k \in I : \E i \in 1..Len(at) : at[i] = k
    BY <1>2 DEF Sorts
  <1>7. t \in Seq({s[k] : k \in I}) /\ Len(t) = Len(at)
    <2>1. ASSUME NEW j \in 1..Len(at)
          PROVE  s[at[j]] \in {s[k] : k \in I}
      <3>1. at[j] \in I
        BY <1>4
      <3> QED BY <3>1
    <2> QED BY <2>1, <1>4
  <1>8. \A i \in 1..Len(at) : t[i] = s[at[i]]
    BY <1>4
  <1> HIDE DEF t
  <1>9. Keeps(t, s, I, at)
    BY <1>4, <1>5, <1>6, <1>7, <1>8 DEF Keeps
  <1> QED BY <1>3, <1>9

-----------------------------------------------------------------------------
(* The detector.                                                           *)

LEMMA WindowEnds ==
  ASSUME NEW pts, Len(pts) \in Nat, NEW i \in 1..Len(pts)
  PROVE  WindowEnd(pts, i) \in i..Len(pts)
  <1> DEFINE n == Len(pts)
             B == {j \in (i + 1)..n : ~WindowWithinRadius(pts, i, j)}
             Ends(e) == /\ \A j \in i + 1..e : WindowWithinRadius(pts, i, j)
                        /\ e < n => ~WindowWithinRadius(pts, i, e + 1)
  <1>1. \E e \in i..n : Ends(e)
    <2>1. CASE B = {}
      <3>1. n \in i..n /\ Ends(n)
        BY <2>1
      <3> QED BY <3>1
    <2>2. CASE B # {}
      <3>1. PICK b \in B : \A j \in B : ~(j < b)
        <4>1. B \in SUBSET Nat
          OBVIOUS
        <4> HIDE DEF B
        <4> QED BY <2>2, <4>1, FirstOf
      <3>2. b - 1 \in i..n /\ (b - 1) + 1 = b
        OBVIOUS
      <3>3. \A j \in i + 1..(b - 1) : WindowWithinRadius(pts, i, j)
        BY <3>1
      <3>4. Ends(b - 1)
        BY <3>1, <3>2, <3>3
      <3> HIDE DEF Ends
      <3> QED BY <3>2, <3>4
    <2> QED BY <2>1, <2>2
  <1>2. WindowEnd(pts, i) = CHOOSE e \in i..n : Ends(e)
    BY DEF WindowEnd
  <1> HIDE DEF Ends, n
  <1>3. WindowEnd(pts, i) \in i..n
    BY <1>1, <1>2
  <1> QED BY <1>3 DEF n

LEMMA SumTyped ==
  ASSUME NEW pts, NEW i \in Nat \ {0}, NEW j \in Nat, i <= j,
         \A k \in i..j : pts[k].pos \in Int
  PROVE  SumOf(pts, i, j) \in Int
  <1> DEFINE n == j - i + 1
             IsSum(f) == f = [k \in i - 1..j |-> IF k < i THEN 0 ELSE f[k - 1] + pts[k].pos]
             prev == [m \in 1..n |-> m - 1]
             step == [m \in 1..n |-> [v \in Int |-> v + pts[i - 1 + m].pos]]
             sum == CHOOSE f : IsSum(f)
  <1>1. n \in Nat /\ \A m \in 1..n : i - 1 + m \in i..j /\ pts[i - 1 + m].pos \in Int
    OBVIOUS
  <1>2. \E f : IsSum(f)
    <2>1. step \in [1..n -> [Int -> Int]] /\ \A m \in 1..n : prev[m] \in 0..(m - 1)
      BY <1>1
    <2>2. \A m \in 1..n : prev[m] = m - 1 /\ \A v \in Int : step[m][v] = v + pts[i - 1 + m].pos
      OBVIOUS
    <2> HIDE DEF step, prev
    <2>3. PICK g \in [0..n -> Int] : Recurs(g, n, 0, prev, step)
      <3>1. n \in Nat /\ 0 \in Int
        BY <1>1
      <3> HIDE DEF n
      <3> QED BY <2>1, <3>1, Recursive
    <2> DEFINE f == [k \in i - 1..j |-> g[k - (i - 1)]]
    <2>4. ASSUME NEW k \in i - 1..j
          PROVE  f[k] = IF k < i THEN 0 ELSE f[k - 1] + pts[k].pos
      <3>1. CASE k < i
        <4>1. k - (i - 1) = 0
          BY <3>1
        <4> QED BY <2>3, <3>1, <4>1 DEF Recurs
      <3>2. CASE ~(k < i)
        <4> DEFINE m == k - (i - 1)
        <4>1. m \in 1..n /\ i - 1 + m = k /\ k - 1 \in i - 1..j /\ (k - 1) - (i - 1) = m - 1
              /\ m - 1 \in 0..n
          BY <3>2
        <4>2. f[k] = g[m] /\ f[k - 1] = g[m - 1]
          BY <4>1
        <4> HIDE DEF m, f, n
        <4>3. g[m] = step[m][g[m - 1]]
          BY <2>2, <2>3, <4>1 DEF Recurs
        <4>4. g[m - 1] \in Int
          BY <4>1
        <4>5. g[m] = g[m - 1] + pts[k].pos
          BY <2>2, <4>1, <4>3, <4>4
        <4> QED BY <3>2, <4>2, <4>5
      <3> QED BY <3>1, <3>2
    <2> HIDE DEF n
    <2>5. f = [k \in i - 1..j |-> f[k]]
      OBVIOUS
    <2>6. IsSum(f)
      <3> HIDE DEF f
      <3> QED BY <2>4, <2>5
    <2> QED BY <2>6
  <1>3. IsSum(sum)
    BY <1>2, Zenon
  <1>4. SumOf(pts, i, j) = sum[j]
    BY Zenon DEF SumOf
  <1> HIDE DEF sum
  <1>5. \A k \in i - 1..j : sum[k] = IF k < i THEN 0 ELSE sum[k - 1] + pts[k].pos
    BY <1>3
  <1> HIDE DEF IsSum
  <1> DEFINE G == {m \in 0..n : sum[i - 1 + m] \in Int}
  <1>6. 0 \in G
    BY <1>1, <1>5
  <1>7. ASSUME NEW m \in 1..n, m - 1 \in G
        PROVE  m \in G
    <2>1. i - 1 + m \in i..j /\ i - 1 + m \in i - 1..j /\ (i - 1 + m) - 1 = i - 1 + (m - 1)
      OBVIOUS
    <2>2. sum[i - 1 + m] = sum[i - 1 + (m - 1)] + pts[i - 1 + m].pos
      BY <1>5, <2>1
    <2>3. sum[i - 1 + (m - 1)] \in Int
      BY <1>7
    <2> QED BY <1>1, <2>2, <2>3
  <1>8. n \in 0..n /\ i - 1 + n = j
    BY <1>1
  <1> HIDE DEF G
  <1>9. n \in G
    BY <1>1, <1>6, <1>7, <1>8, Climb, Zenon
  <1> QED BY <1>4, <1>8, <1>9 DEF G

(* What the scan finds from each point on.                                 *)
Scan(f, pts, dwell) ==
  \A i \in 1..Len(pts) + 1 :
    f[i] = IF i > Len(pts) THEN <<>>
           ELSE IF IsVisit(pts, i, dwell)
                THEN <<VisitFrom(pts, i)>> \o f[WindowEnd(pts, i) + 1]
                ELSE f[i + 1]

LEMMA DetectScans ==
  ASSUME NEW pts, Len(pts) \in Nat, NEW dwell
  PROVE  \E f : Scan(f, pts, dwell) /\ Detect(pts, dwell) = f[1]
  <1> DEFINE n == Len(pts)
             IsFound(f) == f = [i \in 1..Len(pts) + 1 |->
                                  IF i > Len(pts) THEN <<>>
                                  ELSE IF IsVisit(pts, i, dwell)
                                       THEN <<VisitFrom(pts, i)>> \o f[WindowEnd(pts, i) + 1]
                                       ELSE f[i + 1]]
             V == Seq({VisitFrom(pts, i) : i \in 1..n})
             next(i) == IF IsVisit(pts, i, dwell) THEN WindowEnd(pts, i) + 1 ELSE i + 1
             prev == [m \in 1..n |-> n + 1 - next(n + 1 - m)]
             step == [m \in 1..n |-> [v \in V |->
                        IF IsVisit(pts, n + 1 - m, dwell)
                          THEN <<VisitFrom(pts, n + 1 - m)>> \o v ELSE v]]
             seen == CHOOSE f : IsFound(f)
  <1>1. \A i \in 1..n : next(i) \in (i + 1)..(n + 1)
    BY WindowEnds
  <1>2. \E f : IsFound(f)
    <2>1. \A m \in 1..n : prev[m] \in 0..(m - 1)
      <3> TAKE m \in 1..n
      <3>1. n + 1 - m \in 1..n
        OBVIOUS
      <3>2. next(n + 1 - m) \in (n + 1 - m + 1)..(n + 1)
        BY <1>1, <3>1
      <3> HIDE DEF next
      <3> QED BY <3>2
    <2>2. step \in [1..n -> [V -> V]]
      <3>1. ASSUME NEW m \in 1..n, NEW v \in V
            PROVE  <<VisitFrom(pts, n + 1 - m)>> \o v \in V
        <4>1. n + 1 - m \in 1..n
          OBVIOUS
        <4> DEFINE S == {VisitFrom(pts, i) : i \in 1..n}
        <4>2. VisitFrom(pts, n + 1 - m) \in S /\ v \in Seq(S)
          BY <4>1
        <4> HIDE DEF S, n
        <4>3. <<VisitFrom(pts, n + 1 - m)>> \o v \in Seq(S)
          BY <4>2
        <4> QED BY <4>3 DEF S
      <3> HIDE DEF V
      <3> QED BY <3>1
    <2>3. <<>> \in V
      OBVIOUS
    <2>4. \A m \in 1..n : /\ prev[m] = n + 1 - next(n + 1 - m)
                          /\ \A v \in V : step[m][v] = IF IsVisit(pts, n + 1 - m, dwell)
                               THEN <<VisitFrom(pts, n + 1 - m)>> \o v ELSE v
      OBVIOUS
    <2>5. n \in Nat
      OBVIOUS
    <2> HIDE DEF V, step, prev, next, n
    <2>6. PICK g \in [0..n -> V] : Recurs(g, n, <<>>, prev, step)
      BY <2>1, <2>2, <2>3, <2>5, Recursive
    <2> DEFINE f == [i \in 1..n + 1 |-> g[n + 1 - i]]
    <2>7. ASSUME NEW i \in 1..n + 1
          PROVE  f[i] = IF i > n THEN <<>>
                        ELSE IF IsVisit(pts, i, dwell)
                             THEN <<VisitFrom(pts, i)>> \o f[WindowEnd(pts, i) + 1]
                             ELSE f[i + 1]
      <3>1. CASE i > n
        <4>1. n + 1 - i = 0
          BY <2>5, <3>1
        <4> QED BY <2>6, <3>1, <4>1 DEF Recurs
      <3>2. CASE ~(i > n)
        <4>1. PICK m \in 1..n : m = n + 1 - i
          BY <2>5, <3>2
        <4>2. n + 1 - m = i /\ i \in 1..n
          BY <2>5, <3>2, <4>1
        <4>3. next(i) \in 1..n + 1 /\ prev[m] = n + 1 - next(i) /\ prev[m] \in 0..n
          <5> HIDE DEF f, IsFound, seen
          <5>1. next(i) \in (i + 1)..(n + 1) /\ prev[m] \in 0..(m - 1)
            BY <1>1, <2>1, <4>2
          <5>2. prev[m] = n + 1 - next(n + 1 - m)
            BY <2>4
          <5>3. prev[m] = n + 1 - next(i)
            BY <4>2, <5>2
          <5> QED BY <2>5, <5>1, <5>3
        <4>4. f[i] = g[m] /\ f[next(i)] = g[prev[m]]
          BY <4>1, <4>3
        <4>5. g[prev[m]] \in V
          BY <4>3
        <4>6. g[m] = step[m][g[prev[m]]]
          BY <2>6 DEF Recurs
        <4>7. f[i] = IF IsVisit(pts, i, dwell) THEN <<VisitFrom(pts, i)>> \o f[next(i)] ELSE f[next(i)]
          BY <2>4, <4>2, <4>4, <4>5, <4>6
        <4> HIDE DEF f
        <4> QED BY <3>2, <4>7 DEF next
      <3> QED BY <3>1, <3>2
    <2>8. IsFound(f)
      <3>1. f = [i \in 1..n + 1 |-> f[i]]
        OBVIOUS
      <3> HIDE DEF f
      <3> QED BY <2>7, <3>1 DEF n
    <2> QED BY <2>8
  <1>3. IsFound(seen)
    BY <1>2, Zenon
  <1>4. Detect(pts, dwell) = seen[1]
    BY Zenon DEF Detect
  <1> HIDE DEF seen
  <1>5. Scan(seen, pts, dwell)
    BY <1>3 DEF Scan
  <1> QED BY <1>4, <1>5

(* A visit from its first to its last point.                               *)
Stay(v, pts, dwell, a, e) ==
  /\ a \in 1..Len(pts) /\ e \in (a + 1)..Len(pts)
  /\ v.start = pts[a].ts /\ v.end = pts[e].ts /\ v.count = e - a + 1
  /\ v.end - v.start >= dwell

(* Visits one after the other, the first from point i on.                  *)
Stays(f, pts, dwell, i) ==
  /\ f \in Seq(Visit)
  /\ \A k \in 1..Len(f) : \E a \in i..Len(pts), e \in 1..Len(pts) : Stay(f[k], pts, dwell, a, e)
  /\ \A k, l \in 1..Len(f) : k < l =>
       \E a, e, b, z \in 1..Len(pts) :
         Stay(f[k], pts, dwell, a, e) /\ Stay(f[l], pts, dwell, b, z) /\ e < b

LEMMA StaysFrom ==
  ASSUME NEW f, NEW pts, NEW dwell, NEW i \in Nat, NEW j \in Nat, i <= j, Stays(f, pts, dwell, j),
         Len(pts) \in Nat
  PROVE  Stays(f, pts, dwell, i)
  <1>1. \A a \in j..Len(pts) : a \in i..Len(pts)
    OBVIOUS
  <1> QED BY <1>1 DEF Stays

LEMMA StaysGrow ==
  ASSUME NEW f, NEW pts, NEW dwell, Len(pts) \in Nat, NEW i \in 1..Len(pts),
         NEW e \in 1..Len(pts), NEW v \in Visit, Stay(v, pts, dwell, i, e),
         Stays(f, pts, dwell, e + 1)
  PROVE  Stays(<<v>> \o f, pts, dwell, i)
  <1> DEFINE g == <<v>> \o f
  <1>1. f \in Seq(Visit) /\ Len(f) \in Nat
    BY DEF Stays
  <1>2. g \in Seq(Visit) /\ Len(g) = Len(f) + 1 /\ g[1] = v /\ \A k \in 1..Len(f) : g[k + 1] = f[k]
    BY <1>1
  <1> HIDE DEF g
  <1>3. e \in (i + 1)..Len(pts)
    BY DEF Stay
  <1>4. ASSUME NEW k \in 1..Len(g), k # 1
        PROVE  k - 1 \in 1..Len(f) /\ g[k] = f[k - 1]
    <2>1. k - 1 \in 1..Len(f) /\ (k - 1) + 1 = k
      BY <1>1, <1>2, <1>4
    <2> QED BY <1>2, <2>1
  <1>5. ASSUME NEW k \in 1..Len(g)
        PROVE  \E a \in i..Len(pts), z \in 1..Len(pts) : Stay(g[k], pts, dwell, a, z)
    <2>1. CASE k = 1
      <3>1. i \in i..Len(pts)
        OBVIOUS
      <3> QED BY <1>2, <2>1, <3>1
    <2>2. CASE k # 1
      <3>1. k - 1 \in 1..Len(f) /\ g[k] = f[k - 1]
        BY <1>4, <2>2
      <3>2. PICK a \in (e + 1)..Len(pts), z \in 1..Len(pts) : Stay(f[k - 1], pts, dwell, a, z)
        BY <3>1 DEF Stays
      <3>3. a \in i..Len(pts)
        BY <1>3
      <3> QED BY <3>1, <3>2, <3>3
    <2> QED BY <2>1, <2>2
  <1>6. ASSUME NEW k \in 1..Len(g), NEW l \in 1..Len(g), k < l
        PROVE  \E a, z, b, y \in 1..Len(pts) :
                 Stay(g[k], pts, dwell, a, z) /\ Stay(g[l], pts, dwell, b, y) /\ z < b
    <2>1. l - 1 \in 1..Len(f) /\ g[l] = f[l - 1]
      BY <1>4, <1>6
    <2>2. CASE k = 1
      <3>1. PICK b \in (e + 1)..Len(pts), y \in 1..Len(pts) : Stay(f[l - 1], pts, dwell, b, y)
        BY <2>1 DEF Stays
      <3>2. b \in 1..Len(pts) /\ e < b
        OBVIOUS
      <3> QED BY <1>2, <2>1, <2>2, <3>1, <3>2
    <2>3. CASE k # 1
      <3>1. k - 1 \in 1..Len(f) /\ g[k] = f[k - 1] /\ k - 1 < l - 1
        BY <1>4, <1>6, <2>3
      <3> QED BY <2>1, <3>1 DEF Stays
    <2> QED BY <2>2, <2>3
  <1>7. Stays(g, pts, dwell, i)
    BY <1>2, <1>5, <1>6 DEF Stays
  <1> QED BY <1>7 DEF g

LEMMA Detected ==
  ASSUME NEW pts \in Seq(Point), NEW dwell \in Int
  PROVE  Stays(Detect(pts, dwell), pts, dwell, 1)
  <1> DEFINE n == Len(pts)
  <1>0. n \in Nat
    OBVIOUS
  <1>1. PICK f : Scan(f, pts, dwell) /\ Detect(pts, dwell) = f[1]
    BY <1>0, DetectScans
  <1> DEFINE G == {m \in 0..n : Stays(f[n + 1 - m], pts, dwell, n + 1 - m)}
  <1>2. 0 \in G
    <2>1. f[n + 1] = <<>>
      <3>1. n + 1 \in 1..Len(pts) + 1 /\ n + 1 > Len(pts)
        BY <1>0
      <3> QED BY <1>1, <3>1 DEF Scan
    <2>2. Stays(<<>>, pts, dwell, n + 1)
      BY DEF Stays
    <2>3. n + 1 - 0 = n + 1
      BY <1>0
    <2> QED BY <1>0, <2>1, <2>2, <2>3
  <1>3. ASSUME NEW m \in 1..n, \A k \in 0..(m - 1) : k \in G
        PROVE  m \in G
    <2>1. PICK i \in 1..n : i = n + 1 - m
      BY <1>0
    <2>2. ASSUME NEW j \in (i + 1)..(n + 1)
          PROVE  Stays(f[j], pts, dwell, j)
      <3>1. n + 1 - j \in 0..(m - 1) /\ n + 1 - (n + 1 - j) = j
        BY <1>0, <2>1
      <3> QED BY <1>3, <3>1
    <2>3. WindowEnd(pts, i) \in i..n
      BY <1>0, WindowEnds
    <2>4. Stays(f[i], pts, dwell, i)
      <3> HIDE DEF G
      <3>1. CASE IsVisit(pts, i, dwell)
        <4>1. PICK e \in 1..n : e = WindowEnd(pts, i) /\ e \in (i + 1)..n
          BY <2>3, <3>1 DEF IsVisit
        <4> DEFINE v == VisitFrom(pts, i)
        <4>2. \A k \in i..e : pts[k].pos \in Int
          <5> TAKE k \in i..e
          <5>1. pts[k] \in Point
            BY <1>0, <4>1
          <5> QED BY <5>1 DEF Point
        <4>3. pts[i].ts \in Int /\ pts[e].ts \in Int
          <5>1. pts[i] \in Point /\ pts[e] \in Point
            BY <1>0, <4>1
          <5> QED BY <5>1 DEF Point
        <4>4. SumOf(pts, i, e) \in Int
          <5>1. i \in Nat \ {0} /\ e \in Nat /\ i <= e
            BY <1>0, <4>1
          <5> QED BY <4>2, <5>1, SumTyped
        <4>5. v = [start |-> pts[i].ts, end |-> pts[e].ts, sum |-> SumOf(pts, i, e),
                   count |-> e - i + 1]
          BY <4>1 DEF VisitFrom
        <4> HIDE DEF v
        <4>6. e - i + 1 \in Nat
          BY <4>1
        <4>7. v \in Visit
          BY <4>3, <4>4, <4>5, <4>6 DEF Visit
        <4>8. Stay(v, pts, dwell, i, e)
          <5>1. pts[e].ts - pts[i].ts >= dwell
            BY <3>1, <4>1 DEF IsVisit
          <5> QED BY <4>1, <4>5, <5>1 DEF Stay
        <4>9. Stays(f[e + 1], pts, dwell, e + 1)
          BY <2>2, <4>1
        <4>10. f[i] = <<v>> \o f[e + 1]
          <5>1. i \in 1..n + 1 /\ ~(i > n)
            BY <1>0
          <5> QED BY <1>1, <3>1, <4>1, <5>1 DEF Scan, v
        <4>11. Stays(<<v>> \o f[e + 1], pts, dwell, i)
          BY <1>0, <4>7, <4>8, <4>9, StaysGrow
        <4> QED BY <4>10, <4>11
      <3>2. CASE ~IsVisit(pts, i, dwell)
        <4>1. f[i] = f[i + 1]
          <5>1. i \in 1..n + 1 /\ ~(i > n)
            BY <1>0
          <5> QED BY <1>1, <3>2, <5>1 DEF Scan
        <4>2. i + 1 \in (i + 1)..(n + 1)
          BY <1>0
        <4>3. Stays(f[i], pts, dwell, i + 1)
          BY <2>2, <4>1, <4>2
        <4> QED BY <1>0, <4>3, StaysFrom
      <3> QED BY <3>1, <3>2
    <2> QED BY <2>1, <2>4
  <1> HIDE DEF G
  <1>4. n \in G
    <2> DEFINE H == {m \in 0..n : \A k \in 0..m : k \in G}
    <2>1. 0 \in H
      BY <1>0, <1>2
    <2>2. ASSUME NEW m \in 1..n, m - 1 \in H
          PROVE  m \in H
      <3>1. m \in G
        BY <1>3, <2>2
      <3>2. \A k \in 0..m : k \in 0..(m - 1) \/ k = m
        OBVIOUS
      <3> QED BY <2>2, <3>1, <3>2
    <2>3. n \in 0..n
      BY <1>0
    <2> HIDE DEF H, n
    <2>4. n \in H
      BY <1>0, <2>1, <2>2, <2>3, Climb, Zenon
    <2> QED BY <2>3, <2>4 DEF H
  <1>5. n + 1 - n = 1
    BY <1>0
  <1> QED BY <1>1, <1>4, <1>5 DEF G

-----------------------------------------------------------------------------
(* The inductive invariant.  Its parts are about sets of points, so that   *)
(* they can be compared before and after a step.                           *)

(* VisitsBacked, of one row.                                               *)
BackedIn(v, S) ==
  /\ \E p, q \in S : p.ts = v.start /\ q.ts = v.end
  /\ \E dwell \in ManualDwells \cup {MinDwell} : v.end - v.start >= dwell
  /\ v.count <= Cardinality({p \in S : TextLE(v.start, p.ts) /\ TextLE(p.ts, v.end)})

(* Visits that follow each other.                                          *)
Chain(f) ==
  /\ \A k \in 1..Len(f) : TextKey(f[k].start) < TextKey(f[k].end)
  /\ \A k, l \in 1..Len(f) : k < l => TextLE(f[k].end, f[l].start)

(* What was found in a window and waits to be written.                     *)
FoundOK(f, S, w) ==
  /\ f \in Seq(Visit) /\ Chain(f)
  /\ \A k \in 1..Len(f) : BackedIn(f[k], S) /\ InWindow(f[k].start, w)

WholeOf(S) == Detect(OrderBy(S, ListBefore), MinDwell)

MaxOf(S) == IF S = {} THEN 0 ELSE CHOOSE m \in {p.seq : p \in S} : \A p \in S : p.seq <= m

Near(S) == \A p, q \in S : TextLE(p.ts - Lookback, q.ts)

TablesOK ==
  /\ IsFiniteSet(devices)
  /\ \A d \in devices, e \in DeviceIDs : e < d => e \in devices
  /\ \A d \in DeviceIDs : Rows(points[d])
  /\ \A d \in DeviceIDs : watermark[d] = 0 \/ \E p \in points[d] : p.seq = watermark[d]

Current == Head(todo)

(* Where processDevice is with a device: S its points, L the late ones, mk *)
(* its watermark, rows its visits.  The watermark lags behind what has been *)
(* read, so that CaughtUp claims nothing until it has been moved.          *)
StageOK(pc, S, L, mk, m, w, f, rows, hand) ==
  /\ pc \in {"list", "rewrite", "mark"} =>
       /\ \E p \in S : p.seq = m
       /\ mk < m
       /\ w.to = Nil
       /\ w.from = Nil \/ \E q \in S : w.from = q.ts - Lookback
  /\ pc = "rewrite" => FoundOK(f, S, w)
  /\ pc \in {"rewrite", "mark"} => (Near(S) /\ MaxOf(S) = m => f = WholeOf(S \ L))
  /\ pc = "mark" => (~hand /\ Near(S) => rows = f)

ProcessOK ==
  /\ spc # "idle" => todo # <<>>
  /\ StageOK(spc, points[Current], late[Current], watermark[Current], maxSeq, window, found,
             visits[Current], Current \in byHand)

ManualOK == manual # Nil => FoundOK(manual.found, points[manual.device], manual.window)

RowsBacked == \A d \in DeviceIDs : \A i \in 1..Len(visits[d]) : BackedIn(visits[d][i], points[d])

StartsApart ==
  \A d \in DeviceIDs : \A i, j \in 1..Len(visits[d]) :
    i # j => visits[d][i].start # visits[d][j].start

Marked ==
  \A d \in DeviceIDs \ byHand :
    watermark[d] >= MaxOf(points[d]) /\ Near(points[d]) =>
      visits[d] = WholeOf(points[d] \ late[d])

(* OverlapOnlyAtCut, of the rows f and the cuts C of one device.           *)
CutBetween(f, C) ==
  \A i, j \in 1..Len(f) :
    i # j /\ TextLE(f[i].start, f[j].start) /\ ~TextLE(f[i].end, f[j].start) =>
      \E c \in C : ~TextLE(c, f[i].start) /\ TextLE(c, f[j].start)

CutsOK == \A d \in DeviceIDs \ byHand : CutBetween(visits[d], cuts[d])

(* The place of a device in the list, and how far it is from its turn.     *)
Pos(d, D) == Cardinality({e \in D : e < d})

Turn(d, D, s) == IF Pos(d, D) >= s THEN Pos(d, D) - s ELSE Cardinality(D) - s + Pos(d, D)

(* What a device has waited and still has to wait is less than a round.    *)
TurnsOK ==
  /\ roundRobinStart = 0 \/ roundRobinStart < Cardinality(devices)
  /\ \A d \in DeviceIDs \ devices : waited[d] = 0
  /\ \A d \in devices :
       waited[d] * DeviceBatchSize + Turn(d, devices, roundRobinStart) < Cardinality(devices)

TableInv == TablesOK /\ RowsBacked /\ StartsApart

RowsInv == TypeOK /\ TableInv /\ ProcessOK /\ ManualOK /\ Marked /\ CutsOK

VisitsInv == RowsInv /\ TurnsOK

-----------------------------------------------------------------------------
(* Facts about the parts.                                                  *)

(* The points that a rebuild of a window lists.                            *)
Inside(S, w) == {p \in S : InWindow(p.ts, w)}

Listing(S, w) == OrderBy(Inside(S, w), ListBefore)

LEMMA RowsInside ==
  ASSUME NEW S, NEW T \in SUBSET S, Rows(S)
  PROVE  Rows(T)
  <1>1. IsFiniteSet(T)
    BY FS_Subset DEF Rows
  <1> QED BY <1>1 DEF Rows

LEMMA MaxOfRows ==
  ASSUME NEW S, Rows(S), S # {}
  PROVE  /\ \E p \in S : p.seq = MaxOf(S)
         /\ \A p \in S : p.seq <= MaxOf(S)
  <1> DEFINE R == {pq \in S \X S : pq[1].seq > pq[2].seq}
             m == CHOOSE k \in {p.seq : p \in S} : \A p \in S : p.seq <= k
  <1>1. Orders(R, S)
    BY DEF Orders, Rows
  <1>2. \A p, q \in S : <<p, q>> \in R <=> p.seq > q.seq
    OBVIOUS
  <1>3. IsFiniteSet(S) /\ Cardinality(S) \in Nat /\ Cardinality(S) # 0
    BY FS_CardinalityType, FS_EmptySet DEF Rows
  <1> HIDE DEF R
  <1>4. PICK p \in S : Rank(R, S, p) = 0
    <2>1. \A i \in 1..Cardinality(S) : \E p \in S : Rank(R, S, p) = i - 1
      BY <1>1, <1>3, Ranks, Zenon
    <2>2. 1 \in 1..Cardinality(S) /\ 1 - 1 = 0
      BY <1>3
    <2> QED BY <2>1, <2>2
  <1>5. \A q \in S : q.seq <= p.seq
    <2> DEFINE U == {q \in S : <<q, p>> \in R}
    <2>1. IsFiniteSet(U)
      BY <1>3, FS_Subset
    <2>2. Cardinality(U) = 0
      BY <1>4 DEF Rank
    <2>3. U = {}
      BY <2>1, <2>2, FS_EmptySet
    <2>4. \A q \in S : ~(q.seq > p.seq)
      BY <2>3, <1>2
    <2> QED BY <2>4 DEF Rows
  <1>6. MaxOf(S) = m
    BY DEF MaxOf
  <1>7. m \in {q.seq : q \in S} /\ \A q \in S : q.seq <= m
    BY <1>5
  <1> HIDE DEF m
  <1> QED BY <1>6, <1>7

LEMMA AtLeast ==
  ASSUME NEW S, IsFiniteSet(S), NEW a \in Nat, NEW e \in Nat, a <= e,
         NEW s, \A i \in a..e : s[i] \in S,
         \A i, j \in a..e : s[i] = s[j] => i = j
  PROVE  e - a + 1 <= Cardinality(S)
  <1> DEFINE t == [i \in a..e |-> s[i]]
  <1>1. t \in Injection(a..e, S)
    <2>1. t \in [a..e -> S]
      OBVIOUS
    <2>2. \A i, j \in a..e : t[i] = t[j] => i = j
      OBVIOUS
    <2> QED BY <2>1, <2>2 DEF Injection, IsInjective
  <1>2. a \in Int /\ e \in Int
    OBVIOUS
  <1>3. Cardinality(a..e) = IF a > e THEN 0 ELSE e - a + 1
    BY <1>2, FS_Interval
  <1>4. Cardinality(a..e) <= Cardinality(S)
    BY <1>1, FS_Injection
  <1> QED BY <1>3, <1>4

LEMMA Dwells ==
  /\ MinDwell \in ManualDwells \cup {MinDwell}
  /\ \A dwell \in ManualDwells \cup {MinDwell} : dwell \in Int /\ dwell >= 1
  BY SchedulerAssumption

LEMMA TextKeys ==
  /\ \A t \in Int : TextKey(t) \in Int
  /\ \A t, u \in Int : TextKey(t) = TextKey(u) <=> t = u
  BY DEF TextKey

LEMMA ListedBefore ==
  ASSUME NEW p, NEW q, p.ts \in Int, q.ts \in Int, p.seq \in Int, q.seq \in Int,
         ListBefore(p, q)
  PROVE  /\ TextLE(p.ts, q.ts)
         /\ p # q
         /\ p.ts # q.ts => TextKey(p.ts) < TextKey(q.ts)
  <1>1. TextKey(p.ts) <= TextKey(q.ts)
    BY DEF ListBefore, TextKey
  <1>2. p # q
    BY DEF ListBefore, TextKey
  <1> QED BY <1>1, <1>2 DEF ListBefore, TextLE

(* What is detected in a window, of the points that are there.             *)
LEMMA FoundIn ==
  ASSUME NEW S \in SUBSET Point, Rows(S), NEW w, NEW dwell \in ManualDwells \cup {MinDwell}
  PROVE  FoundOK(Detect(Listing(S, w), dwell), S, w)
  <1> DEFINE T == Inside(S, w)
             R == Pairs(T, ListBefore)
             pts == Listing(S, w)
             f == Detect(pts, dwell)
  <1>1. T \in SUBSET S /\ T \in SUBSET Point /\ \A p \in T : InWindow(p.ts, w)
    BY DEF Inside
  <1>2. Rows(T)
    BY <1>1, RowsInside
  <1> HIDE DEF T
  <1>3. Sorts(pts, R, T)
    BY <1>2, SortedByTime DEF Listing, T
  <1> HIDE DEF pts
  <1>4. pts \in Seq(T) /\ Len(pts) \in Nat /\ \A i \in 1..Len(pts) : pts[i] \in T
    BY <1>3 DEF Sorts
  <1>5. pts \in Seq(Point)
    BY <1>1, <1>4
  <1>6. \A i, j \in 1..Len(pts) : i < j => ListBefore(pts[i], pts[j])
    <2>1. \A i, j \in 1..Len(pts) : i < j => <<pts[i], pts[j]>> \in R
      BY <1>3 DEF Sorts
    <2> QED BY <2>1 DEF Pairs
  <1>7. \A i \in 1..Len(pts) : pts[i].ts \in Int /\ pts[i].seq \in Int
    BY <1>2, <1>4 DEF Rows
  <1>8. \A i, j \in 1..Len(pts) : i <= j => TextLE(pts[i].ts, pts[j].ts)
    <2> TAKE i, j \in 1..Len(pts)
    <2>1. pts[i].ts \in Int /\ pts[j].ts \in Int /\ pts[i].seq \in Int /\ pts[j].seq \in Int
      BY <1>7
    <2>2. i < j => TextLE(pts[i].ts, pts[j].ts)
      BY <1>6, <2>1, ListedBefore
    <2>3. TextLE(pts[i].ts, pts[i].ts)
      BY <2>1 DEF TextLE, TextKey
    <2>4. i <= j => i < j \/ i = j
      BY <1>4
    <2> QED BY <2>2, <2>3, <2>4
  <1>9. \A i, j \in 1..Len(pts) : i < j => pts[i] # pts[j]
    <2> SUFFICES ASSUME NEW i \in 1..Len(pts), NEW j \in 1..Len(pts), i < j
                 PROVE  pts[i] # pts[j]
      OBVIOUS
    <2>1. pts[i].ts \in Int /\ pts[j].ts \in Int /\ pts[i].seq \in Int /\ pts[j].seq \in Int
      BY <1>7
    <2>2. ListBefore(pts[i], pts[j])
      BY <1>6
    <2> QED BY <2>1, <2>2, ListedBefore
  <1>10. dwell \in Int /\ dwell >= 1
    BY Dwells
  <1>11. Stays(f, pts, dwell, 1)
    BY <1>5, <1>10, Detected
  <1> HIDE DEF f
  <1>12. f \in Seq(Visit) /\ Len(f) \in Nat
    BY <1>11 DEF Stays
  <1>13. ASSUME NEW k \in 1..Len(f)
         PROVE  /\ BackedIn(f[k], S) /\ InWindow(f[k].start, w)
                /\ TextKey(f[k].start) < TextKey(f[k].end)
    <2>1. PICK a \in 1..Len(pts), e \in 1..Len(pts) : Stay(f[k], pts, dwell, a, e)
      BY <1>11 DEF Stays
    <2>2. /\ a < e /\ f[k].start = pts[a].ts /\ f[k].end = pts[e].ts
          /\ f[k].count = e - a + 1 /\ f[k].end - f[k].start >= dwell
      BY <2>1, <1>4 DEF Stay
    <2>3. pts[a] \in S /\ pts[e] \in S /\ InWindow(pts[a].ts, w)
      BY <1>1, <1>4
    <2>4. TextKey(f[k].start) < TextKey(f[k].end)
      <3>1. ListBefore(pts[a], pts[e])
        BY <1>6, <2>2
      <3>2. pts[a].ts \in Int /\ pts[e].ts \in Int /\ pts[a].seq \in Int /\ pts[e].seq \in Int
        BY <1>7
      <3>3. pts[a].ts # pts[e].ts
        BY <2>2, <3>2, <1>10
      <3>4. TextKey(pts[a].ts) < TextKey(pts[e].ts)
        BY <3>1, <3>2, <3>3, ListedBefore
      <3> QED BY <2>2, <3>4
    <2> DEFINE B == {p \in S : TextLE(f[k].start, p.ts) /\ TextLE(p.ts, f[k].end)}
    <2>5. IsFiniteSet(B)
      BY FS_Subset DEF Rows
    <2>6. \A i \in a..e : i \in 1..Len(pts) /\ pts[i] \in B
      <3> TAKE i \in a..e
      <3>1. i \in 1..Len(pts) /\ a <= i /\ i <= e
        BY <1>4
      <3>2. pts[i] \in S
        BY <3>1, <1>1, <1>4
      <3>3. TextLE(pts[a].ts, pts[i].ts) /\ TextLE(pts[i].ts, pts[e].ts)
        BY <3>1, <1>8
      <3> QED BY <3>1, <3>2, <3>3, <2>2
    <2>7. \A i, j \in a..e : pts[i] = pts[j] => i = j
      <3> HIDE DEF B
      <3> TAKE i, j \in a..e
      <3>1. i \in 1..Len(pts) /\ j \in 1..Len(pts)
        BY <2>6
      <3> QED BY <3>1, <1>9
    <2>8. e - a + 1 <= Cardinality(B)
      <3>1. a \in Nat /\ e \in Nat /\ a <= e
        BY <2>2, <1>4
      <3>2. \A i \in a..e : pts[i] \in B
        BY <2>6
      <3> HIDE DEF B
      <3> QED BY <2>5, <2>7, <3>1, <3>2, AtLeast
    <2>9. BackedIn(f[k], S)
      BY <2>2, <2>3, <2>8 DEF BackedIn
    <2> QED BY <2>2, <2>3, <2>4, <2>9
  <1>14. ASSUME NEW k \in 1..Len(f), NEW l \in 1..Len(f), k < l
         PROVE  TextLE(f[k].end, f[l].start)
    <2>1. PICK a, e, b, z \in 1..Len(pts) :
            Stay(f[k], pts, dwell, a, e) /\ Stay(f[l], pts, dwell, b, z) /\ e < b
      BY <1>11, <1>14 DEF Stays
    <2>2. f[k].end = pts[e].ts /\ f[l].start = pts[b].ts
      BY <2>1 DEF Stay
    <2> QED BY <2>1, <2>2, <1>8, <1>4
  <1>15. Chain(f)
    BY <1>13, <1>14 DEF Chain
  <1>16. FoundOK(f, S, w)
    BY <1>12, <1>13, <1>15 DEF FoundOK
  <1> QED BY <1>16 DEF f, pts

LEMMA BackedGrows ==
  ASSUME NEW v, NEW S, NEW S2, S \subseteq S2, IsFiniteSet(S2), BackedIn(v, S),
         v.count \in Nat
  PROVE  BackedIn(v, S2)
  <1> DEFINE B(T) == {p \in T : TextLE(v.start, p.ts) /\ TextLE(p.ts, v.end)}
  <1>1. IsFiniteSet(B(S2)) /\ B(S) \subseteq B(S2)
    BY FS_Subset
  <1> HIDE DEF B
  <1>2. IsFiniteSet(B(S)) /\ Cardinality(B(S)) <= Cardinality(B(S2))
    BY <1>1, FS_Subset
  <1>3. Cardinality(B(S)) \in Nat /\ Cardinality(B(S2)) \in Nat
    BY <1>1, <1>2, FS_CardinalityType
  <1>4. v.count <= Cardinality(B(S))
    BY DEF BackedIn, B
  <1>5. v.count <= Cardinality(B(S2))
    BY <1>2, <1>3, <1>4
  <1>6. /\ \E p, q \in S2 : p.ts = v.start /\ q.ts = v.end
        /\ \E dwell \in ManualDwells \cup {MinDwell} : v.end - v.start >= dwell
    BY DEF BackedIn
  <1> QED BY <1>5, <1>6 DEF BackedIn, B

LEMMA FoundGrows ==
  ASSUME NEW f, NEW S, NEW S2, NEW w, S \subseteq S2, IsFiniteSet(S2), FoundOK(f, S, w)
  PROVE  FoundOK(f, S2, w)
  <1>1. f \in Seq(Visit)
    BY DEF FoundOK
  <1>2. ASSUME NEW k \in 1..Len(f)
        PROVE  BackedIn(f[k], S2)
    <2>0. f[k] \in Visit
      BY <1>1
    <2>1. f[k].count \in Nat
      BY <2>0 DEF Visit
    <2>2. BackedIn(f[k], S)
      BY DEF FoundOK
    <2> QED BY <2>1, <2>2, BackedGrows
  <1> QED BY <1>2 DEF FoundOK

LEMMA NothingFound == WholeOf({}) = <<>>
  <1>1. Rows({})
    BY FS_EmptySet DEF Rows
  <1>2. Inside({}, NoWindow) = {}
    BY DEF Inside
  <1> DEFINE f == Detect(Listing({}, NoWindow), MinDwell)
  <1>3. WholeOf({}) = f
    BY <1>2, Zenon DEF WholeOf, Listing
  <1>4. FoundOK(f, {}, NoWindow)
    <2>1. {} \in SUBSET Point
      OBVIOUS
    <2> QED BY <1>1, <2>1, FoundIn, Dwells
  <1> HIDE DEF f
  <1>5. f \in Seq(Visit) /\ \A k \in 1..Len(f) : FALSE
    BY <1>4 DEF FoundOK, BackedIn
  <1>6. f = <<>>
    BY <1>5
  <1> QED BY <1>3, <1>6

-----------------------------------------------------------------------------
(* Rewriting the rows of a device.                                         *)

LEMMA TextOrder ==
  /\ \A t, u, v \in Int : TextKey(t) < TextKey(u) /\ TextLE(u, v) => t # v /\ ~TextLE(v, t)
  /\ \A t, u, v \in Int : ~TextLE(t, u) /\ TextLE(t, v) => ~TextLE(v, u)
  <1>1. \A t \in Int : TextKey(t) \in Int
    BY DEF TextKey
  <1>2. ASSUME NEW t \in Int, NEW u \in Int, NEW v \in Int
        PROVE  /\ TextKey(t) < TextKey(u) /\ TextLE(u, v) => t # v /\ ~TextLE(v, t)
               /\ ~TextLE(t, u) /\ TextLE(t, v) => ~TextLE(v, u)
    <2>1. TextKey(t) \in Int /\ TextKey(u) \in Int /\ TextKey(v) \in Int
      BY <1>1
    <2> QED BY <2>1 DEF TextLE
  <1> QED BY <1>2, Zenon

KeptOf(f, w) == {i \in DOMAIN f : ~InWindow(f[i].start, w)}

Rewritten(f, w, g) == RowsAt(f, KeptOf(f, w)) \o g

(* h holds the m rows of f that are kept, then those of g.                 *)
Joined(h, f, w, g, at, m) ==
  /\ h \in Seq(Visit) /\ m \in Nat /\ Len(h) = m + Len(g)
  /\ \A i \in 1..m : at[i] \in 1..Len(f) /\ ~InWindow(f[at[i]].start, w) /\ h[i] = f[at[i]]
  /\ \A i, j \in 1..m : i # j => at[i] # at[j]
  /\ \A i \in (m + 1)..Len(h) : i - m \in 1..Len(g) /\ h[i] = g[i - m]

LEMMA RewriteJoins ==
  ASSUME NEW f \in Seq(Visit), NEW g \in Seq(Visit), NEW w
  PROVE  /\ \E at, m : Joined(Rewritten(f, w, g), f, w, g, at, m)
         /\ (\A i \in 1..Len(f) : InWindow(f[i].start, w)) => Rewritten(f, w, g) = g
  <1> DEFINE I == KeptOf(f, w)
             t == RowsAt(f, I)
             h == t \o g
  <1>1. I \in SUBSET (1..Len(f)) /\ (\A i \in I : ~InWindow(f[i].start, w))
    BY DEF KeptOf
  <1>2. I = {} <=> \A i \in 1..Len(f) : InWindow(f[i].start, w)
    BY DEF KeptOf
  <1>3. Rewritten(f, w, g) = h
    BY DEF Rewritten
  <1> HIDE DEF I
  <1>4. PICK at : Keeps(t, f, I, at)
    BY <1>1, KeptRows
  <1> HIDE DEF t
  <1>5. Len(at) \in Nat /\ \A i \in 1..Len(at) : at[i] \in I
    BY <1>4 DEF Keeps
  <1>6. t \in Seq(Visit) /\ Len(t) = Len(at) /\ \A i \in 1..Len(at) : t[i] = f[at[i]]
    <2>1. \A k \in I : f[k] \in Visit
      BY <1>1
    <2>2. {f[k] : k \in I} \subseteq Visit
      BY <2>1
    <2>3. t \in Seq({f[k] : k \in I})
      BY <1>4 DEF Keeps
    <2>4. t \in Seq(Visit)
      <3> DEFINE V == {f[k] : k \in I}
      <3>1. t \in Seq(V) /\ V \subseteq Visit
        BY <2>2, <2>3
      <3> HIDE DEF V
      <3> QED BY <3>1
    <2> QED BY <1>4, <2>4 DEF Keeps
  <1>7. \A i, j \in 1..Len(at) : i # j => at[i] # at[j]
    <2>1. \A i, j \in 1..Len(at) : i < j => at[i] < at[j]
      BY <1>4 DEF Keeps
    <2>2. \A i \in 1..Len(at) : at[i] \in Int
      <3> TAKE i \in 1..Len(at)
      <3>1. at[i] \in I
        BY <1>5
      <3>2. at[i] \in 1..Len(f)
        BY <1>1, <3>1
      <3> QED BY <3>2
    <2> TAKE i, j \in 1..Len(at)
    <2>3. at[i] \in Int /\ at[j] \in Int
      BY <2>2
    <2>4. i # j => i < j \/ j < i
      BY <1>5
    <2>5. (i < j => at[i] < at[j]) /\ (j < i => at[j] < at[i])
      BY <2>1
    <2> QED BY <2>3, <2>4, <2>5
  <1>8. h \in Seq(Visit) /\ Len(h) = Len(t) + Len(g) /\ Len(g) \in Nat
    BY <1>6
  <1>9. \A i \in 1..Len(at) : h[i] = t[i]
    BY <1>6
  <1>10. \A i \in (Len(at) + 1)..Len(h) : i - Len(at) \in 1..Len(g) /\ h[i] = g[i - Len(at)]
    BY <1>5, <1>6, <1>8
  <1>11. ASSUME \A i \in 1..Len(f) : InWindow(f[i].start, w)
         PROVE  h = g
    <2>1. Cardinality(I) = 0
      BY <1>2, <1>11, FS_EmptySet
    <2>2. t = <<>>
      BY <1>4, <1>6, <2>1 DEF Keeps
    <2> QED BY <2>2
  <1> HIDE DEF h
  <1>12. Joined(h, f, w, g, at, Len(at))
    BY <1>1, <1>5, <1>6, <1>7, <1>8, <1>9, <1>10 DEF Joined
  <1> QED BY <1>3, <1>11, <1>12

(* What a rewrite keeps true of the rows of its device.                    *)
LEMMA RewriteKeeps ==
  ASSUME NEW f \in Seq(Visit), NEW w, NEW g, NEW S, FoundOK(g, S, w),
         \A i \in 1..Len(f) : BackedIn(f[i], S),
         \A i, j \in 1..Len(f) : i # j => f[i].start # f[j].start
  PROVE  LET h == Rewritten(f, w, g)
         IN  /\ h \in Seq(Visit)
             /\ \A i \in 1..Len(h) : BackedIn(h[i], S)
             /\ \A i, j \in 1..Len(h) : i # j => h[i].start # h[j].start
  <1> DEFINE h == Rewritten(f, w, g)
  <1>1. g \in Seq(Visit) /\ Chain(g)
    BY DEF FoundOK
  <1>2. \A k \in 1..Len(g) : BackedIn(g[k], S) /\ InWindow(g[k].start, w)
    BY DEF FoundOK
  <1>3. PICK at, m : Joined(h, f, w, g, at, m)
    BY <1>1, RewriteJoins
  <1> HIDE DEF h
  <1>4. h \in Seq(Visit) /\ m \in Nat /\ Len(h) \in Nat /\ Len(g) \in Nat /\ Len(h) = m + Len(g)
    BY <1>1, <1>3 DEF Joined
  <1>5. \A i \in 1..m : at[i] \in 1..Len(f) /\ ~InWindow(f[at[i]].start, w) /\ h[i] = f[at[i]]
    BY <1>3 DEF Joined
  <1>6. \A i, j \in 1..m : i # j => at[i] # at[j]
    BY <1>3 DEF Joined
  <1>7. \A i \in (m + 1)..Len(h) : i - m \in 1..Len(g) /\ h[i] = g[i - m]
    BY <1>3 DEF Joined
  <1>8. \A i \in 1..Len(h) : i \in 1..m \/ i \in (m + 1)..Len(h)
    BY <1>4
  <1>9. \A i \in 1..Len(h) : BackedIn(h[i], S)
    BY <1>2, <1>5, <1>7, <1>8
  <1>10. \A i \in 1..Len(h) : i \in (m + 1)..Len(h) <=> InWindow(h[i].start, w)
    <2> TAKE i \in 1..Len(h)
    <2>1. CASE i \in 1..m
      BY <1>4, <1>5, <2>1
    <2>2. CASE i \in (m + 1)..Len(h)
      BY <1>2, <1>7, <2>2
    <2> QED BY <1>8, <2>1, <2>2
  <1>11. \A k, l \in 1..Len(g) : k # l => g[k].start # g[l].start
    <2>1. \A k, l \in 1..Len(g) : k < l => g[k].start # g[l].start
      <3> SUFFICES ASSUME NEW k \in 1..Len(g), NEW l \in 1..Len(g), k < l
                   PROVE  g[k].start # g[l].start
        OBVIOUS
      <3>1. TextKey(g[k].start) < TextKey(g[k].end) /\ TextLE(g[k].end, g[l].start)
        BY <1>1 DEF Chain
      <3>2. g[k] \in Visit /\ g[l] \in Visit
        BY <1>1
      <3>3. g[k].start \in Int /\ g[k].end \in Int /\ g[l].start \in Int
        BY <3>2 DEF Visit
      <3> QED BY <3>1, <3>3, TextOrder, Zenon
    <2> QED BY <1>4, <2>1
  <1>12. ASSUME NEW i \in 1..Len(h), NEW j \in 1..Len(h), i # j
         PROVE  h[i].start # h[j].start
    <2>1. CASE i \in 1..m /\ j \in 1..m
      <3>1. at[i] \in 1..Len(f) /\ at[j] \in 1..Len(f) /\ at[i] # at[j]
        BY <1>5, <1>6, <1>12, <2>1
      <3> QED BY <3>1, <1>5, <2>1
    <2>2. CASE i \in (m + 1)..Len(h) /\ j \in (m + 1)..Len(h)
      <3>1. i - m \in 1..Len(g) /\ j - m \in 1..Len(g) /\ i - m # j - m
        BY <1>4, <1>7, <1>12, <2>2
      <3> QED BY <3>1, <1>7, <1>11, <2>2
    <2>3. CASE ~(i \in (m + 1)..Len(h) <=> j \in (m + 1)..Len(h))
      BY <1>10, <2>3
    <2> QED BY <1>8, <2>1, <2>2, <2>3
  <1> QED BY <1>4, <1>9, <1>12 DEF h

(* A scheduled rebuild, from where it begins to the end.                   *)
LEMMA RewriteCuts ==
  ASSUME NEW f \in Seq(Visit), NEW w \in Window, w.to = Nil, NEW g, NEW S, FoundOK(g, S, w),
         NEW C, CutBetween(f, C)
  PROVE  CutBetween(Rewritten(f, w, g), C \cup ({w.from} \ {Nil}))
  <1> DEFINE h == Rewritten(f, w, g)
             C2 == C \cup ({w.from} \ {Nil})
  <1>1. g \in Seq(Visit) /\ Chain(g)
    BY DEF FoundOK
  <1>2. \A k \in 1..Len(g) : InWindow(g[k].start, w)
    BY DEF FoundOK
  <1>3. PICK at, m : Joined(h, f, w, g, at, m)
    BY <1>1, RewriteJoins
  <1>0. C \subseteq C2 /\ (w.from # Nil => w.from \in C2)
    OBVIOUS
  <1> HIDE DEF h, C2
  <1>4. h \in Seq(Visit) /\ m \in Nat /\ Len(h) \in Nat /\ Len(g) \in Nat /\ Len(h) = m + Len(g)
    BY <1>1, <1>3 DEF Joined
  <1>5. \A i \in 1..m : at[i] \in 1..Len(f) /\ ~InWindow(f[at[i]].start, w) /\ h[i] = f[at[i]]
    BY <1>3 DEF Joined
  <1>6. \A i, j \in 1..m : i # j => at[i] # at[j]
    BY <1>3 DEF Joined
  <1>7. \A i \in (m + 1)..Len(h) : i - m \in 1..Len(g) /\ h[i] = g[i - m]
    BY <1>3 DEF Joined
  <1>8. \A i \in 1..Len(h) : i \in 1..m \/ i \in (m + 1)..Len(h)
    BY <1>4
  <1>9. \A i \in 1..Len(h) : h[i].start \in Int /\ h[i].end \in Int
    <2> TAKE i \in 1..Len(h)
    <2>1. h[i] \in Visit
      BY <1>4
    <2> QED BY <2>1 DEF Visit
  <1>10. \A i \in 1..m : w.from \in Int /\ ~TextLE(w.from, h[i].start)
    <2> TAKE i \in 1..m
    <2>1. ~InWindow(h[i].start, w)
      BY <1>5
    <2> QED BY <2>1 DEF InWindow, Window
  <1>11. \A i \in (m + 1)..Len(h) : w.from # Nil => TextLE(w.from, h[i].start)
    <2> TAKE i \in (m + 1)..Len(h)
    <2>1. InWindow(h[i].start, w)
      BY <1>2, <1>7
    <2> QED BY <2>1 DEF InWindow
  <1>12. ASSUME NEW i \in 1..Len(h), NEW j \in 1..Len(h), i # j,
                TextLE(h[i].start, h[j].start), ~TextLE(h[i].end, h[j].start)
         PROVE  \E c \in C2 : ~TextLE(c, h[i].start) /\ TextLE(c, h[j].start)
    <2>0. /\ h[i].start \in Int /\ h[j].start \in Int
          /\ h[i].end \in Int /\ h[j].end \in Int
      BY <1>9
    <2>1. CASE i \in 1..m /\ j \in 1..m
      <3>1. at[i] \in 1..Len(f) /\ at[j] \in 1..Len(f) /\ at[i] # at[j]
        BY <1>5, <1>6, <1>12, <2>1
      <3>2. h[i] = f[at[i]] /\ h[j] = f[at[j]]
        BY <1>5, <2>1
      <3>3. \E c \in C : ~TextLE(c, h[i].start) /\ TextLE(c, h[j].start)
        BY <3>1, <3>2, <1>12, Zenon DEF CutBetween
      <3> QED BY <3>3, <1>0
    <2>2. CASE i \in 1..m /\ j \in (m + 1)..Len(h)
      <3>1. w.from \in Int /\ ~TextLE(w.from, h[i].start)
        BY <1>10, <2>2
      <3>2. w.from # Nil
        BY <3>1, NilAssumption
      <3>3. w.from \in C2 /\ TextLE(w.from, h[j].start)
        BY <1>0, <1>11, <2>2, <3>2
      <3> QED BY <3>1, <3>3
    <2>3. CASE i \in (m + 1)..Len(h) /\ j \in 1..m
      <3>1. w.from \in Int /\ ~TextLE(w.from, h[j].start)
        BY <1>10, <2>3
      <3>2. w.from # Nil
        BY <3>1, NilAssumption
      <3>3. TextLE(w.from, h[i].start)
        BY <1>11, <2>3, <3>2
      <3>4. ~TextLE(h[i].start, h[j].start)
        BY <2>0, <3>1, <3>3, TextOrder
      <3> QED BY <3>4, <1>12
    <2>4. CASE i \in (m + 1)..Len(h) /\ j \in (m + 1)..Len(h)
      <3>1. i - m \in 1..Len(g) /\ j - m \in 1..Len(g) /\ i - m # j - m
        BY <1>4, <1>7, <1>12, <2>4
      <3>2. h[i] = g[i - m] /\ h[j] = g[j - m]
        BY <1>7, <2>4
      <3>3. CASE i - m < j - m
        <4>1. TextLE(h[i].end, h[j].start)
          BY <1>1, <3>1, <3>2, <3>3 DEF Chain
        <4> QED BY <4>1, <1>12
      <3>4. CASE j - m < i - m
        <4>1. TextLE(h[j].end, h[i].start) /\ TextKey(h[j].start) < TextKey(h[j].end)
          BY <1>1, <3>1, <3>2, <3>4 DEF Chain
        <4>2. ~TextLE(h[i].start, h[j].start)
          BY <2>0, <4>1, TextOrder
        <4> QED BY <4>2, <1>12
      <3> QED BY <1>4, <3>1, <3>3, <3>4
    <2> QED BY <1>8, <2>1, <2>2, <2>3, <2>4
  <1>13. CutBetween(h, C2)
    BY <1>12, Zenon DEF CutBetween
  <1> QED BY <1>13 DEF h, C2

(* A scheduled rebuild of a device whose points are near each other.       *)
LEMMA NearInside ==
  ASSUME NEW S, Near(S), NEW w, w.to = Nil,
         w.from = Nil \/ \E q \in S : w.from = q.ts - Lookback
  PROVE  /\ Inside(S, w) = S
         /\ \A v : BackedIn(v, S) => InWindow(v.start, w)
  <1>1. \A p \in S : InWindow(p.ts, w)
    BY DEF Near, InWindow
  <1> QED BY <1>1 DEF Inside, BackedIn

-----------------------------------------------------------------------------
(* What the steps leave alone.                                             *)

LEMMA TablesFrame ==
  ASSUME TableInv, UNCHANGED <<tableVars, devices, watermark>>
  PROVE  TableInv'
  BY DEF TableInv, TablesOK, RowsBacked, StartsApart, tableVars

LEMMA MarkedFrame ==
  ASSUME Marked, UNCHANGED <<points, visits, watermark, byHand, late>>
  PROVE  Marked'
  BY DEF Marked

LEMMA CutsFrame ==
  ASSUME CutsOK, UNCHANGED <<visits, byHand, cuts>>
  PROVE  CutsOK'
  BY DEF CutsOK

LEMMA ManualFrame ==
  ASSUME ManualOK, UNCHANGED <<manual, points>>
  PROVE  ManualOK'
  BY DEF ManualOK

LEMMA ProcessFrame ==
  ASSUME ProcessOK, UNCHANGED <<spc, todo, processVars, points, late, watermark, visits, byHand>>
  PROVE  ProcessOK'
  BY DEF ProcessOK, Current, processVars

LEMMA WindowTyped == NoWindow \in Window /\ <<>> \in Seq(Visit)
  BY DEF NoWindow, Window

(* Between two devices nothing is claimed.                                 *)
LEMMA Resting ==
  ASSUME spc' \in {"idle", "read"}, spc' # "idle" => todo' # <<>>
  PROVE  ProcessOK'
  BY DEF ProcessOK, StageOK

LEMMA TailOf ==
  ASSUME NEW S, NEW s \in Seq(S), s # <<>>
  PROVE  Head(s) \in S /\ Tail(s) \in Seq(S) /\ (Len(s) # 1 => Tail(s) # <<>>)
  <1>1. Len(s) \in Nat /\ Len(s) # 0
    OBVIOUS
  <1>2. Head(s) \in S /\ Tail(s) \in Seq(S)
    OBVIOUS
  <1>3. Len(Tail(s)) = Len(s) - 1
    OBVIOUS
  <1>4. Len(s) # 1 => Len(Tail(s)) # 0
    BY <1>1, <1>3
  <1>5. Tail(s) = <<>> => Len(Tail(s)) = 0
    <2>1. Len(<<>>) = 0
      OBVIOUS
    <2> QED BY <2>1, Zenon
  <1> QED BY <1>2, <1>4, <1>5

LEMMA NextDeviceRests ==
  ASSUME TypeOK, ProcessOK, spc # "idle", NextDevice
  PROVE  /\ ProcessOK'
         /\ spc' \in {"idle", "read", "list", "rewrite", "mark"}
         /\ todo' \in Seq(devices) /\ maxSeq' \in Nat /\ window' \in Window /\ found' \in Seq(Visit)
         /\ UNCHANGED <<roundRobinStart, cancelled>>
  <1>1. todo # <<>> /\ todo \in Seq(devices)
    BY DEF ProcessOK, TypeOK
  <1>2. todo' = Tail(todo) /\ spc' = IF Len(todo) = 1 THEN "idle" ELSE "read"
    BY DEF NextDevice
  <1>3. todo' \in Seq(devices) /\ (Len(todo) # 1 => todo' # <<>>)
    <2>1. Tail(todo) \in Seq(devices) /\ (Len(todo) # 1 => Tail(todo) # <<>>)
      BY <1>1, TailOf
    <2> QED BY <1>2, <2>1
  <1>4. ProcessOK'
    BY <1>2, <1>3, Resting
  <1> QED BY <1>2, <1>3, <1>4, WindowTyped DEF NextDevice

-----------------------------------------------------------------------------
(* Devices and points arrive.                                              *)

LEMMA CreateDeviceKeeps ==
  ASSUME RowsInv, NEW d \in DeviceIDs, CreateDevice(d)
  PROVE  RowsInv'
  <1>1. /\ devices' = devices \cup {d}
        /\ UNCHANGED <<points, visits, watermark, roundRobinStart, spc, todo, maxSeq, window, found,
                       cancelled, manual, waited, byHand, late, cuts>>
    BY DEF CreateDevice, tableVars, runVars, processVars, histVars
  <1>2. TypeOK'
    <2>1. TypeOK
      BY DEF RowsInv
    <2>2. todo \in Seq(devices')
      <3>1. todo \in Seq(devices) /\ devices \subseteq devices'
        BY <1>1, <2>1 DEF TypeOK
      <3> HIDE <1>1
      <3> QED BY <3>1
    <2>3. manual = Nil \/ manual \in [device : devices', window : Window, found : Seq(Visit)]
      <3>1. manual = Nil \/ manual \in [device : devices, window : Window, found : Seq(Visit)]
        BY <2>1 DEF TypeOK
      <3> QED BY <3>1, <1>1
    <2>4. devices' \subseteq DeviceIDs /\ byHand \subseteq devices'
      BY <1>1, <2>1 DEF TypeOK
    <2> QED BY <1>1, <2>1, <2>2, <2>3, <2>4 DEF TypeOK
  <1>3. TableInv'
    <2>1. TableInv
      BY DEF RowsInv
    <2>2. IsFiniteSet(devices')
      BY <1>1, <2>1, FS_AddElement DEF TableInv, TablesOK
    <2>3. \A c \in devices', e \in DeviceIDs : e < c => e \in devices'
      BY <1>1, <2>1 DEF CreateDevice, TableInv, TablesOK
    <2> QED BY <1>1, <2>1, <2>2, <2>3 DEF TableInv, TablesOK, RowsBacked, StartsApart
  <1>4. ProcessOK' /\ ManualOK' /\ Marked' /\ CutsOK'
    BY <1>1, ProcessFrame, ManualFrame, MarkedFrame, CutsFrame DEF RowsInv, processVars
  <1> QED BY <1>2, <1>3, <1>4 DEF RowsInv

(* A device's points S grow by p, which is late when its number is low.    *)
Stores(S, L, p, S2, L2) ==
  /\ S \in SUBSET Point /\ Rows(S) /\ p \in Point /\ \A q \in S : q.seq # p.seq
  /\ S2 = S \cup {p} /\ L2 = IF p.seq < MaxOf(S) THEN L \cup {p} ELSE L

(* A watermark that still reaches the last point has lost nothing.         *)
Grows(S, L, S2, L2) ==
  /\ S2 \in SUBSET Point /\ Rows(S2) /\ S \subseteq S2
  /\ Near(S2) => Near(S)
  /\ \A m : (m = 0 \/ \E q \in S : q.seq = m) /\ m >= MaxOf(S2)
              => m >= MaxOf(S) /\ S2 \ L2 = S \ L
  /\ \A m : MaxOf(S2) = m /\ (\E q \in S : q.seq = m) => MaxOf(S) = m /\ S2 \ L2 = S \ L

LEMMA Stored ==
  ASSUME NEW S, NEW L, NEW p, NEW S2, NEW L2, Stores(S, L, p, S2, L2)
  PROVE  Grows(S, L, S2, L2)
  <1>a. S \in SUBSET Point /\ Rows(S) /\ p \in Point /\ \A q \in S : q.seq # p.seq
    BY DEF Stores
  <1>b. S2 = S \cup {p} /\ L2 = IF p.seq < MaxOf(S) THEN L \cup {p} ELSE L
    BY DEF Stores
  <1> USE <1>a, <1>b
  <1>1. p.seq \in Nat \ {0} /\ p.ts \in Int /\ \A q \in S : q.seq \in Nat \ {0} /\ q.ts \in Int
    BY DEF Point
  <1>2. S2 \in SUBSET Point /\ S \subseteq S2 /\ p \in S2 /\ p \notin S
    OBVIOUS
  <1>3. Rows(S2)
    <2>1. IsFiniteSet(S2)
      BY FS_AddElement DEF Rows
    <2> QED BY <2>1, <1>1 DEF Rows
  <1>4. Near(S2) => Near(S)
    BY <1>2 DEF Near
  <1>5. \A q \in S2 : q.seq <= MaxOf(S2) /\ MaxOf(S2) \in Int
    BY <1>1, <1>2, <1>3, MaxOfRows DEF Point
  <1>6. MaxOf(S) \in Nat /\ \A q \in S : q.seq <= MaxOf(S)
    <2>1. CASE S = {}
      BY <2>1 DEF MaxOf
    <2>2. CASE S # {}
      BY <2>2, <1>1, MaxOfRows
    <2> QED BY <2>1, <2>2
  <1>7. S = {} => MaxOf(S) = 0
    BY DEF MaxOf
  <1>8. S # {} => \E q \in S : q.seq = MaxOf(S)
    BY MaxOfRows
  <1>9. ASSUME NEW m, m = 0 \/ \E q \in S : q.seq = m, m >= MaxOf(S2)
        PROVE  m >= MaxOf(S) /\ S2 \ L2 = S \ L
    <2>1. m \in Nat /\ m <= MaxOf(S)
      BY <1>1, <1>6, <1>9
    <2>2. p.seq <= MaxOf(S2) /\ MaxOf(S2) \in Int
      BY <1>2, <1>5
    <2>3. p.seq <= MaxOf(S)
      BY <1>1, <1>6, <1>9, <2>1, <2>2
    <2>4. S # {}
      BY <1>1, <1>7, <2>3
    <2>5. p.seq < MaxOf(S)
      BY <1>1, <1>6, <1>8, <2>3, <2>4
    <2>6. MaxOf(S) <= MaxOf(S2)
      BY <1>2, <1>5, <1>8, <2>4
    <2> QED BY <1>2, <1>6, <1>9, <2>1, <2>2, <2>5, <2>6
  <1>10. ASSUME NEW m, MaxOf(S2) = m, \E q \in S : q.seq = m
         PROVE  MaxOf(S) = m /\ S2 \ L2 = S \ L
    <2>1. m \in Nat /\ m <= MaxOf(S)
      BY <1>1, <1>6, <1>10
    <2>2. m >= MaxOf(S2)
      BY <1>10, <2>1
    <2>3. m >= MaxOf(S) /\ S2 \ L2 = S \ L
      BY <1>9, <1>10, <2>2
    <2> QED BY <1>6, <2>1, <2>3
  <1> HIDE <1>a, <1>b
  <1> QED BY <1>2, <1>3, <1>4, <1>9, <1>10, Zenon DEF Grows

LEMMA StoredStage ==
  ASSUME NEW S, NEW L, NEW S2, NEW L2, Grows(S, L, S2, L2),
         NEW pc, NEW mk, NEW m, NEW w, NEW f, NEW rows, NEW hand,
         StageOK(pc, S, L, mk, m, w, f, rows, hand)
  PROVE  StageOK(pc, S2, L2, mk, m, w, f, rows, hand)
  <1>1. /\ Rows(S2) /\ S \subseteq S2
        /\ Near(S2) => Near(S)
    BY DEF Grows
  <1>2. MaxOf(S2) = m /\ (\E q \in S : q.seq = m) => MaxOf(S) = m /\ S2 \ L2 = S \ L
    BY DEF Grows
  <1>3. FoundOK(f, S, w) => FoundOK(f, S2, w)
    BY <1>1, FoundGrows DEF Rows
  <1>4. pc \in {"list", "rewrite", "mark"} =>
          /\ \E q \in S2 : q.seq = m
          /\ mk < m
          /\ w.to = Nil
          /\ w.from = Nil \/ \E q \in S2 : w.from = q.ts - Lookback
    BY <1>1 DEF StageOK
  <1>5. pc = "rewrite" => FoundOK(f, S2, w)
    BY <1>3 DEF StageOK
  <1>6. pc \in {"rewrite", "mark"} => (Near(S2) /\ MaxOf(S2) = m => f = WholeOf(S2 \ L2))
    BY <1>1, <1>2 DEF StageOK
  <1>7. pc = "mark" => (~hand /\ Near(S2) => rows = f)
    BY <1>1 DEF StageOK
  <1> QED BY <1>4, <1>5, <1>6, <1>7 DEF StageOK

LEMMA MaxPointSeqIs == \A d : MaxPointSeq(d) = MaxOf(points[d])
  BY DEF MaxPointSeq, MaxOf

LEMMA StorePointKeeps ==
  ASSUME RowsInv, NEW a \in Arrivals, NEW seq \in 1..MaxSeq, StorePoint(a, seq)
  PROVE  RowsInv'
  <1>0. TypeOK /\ TablesOK /\ RowsBacked /\ StartsApart
    BY DEF RowsInv, TableInv
  <1>1. PICK d \in DeviceIDs : d = a.device /\ a.ts \in Int /\ a.pos \in Int
    BY SchedulerAssumption
  <1>2. PICK p \in Point : p = [seq |-> seq, ts |-> a.ts, pos |-> a.pos] /\ p.seq = seq
    <2>1. seq \in Nat \ {0}
      BY SchedulerAssumption
    <2> DEFINE p == [seq |-> seq, ts |-> a.ts, pos |-> a.pos]
    <2>2. p \in Point /\ p.seq = seq
      BY <1>1, <2>1 DEF Point
    <2> QED BY <2>2
  <1> DEFINE S == points[d]
             L == late[d]
  <1>3. PICK S2 : S2 = S \cup {p}
    OBVIOUS
  <1>4. PICK L2 : L2 = IF p.seq < MaxOf(S) THEN L \cup {p} ELSE L
    OBVIOUS
  <1>5. /\ points' = [points EXCEPT ![d] = S2]
        /\ late' = [late EXCEPT ![d] = L2]
        /\ UNCHANGED <<visits, devices, watermark, roundRobinStart, spc, todo, maxSeq, window,
                       found, cancelled, manual, waited, byHand, cuts>>
    BY <1>1, <1>2, <1>3, <1>4, MaxPointSeqIs DEF StorePoint, runVars, processVars
  <1>6. S \in SUBSET Point /\ Rows(S) /\ L \in SUBSET Point
    BY <1>0 DEF TypeOK, TablesOK
  <1>7. \A q \in S : q.seq # p.seq
    BY <1>2 DEF StorePoint, UsedSeqs
  <1>G. Grows(S, L, S2, L2)
    <2>1. Stores(S, L, p, S2, L2)
      BY <1>3, <1>4, <1>6, <1>7 DEF Stores
    <2> QED BY <2>1, Stored
  <1>8. /\ S2 \in SUBSET Point /\ Rows(S2) /\ S \subseteq S2
        /\ Near(S2) => Near(S)
    BY <1>G DEF Grows
  <1>9. \A m : (m = 0 \/ \E q \in S : q.seq = m) /\ m >= MaxOf(S2)
                 => m >= MaxOf(S) /\ S2 \ L2 = S \ L
    BY <1>G, Zenon DEF Grows
  <1>10. IsFiniteSet(S2)
    BY <1>8 DEF Rows
  <1>11. L2 \in SUBSET Point
    BY <1>4, <1>6
  <1>12. /\ points'[d] = S2 /\ late'[d] = L2
         /\ \A e \in DeviceIDs \ {d} : points'[e] = points[e] /\ late'[e] = late[e]
         /\ points' \in [DeviceIDs -> SUBSET Point] /\ late' \in [DeviceIDs -> SUBSET Point]
    BY <1>0, <1>5, <1>8, <1>11 DEF TypeOK
  <1>13. \A e \in DeviceIDs : Rows(points'[e]) /\ points[e] \subseteq points'[e]
    BY <1>0, <1>8, <1>12 DEF TablesOK
  <1>14. TypeOK'
    BY <1>0, <1>5, <1>12 DEF TypeOK
  <1>15. TableInv'
    <2>1. TablesOK'
      <3>1. \A e \in DeviceIDs : watermark[e] = 0 \/ \E q \in points'[e] : q.seq = watermark[e]
        BY <1>0, <1>13 DEF TablesOK
      <3> QED BY <1>0, <1>5, <1>13, <3>1 DEF TablesOK
    <2>2. RowsBacked'
      <3>1. ASSUME NEW e \in DeviceIDs, NEW i \in 1..Len(visits[e])
            PROVE  BackedIn(visits[e][i], points'[e])
        <4>1. visits[e][i] \in Visit
          BY <1>0 DEF TypeOK
        <4>2. visits[e][i].count \in Nat
          BY <4>1 DEF Visit
        <4>3. BackedIn(visits[e][i], points[e])
          BY <1>0 DEF RowsBacked
        <4>4. IsFiniteSet(points'[e]) /\ points[e] \subseteq points'[e]
          BY <1>13 DEF Rows
        <4> QED BY <4>2, <4>3, <4>4, BackedGrows
      <3> QED BY <1>5, <3>1 DEF RowsBacked
    <2>3. StartsApart'
      BY <1>0, <1>5 DEF StartsApart
    <2> QED BY <2>1, <2>2, <2>3 DEF TableInv
  <1>16. ProcessOK'
    <2> DEFINE c == Current
    <2>0. ProcessOK /\ Current' = Current
      BY <1>5 DEF RowsInv, Current
    <2>1. CASE spc \in {"idle", "read"}
      <3>1. spc' \in {"idle", "read"} /\ (spc' # "idle" => todo' # <<>>)
        BY <1>5, <2>0, <2>1 DEF ProcessOK
      <3> QED BY <3>1, Resting
    <2>2. CASE spc \notin {"idle", "read"}
      <3>1. todo # <<>> /\ c \in devices /\ c \in DeviceIDs
        <4>1. spc # "idle" /\ todo \in Seq(devices) /\ devices \subseteq DeviceIDs
          BY <1>0, <2>2 DEF TypeOK
        <4> QED BY <4>1, <2>0 DEF ProcessOK, Current
      <3>2. StageOK(spc, points[c], late[c], watermark[c], maxSeq, window, found, visits[c],
                    c \in byHand)
        BY <2>0 DEF ProcessOK
      <3> HIDE DEF c, S, L
      <3>3. StageOK(spc, points'[c], late'[c], watermark[c], maxSeq, window, found, visits[c],
                    c \in byHand)
        <4>1. CASE c = d
          <5>1. StageOK(spc, S, L, watermark[c], maxSeq, window, found, visits[c], c \in byHand)
            BY <3>2, <4>1 DEF S, L
          <5>2. StageOK(spc, S2, L2, watermark[c], maxSeq, window, found, visits[c], c \in byHand)
            BY <5>1, <1>G, StoredStage
          <5> QED BY <5>2, <4>1, <1>12
        <4>2. CASE c # d
          <5>1. points'[c] = points[c] /\ late'[c] = late[c]
            BY <1>12, <3>1, <4>2
          <5> QED BY <5>1, <3>2
        <4> QED BY <4>1, <4>2
      <3> QED BY <1>5, <2>0, <3>1, <3>3 DEF ProcessOK, c
    <2> QED BY <2>1, <2>2
  <1>17. ManualOK'
    <2>1. SUFFICES ASSUME manual # Nil
                   PROVE  FoundOK(manual.found, points'[manual.device], manual.window)
      BY <1>5 DEF ManualOK
    <2>2. FoundOK(manual.found, points[manual.device], manual.window)
      BY <2>1 DEF RowsInv, ManualOK
    <2>3. manual.device \in DeviceIDs
      BY <1>0, <2>1 DEF TypeOK
    <2>4. IsFiniteSet(points'[manual.device]) /\ points[manual.device] \subseteq points'[manual.device]
      BY <1>13, <2>3 DEF Rows
    <2> QED BY <2>2, <2>4, FoundGrows
  <1>18. Marked'
    <2>1. Marked
      BY DEF RowsInv
    <2>2. ASSUME NEW e \in DeviceIDs \ byHand, watermark[e] >= MaxOf(points'[e]), Near(points'[e])
          PROVE  visits[e] = WholeOf(points'[e] \ late'[e])
      <3>1. CASE e = d
        <4>1. watermark[d] = 0 \/ \E q \in S : q.seq = watermark[d]
          BY <1>0 DEF TablesOK
        <4>2. watermark[d] >= MaxOf(S) /\ S2 \ L2 = S \ L /\ Near(S)
          <5>1. watermark[d] >= MaxOf(S2) /\ Near(S2)
            BY <1>12, <2>2, <3>1
          <5> HIDE DEF S, L
          <5> QED BY <5>1, <4>1, <1>8, <1>9
        <4>3. visits[d] = WholeOf(S \ L)
          BY <2>1, <2>2, <3>1, <4>2 DEF Marked
        <4> HIDE DEF S, L
        <4> QED BY <1>12, <3>1, <4>2, <4>3
      <3>2. CASE e # d
        <4>1. points'[e] = points[e] /\ late'[e] = late[e]
          BY <1>12, <3>2
        <4> QED BY <2>1, <2>2, <4>1 DEF Marked
      <3> QED BY <3>1, <3>2
    <2> QED BY <1>5, <2>2 DEF Marked
  <1>19. CutsOK'
    BY <1>5, CutsFrame DEF RowsInv
  <1> QED BY <1>14, <1>15, <1>16, <1>17, <1>18, <1>19 DEF RowsInv

-----------------------------------------------------------------------------
(* The steps of processDevice.                                             *)

(* The device it is at.                                                    *)
AtDevice(d) ==
  /\ d = Head(todo) /\ d = Current /\ d \in devices /\ d \in DeviceIDs
  /\ points[d] \in SUBSET Point /\ Rows(points[d])
  /\ visits[d] \in Seq(Visit)
  /\ StageOK(spc, points[d], late[d], watermark[d], maxSeq, window, found, visits[d], d \in byHand)

LEMMA AtSome ==
  ASSUME RowsInv, spc # "idle"
  PROVE  \E d \in DeviceIDs : AtDevice(d)
  <1>1. todo \in Seq(devices) /\ todo # <<>> /\ devices \subseteq DeviceIDs
    BY DEF RowsInv, TypeOK, ProcessOK
  <1>2. PICK d \in DeviceIDs : d = Head(todo) /\ d \in devices
    BY <1>1, TailOf
  <1>3. d = Current
    BY <1>2 DEF Current
  <1>4. points[d] \in SUBSET Point /\ Rows(points[d]) /\ visits[d] \in Seq(Visit)
    BY DEF RowsInv, TypeOK, TableInv, TablesOK
  <1>5. StageOK(spc, points[d], late[d], watermark[d], maxSeq, window, found, visits[d],
                d \in byHand)
    BY <1>3 DEF RowsInv, ProcessOK
  <1> QED BY <1>2, <1>3, <1>4, <1>5 DEF AtDevice

(* The watermark is behind, so that Marked claims nothing of the device.   *)
LEMMA Behind ==
  ASSUME NEW S, Rows(S), NEW m, \E p \in S : p.seq = m, NEW mk \in Nat, mk < m
  PROVE  ~(mk >= MaxOf(S))
  <1>1. S # {} /\ m <= MaxOf(S) /\ m \in Int /\ MaxOf(S) \in Int
    BY MaxOfRows DEF Rows
  <1> QED BY <1>1

LEMMA ProcessReadKeeps ==
  ASSUME RowsInv, ProcessRead
  PROVE  RowsInv'
  <1>0. TypeOK /\ TableInv /\ ProcessOK /\ TablesOK
    BY DEF RowsInv, TableInv
  <1>1. spc = "read" /\ UNCHANGED <<points, visits, devices, watermark, manual, waited, byHand, late, cuts>>
    BY DEF ProcessRead, tableVars, histVars
  <1>2. TableInv' /\ ManualOK' /\ Marked' /\ CutsOK'
    BY <1>1, TablesFrame, ManualFrame, MarkedFrame, CutsFrame DEF RowsInv, tableVars
  <1>3. PICK d \in DeviceIDs : AtDevice(d)
    BY <1>1, AtSome
  <1>4. CASE points[d] = {} \/ MaxPointSeq(d) <= watermark[d]
    <2>1. NextDevice
      BY <1>3, <1>4 DEF ProcessRead, AtDevice
    <2>2. /\ ProcessOK'
          /\ spc' \in {"idle", "read", "list", "rewrite", "mark"}
          /\ todo' \in Seq(devices) /\ maxSeq' \in Nat /\ window' \in Window /\ found' \in Seq(Visit)
          /\ UNCHANGED <<roundRobinStart, cancelled>>
      BY <1>0, <1>1, <2>1, NextDeviceRests
    <2>3. TypeOK'
      BY <1>0, <1>1, <2>2 DEF TypeOK
    <2> QED BY <1>2, <2>2, <2>3 DEF RowsInv
  <1>5. CASE ~(points[d] = {} \/ MaxPointSeq(d) <= watermark[d])
    <2>1. /\ maxSeq' = MaxPointSeq(d)
          /\ window' = [from |-> IF watermark[d] = 0 THEN Nil ELSE StampOf(d, watermark[d]) - Lookback,
                        to   |-> Nil]
          /\ spc' = "list"
          /\ UNCHANGED <<roundRobinStart, todo, found, cancelled>>
      BY <1>3, <1>5 DEF ProcessRead, AtDevice
    <2>2. points[d] \in SUBSET Point /\ Rows(points[d]) /\ points[d] # {} /\ watermark[d] \in Nat
      BY <1>0, <1>3, <1>5 DEF AtDevice, TypeOK
    <2>3. (\E p \in points[d] : p.seq = maxSeq') /\ maxSeq' \in Nat
      <3>1. maxSeq' = MaxOf(points[d])
        BY <2>1, MaxPointSeqIs
      <3>2. \E p \in points[d] : p.seq = MaxOf(points[d])
        BY <2>2, MaxOfRows
      <3> QED BY <3>1, <3>2, <2>2 DEF Point
    <2>4. watermark[d] < maxSeq'
      BY <1>5, <2>1, <2>2, <2>3
    <2>5. /\ window' \in Window /\ window'.to = Nil
          /\ window'.from = Nil \/ \E q \in points[d] : window'.from = q.ts - Lookback
      <3>1. CASE watermark[d] = 0
        BY <2>1, <3>1 DEF Window
      <3>2. CASE watermark[d] # 0
        <4>1. \E q \in points[d] : q.seq = watermark[d]
          BY <1>0, <3>2 DEF TablesOK
        <4>2. PICK q \in points[d] : StampOf(d, watermark[d]) = q.ts
          BY <4>1 DEF StampOf
        <4>3. q.ts - Lookback \in Int
          BY <2>2, SchedulerAssumption DEF Point
        <4> QED BY <2>1, <3>2, <4>2, <4>3 DEF Window
      <3> QED BY <3>1, <3>2
    <2>6. TypeOK'
      BY <1>0, <1>1, <2>1, <2>3, <2>5 DEF TypeOK
    <2>7. StageOK("list", points[d], late[d], watermark[d], maxSeq', window', found, visits[d],
                  d \in byHand)
      BY <2>3, <2>4, <2>5 DEF StageOK
    <2>8. ProcessOK'
      <3>1. Current' = d /\ todo' # <<>>
        BY <1>0, <1>1, <1>3, <2>1 DEF AtDevice, Current, ProcessOK
      <3> QED BY <1>1, <2>1, <2>7, <3>1 DEF ProcessOK
    <2> QED BY <1>2, <2>6, <2>8 DEF RowsInv
  <1> QED BY <1>4, <1>5

LEMMA ListPointsIs == \A d, w : ListPoints(d, w) = Listing(points[d], w)
  BY Zenon DEF ListPoints, Listing, Inside

LEMMA ProcessListKeeps ==
  ASSUME RowsInv, ProcessList
  PROVE  RowsInv'
  <1>0. TypeOK /\ TableInv /\ ProcessOK /\ Marked
    BY DEF RowsInv
  <1>1. /\ spc = "list" /\ spc' = "rewrite"
        /\ UNCHANGED <<points, visits, devices, watermark, roundRobinStart, todo, maxSeq, window,
                       cancelled, manual, waited, byHand, cuts>>
    BY DEF ProcessList, tableVars
  <1>2. TableInv' /\ ManualOK' /\ CutsOK'
    BY <1>1, TablesFrame, ManualFrame, CutsFrame DEF RowsInv, tableVars
  <1>3. PICK d \in DeviceIDs : AtDevice(d)
    BY <1>1, AtSome
  <1>4. d = Current /\ points[d] \in SUBSET Point /\ Rows(points[d])
    BY <1>3 DEF AtDevice
  <1>5. /\ \E p \in points[d] : p.seq = maxSeq
        /\ watermark[d] < maxSeq
        /\ window.to = Nil
        /\ window.from = Nil \/ \E q \in points[d] : window.from = q.ts - Lookback
    BY <1>1, <1>3 DEF AtDevice, StageOK
  <1>6. found' = Detect(Listing(points[d], window), MinDwell)
    BY <1>3, ListPointsIs DEF ProcessList, AtDevice
  <1>7. FoundOK(found', points[d], window)
    <2>1. FoundOK(Detect(Listing(points[d], window), MinDwell), points[d], window)
      BY <1>4, FoundIn, Dwells
    <2> QED BY <1>6, <2>1
  <1>8. /\ late' \in [DeviceIDs -> SUBSET Point] /\ late'[d] = {}
        /\ \A e \in DeviceIDs \ {d} : late'[e] = late[e]
    BY <1>0, <1>3 DEF ProcessList, AtDevice, TypeOK
  <1>9. Near(points[d]) => found' = WholeOf(points[d] \ late'[d])
    <2>1. Near(points[d]) => Inside(points[d], window) = points[d]
      BY <1>5, NearInside
    <2>2. points[d] \ late'[d] = points[d]
      BY <1>8
    <2>3. Near(points[d]) => Listing(points[d], window) = OrderBy(points[d], ListBefore)
      BY <2>1, Zenon DEF Listing
    <2>4. Near(points[d]) => found' = WholeOf(points[d])
      BY <1>6, <2>3, Zenon DEF WholeOf
    <2> QED BY <2>2, <2>4
  <1>10. TypeOK'
    <2>1. found' \in Seq(Visit)
      BY <1>7 DEF FoundOK
    <2> QED BY <1>0, <1>1, <1>8, <2>1 DEF TypeOK
  <1>11. ProcessOK'
    <2>1. StageOK("rewrite", points[d], late'[d], watermark[d], maxSeq, window, found', visits[d],
                  d \in byHand)
      BY <1>5, <1>7, <1>9 DEF StageOK
    <2>2. Current' = d /\ todo # <<>>
      BY <1>0, <1>1, <1>4 DEF Current, ProcessOK
    <2> QED BY <1>1, <2>1, <2>2 DEF ProcessOK
  <1>12. Marked'
    <2>1. ASSUME NEW e \in DeviceIDs \ byHand, watermark[e] >= MaxOf(points[e]), Near(points[e])
          PROVE  visits[e] = WholeOf(points[e] \ late'[e])
      <3>1. e # d
        <4>1. watermark[d] \in Nat
          BY <1>0 DEF TypeOK
        <4>2. ~(watermark[d] >= MaxOf(points[d]))
          BY <4>1, <1>4, <1>5, Behind
        <4> QED BY <4>2, <2>1
      <3>2. late'[e] = late[e]
        BY <1>8, <3>1
      <3> QED BY <1>0, <2>1, <3>2 DEF Marked
    <2> QED BY <1>1, <2>1 DEF Marked
  <1> QED BY <1>2, <1>10, <1>11, <1>12 DEF RowsInv

(* A rewrite of the rows of d, in a window where g was found.              *)
LEMMA RewriteTables ==
  ASSUME TypeOK, TableInv, NEW d \in DeviceIDs, NEW w, NEW g, FoundOK(g, points[d], w),
         RewriteVisits(d, w, g), UNCHANGED <<points, devices, watermark>>
  PROVE  /\ TableInv'
         /\ visits' \in [DeviceIDs -> Seq(Visit)]
         /\ visits'[d] = Rewritten(visits[d], w, g)
         /\ \A e \in DeviceIDs \ {d} : visits'[e] = visits[e]
  <1> DEFINE h == Rewritten(visits[d], w, g)
  <1>0. visits \in [DeviceIDs -> Seq(Visit)] /\ visits[d] \in Seq(Visit)
    BY DEF TypeOK
  <1>1. visits' = [visits EXCEPT ![d] = h]
    BY DEF RewriteVisits, Rewritten, KeptOf
  <1>2. /\ \A i \in 1..Len(visits[d]) : BackedIn(visits[d][i], points[d])
        /\ \A i, j \in 1..Len(visits[d]) : i # j => visits[d][i].start # visits[d][j].start
    BY DEF TableInv, RowsBacked, StartsApart
  <1>3. /\ h \in Seq(Visit)
        /\ \A i \in 1..Len(h) : BackedIn(h[i], points[d])
        /\ \A i, j \in 1..Len(h) : i # j => h[i].start # h[j].start
    BY <1>0, <1>2, RewriteKeeps
  <1> HIDE DEF h
  <1>4. /\ visits' \in [DeviceIDs -> Seq(Visit)] /\ visits'[d] = h
        /\ \A e \in DeviceIDs \ {d} : visits'[e] = visits[e]
    BY <1>0, <1>1, <1>3
  <1>5. TablesOK'
    BY DEF TableInv, TablesOK
  <1>6. RowsBacked'
    <2>1. ASSUME NEW e \in DeviceIDs, NEW i \in 1..Len(visits'[e])
          PROVE  BackedIn(visits'[e][i], points[e])
      <3>1. CASE e = d
        BY <1>3, <1>4, <3>1
      <3>2. CASE e # d
        BY <1>4, <3>2 DEF TableInv, RowsBacked
      <3> QED BY <3>1, <3>2
    <2> QED BY <2>1 DEF RowsBacked
  <1>7. StartsApart'
    <2>1. ASSUME NEW e \in DeviceIDs, NEW i \in 1..Len(visits'[e]), NEW j \in 1..Len(visits'[e]),
                 i # j
          PROVE  visits'[e][i].start # visits'[e][j].start
      <3>1. CASE e = d
        BY <1>3, <1>4, <2>1, <3>1
      <3>2. CASE e # d
        BY <1>4, <2>1, <3>2 DEF TableInv, StartsApart
      <3> QED BY <3>1, <3>2
    <2> QED BY <2>1 DEF StartsApart
  <1> QED BY <1>4, <1>5, <1>6, <1>7 DEF TableInv, h

LEMMA ProcessRewriteKeeps ==
  ASSUME RowsInv, ProcessRewrite
  PROVE  RowsInv'
  <1>0. TypeOK /\ TableInv /\ ProcessOK /\ Marked /\ CutsOK /\ RowsBacked
    BY DEF RowsInv, TableInv
  <1>1. /\ spc = "rewrite" /\ spc' = "mark"
        /\ UNCHANGED <<points, devices, watermark, roundRobinStart, todo, maxSeq, window, found,
                       cancelled, manual, waited, byHand, late>>
    BY DEF ProcessRewrite, processVars
  <1>2. PICK d \in DeviceIDs : AtDevice(d)
    BY <1>1, AtSome
  <1>3. /\ d = Current /\ points[d] \in SUBSET Point /\ Rows(points[d]) /\ visits[d] \in Seq(Visit)
        /\ StageOK("rewrite", points[d], late[d], watermark[d], maxSeq, window, found, visits[d],
                   d \in byHand)
    BY <1>1, <1>2 DEF AtDevice
  <1>4. /\ \E p \in points[d] : p.seq = maxSeq
        /\ watermark[d] < maxSeq
        /\ window.to = Nil
        /\ window.from = Nil \/ \E q \in points[d] : window.from = q.ts - Lookback
    BY <1>3 DEF StageOK
  <1>5. FoundOK(found, points[d], window)
    BY <1>3 DEF StageOK
  <1>6. RewriteVisits(d, window, found) /\ cuts' = [cuts EXCEPT ![d] = @ \cup ({window.from} \ {Nil})]
    BY <1>2 DEF ProcessRewrite, AtDevice
  <1>7. /\ TableInv'
        /\ visits' \in [DeviceIDs -> Seq(Visit)]
        /\ visits'[d] = Rewritten(visits[d], window, found)
        /\ \A e \in DeviceIDs \ {d} : visits'[e] = visits[e]
    BY <1>0, <1>1, <1>5, <1>6, RewriteTables
  <1>8. window \in Window
    BY <1>0 DEF TypeOK
  <1>9. /\ cuts' \in [DeviceIDs -> SUBSET Int]
        /\ cuts'[d] = cuts[d] \cup ({window.from} \ {Nil})
        /\ \A e \in DeviceIDs \ {d} : cuts'[e] = cuts[e]
    BY <1>0, <1>6, <1>8 DEF TypeOK, Window
  <1>10. TypeOK'
    BY <1>0, <1>1, <1>7, <1>9 DEF TypeOK
  <1>11. Near(points[d]) => visits'[d] = found
    <2>1. Near(points[d]) => \A i \in 1..Len(visits[d]) : InWindow(visits[d][i].start, window)
      <3>1. Near(points[d]) => \A v : BackedIn(v, points[d]) => InWindow(v.start, window)
        BY <1>4, NearInside
      <3>2. \A i \in 1..Len(visits[d]) : BackedIn(visits[d][i], points[d])
        BY <1>0 DEF RowsBacked
      <3> QED BY <3>1, <3>2
    <2>2. found \in Seq(Visit)
      BY <1>5 DEF FoundOK
    <2>3. Near(points[d]) => Rewritten(visits[d], window, found) = found
      BY <1>3, <2>1, <2>2, RewriteJoins
    <2> QED BY <1>7, <2>3
  <1>12. ProcessOK'
    <2>1. StageOK("mark", points[d], late[d], watermark[d], maxSeq, window, found, visits'[d],
                  d \in byHand)
      BY <1>3, <1>4, <1>11 DEF StageOK
    <2>2. Current' = d /\ todo # <<>>
      BY <1>0, <1>1, <1>3 DEF Current, ProcessOK
    <2> QED BY <1>1, <2>1, <2>2 DEF ProcessOK
  <1>13. ManualOK'
    BY <1>1, ManualFrame DEF RowsInv
  <1>14. Marked'
    <2>1. ASSUME NEW e \in DeviceIDs \ byHand, watermark[e] >= MaxOf(points[e]), Near(points[e])
          PROVE  visits'[e] = WholeOf(points[e] \ late[e])
      <3>1. e # d
        <4>1. watermark[d] \in Nat
          BY <1>0 DEF TypeOK
        <4>2. ~(watermark[d] >= MaxOf(points[d]))
          BY <4>1, <1>3, <1>4, Behind
        <4> QED BY <4>2, <2>1
      <3>2. visits'[e] = visits[e]
        BY <1>7, <3>1
      <3> QED BY <1>0, <2>1, <3>2 DEF Marked
    <2> QED BY <1>1, <2>1 DEF Marked
  <1>15. CutsOK'
    <2>1. ASSUME NEW e \in DeviceIDs \ byHand
          PROVE  CutBetween(visits'[e], cuts'[e])
      <3>0. CutBetween(visits[e], cuts[e])
        BY <1>0 DEF CutsOK
      <3>1. CASE e = d
        <4>0. CutBetween(visits[d], cuts[d])
          BY <3>0, <3>1
        <4>1. CutBetween(Rewritten(visits[d], window, found), cuts[d] \cup ({window.from} \ {Nil}))
          BY <4>0, <1>3, <1>4, <1>5, <1>8, RewriteCuts
        <4> QED BY <1>7, <1>9, <3>1, <4>1
      <3>2. CASE e # d
        BY <1>7, <1>9, <3>0, <3>2
      <3> QED BY <3>1, <3>2
    <2> QED BY <1>1, <2>1 DEF CutsOK
  <1> QED BY <1>7, <1>10, <1>12, <1>13, <1>14, <1>15 DEF RowsInv

LEMMA ProcessMarkKeeps ==
  ASSUME RowsInv, ProcessMark
  PROVE  RowsInv'
  <1>0. TypeOK /\ TableInv /\ TablesOK /\ ProcessOK /\ Marked
    BY DEF RowsInv, TableInv
  <1>1. /\ spc = "mark" /\ NextDevice
        /\ UNCHANGED <<points, visits, devices, manual, waited, byHand, late, cuts>>
    BY DEF ProcessMark, tableVars, histVars
  <1>2. PICK d \in DeviceIDs : AtDevice(d)
    BY <1>1, AtSome
  <1>3. /\ Rows(points[d])
        /\ StageOK("mark", points[d], late[d], watermark[d], maxSeq, window, found, visits[d],
                   d \in byHand)
    BY <1>1, <1>2 DEF AtDevice
  <1>4. /\ \E p \in points[d] : p.seq = maxSeq
        /\ Near(points[d]) /\ MaxOf(points[d]) = maxSeq => found = WholeOf(points[d] \ late[d])
        /\ d \notin byHand /\ Near(points[d]) => visits[d] = found
    BY <1>3 DEF StageOK
  <1>5. /\ watermark' \in [DeviceIDs -> Nat] /\ watermark'[d] = maxSeq
        /\ \A e \in DeviceIDs \ {d} : watermark'[e] = watermark[e]
    BY <1>0, <1>2 DEF ProcessMark, AtDevice, TypeOK
  <1>6. /\ ProcessOK'
        /\ spc' \in {"idle", "read", "list", "rewrite", "mark"}
        /\ todo' \in Seq(devices) /\ maxSeq' \in Nat /\ window' \in Window /\ found' \in Seq(Visit)
        /\ UNCHANGED <<roundRobinStart, cancelled>>
    BY <1>0, <1>1, NextDeviceRests
  <1>7. TypeOK'
    BY <1>0, <1>1, <1>5, <1>6 DEF TypeOK
  <1>8. TableInv'
    <2>1. \A e \in DeviceIDs : watermark'[e] = 0 \/ \E p \in points[e] : p.seq = watermark'[e]
      BY <1>0, <1>4, <1>5 DEF TablesOK
    <2> QED BY <1>0, <1>1, <2>1 DEF TableInv, TablesOK, RowsBacked, StartsApart
  <1>9. ManualOK' /\ CutsOK'
    BY <1>1, ManualFrame, CutsFrame DEF RowsInv
  <1>10. Marked'
    <2>1. ASSUME NEW e \in DeviceIDs \ byHand, watermark'[e] >= MaxOf(points[e]), Near(points[e])
          PROVE  visits[e] = WholeOf(points[e] \ late[e])
      <3>1. CASE e = d
        <4>1. maxSeq >= MaxOf(points[d]) /\ Near(points[d]) /\ d \notin byHand
          BY <1>5, <2>1, <3>1
        <4>2. maxSeq <= MaxOf(points[d]) /\ MaxOf(points[d]) \in Int /\ maxSeq \in Int
          BY <1>3, <1>4, MaxOfRows DEF Rows
        <4>3. MaxOf(points[d]) = maxSeq
          BY <4>1, <4>2
        <4> QED BY <1>4, <3>1, <4>1, <4>3
      <3>2. CASE e # d
        <4>1. watermark[e] >= MaxOf(points[e])
          BY <1>5, <2>1, <3>2
        <4> QED BY <1>0, <2>1, <4>1 DEF Marked
      <3> QED BY <3>1, <3>2
    <2> QED BY <1>1, <2>1 DEF Marked
  <1> QED BY <1>6, <1>7, <1>8, <1>9, <1>10 DEF RowsInv

LEMMA ProcessFailsKeeps ==
  ASSUME RowsInv, ProcessFails
  PROVE  RowsInv'
  <1>0. TypeOK /\ ProcessOK
    BY DEF RowsInv
  <1>1. /\ spc # "idle" /\ NextDevice
        /\ UNCHANGED <<points, visits, devices, watermark, manual, waited, byHand, late, cuts>>
    BY DEF ProcessFails, tableVars, histVars
  <1>2. /\ ProcessOK'
        /\ spc' \in {"idle", "read", "list", "rewrite", "mark"}
        /\ todo' \in Seq(devices) /\ maxSeq' \in Nat /\ window' \in Window /\ found' \in Seq(Visit)
        /\ UNCHANGED <<roundRobinStart, cancelled>>
    BY <1>0, <1>1, NextDeviceRests
  <1>3. TypeOK'
    BY <1>0, <1>1, <1>2 DEF TypeOK
  <1>4. TableInv' /\ ManualOK' /\ Marked' /\ CutsOK'
    BY <1>1, TablesFrame, ManualFrame, MarkedFrame, CutsFrame DEF RowsInv, tableVars
  <1> QED BY <1>2, <1>3, <1>4 DEF RowsInv

-----------------------------------------------------------------------------
(* Rebuilds by hand, and the rest.                                         *)

LEMMA GenerateListKeeps ==
  ASSUME RowsInv, NEW d \in DeviceIDs, NEW w \in ManualWindows, NEW dwell \in ManualDwells,
         GenerateList(d, w, dwell)
  PROVE  RowsInv'
  <1>0. TypeOK /\ TablesOK
    BY DEF RowsInv, TableInv
  <1>1. /\ d \in devices
        /\ UNCHANGED <<points, visits, devices, watermark, roundRobinStart, spc, todo, maxSeq, window,
                       found, cancelled, waited, byHand, late, cuts>>
    BY DEF GenerateList, tableVars, runVars, processVars, histVars
  <1> DEFINE g == Detect(Listing(points[d], w), dwell)
  <1>2. manual' = [device |-> d, window |-> w, found |-> g]
    BY ListPointsIs DEF GenerateList
  <1>3. FoundOK(g, points[d], w)
    <2>1. points[d] \in SUBSET Point /\ Rows(points[d]) /\ dwell \in ManualDwells \cup {MinDwell}
      BY <1>0 DEF TypeOK, TablesOK
    <2> QED BY <2>1, FoundIn
  <1> HIDE DEF g
  <1>4. manual' \in [device : devices, window : Window, found : Seq(Visit)]
    <2>1. w \in Window /\ g \in Seq(Visit)
      BY <1>3, SchedulerAssumption DEF FoundOK
    <2> QED BY <1>1, <1>2, <2>1
  <1>5. TypeOK'
    BY <1>0, <1>1, <1>4 DEF TypeOK
  <1>6. ManualOK'
    <2>1. manual'.found = g /\ manual'.device = d /\ manual'.window = w
      BY <1>2
    <2> QED BY <1>1, <1>3, <2>1 DEF ManualOK
  <1>7. TableInv' /\ ProcessOK' /\ Marked' /\ CutsOK'
    BY <1>1, TablesFrame, ProcessFrame, MarkedFrame, CutsFrame DEF RowsInv, tableVars, processVars
  <1> QED BY <1>5, <1>6, <1>7 DEF RowsInv

LEMMA GenerateRewriteKeeps ==
  ASSUME RowsInv, GenerateRewrite
  PROVE  RowsInv'
  <1>0. TypeOK /\ TableInv /\ ProcessOK /\ Marked /\ CutsOK
    BY DEF RowsInv
  <1>1. /\ manual # Nil /\ manual' = Nil
        /\ byHand' = byHand \cup {manual.device}
        /\ UNCHANGED <<points, devices, watermark, roundRobinStart, spc, todo, maxSeq, window,
                       found, cancelled, waited, late, cuts>>
    BY DEF GenerateRewrite, runVars, processVars
  <1>2. PICK d \in DeviceIDs : d = manual.device /\ d \in devices
    BY <1>0, <1>1 DEF TypeOK
  <1>3. FoundOK(manual.found, points[d], manual.window)
    BY <1>1, <1>2 DEF RowsInv, ManualOK
  <1>4. /\ TableInv'
        /\ visits' \in [DeviceIDs -> Seq(Visit)]
        /\ \A e \in DeviceIDs \ {d} : visits'[e] = visits[e]
    <2>1. RewriteVisits(d, manual.window, manual.found)
      BY <1>2 DEF GenerateRewrite
    <2> QED BY <1>0, <1>1, <1>3, <2>1, RewriteTables
  <1>5. d \in byHand' /\ byHand' = byHand \cup {d} /\ byHand' \subseteq devices
    BY <1>0, <1>1, <1>2 DEF TypeOK
  <1>6. TypeOK'
    BY <1>0, <1>1, <1>4, <1>5 DEF TypeOK
  <1>7. ManualOK'
    BY <1>1 DEF ManualOK
  <1>8. Marked'
    <2>1. \A e \in DeviceIDs \ byHand' : e \in DeviceIDs \ byHand /\ visits'[e] = visits[e]
      BY <1>4, <1>5
    <2> QED BY <1>0, <1>1, <2>1 DEF Marked
  <1>9. CutsOK'
    <2>1. \A e \in DeviceIDs \ byHand' : e \in DeviceIDs \ byHand /\ visits'[e] = visits[e]
      BY <1>4, <1>5
    <2> QED BY <1>0, <1>1, <2>1 DEF CutsOK
  <1>10. ProcessOK'
    <2>1. CASE spc = "idle"
      <3>1. spc' \in {"idle", "read"} /\ (spc' # "idle" => todo' # <<>>)
        BY <1>1, <2>1
      <3> QED BY <3>1, Resting
    <2>2. CASE spc # "idle"
      <3>1. PICK c \in DeviceIDs : AtDevice(c)
        BY <2>2, AtSome
      <3>2. /\ c = Current /\ c = Current' /\ todo # <<>>
            /\ StageOK(spc, points[c], late[c], watermark[c], maxSeq, window, found, visits[c],
                       c \in byHand)
        BY <1>0, <1>1, <2>2, <3>1 DEF AtDevice, Current, ProcessOK
      <3>3. StageOK(spc, points[c], late[c], watermark[c], maxSeq, window, found, visits'[c],
                    c \in byHand')
        <4>1. CASE c = d
          <5>1. c \in byHand'
            BY <1>5, <4>1
          <5> QED BY <3>2, <5>1 DEF StageOK
        <4>2. CASE c # d
          <5>1. visits'[c] = visits[c] /\ (c \in byHand' <=> c \in byHand)
            BY <1>4, <1>5, <4>2
          <5> QED BY <3>2, <5>1 DEF StageOK
        <4> QED BY <4>1, <4>2
      <3> QED BY <1>1, <3>2, <3>3 DEF ProcessOK
    <2> QED BY <2>1, <2>2
  <1> QED BY <1>4, <1>6, <1>7, <1>8, <1>9, <1>10 DEF RowsInv

LEMMA OthersKeep ==
  ASSUME RowsInv,
         UNCHANGED <<points, visits, devices, watermark, byHand, late, cuts>>,
         manual' = Nil \/ manual' = manual,
         waited' \in [DeviceIDs -> Nat], cancelled' \in BOOLEAN, roundRobinStart' \in Nat,
         \/ UNCHANGED <<spc, todo, maxSeq, window, found>>
         \/ /\ spc' \in {"idle", "read"} /\ (spc' # "idle" => todo' # <<>>)
            /\ todo' \in Seq(devices) /\ maxSeq' \in Nat /\ window' \in Window
            /\ found' \in Seq(Visit)
  PROVE  RowsInv'
  <1>0. TypeOK
    BY DEF RowsInv
  <1>1. TypeOK'
    BY <1>0 DEF TypeOK
  <1>2. TableInv' /\ Marked' /\ CutsOK'
    BY TablesFrame, MarkedFrame, CutsFrame DEF RowsInv, tableVars
  <1>3. ManualOK'
    BY DEF RowsInv, ManualOK
  <1>4. ProcessOK'
    <2>1. CASE UNCHANGED <<spc, todo, maxSeq, window, found>>
      BY <2>1, ProcessFrame DEF RowsInv, processVars
    <2>2. CASE spc' \in {"idle", "read"} /\ (spc' # "idle" => todo' # <<>>)
      BY <2>2, Resting
    <2> QED BY <2>1, <2>2
  <1> QED BY <1>1, <1>2, <1>3, <1>4 DEF RowsInv

-----------------------------------------------------------------------------
(* Round robin.                                                            *)

LEMMA Modulo ==
  ASSUME NEW n \in Nat \ {0}, NEW a \in Nat
  PROVE  /\ a % n \in 0..(n - 1)
         /\ a < n => a % n = a
         /\ (n <= a /\ a < n + n) => a % n = a - n
  <1>1. a % n \in 0..(n - 1)
    OBVIOUS
  <1>2. a < n => a % n = a
    OBVIOUS
  <1>3. ASSUME n <= a, a < n + n
        PROVE  a % n = a - n
    <2>1. a = n * (a \div n) + (a % n) /\ a \div n \in Int /\ a % n \in 0..(n - 1)
      OBVIOUS
    <2>2. a \div n = 1
      BY <1>3
    <2> QED BY <2>1, <2>2
  <1> QED BY <1>1, <1>2, <1>3

(* How far position p is from its turn, when the next run starts at s.     *)
Away(p, n, s) == IF p >= s THEN p - s ELSE n - s + p

Moves(p, n, s, B) ==
  /\ Away(p, n, s) < B => \E i \in 1..B : ((s + i - 1) % n) + 1 = p + 1
  /\ Away(p, n, s) >= B => Away(p, n, (s + B) % n) = Away(p, n, s) - B

(* A run with a batch of B of n devices serves the first B.                *)
LEMMA Round ==
  ASSUME NEW n \in Nat, NEW p \in 0..(n - 1), NEW s \in 0..(n - 1), NEW B \in Nat \ {0}, B < n
  PROVE  /\ s % n = s /\ (s + B) % n \in 0..(n - 1)
         /\ Moves(p, n, s, B)
  <1>1. n \in Nat \ {0} /\ s \in Nat /\ s + B \in Nat
    OBVIOUS
  <1>2. s % n = s /\ (s + B) % n \in 0..(n - 1)
    <2>1. s < n
      OBVIOUS
    <2>2. s % n = s
      BY <1>1, <2>1, Modulo
    <2>3. (s + B) % n \in 0..(n - 1)
      <3> DEFINE a == s + B
      <3>1. a \in Nat
        BY <1>1
      <3> HIDE DEF a
      <3>2. a % n \in 0..(n - 1)
        BY <1>1, <3>1, Modulo
      <3> QED BY <3>2 DEF a
    <2> QED BY <2>2, <2>3
  <1>3. ASSUME Away(p, n, s) < B
        PROVE  \E i \in 1..B : ((s + i - 1) % n) + 1 = p + 1
    <2>0. Away(p, n, s) + 1 \in 1..B
      BY <1>3 DEF Away
    <2>1. PICK i \in 1..B : i = Away(p, n, s) + 1
      BY <2>0
    <2>2. PICK a \in Nat : a = s + i - 1 /\ (a = p \/ a = n + p)
      BY <2>1 DEF Away
    <2>3. a % n = p
      <3>1. CASE a = p
        <4>1. a < n
          BY <3>1
        <4> QED BY <1>1, <3>1, <4>1, Modulo
      <3>2. CASE a = n + p
        <4>1. n <= a /\ a < n + n /\ a - n = p
          BY <3>2
        <4>2. a % n = a - n
          BY <1>1, <4>1, Modulo
        <4> QED BY <4>1, <4>2
      <3> QED BY <2>2, <3>1, <3>2
    <2>4. ((s + i - 1) % n) + 1 = p + 1
      BY <2>2, <2>3
    <2> QED BY <2>4
  <1>4. ASSUME Away(p, n, s) >= B
        PROVE  Away(p, n, (s + B) % n) = Away(p, n, s) - B
    <2>1. PICK r \in 0..(n - 1) : r = (s + B) % n
      BY <1>2
    <2>2. r = IF s + B < n THEN s + B ELSE s + B - n
      <3>1. PICK a \in Nat : a = s + B
        BY <1>1
      <3>2. a < n + n
        BY <3>1
      <3>3. a < n => a % n = a
        BY <1>1, Modulo
      <3>4. n <= a => a % n = a - n
        BY <1>1, <3>2, Modulo
      <3>5. r = a % n
        BY <2>1, <3>1
      <3> QED BY <3>1, <3>3, <3>4, <3>5
    <2>3. Away(p, n, r) = Away(p, n, s) - B
      BY <1>4, <2>2 DEF Away
    <2> QED BY <2>1, <2>3
  <1> QED BY <1>2, <1>3, <1>4 DEF Moves

(* The place of a device in the list of devices.                           *)
LEMMA SortedDevices ==
  ASSUME IsFiniteSet(devices), devices \in SUBSET Int
  PROVE  /\ Sorted \in Seq(devices) /\ Len(Sorted) = Cardinality(devices) /\ Len(Sorted) \in Nat
         /\ \A d \in devices : /\ Pos(d, devices) \in 0..(Len(Sorted) - 1)
                               /\ Sorted[Pos(d, devices) + 1] = d
  <1> DEFINE D == devices
             R == {pq \in D \X D : pq[1] < pq[2]}
             s == Sorted
  <1>1. Sorts(s, R, D)
    BY SortedPositions DEF Sorted
  <1> HIDE DEF s, D
  <1>2. s \in Seq(D) /\ Len(s) = Cardinality(D) /\ Len(s) \in Nat
    BY <1>1 DEF Sorts
  <1>3. \A i, j \in 1..Len(s) : i < j => s[i] < s[j]
    BY <1>1 DEF Sorts
  <1>4. \A i \in 1..Len(s) : s[i] \in D /\ s[i] \in Int
    <2>1. \A i \in 1..Len(s) : s[i] \in D
      BY <1>2
    <2>2. D \in SUBSET Int
      BY DEF D
    <2> QED BY <2>1, <2>2
  <1>5. ASSUME NEW d \in D
        PROVE  Pos(d, D) \in 0..(Len(s) - 1) /\ s[Pos(d, D) + 1] = d
    <2>1. PICK i \in 1..Len(s) : s[i] = d
      BY <1>1 DEF Sorts
    <2> DEFINE T == {e \in D : e < d}
               f == [k \in 1..(i - 1) |-> s[k]]
    <2>2. \A k \in 1..(i - 1) : k \in 1..Len(s) /\ k < i
      BY <1>2
    <2>3. \A k \in 1..(i - 1) : s[k] \in T
      BY <1>3, <1>4, <2>1, <2>2
    <2>4. f \in [1..(i - 1) -> T]
      BY <2>3
    <2>5. ASSUME NEW k \in 1..(i - 1), NEW l \in 1..(i - 1), f[k] = f[l]
          PROVE  k = l
      <3>1. k \in 1..Len(s) /\ l \in 1..Len(s) /\ s[k] = s[l] /\ s[k] \in Int
        BY <1>4, <2>2, <2>5
      <3>2. ~(k < l) /\ ~(l < k)
        BY <1>3, <1>4, <3>1
      <3> QED BY <3>2
    <2>6. ASSUME NEW e \in T
          PROVE  \E k \in 1..(i - 1) : f[k] = e
      <3>1. PICK k \in 1..Len(s) : s[k] = e
        BY <1>1 DEF Sorts
      <3>2. s[k] < s[i] /\ s[k] \in Int /\ s[i] \in Int
        BY <1>4, <2>1, <3>1
      <3>3. ~(i < k) /\ i # k
        BY <1>3, <3>2
      <3>4. k \in 1..(i - 1)
        BY <3>3, <1>2
      <3> QED BY <3>1, <3>4
    <2> HIDE DEF f, T
    <2>7. f \in Bijection(1..(i - 1), T)
      BY <2>4, <2>5, <2>6 DEF Bijection, Injection, IsInjective, Surjection
    <2>8. 1 \in Int /\ i - 1 \in Int /\ i >= 1
      BY <1>2
    <2>9. /\ IsFiniteSet(1..(i - 1))
          /\ Cardinality(1..(i - 1)) = IF 1 > i - 1 THEN 0 ELSE i - 1 - 1 + 1
      BY <2>8, FS_Interval
    <2>10. ExistsBijection(1..(i - 1), T)
      BY <2>7 DEF ExistsBijection
    <2>11. Cardinality(T) = Cardinality(1..(i - 1))
      BY <2>9, <2>10, FS_Bijection
    <2>12. Pos(d, D) = i - 1
      BY <2>8, <2>9, <2>11 DEF Pos, T
    <2> QED BY <1>2, <2>1, <2>12
  <1> QED BY <1>2, <1>5 DEF s, D

LEMMA TurnIs == \A d, D, s : Turn(d, D, s) = Away(Pos(d, D), Cardinality(D), s)
  BY DEF Turn, Away

LEMMA TurnsFrame ==
  ASSUME TurnsOK, UNCHANGED <<devices, roundRobinStart, waited>>
  PROVE  TurnsOK'
  BY DEF TurnsOK

(* The ids in the table are numbers, and finitely many.                    *)
LEMMA Devices ==
  ASSUME TypeOK, TablesOK
  PROVE  /\ IsFiniteSet(devices) /\ devices \in SUBSET Int /\ devices \in SUBSET DeviceIDs
         /\ Cardinality(devices) \in Nat
  <1>1. IsFiniteSet(devices) /\ devices \in SUBSET DeviceIDs
    BY DEF TypeOK, TablesOK
  <1>2. devices \in SUBSET Int
    BY <1>1, VisitsAssumption
  <1> QED BY <1>1, <1>2, FS_CardinalityType

LEMMA CreateDeviceTurns ==
  ASSUME TypeOK, TablesOK, TurnsOK, NEW d \in DeviceIDs, CreateDevice(d)
  PROVE  TurnsOK'
  <1>1. /\ devices' = devices \cup {d} /\ d \notin devices
        /\ \A e \in DeviceIDs : e < d => e \in devices
        /\ UNCHANGED <<roundRobinStart, waited>>
    BY DEF CreateDevice, runVars, histVars
  <1> DEFINE D == devices
             s == roundRobinStart
             n == Cardinality(D)
  <1>2. IsFiniteSet(D) /\ D \in SUBSET Int /\ D \in SUBSET DeviceIDs /\ n \in Nat /\ d \in Int
    BY Devices, VisitsAssumption
  <1>3. PICK D2 : D2 = D \cup {d} /\ D2 = devices'
    BY <1>1
  <1>4. Cardinality(D2) = n + 1
    <2>1. d \notin D
      BY <1>1
    <2>2. Cardinality(D \cup {d}) = IF d \in D THEN Cardinality(D) ELSE Cardinality(D) + 1
      BY <1>2, FS_AddElement, Zenon
    <2> QED BY <1>3, <2>1, <2>2
  <1>5. \A c \in D : c < d
    <2> SUFFICES ASSUME NEW c \in D PROVE c < d
      OBVIOUS
    <2>1. ~(d < c)
      BY <1>1 DEF TablesOK
    <2>2. c # d /\ c \in Int
      BY <1>1, <1>2
    <2> QED BY <1>2, <2>1, <2>2
  <1>6. Pos(d, D2) = n
    <2>1. \A e : e \in {c \in D2 : c < d} <=> e \in D
      <3>1. ~(d < d)
        BY <1>2
      <3> HIDE DEF D
      <3> QED BY <1>3, <1>5, <3>1
    <2>2. {c \in D2 : c < d} = D
      BY <2>1, Zenon
    <2> QED BY <2>2, Zenon DEF Pos
  <1>7. \A c \in D : Pos(c, D2) = Pos(c, D)
    <2> SUFFICES ASSUME NEW c \in D PROVE Pos(c, D2) = Pos(c, D)
      OBVIOUS
    <2>1. ~(d < c)
      BY <1>1 DEF TablesOK
    <2>2. {e \in D2 : e < c} = {e \in D : e < c}
      BY <1>3, <2>1
    <2> QED BY <2>2 DEF Pos
  <1>8. \A c \in D : Pos(c, D) \in 0..(n - 1)
    BY <1>2, SortedDevices
  <1>9. s \in Nat /\ (s = 0 \/ s < n) /\ \A c \in DeviceIDs : waited[c] \in Nat
    BY DEF TypeOK, TurnsOK
  <1>10. DeviceBatchSize \in Nat
    BY SchedulerAssumption
  <1>11. ASSUME NEW c \in D2
         PROVE  waited[c] * DeviceBatchSize + Turn(c, D2, s) < Cardinality(D2)
    <2>1. CASE c = d
      <3>1. waited[c] = 0
        BY <1>1, <2>1 DEF TurnsOK
      <3>2. waited[c] * DeviceBatchSize = 0
        BY <3>1, <1>10
      <3>3. Turn(c, D2, s) = n - s
        <4>1. Pos(d, D2) >= s
          BY <1>2, <1>6, <1>9
        <4> QED BY <1>6, <2>1, <4>1 DEF Turn
      <3> HIDE DEF D, s, n
      <3> QED BY <1>2, <1>4, <1>9, <3>2, <3>3
    <2>2. CASE c # d
      <3>1. c \in D /\ c \in DeviceIDs
        BY <1>2, <1>3, <2>2
      <3>2. waited[c] * DeviceBatchSize + Turn(c, D, s) < n
        BY <3>1 DEF TurnsOK
      <3>3. PICK k \in Nat : k = waited[c] * DeviceBatchSize
        BY <1>9, <1>10, <3>1
      <3>4. PICK p \in 0..(n - 1) : p = Pos(c, D) /\ p = Pos(c, D2)
        BY <1>7, <1>8, <3>1
      <3> HIDE DEF D, s, n
      <3>5. Turn(c, D, s) = Away(p, n, s) /\ Turn(c, D2, s) = Away(p, n + 1, s)
        BY <1>4, <3>4, TurnIs DEF n
      <3>6. k + Away(p, n, s) < n => k + Away(p, n + 1, s) < n + 1
        BY <1>2, <1>9 DEF Away
      <3> QED BY <1>4, <3>2, <3>3, <3>5, <3>6
    <2> QED BY <2>1, <2>2
  <1>12. \A c \in DeviceIDs \ D2 : waited[c] = 0
    BY <1>3 DEF TurnsOK
  <1>13. s = 0 \/ s < Cardinality(D2)
    BY <1>2, <1>4, <1>9
  <1> QED BY <1>1, <1>3, <1>11, <1>12, <1>13 DEF TurnsOK

LEMMA RestartTurns ==
  ASSUME TypeOK, TablesOK, devices' = devices, roundRobinStart' = 0,
         waited' = [d \in DeviceIDs |-> 0]
  PROVE  TurnsOK'
  <1>1. /\ IsFiniteSet(devices) /\ devices \in SUBSET Int /\ devices \in SUBSET DeviceIDs
        /\ Cardinality(devices) \in Nat
    BY Devices
  <1>2. \A d \in devices : Pos(d, devices) \in 0..(Cardinality(devices) - 1)
    BY <1>1, SortedDevices
  <1>3. ASSUME NEW d \in devices
        PROVE  waited'[d] * DeviceBatchSize + Turn(d, devices, 0) < Cardinality(devices)
    <2>1. waited'[d] = 0 /\ 0 * DeviceBatchSize = 0
      BY <1>1, SchedulerAssumption
    <2>2. Turn(d, devices, 0) = Pos(d, devices)
      BY <1>2 DEF Turn
    <2> QED BY <1>1, <1>2, <2>1, <2>2
  <1> QED BY <1>3 DEF TurnsOK

(* The devices of a run.                                                   *)
LEMMA Selects ==
  ASSUME TypeOK, TablesOK, SelectDeviceBatch
  PROVE  /\ todo' \in Seq(devices) /\ roundRobinStart' \in Nat
         /\ devices # {} => todo' # <<>>
  <1> DEFINE D == devices
             s == Sorted
             n == Len(s)
             B == DeviceBatchSize
  <1>1. /\ IsFiniteSet(devices) /\ devices \in SUBSET Int /\ Cardinality(devices) \in Nat
        /\ roundRobinStart \in Nat
    BY Devices DEF TypeOK
  <1>2. s \in Seq(D) /\ n = Cardinality(D) /\ n \in Nat
    BY <1>1, SortedDevices
  <1>3. B \in Nat \ {0}
    BY SchedulerAssumption
  <1>4. CASE n <= B
    <2>1. todo' = s /\ roundRobinStart' = roundRobinStart
      BY <1>4 DEF SelectDeviceBatch
    <2>2. D # {} => n # 0
      BY <1>1, <1>2, FS_EmptySet
    <2>3. s = <<>> => n = 0
      <3>1. Len(<<>>) = 0
        OBVIOUS
      <3> QED BY <3>1, Zenon
    <2> QED BY <1>1, <1>2, <2>1, <2>2, <2>3
  <1>5. CASE ~(n <= B)
    <2> DEFINE start == roundRobinStart % n
    <2>1. /\ todo' = [i \in 1..B |-> s[((start + i - 1) % n) + 1]]
          /\ roundRobinStart' = (start + B) % n
      BY <1>5 DEF SelectDeviceBatch
    <2> HIDE DEF D, s, B
    <2>2. n \in Nat \ {0}
      BY <1>2, <1>3, <1>5
    <2> HIDE DEF n
    <2>3. start \in 0..(n - 1)
      BY <1>1, <2>2, Modulo
    <2> HIDE DEF start
    <2>4. (start + B) % n \in 0..(n - 1)
      <3>1. PICK a \in Nat : a = start + B
        BY <1>3, <2>3
      <3>2. a % n \in 0..(n - 1)
        BY <2>2, Modulo
      <3> QED BY <3>1, <3>2
    <2>5. ASSUME NEW i \in 1..B
          PROVE  s[((start + i - 1) % n) + 1] \in D
      <3>1. PICK a \in Nat : a = start + i - 1
        BY <1>3, <2>3
      <3>2. a % n \in 0..(n - 1)
        BY <2>2, Modulo
      <3>3. (a % n) + 1 \in 1..n
        BY <2>2, <3>2
      <3>4. s[(a % n) + 1] \in D
        BY <1>2, <3>3 DEF n
      <3> QED BY <3>1, <3>4
    <2>6. todo' \in [1..B -> D]
      BY <2>1, <2>5
    <2>7. todo' \in Seq(D) /\ Len(todo') = B
      BY <1>3, <2>6
    <2>8. todo' # <<>>
      <3>1. Len(<<>>) = 0
        OBVIOUS
      <3>2. Len(todo') # 0
        BY <1>3, <2>7
      <3> QED BY <3>1, <3>2, Zenon
    <2>9. roundRobinStart' \in Nat
      BY <2>1, <2>2, <2>4
    <2> QED BY <2>7, <2>8, <2>9 DEF D
  <1> QED BY <1>4, <1>5

LEMMA RunOnceTurns ==
  ASSUME TypeOK, TablesOK, TurnsOK, RunOnce
  PROVE  TurnsOK'
  <1> DEFINE D == devices
             n == Cardinality(D)
             s == roundRobinStart
             B == DeviceBatchSize
             place(d) == Pos(d, D)
  <1>1. /\ SelectDeviceBatch /\ UNCHANGED devices
        /\ waited' = [d \in DeviceIDs |->
             IF d \in ToSet(todo') \/ d \notin devices THEN 0 ELSE waited[d] + 1]
    BY DEF RunOnce
  <1>2. IsFiniteSet(D) /\ D \in SUBSET Int /\ D \in SUBSET DeviceIDs /\ n \in Nat
    BY Devices
  <1>3. /\ Len(Sorted) = n
        /\ \A d \in D : place(d) \in 0..(n - 1) /\ Sorted[place(d) + 1] = d
    BY <1>2, SortedDevices
  <1>4. B \in Nat \ {0} /\ s \in Nat /\ (s = 0 \/ s < n) /\ \A d \in DeviceIDs : waited[d] \in Nat
    BY SchedulerAssumption DEF TypeOK, TurnsOK
  <1>5. \A d \in DeviceIDs \ D : waited'[d] = 0
    BY <1>1
  <1>6. ASSUME NEW d \in D
        PROVE  /\ waited'[d] = 0 \/ waited'[d] = waited[d] + 1
               /\ d \in ToSet(todo') => waited'[d] = 0
               /\ waited[d] * B + Away(place(d), n, s) < n
    <2>1. d \in DeviceIDs
      BY <1>2
    <2>2. waited'[d] = IF d \in ToSet(todo') THEN 0 ELSE waited[d] + 1
      BY <1>1, <2>1
    <2>3. waited[d] * B + Turn(d, D, s) < n
      BY DEF TurnsOK
    <2>4. Turn(d, D, s) = Away(place(d), n, s)
      BY TurnIs, Zenon
    <2> QED BY <2>2, <2>3, <2>4
  <1>7. ASSUME NEW s2 \in Nat, s2 = 0 \/ s2 < n, s2 = roundRobinStart',
               \A d \in D : waited'[d] * B + Away(place(d), n, s2) < n
        PROVE  TurnsOK'
    <2>1. \A d \in D : waited'[d] * B + Turn(d, D, s2) < Cardinality(D)
      BY <1>7, TurnIs
    <2> QED BY <1>1, <1>5, <1>7, <2>1 DEF TurnsOK
  <1>8. CASE n <= B
    <2>1. todo' = Sorted /\ roundRobinStart' = s
      BY <1>1, <1>3, <1>8 DEF SelectDeviceBatch
    <2>2. ASSUME NEW d \in D
          PROVE  waited'[d] * B + Away(place(d), n, s) < n
      <3>1. place(d) \in 0..(n - 1) /\ Sorted[place(d) + 1] = d
        BY <1>3
      <3>2. d \in ToSet(todo')
        <4>1. place(d) + 1 \in 1..Len(Sorted)
          BY <1>2, <1>3, <3>1
        <4>2. place(d) + 1 \in DOMAIN Sorted
          <5>1. Sorted \in Seq(devices)
            BY <1>2, SortedDevices
          <5> QED BY <4>1, <5>1
        <4> QED BY <2>1, <3>1, <4>2 DEF ToSet
      <3>3. waited'[d] * B = 0
        BY <1>4, <1>6, <3>2
      <3> HIDE DEF D, n, s, B, place
      <3> QED BY <1>2, <1>4, <3>1, <3>3 DEF Away
    <2> QED BY <1>4, <1>7, <2>1, <2>2
  <1>9. CASE ~(n <= B)
    <2>0. B < n /\ s \in 0..(n - 1)
      BY <1>2, <1>4, <1>9
    <2>1. s % n = s /\ (s + B) % n \in 0..(n - 1)
      <3> HIDE DEF D, n, s, B
      <3>1. 0 \in 0..(n - 1)
        BY <1>2, <1>4, <2>0
      <3> QED BY <1>2, <1>4, <2>0, <3>1, Round
    <2>2. /\ todo' = [i \in 1..B |-> Sorted[((s + i - 1) % n) + 1]]
          /\ roundRobinStart' = (s + B) % n
      BY <1>1, <1>3, <1>9, <2>1 DEF SelectDeviceBatch
    <2>3. PICK s2 \in 0..(n - 1) : s2 = (s + B) % n
      BY <2>1
    <2>4. ASSUME NEW d \in D
          PROVE  waited'[d] * B + Away(place(d), n, s2) < n
      <3>1. PICK p \in 0..(n - 1) : p = place(d) /\ Sorted[p + 1] = d
        BY <1>3
      <3>2. /\ Away(p, n, s) < B => \E i \in 1..B : ((s + i - 1) % n) + 1 = p + 1
            /\ Away(p, n, s) >= B => Away(p, n, s2) = Away(p, n, s) - B
        <4>1. n \in Nat /\ B \in Nat \ {0}
          BY <1>2, <1>4
        <4> HIDE DEF D, n, s, B, place
        <4>2. Moves(p, n, s, B)
          BY <4>1, <2>0, Round
        <4> QED BY <4>2, <2>3 DEF Moves
      <3>3. PICK k \in Nat : k = waited[d]
        BY <1>2, <1>4
      <3>4. /\ waited'[d] = 0 \/ waited'[d] = k + 1
            /\ d \in ToSet(todo') => waited'[d] = 0
            /\ k * B + Away(p, n, s) < n
        BY <1>6, <3>1, <3>3
      <3>5. Away(p, n, s) < B => d \in ToSet(todo')
        <4> SUFFICES ASSUME Away(p, n, s) < B PROVE d \in ToSet(todo')
          OBVIOUS
        <4>1. PICK i \in 1..B : ((s + i - 1) % n) + 1 = p + 1
          BY <3>2
        <4>2. todo'[i] = Sorted[((s + i - 1) % n) + 1]
          BY <2>2
        <4>3. todo'[i] = d
          BY <3>1, <4>1, <4>2
        <4>4. i \in DOMAIN todo'
          BY <2>2
        <4> QED BY <4>3, <4>4 DEF ToSet
      <3> HIDE DEF D, n, s, B, place
      <3>6. Away(p, n, s2) < n /\ Away(p, n, s2) \in Nat /\ Away(p, n, s) \in Nat
        BY <1>2, <2>0 DEF Away
      <3>7. CASE waited'[d] = 0
        <4>1. waited'[d] * B = 0
          BY <1>4, <3>7
        <4> QED BY <3>1, <3>6, <4>1
      <3>8. CASE waited'[d] = k + 1
        <4>1. Away(p, n, s) >= B
          BY <1>4, <3>4, <3>5, <3>6, <3>8
        <4>2. Away(p, n, s2) = Away(p, n, s) - B
          BY <3>2, <4>1
        <4>3. PICK kb \in Nat : kb = k * B
          BY <1>4
        <4>4. (k + 1) * B = kb + B
          BY <1>4, <4>3
        <4>5. kb + Away(p, n, s) < n
          BY <3>4, <4>3
        <4>6. (kb + B) + Away(p, n, s2) < n
          BY <1>2, <1>4, <3>6, <4>2, <4>5
        <4> QED BY <3>1, <3>8, <4>4, <4>6
      <3> QED BY <3>4, <3>7, <3>8
    <2>5. s2 \in Nat /\ (s2 = 0 \/ s2 < n) /\ s2 = roundRobinStart'
      BY <1>2, <2>2, <2>3
    <2> HIDE DEF n, B, place
    <2> QED BY <1>7, <2>4, <2>5
  <1> QED BY <1>8, <1>9

-----------------------------------------------------------------------------
(* The invariant.                                                          *)

LEMMA VisitsInvInit == Init => VisitsInv
  <1> SUFFICES ASSUME Init PROVE VisitsInv
    OBVIOUS
  <1>1. /\ points = [d \in DeviceIDs |-> {}] /\ visits = [d \in DeviceIDs |-> <<>>]
        /\ devices = {} /\ watermark = [d \in DeviceIDs |-> 0] /\ roundRobinStart = 0
        /\ spc = "idle" /\ todo = <<>> /\ maxSeq = 0 /\ window = NoWindow /\ found = <<>>
        /\ cancelled = FALSE /\ manual = Nil /\ waited = [d \in DeviceIDs |-> 0] /\ byHand = {}
        /\ late = [d \in DeviceIDs |-> {}] /\ cuts = [d \in DeviceIDs |-> {}]
    BY DEF Init, VisitsInit
  <1>2. <<>> \in Seq(Visit) /\ <<>> \in Seq(devices) /\ Len(<<>>) = 0
    OBVIOUS
  <1>3. TypeOK
    <2>1. visits \in [DeviceIDs -> Seq(Visit)]
      BY <1>1, <1>2
    <2>2. window \in Window /\ found \in Seq(Visit) /\ todo \in Seq(devices)
      BY <1>1, <1>2, WindowTyped
    <2> QED BY <1>1, <2>1, <2>2 DEF TypeOK
  <1>4. TableInv
    <2>1. Rows({}) /\ IsFiniteSet({})
      BY FS_EmptySet DEF Rows
    <2>2. TablesOK
      BY <1>1, <2>1 DEF TablesOK
    <2>3. \A d \in DeviceIDs : Len(visits[d]) = 0
      BY <1>1, <1>2
    <2>4. RowsBacked /\ StartsApart
      BY <2>3 DEF RowsBacked, StartsApart
    <2> QED BY <2>2, <2>4 DEF TableInv
  <1>5. ProcessOK /\ ManualOK
    BY <1>1 DEF ProcessOK, StageOK, ManualOK
  <1>6. Marked
    <2>1. ASSUME NEW d \in DeviceIDs
          PROVE  visits[d] = WholeOf(points[d] \ late[d])
      <3>1. points[d] \ late[d] = {} /\ visits[d] = <<>>
        BY <1>1
      <3> QED BY <3>1, NothingFound
    <2> QED BY <2>1 DEF Marked
  <1>7. CutsOK
    <2>1. \A d \in DeviceIDs : Len(visits[d]) = 0
      BY <1>1, <1>2
    <2> QED BY <2>1 DEF CutsOK, CutBetween
  <1>8. TurnsOK
    BY <1>1 DEF TurnsOK
  <1> QED BY <1>3, <1>4, <1>5, <1>6, <1>7, <1>8 DEF VisitsInv, RowsInv

LEMMA VisitsInvStep == VisitsInv /\ [Next]_vars => VisitsInv'
  <1> SUFFICES ASSUME VisitsInv, [Next]_vars
               PROVE  VisitsInv'
    OBVIOUS
  <1>0. RowsInv /\ TurnsOK /\ TypeOK /\ TablesOK /\ ProcessOK
    BY DEF VisitsInv, RowsInv, TableInv
  <1>t. /\ todo \in Seq(devices) /\ maxSeq \in Nat /\ window \in Window /\ found \in Seq(Visit)
        /\ waited \in [DeviceIDs -> Nat] /\ roundRobinStart \in Nat /\ cancelled \in BOOLEAN
    BY <1>0 DEF TypeOK
  <1>1. ASSUME NEW d \in DeviceIDs, CreateDevice(d)
        PROVE  VisitsInv'
    BY <1>0, <1>1, CreateDeviceKeeps, CreateDeviceTurns DEF VisitsInv
  <1>2. ASSUME NEW a \in Arrivals, NEW seq \in 1..MaxSeq, StorePoint(a, seq)
        PROVE  VisitsInv'
    <2>1. UNCHANGED <<devices, roundRobinStart, waited>>
      BY <1>2 DEF StorePoint, runVars
    <2> QED BY <1>0, <1>2, <2>1, StorePointKeeps, TurnsFrame DEF VisitsInv
  <1>3. ASSUME RunOnce
        PROVE  VisitsInv'
    <2>1. /\ UNCHANGED <<points, visits, devices, watermark, maxSeq, window, found, cancelled, manual,
                         byHand, late, cuts>>
          /\ SelectDeviceBatch
          /\ spc' = IF devices = {} THEN "idle" ELSE "read"
      BY <1>3 DEF RunOnce, tableVars, processVars
    <2>2. /\ todo' \in Seq(devices) /\ roundRobinStart' \in Nat
          /\ devices # {} => todo' # <<>>
      BY <1>0, <2>1, Selects
    <2>3. waited' \in [DeviceIDs -> Nat]
      BY <1>3, <1>t DEF RunOnce
    <2>4. spc' \in {"idle", "read"} /\ (spc' # "idle" => todo' # <<>>)
      BY <2>1, <2>2
    <2>5. RowsInv'
      BY <1>0, <1>t, <2>1, <2>2, <2>3, <2>4, OthersKeep
    <2> QED BY <1>0, <1>3, <2>5, RunOnceTurns DEF VisitsInv
  <1>4. ASSUME RunFails
        PROVE  VisitsInv'
    <2>1. UNCHANGED <<points, visits, devices, watermark, roundRobinStart, spc, todo, maxSeq, window,
                      found, cancelled, manual, waited, byHand, late, cuts>>
      BY <1>4 DEF RunFails, tableVars, runVars, processVars, histVars
    <2> QED BY <1>0, <1>t, <2>1, OthersKeep, TurnsFrame DEF VisitsInv
  <1>5. ASSUME Process
        PROVE  VisitsInv'
    <2>1. UNCHANGED <<devices, roundRobinStart, waited>>
      BY <1>5 DEF Process, ProcessRead, ProcessList, ProcessRewrite, ProcessMark, ProcessFails,
                  NextDevice, histVars
    <2>2. RowsInv'
      BY <1>0, <1>5, ProcessReadKeeps, ProcessListKeeps, ProcessRewriteKeeps, ProcessMarkKeeps,
         ProcessFailsKeeps DEF Process
    <2> QED BY <1>0, <2>1, <2>2, TurnsFrame DEF VisitsInv
  <1>6. ASSUME Stop
        PROVE  VisitsInv'
    <2>1. /\ UNCHANGED <<points, visits, devices, watermark, roundRobinStart, spc, todo, maxSeq, window,
                         found, manual, waited, byHand, late, cuts>>
          /\ cancelled' = TRUE
      BY <1>6 DEF Stop, tableVars, processVars, histVars
    <2> QED BY <1>0, <1>t, <2>1, OthersKeep, TurnsFrame DEF VisitsInv
  <1>7. ASSUME NEW d \in DeviceIDs, NEW w \in ManualWindows, NEW dwell \in ManualDwells,
               GenerateList(d, w, dwell)
        PROVE  VisitsInv'
    <2>1. UNCHANGED <<devices, roundRobinStart, waited>>
      BY <1>7 DEF GenerateList, runVars, histVars
    <2> QED BY <1>0, <1>7, <2>1, GenerateListKeeps, TurnsFrame DEF VisitsInv
  <1>8. ASSUME GenerateRewrite
        PROVE  VisitsInv'
    <2>1. UNCHANGED <<devices, roundRobinStart, waited>>
      BY <1>8 DEF GenerateRewrite, runVars
    <2> QED BY <1>0, <1>8, <2>1, GenerateRewriteKeeps, TurnsFrame DEF VisitsInv
  <1>9. ASSUME GenerateFails
        PROVE  VisitsInv'
    <2>1. /\ UNCHANGED <<points, visits, devices, watermark, roundRobinStart, spc, todo, maxSeq, window,
                         found, cancelled, waited, byHand, late, cuts>>
          /\ manual' = Nil
      BY <1>9 DEF GenerateFails, tableVars, runVars, processVars, histVars
    <2> QED BY <1>0, <1>t, <2>1, OthersKeep, TurnsFrame DEF VisitsInv
  <1>10. ASSUME Restart
         PROVE  VisitsInv'
    <2>1. /\ UNCHANGED <<points, visits, devices, watermark, byHand, late, cuts>>
          /\ roundRobinStart' = 0 /\ spc' = "idle" /\ todo' = <<>> /\ maxSeq' = 0
          /\ window' = NoWindow /\ found' = <<>> /\ cancelled' = FALSE /\ manual' = Nil
          /\ waited' = [d \in DeviceIDs |-> 0]
      BY <1>10 DEF Restart, tableVars
    <2>2. RowsInv'
      <3>1. todo' \in Seq(devices) /\ maxSeq' \in Nat /\ window' \in Window /\ found' \in Seq(Visit)
        BY <2>1, WindowTyped
      <3>2. waited' \in [DeviceIDs -> Nat] /\ cancelled' \in BOOLEAN /\ roundRobinStart' \in Nat
        BY <2>1
      <3>3. spc' \in {"idle", "read"} /\ (spc' # "idle" => todo' # <<>>)
        BY <2>1
      <3> QED BY <1>0, <2>1, <3>1, <3>2, <3>3, OthersKeep
    <2>3. TurnsOK'
      BY <1>0, <2>1, RestartTurns
    <2> QED BY <2>2, <2>3 DEF VisitsInv
  <1>11. ASSUME UNCHANGED vars
         PROVE  VisitsInv'
    <2>1. UNCHANGED <<points, visits, devices, watermark, roundRobinStart, spc, todo, maxSeq, window,
                      found, cancelled, manual, waited, byHand, late, cuts>>
      BY <1>11 DEF vars, tableVars, runVars, processVars, histVars
    <2> QED BY <1>0, <1>t, <2>1, OthersKeep, TurnsFrame DEF VisitsInv
  <1> QED BY <1>1, <1>2, <1>3, <1>4, <1>5, <1>6, <1>7, <1>8, <1>9, <1>10, <1>11 DEF Next

(* The invariant in which everything below is contained.                   *)
THEOREM SchedulerInvariant == Spec => []VisitsInv
  BY VisitsInvInit, VisitsInvStep, PTL DEF Spec

-----------------------------------------------------------------------------
(* What it says.                                                           *)

LEMMA StartsUnique == VisitsInv => VisitStartsUnique
  <1> SUFFICES ASSUME VisitsInv PROVE VisitStartsUnique
    OBVIOUS
  <1>1. StartsApart /\ \A d \in DeviceIDs : DOMAIN visits[d] = 1..Len(visits[d])
    BY DEF VisitsInv, RowsInv, TableInv, TypeOK
  <1> QED BY <1>1 DEF StartsApart, VisitStartsUnique

LEMMA AllBacked == VisitsInv => VisitsBacked
  <1> SUFFICES ASSUME VisitsInv PROVE VisitsBacked
    OBVIOUS
  <1>1. RowsBacked /\ \A d \in DeviceIDs : DOMAIN visits[d] = 1..Len(visits[d])
    BY DEF VisitsInv, RowsInv, TableInv, TypeOK
  <1>2. \A d \in DeviceIDs : \A i \in DOMAIN visits[d] : BackedIn(visits[d][i], points[d])
    BY <1>1 DEF RowsBacked
  <1> QED BY <1>2 DEF BackedIn, VisitsBacked

LEMMA MarkedCatchesUp == VisitsInv => CaughtUp
  <1> SUFFICES ASSUME VisitsInv,
                      NEW d \in devices \ byHand, watermark[d] >= MaxPointSeq(d), WithinLookback(d)
               PROVE  visits[d] = Detect(OrderBy(points[d] \ late[d], ListBefore), MinDwell)
    BY DEF CaughtUp
  <1>1. Marked /\ d \in DeviceIDs
    BY DEF VisitsInv, RowsInv, TypeOK
  <1>2. watermark[d] >= MaxOf(points[d])
    BY MaxPointSeqIs
  <1>3. Near(points[d])
    BY DEF WithinLookback, Near
  <1>4. visits[d] = WholeOf(points[d] \ late[d])
    BY <1>1, <1>2, <1>3 DEF Marked
  <1> QED BY <1>4, Zenon DEF WholeOf

LEMMA CutsExplain == VisitsInv => OverlapOnlyAtCut
  <1> SUFFICES ASSUME VisitsInv PROVE OverlapOnlyAtCut
    OBVIOUS
  <1>1. /\ CutsOK /\ devices \subseteq DeviceIDs
        /\ \A d \in DeviceIDs : DOMAIN visits[d] = 1..Len(visits[d])
    BY DEF VisitsInv, RowsInv, TypeOK
  <1>2. \A d \in devices \ byHand :
          CutBetween(visits[d], cuts[d]) /\ DOMAIN visits[d] = 1..Len(visits[d])
    BY <1>1 DEF CutsOK
  <1> QED BY <1>2 DEF CutBetween, OverlapOnlyAtCut

LEMMA TurnsServe == VisitsInv => ServedInTurn
  <1> SUFFICES ASSUME VisitsInv, NEW d \in devices
               PROVE  waited[d] * DeviceBatchSize < Cardinality(devices)
    BY DEF ServedInTurn
  <1> DEFINE n == Cardinality(devices)
             p == Pos(d, devices)
             s == roundRobinStart
             k == waited[d] * DeviceBatchSize
  <1>1. TypeOK /\ TablesOK /\ TurnsOK
    BY DEF VisitsInv, RowsInv, TableInv
  <1>2. IsFiniteSet(devices) /\ devices \in SUBSET Int /\ devices \in SUBSET DeviceIDs /\ n \in Nat
    BY <1>1, Devices
  <1>3. p \in 0..(n - 1)
    BY <1>2, SortedDevices
  <1>4. s \in Nat /\ (s = 0 \/ s < n)
    BY <1>1 DEF TypeOK, TurnsOK
  <1>5. k \in Nat
    <2>1. waited[d] \in Nat /\ DeviceBatchSize \in Nat
      BY <1>1, <1>2, SchedulerAssumption DEF TypeOK
    <2> QED BY <2>1
  <1>6. k + Turn(d, devices, s) < n
    BY <1>1 DEF TurnsOK
  <1>7. Turn(d, devices, s) = Away(p, n, s)
    BY TurnIs, Zenon
  <1> HIDE DEF n, p, s, k
  <1>8. Away(p, n, s) >= 0 /\ Away(p, n, s) \in Int
    BY <1>2, <1>3, <1>4 DEF Away
  <1>9. k < n
    BY <1>2, <1>5, <1>6, <1>7, <1>8
  <1> QED BY <1>9 DEF k, n

(* TypeOK: the watermarks, the window and the batch of the scheduler, and  *)
(* the rebuild in progress, always have the shapes the code relies on, and *)
(* name devices that exist.                                                *)
THEOREM SchedulerTypeCorrect == Spec => []TypeOK
  <1>1. VisitsInv => TypeOK
    BY DEF VisitsInv, RowsInv
  <1> QED BY <1>1, SchedulerInvariant, PTL

(* VisitStartsUnique: RebuildVisitsForDeviceRange leaves at most one row   *)
(* of a device at any start, whatever rebuilds interleave.                 *)
THEOREM StartsStayUnique == Spec => []VisitStartsUnique
  BY StartsUnique, SchedulerInvariant, PTL

(* VisitsBacked: every row of the visits table is backed by stored points. *)
THEOREM VisitsAreBacked == Spec => []VisitsBacked
  BY AllBacked, SchedulerInvariant, PTL

(* CaughtUp: what the watermark written by processDevice promises.         *)
THEOREM WatermarkCatchesUp == Spec => []CaughtUp
  BY MarkedCatchesUp, SchedulerInvariant, PTL

(* OverlapOnlyAtCut: the lookback of processDevice lets two visits overlap *)
(* at the beginning of a rebuilt window and nowhere else.                  *)
THEOREM OverlapsOnlyAtCuts == Spec => []OverlapOnlyAtCut
  BY CutsExplain, SchedulerInvariant, PTL

(* ServedInTurn: selectDeviceBatch passes over no device for longer than a *)
(* round, while devices are being added.                                   *)
THEOREM EveryoneInTurn == Spec => []ServedInTurn
  BY TurnsServe, SchedulerInvariant, PTL
=============================================================================
