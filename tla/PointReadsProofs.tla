-------------------------- MODULE PointReadsProofs --------------------------
(***************************************************************************)
(* Theorems about the reads of the point table, for every set of devices,  *)
(* arrivals and requests and every limit:                                  *)
(*                                                                         *)
(*   PointReadsTypeCorrect   Spec => []TypeOK                              *)
(*   ListingMissesKnowingly  Spec => []ListingComplete                     *)
(*   ListingRepeatsNothing   Spec => []ListingOnce                         *)
(*   SamplesSpread           Spec => []SampleSpread                        *)
(*   ReadersSeeTheirOwn      Spec => []OwnPointsOnly                       *)
(*   ExportsAreWhole         Spec => []ExportWhole                         *)
(*   ExportsAreOrdered       Spec => []ExportOrdered                       *)
(*   RecentAreNewest         Spec => []RecentNewest                        *)
(***************************************************************************)
EXTENDS PointReads, FiniteSetTheorems, TLAPS

-----------------------------------------------------------------------------
(* Sorting a finite set.  An order is a set of pairs here, so that the     *)
(* lemmas can be cited for any.                                            *)

Orders(R, S) ==
  /\ \A p \in S : <<p, p>> \notin R
  /\ \A p, q, r \in S : <<p, q>> \in R /\ <<q, r>> \in R => <<p, r>> \in R
  /\ \A p, q \in S : p = q \/ <<p, q>> \in R \/ <<q, p>> \in R

Rank(R, S, p) == Cardinality({q \in S : <<q, p>> \in R})

(* There are 0, 1, 2 ... elements before the elements of an ordered set.   *)
LEMMA Ranks ==
  ASSUME NEW S, IsFiniteSet(S), NEW R, Orders(R, S)
  PROVE  /\ \A p \in S : Rank(R, S, p) \in 0..(Cardinality(S) - 1)
         /\ \A p, q \in S : <<p, q>> \in R <=> Rank(R, S, p) < Rank(R, S, q)
         /\ \A i \in 1..Cardinality(S) : \E p \in S : Rank(R, S, p) = i - 1
  <1> DEFINE n == Cardinality(S)
             Under(p) == {q \in S : <<q, p>> \in R}
  <1>n. n \in Nat
    BY FS_CardinalityType
  <1>1. \A p \in S : IsFiniteSet(Under(p)) /\ Cardinality(Under(p)) \in Nat
    BY FS_Subset, FS_CardinalityType
  <1>2. ASSUME NEW p \in S
        PROVE  Cardinality(Under(p)) \in 0..(n - 1)
    <2>1. IsFiniteSet(S \ {p}) /\ Cardinality(S \ {p}) = n - 1
      BY FS_RemoveElement
    <2>2. Under(p) \subseteq S \ {p}
      BY DEF Orders
    <2>3. Cardinality(Under(p)) <= Cardinality(S \ {p})
      BY <2>1, <2>2, FS_Subset
    <2> QED BY <1>1, <1>n, <2>1, <2>3
  <1>3. ASSUME NEW p \in S, NEW q \in S, <<p, q>> \in R
        PROVE  Cardinality(Under(p)) < Cardinality(Under(q))
    <2>1. Under(p) \subseteq Under(q) /\ p \in Under(q) /\ p \notin Under(p)
      BY <1>3 DEF Orders
    <2>2. /\ Cardinality(Under(p)) <= Cardinality(Under(q))
          /\ Cardinality(Under(p)) # Cardinality(Under(q))
      <3>1. IsFiniteSet(Under(q)) /\ Under(p) \in SUBSET Under(q)
        BY <1>1, <2>1
      <3> QED BY <3>1, <2>1, FS_Subset
    <2> QED BY <1>1, <2>2
  <1>4. \A p, q \in S : <<p, q>> \in R <=> Cardinality(Under(p)) < Cardinality(Under(q))
    <2> SUFFICES ASSUME NEW p \in S, NEW q \in S, <<p, q>> \notin R
                 PROVE  ~(Cardinality(Under(p)) < Cardinality(Under(q)))
      BY <1>3
    <2>1. p = q \/ Cardinality(Under(q)) < Cardinality(Under(p))
      BY <1>3 DEF Orders
    <2> HIDE DEF Under
    <2> QED BY <2>1, <1>1
  <1>5. ASSUME NEW i \in 1..n
        PROVE  \E p \in S : Cardinality(Under(p)) = i - 1
    <2> DEFINE f == [p \in S |-> Cardinality(Under(p))]
    <2> HIDE DEF Under
    <2>1. f \in Injection(S, 0..(n - 1))
      <3>1. f \in [S -> 0..(n - 1)]
        BY <1>2
      <3>2. ASSUME NEW p \in S, NEW q \in S, f[p] = f[q]
            PROVE  p = q
        BY <3>2, <1>1, <1>4 DEF Orders
      <3> QED BY <3>1, <3>2 DEF Injection, IsInjective
    <2>2. IsFiniteSet(0..(n - 1)) /\ Cardinality(0..(n - 1)) = n
      <3>1. 0 \in Int /\ n - 1 \in Int
        BY <1>n
      <3>2. /\ IsFiniteSet(0..(n - 1))
            /\ Cardinality(0..(n - 1)) = IF 0 > n - 1 THEN 0 ELSE n - 1 - 0 + 1
        BY <3>1, FS_Interval
      <3> QED BY <3>2, <1>n
    <2>3. f \in Surjection(S, 0..(n - 1))
      BY <2>1, <2>2, FS_Injection
    <2>4. i - 1 \in 0..(n - 1)
      BY <1>n
    <2> QED BY <2>3, <2>4 DEF Surjection
  <1> QED BY <1>2, <1>4, <1>5 DEF Rank

(* s holds the elements of S, each once, in order.                         *)
Ascends(s, R) == \A j \in DOMAIN s : \A i \in 1..j - 1 : <<s[i], s[j]>> \in R

(* What ORDER BY returns: in each place the row that many come before.     *)
Placed(R, S) ==
  LET row == [i \in 1..Cardinality(S) |-> CHOOSE p \in S : Rank(R, S, p) = i - 1]
  IN  SubSeq(row, 1, Cardinality(S))

LEMMA PlacedAscends ==
  ASSUME NEW S, IsFiniteSet(S), NEW R, Orders(R, S)
  PROVE  Placed(R, S) \in [1..Cardinality(S) -> S] /\ Ascends(Placed(R, S), R)
  <1> DEFINE n == Cardinality(S)
             s == [i \in 1..n |-> CHOOSE p \in S : Rank(R, S, p) = i - 1]
  <1>n. n \in Nat
    BY FS_CardinalityType
  <1>1. \A i \in 1..n : s[i] \in S /\ Rank(R, S, s[i]) = i - 1
    BY Ranks
  <1>2. s \in [1..n -> S]
    BY <1>1
  <1>3. ASSUME NEW j \in 1..n, NEW i \in 1..j - 1
        PROVE  <<s[i], s[j]>> \in R
    <2> HIDE DEF s, n
    <2>0. i \in 1..n
      BY <1>n
    <2>1. s[i] \in S /\ s[j] \in S /\ Rank(R, S, s[i]) = i - 1 /\ Rank(R, S, s[j]) = j - 1
      BY <1>1, <2>0
    <2>2. Rank(R, S, s[i]) < Rank(R, S, s[j])
      BY <2>1, <1>n
    <2> QED BY <2>1, <2>2, Ranks
  <1>4. Ascends(s, R)
    <2> HIDE DEF n
    <2> QED BY <1>2, <1>3 DEF Ascends
  <1>5. Placed(R, S) = s
    <2>1. Placed(R, S) = SubSeq(s, 1, n)
      BY Zenon DEF Placed
    <2> HIDE DEF s, n
    <2> QED BY <2>1, <1>2, <1>n
  <1> QED BY <1>2, <1>4, <1>5

LEMMA SortCovers ==
  ASSUME NEW S, IsFiniteSet(S), NEW R, Orders(R, S),
         NEW s \in [1..Cardinality(S) -> S], Ascends(s, R)
  PROVE  \A p \in S : \E i \in 1..Cardinality(S) : s[i] = p
  <1> DEFINE n == Cardinality(S)
  <1>n. n \in Nat
    BY FS_CardinalityType
  <1> HIDE DEF n
  <1>s. s \in [1..n -> S]
    BY DEF n
  <1>1. ASSUME NEW i \in 1..n, NEW j \in 1..n, s[i] = s[j]
        PROVE  i = j
    <2>1. ASSUME NEW k \in 1..n, NEW l \in 1..n, k < l
          PROVE  <<s[k], s[l]>> \in R
      <3>1. DOMAIN s = 1..n
        BY <1>s
      <3>2. k \in 1..l - 1
        BY <2>1, <1>n
      <3> QED BY <3>1, <3>2 DEF Ascends
    <2>2. s[i] \in S /\ <<s[i], s[i]>> \notin R
      BY <1>s DEF Orders
    <2> QED BY <2>1, <2>2, <1>1, <1>n
  <1>2. s \in Injection(1..n, S)
    BY <1>s, <1>1 DEF Injection, IsInjective
  <1>3. Cardinality(1..n) = n
    <2>1. 1 \in Int /\ n \in Int
      BY <1>n
    <2>2. Cardinality(1..n) = IF 1 > n THEN 0 ELSE n - 1 + 1
      BY <2>1, FS_Interval
    <2> QED BY <2>2, <1>n
  <1>4. s \in Surjection(1..n, S)
    <2>1. Cardinality(1..n) = Cardinality(S)
      BY <1>3 DEF n
    <2> QED BY <1>2, <2>1, FS_Injection
  <1>5. \A p \in S : \E i \in 1..n : s[i] = p
    BY <1>4 DEF Surjection
  <1> QED BY <1>5 DEF n

(* What a query returns that orders its rows.                              *)
Sorts(s, R, S) ==
  /\ s \in Seq(S)
  /\ Len(s) = Cardinality(S)
  /\ \A i, j \in 1..Len(s) : i < j => <<s[i], s[j]>> \in R
  /\ \A p \in S : \E i \in 1..Len(s) : s[i] = p

LEMMA Sorted ==
  ASSUME NEW S, IsFiniteSet(S), NEW R, Orders(R, S)
  PROVE  Sorts(Placed(R, S), R, S)
  <1> DEFINE n == Cardinality(S)
             s == Placed(R, S)
  <1>n. n \in Nat
    BY FS_CardinalityType
  <1>1. s \in [1..n -> S] /\ Ascends(s, R)
    BY PlacedAscends
  <1>2. \A p \in S : \E i \in 1..n : s[i] = p
    BY <1>1, SortCovers
  <1>3. Sorts(s, R, S)
    <2> HIDE DEF s
    <2>1. s \in Seq(S) /\ Len(s) = n
      BY <1>1, <1>n
    <2>2. \A i, j \in 1..n : i < j => <<s[i], s[j]>> \in R
      <3> HIDE DEF n
      <3> QED BY <1>1, <1>n DEF Ascends
    <2> QED BY <2>1, <2>2, <1>2 DEF Sorts
  <1> QED BY <1>3

(* The orders of the queries: by time, newest first, and of positions.     *)
Pairs(S, Before(_, _)) == {pq \in S \X S : Before(pq[1], pq[2])}

Rows(S) ==
  /\ IsFiniteSet(S)
  /\ \A p \in S : p.ts \in Int /\ p.seq \in Int
  /\ \A p, q \in S : p.seq = q.seq => p = q

LEMMA SortedByTime ==
  ASSUME NEW S, Rows(S)
  PROVE  Sorts(OrderBy(S, ListBefore), Pairs(S, ListBefore), S)
  <1> DEFINE R == Pairs(S, ListBefore)
  <1>1. Orders(R, S)
    BY DEF Orders, Pairs, Rows, ListBefore, TextKey
  <1>2. \A p \in S : {q \in S : ListBefore(q, p)} = {q \in S : <<q, p>> \in R}
    BY DEF Pairs
  <1> HIDE DEF R
  <1>3. \A p \in S : Cardinality({q \in S : ListBefore(q, p)}) = Rank(R, S, p)
    BY <1>2, Zenon DEF Rank
  <1> DEFINE here(i) == CHOOSE p \in S : Cardinality({q \in S : ListBefore(q, p)}) = i - 1
             there(i) == CHOOSE p \in S : Rank(R, S, p) = i - 1
  <1>4. \A i \in 1..Cardinality(S) : here(i) = there(i)
    BY <1>3, Zenon
  <1>5. OrderBy(S, ListBefore) = SubSeq([i \in 1..Cardinality(S) |-> here(i)], 1, Cardinality(S))
    BY Zenon DEF OrderBy
  <1>6. Placed(R, S) = SubSeq([i \in 1..Cardinality(S) |-> there(i)], 1, Cardinality(S))
    BY Zenon DEF Placed
  <1> HIDE DEF here, there
  <1>7. OrderBy(S, ListBefore) = Placed(R, S)
    <2>1. [i \in 1..Cardinality(S) |-> here(i)] = [i \in 1..Cardinality(S) |-> there(i)]
      BY <1>4
    <2> QED BY <1>5, <1>6, <2>1, Zenon
  <1>8. Sorts(Placed(R, S), R, S)
    BY <1>1, Sorted DEF Rows
  <1>9. Sorts(OrderBy(S, ListBefore), R, S)
    BY <1>7, <1>8, Zenon
  <1> QED BY <1>9 DEF R

Newer(p, q) == ListBefore(q, p)

LEMMA SortedByAge ==
  ASSUME NEW S, Rows(S)
  PROVE  Sorts(OrderBy(S, LAMBDA p, q : ListBefore(q, p)), Pairs(S, Newer), S)
  <1> DEFINE R == Pairs(S, Newer)
  <1>1. Orders(R, S)
    BY DEF Orders, Pairs, Rows, Newer, ListBefore, TextKey
  <1>2. \A p \in S : {q \in S : ListBefore(p, q)} = {q \in S : <<q, p>> \in R}
    BY DEF Pairs, Newer
  <1> HIDE DEF R
  <1>3. \A p \in S : Cardinality({q \in S : ListBefore(p, q)}) = Rank(R, S, p)
    BY <1>2, Zenon DEF Rank
  <1> DEFINE here(i) == CHOOSE p \in S : Cardinality({q \in S : ListBefore(p, q)}) = i - 1
             there(i) == CHOOSE p \in S : Rank(R, S, p) = i - 1
  <1>4. \A i \in 1..Cardinality(S) : here(i) = there(i)
    BY <1>3, Zenon
  <1>5. OrderBy(S, LAMBDA p, q : ListBefore(q, p)) = SubSeq([i \in 1..Cardinality(S) |-> here(i)], 1, Cardinality(S))
    BY Zenon DEF OrderBy
  <1>6. Placed(R, S) = SubSeq([i \in 1..Cardinality(S) |-> there(i)], 1, Cardinality(S))
    BY Zenon DEF Placed
  <1> HIDE DEF here, there
  <1>7. OrderBy(S, LAMBDA p, q : ListBefore(q, p)) = Placed(R, S)
    <2>1. [i \in 1..Cardinality(S) |-> here(i)] = [i \in 1..Cardinality(S) |-> there(i)]
      BY <1>4
    <2> QED BY <1>5, <1>6, <2>1, Zenon
  <1>8. Sorts(Placed(R, S), R, S)
    BY <1>1, Sorted DEF Rows
  <1>9. Sorts(OrderBy(S, LAMBDA p, q : ListBefore(q, p)), R, S)
    BY <1>7, <1>8, Zenon
  <1> QED BY <1>9 DEF R

LEMMA SortedPositions ==
  ASSUME NEW S \in SUBSET Int, IsFiniteSet(S)
  PROVE  Sorts(OrderBy(S, <), {pq \in S \X S : pq[1] < pq[2]}, S)
  <1> DEFINE R == {pq \in S \X S : pq[1] < pq[2]}
  <1>1. Orders(R, S)
    BY DEF Orders
  <1>2. \A p \in S : {q \in S : q < p} = {q \in S : <<q, p>> \in R}
    OBVIOUS
  <1> HIDE DEF R
  <1>3. \A p \in S : Cardinality({q \in S : q < p}) = Rank(R, S, p)
    BY <1>2, Zenon DEF Rank
  <1> DEFINE here(i) == CHOOSE p \in S : Cardinality({q \in S : q < p}) = i - 1
             there(i) == CHOOSE p \in S : Rank(R, S, p) = i - 1
  <1>4. \A i \in 1..Cardinality(S) : here(i) = there(i)
    BY <1>3, Zenon
  <1>5. OrderBy(S, <) = SubSeq([i \in 1..Cardinality(S) |-> here(i)], 1, Cardinality(S))
    BY Zenon DEF OrderBy
  <1>6. Placed(R, S) = SubSeq([i \in 1..Cardinality(S) |-> there(i)], 1, Cardinality(S))
    BY Zenon DEF Placed
  <1> HIDE DEF here, there
  <1>7. OrderBy(S, <) = Placed(R, S)
    <2>1. [i \in 1..Cardinality(S) |-> here(i)] = [i \in 1..Cardinality(S) |-> there(i)]
      BY <1>4
    <2> QED BY <1>5, <1>6, <2>1, Zenon
  <1>8. Sorts(Placed(R, S), R, S)
    BY <1>1, Sorted
  <1>9. Sorts(OrderBy(S, <), R, S)
    BY <1>7, <1>8, Zenon
  <1> QED BY <1>9 DEF R

-----------------------------------------------------------------------------
(* The operators of the queries.                                           *)

LEMMA MinOfTwo ==
  ASSUME NEW a \in Int, NEW b \in Int
  PROVE  Min({a, b}) = IF a <= b THEN a ELSE b
  <1> DEFINE m == IF a <= b THEN a ELSE b
  <1>1. m \in {a, b} /\ \A y \in {a, b} : m <= y
    OBVIOUS
  <1>2. \A x \in {a, b} : (\A y \in {a, b} : x <= y) => x = m
    OBVIOUS
  <1> HIDE DEF m
  <1>3. Min({a, b}) = m
    BY <1>1, <1>2 DEF Min
  <1> QED BY <1>3 DEF m

LEMMA Taken ==
  ASSUME NEW S, NEW s \in Seq(S), NEW n \in Nat
  PROVE  /\ Take(s, n) \in Seq(S)
         /\ Len(Take(s, n)) = IF n <= Len(s) THEN n ELSE Len(s)
         /\ \A i \in 1..Len(Take(s, n)) : i \in 1..Len(s) /\ Take(s, n)[i] = s[i]
  <1> DEFINE m == IF n <= Len(s) THEN n ELSE Len(s)
  <1>1. Len(s) \in Nat /\ m \in 0..Len(s)
    OBVIOUS
  <1>2. Take(s, n) = SubSeq(s, 1, m)
    BY <1>1, MinOfTwo DEF Take
  <1> HIDE DEF m
  <1>3. SubSeq(s, 1, m) \in Seq(S) /\ Len(SubSeq(s, 1, m)) = m
    BY <1>1
  <1>4. \A i \in 1..m : SubSeq(s, 1, m)[i] = s[i]
    BY <1>1
  <1>5. Len(Take(s, n)) = m /\ \A i \in 1..m : i \in 1..Len(s) /\ Take(s, n)[i] = s[i]
    BY <1>1, <1>2, <1>3, <1>4
  <1> QED BY <1>2, <1>3, <1>5 DEF m

(* at lists the positions that are kept.                                   *)
Keeps(t, s, I, at) ==
  /\ at \in Seq(I) /\ Len(at) = Cardinality(I)
  /\ \A i, j \in 1..Len(at) : i < j => at[i] < at[j]
  /\ \A k \in I : \E i \in 1..Len(at) : at[i] = k
  /\ t \in Seq({s[k] : k \in I}) /\ Len(t) = Len(at)
  /\ \A i \in 1..Len(at) : t[i] = s[at[i]]

LEMMA KeptRows ==
  ASSUME NEW S, NEW s \in Seq(S), NEW I \in SUBSET (1..Len(s))
  PROVE  \E at : Keeps(RowsAt(s, I), s, I, at)
  <1> DEFINE at == OrderBy(I, <)
             t == [j \in DOMAIN at |-> s[at[j]]]
  <1>1. IsFiniteSet(I) /\ I \in SUBSET Int
    <2>1. Len(s) \in Nat
      OBVIOUS
    <2>2. IsFiniteSet(1..Len(s))
      BY <2>1, FS_Interval
    <2>3. IsFiniteSet(I)
      BY <2>2, FS_Subset
    <2> QED BY <2>1, <2>3
  <1>2. Sorts(at, {pq \in I \X I : pq[1] < pq[2]}, I)
    BY <1>1, SortedPositions
  <1>3. RowsAt(s, I) = t
    BY DEF RowsAt
  <1> HIDE DEF at
  <1>4. at \in Seq(I) /\ Len(at) = Cardinality(I) /\ Len(at) \in Nat /\ DOMAIN at = 1..Len(at)
    BY <1>2 DEF Sorts
  <1>5. \A i, j \in 1..Len(at) : i < j => at[i] < at[j]
    BY <1>2, <1>4 DEF Sorts
  <1>6. \A k \in I : \E i \in 1..Len(at) : at[i] = k
    BY <1>2 DEF Sorts
  <1>7. t \in Seq({s[k] : k \in I}) /\ Len(t) = Len(at)
    <2>1. ASSUME NEW j \in 1..Len(at)
          PROVE  s[at[j]] \in {s[k] : k \in I}
      <3>1. at[j] \in I
        BY <1>4
      <3> QED BY <3>1
    <2> QED BY <2>1, <1>4
  <1>8. \A i \in 1..Len(at) : t[i] = s[at[i]]
    BY <1>4
  <1> HIDE DEF t
  <1>9. Keeps(t, s, I, at)
    BY <1>4, <1>5, <1>6, <1>7, <1>8 DEF Keeps
  <1> QED BY <1>3, <1>9

(* The first n rows of S in the order R.                                   *)
First(s, S, R, n) ==
  /\ s \in Seq(S)
  /\ Len(s) <= n
  /\ \A i, j \in 1..Len(s) : i < j => <<s[i], s[j]>> \in R
  /\ \A p \in S : \/ \E i \in 1..Len(s) : s[i] = p
                  \/ Len(s) = n /\ \A i \in 1..Len(s) : <<s[i], p>> \in R

LEMMA FirstOfSorted ==
  ASSUME NEW S, NEW R, NEW s, Sorts(s, R, S), NEW n \in Nat
  PROVE  First(Take(s, n), S, R, n)
  <1>1. s \in Seq(S) /\ Len(s) \in Nat
    BY DEF Sorts
  <1> DEFINE t == Take(s, n)
  <1>2. /\ t \in Seq(S)
        /\ Len(t) = IF n <= Len(s) THEN n ELSE Len(s)
        /\ \A i \in 1..Len(t) : i \in 1..Len(s) /\ t[i] = s[i]
    BY <1>1, Taken
  <1> HIDE DEF t
  <1>3. \A i, j \in 1..Len(t) : i < j => <<t[i], t[j]>> \in R
    BY <1>2 DEF Sorts
  <1>4. ASSUME NEW p \in S
        PROVE  \/ \E i \in 1..Len(t) : t[i] = p
               \/ Len(t) = n /\ \A i \in 1..Len(t) : <<t[i], p>> \in R
    <2>1. PICK k \in 1..Len(s) : s[k] = p
      BY DEF Sorts
    <2>2. CASE k <= Len(t)
      <3>1. k \in 1..Len(t)
        BY <2>2, <1>2, <1>1
      <3> QED BY <3>1, <2>1, <1>2
    <2>3. CASE k > Len(t)
      <3>1. Len(t) = n
        BY <2>3, <1>1, <1>2
      <3>2. ASSUME NEW i \in 1..Len(t)
            PROVE  <<t[i], p>> \in R
        <4>1. i \in 1..Len(s) /\ t[i] = s[i] /\ i < k
          BY <1>1, <1>2, <2>3
        <4> QED BY <4>1, <2>1 DEF Sorts
      <3> QED BY <3>1, <3>2
    <2> QED BY <2>2, <2>3, <1>1, <1>2
  <1>5. Len(t) <= n
    BY <1>1, <1>2
  <1>6. First(t, S, R, n)
    BY <1>2, <1>3, <1>4, <1>5 DEF First
  <1> QED BY <1>6 DEF t

LEMMA FirstOfFirst ==
  ASSUME NEW S, NEW R, NEW n \in Nat, NEW m \in 0..n, NEW s, First(s, S, R, n)
  PROVE  First(Take(s, m), S, R, m)
  <1>1. s \in Seq(S) /\ Len(s) \in Nat /\ m \in Nat
    BY DEF First
  <1> DEFINE t == Take(s, m)
  <1>2. /\ t \in Seq(S)
        /\ Len(t) = IF m <= Len(s) THEN m ELSE Len(s)
        /\ \A i \in 1..Len(t) : i \in 1..Len(s) /\ t[i] = s[i]
    BY <1>1, Taken
  <1> HIDE DEF t
  <1>3. \A i, j \in 1..Len(t) : i < j => <<t[i], t[j]>> \in R
    BY <1>2 DEF First
  <1>4. ASSUME NEW p \in S
        PROVE  \/ \E i \in 1..Len(t) : t[i] = p
               \/ Len(t) = m /\ \A i \in 1..Len(t) : <<t[i], p>> \in R
    <2>1. CASE \E k \in 1..Len(s) : s[k] = p
      <3>1. PICK k \in 1..Len(s) : s[k] = p
        BY <2>1
      <3>2. CASE k <= Len(t)
        <4>1. k \in 1..Len(t)
          BY <3>2, <1>2, <1>1
        <4> QED BY <4>1, <3>1, <1>2
      <3>3. CASE k > Len(t)
        <4>1. Len(t) = m
          BY <3>3, <1>1, <1>2
        <4>2. ASSUME NEW i \in 1..Len(t)
              PROVE  <<t[i], p>> \in R
          <5>1. i \in 1..Len(s) /\ t[i] = s[i] /\ i < k
            BY <1>1, <1>2, <3>3
          <5> QED BY <5>1, <3>1 DEF First
        <4> QED BY <4>1, <4>2
      <3> QED BY <3>2, <3>3, <1>1, <1>2
    <2>2. CASE ~\E k \in 1..Len(s) : s[k] = p
      <3>1. Len(s) = n /\ \A i \in 1..Len(s) : <<s[i], p>> \in R
        BY <2>2 DEF First
      <3>2. Len(t) = m
        BY <3>1, <1>1, <1>2
      <3> QED BY <3>1, <3>2, <1>2
    <2> QED BY <2>1, <2>2
  <1>5. Len(t) <= m
    BY <1>1, <1>2
  <1>6. First(t, S, R, m)
    BY <1>2, <1>3, <1>4, <1>5 DEF First
  <1> QED BY <1>6 DEF t

-----------------------------------------------------------------------------
(* Downsample.  Its index is a rounded quotient: the quotients of numbers  *)
(* that are the same distance apart are, but for one, too.                 *)

LEMMA DivIs ==
  ASSUME NEW x \in Int, NEW d \in Nat \ {0}, NEW y \in Int,
         d * y <= x, x < d * y + d
  PROVE  x \div d = y
  <1> DEFINE z == x \div d
  <1>1. z \in Int /\ d * z <= x /\ x < d * z + d
    OBVIOUS
  <1> HIDE DEF z
  <1>2. CASE y < z
    <2>1. z - y - 1 \in Nat
      BY <1>1, <1>2
    <2>2. d * (z - y - 1) >= 0
      BY <2>1
    <2>3. d * (z - y - 1) = d * z - d * y - d
      BY <1>1
    <2> QED BY <2>2, <2>3, <1>1
  <1>3. CASE z < y
    <2>1. y - z - 1 \in Nat
      BY <1>1, <1>3
    <2>2. d * (y - z - 1) >= 0
      BY <2>1
    <2>3. d * (y - z - 1) = d * y - d * z - d
      BY <1>1
    <2> QED BY <2>2, <2>3, <1>1
  <1>4. z = y
    BY <1>1, <1>2, <1>3
  <1> QED BY <1>4 DEF z

LEMMA DivStep ==
  ASSUME NEW a \in Nat, NEW b \in Nat, NEW d \in Nat \ {0}
  PROVE  (a + b) \div d - a \div d \in {b \div d, b \div d + 1}
  <1> DEFINE x == a \div d
             q == b \div d
  <1>1. x \in Int /\ d * x <= a /\ a < d * x + d
    OBVIOUS
  <1>2. q \in Int /\ d * q <= b /\ b < d * q + d
    OBVIOUS
  <1> HIDE DEF x, q
  <1>3. d * (x + q) = d * x + d * q /\ d * (x + q + 1) = d * x + d * q + d
    BY <1>1, <1>2
  <1>4. d * x \in Int /\ d * q \in Int
    BY <1>1, <1>2
  <1>5. CASE a + b < d * x + d * q + d
    <2>1. d * (x + q) <= a + b /\ a + b < d * (x + q) + d
      BY <1>1, <1>2, <1>3, <1>4, <1>5
    <2>2. (a + b) \div d = x + q
      BY <2>1, <1>1, <1>2, DivIs
    <2> QED BY <2>2, <1>1, <1>2 DEF x, q
  <1>6. CASE a + b >= d * x + d * q + d
    <2>1. d * (x + q + 1) <= a + b /\ a + b < d * (x + q + 1) + d
      BY <1>1, <1>2, <1>3, <1>4, <1>6
    <2>2. (a + b) \div d = x + q + 1
      BY <2>1, <1>1, <1>2, DivIs
    <2> QED BY <2>2, <1>1, <1>2 DEF x, q
  <1> QED BY <1>5, <1>6, <1>4

(* out is the sample of s at the positions of at.                          *)
Samples(out, s, m, at) ==
  /\ at \in Seq(1..Len(s)) /\ Len(at) = Len(out)
  /\ Len(out) = IF Len(s) <= m THEN Len(s) ELSE m
  /\ \A i \in 1..Len(at) : out[i] = s[at[i]]
  /\ Len(s) > 0 => at[Len(at)] = Len(s)
  /\ Len(s) > 0 /\ m > 1 => at[1] = 1
  /\ \E q \in Nat \ {0} : \A i \in 1..Len(at) - 1 : at[i + 1] - at[i] \in {q, q + 1}

LEMMA SampledEven ==
  ASSUME NEW l \in Nat, NEW m \in Nat, m > 1, l > m
  PROVE  LET at == [i \in 1..m |-> 1 + (2 * (i - 1) * (l - 1) + (m - 1)) \div (2 * (m - 1))]
         IN  /\ at \in [1..m -> 1..l]
             /\ at[1] = 1 /\ at[m] = l
             /\ \E q \in Nat \ {0} : \A i \in 1..m - 1 : at[i + 1] - at[i] \in {q, q + 1}
  <1> DEFINE d == 2 * (m - 1)
             b == 2 * (l - 1)
             num(i) == 2 * (i - 1) * (l - 1) + (m - 1)
             at == [i \in 1..m |-> 1 + num(i) \div d]
  <1>1. d \in Nat \ {0} /\ b \in Nat /\ b >= d + 2
    OBVIOUS
  <1>2. ASSUME NEW i \in 1..m
        PROVE  num(i) = (i - 1) * b + (m - 1) /\ num(i) \in Nat
    <2>1. i - 1 \in Nat /\ l - 1 \in Nat /\ m - 1 \in Nat
      OBVIOUS
    <2>2. 2 * (i - 1) * (l - 1) = (i - 1) * b
      BY <2>1
    <2>3. (i - 1) * b \in Nat
      BY <2>1, <1>1
    <2> QED BY <2>1, <2>2, <2>3
  <1>3. num(1) = m - 1
    OBVIOUS
  <1>4. num(m) = d * (l - 1) + (m - 1)
    <2>1. m - 1 \in Nat /\ l - 1 \in Nat
      OBVIOUS
    <2> QED BY <2>1
  <1>5. ASSUME NEW i \in 1..m - 1
        PROVE  num(i + 1) = num(i) + b
    <2>1. i + 1 \in 1..m /\ i \in 1..m /\ i \in Int
      OBVIOUS
    <2>2. num(i + 1) = (i + 1 - 1) * b + (m - 1) /\ num(i) = (i - 1) * b + (m - 1)
      BY <2>1, <1>2
    <2>3. (i + 1 - 1) * b = (i - 1) * b + b
      BY <2>1, <1>1
    <2>4. (i - 1) * b \in Int
      BY <2>1, <1>1
    <2> HIDE DEF num, b
    <2> QED BY <2>2, <2>3, <2>4, <1>1
  <1>6. num(1) \div d = 0 /\ num(m) \div d = l - 1
    <2>1. d * 0 <= num(1) /\ num(1) < d * 0 + d /\ num(1) \in Int
      BY <1>3
    <2>2. d * (l - 1) <= num(m) /\ num(m) < d * (l - 1) + d /\ num(m) \in Int
      <3>1. d * (l - 1) \in Int /\ m - 1 \in Nat /\ d \in Int /\ m - 1 < d
        BY <1>1
      <3> HIDE DEF num, d
      <3> QED BY <3>1, <1>4
    <2> HIDE DEF num, d
    <2>3. 0 \in Int /\ l - 1 \in Int
      OBVIOUS
    <2>4. num(1) \div d = 0
      BY <2>1, <2>3, <1>1, DivIs
    <2>5. num(m) \div d = l - 1
      BY <2>2, <2>3, <1>1, DivIs
    <2> QED BY <2>4, <2>5
  <1>7. b \div d \in Nat \ {0}
    <2> HIDE DEF b, d
    <2> QED BY <1>1
  <1>8. ASSUME NEW i \in 1..m - 1
        PROVE  num(i + 1) \div d - num(i) \div d \in {b \div d, b \div d + 1}
    <2>1. num(i) \in Nat
      BY <1>2
    <2>2. num(i + 1) = num(i) + b
      BY <1>5
    <2> HIDE DEF num, b, d
    <2> QED BY <2>1, <2>2, <1>1, DivStep
  <1>9. ASSUME NEW i \in 1..m
        PROVE  num(i) \div d \in 0..l - 1
    <2>1. num(i) \in Nat /\ num(m) \in Nat /\ num(i) <= num(m)
      <3>1. i - 1 \in Nat /\ m - 1 \in Nat /\ m - i \in Nat
        OBVIOUS
      <3>2. m \in 1..m
        OBVIOUS
      <3>3. num(m) = (m - 1) * b + (m - 1) /\ num(i) = (i - 1) * b + (m - 1)
        BY <1>2, <3>2
      <3>4. (m - 1) * b = (i - 1) * b + (m - i) * b /\ (m - i) * b >= 0
        BY <3>1, <1>1
      <3>5. (i - 1) * b \in Int /\ (m - i) * b \in Int
        BY <3>1, <1>1
      <3>6. num(i) \in Nat /\ num(m) \in Nat
        BY <3>2, <1>2
      <3> HIDE DEF num, b
      <3> QED BY <3>1, <3>3, <3>4, <3>5, <3>6
    <2> HIDE DEF num, b
    <2>2. num(i) \div d <= num(m) \div d /\ num(i) \div d >= 0 /\ num(i) \div d \in Int
      <3> HIDE DEF d
      <3> DEFINE e == num(m) - num(i)
      <3>2. e \in Nat /\ num(m) = num(i) + e
        BY <2>1
      <3> HIDE DEF e
      <3>3. num(m) \div d - num(i) \div d \in {e \div d, e \div d + 1}
        BY <3>2, <2>1, <1>1, DivStep
      <3>4. e \div d >= 0 /\ e \div d \in Int /\ num(m) \div d \in Int /\ num(i) \div d \in Int /\ num(i) \div d >= 0
        BY <3>2, <2>1, <1>1
      <3> QED BY <3>3, <3>4
    <2> HIDE DEF d
    <2> QED BY <2>2, <1>6
  <1>10. at \in [1..m -> 1..l]
    <2> HIDE DEF num, d
    <2>1. ASSUME NEW i \in 1..m
          PROVE  1 + num(i) \div d \in 1..l
      BY <2>1, <1>9
    <2> QED BY <2>1
  <1>11. at[1] = 1 /\ at[m] = l
    <2>1. 1 \in 1..m /\ m \in 1..m
      OBVIOUS
    <2> HIDE DEF num, d
    <2> QED BY <2>1, <1>6
  <1>12. ASSUME NEW i \in 1..m - 1
         PROVE  at[i + 1] - at[i] \in {b \div d, b \div d + 1}
    <2>1. i \in 1..m /\ i + 1 \in 1..m
      OBVIOUS
    <2>2. num(i) \div d \in Int /\ num(i + 1) \div d \in Int
      BY <2>1, <1>9
    <2> HIDE DEF num, d, b
    <2> QED BY <2>1, <2>2, <1>8
  <1>13. \E q \in Nat \ {0} : \A i \in 1..m - 1 : at[i + 1] - at[i] \in {q, q + 1}
    <2> HIDE DEF at, b, d
    <2> QED BY <1>7, <1>12
  <1> QED BY <1>10, <1>11, <1>13

LEMMA Downsampled ==
  ASSUME NEW S, NEW s \in Seq(S), NEW m \in Nat \ {0}
  PROVE  Downsample(s, m) \in Seq(S) /\ \E at : Samples(Downsample(s, m), s, m, at)
  <1>0. Len(s) \in Nat /\ DOMAIN s = 1..Len(s)
    OBVIOUS
  <1>1. CASE Len(s) <= m
    <2> DEFINE at == [i \in 1..Len(s) |-> i]
    <2>1. Downsample(s, m) = s
      BY <1>1 DEF Downsample
    <2>2. at \in Seq(1..Len(s)) /\ Len(at) = Len(s)
      BY <1>0
    <2>3. \A i \in 1..Len(at) - 1 : at[i + 1] - at[i] \in {1, 1 + 1}
      BY <1>0
    <2>4. 1 \in Nat \ {0}
      OBVIOUS
    <2>5. \E q \in Nat \ {0} : \A i \in 1..Len(at) - 1 : at[i + 1] - at[i] \in {q, q + 1}
      <3> HIDE DEF at
      <3> QED BY <2>3, <2>4
    <2>6. \A i \in 1..Len(at) : s[i] = s[at[i]]
      BY <1>0
    <2>7. Len(s) > 0 => at[Len(at)] = Len(s) /\ at[1] = 1
      BY <1>0
    <2>8. Samples(s, s, m, at)
      <3> HIDE DEF at
      <3> QED BY <1>0, <1>1, <2>2, <2>5, <2>6, <2>7 DEF Samples
    <2> QED BY <2>1, <2>8
  <1>2. CASE Len(s) > m /\ m = 1
    <2> DEFINE at == <<Len(s)>>
    <2>1. Downsample(s, m) = <<s[Len(s)]>>
      BY <1>0, <1>2 DEF Downsample, Last
    <2>2. at \in Seq(1..Len(s)) /\ Len(at) = 1 /\ at[1] = Len(s)
      BY <1>0, <1>2
    <2>3. \A i \in 1..Len(at) - 1 : at[i + 1] - at[i] \in {1, 1 + 1}
      BY <2>2
    <2>4. <<s[Len(s)]>> \in Seq(S) /\ Len(<<s[Len(s)]>>) = 1 /\ <<s[Len(s)]>>[1] = s[Len(s)]
      <3>1. s[Len(s)] \in S
        BY <1>0, <1>2
      <3> QED BY <3>1
    <2>5. \E q \in Nat \ {0} : \A i \in 1..Len(at) - 1 : at[i + 1] - at[i] \in {q, q + 1}
      <3>1. 1 \in Nat \ {0}
        OBVIOUS
      <3> HIDE DEF at
      <3> QED BY <2>3, <3>1
    <2> HIDE DEF at
    <2>6. Samples(<<s[Len(s)]>>, s, m, at)
      BY <1>0, <1>2, <2>2, <2>4, <2>5 DEF Samples
    <2> QED BY <2>1, <2>4, <2>6
  <1>3. CASE Len(s) > m /\ m # 1
    <2> DEFINE l == Len(s)
               at == [i \in 1..m |-> 1 + (2 * (i - 1) * (l - 1) + (m - 1)) \div (2 * (m - 1))]
               out == [i \in 1..m |-> s[at[i]]]
    <2>0. l \in Nat /\ m \in Nat /\ m > 1 /\ l > m
      BY <1>0, <1>3
    <2>1. /\ at \in [1..m -> 1..l]
          /\ at[1] = 1 /\ at[m] = l
          /\ \E q \in Nat \ {0} : \A i \in 1..m - 1 : at[i + 1] - at[i] \in {q, q + 1}
      <3> HIDE DEF l
      <3> QED BY <2>0, SampledEven
    <2>2. Downsample(s, m) = out
      BY <1>0, <1>3 DEF Downsample
    <2> HIDE DEF at
    <2>3. at \in Seq(1..Len(s)) /\ Len(at) = m
      BY <2>0, <2>1
    <2>4. out \in Seq(S) /\ Len(out) = m /\ \A i \in 1..m : out[i] = s[at[i]]
      <3>1. \A i \in 1..m : s[at[i]] \in S
        BY <2>1, <1>0
      <3> QED BY <3>1, <2>0
    <2> HIDE DEF out
    <2>5. Samples(out, s, m, at)
      <3>1. Len(out) = IF Len(s) <= m THEN Len(s) ELSE m
        BY <2>0, <2>4
      <3>2. \A i \in 1..Len(at) : out[i] = s[at[i]]
        BY <2>3, <2>4
      <3>3. at[Len(at)] = Len(s) /\ at[1] = 1
        BY <2>1, <2>3
      <3>4. \E q \in Nat \ {0} : \A i \in 1..Len(at) - 1 : at[i + 1] - at[i] \in {q, q + 1}
        BY <2>1, <2>3
      <3> QED BY <2>3, <2>4, <3>1, <3>2, <3>3, <3>4 DEF Samples
    <2> QED BY <2>2, <2>4, <2>5
  <1> QED BY <1>0, <1>1, <1>2, <1>3

-----------------------------------------------------------------------------
(* The inductive invariant.                                                *)

(* Rows are told apart by their numbers and belong to their device's owner. *)
RowsOK ==
  /\ rows \subseteq Row
  /\ \A p, q \in rows : p.seq = q.seq => p = q
  /\ \A row \in rows : row.user = Owner[row.device]

ReadOK ==
  /\ pc \in {"idle", "listing", "listed", "exporting", "probed", "exported"}
  /\ cursor \in 0..MaxSeq /\ failed \in BOOLEAN
  /\ before \subseteq rows
  /\ scanned \in Seq(Seq(rows)) /\ sent \in Seq(Seq(rows))
  /\ pc # "idle" => req \in Requests
  /\ pc = "idle" => cursor = 0 /\ scanned = <<>>
  /\ pc \in {"idle", "exporting"} => sent = <<>>

(* A page is answered by itself or by its sample.                          *)
Answer(page) == IF req.max = Nil THEN page ELSE Downsample(page, req.max)

(* A page has no row twice and only rows of the request.                   *)
PageOK(k) ==
  /\ \A i, j \in 1..Len(scanned[k]) : scanned[k][i] = scanned[k][j] => i = j
  /\ \A i \in 1..Len(scanned[k]) : Wanted(scanned[k][i])
  /\ sent[k] = Answer(scanned[k])

PagesOK ==
  pc \in {"listing", "listed"} =>
    /\ Len(sent) = Len(scanned)
    /\ \A k \in Pages : PageOK(k)

(* While there is a next page, the cursor is past the ends of those before. *)
CursorOK ==
  pc = "listing" => \A k \in Pages : scanned[k] # <<>> /\ Last(scanned[k]).seq <= cursor

OnPage(row) == \E k \in Pages : row \in ToSet(scanned[k])

Skipped(row, k) == ListBefore(Last(scanned[k]), row) /\ Last(scanned[k]).seq > row.seq

(* What is on no page yet and was not skipped is still ahead of the cursor. *)
Ahead ==
  pc = "listing" =>
    \A row \in before : Wanted(row) =>
      OnPage(row) \/ (\E k \in Pages : Skipped(row, k)) \/ row.seq > cursor

(* What was probed was the first row.                                      *)
ProbedOK ==
  /\ pc = "probed" =>
       \E p \in before :
         /\ sent = << <<p>> >> /\ Wanted(p)
         /\ \A row \in before : Wanted(row) => row = p \/ ListBefore(p, row)
  /\ pc = "exported" => Len(sent) = 1 /\ \A i \in 1..Len(sent[1]) : Wanted(sent[1][i])

ReadsInv ==
  /\ RowsOK /\ ReadOK
  /\ PagesOK /\ CursorOK /\ Ahead /\ ListingOnce /\ ListingComplete
  /\ ProbedOK /\ ExportWhole /\ ExportOrdered

-----------------------------------------------------------------------------
(* What the queries return.                                                *)

LEMMA RowFields ==
  ASSUME RowsOK, NEW row \in rows
  PROVE  row.ts \in Int /\ row.seq \in 1..MaxSeq /\ row.seq \in Nat /\ MaxSeq \in Nat
  <1>1. row \in Row
    BY DEF RowsOK
  <1>2. row.ts \in Int /\ row.seq \in 1..MaxSeq
    BY <1>1 DEF Row
  <1> QED BY <1>2, PointReadsAssumption

LEMMA RowsFinite ==
  ASSUME RowsOK
  PROVE  IsFiniteSet(rows) /\ \A S \in SUBSET rows : Rows(S)
  <1> DEFINE f == [p \in rows |-> p.seq]
  <1>1. f \in [rows -> 1..MaxSeq]
    BY RowFields
  <1>2. \A p, q \in rows : f[p] = f[q] => p = q
    BY DEF RowsOK
  <1>3. f \in Injection(rows, 1..MaxSeq)
    BY <1>1, <1>2 DEF Injection, IsInjective
  <1>4. MaxSeq \in Int /\ 1 \in Int
    BY PointReadsAssumption
  <1>5. IsFiniteSet(1..MaxSeq)
    BY <1>4, FS_Interval
  <1>6. IsFiniteSet(rows)
    BY <1>3, <1>5, FS_Injection
  <1>7. ASSUME NEW S \in SUBSET rows
        PROVE  Rows(S)
    <2>1. IsFiniteSet(S)
      BY <1>6, FS_Subset
    <2>2. \A p \in S : p.ts \in Int /\ p.seq \in Int
      BY RowFields
    <2> QED BY <2>1, <2>2 DEF Rows, RowsOK
  <1> QED BY <1>6, <1>7

(* The first n rows of S by time.                                          *)
Earliest(s, S, n) ==
  /\ s \in Seq(S) /\ Len(s) \in 0..n
  /\ \A i, j \in 1..Len(s) : i < j => ListBefore(s[i], s[j])
  /\ \A p \in S : \/ \E i \in 1..Len(s) : s[i] = p
                  \/ Len(s) = n /\ \A i \in 1..Len(s) : ListBefore(s[i], p)

LEMMA FirstIsEarliest ==
  ASSUME NEW S, NEW s, NEW n \in Nat, First(s, S, Pairs(S, ListBefore), n)
  PROVE  Earliest(s, S, n)
  <1>1. s \in Seq(S) /\ Len(s) \in 0..n
    BY DEF First
  <1>2. \A i, j \in 1..Len(s) : i < j => ListBefore(s[i], s[j])
    BY DEF First, Pairs
  <1>3. ASSUME NEW p \in S
        PROVE  \/ \E i \in 1..Len(s) : s[i] = p
               \/ Len(s) = n /\ \A i \in 1..Len(s) : ListBefore(s[i], p)
    BY DEF First, Pairs
  <1> QED BY <1>1, <1>2, <1>3 DEF Earliest

LEMMA Once ==
  ASSUME NEW S, Rows(S), NEW n, NEW s, Earliest(s, S, n)
  PROVE  \A i, j \in 1..Len(s) : s[i] = s[j] => i = j
  <1> TAKE i, j \in 1..Len(s)
  <1>1. Len(s) \in Nat /\ s[i] \in S /\ s[j] \in S
    BY DEF Earliest
  <1>2. ~ListBefore(s[i], s[i])
    BY <1>1 DEF Rows, ListBefore, TextKey
  <1> QED BY <1>1, <1>2 DEF Earliest

Candidates(after) == {row \in rows : Matches(row, after)}

LEMMA Selected ==
  ASSUME RowsOK, NEW after, NEW n \in Nat
  PROVE  First(SelectRows(after, n), Candidates(after), Pairs(Candidates(after), ListBefore), n)
  <1>1. Rows(Candidates(after))
    BY RowsFinite DEF Candidates
  <1>2. SelectRows(after, n) = Take(OrderBy(Candidates(after), ListBefore), n)
    BY DEF SelectRows, Candidates
  <1> QED BY <1>1, <1>2, SortedByTime, FirstOfSorted

(* A row matches from the cursor on when it is wanted and past it.         *)
LEMMA MatchesWanted ==
  ASSUME NEW row, NEW after
  PROVE  Matches(row, after) <=> Wanted(row) /\ row.seq > after
  BY DEF Matches, Wanted

(* There are at least as many rows as a list holds of them.                *)
LEMMA AtLeast ==
  ASSUME NEW S, IsFiniteSet(S), NEW s \in Seq(S),
         \A i, j \in 1..Len(s) : s[i] = s[j] => i = j
  PROVE  Len(s) <= Cardinality(S)
  <1>1. s \in [1..Len(s) -> S] /\ Len(s) \in Nat /\ 1 \in Int /\ Len(s) \in Int
    OBVIOUS
  <1>2. s \in Injection(1..Len(s), S)
    BY <1>1 DEF Injection, IsInjective
  <1>3. Cardinality(1..Len(s)) = IF 1 > Len(s) THEN 0 ELSE Len(s) - 1 + 1
    BY <1>1, FS_Interval
  <1>4. Cardinality(1..Len(s)) <= Cardinality(S)
    BY <1>2, FS_Injection
  <1> QED BY <1>1, <1>3, <1>4

LEMMA Limits ==
  ASSUME req \in Requests
  PROVE  /\ req.limit \in Nat \ {0} /\ req.max \in (Nat \ {0}) \cup {Nil}
         /\ req.device \in DeviceIDs \cup {Nil}
         /\ PageLimit \in Nat \ {0} /\ ExportLimit \in Nat \ {0}
         /\ req.max = Nil => PageLimit < ListPointsCap
         /\ ListPointsCap \in Nat \ {0}
  <1>1. /\ req.limit \in Nat \ {0} /\ req.max \in (Nat \ {0}) \cup {Nil}
        /\ req.device \in DeviceIDs \cup {Nil}
    BY PointReadsAssumption
  <1>2. /\ MaxPointsLimit \in Nat \ {0} /\ MaxSimplifiedPointsLimit \in Nat \ {0}
        /\ ListPointsCap \in Nat \ {0} /\ MaxExportLimit \in Nat \ {0}
        /\ MaxPointsLimit < ListPointsCap
    BY PointReadsAssumption
  <1>3. PageLimit \in Nat \ {0} /\ (req.max = Nil => PageLimit <= MaxPointsLimit)
    <2> DEFINE top == IF req.max = Nil THEN MaxPointsLimit ELSE MaxSimplifiedPointsLimit
    <2>1. req.limit \in Int /\ top \in Int
      BY <1>1, <1>2
    <2>2. PageLimit = IF req.limit <= top THEN req.limit ELSE top
      <3> HIDE DEF top
      <3>1. Min({req.limit, top}) = IF req.limit <= top THEN req.limit ELSE top
        BY <2>1, MinOfTwo
      <3> QED BY <3>1 DEF PageLimit, top
    <2> QED BY <1>1, <1>2, <2>2
  <1>4. ExportLimit \in Nat \ {0}
    <2>1. req.limit \in Int /\ MaxExportLimit \in Int
      BY <1>1, <1>2
    <2>2. ExportLimit = IF req.limit <= MaxExportLimit THEN req.limit ELSE MaxExportLimit
      BY <2>1, MinOfTwo DEF ExportLimit
    <2> QED BY <1>1, <1>2, <2>2
  <1> QED BY <1>1, <1>2, <1>3, <1>4

(* A page: the rows it leaves out come after it, or, on the last one, were *)
(* never read because of the cap.                                          *)
LEMMA PageRead ==
  ASSUME RowsOK, req \in Requests, cursor \in 0..MaxSeq
  PROVE  LET found == ListPoints(cursor, PageLimit + 1)
             page == Take(found, PageLimit)
             M == Candidates(cursor)
         IN  /\ page \in Seq(M) /\ Len(found) \in Nat /\ Len(page) \in Nat
             /\ \A i, j \in 1..Len(page) : page[i] = page[j] => i = j
             /\ Len(found) > PageLimit =>
                  /\ Len(page) > 0
                  /\ \A p \in M : \/ \E i \in 1..Len(page) : page[i] = p
                                  \/ \A i \in 1..Len(page) : ListBefore(page[i], p)
             /\ Len(found) <= PageLimit =>
                  \A p \in M : \/ \E i \in 1..Len(page) : page[i] = p
                               \/ req.max # Nil /\ Len(page) = ListPointsCap
  <1> DEFINE found == ListPoints(cursor, PageLimit + 1)
             page == Take(found, PageLimit)
             M == Candidates(cursor)
             R == Pairs(M, ListBefore)
             n == IF PageLimit + 1 <= ListPointsCap THEN PageLimit + 1 ELSE ListPointsCap
  <1>1. /\ PageLimit \in Nat \ {0} /\ ListPointsCap \in Nat \ {0}
        /\ req.max = Nil => PageLimit < ListPointsCap
        /\ n \in Nat \ {0}
    BY Limits
  <1>2. First(found, M, R, n)
    <2>1. PageLimit + 1 \in Int /\ ListPointsCap \in Int
      BY <1>1
    <2>2. Min({PageLimit + 1, ListPointsCap}) = n
      BY <2>1, MinOfTwo
    <2>3. found = SelectRows(cursor, n)
      BY <2>2 DEF ListPoints
    <2> HIDE DEF n, M, found
    <2> QED BY <2>3, <1>1, Selected DEF M
  <1>3. Rows(M)
    BY RowsFinite DEF Candidates
  <1> HIDE DEF M, R, found, page, n
  <1>4. found \in Seq(M) /\ Len(found) \in Nat /\ Len(found) <= n
    BY <1>2 DEF First
  <1>5. CASE Len(found) > PageLimit
    <2>1. PageLimit \in 0..n
      BY <1>5, <1>1, <1>4
    <2>2. First(page, M, R, PageLimit)
      BY <1>1, <1>2, <2>1, FirstOfFirst DEF page
    <2>3. Earliest(page, M, PageLimit)
      BY <1>1, <2>2, FirstIsEarliest DEF R
    <2>4. Len(page) = PageLimit
      BY <1>1, <1>4, <1>5, Taken DEF page
    <2>5. \A i, j \in 1..Len(page) : page[i] = page[j] => i = j
      BY <2>3, <1>3, Once
    <2>6. \A p \in M : \/ \E i \in 1..Len(page) : page[i] = p
                       \/ \A i \in 1..Len(page) : ListBefore(page[i], p)
      BY <2>3 DEF Earliest
    <2>7. page \in Seq(M)
      BY <2>3 DEF Earliest
    <2> QED BY <1>1, <1>4, <1>5, <2>4, <2>5, <2>6, <2>7 DEF M, found, page
  <1>6. CASE Len(found) <= PageLimit
    <2>1. Earliest(found, M, n)
      BY <1>1, <1>2, FirstIsEarliest DEF R
    <2>2. page = found
      <3>1. PageLimit \in Nat
        BY <1>1
      <3>2. /\ page \in Seq(M)
            /\ Len(page) = IF PageLimit <= Len(found) THEN PageLimit ELSE Len(found)
            /\ \A i \in 1..Len(page) : i \in 1..Len(found) /\ page[i] = found[i]
        BY <3>1, <1>4, Taken DEF page
      <3>3. Len(page) = Len(found)
        BY <3>1, <3>2, <1>4, <1>6
      <3> QED BY <3>2, <3>3, <1>4
    <2>3. \A i, j \in 1..Len(page) : page[i] = page[j] => i = j
      BY <2>1, <2>2, <1>3, Once
    <2>4. ASSUME NEW p \in M
          PROVE  \/ \E i \in 1..Len(page) : page[i] = p
                 \/ req.max # Nil /\ Len(page) = ListPointsCap
      <3>1. CASE Len(found) = n
        <4>1. n = ListPointsCap /\ ListPointsCap <= PageLimit
          BY <3>1, <1>1, <1>6 DEF n
        <4> QED BY <4>1, <3>1, <2>2, <1>1
      <3> QED BY <3>1, <2>1, <2>2 DEF Earliest
    <2> QED BY <1>1, <1>4, <1>6, <2>2, <2>3, <2>4 DEF M, found, page
  <1>7. Len(found) > PageLimit \/ Len(found) <= PageLimit
    BY <1>1, <1>4
  <1> QED BY <1>5, <1>6, <1>7, Zenon

-----------------------------------------------------------------------------
(* The steps.                                                              *)

LEMMA InitReads == Init => ReadsInv
  <1> SUFFICES ASSUME Init
               PROVE  ReadsInv
    OBVIOUS
  <1>1. RowsOK
    BY DEF Init, RowsOK
  <1>2. ReadOK
    <2>1. cursor \in 0..MaxSeq
      BY PointReadsAssumption DEF Init
    <2>2. scanned \in Seq(Seq(rows)) /\ sent \in Seq(Seq(rows))
      BY DEF Init
    <2>3. failed \in BOOLEAN /\ before \subseteq rows /\ pc = "idle"
      BY DEF Init
    <2>4. cursor = 0 /\ scanned = <<>> /\ sent = <<>>
      BY DEF Init
    <2> QED BY <2>1, <2>2, <2>3, <2>4 DEF ReadOK
  <1> QED BY <1>1, <1>2 DEF Init, ReadsInv, PagesOK, CursorOK, Ahead, ListingOnce,
                            ListingComplete, ProbedOK, ExportWhole, ExportOrdered

LEMMA UnchangedReads ==
  ASSUME ReadsInv, UNCHANGED vars
  PROVE  ReadsInv'
  <1>1. UNCHANGED <<rows, pc, req, cursor, scanned, sent, failed, before>>
    BY DEF vars
  <1>2. RowsOK' /\ ReadOK'
    BY <1>1 DEF ReadsInv, RowsOK, ReadOK
  <1>3. PagesOK'
    BY <1>1 DEF ReadsInv, PagesOK, PageOK, Answer, Pages, Wanted
  <1>4. CursorOK' /\ ListingOnce'
    BY <1>1 DEF ReadsInv, CursorOK, ListingOnce, Pages
  <1>5. Ahead' /\ ListingComplete'
    BY <1>1 DEF ReadsInv, Ahead, OnPage, Skipped, ListingComplete, Pages, Wanted
  <1>6. ProbedOK'
    BY <1>1 DEF ReadsInv, ProbedOK, Wanted
  <1>7. ExportWhole'
    BY <1>1 DEF ReadsInv, ExportWhole, Wanted, ExportLimit
  <1>8. ExportOrdered'
    BY <1>1 DEF ReadsInv, ExportOrdered, Wanted, ExportLimit
  <1> QED BY <1>2, <1>3, <1>4, <1>5, <1>6, <1>7, <1>8 DEF ReadsInv

(* A point is stored while nobody reads, or between two reads.             *)
LEMMA StoreReads ==
  ASSUME ReadsInv, NEW n \in 1..MaxSeq, NEW p \in Arrivals, StorePoint(n, p)
  PROVE  ReadsInv'
  <1> DEFINE new == [seq |-> n, user |-> Owner[p.device], device |-> p.device, ts |-> p.ts]
  <1>1. rows' = rows \cup {new} /\ \A row \in rows : row.seq # n
    BY DEF StorePoint
  <1>2. ~Over /\ UNCHANGED <<pc, req, cursor, scanned, sent, failed, before>>
    BY DEF StorePoint
  <1>3. RowsOK'
    <2>1. p.device \in DeviceIDs /\ p.ts \in Int /\ Owner[p.device] \in Nat \ {0}
      BY PointReadsAssumption
    <2>2. new \in Row
      BY <2>1 DEF Row
    <2>3. new.seq = n /\ new.user = Owner[new.device]
      OBVIOUS
    <2> HIDE DEF new
    <2>4. rows' \subseteq Row
      BY <1>1, <2>2 DEF ReadsInv, RowsOK
    <2>5. \A q, r \in rows' : q.seq = r.seq => q = r
      BY <1>1, <2>3 DEF ReadsInv, RowsOK
    <2>6. \A row \in rows' : row.user = Owner[row.device]
      BY <1>1, <2>3 DEF ReadsInv, RowsOK
    <2> QED BY <2>4, <2>5, <2>6 DEF RowsOK
  <1>4. ReadOK'
    <2> HIDE DEF new
    <2>1. rows \subseteq rows'
      BY <1>1
    <2>2. Seq(Seq(rows)) \subseteq Seq(Seq(rows'))
      BY <2>1
    <2> QED BY <1>2, <2>1, <2>2 DEF ReadsInv, ReadOK
  <1>5. PagesOK' /\ CursorOK' /\ ListingOnce'
    BY <1>2 DEF ReadsInv, PagesOK, PageOK, Answer, Pages, Wanted, CursorOK, ListingOnce
  <1>6. Ahead'
    BY <1>2 DEF ReadsInv, Ahead, OnPage, Skipped, Pages, Wanted
  <1>7. ProbedOK'
    BY <1>2 DEF ReadsInv, ProbedOK, Wanted
  <1>8. ListingComplete' /\ ExportWhole' /\ ExportOrdered'
    BY <1>2 DEF Over, ListingComplete, ExportWhole, ExportOrdered
  <1> QED BY <1>3, <1>4, <1>5, <1>6, <1>7, <1>8 DEF ReadsInv

LEMMA StartListingReads ==
  ASSUME ReadsInv, NEW r \in Requests, StartListing(r)
  PROVE  ReadsInv'
  <1>1. /\ pc = "idle" /\ pc' = "listing" /\ req' = r /\ before' = rows
        /\ UNCHANGED <<rows, cursor, scanned, sent, failed>>
    BY DEF StartListing
  <1>2. cursor = 0 /\ scanned = <<>> /\ sent = <<>> /\ RowsOK
    BY <1>1 DEF ReadsInv, ReadOK
  <1>3. RowsOK' /\ ReadOK'
    BY <1>1, <1>2 DEF ReadsInv, RowsOK, ReadOK
  <1>4. PagesOK' /\ CursorOK' /\ ListingOnce'
    BY <1>1, <1>2 DEF PagesOK, CursorOK, ListingOnce, Pages
  <1>5. Ahead'
    <2>1. \A row \in rows : row.seq > 0
      BY <1>2, RowFields
    <2> QED BY <1>1, <1>2, <2>1 DEF Ahead
  <1> QED BY <1>1, <1>3, <1>4, <1>5
          DEF ReadsInv, ListingComplete, ProbedOK, ExportWhole, ExportOrdered

(* The list of pages grows by one.                                         *)
Grown(n, page, out) ==
  /\ n = Len(scanned) /\ Pages = 1..n /\ Pages' = 1..(n + 1)
  /\ Len(scanned') = n + 1 /\ Len(sent') = n + 1
  /\ \A k \in 1..n : scanned'[k] = scanned[k] /\ sent'[k] = sent[k]
  /\ scanned'[n + 1] = page /\ sent'[n + 1] = out
  /\ Last(scanned') = page
  /\ scanned' \in Seq(Seq(rows)) /\ sent' \in Seq(Seq(rows))

LEMMA NextPage ==
  ASSUME ReadsInv, pc = "listing", NEW page \in Seq(rows), NEW out \in Seq(rows),
         scanned' = Append(scanned, page), sent' = Append(sent, out)
  PROVE  \E n \in Nat : Grown(n, page, out)
  <1>1. scanned \in Seq(Seq(rows)) /\ sent \in Seq(Seq(rows)) /\ Len(sent) = Len(scanned)
    BY DEF ReadsInv, ReadOK, PagesOK
  <1> DEFINE n == Len(scanned)
  <1>2. n \in Nat /\ Pages = 1..n
    BY <1>1 DEF Pages
  <1>3. /\ scanned' \in Seq(Seq(rows)) /\ sent' \in Seq(Seq(rows))
        /\ Len(scanned') = n + 1 /\ Len(sent') = n + 1
    BY <1>1
  <1>4. \A k \in 1..n : scanned'[k] = scanned[k] /\ sent'[k] = sent[k]
    BY <1>1
  <1>5. scanned'[n + 1] = page /\ sent'[n + 1] = out
    BY <1>1
  <1>6. Pages' = 1..(n + 1)
    BY <1>3 DEF Pages
  <1>7. Last(scanned') = page
    BY <1>3, <1>5 DEF Last
  <1>8. Grown(n, page, out)
    BY <1>2, <1>3, <1>4, <1>5, <1>6, <1>7 DEF Grown
  <1> QED BY <1>2, <1>8

LEMMA PageRefusedReads ==
  ASSUME ReadsInv, PageRefused
  PROVE  ReadsInv'
  <1>1. /\ pc = "listing" /\ pc' = "listed"
        /\ req.device \notin Allowed \cup {Nil}
        /\ scanned' = Append(scanned, <<>>) /\ sent' = Append(sent, <<>>)
        /\ UNCHANGED <<rows, req, cursor, failed, before>>
    BY DEF PageRefused
  <1>2. <<>> \in Seq(rows)
    OBVIOUS
  <1>3. PICK n \in Nat : Grown(n, <<>>, <<>>)
    BY <1>1, <1>2, NextPage, Zenon
  <1>4. RowsOK' /\ ReadOK'
    BY <1>1, <1>3 DEF Grown, ReadsInv, RowsOK, ReadOK
  <1>5. ASSUME NEW k \in 1..n
        PROVE  PageOK(k)'
    <2>1. PageOK(k)
      BY <1>1, <1>3 DEF Grown, ReadsInv, PagesOK
    <2> QED BY <1>1, <1>3, <2>1 DEF Grown, PageOK, Wanted, Answer
  <1>6. PageOK(n + 1)'
    <2>1. Len(<<>>) = 0
      OBVIOUS
    <2>2. req \in Requests
      BY <1>1 DEF ReadsInv, ReadOK
    <2>3. req.max # Nil => Len(<<>>) <= req.max
      BY <2>1, <2>2, Limits
    <2>4. req.max # Nil => Downsample(<<>>, req.max) = <<>>
      BY <2>3 DEF Downsample
    <2> QED BY <1>1, <1>3, <2>1, <2>4 DEF Grown, PageOK, Answer
  <1>7. PagesOK'
    <2>1. \A k \in 1..(n + 1) : k \in 1..n \/ k = n + 1
      OBVIOUS
    <2> QED BY <1>3, <1>5, <1>6, <2>1 DEF Grown, PagesOK
  <1>8. ListingOnce'
    <2> SUFFICES ASSUME NEW j \in 1..(n + 1), NEW k \in 1..(n + 1), j < k,
                        NEW row \in ToSet(scanned'[j]) \cap ToSet(scanned'[k])
                 PROVE  Last(scanned'[j]).seq < row.seq
      BY <1>3 DEF Grown, ListingOnce
    <2>1. k # n + 1
      <3>1. ToSet(<<>>) = {}
        BY DEF ToSet
      <3> QED BY <1>3, <3>1 DEF Grown
    <2>2. j \in 1..n /\ k \in 1..n
      BY <2>1
    <2> QED BY <1>1, <1>3, <2>2 DEF Grown, ReadsInv, ListingOnce
  <1>9. ListingComplete'
    <2>1. ASSUME NEW row \in before, Wanted(row)
          PROVE  FALSE
      <3>1. row \in rows /\ row.user = Owner[row.device] /\ row \in Row
        BY DEF ReadsInv, ReadOK, RowsOK
      <3>2. row.device \in Allowed
        BY <2>1, <3>1 DEF Allowed, Wanted, Row
      <3> QED BY <1>1, <2>1, <3>2 DEF Wanted
    <2> QED BY <1>1, <2>1 DEF ListingComplete, Wanted
  <1> QED BY <1>1, <1>4, <1>7, <1>8, <1>9
          DEF ReadsInv, CursorOK, Ahead, ProbedOK, ExportWhole, ExportOrdered

LEMMA Answered ==
  ASSUME req \in Requests, NEW S, NEW page \in Seq(S)
  PROVE  /\ Answer(page) \in Seq(S)
         /\ Len(page) > 0 => Len(Answer(page)) > 0 /\ Last(Answer(page)) = Last(page)
         /\ \A i \in 1..Len(Answer(page)) : \E j \in 1..Len(page) : Answer(page)[i] = page[j]
  <1>1. CASE req.max = Nil
    <2>1. Answer(page) = page
      BY <1>1 DEF Answer
    <2> QED BY <2>1
  <1>2. CASE req.max # Nil
    <2> DEFINE out == Answer(page)
    <2>1. req.max \in Nat \ {0}
      BY <1>2, Limits
    <2>2. out = Downsample(page, req.max)
      BY <1>2 DEF Answer
    <2> HIDE DEF out
    <2>3. out \in Seq(S) /\ \E at : Samples(out, page, req.max, at)
      BY <2>1, <2>2, Downsampled
    <2>4. PICK at : Samples(out, page, req.max, at)
      BY <2>3
    <2>5. at \in Seq(1..Len(page)) /\ Len(at) = Len(out) /\ Len(out) \in Nat /\ Len(page) \in Nat
      BY <2>3, <2>4 DEF Samples
    <2>6. \A i \in 1..Len(out) : at[i] \in 1..Len(page) /\ out[i] = page[at[i]]
      BY <2>4, <2>5 DEF Samples
    <2>7. Len(page) > 0 => Len(out) > 0 /\ at[Len(out)] = Len(page)
      BY <2>1, <2>4, <2>5 DEF Samples
    <2>8. Len(page) > 0 => Len(out) > 0 /\ Last(out) = Last(page)
      <3> SUFFICES ASSUME Len(page) > 0
                   PROVE  Len(out) > 0 /\ Last(out) = Last(page)
        OBVIOUS
      <3>1. Len(out) \in 1..Len(out)
        BY <2>5, <2>7
      <3> QED BY <2>6, <2>7, <3>1 DEF Last
    <2>9. \A i \in 1..Len(out) : \E j \in 1..Len(page) : out[i] = page[j]
      BY <2>6
    <2> QED BY <2>3, <2>8, <2>9 DEF out
  <1> QED BY <1>1, <1>2

LEMMA ReadPageReads ==
  ASSUME ReadsInv, ReadPage
  PROVE  ReadsInv'
  <1> DEFINE found == ListPoints(cursor, PageLimit + 1)
             page == Take(found, PageLimit)
             out == Answer(page)
             M == Candidates(cursor)
  <1>1. /\ pc = "listing" /\ UNCHANGED <<rows, req, failed, before>>
        /\ scanned' = Append(scanned, page) /\ sent' = Append(sent, out)
        /\ cursor' = IF Len(found) > PageLimit THEN Last(out).seq ELSE cursor
        /\ pc' = IF Len(found) > PageLimit THEN "listing" ELSE "listed"
    BY DEF ReadPage, NextCursor, Answer
  <1>2. RowsOK /\ ReadOK /\ req \in Requests /\ cursor \in 0..MaxSeq
    BY <1>1 DEF ReadsInv, ReadOK
  <1>3. /\ page \in Seq(M) /\ Len(found) \in Nat /\ Len(page) \in Nat
        /\ \A i, j \in 1..Len(page) : page[i] = page[j] => i = j
        /\ Len(found) > PageLimit =>
             /\ Len(page) > 0
             /\ \A p \in M : \/ \E i \in 1..Len(page) : page[i] = p
                             \/ \A i \in 1..Len(page) : ListBefore(page[i], p)
        /\ Len(found) <= PageLimit =>
             \A p \in M : \/ \E i \in 1..Len(page) : page[i] = p
                          \/ req.max # Nil /\ Len(page) = ListPointsCap
    BY <1>2, PageRead
  <1>4. PageLimit \in Nat
    BY <1>2, Limits
  <1>5. \A p \in M : p \in rows /\ Wanted(p) /\ p.seq > cursor /\ p.seq \in Nat
    BY <1>2, MatchesWanted, RowFields DEF Candidates
  <1>6. \A p \in rows : Wanted(p) /\ p.seq > cursor => p \in M
    BY MatchesWanted DEF Candidates
  <1>7. /\ out \in Seq(M)
        /\ Len(page) > 0 => Len(out) > 0 /\ Last(out) = Last(page)
    <2> HIDE DEF M, page
    <2> QED BY <1>2, <1>3, Answered
  <1> HIDE DEF M, found, page
  <1>8. page \in Seq(rows) /\ out \in Seq(rows)
    <2>1. M \subseteq rows
      BY <1>5
    <2> HIDE DEF out
    <2> QED BY <1>3, <1>7, <2>1
  <1>9. PICK n \in Nat : Grown(n, page, out)
    BY <1>1, <1>8, NextPage, Zenon
  <1>10. \A k \in 1..(n + 1) : k \in 1..n \/ k = n + 1
    OBVIOUS
  <1>11. ToSet(page) = {page[i] : i \in 1..Len(page)} /\ ToSet(page) \subseteq M
    BY <1>3 DEF ToSet
  <1>12. Len(page) > 0 => Last(page) \in M /\ Last(page) = page[Len(page)]
    BY <1>3 DEF Last
  <1>13. Len(found) > PageLimit => cursor' = Last(page).seq /\ cursor' > cursor /\ cursor' \in 0..MaxSeq
    <2> SUFFICES ASSUME Len(found) > PageLimit
                 PROVE  cursor' = Last(page).seq /\ cursor' > cursor /\ cursor' \in 0..MaxSeq
      OBVIOUS
    <2>1. cursor' = Last(page).seq /\ Last(page) \in M
      BY <1>1, <1>3, <1>7, <1>12
    <2>2. Last(page).seq > cursor /\ Last(page) \in rows
      BY <2>1, <1>5
    <2> QED BY <2>1, <2>2, <1>2, RowFields
  <1>14. RowsOK'
    BY <1>1 DEF ReadsInv, RowsOK
  <1>15. ReadOK'
    BY <1>1, <1>2, <1>9, <1>13 DEF ReadOK, Grown
  <1>16. PagesOK'
    <2>1. ASSUME NEW k \in 1..n
          PROVE  PageOK(k)'
      <3>1. PageOK(k)
        BY <1>1, <1>9 DEF Grown, ReadsInv, PagesOK
      <3> QED BY <1>1, <1>9, <3>1 DEF Grown, PageOK, Wanted, Answer
    <2>2. PageOK(n + 1)'
      <3>1. /\ scanned'[n + 1] = page
            /\ sent'[n + 1] = IF req.max = Nil THEN page ELSE Downsample(page, req.max)
        BY <1>9 DEF Grown, Answer
      <3>2. \A i \in 1..Len(page) : Wanted(page[i])
        BY <1>3, <1>5
      <3>3. req' = req
        BY <1>1
      <3>4. \A i, j \in 1..Len(page) : page[i] = page[j] => i = j
        BY <1>3
      <3> HIDE DEF out
      <3>5. \A i, j \in 1..Len(scanned'[n + 1]) : scanned'[n + 1][i] = scanned'[n + 1][j] => i = j
        BY <3>1, <3>4
      <3>6. \A i \in 1..Len(scanned'[n + 1]) : Wanted(scanned[n + 1][i])'
        BY <3>1, <3>2, <3>3 DEF Wanted
      <3>7. sent'[n + 1] = Answer(scanned[n + 1])'
        BY <3>1, <3>3 DEF Answer
      <3> QED BY <3>5, <3>6, <3>7 DEF PageOK
    <2> QED BY <1>9, <1>10, <2>1, <2>2 DEF Grown, PagesOK
  <1>17. CursorOK'
    <2> SUFFICES ASSUME pc' = "listing", NEW k \in 1..(n + 1)
                 PROVE  scanned'[k] # <<>> /\ Last(scanned'[k]).seq <= cursor'
      BY <1>9 DEF CursorOK, Grown
    <2>1. Len(found) > PageLimit
      BY <1>1
    <2>2. CASE k \in 1..n
      <3>1. scanned[k] # <<>> /\ Last(scanned[k]).seq <= cursor /\ scanned'[k] = scanned[k]
        BY <1>1, <1>9, <2>2 DEF Grown, ReadsInv, CursorOK
      <3>2. Last(scanned[k]) \in rows
        <4>1. scanned[k] \in Seq(rows)
          BY <1>2, <1>9, <2>2 DEF ReadOK, Grown
        <4> QED BY <3>1, <4>1 DEF Last
      <3>3. Last(scanned[k]).seq \in Nat /\ cursor' \in Nat
        BY <3>2, <1>2, <1>13, <2>1, RowFields
      <3> QED BY <3>1, <3>3, <1>2, <1>13, <2>1
    <2>3. CASE k = n + 1
      <3>1. scanned'[k] = page /\ Len(page) > 0
        BY <1>3, <1>9, <2>1, <2>3 DEF Grown
      <3> QED BY <3>1, <1>13, <2>1
    <2> QED BY <1>10, <2>2, <2>3
  <1>18. ListingOnce'
    <2> SUFFICES ASSUME NEW j \in 1..(n + 1), NEW k \in 1..(n + 1), j < k,
                        NEW row \in ToSet(scanned'[j]) \cap ToSet(scanned'[k])
                 PROVE  Last(scanned'[j]).seq < row.seq
      BY <1>9 DEF Grown, ListingOnce
    <2>1. j \in 1..n /\ scanned'[j] = scanned[j]
      BY <1>9 DEF Grown
    <2>2. CASE k \in 1..n
      BY <1>1, <1>9, <2>1, <2>2 DEF Grown, ReadsInv, ListingOnce
    <2>3. CASE k = n + 1
      <3>1. row \in M
        BY <1>9, <1>11, <2>3 DEF Grown
      <3>2. row.seq > cursor /\ row.seq \in Nat
        BY <3>1, <1>5
      <3>3. scanned[j] # <<>> /\ Last(scanned[j]).seq <= cursor
        BY <1>1, <1>9, <2>1 DEF Grown, ReadsInv, CursorOK
      <3>4. scanned[j] \in Seq(rows)
        BY <1>2, <1>9, <2>1 DEF ReadOK, Grown
      <3>5. Last(scanned[j]) \in rows
        BY <3>3, <3>4 DEF Last
      <3>6. Last(scanned[j]).seq \in Nat
        BY <3>5, <1>2, RowFields
      <3> QED BY <3>2, <3>3, <3>6, <2>1, <1>2, PointReadsAssumption
    <2> QED BY <1>10, <2>2, <2>3
  <1>19. ASSUME NEW row \in before, Wanted(row)
         PROVE  \/ OnPage(row)'
                \/ \E k \in 1..n : Skipped(row, k)
                \/ row \in M /\ row \in rows
    <2>1. row \in rows
      BY <1>2 DEF ReadOK
    <2>2. OnPage(row) \/ (\E k \in Pages : Skipped(row, k)) \/ row.seq > cursor
      BY <1>1, <1>19 DEF ReadsInv, Ahead
    <2>3. OnPage(row) => OnPage(row)'
      <3> SUFFICES ASSUME NEW k \in Pages, row \in ToSet(scanned[k])
                   PROVE  k \in Pages' /\ row \in ToSet(scanned'[k])
        BY DEF OnPage
      <3>1. k \in 1..n
        BY <1>9 DEF Grown
      <3>2. k \in 1..(n + 1)
        BY <3>1
      <3>3. Pages' = 1..(n + 1) /\ scanned'[k] = scanned[k]
        BY <1>9, <3>1 DEF Grown
      <3> QED BY <3>2, <3>3
    <2>4. (\E k \in Pages : Skipped(row, k)) => \E k \in 1..n : Skipped(row, k)
      BY <1>9 DEF Grown
    <2>5. row.seq > cursor => row \in M
      BY <1>6, <1>19, <2>1
    <2> QED BY <2>1, <2>2, <2>3, <2>4, <2>5
  <1>20. ASSUME NEW row, NEW i \in 1..Len(page), page[i] = row
         PROVE  OnPage(row)'
    <2>1. row \in ToSet(page)
      BY <1>11, <1>20
    <2>2. n + 1 \in Pages' /\ scanned'[n + 1] = page
      BY <1>9 DEF Grown
    <2> QED BY <2>1, <2>2 DEF OnPage
  <1>21. Ahead'
    <2> SUFFICES ASSUME pc' = "listing", NEW row \in before, Wanted(row)
                 PROVE  OnPage(row)' \/ (\E k \in Pages' : Skipped(row, k)') \/ row.seq > cursor'
      BY <1>1 DEF Ahead, Wanted
    <2>1. Len(found) > PageLimit
      BY <1>1
    <2>2. ASSUME NEW k \in 1..n, Skipped(row, k)
          PROVE  k \in Pages' /\ Skipped(row, k)'
      BY <1>9, <2>2 DEF Grown, Skipped
    <2>3. CASE row \in M /\ row \in rows
      <3>1. CASE \E i \in 1..Len(page) : page[i] = row
        BY <3>1, <1>20
      <3>2. CASE \A i \in 1..Len(page) : ListBefore(page[i], row)
        <4>1. ListBefore(Last(page), row) /\ Last(page) \in rows
          BY <1>3, <1>5, <1>12, <2>1, <3>2
        <4>2. cursor' = Last(page).seq
          BY <1>13, <2>1
        <4>3. row.seq \in Nat /\ Last(page).seq \in Nat
          BY <1>2, <2>3, <4>1, RowFields
        <4>4. CASE Last(page).seq = row.seq
          <5>1. Last(page) = row
            BY <1>2, <2>3, <4>1, <4>4 DEF RowsOK
          <5>2. Len(page) \in 1..Len(page) /\ page[Len(page)] = Last(page)
            BY <1>3, <2>1, <1>12
          <5> QED BY <5>1, <5>2, <1>20
        <4>5. CASE Last(page).seq > row.seq
          <5>1. n + 1 \in Pages' /\ scanned'[n + 1] = page
            BY <1>9 DEF Grown
          <5>2. Skipped(row, n + 1)'
            BY <4>1, <4>5, <5>1 DEF Skipped
          <5> QED BY <5>1, <5>2
        <4> QED BY <4>2, <4>3, <4>4, <4>5
      <3> QED BY <1>3, <2>1, <2>3, <3>1, <3>2
    <2> QED BY <1>19, <2>2, <2>3
  <1>22. ListingComplete'
    <2> SUFFICES ASSUME pc' = "listed", NEW row \in before, Wanted(row)
                 PROVE  \/ OnPage(row)'
                        \/ \E k \in Pages' : k < Len(scanned') /\ Skipped(row, k)'
                        \/ req.max # Nil /\ Len(Last(scanned')) = ListPointsCap
      BY <1>1 DEF ListingComplete, Wanted, OnPage, Skipped
    <2>1. Len(found) <= PageLimit
      BY <1>1, <1>3, <1>4
    <2>2. ASSUME NEW k \in 1..n, Skipped(row, k)
          PROVE  k \in Pages' /\ k < Len(scanned') /\ Skipped(row, k)'
      BY <1>9, <2>2 DEF Grown, Skipped
    <2>3. CASE row \in M /\ row \in rows
      <3>1. (\E i \in 1..Len(page) : page[i] = row) \/ (req.max # Nil /\ Len(page) = ListPointsCap)
        BY <1>3, <2>1, <2>3
      <3>2. Last(scanned') = page
        BY <1>9 DEF Grown
      <3> QED BY <1>20, <3>1, <3>2
    <2> QED BY <1>19, <2>2, <2>3
  <1> QED BY <1>1, <1>14, <1>15, <1>16, <1>17, <1>18, <1>21, <1>22
          DEF ReadsInv, ProbedOK, ExportWhole, ExportOrdered

LEMMA StartExportReads ==
  ASSUME ReadsInv, NEW r \in Requests, StartExport(r)
  PROVE  ReadsInv'
  <1>1. /\ pc = "idle" /\ pc' = "exporting" /\ req' = r
        /\ UNCHANGED <<rows, cursor, scanned, sent, failed, before>>
    BY DEF StartExport
  <1>2. RowsOK' /\ ReadOK'
    BY <1>1 DEF ReadsInv, RowsOK, ReadOK
  <1> QED BY <1>1, <1>2 DEF ReadsInv, PagesOK, CursorOK, Ahead, ListingOnce,
                            ListingComplete, ProbedOK, ExportWhole, ExportOrdered

(* The wanted rows are those that the queries of an export look through.   *)
LEMMA WantedCandidates ==
  ASSUME RowsOK
  PROVE  \A row \in rows : row \in Candidates(0) <=> Wanted(row)
  <1> TAKE row \in rows
  <1>1. row.seq > 0
    BY RowFields
  <1> QED BY <1>1, MatchesWanted DEF Candidates

LEMMA ProbeReads ==
  ASSUME ReadsInv, ProbeExport
  PROVE  ReadsInv'
  <1> DEFINE found == SelectRows(0, 1)
             C == Candidates(0)
  <1>1. /\ pc = "exporting" /\ sent' = <<found>>
        /\ pc' = IF found = <<>> THEN "exported" ELSE "probed"
        /\ before' = rows
        /\ UNCHANGED <<rows, req, cursor, scanned, failed>>
    BY DEF ProbeExport
  <1>2. RowsOK /\ ReadOK /\ req \in Requests
    BY <1>1 DEF ReadsInv, ReadOK
  <1>3. C \subseteq rows /\ \A row \in rows : row \in C <=> Wanted(row)
    BY <1>2, WantedCandidates DEF Candidates
  <1>4. Earliest(found, C, 1)
    <2>1. 1 \in Nat
      OBVIOUS
    <2>2. First(found, C, Pairs(C, ListBefore), 1)
      BY <1>2, <2>1, Selected
    <2> HIDE DEF found, C
    <2> QED BY <2>1, <2>2, FirstIsEarliest
  <1> HIDE DEF found, C
  <1>5. found \in Seq(C) /\ Len(found) \in 0..1
    BY <1>4 DEF Earliest
  <1>6. found \in Seq(rows)
    BY <1>3, <1>5
  <1>7. RowsOK' /\ ReadOK'
    <2>1. sent' \in Seq(Seq(rows))
      BY <1>1, <1>6
    <2> QED BY <1>1, <1>2, <2>1 DEF RowsOK, ReadOK
  <1>8. CASE found = <<>>
    <2>1. Len(found) = 0 /\ pc' = "exported" /\ sent'[1] = <<>> /\ Len(sent') = 1
      BY <1>1, <1>8
    <2>2. \A row \in rows : ~Wanted(row)
      BY <1>3, <1>4, <2>1 DEF Earliest
    <2>3. ProbedOK'
      BY <2>1 DEF ProbedOK
    <2>4. ExportWhole'
      <3>1. IsInjective(<<>>)
        BY DEF IsInjective
      <3>2. \A row \in before' : ~Wanted(row)'
        BY <1>1, <2>2 DEF Wanted
      <3> QED BY <2>1, <3>1, <3>2 DEF ExportWhole
    <2>5. ExportOrdered'
      BY <2>1 DEF ExportOrdered
    <2> QED BY <1>7, <2>1, <2>3, <2>4, <2>5
            DEF ReadsInv, PagesOK, CursorOK, Ahead, ListingOnce, ListingComplete
  <1>9. CASE found # <<>>
    <2>1. Len(found) = 1 /\ pc' = "probed"
      BY <1>1, <1>5, <1>9
    <2> DEFINE p == found[1]
    <2>2. p \in C /\ found = <<p>>
      BY <1>5, <2>1
    <2> HIDE DEF p
    <2>3. \A row \in rows : Wanted(row) => row = p \/ ListBefore(p, row)
      <3>1. \A i \in 1..1 : found[i] = p
        BY <2>2
      <3>2. 1 \in 1..1
        OBVIOUS
      <3> QED BY <1>3, <1>4, <2>1, <3>1, <3>2 DEF Earliest
    <2>4. ProbedOK'
      <3>1. p \in rows /\ Wanted(p)
        BY <1>3, <2>2
      <3>2. \A row : Wanted(row)' <=> Wanted(row)
        BY <1>1 DEF Wanted
      <3>3. sent' = << <<p>> >>
        BY <1>1, <2>2
      <3>4. before' = rows /\ pc' # "exported"
        BY <1>1, <2>1
      <3> QED BY <2>3, <3>1, <3>2, <3>3, <3>4 DEF ProbedOK
    <2> QED BY <1>7, <2>1, <2>4 DEF ReadsInv, PagesOK, CursorOK, Ahead, ListingOnce,
                                    ListingComplete, ExportWhole, ExportOrdered
  <1> QED BY <1>8, <1>9

(* The text order of times is their order, to the second.                  *)
LEMMA TimeOrder ==
  ASSUME NEW p, NEW q, p.ts \in Int, q.ts \in Int, ListBefore(p, q)
  PROVE  p.ts \div 2 <= q.ts \div 2
  BY DEF ListBefore, TextKey

LEMMA BeforeIsOrder ==
  ASSUME RowsOK, NEW p \in rows, NEW q \in rows
  PROVE  /\ ~(ListBefore(p, q) /\ ListBefore(q, p))
         /\ p = q \/ ListBefore(p, q) \/ ListBefore(q, p)
  <1>1. p.ts \in Int /\ q.ts \in Int /\ p.seq \in Nat /\ q.seq \in Nat
    BY RowFields
  <1>2. p.seq = q.seq => p = q
    BY DEF RowsOK
  <1> QED BY <1>1, <1>2 DEF ListBefore, TextKey

(* What an export is: the probed row, then the first n rows without it.    *)
Exported(e, p, n) ==
  /\ e \in Seq(Candidates(0)) /\ Len(e) > 0 /\ e[1] = p
  /\ \A j, k \in 1..Len(e) : j < k =>
       e[j] # e[k] /\ (j = 1 \/ ListBefore(e[j], e[k]))
  /\ \A row \in Candidates(0) :
       \/ \E i \in 1..Len(e) : e[i] = row
       \/ Cardinality({r \in rows : Wanted(r) /\ ListBefore(r, row)}) >= n
  /\ Len(e) <= n + 1
  /\ n > 0 /\ (\A row \in Candidates(0) : row = p \/ ListBefore(p, row)) => Len(e) <= n

LEMMA Streamed ==
  ASSUME RowsOK, NEW n \in Nat, NEW p \in Candidates(0), sent[1] = <<p>>
  PROVE  Exported(sent[1] \o WithoutFirst(SelectRows(0, n)), p, n)
  <1> DEFINE s == SelectRows(0, n)
             C == Candidates(0)
             I == {i \in DOMAIN s : s[i].seq # p.seq}
             rest == RowsAt(s, I)
             e == <<p>> \o rest
  <1>1. C \subseteq rows /\ \A row \in rows : row \in C <=> Wanted(row)
    BY WantedCandidates DEF Candidates
  <1>2. Earliest(s, C, n)
    <2>1. First(s, C, Pairs(C, ListBefore), n)
      BY Selected
    <2> HIDE DEF s, C
    <2> QED BY <2>1, FirstIsEarliest
  <1>3. Rows(C)
    BY RowsFinite DEF Candidates
  <1>4. sent[1] \o WithoutFirst(SelectRows(0, n)) = e
    <2>1. sent[1][1].seq = p.seq
      OBVIOUS
    <2> QED BY <2>1 DEF WithoutFirst
  <1>5. p \in C
    OBVIOUS
  <1> HIDE DEF s, C
  <1>6. s \in Seq(C) /\ Len(s) \in 0..n /\ DOMAIN s = 1..Len(s)
    BY <1>2 DEF Earliest
  <1>7. I \in SUBSET (1..Len(s)) /\ \A i \in 1..Len(s) : i \in I <=> s[i].seq # p.seq
    BY <1>6
  <1> HIDE DEF I
  <1>8. PICK at : Keeps(rest, s, I, at)
    BY <1>6, <1>7, KeptRows
  <1> HIDE DEF rest
  <1>9. at \in Seq(I) /\ Len(at) \in Nat /\ Len(rest) = Len(at) /\ Len(at) = Cardinality(I)
    BY <1>8 DEF Keeps
  <1>10. \A i \in 1..Len(at) : at[i] \in I /\ at[i] \in 1..Len(s) /\ rest[i] = s[at[i]]
    <2>1. \A i \in 1..Len(at) : at[i] \in I
      BY <1>9
    <2> QED BY <2>1, <1>7, <1>8 DEF Keeps
  <1>11. \A i \in 1..Len(at) : rest[i] \in C /\ rest[i].seq # p.seq
    BY <1>6, <1>7, <1>10
  <1>12. rest \in Seq(C)
    <2>1. rest \in Seq({s[k] : k \in I})
      BY <1>8 DEF Keeps
    <2>2. {s[k] : k \in I} \subseteq C
      BY <1>6, <1>7
    <2> QED BY <2>1, <2>2
  <1>13. /\ e \in Seq(C) /\ Len(e) = 1 + Len(rest) /\ e[1] = p
         /\ \A i \in 1..Len(rest) : e[1 + i] = rest[i]
    BY <1>5, <1>9, <1>12
  <1> HIDE DEF e
  <1>14. ASSUME NEW j \in 1..Len(e), NEW k \in 1..Len(e), j < k
         PROVE  e[j] # e[k] /\ (j = 1 \/ ListBefore(e[j], e[k]))
    <2>1. k - 1 \in 1..Len(at) /\ e[k] = rest[k - 1]
      <3>1. k - 1 \in 1..Len(rest) /\ 1 + (k - 1) = k
        BY <1>9, <1>13, <1>14
      <3> QED BY <3>1, <1>9, <1>13
    <2>2. CASE j = 1
      BY <2>1, <2>2, <1>11, <1>13
    <2>3. CASE j # 1
      <3>1. j - 1 \in 1..Len(rest) /\ 1 + (j - 1) = j
        BY <1>9, <1>13, <2>3
      <3>2. j - 1 \in 1..Len(at) /\ e[j] = rest[j - 1]
        BY <3>1, <1>9, <1>13
      <3>3. at[j - 1] < at[k - 1]
        <4>1. j - 1 < k - 1
          BY <1>14
        <4> QED BY <4>1, <2>1, <3>2, <1>8 DEF Keeps
      <3>4. ListBefore(e[j], e[k])
        <4>1. /\ at[j - 1] \in 1..Len(s) /\ e[j] = s[at[j - 1]]
              /\ at[k - 1] \in 1..Len(s) /\ e[k] = s[at[k - 1]]
          BY <1>10, <2>1, <3>2
        <4>2. ListBefore(s[at[j - 1]], s[at[k - 1]])
          BY <1>2, <3>3, <4>1 DEF Earliest
        <4> QED BY <4>1, <4>2
      <3>5. e[j] \in rows /\ e[k] \in rows
        BY <1>1, <1>11, <2>1, <3>2
      <3>6. e[j] # e[k]
        BY <3>4, <3>5, BeforeIsOrder
      <3> QED BY <3>4, <3>6
    <2> QED BY <2>2, <2>3
  <1>15. ASSUME NEW i \in 1..Len(s)
         PROVE  \E k \in 1..Len(e) : e[k] = s[i]
    <2>1. s[i] \in rows /\ p \in rows
      BY <1>1, <1>5, <1>6
    <2>2. CASE s[i].seq = p.seq
      <3>1. s[i] = p
        BY <2>1, <2>2 DEF RowsOK
      <3>2. 1 \in 1..Len(e)
        BY <1>9, <1>13
      <3> QED BY <3>1, <3>2, <1>13
    <2>3. CASE s[i].seq # p.seq
      <3>1. PICK k \in 1..Len(at) : at[k] = i
        BY <1>7, <1>8, <2>3 DEF Keeps
      <3>2. 1 + k \in 1..Len(e) /\ e[1 + k] = s[i]
        BY <3>1, <1>9, <1>10, <1>13
      <3> QED BY <3>2
    <2> QED BY <2>2, <2>3
  <1>16. ASSUME NEW row \in C
         PROVE  \/ \E i \in 1..Len(e) : e[i] = row
                \/ Cardinality({r \in rows : Wanted(r) /\ ListBefore(r, row)}) >= n
    <2>1. CASE \E i \in 1..Len(s) : s[i] = row
      BY <2>1, <1>15
    <2>2. CASE Len(s) = n /\ \A i \in 1..Len(s) : ListBefore(s[i], row)
      <3> DEFINE Q == {r \in rows : Wanted(r) /\ ListBefore(r, row)}
      <3>1. IsFiniteSet(Q)
        BY RowsFinite, FS_Subset
      <3>2. \A i \in 1..Len(s) : s[i] \in Q
        BY <1>1, <1>6, <2>2
      <3> HIDE DEF Q
      <3>3. s \in Seq(Q)
        BY <1>6, <3>2
      <3>4. \A i, j \in 1..Len(s) : s[i] = s[j] => i = j
        BY <1>2, <1>3, Once
      <3>5. Len(s) <= Cardinality(Q)
        BY <3>1, <3>3, <3>4, AtLeast
      <3>6. Cardinality(Q) \in Nat
        BY <3>1, FS_CardinalityType
      <3>7. Cardinality(Q) >= n
        BY <3>5, <3>6, <2>2
      <3> QED BY <3>7 DEF Q
    <2> QED BY <1>2, <2>1, <2>2 DEF Earliest
  <1>17. IsFiniteSet(1..Len(s)) /\ Cardinality(1..Len(s)) = Len(s)
    <2>1. 1 \in Int /\ Len(s) \in Int /\ Len(s) \in Nat
      BY <1>6
    <2>2. /\ IsFiniteSet(1..Len(s))
          /\ Cardinality(1..Len(s)) = IF 1 > Len(s) THEN 0 ELSE Len(s) - 1 + 1
      BY <2>1, FS_Interval
    <2> QED BY <2>1, <2>2
  <1>18. Len(e) <= n + 1
    <2>1. Cardinality(I) <= Len(s)
      BY <1>7, <1>17, FS_Subset
    <2> QED BY <2>1, <1>6, <1>9, <1>13
  <1>19. ASSUME n > 0, \A row \in C : row = p \/ ListBefore(p, row)
         PROVE  Len(e) <= n
    <2>1. \E i \in 1..Len(s) : s[i] = p
      <3>1. CASE Len(s) = n /\ \A i \in 1..Len(s) : ListBefore(s[i], p)
        <4>1. 1 \in 1..Len(s) /\ s[1] \in C
          BY <1>6, <1>19, <3>1
        <4>2. ListBefore(s[1], p) /\ (s[1] = p \/ ListBefore(p, s[1]))
          BY <1>19, <3>1, <4>1
        <4>3. s[1] \in rows /\ p \in rows
          BY <1>1, <1>5, <4>1
        <4> QED BY <4>1, <4>2, <4>3, BeforeIsOrder
      <3> QED BY <1>2, <1>5, <3>1 DEF Earliest
    <2>2. PICK i \in 1..Len(s) : s[i] = p
      BY <2>1
    <2> DEFINE J == (1..Len(s)) \ {i}
    <2>3. IsFiniteSet(J) /\ Cardinality(J) = Len(s) - 1
      <3>1. IsFiniteSet(J) /\ Cardinality(J) = Cardinality(1..Len(s)) - 1
        BY <1>17, FS_RemoveElement, Zenon
      <3> QED BY <1>17, <3>1
    <2>4. I \in SUBSET J
      BY <1>7, <2>2
    <2> HIDE DEF J
    <2>5. Cardinality(I) <= Cardinality(J)
      BY <2>3, <2>4, FS_Subset
    <2> QED BY <2>3, <2>5, <1>6, <1>9, <1>13
  <1>20. Len(e) > 0
    BY <1>9, <1>13
  <1>21. Exported(e, p, n)
    BY <1>13, <1>14, <1>16, <1>18, <1>19, <1>20 DEF Exported, C
  <1> QED BY <1>4, <1>21

LEMMA StreamReads ==
  ASSUME ReadsInv, pc = "probed", NEW n \in 0..ExportLimit,
         failed' \in BOOLEAN, failed' \/ n = ExportLimit,
         sent' = <<sent[1] \o WithoutFirst(SelectRows(0, n))>>,
         pc' = "exported", UNCHANGED <<rows, req, cursor, scanned, before>>
  PROVE  ReadsInv'
  <1> DEFINE e == sent[1] \o WithoutFirst(SelectRows(0, n))
             C == Candidates(0)
  <1>1. RowsOK /\ ReadOK /\ req \in Requests /\ before \subseteq rows
    BY DEF ReadsInv, ReadOK
  <1>2. n \in Nat /\ ExportLimit \in Nat \ {0}
    BY <1>1, Limits
  <1>3. PICK p \in before :
          /\ sent = << <<p>> >> /\ Wanted(p)
          /\ \A row \in before : Wanted(row) => row = p \/ ListBefore(p, row)
    BY DEF ReadsInv, ProbedOK
  <1>4. C \subseteq rows /\ \A row \in rows : row \in C <=> Wanted(row)
    BY <1>1, WantedCandidates DEF Candidates
  <1>5. p \in C /\ sent[1] = <<p>>
    BY <1>1, <1>3, <1>4
  <1>6. Exported(e, p, n)
    BY <1>1, <1>2, <1>5, Streamed
  <1>7. sent' = <<e>>
    OBVIOUS
  <1> HIDE DEF e, C
  <1>8. e \in Seq(C) /\ Len(e) > 0 /\ e[1] = p
    BY <1>6 DEF Exported, C
  <1>9. sent'[1] = e /\ Len(sent') = 1
    BY <1>7
  <1>10. \A row : Wanted(row)' <=> Wanted(row)
    BY DEF Wanted
  <1>11. RowsOK' /\ ReadOK'
    <2>1. e \in Seq(rows)
      BY <1>4, <1>8
    <2>2. <<e>> \in Seq(Seq(rows))
      BY <2>1
    <2>3. sent' \in Seq(Seq(rows))
      BY <1>7, <2>2, Zenon
    <2> QED BY <1>1, <2>3 DEF RowsOK, ReadOK
  <1>12. ProbedOK'
    <2>1. \A i \in 1..Len(e) : Wanted(e[i])
      BY <1>4, <1>8
    <2> QED BY <1>9, <1>10, <2>1 DEF ProbedOK
  <1>13. ExportWhole'
    <2>1. IsInjective(e)
      <3> SUFFICES ASSUME NEW j \in 1..Len(e), NEW k \in 1..Len(e), e[j] = e[k]
                   PROVE  j = k
        BY <1>8 DEF IsInjective
      <3>1. ~(j < k) /\ ~(k < j)
        BY <1>6 DEF Exported
      <3> QED BY <3>1, <1>8
    <2>2. ASSUME ~failed', NEW row \in before, Wanted(row)
          PROVE  \/ row \in ToSet(e)
                 \/ Cardinality({r \in rows : Wanted(r) /\ ListBefore(r, row)}) >= ExportLimit
      <3>1. n = ExportLimit
        BY <2>2
      <3>2. row \in C
        BY <1>1, <1>4, <2>2
      <3>3. (\E i \in 1..Len(e) : e[i] = row) => row \in ToSet(e)
        BY <1>8 DEF ToSet
      <3> QED BY <1>6, <3>1, <3>2, <3>3 DEF Exported, C
    <2> QED BY <1>9, <2>1, <2>2 DEF ExportWhole, Wanted, ExportLimit
  <1>14. ExportOrdered'
    <2> SUFFICES ASSUME NEW j \in 1..Len(e), NEW k \in 1..Len(e), j < k,
                        ~\E row \in rows \ before : Wanted(row) /\ ListBefore(row, p)
                 PROVE  e[j].ts \div 2 <= e[k].ts \div 2 /\ k <= ExportLimit
      <3>1. DOMAIN e = 1..Len(e) /\ sent'[1] = e /\ e[1] = p
        BY <1>8, <1>9
      <3>2. rows' = rows /\ before' = before /\ ExportLimit' = ExportLimit
        BY DEF ExportLimit
      <3> QED BY <3>1, <3>2, <1>10, Zenon DEF ExportOrdered
    <2>1. ASSUME NEW row \in C
          PROVE  row = p \/ ListBefore(p, row)
      <3>1. row \in rows /\ p \in rows /\ Wanted(row)
        BY <1>1, <1>4
      <3>2. CASE row \in before
        BY <1>3, <3>1, <3>2
      <3>3. CASE row \notin before
        BY <1>1, <3>1, <3>3, BeforeIsOrder
      <3> QED BY <3>2, <3>3
    <2>2. e[j] # e[k] /\ (j = 1 \/ ListBefore(e[j], e[k])) /\ e[j] \in C /\ e[k] \in C
      BY <1>6, <1>8 DEF Exported
    <2>3. ListBefore(e[j], e[k])
      BY <1>8, <2>1, <2>2
    <2>4. e[j].ts \in Int /\ e[k].ts \in Int
      BY <1>1, <1>4, <2>2, RowFields
    <2>5. e[j].ts \div 2 <= e[k].ts \div 2
      BY <2>3, <2>4, TimeOrder
    <2>6. k <= ExportLimit
      <3>1. CASE n = ExportLimit
        <4>1. Len(e) <= n
          BY <1>2, <1>6, <2>1, <3>1 DEF Exported, C
        <4> QED BY <4>1, <3>1, <1>2, <1>8
      <3>2. CASE n # ExportLimit
        <4>1. Len(e) <= n + 1
          BY <1>6 DEF Exported
        <4> QED BY <4>1, <3>2, <1>2, <1>8
      <3> QED BY <3>1, <3>2
    <2> QED BY <2>5, <2>6
  <1> QED BY <1>11, <1>12, <1>13, <1>14
          DEF ReadsInv, PagesOK, CursorOK, Ahead, ListingOnce, ListingComplete

LEMMA ReadsNext ==
  ASSUME ReadsInv, [Next]_vars
  PROVE  ReadsInv'
  <1>1. ASSUME NEW n \in 1..MaxSeq, NEW p \in Arrivals, StorePoint(n, p)
        PROVE  ReadsInv'
    BY <1>1, StoreReads
  <1>2. ASSUME NEW r \in Requests, StartListing(r) \/ StartExport(r)
        PROVE  ReadsInv'
    BY <1>2, StartListingReads, StartExportReads
  <1>3. CASE PageRefused
    BY <1>3, PageRefusedReads
  <1>4. CASE ReadPage
    BY <1>4, ReadPageReads
  <1>5. CASE ProbeExport
    BY <1>5, ProbeReads
  <1>6. ASSUME pc = "probed"
        PROVE  ExportLimit \in Nat
    BY <1>6, Limits DEF ReadsInv, ReadOK
  <1>7. CASE StreamExport
    <2>1. /\ pc = "probed" /\ pc' = "exported"
          /\ sent' = <<sent[1] \o WithoutFirst(SelectRows(0, ExportLimit))>>
          /\ UNCHANGED <<rows, req, cursor, scanned, failed, before>>
      BY <1>7 DEF StreamExport
    <2>2. failed' \in BOOLEAN
      BY <2>1 DEF ReadsInv, ReadOK
    <2>3. ExportLimit \in 0..ExportLimit
      BY <1>6, <2>1
    <2> QED BY <2>1, <2>2, <2>3, StreamReads
  <1>8. CASE StreamFails
    <2>1. PICK n \in 0..ExportLimit - 1 :
            sent' = <<sent[1] \o WithoutFirst(SelectRows(0, n))>>
      BY <1>8 DEF StreamFails
    <2>2. /\ pc = "probed" /\ pc' = "exported" /\ failed' = TRUE
          /\ UNCHANGED <<rows, req, cursor, scanned, before>>
      BY <1>8 DEF StreamFails
    <2>3. n \in 0..ExportLimit
      BY <1>6, <2>2
    <2>4. failed' \in BOOLEAN
      BY <2>2
    <2> QED BY <2>1, <2>2, <2>3, <2>4, StreamReads
  <1>9. CASE UNCHANGED vars
    BY <1>9, UnchangedReads
  <1> QED BY <1>1, <1>2, <1>3, <1>4, <1>5, <1>7, <1>8, <1>9 DEF Next

(* The inductive invariant holds of every reachable state.                 *)
THEOREM ReadsInvariant == Spec => []ReadsInv
  BY InitReads, ReadsNext, PTL DEF Spec

-----------------------------------------------------------------------------
(* What the invariant says of each state.                                  *)

LEMMA TypeOfReads == ReadsInv => TypeOK
  BY DEF ReadsInv, RowsOK, ReadOK, TypeOK

(* recentPointsHandler: the newest rows, and the reader's among them.      *)
Recent(all, asked, I, m, out) ==
  /\ First(all, asked, Pairs(asked, Newer), m)
  /\ I = {i \in 1..Len(all) : all[i].device \in Allowed /\ all[i].user = Reader}
  /\ \E at : Keeps(out, all, I, at)

LEMMA RecentRead ==
  ASSUME RowsOK, NEW r \in Requests, r.device \in Allowed \cup {Nil}
  PROVE  \E all, I : Recent(all, {row \in rows : r.device \in {Nil, row.device}}, I,
                            Min({r.limit, RecentCap}), RecentPoints(r.device, r.limit))
  <1> DEFINE asked == {row \in rows : r.device \in {Nil, row.device}}
             m == Min({r.limit, RecentCap})
             all == NewestRows(r.device, r.limit)
             I == {i \in DOMAIN all : all[i].device \in Allowed /\ all[i].user = Reader}
  <1>1. r.limit \in Nat \ {0} /\ RecentCap \in Nat \ {0}
    BY PointReadsAssumption
  <1>2. m \in Nat
    <2>1. r.limit \in Int /\ RecentCap \in Int
      BY <1>1
    <2>2. m = IF r.limit <= RecentCap THEN r.limit ELSE RecentCap
      BY <2>1, MinOfTwo
    <2> QED BY <1>1, <2>2
  <1>3. Rows(asked)
    BY RowsFinite
  <1>4. {row \in rows : r.device # Nil => row.device = r.device} = asked
    OBVIOUS
  <1>5. all = Take(OrderBy(asked, LAMBDA p, q : ListBefore(q, p)), m)
    <2> HIDE DEF asked, m
    <2> QED BY <1>4 DEF NewestRows, m
  <1>6. RecentPoints(r.device, r.limit) = RowsAt(all, I)
    BY DEF RecentPoints
  <1> HIDE DEF asked, m, all
  <1>7. First(all, asked, Pairs(asked, Newer), m)
    BY <1>2, <1>3, <1>5, SortedByAge, FirstOfSorted
  <1>8. all \in Seq(asked) /\ DOMAIN all = 1..Len(all)
    BY <1>7 DEF First
  <1>9. I \in SUBSET (1..Len(all))
    BY <1>8
  <1>10. I = {i \in 1..Len(all) : all[i].device \in Allowed /\ all[i].user = Reader}
    BY <1>8
  <1> HIDE DEF I
  <1>11. \E at : Keeps(RowsAt(all, I), all, I, at)
    BY <1>8, <1>9, KeptRows
  <1>12. Recent(all, asked, I, m, RecentPoints(r.device, r.limit))
    BY <1>6, <1>7, <1>10, <1>11, Zenon DEF Recent
  <1> QED BY <1>12 DEF asked, m

(* The recent points are the rows at the kept positions.                   *)
LEMMA RecentShown ==
  ASSUME NEW all, NEW asked, NEW I, NEW m, NEW out, Recent(all, asked, I, m, out)
  PROVE  ToSet(out) = {all[i] : i \in I}
  <1>1. PICK at : Keeps(out, all, I, at)
    BY DEF Recent
  <1>2. at \in Seq(I) /\ out \in Seq({all[k] : k \in I}) /\ Len(out) = Len(at) /\ Len(at) \in Nat
    BY <1>1 DEF Keeps
  <1>3. DOMAIN out = 1..Len(at) /\ \A i \in 1..Len(at) : at[i] \in I /\ out[i] = all[at[i]]
    BY <1>1, <1>2 DEF Keeps
  <1>4. \A k \in I : \E i \in 1..Len(at) : at[i] = k
    BY <1>1 DEF Keeps
  <1> QED BY <1>3, <1>4 DEF ToSet

LEMMA OwnReads == ReadsInv => OwnPointsOnly
  <1> SUFFICES ASSUME ReadsInv
               PROVE  OwnPointsOnly
    OBVIOUS
  <1>1. RowsOK /\ ReadOK
    BY DEF ReadsInv
  <1>2. ASSUME NEW k \in DOMAIN sent, NEW i \in 1..Len(sent[k])
        PROVE  sent[k][i].user = Reader
    <2>1. CASE pc \in {"idle", "exporting"}
      BY <1>1, <2>1 DEF ReadOK
    <2>2. CASE pc \in {"listing", "listed"}
      <3>1. req \in Requests /\ sent \in Seq(Seq(rows)) /\ scanned \in Seq(Seq(rows))
            /\ Len(sent) = Len(scanned)
        BY <1>1, <2>2 DEF ReadOK, ReadsInv, PagesOK
      <3>2. k \in Pages
        BY <3>1 DEF Pages
      <3>3. scanned[k] \in Seq(rows)
        BY <3>1, <3>2 DEF Pages
      <3>4. PageOK(k)
        BY <2>2, <3>2 DEF ReadsInv, PagesOK
      <3>5. \A j \in 1..Len(scanned[k]) : Wanted(scanned[k][j])
        BY <3>4 DEF PageOK
      <3>6. sent[k] = Answer(scanned[k])
        BY <3>4 DEF PageOK
      <3>7. \E j \in 1..Len(scanned[k]) : sent[k][i] = scanned[k][j]
        <4>1. \A a \in 1..Len(Answer(scanned[k])) :
                \E j \in 1..Len(scanned[k]) : Answer(scanned[k])[a] = scanned[k][j]
          BY <3>1, <3>3, Answered
        <4> QED BY <3>6, <4>1
      <3> QED BY <3>5, <3>7 DEF Wanted
    <2>3. CASE pc = "probed"
      <3>1. PICK p \in before : sent = << <<p>> >> /\ Wanted(p)
        BY <2>3 DEF ReadsInv, ProbedOK
      <3>2. k = 1
        BY <3>1
      <3>3. sent[k] = <<p>>
        BY <3>1, <3>2
      <3>4. i = 1
        BY <3>3
      <3>5. sent[k][i] = p
        BY <3>3, <3>4
      <3> QED BY <3>1, <3>5 DEF Wanted
    <2>4. CASE pc = "exported"
      <3>1. Len(sent) = 1 /\ \A j \in 1..Len(sent[1]) : Wanted(sent[1][j])
        BY <2>4 DEF ReadsInv, ProbedOK
      <3>2. sent \in Seq(Seq(rows))
        BY <1>1 DEF ReadOK
      <3>3. k = 1
        BY <3>1, <3>2
      <3> QED BY <3>1, <3>3 DEF Wanted
    <2> QED BY <1>1, <2>1, <2>2, <2>3, <2>4 DEF ReadOK
  <1>3. ASSUME NEW k \in DOMAIN sent, NEW row \in ToSet(sent[k])
        PROVE  row.user = Reader
    <2>1. sent[k] \in Seq(rows)
      BY <1>1 DEF ReadOK
    <2>2. PICK i \in 1..Len(sent[k]) : row = sent[k][i]
      BY <2>1 DEF ToSet
    <2> QED BY <1>2, <2>2
  <1>4. ASSUME NEW r \in Requests, NEW row \in ToSet(RecentPoints(r.device, r.limit))
        PROVE  row.user = Reader
    <2>1. CASE r.device \in Allowed \cup {Nil}
      <3>1. PICK all, I : Recent(all, {q \in rows : r.device \in {Nil, q.device}}, I,
                                 Min({r.limit, RecentCap}), RecentPoints(r.device, r.limit))
        BY <1>1, <2>1, RecentRead
      <3>2. ToSet(RecentPoints(r.device, r.limit)) = {all[i] : i \in I}
        BY <3>1, RecentShown
      <3>3. \A i \in I : all[i].user = Reader
        BY <3>1 DEF Recent
      <3> QED BY <3>2, <3>3
    <2>2. CASE r.device \notin Allowed \cup {Nil}
      <3>1. ToSet(<<>>) = {}
        BY DEF ToSet
      <3> QED BY <2>2, <3>1 DEF RecentPoints
    <2> QED BY <2>1, <2>2
  <1> QED BY <1>3, <1>4 DEF OwnPointsOnly

LEMMA NewestReads == ReadsInv => RecentNewest
  <1> SUFFICES ASSUME ReadsInv, NEW r \in Requests, r.device \in Allowed \cup {Nil}
               PROVE  LET asked == {row \in rows : r.device \in {Nil, row.device}}
                          shown == ToSet(RecentPoints(r.device, r.limit))
                      IN  \A row \in {p \in asked : p.user = Reader} \ shown :
                            /\ \A p \in shown : ListBefore(row, p)
                            /\ Cardinality({p \in asked : ListBefore(row, p)})
                                 >= Min({r.limit, RecentCap})
    BY DEF RecentNewest
  <1> DEFINE asked == {row \in rows : r.device \in {Nil, row.device}}
             shown == ToSet(RecentPoints(r.device, r.limit))
             m == Min({r.limit, RecentCap})
  <1>1. RowsOK /\ asked \subseteq rows
    BY DEF ReadsInv
  <1>2. PICK all, I : Recent(all, asked, I, m, RecentPoints(r.device, r.limit))
    BY <1>1, RecentRead
  <1>3. shown = {all[i] : i \in I}
    BY <1>2, RecentShown
  <1> HIDE DEF shown, m
  <1> SUFFICES ASSUME NEW row \in asked, row.user = Reader, row \notin shown
               PROVE  /\ \A p \in shown : ListBefore(row, p)
                      /\ Cardinality({p \in asked : ListBefore(row, p)}) >= m
    BY DEF shown, m
  <1> HIDE DEF asked
  <1>4. First(all, asked, Pairs(asked, Newer), m)
    BY <1>2 DEF Recent
  <1>5. I = {i \in 1..Len(all) : all[i].device \in Allowed /\ all[i].user = Reader}
    BY <1>2 DEF Recent
  <1>6. all \in Seq(asked) /\ Len(all) \in Nat /\ \A i \in 1..Len(all) : all[i] \in asked
    BY <1>4 DEF First
  <1>7. row.device \in Allowed
    <2>1. row \in Row /\ row.user = Owner[row.device]
      BY <1>1 DEF RowsOK
    <2> QED BY <2>1 DEF Allowed, Row
  <1>8. ~\E i \in 1..Len(all) : all[i] = row
    BY <1>3, <1>5, <1>7
  <1>9. Len(all) = m /\ \A i \in 1..Len(all) : <<all[i], row>> \in Pairs(asked, Newer)
    BY <1>4, <1>8 DEF First
  <1>10. \A i \in 1..Len(all) : ListBefore(row, all[i])
    BY <1>6, <1>9 DEF Pairs, Newer
  <1>11. \A p \in shown : ListBefore(row, p)
    BY <1>3, <1>5, <1>10
  <1>12. \A i, j \in 1..Len(all) : all[i] = all[j] => i = j
    <2>1. ASSUME NEW i \in 1..Len(all), NEW j \in 1..Len(all), i < j
          PROVE  all[i] # all[j]
      <3>1. <<all[i], all[j]>> \in Pairs(asked, Newer)
        BY <1>4, <2>1 DEF First
      <3>2. ListBefore(all[j], all[i]) /\ all[i] \in rows /\ all[j] \in rows
        BY <1>1, <1>6, <3>1 DEF Pairs, Newer
      <3> QED BY <1>1, <3>2, BeforeIsOrder
    <2> QED BY <1>6, <2>1
  <1>13. Cardinality({p \in asked : ListBefore(row, p)}) >= m
    <2> DEFINE Q == {p \in asked : ListBefore(row, p)}
    <2>1. IsFiniteSet(Q)
      BY <1>1, RowsFinite, FS_Subset
    <2>2. \A i \in 1..Len(all) : all[i] \in Q
      BY <1>6, <1>10
    <2> HIDE DEF Q
    <2>3. all \in Seq(Q)
      BY <1>6, <2>2
    <2>4. Len(all) <= Cardinality(Q)
      BY <1>12, <2>1, <2>3, AtLeast
    <2>5. Cardinality(Q) \in Nat
      BY <2>1, FS_CardinalityType
    <2>6. Cardinality(Q) >= m
      BY <1>6, <1>9, <2>4, <2>5
    <2> QED BY <2>6 DEF Q
  <1> QED BY <1>11, <1>13

LEMMA EvenGaps ==
  ASSUME NEW q \in Nat \ {0}, NEW G \in SUBSET {q, q + 1}, G # {}
  PROVE  Min(G) > 0 /\ Max(G) <= Min(G) + 1
  <1>1. \E x \in G : \A y \in G : x <= y
    <2>1. CASE q \in G
      BY <2>1
    <2>2. CASE q \notin G
      <3>1. PICK x : x \in G
        OBVIOUS
      <3>2. \A y \in G : y = q + 1
        BY <2>2
      <3> QED BY <3>1, <3>2
    <2> QED BY <2>1, <2>2
  <1>2. \E x \in G : \A y \in G : x >= y
    <2>1. CASE q + 1 \in G
      BY <2>1
    <2>2. CASE q + 1 \notin G
      <3>1. PICK x : x \in G
        OBVIOUS
      <3>2. \A y \in G : y = q
        BY <2>2
      <3> QED BY <3>1, <3>2
    <2> QED BY <2>1, <2>2
  <1>3. Min(G) \in G
    BY <1>1 DEF Min
  <1>4. Max(G) \in G
    BY <1>2 DEF Max
  <1>5. Min(G) \in {q, q + 1} /\ Max(G) \in {q, q + 1}
    BY <1>3, <1>4
  <1> HIDE DEF Min, Max
  <1> QED BY <1>5

LEMMA SpreadReads == ReadsInv => SampleSpread
  <1> SUFFICES ASSUME ReadsInv, pc \in {"listing", "listed"}, req.max # Nil,
                      NEW k \in Pages, scanned[k] # <<>>
               PROVE  LET at == [i \in DOMAIN sent[k] |->
                                   CHOOSE j \in DOMAIN scanned[k] : scanned[k][j] = sent[k][i]]
                          gaps == {at[i + 1] - at[i] : i \in 1..Len(at) - 1}
                      IN  /\ Len(at) = Min({req.max, Len(scanned[k])})
                          /\ Last(at) = Len(scanned[k])
                          /\ req.max > 1 => at[1] = 1
                          /\ gaps # {} => Min(gaps) > 0 /\ Max(gaps) <= Min(gaps) + 1
    BY DEF SampleSpread
  <1> DEFINE s == scanned[k]
             out == sent[k]
             m == req.max
             at == [i \in DOMAIN out |-> CHOOSE j \in DOMAIN s : s[j] = out[i]]
             gaps == {at[i + 1] - at[i] : i \in 1..Len(at) - 1}
  <1>1. req \in Requests /\ scanned \in Seq(Seq(rows))
    BY DEF ReadsInv, ReadOK
  <1>2. m \in Nat \ {0}
    BY <1>1, Limits
  <1>3. s \in Seq(rows)
    BY <1>1 DEF Pages
  <1>4. PageOK(k)
    BY DEF ReadsInv, PagesOK
  <1>5. \A i, j \in 1..Len(s) : s[i] = s[j] => i = j
    BY <1>4 DEF PageOK
  <1>6. out = Downsample(s, m)
    BY <1>4 DEF PageOK, Answer
  <1>7. s # <<>>
    OBVIOUS
  <1> HIDE DEF s, out, m
  <1>8. out \in Seq(rows) /\ \E a : Samples(out, s, m, a)
    BY <1>2, <1>3, <1>6, Downsampled
  <1>9. PICK a : Samples(out, s, m, a)
    BY <1>8
  <1>10. Len(s) \in Nat /\ Len(s) > 0 /\ DOMAIN s = 1..Len(s)
    BY <1>3, <1>7
  <1>11. a \in Seq(1..Len(s)) /\ Len(a) = Len(out) /\ Len(out) \in Nat /\ DOMAIN out = 1..Len(out)
    BY <1>8, <1>9 DEF Samples
  <1>12. at = a
    <2>1. ASSUME NEW i \in 1..Len(out)
          PROVE  (CHOOSE j \in DOMAIN s : s[j] = out[i]) = a[i]
      <3>1. a[i] \in 1..Len(s)
        BY <1>11
      <3>2. s[a[i]] = out[i]
        BY <1>9, <1>11 DEF Samples
      <3>3. \A j \in 1..Len(s) : s[j] = out[i] => j = a[i]
        BY <1>5, <3>1, <3>2
      <3> QED BY <1>10, <3>1, <3>2, <3>3
    <2>2. \A i \in 1..Len(out) : at[i] = a[i]
      BY <2>1, <1>11
    <2>3. DOMAIN at = 1..Len(out) /\ DOMAIN a = 1..Len(out)
      BY <1>11
    <2>4. at = [i \in 1..Len(out) |-> at[i]] /\ a = [i \in 1..Len(out) |-> a[i]]
      BY <1>11
    <2> HIDE DEF at
    <2> QED BY <2>2, <2>4
  <1> HIDE DEF at
  <1>13. Len(at) = Min({m, Len(s)})
    <2>1. m \in Int /\ Len(s) \in Int
      BY <1>2, <1>10
    <2>2. Min({m, Len(s)}) = IF m <= Len(s) THEN m ELSE Len(s)
      BY <2>1, MinOfTwo
    <2>3. Len(a) = IF Len(s) <= m THEN Len(s) ELSE m
      BY <1>9, <1>11 DEF Samples
    <2> QED BY <1>12, <2>1, <2>2, <2>3
  <1>14. Last(at) = Len(s)
    BY <1>9, <1>10, <1>12 DEF Samples, Last
  <1>15. m > 1 => at[1] = 1
    BY <1>9, <1>10, <1>12 DEF Samples
  <1>16. gaps # {} => Min(gaps) > 0 /\ Max(gaps) <= Min(gaps) + 1
    <2>1. PICK q \in Nat \ {0} : \A i \in 1..Len(at) - 1 : at[i + 1] - at[i] \in {q, q + 1}
      BY <1>9, <1>12 DEF Samples
    <2>2. gaps \in SUBSET {q, q + 1}
      BY <2>1
    <2> HIDE DEF gaps
    <2> QED BY <2>2, EvenGaps
  <1> QED BY <1>13, <1>14, <1>15, <1>16 DEF s, out, m, at

-----------------------------------------------------------------------------
(* The reader's answers and the table hold rows of their types.            *)
THEOREM PointReadsTypeCorrect == Spec => []TypeOK
  BY ReadsInvariant, TypeOfReads, PTL

(* pointsHandler: a row that was there when a listing began is on one of   *)
(* its pages, or was passed over by a cursor, which is a number while the  *)
(* pages are in the order of the times, or is behind the cap of ListPoints. *)
THEOREM ListingMissesKnowingly == Spec => []ListingComplete
  <1>1. ReadsInv => ListingComplete
    BY DEF ReadsInv
  <1> QED BY <1>1, ReadsInvariant, PTL

(* pointsHandler: only a row whose number is above that of the end of its  *)
(* page is ever sent again on a later page.                                *)
THEOREM ListingRepeatsNothing == Spec => []ListingOnce
  <1>1. ReadsInv => ListingOnce
    BY DEF ReadsInv
  <1> QED BY <1>1, ReadsInvariant, PTL

(* downsampleRecentPoints: whatever the page and max_points are, the last  *)
(* row of the page is kept, the first too if there is room for two, and    *)
(* the rows left out are spread evenly.                                    *)
THEOREM SamplesSpread == Spec => []SampleSpread
  BY ReadsInvariant, SpreadReads, PTL

(* No listing, export or list of recent points shows another user's rows.  *)
THEOREM ReadersSeeTheirOwn == Spec => []OwnPointsOnly
  BY ReadsInvariant, OwnReads, PTL

(* The export handlers: although the table grows between the probe and the *)
(* stream, no row is written twice and, unless the trailer tells of an     *)
(* error, none that was there is left out but for the limit.               *)
THEOREM ExportsAreWhole == Spec => []ExportWhole
  <1>1. ReadsInv => ExportWhole
    BY DEF ReadsInv
  <1> QED BY <1>1, ReadsInvariant, PTL

(* The export handlers: an export is in time order and within the limit,   *)
(* unless a row stored after the probe comes before the probed one.        *)
THEOREM ExportsAreOrdered == Spec => []ExportOrdered
  <1>1. ReadsInv => ExportOrdered
    BY DEF ReadsInv
  <1> QED BY <1>1, ReadsInvariant, PTL

(* recentPointsHandler: no row of the reader is passed over for an older   *)
(* one, or for fewer rows than were asked for.                             *)
THEOREM RecentAreNewest == Spec => []RecentNewest
  BY ReadsInvariant, NewestReads, PTL
=============================================================================
