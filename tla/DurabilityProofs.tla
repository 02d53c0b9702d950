-------------------------- MODULE DurabilityProofs --------------------------
(***************************************************************************)
(* Theorems about what a crash leaves of the acknowledged points, for      *)
(* every set of points, handlers and batches and every limit.              *)
(*                                                                         *)
(*   AckedIsRecoverable      in order => []AckedRecoverable                *)
(*   RecoveryHoldsAcked      in order => []RecoveredHeld                   *)
(*   ShutdownDrains          Spec => []GracefulDrain, in any order         *)
(*                                                                         *)
(* Nothing in the code orders AppendCanonicalPoints of one request with    *)
(* the Enqueue of another, and a record enqueued out of order is passed by *)
(* the checkpoint (the run CheckpointPassesRecord shows how).  In order    *)
(* is exactly the absence of that: Spec /\ [][EnqueuedInOrder]_vars.       *)
(***************************************************************************)
EXTENDS ServerProofs

Numbers(s) == {s[i].seq : i \in DOMAIN s}

Rising(s) == \A i, j \in DOMAIN s : i < j => s[i].seq < s[j].seq

Before(M, N) == \A m \in M, n \in N : m < n

(* A request enqueues its records only when no other request has older     *)
(* ones still to enqueue.                                                  *)
EnqueuedInOrder ==
  \A g, h \in Handlers :
    HandleEnqueue(g) /\ g # h /\ hpc[h] = "enqueue"
      => Before(Numbers(records[g]), Numbers(records[h]))

-----------------------------------------------------------------------------
(* Sequences of records and their numbers.                                 *)

LEMMA NumbersAre ==
  ASSUME NEW s \in Seq(SpoolRecord)
  PROVE  Numbers(s) \subseteq Nat
  <1>1. \A i \in DOMAIN s : s[i] \in SpoolRecord
    OBVIOUS
  <1> QED BY <1>1 DEF Numbers, SpoolRecord

LEMMA NumbersConcat ==
  ASSUME NEW s \in Seq(SpoolRecord), NEW t \in Seq(SpoolRecord)
  PROVE  Numbers(s \o t) = Numbers(s) \cup Numbers(t)
  <1>1. ASSUME NEW i \in DOMAIN s PROVE s[i].seq \in Numbers(s \o t)
    <2>1. i \in DOMAIN (s \o t) /\ (s \o t)[i] = s[i]
      BY PendingParts
    <2> QED BY <2>1 DEF Numbers
  <1>2. ASSUME NEW i \in DOMAIN t PROVE t[i].seq \in Numbers(s \o t)
    <2>1. Len(s) + i \in DOMAIN (s \o t) /\ (s \o t)[Len(s) + i] = t[i]
      BY PendingParts
    <2> QED BY <2>1 DEF Numbers
  <1>3. ASSUME NEW i \in DOMAIN (s \o t)
        PROVE  (s \o t)[i].seq \in Numbers(s) \cup Numbers(t)
    BY PendingParts DEF Numbers
  <1> QED BY <1>1, <1>2, <1>3 DEF Numbers

LEMMA RisingConcat ==
  ASSUME NEW s \in Seq(SpoolRecord), NEW t \in Seq(SpoolRecord)
  PROVE  Rising(s \o t) <=> Rising(s) /\ Rising(t) /\ Before(Numbers(s), Numbers(t))
  <1> DEFINE st == s \o t
             m  == Len(s)
             n  == Len(t)
  <1>1. /\ m \in Nat /\ n \in Nat /\ DOMAIN s = 1..m /\ DOMAIN t = 1..n
        /\ DOMAIN st = 1..(m + n)
        /\ \A i \in 1..m : st[i] = s[i]
        /\ \A i \in 1..n : st[m + i] = t[i]
        /\ \A i \in 1..(m + n) : i > m => i - m \in 1..n /\ st[i] = t[i - m]
    BY PendingParts
  <1> HIDE DEF st, m, n
  <1>2. ASSUME Rising(st)
        PROVE  Rising(s) /\ Rising(t) /\ Before(Numbers(s), Numbers(t))
    <2>1. Rising(s)
      BY <1>1, <1>2 DEF Rising
    <2>2. ASSUME NEW i \in 1..n, NEW j \in 1..n, i < j PROVE t[i].seq < t[j].seq
      <3>1. m + i \in DOMAIN st /\ m + j \in DOMAIN st /\ m + i < m + j
        BY <1>1, <2>2
      <3> QED BY <1>1, <1>2, <3>1 DEF Rising
    <2>3. ASSUME NEW i \in 1..m, NEW j \in 1..n PROVE s[i].seq < t[j].seq
      <3>1. i \in DOMAIN st /\ m + j \in DOMAIN st /\ i < m + j
        BY <1>1
      <3> QED BY <1>1, <1>2, <3>1 DEF Rising
    <2> QED BY <1>1, <2>1, <2>2, <2>3 DEF Rising, Before, Numbers
  <1>3. ASSUME Rising(s), Rising(t), Before(Numbers(s), Numbers(t))
        PROVE  Rising(st)
    <2> SUFFICES ASSUME NEW i \in 1..(m + n), NEW j \in 1..(m + n), i < j
                 PROVE  st[i].seq < st[j].seq
      BY <1>1 DEF Rising
    <2>1. CASE j <= m
      BY <1>1, <1>3, <2>1 DEF Rising
    <2>2. CASE i <= m /\ j > m
      <3>1. i \in DOMAIN s /\ j - m \in DOMAIN t /\ st[i] = s[i] /\ st[j] = t[j - m]
        BY <1>1, <2>2
      <3> QED BY <1>3, <3>1 DEF Before, Numbers
    <2>3. CASE i > m
      <3>1. /\ i - m \in DOMAIN t /\ j - m \in DOMAIN t /\ i - m < j - m
            /\ st[i] = t[i - m] /\ st[j] = t[j - m]
        BY <1>1, <2>3
      <3> QED BY <1>3, <3>1 DEF Rising
    <2> QED BY <1>1, <2>1, <2>2, <2>3
  <1> QED BY <1>2, <1>3 DEF st

LEMMA SameNumbers ==
  ASSUME NEW s \in Seq(SpoolRecord), NEW t \in Seq(SpoolRecord), Len(s) = Len(t),
         \A i \in 1..Len(s) : s[i].seq = t[i].seq
  PROVE  Numbers(s) = Numbers(t) /\ (Rising(s) <=> Rising(t))
  <1>1. DOMAIN s = 1..Len(s) /\ DOMAIN t = 1..Len(s)
    OBVIOUS
  <1> QED BY <1>1 DEF Numbers, Rising

(* A record put behind a sequence.                                         *)
LEMMA AppendParts ==
  ASSUME NEW s \in Seq(SpoolRecord), NEW r \in SpoolRecord
  PROVE  /\ Append(s, r) = s \o <<r>> /\ <<r>> \in Seq(SpoolRecord)
         /\ Numbers(<<r>>) = {r.seq} /\ Rising(<<r>>)
         /\ \A x : x \in LineSet(Append(s, r)) <=> x \in LineSet(s) \/ x = r
  <1>1. /\ Len(s) \in Nat /\ Append(s, r) \in Seq(SpoolRecord)
        /\ Len(Append(s, r)) = Len(s) + 1
        /\ \A i \in 1..Len(s) : Append(s, r)[i] = s[i]
        /\ Append(s, r)[Len(s) + 1] = r
    OBVIOUS
  <1>2. Append(s, r) = s \o <<r>> /\ <<r>> \in Seq(SpoolRecord)
    OBVIOUS
  <1>3. Numbers(<<r>>) = {r.seq} /\ Rising(<<r>>)
    <2>1. DOMAIN <<r>> = {1} /\ <<r>>[1] = r
      OBVIOUS
    <2> HIDE DEF Numbers
    <2>2. Numbers(<<r>>) = {r.seq}
      BY <2>1 DEF Numbers
    <2> QED BY <2>1, <2>2 DEF Rising
  <1>4. ASSUME NEW x
        PROVE  x \in LineSet(Append(s, r)) <=> x \in LineSet(s) \/ x = r
    <2> DEFINE a == Append(s, r)
               n == Len(s)
    <2> HIDE DEF a, n
    <2>1. LineSet(a) = {a[i] : i \in 1..(n + 1)} /\ LineSet(s) = {s[i] : i \in 1..n}
      BY <1>1 DEF LineSet, a, n
    <2>2. \A i \in 1..n : a[i] = s[i] /\ i \in 1..(n + 1)
      BY <1>1 DEF a, n
    <2>3. a[n + 1] = r /\ n + 1 \in 1..(n + 1) /\ \A i \in 1..(n + 1) : i \in 1..n \/ i = n + 1
      BY <1>1 DEF a, n
    <2>4. x \in LineSet(a) <=> x \in LineSet(s) \/ x = r
      BY <2>1, <2>2, <2>3
    <2> QED BY <2>4 DEF a
  <1> QED BY <1>2, <1>3, <1>4

LEMMA RisingAppend ==
  ASSUME NEW s \in Seq(SpoolRecord), NEW r \in SpoolRecord,
         Rising(s), Before(Numbers(s), {r.seq})
  PROVE  Rising(Append(s, r))
  <1> DEFINE one == <<r>>
  <1>1. one \in Seq(SpoolRecord) /\ Numbers(one) = {r.seq} /\ Rising(one) /\ Append(s, r) = s \o one
    BY AppendParts
  <1> HIDE DEF one
  <1> QED BY <1>1, RisingConcat

LEMMA NumbersOfLines ==
  ASSUME NEW s \in Seq(SpoolRecord)
  PROVE  Numbers(s) = {x.seq : x \in LineSet(s)}
  <1>1. DOMAIN s = 1..Len(s)
    OBVIOUS
  <1> QED BY <1>1 DEF Numbers, LineSet

LEMMA LinesConcat ==
  ASSUME NEW s \in Seq(SpoolRecord), NEW t \in Seq(SpoolRecord)
  PROVE  LineSet(s \o t) = LineSet(s) \cup LineSet(t)
  <1> DEFINE st == s \o t
             m  == Len(s)
             n  == Len(t)
  <1>1. /\ m \in Nat /\ n \in Nat /\ Len(st) = m + n
        /\ \A i \in 1..m : st[i] = s[i]
        /\ \A i \in 1..n : st[m + i] = t[i]
        /\ \A i \in 1..(m + n) : i > m => i - m \in 1..n /\ st[i] = t[i - m]
    BY PendingParts
  <1>2. LineSet(st) = {st[i] : i \in 1..(m + n)} /\ LineSet(s) = {s[i] : i \in 1..m}
        /\ LineSet(t) = {t[i] : i \in 1..n}
    BY <1>1 DEF LineSet
  <1> HIDE DEF st, m, n
  <1>3. \A i \in 1..m : i \in 1..(m + n)
    BY <1>1
  <1>4. \A i \in 1..n : m + i \in 1..(m + n)
    BY <1>1
  <1>5. \A i \in 1..(m + n) : i \in 1..m \/ i > m
    BY <1>1
  <1>6. LineSet(st) = LineSet(s) \cup LineSet(t)
    BY <1>1, <1>2, <1>3, <1>4, <1>5
  <1> QED BY <1>6 DEF st

-----------------------------------------------------------------------------
(* A replay is complete and in order.                                      *)

(* Of a segment, exactly the lines past the checkpoint are read.           *)
LEMMA PastExact ==
  ASSUME NEW lines \in Seq(SpoolRecord)
  PROVE  /\ PastCheckpoint(lines) \in Seq(SpoolRecord)
         /\ \A x : x \in LineSet(PastCheckpoint(lines))
                     <=> x \in LineSet(lines) /\ x.seq > checkpoint
         /\ Rising(lines) => Rising(PastCheckpoint(lines))
  <1>1. PICK past \in [0..Len(lines) -> Seq(LineSet(lines))] :
          /\ past[0] = <<>>
          /\ \A i \in 1..Len(lines) :
               past[i] = IF lines[i].seq > checkpoint THEN Append(past[i - 1], lines[i])
                                                      ELSE past[i - 1]
          /\ PastCheckpoint(lines) = past[Len(lines)]
    BY PastUnfold
  <1> DEFINE n == Len(lines)
             Exact(i) == \A x : x \in LineSet(past[i])
                                  <=> \E j \in 1..i : x = lines[j] /\ x.seq > checkpoint
             Ordered(i) == Rising(lines) => Rising(past[i])
             G == {i \in 0..n : Exact(i) /\ Ordered(i)}
  <1>2. n \in Nat /\ LineSet(lines) \subseteq SpoolRecord /\ \A i \in 1..n : lines[i] \in SpoolRecord
    BY DEF LineSet
  <1>3. \A i \in 0..n : past[i] \in Seq(SpoolRecord)
    BY <1>1, <1>2, SeqMonotonic, Zenon
  <1>4. 0 \in G
    <2>1. LineSet(<<>>) = {} /\ Rising(<<>>)
      BY DEF LineSet, Rising
    <2> QED BY <1>1, <1>2, <2>1
  <1>5. ASSUME NEW i \in 1..n, i - 1 \in G
        PROVE  i \in G
    <2>1. i - 1 \in 0..n /\ past[i - 1] \in Seq(SpoolRecord) /\ lines[i] \in SpoolRecord
      BY <1>2, <1>3
    <2>2. Exact(i - 1) /\ Ordered(i - 1)
      BY <1>5
    <2>3. CASE lines[i].seq > checkpoint
      <3>1. past[i] = Append(past[i - 1], lines[i])
        BY <1>1, <2>3
      <3>2. \A x : x \in LineSet(past[i]) <=> x \in LineSet(past[i - 1]) \/ x = lines[i]
        <4> DEFINE u == past[i - 1]
                   r == lines[i]
        <4> HIDE DEF u, r
        <4>1. \A x : x \in LineSet(Append(u, r)) <=> x \in LineSet(u) \/ x = r
          <5>1. u \in Seq(SpoolRecord) /\ r \in SpoolRecord
            BY <2>1 DEF u, r
          <5> QED BY <5>1, AppendParts
        <4> QED BY <3>1, <4>1 DEF u, r
      <3>3. \A j : j \in 1..i <=> j \in 1..(i - 1) \/ j = i
        BY <1>2
      <3>4. Exact(i)
        BY <2>2, <2>3, <3>2, <3>3
      <3>5. ASSUME Rising(lines) PROVE Rising(past[i])
        <4>1. Before(Numbers(past[i - 1]), {lines[i].seq})
          <5>1. ASSUME NEW x \in LineSet(past[i - 1]) PROVE x.seq < lines[i].seq
            <6>1. PICK j \in 1..(i - 1) : x = lines[j]
              BY <2>2
            <6>2. j \in DOMAIN lines /\ i \in DOMAIN lines /\ j < i
              BY <1>2
            <6> QED BY <3>5, <6>1, <6>2 DEF Rising
          <5> QED BY <2>1, <5>1, NumbersOfLines DEF Before
        <4>2. Rising(past[i - 1])
          BY <2>2, <3>5
        <4> QED BY <2>1, <3>1, <4>1, <4>2, RisingAppend
      <3> QED BY <3>4, <3>5
    <2>4. CASE ~(lines[i].seq > checkpoint)
      <3>1. past[i] = past[i - 1]
        BY <1>1, <2>4
      <3>2. \A j : j \in 1..i <=> j \in 1..(i - 1) \/ j = i
        BY <1>2
      <3> QED BY <2>2, <2>4, <3>1, <3>2
    <2> QED BY <2>3, <2>4
  <1> HIDE DEF G
  <1>6. \A i \in 0..n : i \in G
    BY <1>2, <1>4, <1>5, Climb, Zenon
  <1>7. n \in G /\ n \in 0..n
    BY <1>2, <1>6
  <1>8. Exact(n) /\ Ordered(n)
    BY <1>7 DEF G
  <1>9. \A x : x \in LineSet(lines) <=> \E j \in 1..n : x = lines[j]
    BY DEF LineSet
  <1>10. PastCheckpoint(lines) = past[n] /\ past[n] \in Seq(SpoolRecord)
    BY <1>1, <1>3, <1>7
  <1> HIDE DEF n
  <1> QED BY <1>8, <1>9, <1>10

(* Of the spool, exactly the records past the checkpoint, in ascending     *)
(* order as long as no number was used twice.                              *)
LEMMA ReplayExact ==
  ASSUME SpoolTypeOK, Ascending, DOMAIN segments \subseteq 1..MaxSeq
  PROVE  /\ \A x : x \in LineSet(ReplayAfterCheckpoint) <=> x \in Spooled /\ x.seq > checkpoint
         /\ ~reused => Rising(ReplayAfterCheckpoint)
  <1>1. PICK read \in [0..MaxSeq -> Seq(Spooled)] :
          /\ read[0] = <<>>
          /\ \A s \in 1..MaxSeq :
               read[s] = IF s \in DOMAIN segments
                         THEN read[s - 1] \o PastCheckpoint(segments[s].lines)
                         ELSE read[s - 1]
          /\ ReplayAfterCheckpoint = read[MaxSeq]
    BY ReplayUnfold
  <1> DEFINE Upto(s) == {x \in Spooled : /\ x.seq > checkpoint
                                         /\ \E t \in DOMAIN segments : t <= s /\ x \in LinesOf(t)}
             Exact(s) == \A x : x \in LineSet(read[s]) <=> x \in Upto(s)
             Ordered(s) == ~reused => Rising(read[s])
             G == {s \in 0..MaxSeq : Exact(s) /\ Ordered(s)}
  <1>2. /\ MaxSeq \in Nat
        /\ \A s \in DOMAIN segments :
             /\ s \in Nat /\ segments[s].lines \in Seq(SpoolRecord)
             /\ LinesOf(s) = LineSet(segments[s].lines)
             /\ LinesOf(s) \subseteq SpoolRecord
             /\ LinesOf(s) \subseteq Spooled
    <2>1. ASSUME NEW s \in DOMAIN segments
          PROVE  /\ s \in Nat /\ segments[s].lines \in Seq(SpoolRecord)
                 /\ LinesOf(s) = LineSet(segments[s].lines)
                 /\ LinesOf(s) \subseteq SpoolRecord
      <3>1. s \in Nat /\ segments[s].lines \in Seq(SpoolRecord)
        BY FileNumbers DEF SpoolTypeOK
      <3> QED BY <3>1 DEF LinesOf, LineSet
    <2> QED BY <2>1, SpoolAssumption DEF Spooled
  <1>3. Spooled \subseteq SpoolRecord
    BY <1>2 DEF Spooled
  <1>4. \A s \in 0..MaxSeq : read[s] \in Seq(SpoolRecord)
    BY <1>1, <1>3, SeqMonotonic, Zenon
  <1>5. 0 \in G
    <2>1. LineSet(<<>>) = {} /\ Rising(<<>>)
      BY DEF LineSet, Rising
    <2>2. Upto(0) = {}
      <3>1. \A t \in DOMAIN segments : ~(t <= 0)
        BY DEF SpoolTypeOK
      <3> QED BY <3>1
    <2> HIDE DEF Upto
    <2> QED BY <1>1, <1>2, <2>1, <2>2
  <1>6. ASSUME NEW s \in 1..MaxSeq, s - 1 \in G
        PROVE  s \in G
    <2> DEFINE u == read[s - 1]
               new == PastCheckpoint(segments[s].lines)
    <2>1. s - 1 \in 0..MaxSeq /\ u \in Seq(SpoolRecord) /\ Exact(s - 1) /\ Ordered(s - 1)
      BY <1>2, <1>4, <1>6
    <2>2. \A t \in DOMAIN segments : t <= s <=> t <= s - 1 \/ t = s
      BY <1>2
    <2>3. CASE s \in DOMAIN segments
      <3>1. read[s] = u \o new
        BY <1>1, <2>3
      <3>2. /\ new \in Seq(SpoolRecord)
            /\ \A x : x \in LineSet(new) <=> x \in LinesOf(s) /\ x.seq > checkpoint
            /\ Rising(segments[s].lines) => Rising(new)
        BY <1>2, <2>3, PastExact
      <3> HIDE DEF new, u
      <3>3. LineSet(read[s]) = LineSet(u) \cup LineSet(new)
        BY <2>1, <3>1, <3>2, LinesConcat
      <3>4. \A x : x \in Upto(s) <=> x \in Upto(s - 1) \/ (x \in LinesOf(s) /\ x.seq > checkpoint)
        BY <1>2, <2>2, <2>3
      <3>5. LineSet(u) = Upto(s - 1)
        BY <2>1 DEF u
      <3>6. Exact(s)
        <4> HIDE DEF Upto
        <4> QED BY <3>2, <3>3, <3>4, <3>5
      <3>7. ASSUME ~reused PROVE Rising(read[s])
        <4>1. Rising(segments[s].lines)
          <5>1. DOMAIN segments[s].lines = 1..Len(segments[s].lines)
            BY <1>2, <2>3
          <5> QED BY <2>3, <3>7, <5>1 DEF Ascending, Rising
        <4>2. Before(Numbers(u), Numbers(new))
          <5>1. ASSUME NEW x \in LineSet(u), NEW y \in LineSet(new) PROVE x.seq < y.seq
            <6>1. PICK t \in DOMAIN segments : t <= s - 1 /\ x \in LinesOf(t)
              BY <3>5
            <6>2. PICK i \in 1..Len(segments[t].lines) : x = segments[t].lines[i]
              BY <1>2, <6>1 DEF LineSet
            <6>3. PICK j \in 1..Len(segments[s].lines) : y = segments[s].lines[j]
              BY <1>2, <2>3, <3>2 DEF LineSet
            <6>4. t < s
              BY <1>2, <6>1
            <6> QED BY <2>3, <3>7, <6>2, <6>3, <6>4 DEF Ascending
          <5> QED BY <2>1, <3>2, <5>1, NumbersOfLines DEF Before
        <4>3. Rising(u)
          BY <2>1, <3>7 DEF u
        <4> QED BY <2>1, <3>1, <3>2, <4>1, <4>2, <4>3, RisingConcat
      <3> QED BY <3>6, <3>7
    <2>4. CASE s \notin DOMAIN segments
      <3>1. read[s] = read[s - 1]
        BY <1>1, <2>4
      <3>2. Upto(s) = Upto(s - 1)
        BY <2>2, <2>4
      <3> HIDE DEF Upto
      <3> QED BY <2>1, <3>1, <3>2
    <2> QED BY <2>3, <2>4
  <1> HIDE DEF G
  <1>7. \A s \in 0..MaxSeq : s \in G
    BY <1>2, <1>5, <1>6, Climb, Zenon
  <1>8. Exact(MaxSeq) /\ Ordered(MaxSeq)
    BY <1>2, <1>7 DEF G
  <1>9. \A x : x \in Upto(MaxSeq) <=> x \in Spooled /\ x.seq > checkpoint
    <2>1. \A t \in DOMAIN segments : t <= MaxSeq
      BY <1>2
    <2> QED BY <2>1 DEF Spooled
  <1> HIDE DEF Upto
  <1> QED BY <1>1, <1>8, <1>9

-----------------------------------------------------------------------------
(* What a step leaves of the spool, as long as the power does not fail.    *)

LEMMA GrowsSpooled ==
  ASSUME SpoolTypeOK, SpoolTypeOK', Grows, NEW r \in Spooled
  PROVE  r \in Spooled'
  <1>1. PICK s \in DOMAIN segments : r \in LinesOf(s)
    BY DEF Spooled
  <1>2. PICK i \in 1..Len(segments[s].lines) : r = segments[s].lines[i]
    BY <1>1, FileNumbers DEF LinesOf
  <1>3. /\ s \in DOMAIN segments' /\ segments'[s].lines \in Seq(SpoolRecord)
        /\ Len(segments'[s].lines) \in Nat
    <2>1. s \in DOMAIN segments'
      BY <1>1 DEF Grows
    <2>2. segments' \in [DOMAIN segments' -> File]
      BY DEF SpoolTypeOK
    <2>3. segments'[s] \in File
      BY <2>1, <2>2
    <2> QED BY <2>1, <2>3 DEF File
  <1>4. i \in DOMAIN segments'[s].lines /\ segments'[s].lines[i] = r
    <2>1. Len(segments[s].lines) \in Nat /\ Len(segments[s].lines) <= Len(segments'[s].lines)
          /\ segments'[s].lines[i] = segments[s].lines[i]
      BY <1>1, <1>2, FileNumbers DEF Grows
    <2> QED BY <1>2, <1>3, <2>1
  <1> QED BY <1>3, <1>4 DEF Spooled, LinesOf

(* Compaction spares every line past the checkpoint.                       *)
LEMMA RemoveSpooled ==
  ASSUME SpoolTypeOK, NEW stop, RemoveSegments(CompactedBefore(stop)),
         NEW r \in Spooled, r.seq \in Nat, r.seq > checkpoint
  PROVE  r \in Spooled'
  <1>1. PICK s \in DOMAIN segments : r \in LinesOf(s)
    BY DEF Spooled
  <1>2. ~(r.seq <= checkpoint)
    BY DEF SpoolTypeOK
  <1>3. s \notin CompactedBefore(stop)
    BY <1>1, <1>2 DEF CompactedBefore, Committed
  <1>4. s \in DOMAIN segments' /\ segments'[s] = segments[s]
    BY <1>3 DEF RemoveSegments
  <1> QED BY <1>1, <1>4 DEF Spooled, LinesOf

LEMMA SpooledStays ==
  ASSUME SpoolInv, LogInv, SyncInv, SpoolMove, powerLosses' = powerLosses,
         NEW r \in Spooled, r.seq > checkpoint
  PROVE  r \in Spooled'
  <1>0. SpoolTypeOK /\ SpoolTypeOK' /\ powerLosses \in Nat
    BY SpoolMoveKeeps DEF SpoolInv, SpoolTypeOK
  <1>1. ASSUME UNCHANGED segments PROVE r \in Spooled'
    BY <1>1 DEF Spooled, LinesOf
  <1>2. ASSUME Grows PROVE r \in Spooled'
    BY <1>0, <1>2, GrowsSpooled
  <1>3. ASSUME NEW stop, RemoveSegments(CompactedBefore(stop)) PROVE r \in Spooled'
    <2>1. r.seq \in Nat
      BY SpooledFresh DEF SpoolRecord
    <2> QED BY <1>0, <1>3, <2>1, RemoveSpooled
  <1>4. ASSUME NEW c \in Callers, AppendLine(c) PROVE r \in Spooled'
    <2>1. PICK s \in WritableSegments, sync \in SyncChoices :
            segments' = WithFile(s, WriteLine(s, sync))
      BY <1>4 DEF AppendLine
    <2>2. todo # <<>> /\ sync \in BOOLEAN
      BY <1>4, SyncChoicesType DEF AppendLine
    <2>3. Grows
      BY <2>1, <2>2, LineGrows
    <2> QED BY <1>2, <2>3
  <1>5. ASSUME NEW c \in Callers, AppendFails(c) PROVE r \in Spooled'
    BY <1>0, <1>2, <1>5, AppendFailsInv
  <1>6. CASE SpoolClose
    <2>1. CASE active # 0 /\ unsynced
      <3>1. active \in DOMAIN segments /\ segments' = [segments EXCEPT ![active] = Synced(segments[active])]
        BY <1>0, <1>6, <2>1 DEF SpoolClose, SpoolTypeOK
      <3>2. \A s \in DOMAIN segments : s \in DOMAIN segments' /\ segments'[s].lines = segments[s].lines
        BY <1>0, <3>1, FileNumbers, SyncedFile
      <3> QED BY <3>2 DEF Spooled, LinesOf
    <2>2. CASE ~(active # 0 /\ unsynced)
      BY <1>1, <1>6, <2>2 DEF SpoolClose
    <2> QED BY <2>1, <2>2
  <1>7. CASE Compact \/ CompactFails
    BY <1>1, <1>3, <1>7 DEF Compact, CompactFails
  <1>8. CASE SpoolPowerLoss
    BY <1>0, <1>8 DEF SpoolPowerLoss
  <1>9. CASE StoreFault
    BY <1>1, <1>9 DEF StoreFault, diskVars
  <1> QED BY <1>1, <1>4, <1>5, <1>6, <1>7, <1>8, <1>9
      DEF SpoolMove, SpoolNext, SpoolStep, AppendBegin, AppendReturn, CheckpointTruncate,
          CheckpointWrite, CheckpointWriteFails, CheckpointCurrent, CheckpointRefused,
          SpoolRestart, diskVars, spoolVars

(* The line that is written is there.                                      *)
LEMMA LineSpooled ==
  ASSUME SpoolInv, WritesLine
  PROVE  NewRecord(nextSeq, Head(todo)) \in Spooled'
  <1>1. PICK s \in WritableSegments, sync \in BOOLEAN : segments' = WithFile(s, WriteLine(s, sync))
    BY DEF WritesLine
  <1> DEFINE old == FileAt(s).lines
             new == NewRecord(nextSeq, Head(todo))
  <1>2. segments'[s].lines = Append(old, new) /\ s \in DOMAIN segments'
    <2>1. segments'[s] = WriteLine(s, sync)
      BY <1>1, LineGrows DEF WritesLine
    <2>2. s \in DOMAIN segments'
      BY <1>1 DEF WithFile
    <2> QED BY <2>1, <2>2, WriteLineType DEF WritesLine, SpoolInv
  <1>3. old \in Seq(SpoolRecord) /\ new \in SpoolRecord
    BY FileAtType, WriteLineType DEF SpoolInv, File, WritesLine
  <1> HIDE DEF old, new
  <1>4. Len(old) + 1 \in DOMAIN segments'[s].lines /\ segments'[s].lines[Len(old) + 1] = new
    BY <1>2, <1>3
  <1>5. new \in Spooled'
    BY <1>2, <1>4 DEF Spooled, LinesOf
  <1> QED BY <1>5 DEF new

(* The segments that a replay walks are all there are.                     *)
SegmentsNamed ==
  /\ DOMAIN segments \subseteq 1..MaxSeq
  /\ nextSeq + Len(todo) <= MaxSeq + 1

LEMMA NamedStep ==
  ASSUME SpoolInv, SegmentsNamed, SpoolMove
  PROVE  SegmentsNamed'
  <1>0. /\ SpoolTypeOK /\ MaxSeq \in Nat /\ nextSeq \in Nat \ {0} /\ todo \in Seq(Points)
        /\ Len(todo) \in Nat
    BY SpoolAssumption DEF SpoolInv, SpoolTypeOK
  <1>1. CASE StoreFault
    BY <1>1 DEF StoreFault, diskVars, managerVars, callVars, SegmentsNamed
  <1>2. CASE [SpoolNext]_spoolVars
    <2>1. LogMove
      BY <1>0, <1>2, LogMoves
    <2>2. ASSUME Lessens PROVE DOMAIN segments' \subseteq 1..MaxSeq
      BY <2>2 DEF Lessens, Shrinks, SegmentsNamed
    <2>3. ASSUME WritesLine \/ WritesNoLine PROVE DOMAIN segments' \subseteq 1..MaxSeq
      <3>1. todo # <<>> /\ \E s \in WritableSegments : \E f : segments' = WithFile(s, f)
        BY <2>3 DEF WritesLine, WritesNoLine
      <3>2. nextSeq \in 1..MaxSeq
        BY <1>0, <3>1 DEF SegmentsNamed
      <3>3. WritableSegments \subseteq DOMAIN segments \cup {nextSeq}
        BY <1>0 DEF WritableSegments, SpoolTypeOK
      <3> QED BY <3>1, <3>2, <3>3 DEF WithFile, SegmentsNamed
    <2>4. DOMAIN segments' \subseteq 1..MaxSeq
      BY <2>1, <2>2, <2>3 DEF LogMove
    <2>5. nextSeq' + Len(todo') <= MaxSeq + 1
      <3>1. CASE UNCHANGED <<nextSeq, todo>>
        BY <3>1 DEF SegmentsNamed
      <3>2. CASE nextSeq' \in {1, nextSeq} /\ todo' = <<>>
        <4>1. Len(todo') = 0
          BY <3>2
        <4>2. 1 <= nextSeq /\ nextSeq <= MaxSeq + 1
          BY <1>0 DEF SegmentsNamed
        <4>3. nextSeq' \in Nat /\ nextSeq' <= MaxSeq + 1
          BY <1>0, <3>2, <4>2
        <4>4. nextSeq' + 0 <= MaxSeq + 1
          BY <4>3
        <4> QED BY <4>1, <4>4, Zenon
      <3>3. CASE todo # <<>> /\ todo' = Tail(todo) /\ nextSeq' = nextSeq + 1
        <4>1. Len(todo') = Len(todo) - 1
          BY <1>0, <3>3
        <4> QED BY <1>0, <3>3, <4>1 DEF SegmentsNamed
      <3>4. ASSUME NEW c \in Callers, NEW pts \in Batches, AppendBegin(c, pts)
            PROVE  nextSeq' + Len(todo') <= MaxSeq + 1
        BY <3>4 DEF AppendBegin, managerVars
      <3> QED BY <1>2, <3>1, <3>2, <3>3, <3>4
          DEF SpoolNext, SpoolStep, AppendLine, AppendReturn, AppendFails, AppendOpenFails,
              AppendWriteFails, AppendSyncFails, CheckpointTruncate, CheckpointWrite,
              CheckpointWriteFails, CheckpointCurrent, CheckpointRefused, Compact, CompactFails,
              SpoolClose, SpoolRestart, SpoolPowerLoss, NewManager, Release, managerVars,
              callVars, spoolVars
    <2> QED BY <2>4, <2>5 DEF SegmentsNamed
  <1> QED BY <1>1, <1>2 DEF SpoolMove

-----------------------------------------------------------------------------
(* What the durability argument needs to know of every reachable state.    *)

(* A checkpoint write under way stores the last number of the batch.       *)
StoresBatch == fpc = "write" => holder = FlusherCaller /\ target = MaxSeqOf(batch)

(* A process starts with nothing under way, and serves only after replay.  *)
StartsEmpty == phase \in {"down", "read"} => done = <<>> /\ AllIdle

ReplayedFirst == phase \in {"final", "finish"} \/ Started => replay = <<>>

Ground == checkpoint <= highSeq /\ StoresBatch /\ SegmentsNamed /\ StartsEmpty /\ ReplayedFirst

LEMMA GroundInit == Init => Ground
  <1> SUFFICES ASSUME Init PROVE Ground
    OBVIOUS
  <1>1. /\ segments = [s \in {} |-> EmptyFile] /\ checkpoint = 0 /\ highSeq = 0 /\ nextSeq = 1
        /\ todo = <<>> /\ done = <<>> /\ fpc = "idle" /\ phase = "down" /\ replay = <<>> /\ AllIdle
    BY DEF Init, SpoolInit, FlusherInit, AllIdle
  <1>2. DOMAIN segments = {} /\ Len(todo) = 0
    BY <1>1
  <1>3. SegmentsNamed
    BY <1>1, <1>2, SpoolAssumption DEF SegmentsNamed
  <1> QED BY <1>1, <1>3 DEF Ground, StoresBatch, StartsEmpty, ReplayedFirst, Started

(* The checkpoint moves only where the flusher writes it.                  *)
LEMMA CheckpointStays ==
  ASSUME [Next]_vars, ~(FlusherRuns /\ FlushCheckpointWrite)
  PROVE  checkpoint' = checkpoint
  <1>1. CASE UNCHANGED vars \/ Ended \/ Recover
    BY <1>1 DEF Ended, Recover, Boot, RecoverRead, RecoverEnqueue, RecoverRetry, RecoverFinal,
                RecoverFinish, vars, pipeVars, spoolVars, diskVars
  <1>2. ASSUME NEW h \in Handlers, HandleRequest(h) \/ HandlerStep(h)
        PROVE  checkpoint' = checkpoint
    BY <1>2 DEF HandleRequest, HandlerStep, HandleAppend, AppendBegin, AppendLine, AppendReturn,
                HandleAppendFails, AppendFails, AppendOpenFails, AppendWriteFails, AppendSyncFails,
                HandleEnqueue, HandleEnqueueRefused, HandleRespond, pipeVars, spoolVars, diskVars
  <1>3. CASE FlusherRuns
    BY <1>3 DEF FlusherRuns, FlusherStep, PassStats, FlushDrain, FlushInsert, FlushInsertFails,
                FlushCheckpoint, CheckpointCurrent, CheckpointTruncate, CheckpointRefused,
                FlushCompact, Compact, CompactFails, FlushAgain, FlushRequeue, spoolVars, diskVars
  <1>4. CASE FlusherWakes \/ Signal \/ ShutdownReturns \/ Exit \/ WalSyncs \/ Crash \/ PowerLoss
    BY <1>4 DEF FlusherWakes, Signal, ShutdownReturns, Exit, SpoolClose, WalSyncs, Crash,
                SpoolRestart, PowerLoss, SpoolPowerLoss, pipeVars, spoolVars, diskVars
  <1> QED BY <1>1, <1>2, <1>3, <1>4 DEF Next

(* What a checkpoint write stores.                                         *)
LEMMA CheckpointStores ==
  ASSUME ServerInv, Ground, FlushCheckpointWrite
  PROVE  /\ checkpoint' \in {checkpoint, MaxSeqOf(batch)}
         /\ MaxSeqOf(batch) \in 1..highSeq
         /\ UNCHANGED <<segments, highSeq, queue, batch, db>> /\ done' = <<>>
  <1>1. /\ fpc = "write" /\ checkpoint' \in {checkpoint, target} /\ done' = <<>>
        /\ UNCHANGED <<segments, highSeq, queue, batch, db>>
    BY DEF FlushCheckpointWrite, CheckpointWrite, CheckpointWriteFails, Release, spoolHist,
           bufferVars, storeVars
  <1>2. target = MaxSeqOf(batch)
    BY <1>1 DEF Ground, StoresBatch
  <1>3. MaxSeqOf(batch) \in 1..highSeq
    BY <1>1, MaxSeqInLog
       DEF ServerInv, QueueInv, Typed, LogOK, SpoolInv, SpoolTypeOK, Numbered, Working
  <1> QED BY <1>1, <1>2, <1>3

LEMMA StoresBatchStep ==
  ASSUME ServerInv, StoresBatch, [Next]_vars
  PROVE  StoresBatch'
  <1> SUFFICES ASSUME fpc' = "write"
               PROVE  holder' = FlusherCaller /\ target' = MaxSeqOf(batch)'
    BY DEF StoresBatch
  <1>1. CASE FlusherRuns /\ FlushCheckpoint
    <2>1. batch' = batch /\ CheckpointTruncate(FlusherCaller, MaxSeqOf(batch))
      BY <1>1 DEF FlushCheckpoint, GoTo
    <2> QED BY <2>1 DEF CheckpointTruncate
  <1>2. ASSUME fpc = "write", UNCHANGED <<holder, target, batch>>
        PROVE  holder' = FlusherCaller /\ target' = MaxSeqOf(batch)'
    BY <1>2 DEF StoresBatch
  <1>3. CASE UNCHANGED vars \/ Ended
    BY <1>2, <1>3 DEF Ended, vars, pipeVars, spoolVars, callVars, flusherVars
  <1>4. CASE Recover
    <2>1. fpc = "write" /\ UNCHANGED <<holder, target, batch>>
      BY <1>4 DEF Recover, Boot, RecoverRead, RecoverEnqueue, RecoverRetry, RecoverFinal,
                  RecoverFinish, EnqueueChunk, FlushNow, StartPass, pipeVars, spoolVars, callVars,
                  flusherVars
    <2> QED BY <1>2, <2>1
  <1>5. ASSUME NEW h \in Handlers, HandleRequest(h) \/ HandlerStep(h)
        PROVE  holder' = FlusherCaller /\ target' = MaxSeqOf(batch)'
    <2>1. fpc = "write" /\ UNCHANGED batch
      BY <1>5 DEF HandleRequest, HandlerStep, HandleAppend, HandleAppendFails, HandleEnqueue,
                  HandleEnqueueRefused, HandleRespond, pipeVars, flusherVars
    <2>2. holder \notin {h, NoCaller}
      BY <2>1, SpoolAssumption, ServerAssumption, FlusherAssumption DEF StoresBatch
    <2>3. UNCHANGED <<holder, target>>
      BY <1>5, <2>2 DEF HandleRequest, HandlerStep, HandleAppend, AppendBegin, AppendLine,
                        AppendReturn, HandleAppendFails, AppendFails, AppendOpenFails,
                        AppendWriteFails, AppendSyncFails, HandleEnqueue, HandleEnqueueRefused,
                        HandleRespond, pipeVars, spoolVars, callVars
    <2> QED BY <1>2, <2>1, <2>3
  <1>6. CASE FlusherRuns /\ ~FlushCheckpoint
    <2>1. fpc' \in {"idle", "stopped", "stats", "drain", "insert", "checkpoint", "compact", "again",
                    "requeue"}
      BY <1>6 DEF FlusherRuns, FlusherStep, PassStats, FlushDrain, FlushInsert, FlushInsertFails,
                  FlushCheckpointWrite, FlushCompact, FlushAgain, FlushRequeue, GoTo, EndPass
    <2> QED BY <2>1
  <1>7. CASE FlusherWakes \/ Signal \/ ShutdownReturns \/ Exit \/ WalSyncs
    <2>1. fpc = "write" /\ UNCHANGED <<holder, target, batch>>
      BY <1>7 DEF FlusherWakes, TimerTick, TriggerReceived, StopReceived, StartPass, Signal,
                  ShutdownReturns, Exit, SpoolClose, WalSyncs, pipeVars, spoolVars, callVars,
                  flusherVars
    <2> QED BY <1>2, <2>1
  <1>8. CASE Crash \/ PowerLoss
    BY <1>8 DEF Crash, PowerLoss, NewProcess, FlusherReset
  <1> QED BY <1>1, <1>3, <1>4, <1>5, <1>6, <1>7, <1>8 DEF Next

LEMMA StartsEmptyStep ==
  ASSUME ServerInv, Between, StartsEmpty, [Next]_vars
  PROVE  StartsEmpty'
  <1> SUFFICES ASSUME phase' \in {"down", "read"}
               PROVE  done' = <<>> /\ AllIdle'
    BY DEF StartsEmpty
  <1>1. ASSUME phase \in {"down", "read"}, UNCHANGED <<done, hpc>>
        PROVE  done' = <<>> /\ AllIdle'
    BY <1>1 DEF StartsEmpty, AllIdle
  <1>2. CASE UNCHANGED vars \/ Ended \/ WalSyncs
    BY <1>1, <1>2 DEF Ended, WalSyncs, vars, pipeVars, spoolVars, callVars, handlerVars
  <1>3. CASE Recover
    <2>1. phase \in {"down", "read"} /\ UNCHANGED <<done, hpc>>
      BY <1>3 DEF Recover, Boot, RecoverRead, RecoverEnqueue, RecoverRetry, RecoverFinal,
                  RecoverFinish, EnqueueChunk, pipeVars, spoolVars, callVars, handlerVars
    <2> QED BY <1>1, <2>1
  <1>4. ASSUME NEW h \in Handlers, HandleRequest(h) \/ HandlerStep(h)
        PROVE  FALSE
    BY <1>4 DEF HandleRequest, HandlerStep, HandleAppend, HandleAppendFails, HandleEnqueue,
                HandleEnqueueRefused, HandleRespond, HandlerAt, Started
  <1>5. CASE FlusherRuns
    <2>1. phase = "read" /\ fpc # "idle"
      BY <1>5 DEF FlusherRuns, Running, FlusherStep, PassStats, FlushDrain, FlushInsert,
                  FlushInsertFails, FlushCheckpoint, FlushCheckpointWrite, FlushCompact,
                  FlushAgain, FlushRequeue
    <2> QED BY <2>1 DEF Between
  <1>6. CASE FlusherWakes \/ Signal \/ ShutdownReturns \/ Exit
    BY <1>6 DEF FlusherWakes, Started, Signal, ShutdownReturns, Exit
  <1>7. CASE Crash \/ PowerLoss
    BY <1>7 DEF Crash, PowerLoss, NewProcess, SpoolRestart, SpoolPowerLoss, NewManager, AllIdle
  <1> QED BY <1>2, <1>3, <1>4, <1>5, <1>6, <1>7 DEF Next

LEMMA ReplayedFirstStep ==
  ASSUME ServerInv, ReplayedFirst, [Next]_vars
  PROVE  ReplayedFirst'
  <1> DEFINE Through == phase \in {"final", "finish"} \/ Started
  <1> SUFFICES ASSUME Through' PROVE replay' = <<>>
    BY DEF ReplayedFirst
  <1>1. ASSUME Through, UNCHANGED replay PROVE replay' = <<>>
    BY <1>1 DEF ReplayedFirst
  <1>2. CASE UNCHANGED vars \/ Ended
    BY <1>1, <1>2 DEF Ended, vars, Started
  <1>3. CASE EnqueueChunk /\ UNCHANGED handlerVars
    <2>1. replay \in Seq(SpoolRecord) /\ Len(replay) \in Nat
      BY DEF ServerInv, LogOK, ReplayTyped
    <2>2. ChunkSize = Len(replay) /\ replay' = SubSeq(replay, ChunkSize + 1, Len(replay))
      BY <1>3 DEF EnqueueChunk, Started
    <2> QED BY <2>1, <2>2
  <1>4. CASE RecoverRead
    BY <1>4 DEF RecoverRead, Started
  <1>5. CASE Recover /\ ~EnqueueChunk /\ ~RecoverRead
    BY <1>1, <1>5 DEF Recover, Boot, RecoverEnqueue, RecoverRetry, RecoverFinal, RecoverFinish,
                      Started
  <1>6. ASSUME NEW h \in Handlers, HandleRequest(h) \/ HandlerStep(h)
        PROVE  Through /\ UNCHANGED replay
    BY <1>6 DEF HandleRequest, HandlerStep, HandleAppend, HandleAppendFails, HandleEnqueue,
                HandleEnqueueRefused, HandleRespond, HandlerAt
  <1>7. CASE FlusherWakes \/ FlusherRuns \/ Signal \/ ShutdownReturns \/ Exit \/ WalSyncs
    BY <1>1, <1>7 DEF FlusherWakes, FlusherRuns, Signal, ShutdownReturns, Exit, WalSyncs, Started
  <1>8. CASE Crash \/ PowerLoss
    BY <1>8 DEF Crash, PowerLoss, NewProcess
  <1>9. CASE Recover
    BY <1>3, <1>4, <1>5, <1>9 DEF Recover, RecoverEnqueue, RecoverRetry, Boot, RecoverFinal,
                                  RecoverFinish, Started
  <1> QED BY <1>1, <1>2, <1>6, <1>7, <1>8, <1>9 DEF Next

LEMMA GroundStep ==
  ASSUME ServerInv, RecoveryInv, Ground, [Next]_vars
  PROVE  Ground'
  <1>1. /\ SpoolMove /\ highSeq \in Nat /\ highSeq' \in Nat /\ highSeq <= highSeq'
        /\ checkpoint \in Nat
    <2>1. SpoolMove
      BY SpoolMoves DEF ServerInv, QueueInv, LogOK, SpoolInv, SpoolTypeOK
    <2> QED BY <2>1, SpoolMoveKeeps DEF ServerInv, LogOK, SpoolInv, SpoolTypeOK
  <1>2. checkpoint' <= highSeq'
    <2>1. CASE FlusherRuns /\ FlushCheckpointWrite
      BY <1>1, <2>1, CheckpointStores DEF Ground
    <2>2. CASE ~(FlusherRuns /\ FlushCheckpointWrite)
      BY <1>1, <2>2, CheckpointStays DEF Ground
    <2> QED BY <2>1, <2>2
  <1>3. SegmentsNamed'
    BY <1>1, NamedStep DEF Ground, ServerInv, LogOK
  <1> QED BY <1>2, <1>3, StoresBatchStep, StartsEmptyStep, ReplayedFirstStep
          DEF Ground, RecoveryInv

-----------------------------------------------------------------------------
(* Order.  Records wait in the order of their numbers: in the batch and    *)
(* the queue, then those to replay, those a request is about to enqueue,   *)
(* and those of the append call in progress.                               *)
Sound == ~reused /\ powerLosses = 0

Waiting == Numbers(Pending) \cup Numbers(replay)

InOrder(h) ==
  hpc[h] = "enqueue" =>
    /\ Rising(records[h])
    /\ Before(Waiting, Numbers(records[h]))
    /\ Before(Numbers(records[h]), Numbers(done))

Order ==
  /\ Rising(Pending) /\ Rising(replay) /\ Rising(done)
  /\ Before(Numbers(Pending), Numbers(replay))
  /\ Before(Waiting, Numbers(done))
  /\ \A h \in Handlers : InOrder(h)

LEMMA EmptyInOrder == Numbers(<<>>) = {} /\ Rising(<<>>)
  BY DEF Numbers, Rising

LEMMA OrderInit == Init => Order
  BY EmptyInOrder DEF Init, SpoolInit, BufferInit, FlusherInit, Pending, Order, InOrder, Waiting,
                      Before

(* A step after which no more records wait.                                *)
LEMMA OrderStays ==
  ASSUME Order, Rising(Pending'), Rising(replay'),
         Before(Numbers(Pending'), Numbers(replay')),
         Numbers(Pending') \cup Numbers(replay') \subseteq Waiting,
         done' \in {done, <<>>},
         \A h \in Handlers : hpc'[h] = "enqueue" => hpc[h] = "enqueue" /\ records'[h] = records[h]
  PROVE  Order'
  <1>1. Waiting' \subseteq Waiting
    BY DEF Waiting
  <1>2. Rising(done') /\ Numbers(done') \subseteq Numbers(done)
    BY EmptyInOrder DEF Order
  <1>3. Before(Waiting', Numbers(done'))
    BY <1>1, <1>2 DEF Order, Before
  <1>4. ASSUME NEW h \in Handlers, hpc'[h] = "enqueue"
        PROVE  /\ Rising(records'[h]) /\ Before(Waiting', Numbers(records'[h]))
               /\ Before(Numbers(records'[h]), Numbers(done'))
    <2>1. /\ Rising(records[h]) /\ Before(Waiting, Numbers(records[h]))
          /\ Before(Numbers(records[h]), Numbers(done))
      BY <1>4 DEF Order, InOrder
    <2> QED BY <1>1, <1>2, <1>4, <2>1 DEF Before
  <1> QED BY <1>2, <1>3, <1>4 DEF Order, InOrder

(* Enqueue keeps the numbers and their order.                              *)
LEMMA EnqueueOrdered ==
  ASSUME Typed, NEW recs \in Seq(SpoolRecord), Enqueue(recs), batch' = batch,
         Rising(Pending), Rising(recs), Before(Numbers(Pending), Numbers(recs))
  PROVE  Rising(Pending') /\ Numbers(Pending') = Numbers(Pending) \cup Numbers(recs)
  <1> DEFINE out == FilterNearDuplicates(recs).out
             all == Pending
  <1>1. /\ out \in Seq(SpoolRecord) /\ Len(out) = Len(recs)
        /\ \A i \in 1..Len(recs) : out[i].seq = recs[i].seq
    BY FilterKeepsLength
  <1>2. queue' = queue \o out
    BY DEF Enqueue
  <1>3. all \in Seq(SpoolRecord)
    BY ConcatProperties DEF Typed, Pending
  <1> HIDE DEF out
  <1>4. Pending' = all \o out
    BY <1>1, <1>2, Regroup DEF Typed, Pending
  <1>5. Numbers(out) = Numbers(recs) /\ Rising(out)
    BY <1>1, SameNumbers
  <1> HIDE DEF all
  <1>6. Rising(all) /\ Before(Numbers(all), Numbers(out)) /\ Numbers(all) = Numbers(Pending)
    BY <1>5 DEF all
  <1> QED BY <1>1, <1>3, <1>4, <1>5, <1>6, RisingConcat, NumbersConcat

(* What recovery reads is behind nothing: memory is empty.                 *)
LEMMA RecoverOrder ==
  ASSUME ServerInv, RecoveryInv, Ground, Order, ~reused, Recover
  PROVE  Order'
  <1>0. /\ UNCHANGED <<hpc, records, done, batch>> /\ Typed /\ replay \in Seq(SpoolRecord)
        /\ SpoolTypeOK /\ Ascending /\ SegmentsNamed
    BY DEF Recover, Boot, RecoverRead, RecoverEnqueue, RecoverRetry, RecoverFinal, RecoverFinish,
           pipeVars, spoolVars, callVars, handlerVars, ServerInv, QueueInv, LogOK, ReplayTyped,
           SpoolInv, LogInv, Ground
  <1>1. CASE UNCHANGED <<queue, replay>>
    <2>1. Pending' = Pending
      BY <1>0, <1>1 DEF Pending
    <2> QED BY <1>0, <1>1, <2>1, OrderStays DEF Order, Waiting
  <1>2. CASE RecoverRead
    <2>1. UNCHANGED queue /\ phase = "read" /\ replay' \in {replay, ReplayAfterCheckpoint}
      BY <1>2 DEF RecoverRead, pipeVars, bufferVars
    <2>2. CASE replay' = ReplayAfterCheckpoint
      <3>1. queue = <<>> /\ batch = <<>> /\ done = <<>> /\ AllIdle
        BY <2>1 DEF RecoveryInv, Between, ServerInv, QueueInv, Flushed, Ground, StartsEmpty
      <3>2. Pending' = <<>>
        BY <1>0, <2>1, <3>1 DEF Pending
      <3>3. Rising(replay')
        BY <1>0, <2>2, ReplayExact DEF SegmentsNamed
      <3>4. \A h \in Handlers : hpc'[h] # "enqueue"
        BY <1>0, <3>1 DEF AllIdle
      <3>5. Numbers(Pending') = {} /\ Numbers(done') = {} /\ Rising(Pending') /\ Rising(done')
        BY <1>0, <3>1, <3>2, EmptyInOrder
      <3> QED BY <3>3, <3>4, <3>5 DEF Order, InOrder, Before
    <2> QED BY <1>1, <2>1, <2>2
  <1>3. CASE EnqueueChunk
    <2> DEFINE rest == SubSeq(replay, ChunkSize + 1, Len(replay))
    <2>1. Len(replay) \in Nat /\ ChunkSize \in 0..Len(replay)
      BY <1>0, BufferAssumption DEF ChunkSize
    <2>2. replay' = rest /\ Enqueue(Chunk)
      BY <1>3 DEF EnqueueChunk
    <2>3. Chunk \in Seq(SpoolRecord) /\ rest \in Seq(SpoolRecord)
      BY <1>0, <2>1 DEF Chunk
    <2>4. replay = Chunk \o rest
      <3> DEFINE n == ChunkSize
      <3>1. n \in 0..Len(replay)
        BY <2>1
      <3> HIDE DEF n
      <3>2. SubSeq(replay, 1, n) \o SubSeq(replay, n + 1, Len(replay)) = replay
        BY <1>0, <3>1, CutAt
      <3> QED BY <3>2 DEF n, Chunk
    <2> DEFINE c == Chunk
    <2> HIDE DEF rest, c
    <2>5. /\ Rising(c) /\ Rising(rest) /\ Before(Numbers(c), Numbers(rest))
          /\ Numbers(replay) = Numbers(c) \cup Numbers(rest)
      <3>1. c \in Seq(SpoolRecord) /\ replay = c \o rest /\ Rising(replay)
        BY <2>3, <2>4 DEF c, Order
      <3> QED BY <2>3, <3>1, RisingConcat, NumbersConcat
    <2>6. Rising(Pending) /\ Before(Numbers(Pending), Numbers(replay))
      BY DEF Order
    <2>7. Rising(Pending') /\ Numbers(Pending') = Numbers(Pending) \cup Numbers(c)
      <3>1. Before(Numbers(Pending), Numbers(c))
        BY <2>5, <2>6 DEF Before
      <3> QED BY <1>0, <2>2, <2>3, <2>5, <2>6, <3>1, EnqueueOrdered DEF c
    <2>8. Before(Numbers(Pending'), Numbers(replay'))
      BY <2>2, <2>5, <2>6, <2>7 DEF Before
    <2>9. Numbers(Pending') \cup Numbers(replay') \subseteq Waiting
      BY <2>2, <2>5, <2>7 DEF Waiting
    <2> QED BY <1>0, <2>2, <2>5, <2>7, <2>8, <2>9, OrderStays
  <1> QED BY <1>1, <1>2, <1>3 DEF Recover, Boot, RecoverEnqueue, RecoverRetry, RecoverFinal,
             RecoverFinish, EnqueueRefused, pipeVars, bufferVars

LEMMA FlushOrder ==
  ASSUME ServerInv, Order, FlusherRuns
  PROVE  Order'
  <1>0. /\ UNCHANGED <<hpc, records, replay>>
        /\ queue \in Seq(SpoolRecord) /\ batch \in Seq(SpoolRecord)
    BY DEF FlusherRuns, handlerVars, ServerInv, QueueInv, Typed
  <1>1. done' \in {done, <<>>}
    BY DEF FlusherRuns, FlusherStep, PassStats, FlushDrain, FlushInsert, FlushInsertFails,
           FlushCheckpoint, CheckpointCurrent, CheckpointTruncate, CheckpointRefused,
           FlushCheckpointWrite, CheckpointWrite, CheckpointWriteFails, Release, FlushCompact,
           Compact, CompactFails, FlushAgain, FlushRequeue, spoolVars, callVars
  <1>2. ASSUME Pending' = Pending PROVE Order'
    BY <1>0, <1>1, <1>2, OrderStays DEF Order, Waiting
  <1>3. CASE PassStats \/ FlushInsert \/ FlushInsertFails \/ FlushCheckpoint \/ FlushCheckpointWrite
             \/ FlushAgain
    <2>1. UNCHANGED <<queue, batch>>
      BY <1>3 DEF PassStats, FlushInsert, FlushInsertFails, FlushCheckpoint, FlushCheckpointWrite,
                  FlushAgain, bufferVars
    <2> QED BY <1>2, <2>1 DEF Pending
  <1>4. CASE FlushDrain
    <2>1. batch' \o queue' = queue
      BY <1>0, <1>4, DrainMoves DEF FlushDrain
    <2>2. batch = <<>>
      BY <1>4 DEF FlushDrain, ServerInv, QueueInv, Flushed
    <2> QED BY <1>0, <1>2, <2>1, <2>2 DEF Pending
  <1>5. CASE FlushRequeue
    <2>1. queue' = batch \o queue /\ batch' = <<>>
      BY <1>5 DEF FlushRequeue, RequeueFront
    <2>2. Pending' = Pending
      BY <1>0, <2>1, ConcatProperties DEF Pending
    <2> QED BY <1>2, <2>2
  <1>6. CASE FlushCompact
    <2>1. batch' = <<>> /\ queue' = queue
      BY <1>6 DEF FlushCompact, bufferVars
    <2>2. Pending' = queue
      BY <1>0, <2>1 DEF Pending
    <2>3. Rising(queue) /\ Numbers(queue) \subseteq Numbers(Pending)
      BY <1>0, RisingConcat, NumbersConcat DEF Order, Pending
    <2>4. Before(Numbers(Pending'), Numbers(replay'))
      BY <1>0, <2>2, <2>3 DEF Order, Before
    <2> QED BY <1>0, <1>1, <2>2, <2>3, <2>4, OrderStays DEF Order, Waiting
  <1> QED BY <1>3, <1>4, <1>5, <1>6 DEF FlusherRuns, FlusherStep

LEMMA ProcessOrder ==
  ASSUME Order, FlusherWakes \/ Signal \/ ShutdownReturns \/ Exit \/ WalSyncs \/ Crash \/ PowerLoss
  PROVE  Order'
  <1>1. CASE FlusherWakes \/ Signal \/ ShutdownReturns \/ Exit \/ WalSyncs
    <2>1. UNCHANGED <<queue, batch, replay, done, hpc, records>>
      BY <1>1 DEF FlusherWakes, Signal, ShutdownReturns, Exit, SpoolClose, WalSyncs, pipeVars,
                  spoolVars, callVars, bufferVars, handlerVars
    <2>2. Pending' = Pending
      BY <2>1 DEF Pending
    <2> QED BY <2>1, <2>2, OrderStays DEF Order, Waiting
  <1>2. CASE Crash \/ PowerLoss
    <2>1. /\ queue' = <<>> /\ batch' = <<>> /\ replay' = <<>> /\ done' = <<>>
          /\ \A h \in Handlers : hpc'[h] = "idle"
      BY <1>2 DEF Crash, PowerLoss, NewProcess, BufferReset, FlusherReset, SpoolRestart,
                  SpoolPowerLoss, NewManager
    <2>2. Pending' = <<>>
      BY <2>1 DEF Pending
    <2> QED BY <2>1, <2>2, EmptyInOrder DEF Order, InOrder, Waiting, Before
  <1> QED BY <1>1, <1>2

(* A new line is numbered past everything; what is enqueued is put behind  *)
(* the queue, and before the other requests by hypothesis.                 *)
LEMMA HandleOrder ==
  ASSUME ServerInv, Ground, Order, ~reused', EnqueuedInOrder,
         NEW h \in Handlers, HandleRequest(h) \/ HandlerStep(h)
  PROVE  Order'
  <1>0. /\ UNCHANGED <<batch, replay>> /\ Typed /\ replay = <<>>
        /\ records \in [Handlers -> Seq(SpoolRecord)] /\ queue \in Seq(SpoolRecord)
        /\ batch \in Seq(SpoolRecord) /\ done \in Seq(SpoolRecord)
        /\ hpc \in [Handlers -> {"idle", "append", "spool", "enqueue", "respond"}]
        /\ Numbered /\ SpoolTypeOK
    <2>1. Started
      BY DEF HandleRequest, HandlerStep, HandleAppend, HandleAppendFails, HandleEnqueue,
             HandleEnqueueRefused, HandleRespond, HandlerAt
    <2>2. UNCHANGED <<batch, replay>>
      BY DEF HandleRequest, HandlerStep, HandleAppend, HandleAppendFails, HandleEnqueue,
             HandleEnqueueRefused, HandleRespond, pipeVars
    <2> QED BY <2>1, <2>2 DEF ServerInv, QueueInv, Typed, LogOK, Working, SpoolInv, Ground,
                              ReplayedFirst
  <1>1. \A k \in Handlers \ {h} : hpc'[k] = hpc[k] /\ records'[k] = records[k]
    BY <1>0 DEF HandleRequest, HandlerStep, HandleAppend, HandleAppendFails, HandleEnqueue,
                HandleEnqueueRefused, HandleRespond, HandlerAt
  <1>2. ASSUME UNCHANGED queue, done' \in {done, <<>>}, hpc'[h] # "enqueue"
        PROVE  Order'
    <2>1. Pending' = Pending
      BY <1>0, <1>2 DEF Pending
    <2>2. \A k \in Handlers : hpc'[k] = "enqueue" => hpc[k] = "enqueue" /\ records'[k] = records[k]
      BY <1>1, <1>2
    <2> QED BY <1>0, <1>2, <2>1, <2>2, OrderStays DEF Order, Waiting
  <1>3. CASE HandleRequest(h) \/ HandleAppendFails(h) \/ HandleEnqueueRefused(h) \/ HandleRespond(h)
    <2>1. UNCHANGED queue /\ hpc'[h] # "enqueue"
      BY <1>0, <1>3 DEF HandleRequest, HandleAppendFails, HandleEnqueueRefused, HandleRespond,
                        HandlerAt, pipeVars, bufferVars
    <2>2. done' \in {done, <<>>}
      BY <1>3 DEF HandleRequest, HandleAppendFails, AppendFails, AppendOpenFails, AppendWriteFails,
                  AppendSyncFails, Release, HandleEnqueueRefused, HandleRespond, pipeVars,
                  spoolVars, callVars
    <2> QED BY <1>2, <2>1, <2>2
  <1>4. CASE HandleAppend(h)
    <2>0. UNCHANGED queue /\ Pending' = Pending /\ Waiting' = Waiting
      BY <1>0, <1>4 DEF HandleAppend, bufferVars, Pending, Waiting
    <2>1. CASE AppendBegin(h, request[h]) /\ HandlerAt(h, "append", "spool")
      <3>1. done' = done /\ hpc'[h] # "enqueue"
        BY <1>0, <2>1 DEF AppendBegin, HandlerAt
      <3> QED BY <1>2, <2>0, <3>1
    <2>2. CASE AppendLine(h) /\ HandlerAt(h, "spool", "spool") /\ UNCHANGED records
      <3> DEFINE new == NewRecord(nextSeq, Head(todo))
                 n == nextSeq
      <3>1. /\ todo # <<>> /\ done' = Append(done, new) /\ nextSeq > highSeq /\ hpc'[h] = "spool"
        <4>1. nextSeq \in Nat /\ highSeq \in Nat /\ ~(nextSeq <= highSeq)
          BY <1>0, <2>2 DEF AppendLine, SpoolTypeOK
        <4> QED BY <1>0, <2>2, <4>1 DEF AppendLine, HandlerAt
      <3>2. new \in SpoolRecord /\ new.seq = n
        BY <1>0, <3>1 DEF NewRecord, SpoolRecord, SpoolTypeOK
      <3>3. \A s \in {queue, batch, replay, done} : \A i \in DOMAIN s : s[i].seq \in 1..highSeq
        BY <1>0 DEF Numbered, InLog, Fresh
      <3>4. \A k \in Handlers : \A i \in DOMAIN records[k] : records[k][i].seq \in 1..highSeq
        BY <1>0 DEF Numbered, InLog, Fresh
      <3>5. highSeq \in Nat /\ n \in Nat /\ n > highSeq
        BY <1>0, <3>1 DEF SpoolTypeOK
      <3> HIDE DEF new, n
      <3>6. Before(Waiting, {n})
        <4>1. Numbers(Pending) = Numbers(batch) \cup Numbers(queue)
          BY <1>0, NumbersConcat DEF Pending
        <4>2. \A m \in Numbers(batch) \cup Numbers(queue) \cup Numbers(replay) : m \in 1..highSeq
          BY <3>3 DEF Numbers
        <4>3. \A m \in Waiting : m < n
          BY <3>5, <4>1, <4>2 DEF Waiting
        <4> QED BY <4>3 DEF Before
      <3>7. Before(Numbers(done), {n})
        BY <3>3, <3>5 DEF Numbers, Before
      <3>8. \A k \in Handlers : Before(Numbers(records[k]), {n})
        BY <3>4, <3>5 DEF Numbers, Before
      <3>9. Rising(done') /\ Numbers(done') = Numbers(done) \cup {n}
        <4>1. Rising(done')
          BY <1>0, <3>1, <3>2, <3>7, RisingAppend DEF Order
        <4> DEFINE one == <<new>>
        <4>2. one \in Seq(SpoolRecord) /\ Numbers(one) = {n} /\ done' = done \o one
          BY <1>0, <3>1, <3>2, AppendParts
        <4> HIDE DEF one
        <4>3. Numbers(done') = Numbers(done) \cup {n}
          BY <1>0, <4>2, NumbersConcat
        <4> QED BY <4>1, <4>3
      <3>10. ASSUME NEW k \in Handlers, hpc'[k] = "enqueue"
             PROVE  /\ Rising(records'[k]) /\ Before(Waiting', Numbers(records'[k]))
                    /\ Before(Numbers(records'[k]), Numbers(done'))
        <4>1. records'[k] = records[k] /\ hpc[k] = "enqueue"
          BY <1>1, <2>2, <3>1, <3>10
        <4>2. /\ Rising(records[k]) /\ Before(Waiting, Numbers(records[k]))
              /\ Before(Numbers(records[k]), Numbers(done))
          BY <4>1 DEF Order, InOrder
        <4>3. Before(Numbers(records[k]), Numbers(done'))
          BY <3>8, <3>9, <4>2 DEF Before
        <4> QED BY <2>0, <4>1, <4>2, <4>3
      <3>11. Before(Waiting', Numbers(done'))
        BY <2>0, <3>6, <3>9 DEF Before, Order
      <3> QED BY <1>0, <2>0, <3>9, <3>10, <3>11 DEF Order, InOrder
    <2>3. CASE AppendReturn(h) /\ HandlerAt(h, "spool", "enqueue")
               /\ records' = [records EXCEPT ![h] = done]
      <3>1. done' = <<>> /\ hpc' = [hpc EXCEPT ![h] = "enqueue"] /\ records'[h] = done
        BY <1>0, <2>3 DEF AppendReturn, Release, HandlerAt
      <3>2. Numbers(done') = {} /\ Rising(done')
        BY <3>1, EmptyInOrder
      <3>3. ASSUME NEW k \in Handlers, hpc'[k] = "enqueue"
            PROVE  /\ Rising(records'[k]) /\ Before(Waiting', Numbers(records'[k]))
                   /\ Before(Numbers(records'[k]), Numbers(done'))
        <4>1. Before(Numbers(records'[k]), Numbers(done'))
          BY <3>2 DEF Before
        <4>2. Rising(records'[k]) /\ Before(Waiting', Numbers(records'[k]))
          <5>1. CASE k = h
            BY <2>0, <3>1, <5>1 DEF Order
          <5>2. CASE k # h
            BY <1>1, <2>0, <3>3, <5>2 DEF Order, InOrder
          <5> QED BY <5>1, <5>2
        <4> QED BY <4>1, <4>2
      <3>4. Before(Waiting', Numbers(done'))
        BY <3>2 DEF Before
      <3> QED BY <1>0, <2>0, <3>2, <3>3, <3>4 DEF Order, InOrder
    <2> QED BY <1>4, <2>1, <2>2, <2>3 DEF HandleAppend
  <1>5. CASE HandleEnqueue(h)
    <2>1. /\ hpc[h] = "enqueue" /\ hpc'[h] = "respond" /\ Enqueue(records[h])
          /\ UNCHANGED <<records, done>>
      BY <1>0, <1>5 DEF HandleEnqueue, HandlerAt, spoolVars, callVars
    <2>2. /\ Rising(records[h]) /\ Before(Waiting, Numbers(records[h]))
          /\ Before(Numbers(records[h]), Numbers(done))
      BY <2>1 DEF Order, InOrder
    <2>3. Before(Numbers(Pending), Numbers(records[h])) /\ Rising(Pending)
      BY <2>2 DEF Waiting, Before, Order
    <2>4. Rising(Pending') /\ Numbers(Pending') = Numbers(Pending) \cup Numbers(records[h])
      BY <1>0, <2>1, <2>2, <2>3, EnqueueOrdered
    <2>5. Numbers(replay') = {} /\ Rising(replay')
      BY <1>0, EmptyInOrder
    <2>6. Waiting' \subseteq Waiting \cup Numbers(records[h])
      BY <2>4, <2>5 DEF Waiting
    <2>7. Before(Waiting', Numbers(done'))
      BY <2>1, <2>2, <2>6 DEF Order, Before
    <2>8. ASSUME NEW k \in Handlers, hpc'[k] = "enqueue"
          PROVE  /\ Rising(records'[k]) /\ Before(Waiting', Numbers(records'[k]))
                 /\ Before(Numbers(records'[k]), Numbers(done'))
      <3>1. k # h /\ hpc[k] = "enqueue"
        BY <1>1, <2>1, <2>8
      <3>2. Before(Numbers(records[h]), Numbers(records[k]))
        BY <1>5, <3>1 DEF EnqueuedInOrder
      <3>3. /\ Rising(records[k]) /\ Before(Waiting, Numbers(records[k]))
            /\ Before(Numbers(records[k]), Numbers(done))
        BY <3>1 DEF Order, InOrder
      <3>4. Before(Waiting', Numbers(records[k]))
        BY <2>6, <3>2, <3>3 DEF Before
      <3> QED BY <2>1, <3>3, <3>4
    <2>9. Rising(done') /\ Before(Numbers(Pending'), Numbers(replay'))
      BY <2>1, <2>5 DEF Order, Before
    <2> QED BY <2>4, <2>5, <2>7, <2>8, <2>9 DEF Order, InOrder
  <1> QED BY <1>3, <1>4, <1>5 DEF HandlerStep

-----------------------------------------------------------------------------
(* Backing.  What still has to reach SQLite is there already, itself or    *)
(* the point it repeats, or its line is in the spool past the checkpoint.  *)
Owed(n, p) ==
  \/ Carries(queue, n, p) \/ Carries(batch, n, p)
  \/ Carries(replay, n, p) \/ Carries(done, n, p)
  \/ \E h \in Handlers : hpc[h] = "enqueue" /\ Carries(records[h], n, p)

Filed(n, p) == n > checkpoint /\ \E r \in Spooled : r.seq = n /\ r.point = p

Backed == \A n, p : Owed(n, p) => SafeInDb(p) \/ Filed(n, p)

(* The records that recovery takes over from the spool.                    *)
Replayed(n, p) ==
  RecoverRead /\ replay' = ReplayAfterCheckpoint /\ Carries(ReplayAfterCheckpoint, n, p)

LEMMA BackedInit == Init => Backed
  BY DEF Init, SpoolInit, BufferInit, FlusherInit, Backed, Owed, Carries

(* Nothing else but a new line begins to be owed.                          *)
LEMMA OwedBefore ==
  ASSUME ServerInv, [Next]_vars, NEW n, NEW p, Owed(n, p)'
  PROVE  Owed(n, p) \/ NewlyGiven(n, p) \/ Replayed(n, p)
  <1>0. /\ queue \in Seq(SpoolRecord) /\ batch \in Seq(SpoolRecord)
        /\ replay \in Seq(SpoolRecord) /\ done \in Seq(SpoolRecord)
        /\ records \in [Handlers -> Seq(SpoolRecord)]
        /\ hpc \in [Handlers -> {"idle", "append", "spool", "enqueue", "respond"}]
    BY DEF ServerInv, QueueInv, Typed, LogOK, ReplayTyped, Working
  <1>1. ~Carries(<<>>, n, p)
    BY DEF Carries
  <1>2. CASE UNCHANGED <<queue, batch, replay, records, hpc>> /\ done' \in {done, <<>>}
    BY <1>1, <1>2 DEF Owed
  <1>3. CASE UNCHANGED vars \/ Ended
    BY <1>2, <1>3 DEF Ended, vars, pipeVars, spoolVars, callVars, bufferVars, handlerVars
  <1>4. CASE Recover
    <2>0. UNCHANGED <<batch, done, records, hpc>>
      BY <1>4 DEF Recover, Boot, RecoverRead, RecoverEnqueue, RecoverRetry, RecoverFinal,
                  RecoverFinish, pipeVars, spoolVars, callVars, handlerVars
    <2>1. CASE EnqueueChunk
      <3> DEFINE m == ChunkSize
      <3>1. Len(replay) \in Nat /\ m \in 0..Len(replay)
        BY <1>0, BufferAssumption DEF ChunkSize
      <3>2. /\ Chunk = SubSeq(replay, 1, m) /\ replay' = SubSeq(replay, m + 1, Len(replay))
            /\ Enqueue(Chunk)
        BY <2>1 DEF EnqueueChunk, Chunk
      <3> HIDE DEF m
      <3>3. Carries(Chunk, n, p) => Carries(replay, n, p)
        BY <1>0, <3>1, <3>2, CarriesPart
      <3>4. Carries(replay', n, p) => Carries(replay, n, p)
        <4>1. m + 1 \in Nat \ {0} /\ Len(replay) \in 0..Len(replay)
          BY <3>1
        <4> QED BY <1>0, <3>2, <4>1, CarriesPart
      <3>5. Chunk \in Seq(SpoolRecord)
        BY <1>0, <3>1, <3>2
      <3>6. Carries(queue', n, p) => Carries(queue, n, p) \/ Carries(Chunk, n, p)
        BY <1>0, <3>2, <3>5, EnqueueCarries
      <3> QED BY <2>0, <3>3, <3>4, <3>6 DEF Owed
    <2>2. CASE RecoverRead
      <3>1. replay' = replay \/ replay' = ReplayAfterCheckpoint
        BY <2>2 DEF RecoverRead
      <3>2. UNCHANGED queue
        BY <2>2 DEF RecoverRead, pipeVars, bufferVars
      <3> QED BY <2>0, <2>2, <3>1, <3>2 DEF Owed, Replayed
    <2>3. CASE UNCHANGED <<queue, replay>>
      BY <1>2, <2>0, <2>3
    <2> QED BY <1>4, <2>1, <2>2, <2>3 DEF Recover, Boot, RecoverEnqueue, RecoverRetry, RecoverFinal,
                                          RecoverFinish, EnqueueRefused, pipeVars, bufferVars
  <1>5. ASSUME NEW h \in Handlers, HandleRequest(h) \/ HandlerStep(h)
        PROVE  Owed(n, p) \/ NewlyGiven(n, p)
    <2>1. /\ UNCHANGED <<batch, replay>>
          /\ \A k \in Handlers \ {h} : hpc'[k] = hpc[k] /\ records'[k] = records[k]
      BY <1>0, <1>5 DEF HandleRequest, HandlerStep, HandleAppend, HandleAppendFails, HandleEnqueue,
                        HandleEnqueueRefused, HandleRespond, HandlerAt, pipeVars
    <2>2. Carries(queue', n, p)
            => Carries(queue, n, p) \/ (hpc[h] = "enqueue" /\ Carries(records[h], n, p))
      <3>1. CASE UNCHANGED queue
        BY <3>1
      <3>2. CASE HandleEnqueue(h)
        <4>1. hpc[h] = "enqueue" /\ Enqueue(records[h]) /\ records[h] \in Seq(SpoolRecord)
          BY <1>0, <3>2 DEF HandleEnqueue, HandlerAt
        <4> QED BY <1>0, <4>1, EnqueueCarries
      <3> QED BY <1>5, <3>1, <3>2 DEF HandleRequest, HandlerStep, HandleAppend, HandleAppendFails,
                 HandleEnqueueRefused, HandleRespond, pipeVars, bufferVars
    <2>3. ASSUME hpc'[h] = "enqueue" PROVE records'[h] = done
      BY <1>0, <1>5, <2>3 DEF HandleRequest, HandlerStep, HandleAppend, HandleAppendFails,
                              HandleEnqueue, HandleEnqueueRefused, HandleRespond, HandlerAt
    <2>4. Carries(done', n, p) => Carries(done, n, p) \/ NewlyGiven(n, p)
      <3>1. CASE done' \in {done, <<>>}
        BY <1>1, <3>1
      <3>2. CASE AppendLine(h)
        <4>1. done' = Append(done, NewRecord(nextSeq, Head(todo)))
          BY <3>2 DEF AppendLine
        <4>2. WritesLine
          BY <3>2, SyncChoicesType DEF AppendLine, WritesLine
        <4>3. /\ Len(done) \in Nat /\ DOMAIN done = 1..Len(done)
              /\ DOMAIN done' = 1..(Len(done) + 1)
              /\ \A j \in 1..Len(done) : done'[j] = done[j]
              /\ done'[Len(done) + 1] = NewRecord(nextSeq, Head(todo))
          BY <1>0, <4>1
        <4> QED BY <4>2, <4>3 DEF Carries, NewlyGiven, NewRecord
      <3> QED BY <1>5, <3>1, <3>2 DEF HandleRequest, HandlerStep, HandleAppend, AppendBegin,
                 AppendReturn, HandleAppendFails, AppendFails, AppendOpenFails, AppendWriteFails,
                 AppendSyncFails, Release, HandleEnqueue, HandleEnqueueRefused, HandleRespond,
                 pipeVars, spoolVars, callVars
    <2>5. ASSUME NEW k \in Handlers, hpc'[k] = "enqueue", Carries(records'[k], n, p)
          PROVE  Carries(done, n, p) \/ (hpc[k] = "enqueue" /\ Carries(records[k], n, p))
      BY <2>1, <2>3, <2>5
    <2> QED BY <2>1, <2>2, <2>4, <2>5 DEF Owed
  <1>6. CASE FlusherRuns
    <2>0. UNCHANGED <<hpc, records, replay>>
      BY <1>6 DEF FlusherRuns, handlerVars
    <2>1. done' \in {done, <<>>}
      BY <1>6 DEF FlusherRuns, FlusherStep, PassStats, FlushDrain, FlushInsert, FlushInsertFails,
             FlushCheckpoint, CheckpointCurrent, CheckpointTruncate, CheckpointRefused,
             FlushCheckpointWrite, CheckpointWrite, CheckpointWriteFails, Release, FlushCompact,
             Compact, CompactFails, FlushAgain, FlushRequeue, spoolVars, callVars
    <2>2. CASE queue' = queue /\ batch' \in {batch, <<>>}
      BY <1>1, <2>0, <2>1, <2>2 DEF Owed
    <2>3. CASE FlushDrain
      <3> DEFINE q == queue'
                 b == batch'
      <3>1. q \in Seq(SpoolRecord) /\ b \in Seq(SpoolRecord) /\ b \o q = queue
        BY <1>0, <2>3, DrainMoves DEF FlushDrain
      <3>2. Carries(q, n, p) \/ Carries(b, n, p) => Carries(queue, n, p)
        <4> HIDE DEF q, b
        <4> QED BY <3>1, CarriesJoin
      <3> QED BY <1>1, <2>0, <2>1, <3>2 DEF Owed
    <2>4. CASE FlushRequeue
      <3>1. queue' = batch \o queue /\ batch' = <<>>
        BY <2>4 DEF FlushRequeue, RequeueFront
      <3>2. Carries(queue', n, p) => Carries(batch, n, p) \/ Carries(queue, n, p)
        BY <1>0, <3>1, CarriesConcat
      <3> QED BY <1>1, <2>0, <2>1, <3>1, <3>2 DEF Owed
    <2> QED BY <1>6, <2>2, <2>3, <2>4 DEF FlusherRuns, FlusherStep, PassStats, FlushInsert,
               FlushInsertFails, FlushCheckpoint, FlushCheckpointWrite, FlushCompact, FlushAgain,
               bufferVars
  <1>7. CASE FlusherWakes \/ Signal \/ ShutdownReturns \/ Exit \/ WalSyncs
    BY <1>2, <1>7 DEF FlusherWakes, Signal, ShutdownReturns, Exit, SpoolClose, WalSyncs, pipeVars,
                      spoolVars, callVars, bufferVars, handlerVars
  <1>8. CASE Crash \/ PowerLoss
    <2>1. /\ queue' = <<>> /\ batch' = <<>> /\ replay' = <<>> /\ done' = <<>>
          /\ \A h \in Handlers : hpc'[h] = "idle"
      BY <1>8 DEF Crash, PowerLoss, NewProcess, BufferReset, FlusherReset, SpoolRestart,
                  SpoolPowerLoss, NewManager
    <2> QED BY <1>1, <2>1 DEF Owed
  <1> QED BY <1>3, <1>4, <1>5, <1>6, <1>7, <1>8 DEF Next

-----------------------------------------------------------------------------
(* What a step keeps, unless the power fails.                              *)

LEMMA SoundBefore ==
  ASSUME ServerInv, [Next]_vars, Sound'
  PROVE  Sound /\ powerLosses' = powerLosses /\ ~PowerLoss
  <1>1. SpoolTypeOK /\ powerLosses \in Nat
    BY DEF ServerInv, LogOK, SpoolInv, SpoolTypeOK
  <1>2. ~reused
    <2>1. SpoolMove
      BY SpoolMoves DEF ServerInv, QueueInv, LogOK, SpoolInv, SpoolTypeOK
    <2> QED BY <1>1, <2>1, ReusedStays DEF Sound
  <1>3. ~PowerLoss
    BY <1>1 DEF PowerLoss, SpoolPowerLoss, Sound
  <1>4. powerLosses' = powerLosses
    <2>1. CASE UNCHANGED vars \/ Ended \/ Recover
      BY <2>1 DEF Ended, Recover, Boot, RecoverRead, RecoverEnqueue, RecoverRetry, RecoverFinal,
                  RecoverFinish, vars, pipeVars, spoolVars, crashVars
    <2>2. ASSUME NEW h \in Handlers, HandleRequest(h) \/ HandlerStep(h)
          PROVE  powerLosses' = powerLosses
      BY <2>2 DEF HandleRequest, HandlerStep, HandleAppend, AppendBegin, AppendLine, AppendReturn,
                  HandleAppendFails, AppendFails, AppendOpenFails, AppendWriteFails,
                  AppendSyncFails, HandleEnqueue, HandleEnqueueRefused, HandleRespond, pipeVars,
                  spoolVars, crashVars
    <2>3. CASE FlusherRuns
      BY <2>3 DEF FlusherRuns, FlusherStep, PassStats, FlushDrain, FlushInsert, FlushInsertFails,
                  FlushCheckpoint, CheckpointCurrent, CheckpointTruncate, CheckpointRefused,
                  FlushCheckpointWrite, CheckpointWrite, CheckpointWriteFails, FlushCompact, Compact,
                  CompactFails, FlushAgain, FlushRequeue, spoolVars, crashVars
    <2>4. CASE FlusherWakes \/ Signal \/ ShutdownReturns \/ Exit \/ WalSyncs \/ Crash
      BY <2>4 DEF FlusherWakes, Signal, ShutdownReturns, Exit, SpoolClose, WalSyncs, Crash,
                  SpoolRestart, pipeVars, spoolVars, crashVars
    <2> QED BY <1>3, <2>1, <2>2, <2>3, <2>4 DEF Next
  <1> QED BY <1>2, <1>3, <1>4 DEF Sound

LEMMA SafeStays ==
  ASSUME [Next]_vars, ~PowerLoss, NEW p, SafeInDb(p)
  PROVE  SafeInDb(p)'
  <1>1. db.rows \subseteq db'.rows
    <2>1. CASE db' = db
      BY <2>1
    <2>2. CASE InsertSpoolBatch(batch, WriteBatch)
      BY <2>2, InsertGrows
    <2> QED BY <2>1, <2>2 DEF Next, Recover, Boot, RecoverRead, RecoverEnqueue, RecoverRetry,
             RecoverFinal, RecoverFinish, HandleRequest, HandlerStep, HandleAppend, HandleAppendFails,
             HandleEnqueue, HandleEnqueueRefused, HandleRespond, FlusherWakes, FlusherRuns,
             FlusherStep, PassStats, FlushDrain, FlushInsert, FlushInsertFails, InsertConflicts,
             FlushCheckpoint, FlushCheckpointWrite, FlushCompact, FlushAgain, FlushRequeue, Signal,
             ShutdownReturns, Exit, Crash, WalSyncs, WalSync, Ended, pipeVars, storeVars, vars
  <1> QED BY <1>1 DEF SafeInDb, Stored

LEMMA LineStays ==
  ASSUME ServerInv, [Next]_vars, powerLosses' = powerLosses, NEW r \in Spooled, r.seq > checkpoint
  PROVE  r \in Spooled'
  <1>1. SpoolMove
    BY SpoolMoves DEF ServerInv, QueueInv, LogOK, SpoolInv, SpoolTypeOK
  <1> QED BY <1>1, SpooledStays DEF ServerInv, LogOK

LEMMA AckedStays ==
  ASSUME [Next]_vars, ~\E h \in Handlers : HandleRespond(h)
  PROVE  acked' = acked
  <1>1. ASSUME NEW h \in Handlers, HandleRequest(h) \/ HandlerStep(h)
        PROVE  acked' = acked
    BY <1>1 DEF HandleRequest, HandlerStep, HandleAppend, HandleAppendFails, HandleEnqueue,
                HandleEnqueueRefused, ackVars
  <1>2. CASE ~\E h \in Handlers : HandleRequest(h) \/ HandlerStep(h)
    BY <1>2 DEF Next, Recover, Boot, RecoverRead, RecoverEnqueue, RecoverRetry, RecoverFinal,
                RecoverFinish, FlusherWakes, FlusherRuns, Signal, ShutdownReturns, Exit, Crash,
                PowerLoss, NewProcess, WalSyncs, Ended, ackVars, vars
  <1> QED BY <1>1, <1>2

(* MaxSeqOf is the largest number of the batch.                            *)
LEMMA MaxOfBatch ==
  ASSUME ServerInv, fpc \in {"checkpoint", "write"}
  PROVE  /\ MaxSeqOf(batch) \in Numbers(batch)
         /\ \A n \in Numbers(batch) : n <= MaxSeqOf(batch)
  BY MaxSeqInLog DEF ServerInv, QueueInv, Typed, LogOK, SpoolInv, SpoolTypeOK, Numbered, Working,
                     Numbers

(* Once the batch is inserted, its points are safe, markers included.      *)
LEMMA BatchSafe ==
  ASSUME ServerInv, HeldInv, fpc = "write", NEW i \in DOMAIN batch
  PROVE  SafeInDb(batch[i].point)
  <1>1. /\ queue \in Seq(SpoolRecord) /\ batch \in Seq(SpoolRecord)
        /\ \A k \in DOMAIN batch : Written(batch[k])
        /\ MemoryBacked
    BY DEF ServerInv, QueueInv, Typed, Flushed, HeldInv, BackedInv
  <1>2. /\ DOMAIN batch = 1..Len(batch) /\ Len(batch) \in Nat
        /\ i \in DOMAIN Pending /\ \A k \in 1..Len(batch) : Pending[k] = batch[k]
    BY <1>1, PendingParts DEF Pending
  <1>3. PICK q \in Points : /\ StandsFor(q, batch[i].point)
                            /\ Stored(q) \/ \E j \in 1..i : Plain(Pending, j, q)
    BY <1>1, <1>2 DEF MemoryBacked
  <1>4. \A j \in 1..i : j \in 1..Len(batch)
    BY <1>2
  <1>5. Stored(q)
    BY <1>1, <1>2, <1>3, <1>4 DEF Plain, Written, Stored
  <1> QED BY <1>3, <1>5 DEF SafeInDb

LEMMA BackedStep ==
  ASSUME ServerInv, HeldInv, Ground, Order, Backed, [Next]_vars, Sound', powerLosses' = powerLosses,
         ~PowerLoss
  PROVE  Backed'
  <1> SUFFICES ASSUME NEW n, NEW p, Owed(n, p)'
               PROVE  SafeInDb(p)' \/ Filed(n, p)'
    BY DEF Backed
  <1>0. /\ SpoolTypeOK /\ SpoolInv /\ Typed /\ checkpoint <= highSeq /\ highSeq \in Nat
        /\ checkpoint \in Nat /\ nextSeq \in Nat
        /\ queue \in Seq(SpoolRecord) /\ batch \in Seq(SpoolRecord)
    BY DEF ServerInv, QueueInv, Typed, LogOK, SpoolInv, SpoolTypeOK, Ground
  <1>1. CASE FlusherRuns /\ FlushCheckpointWrite
    <2> DEFINE max == MaxSeqOf(batch)
    <2>1. /\ UNCHANGED <<segments, queue, batch, db, replay, records, hpc>> /\ done' = <<>>
          /\ checkpoint' \in {checkpoint, max} /\ fpc = "write"
      BY <1>1, CheckpointStores DEF FlusherRuns, FlushCheckpointWrite, handlerVars
    <2>2. max \in Numbers(batch) /\ \A k \in Numbers(batch) : k <= max
      BY <2>1, MaxOfBatch
    <2> HIDE DEF max
    <2>3. SafeInDb(p) => SafeInDb(p)'
      BY <2>1 DEF SafeInDb, Stored
    <2>4. CASE Carries(batch, n, p)
      BY <2>1, <2>3, <2>4, BatchSafe DEF Carries
    <2>5. CASE ~Carries(batch, n, p)
      <3>1. \/ Carries(queue, n, p) \/ Carries(replay, n, p)
            \/ \E h \in Handlers : hpc[h] = "enqueue" /\ Carries(records[h], n, p)
        BY <2>1, <2>5 DEF Owed, Carries
      <3>2. SafeInDb(p) \/ Filed(n, p)
        BY <3>1 DEF Backed, Owed
      <3>3. max < n
        <4>1. Before(Numbers(batch), Numbers(queue)) /\ Numbers(batch) \subseteq Numbers(Pending)
          BY <1>0, RisingConcat, NumbersConcat DEF Order, Pending
        <4>2. CASE Carries(queue, n, p)
          BY <2>2, <4>1, <4>2 DEF Before, Carries, Numbers
        <4>3. CASE Carries(replay, n, p)
          <5>1. n \in Numbers(replay)
            BY <4>3 DEF Carries, Numbers
          <5> QED BY <2>2, <4>1, <5>1 DEF Order, Before
        <4>4. ASSUME NEW h \in Handlers, hpc[h] = "enqueue", Carries(records[h], n, p)
              PROVE  max < n
          <5>1. n \in Numbers(records[h])
            BY <4>4 DEF Carries, Numbers
          <5>2. Before(Waiting, Numbers(records[h]))
            BY <4>4 DEF Order, InOrder
          <5>3. max \in Waiting
            BY <2>2, <4>1 DEF Waiting
          <5> QED BY <5>1, <5>2, <5>3 DEF Before
        <4> QED BY <3>1, <4>2, <4>3, <4>4
      <3>4. Spooled' = Spooled
        BY <2>1 DEF Spooled, LinesOf
      <3>5. Filed(n, p) => Filed(n, p)'
        <4>1. checkpoint' = checkpoint \/ checkpoint' = max
          BY <2>1
        <4> QED BY <3>3, <3>4, <4>1 DEF Filed
      <3> QED BY <2>3, <3>2, <3>5
    <2> QED BY <2>4, <2>5
  <1>2. CASE ~(FlusherRuns /\ FlushCheckpointWrite)
    <2>1. checkpoint' = checkpoint
      BY <1>2, CheckpointStays
    <2>2. SafeInDb(p) => SafeInDb(p)'
      BY SafeStays
    <2>3. Filed(n, p) => Filed(n, p)'
      BY <2>1, LineStays DEF Filed
    <2>4. ASSUME NewlyGiven(n, p) PROVE Filed(n, p)'
      <3>1. WritesLine /\ n = nextSeq /\ p = Head(todo)
        BY <2>4 DEF NewlyGiven
      <3>2. NewRecord(nextSeq, Head(todo)) \in Spooled'
        BY <1>0, <3>1, LineSpooled
      <3>3. ~(nextSeq <= highSeq)
        BY <3>1 DEF WritesLine, Sound
      <3>4. n > checkpoint'
        BY <1>0, <2>1, <3>1, <3>3
      <3> QED BY <3>1, <3>2, <3>4 DEF Filed, NewRecord
    <2>5. ASSUME Replayed(n, p) PROVE Filed(n, p)'
      <3>1. /\ Carries(ReplayAfterCheckpoint, n, p) /\ UNCHANGED segments
            /\ ReplayAfterCheckpoint \in Seq(Spooled)
        BY <1>0, <2>5, ReplaySound DEF Replayed, RecoverRead, pipeVars, spoolVars, diskVars
      <3> DEFINE all == ReplayAfterCheckpoint
      <3>2. \A x \in LineSet(all) : x \in Spooled /\ x.seq > checkpoint
        BY <1>0, ReplayExact DEF Ground, SegmentsNamed, ServerInv, LogOK, LogInv
      <3> HIDE DEF all
      <3>3. PICK i \in DOMAIN all : all[i].seq = n /\ all[i].point = p
        BY <3>1 DEF Carries, all
      <3>4. all[i] \in LineSet(all)
        BY <3>1, <3>3 DEF LineSet, all
      <3>5. Spooled' = Spooled
        BY <3>1 DEF Spooled, LinesOf
      <3> QED BY <2>1, <3>2, <3>3, <3>4, <3>5 DEF Filed
    <2>6. Owed(n, p) \/ NewlyGiven(n, p) \/ Replayed(n, p)
      BY OwedBefore
    <2> QED BY <2>2, <2>3, <2>4, <2>5, <2>6 DEF Backed
  <1> QED BY <1>1, <1>2

-----------------------------------------------------------------------------
(* Acknowledged points: on disk at any time, and, from the end of the read *)
(* on, in memory, in SQLite or still to be replayed.                       *)
AckedFiled == \A p \in acked : SafeInDb(p) \/ ReplayReturns(p)

Up == phase \notin {"down", "read", "fatal"}

AckedWaits == Up => \A p \in acked : Held(p) \/ HasPoint(replay, p)

LEMMA AckedInit == Init => AckedFiled /\ AckedWaits
  BY DEF Init, AckedFiled, AckedWaits

LEMMA WaitsStep ==
  ASSUME ServerInv, HeldInv, Ground, AckedFiled, AckedWaits, [Next]_vars
  PROVE  AckedWaits'
  <1> SUFFICES ASSUME Up', NEW p \in acked'
               PROVE  Held(p)' \/ HasPoint(replay, p)'
    BY DEF AckedWaits
  <1>1. ASSUME Up, p \in acked, Held(p) => Held(p)', UNCHANGED replay
        PROVE  Held(p)' \/ HasPoint(replay, p)'
    BY <1>1 DEF AckedWaits, HasPoint
  <1>2. CASE UNCHANGED vars \/ Ended \/ FlusherWakes \/ Signal \/ ShutdownReturns \/ Exit \/ WalSyncs
    <2>1. UNCHANGED <<queue, batch, db, replay, acked>> /\ Up
      BY <1>2 DEF Ended, FlusherWakes, Started, Signal, ShutdownReturns, Exit, WalSyncs, WalSync,
                  vars, pipeVars, bufferVars, storeVars, ackVars, Up
    <2>2. Held(p) => Held(p)'
      BY <2>1 DEF Held, InMemory, SafeInDb, Stored
    <2> QED BY <1>1, <2>1, <2>2
  <1>3. CASE Recover
    <2>0. acked' = acked /\ (Held(p) => Held(p)')
      BY <1>3, RecoverHeld DEF Recover, Boot, RecoverRead, RecoverEnqueue, RecoverRetry,
                               RecoverFinal, RecoverFinish, ackVars
    <2>1. CASE RecoverRead
      <3>1. replay' = ReplayAfterCheckpoint
        BY <2>1 DEF RecoverRead, Up
      <3>2. /\ \A x : x \in LineSet(ReplayAfterCheckpoint) <=> x \in Spooled /\ x.seq > checkpoint
            /\ ReplayAfterCheckpoint \in Seq(Spooled)
        BY ReplayExact, ReplaySound
           DEF Ground, SegmentsNamed, ServerInv, LogOK, LogInv, SpoolInv
      <3>3. CASE SafeInDb(p)
        BY <2>0, <3>3 DEF Held
      <3>4. CASE ReplayReturns(p)
        <4>1. PICK r \in Spooled : r.point = p /\ r.seq > checkpoint
          BY <3>4 DEF ReplayReturns
        <4>2. r \in LineSet(replay')
          BY <3>1, <3>2, <4>1
        <4>3. PICK i \in 1..Len(replay') : replay'[i] = r
          BY <4>2 DEF LineSet
        <4>4. i \in DOMAIN replay'
          BY <3>1, <3>2
        <4> QED BY <4>1, <4>3, <4>4 DEF HasPoint
      <3> QED BY <2>0, <3>3, <3>4 DEF AckedFiled
    <2>2. CASE EnqueueChunk /\ phase \in {"enqueue", "retry"}
      <3> DEFINE m == ChunkSize
                 c == Chunk
                 rest == SubSeq(replay, m + 1, Len(replay))
      <3>1. /\ replay \in Seq(SpoolRecord) /\ Len(replay) \in Nat /\ m \in 0..Len(replay)
            /\ \A i \in DOMAIN replay : Fresh(replay[i])
            /\ Typed /\ BackedInv /\ UNCHANGED <<batch, db>>
        BY <1>3, BufferAssumption
           DEF ServerInv, QueueInv, LogOK, ReplayTyped, Numbered, HeldInv, ChunkSize, Recover, Boot,
               RecoverRead, RecoverEnqueue, RecoverRetry, RecoverFinal, RecoverFinish, pipeVars,
               storeVars
      <3>2. c = SubSeq(replay, 1, m) /\ replay' = rest /\ Enqueue(c)
        BY <2>2 DEF EnqueueChunk, Chunk
      <3> HIDE DEF m, c
      <3>3. c \in Seq(SpoolRecord) /\ rest \in Seq(SpoolRecord)
            /\ \A i \in DOMAIN c : ~c[i].checkpointOnly
        BY <3>1, <3>2 DEF Fresh
      <3>4. c \o rest = replay
        BY <3>1, <3>2, CutAt
      <3> HIDE DEF rest
      <3>5. HasPoint(replay, p) => HasPoint(c, p) \/ HasPoint(rest, p)
        BY <3>3, <3>4, AmongPending
      <3>6. ASSUME HasPoint(c, p) PROVE Held(p)'
        <4>1. PICK recs : recs = c
          OBVIOUS
        <4>2. /\ recs \in Seq(SpoolRecord) /\ Enqueue(recs)
              /\ \A i \in DOMAIN recs : ~recs[i].checkpointOnly
          BY <3>2, <3>3, <4>1
        <4>3. \A i \in DOMAIN recs : Held(recs[i].point)'
          BY <3>1, <4>2, EnqueueBacked
        <4>4. PICK i \in DOMAIN recs : recs[i].point = p
          BY <3>6, <4>1 DEF HasPoint
        <4> QED BY <4>3, <4>4
      <3>7. Held(p) \/ HasPoint(replay, p)
        BY <2>0, <2>2 DEF AckedWaits, Up
      <3>8. HasPoint(rest, p) => HasPoint(replay, p)'
        BY <3>2 DEF HasPoint
      <3> QED BY <2>0, <3>5, <3>6, <3>7, <3>8
    <2>3. CASE Up /\ UNCHANGED replay
      BY <1>1, <2>0, <2>3
    <2> QED BY <1>3, <2>1, <2>2, <2>3 DEF Recover, Boot, RecoverEnqueue, RecoverRetry, RecoverFinal,
                                          RecoverFinish, Up
  <1>4. ASSUME NEW h \in Handlers, HandleRequest(h) \/ HandlerStep(h)
        PROVE  Held(p)' \/ HasPoint(replay, p)'
    <2>1. Up /\ UNCHANGED replay
      BY <1>4 DEF HandleRequest, HandlerStep, HandleAppend, HandleAppendFails, HandleEnqueue,
                  HandleEnqueueRefused, HandleRespond, HandlerAt, Started, Up
    <2>2. Held(p) => Held(p)'
      BY <1>4, HandleHeld
    <2>3. CASE p \in acked
      BY <1>1, <2>1, <2>2, <2>3
    <2>4. CASE p \notin acked
      <3>1. HandleRespond(h)
        BY <1>4, <2>4 DEF HandleRequest, HandlerStep, HandleAppend, HandleAppendFails, HandleEnqueue,
                          HandleEnqueueRefused, ackVars
      <3>2. hpc[h] = "respond" /\ \E i \in DOMAIN request[h] : p = request[h][i]
        BY <2>4, <3>1 DEF HandleRespond, HandlerAt
      <3>3. Held(p)
        BY <3>2 DEF HeldInv, InFlight, Placed
      <3> QED BY <2>2, <3>3
    <2> QED BY <2>3, <2>4
  <1>5. CASE FlusherRuns
    BY <1>1, <1>5, FlushHeld DEF FlusherRuns, ackVars, Up
  <1>6. CASE Crash \/ PowerLoss
    BY <1>6 DEF Crash, PowerLoss, NewProcess, Up
  <1> QED BY <1>2, <1>3, <1>4, <1>5, <1>6 DEF Next

LEMMA AckedFiledStep ==
  ASSUME ServerInv, RecoveryInv, AckedFiled, AckedWaits', Backed', [Next]_vars,
         powerLosses' = powerLosses, ~PowerLoss
  PROVE  AckedFiled'
  <1>1. ASSUME NEW p \in acked', Up' PROVE SafeInDb(p)' \/ ReplayReturns(p)'
    <2>1. Held(p)' \/ HasPoint(replay, p)'
      BY <1>1 DEF AckedWaits
    <2>2. CASE SafeInDb(p)'
      BY <2>2
    <2>3. CASE ~SafeInDb(p)'
      <3>1. HasPoint(queue, p)' \/ HasPoint(batch, p)' \/ HasPoint(replay, p)'
        BY <2>1, <2>3 DEF Held, InMemory, HasPoint
      <3>2. PICK n : Owed(n, p)'
        BY <3>1 DEF HasPoint, Owed, Carries
      <3>3. Filed(n, p)'
        BY <2>3, <3>2 DEF Backed
      <3> QED BY <3>3 DEF Filed, ReplayReturns
    <2> QED BY <2>2, <2>3
  <1>2. ASSUME FlusherRuns \/ \E h \in Handlers : HandleRespond(h) PROVE Up'
    <2>1. CASE FlusherRuns
      <3>1. Running /\ phase' = phase /\ fpc # "idle"
        BY <2>1 DEF FlusherRuns, FlusherStep, PassStats, FlushDrain, FlushInsert, FlushInsertFails,
                    FlushCheckpoint, FlushCheckpointWrite, FlushCompact, FlushAgain, FlushRequeue
      <3> QED BY <3>1 DEF Running, Up, RecoveryInv, Between
    <2>2. CASE \E h \in Handlers : HandleRespond(h)
      BY <2>2 DEF HandleRespond, HandlerAt, Started, Up
    <2> QED BY <1>2, <2>1, <2>2
  <1>3. ASSUME ~FlusherRuns, ~\E h \in Handlers : HandleRespond(h), NEW p \in acked'
        PROVE  SafeInDb(p)' \/ ReplayReturns(p)'
    <2>1. acked' = acked /\ checkpoint' = checkpoint
      BY <1>3, AckedStays, CheckpointStays
    <2>2. SafeInDb(p) => SafeInDb(p)'
      BY SafeStays
    <2>3. ReplayReturns(p) => ReplayReturns(p)'
      BY <2>1, LineStays DEF ReplayReturns
    <2> QED BY <1>3, <2>1, <2>2, <2>3 DEF AckedFiled
  <1> QED BY <1>1, <1>2, <1>3 DEF AckedFiled

-----------------------------------------------------------------------------
(* The inductive invariant.                                                *)
DurableInv == Ground /\ (Sound => Order /\ Backed /\ AckedFiled /\ AckedWaits)

BaseInv == ServerInv /\ HeldInv /\ GivenInv /\ RecoveryInv

LEMMA DurableInit == Init => BaseInv /\ DurableInv
  BY ServerInvInit, HeldInit, GivenInit, RecoveryInit, GroundInit, OrderInit, BackedInit, AckedInit
     DEF BaseInv, DurableInv

LEMMA OrderStep ==
  ASSUME BaseInv, Ground, Order, ~reused, ~reused', [Next]_vars, [EnqueuedInOrder]_vars
  PROVE  Order'
  <1>1. CASE UNCHANGED vars
    <2>1. UNCHANGED <<queue, batch, replay, done, hpc, records>>
      BY <1>1 DEF vars, pipeVars, spoolVars, callVars, bufferVars, handlerVars
    <2>2. Pending' = Pending
      BY <2>1 DEF Pending
    <2> QED BY <2>1, <2>2, OrderStays DEF Order, Waiting
  <1>2. CASE Next /\ EnqueuedInOrder
    BY <1>1, <1>2, RecoverOrder, HandleOrder, FlushOrder, ProcessOrder DEF Next, Ended, BaseInv
  <1> QED BY <1>1, <1>2

LEMMA DurableStep ==
  ASSUME BaseInv, DurableInv, [Next]_vars, [EnqueuedInOrder]_vars
  PROVE  BaseInv' /\ DurableInv'
  <1>1. BaseInv'
    BY ServerInvStep, HeldStep, GivenStep, RecoveryStep DEF BaseInv
  <1>2. Ground'
    BY GroundStep DEF BaseInv, DurableInv
  <1>3. ASSUME Sound' PROVE Order' /\ Backed' /\ AckedFiled' /\ AckedWaits'
    <2>1. Sound /\ powerLosses' = powerLosses /\ ~PowerLoss
      BY <1>3, SoundBefore DEF BaseInv
    <2>2. Order /\ Backed /\ AckedFiled /\ AckedWaits /\ Ground
      BY <2>1 DEF DurableInv
    <2>3. Order'
      BY <1>3, <2>1, <2>2, OrderStep DEF Sound
    <2>4. Backed'
      BY <1>3, <2>1, <2>2, BackedStep DEF BaseInv
    <2>5. AckedWaits'
      BY <2>2, WaitsStep DEF BaseInv
    <2>6. AckedFiled'
      BY <2>1, <2>2, <2>4, <2>5, AckedFiledStep DEF BaseInv
    <2> QED BY <2>3, <2>4, <2>5, <2>6
  <1> QED BY <1>1, <1>2, <1>3 DEF DurableInv

LEMMA DurableRecoverable ==
  ASSUME BaseInv, DurableInv
  PROVE  AckedRecoverable /\ RecoveredHeld
  <1>1. ASSUME Sound, NEW p \in acked PROVE Recoverable(p)
    <2>1. SafeInDb(p) \/ ReplayReturns(p)
      BY <1>1 DEF DurableInv, AckedFiled
    <2>2. CASE SafeInDb(p)
      BY <2>2 DEF SafeInDb, Recoverable
    <2>3. CASE ReplayReturns(p)
      <3>1. PICK r \in Spooled : r.point = p
        BY <2>3 DEF ReplayReturns
      <3>2. p \in Points
        BY <3>1, SpooledFresh DEF BaseInv, ServerInv, LogOK, SpoolRecord
      <3> QED BY <2>3, <3>2 DEF Recoverable, StandsFor
    <2> QED BY <2>1, <2>2, <2>3
  <1>2. ASSUME Sound, Started, NEW p \in acked PROVE InMemory(p) \/ SafeInDb(p)
    <2>1. replay = <<>> /\ Up
      BY <1>2 DEF DurableInv, Ground, ReplayedFirst, Started, Up
    <2>2. ~HasPoint(replay, p)
      BY <2>1 DEF HasPoint
    <2> QED BY <1>2, <2>1, <2>2 DEF DurableInv, AckedWaits, Held
  <1> QED BY <1>1, <1>2 DEF AckedRecoverable, AckedSurvivesCrash, RecoveredHeld, Sound

LEMMA DurableSpec ==
  Spec /\ [][EnqueuedInOrder]_vars => [](AckedRecoverable /\ RecoveredHeld)
  <1>1. /\ BaseInv /\ DurableInv /\ [Next]_vars /\ [EnqueuedInOrder]_vars
        => (BaseInv /\ DurableInv)'
    BY DurableStep
  <1>2. BaseInv /\ DurableInv => AckedRecoverable /\ RecoveredHeld
    BY DurableRecoverable
  <1> QED BY <1>1, <1>2, DurableInit, PTL DEF Spec

(* Requests enqueued in the order of their appends: then every acknowledged *)
(* point, or the one it repeats, is at any time in SQLite or returned by    *)
(* the next replay, whatever fails, wherever the process is killed, however *)
(* often it restarts, as long as no sequence number was used twice and the  *)
(* power did not fail.  The three known ways to lose a point are thus all   *)
(* there are.                                                               *)
THEOREM AckedIsRecoverable == Spec /\ [][EnqueuedInOrder]_vars => []AckedRecoverable
  BY DurableSpec, PTL

(* And once a restarted process serves, every point that was ever           *)
(* acknowledged is in its memory or in SQLite.                              *)
THEOREM RecoveryHoldsAcked == Spec /\ [][EnqueuedInOrder]_vars => []RecoveredHeld
  BY DurableSpec, PTL

-----------------------------------------------------------------------------
(* Shutdown.  A record that was enqueued waits for the checkpoint, in the  *)
(* queue or in the batch being flushed, until the checkpoint has passed    *)
(* it; DrainInv (ServerProofs) says that a clean shutdown leaves none      *)
(* waiting.                                                                *)
ToCheckpoint(n) == n <= checkpoint \/ n \in Numbers(Pending)

CommittedBatch == fpc = "compact" => \A n \in Numbers(batch) : n <= checkpoint

EnqueuedWaits ==
  \A h \in Handlers : hpc[h] = "respond" => \A n \in Numbers(records[h]) : ToCheckpoint(n)

AnsweredWaits == \A r \in ackedRecords : ToCheckpoint(r.seq)

WaitsInv == CommittedBatch /\ EnqueuedWaits /\ AnsweredWaits

LEMMA WaitsInit == Init => WaitsInv
  BY DEF Init, FlusherInit, WaitsInv, CommittedBatch, EnqueuedWaits, AnsweredWaits

(* Enqueue puts the numbers of the records behind those that wait.         *)
LEMMA EnqueueAdds ==
  ASSUME Typed, NEW recs \in Seq(SpoolRecord), Enqueue(recs), batch' = batch
  PROVE  Numbers(Pending') = Numbers(Pending) \cup Numbers(recs)
  <1> DEFINE out == FilterNearDuplicates(recs).out
             all == Pending
  <1>1. /\ out \in Seq(SpoolRecord) /\ Len(out) = Len(recs)
        /\ \A i \in 1..Len(recs) : out[i].seq = recs[i].seq
    BY FilterKeepsLength
  <1>2. queue' = queue \o out
    BY DEF Enqueue
  <1>3. all \in Seq(SpoolRecord)
    BY ConcatProperties DEF Typed, Pending
  <1> HIDE DEF out
  <1>4. Pending' = all \o out
    BY <1>1, <1>2, Regroup DEF Typed, Pending
  <1>5. Numbers(out) = Numbers(recs)
    BY <1>1, SameNumbers
  <1>6. Numbers(all) = Numbers(Pending)
    OBVIOUS
  <1> HIDE DEF all
  <1> QED BY <1>1, <1>3, <1>4, <1>5, <1>6, NumbersConcat

(* What a flush pass takes out of memory the checkpoint has passed.        *)
LEMMA FlushWaits ==
  ASSUME ServerInv, CommittedBatch, FlusherRuns, NEW n \in Numbers(Pending)
  PROVE  n <= checkpoint \/ n \in Numbers(Pending')
  <1>0. queue \in Seq(SpoolRecord) /\ batch \in Seq(SpoolRecord)
    BY DEF ServerInv, QueueInv, Typed
  <1>1. CASE PassStats \/ FlushInsert \/ FlushInsertFails \/ FlushCheckpoint \/ FlushCheckpointWrite
             \/ FlushAgain
    <2>1. UNCHANGED <<queue, batch>>
      BY <1>1 DEF PassStats, FlushInsert, FlushInsertFails, FlushCheckpoint, FlushCheckpointWrite,
                  FlushAgain, bufferVars
    <2> QED BY <2>1 DEF Pending
  <1>2. CASE FlushDrain
    <2>1. batch' \o queue' = queue
      BY <1>0, <1>2, DrainMoves DEF FlushDrain
    <2>2. batch = <<>>
      BY <1>2 DEF FlushDrain, ServerInv, QueueInv, Flushed
    <2> QED BY <1>0, <2>1, <2>2 DEF Pending
  <1>3. CASE FlushRequeue
    <2>1. queue' = batch \o queue /\ batch' = <<>>
      BY <1>3 DEF FlushRequeue, RequeueFront
    <2>2. Pending' = Pending
      BY <1>0, <2>1, ConcatProperties DEF Pending
    <2> QED BY <2>2
  <1>4. CASE FlushCompact
    <2>1. fpc = "compact" /\ batch' = <<>> /\ queue' = queue
      BY <1>4 DEF FlushCompact, bufferVars
    <2>2. Pending' = queue
      BY <1>0, <2>1 DEF Pending
    <2>3. n \in Numbers(batch) \/ n \in Numbers(queue)
      BY <1>0, NumbersConcat DEF Pending
    <2> QED BY <2>1, <2>2, <2>3 DEF CommittedBatch
  <1> QED BY <1>1, <1>2, <1>3, <1>4 DEF FlusherRuns, FlusherStep

(* Only the end of the process takes anything else out of memory.          *)
LEMMA ToCheckpointStays ==
  ASSUME ServerInv, CommittedBatch, [Next]_vars, ~(Crash \/ PowerLoss),
         NEW n \in Nat, ToCheckpoint(n)
  PROVE  ToCheckpoint(n)'
  <1>1. checkpoint <= checkpoint' /\ checkpoint \in Nat /\ checkpoint' \in Nat
    BY LogStepServer DEF ServerInv, LogOK, SpoolInv, SpoolTypeOK
  <1>2. CASE n <= checkpoint
    BY <1>1, <1>2 DEF ToCheckpoint
  <1>3. CASE n \in Numbers(Pending)
    <2>1. CASE UNCHANGED <<queue, batch>>
      BY <1>3, <2>1 DEF ToCheckpoint, Pending
    <2>2. CASE FlusherRuns
      BY <1>1, <1>3, <2>2, FlushWaits DEF ToCheckpoint
    <2>3. CASE EnqueueChunk /\ batch' = batch
      <3>1. replay \in Seq(SpoolRecord) /\ ChunkSize \in 0..Len(replay)
        BY BufferAssumption DEF ServerInv, LogOK, ReplayTyped, ChunkSize
      <3>2. Chunk \in Seq(SpoolRecord)
        BY <3>1 DEF Chunk
      <3>3. Numbers(Pending') = Numbers(Pending) \cup Numbers(Chunk)
        BY <2>3, <3>2, EnqueueAdds DEF EnqueueChunk, ServerInv, QueueInv
      <3> QED BY <1>3, <3>3 DEF ToCheckpoint
    <2>4. CASE Recover
      <3>1. batch' = batch /\ (EnqueueChunk \/ UNCHANGED queue)
        BY <2>4 DEF Recover, Boot, RecoverRead, RecoverEnqueue, RecoverRetry, RecoverFinal,
                    RecoverFinish, EnqueueRefused, pipeVars, bufferVars
      <3> QED BY <2>1, <2>3, <3>1
    <2>5. ASSUME NEW h \in Handlers, HandleRequest(h) \/ HandlerStep(h)
          PROVE  ToCheckpoint(n)'
      <3>1. CASE HandleEnqueue(h)
        <4>1. records[h] \in Seq(SpoolRecord)
          BY DEF ServerInv, QueueInv, Typed
        <4>2. Numbers(Pending') = Numbers(Pending) \cup Numbers(records[h])
          BY <3>1, <4>1, EnqueueAdds DEF HandleEnqueue, ServerInv, QueueInv
        <4> QED BY <1>3, <4>2 DEF ToCheckpoint
      <3>2. CASE ~HandleEnqueue(h)
        <4>1. UNCHANGED <<queue, batch>>
          BY <2>5, <3>2 DEF HandleRequest, HandlerStep, HandleAppend, HandleAppendFails,
                            HandleEnqueueRefused, HandleRespond, pipeVars, bufferVars
        <4> QED BY <2>1, <4>1
      <3> QED BY <3>1, <3>2
    <2>6. CASE FlusherWakes \/ Signal \/ ShutdownReturns \/ Exit \/ WalSyncs \/ Ended \/ UNCHANGED vars
      <3>1. UNCHANGED <<queue, batch>>
        BY <2>6 DEF FlusherWakes, Signal, ShutdownReturns, Exit, WalSyncs, Ended, vars, pipeVars,
                    bufferVars
      <3> QED BY <2>1, <3>1
    <2> QED BY <2>2, <2>4, <2>5, <2>6 DEF Next
  <1> QED BY <1>2, <1>3 DEF ToCheckpoint

(* The batch reaches "compact" only when the checkpoint is past it.        *)
LEMMA CommittedStep ==
  ASSUME ServerInv, Ground, CommittedBatch, [Next]_vars
  PROVE  CommittedBatch'
  <1> SUFFICES ASSUME fpc' = "compact", NEW n \in Numbers(batch')
               PROVE  n <= checkpoint'
    BY DEF CommittedBatch
  <1>1. ASSUME fpc = "compact", batch' = batch
        PROVE  n <= checkpoint'
    <2>1. n <= checkpoint /\ checkpoint <= checkpoint' /\ checkpoint \in Nat /\ checkpoint' \in Nat
      BY <1>1, LogStepServer DEF CommittedBatch, ServerInv, LogOK, SpoolInv, SpoolTypeOK
    <2>2. n \in Nat
      <3>1. batch \in Seq(SpoolRecord)
        BY DEF ServerInv, QueueInv, Typed
      <3> QED BY <1>1, <3>1, NumbersAre
    <2> QED BY <2>1, <2>2
  <1>2. CASE FlusherRuns
    <2>1. CASE FlushCheckpoint
      <3>1. CheckpointCurrent(MaxSeqOf(batch)) /\ batch' = batch /\ fpc = "checkpoint"
        BY <2>1 DEF FlushCheckpoint, GoTo
      <3>2. MaxSeqOf(batch) <= checkpoint' /\ checkpoint' \in Nat
        BY <3>1 DEF CheckpointCurrent, spoolVars, diskVars, ServerInv, LogOK, SpoolInv, SpoolTypeOK
      <3>3. MaxSeqOf(batch) \in Nat /\ \A m \in Numbers(batch) : m <= MaxSeqOf(batch) /\ m \in Nat
        BY <3>1, MaxOfBatch, NumbersAre DEF ServerInv, QueueInv, Typed
      <3> QED BY <3>1, <3>2, <3>3
    <2>2. CASE FlushCheckpointWrite
      <3>1. CheckpointWrite(FlusherCaller) /\ batch' = batch /\ fpc = "write"
        BY <2>2 DEF FlushCheckpointWrite, GoTo, EndPass
      <3>2. checkpoint' = MaxSeqOf(batch)
        BY <3>1 DEF CheckpointWrite, Ground, StoresBatch
      <3> QED BY <3>1, <3>2, MaxOfBatch
    <2>3. CASE ~FlushCheckpoint /\ ~FlushCheckpointWrite
      <3>1. fpc' \in {"idle", "stopped", "stats", "drain", "insert", "checkpoint", "again", "requeue"}
        BY <1>2, <2>3 DEF FlusherRuns, FlusherStep, PassStats, FlushDrain, FlushInsert,
                          FlushInsertFails, FlushCompact, FlushAgain, FlushRequeue, GoTo, EndPass
      <3> QED BY <3>1
    <2> QED BY <2>1, <2>2, <2>3
  <1>3. CASE Crash \/ PowerLoss
    BY <1>3 DEF Crash, PowerLoss, NewProcess, FlusherReset
  <1>4. CASE Recover
    <2>1. fpc = "compact" /\ batch' = batch
      BY <1>4 DEF Recover, Boot, RecoverRead, RecoverEnqueue, RecoverRetry, RecoverFinal,
                  RecoverFinish, EnqueueChunk, FlushNow, StartPass, pipeVars, flusherVars
    <2> QED BY <1>1, <2>1
  <1>5. ASSUME NEW h \in Handlers, HandleRequest(h) \/ HandlerStep(h)
        PROVE  n <= checkpoint'
    <2>1. fpc = "compact" /\ batch' = batch
      BY <1>5 DEF HandleRequest, HandlerStep, HandleAppend, HandleAppendFails, HandleEnqueue,
                  HandleEnqueueRefused, HandleRespond, pipeVars, flusherVars
    <2> QED BY <1>1, <2>1
  <1>6. CASE FlusherWakes \/ Signal \/ ShutdownReturns \/ Exit \/ WalSyncs \/ Ended \/ UNCHANGED vars
    <2>1. fpc = "compact" /\ batch' = batch
      BY <1>6 DEF FlusherWakes, TimerTick, TriggerReceived, StopReceived, StartPass, Signal,
                  ShutdownReturns, Exit, WalSyncs, Ended, vars, pipeVars, flusherVars
    <2> QED BY <1>1, <2>1
  <1> QED BY <1>2, <1>3, <1>4, <1>5, <1>6 DEF Next

(* A handler that is to respond has just enqueued, or waits to go on.      *)
LEMMA RespondsAfter ==
  ASSUME ServerInv, [Next]_vars, ~(Crash \/ PowerLoss), NEW h \in Handlers, hpc'[h] = "respond"
  PROVE  \/ hpc[h] = "respond" /\ records'[h] = records[h]
         \/ HandleEnqueue(h)
  <1>0. /\ hpc \in [Handlers -> {"idle", "append", "spool", "enqueue", "respond"}]
        /\ records \in [Handlers -> Seq(SpoolRecord)]
    BY DEF ServerInv, QueueInv, Typed, LogOK, Working
  <1>1. ASSUME NEW g \in Handlers, HandleRequest(g) \/ HandlerStep(g), g # h
        PROVE  hpc'[h] = hpc[h] /\ records'[h] = records[h]
    BY <1>0, <1>1 DEF HandleRequest, HandlerStep, HandleAppend, HandleAppendFails, HandleEnqueue,
                      HandleEnqueueRefused, HandleRespond, HandlerAt
  <1>2. CASE HandleRequest(h) \/ HandlerStep(h)
    <2>1. hpc'[h] \in {"append", "spool", "enqueue", "idle"} \/ HandleEnqueue(h)
      BY <1>0, <1>2 DEF HandleRequest, HandlerStep, HandleAppend, HandleAppendFails,
                        HandleEnqueueRefused, HandleRespond, HandlerAt
    <2> QED BY <2>1
  <1>3. CASE Recover \/ FlusherWakes \/ FlusherRuns \/ Signal \/ ShutdownReturns \/ Exit
             \/ WalSyncs \/ Ended \/ UNCHANGED vars
    BY <1>3 DEF Recover, Boot, RecoverRead, RecoverEnqueue, RecoverRetry, RecoverFinal,
           RecoverFinish, FlusherWakes, FlusherRuns, Signal, ShutdownReturns, Exit, WalSyncs,
           Ended, vars, handlerVars
  <1> QED BY <1>1, <1>2, <1>3 DEF Next

LEMMA WaitsInvStep ==
  ASSUME ServerInv, Ground, WaitsInv, RestTyped, [Next]_vars
  PROVE  WaitsInv'
  <1>1. CommittedBatch'
    BY CommittedStep DEF WaitsInv
  <1>2. CASE Crash \/ PowerLoss
    BY <1>1, <1>2 DEF Crash, PowerLoss, NewProcess, WaitsInv, EnqueuedWaits, AnsweredWaits
  <1>3. CASE ~(Crash \/ PowerLoss)
    <2>1. ASSUME NEW n \in Nat, ToCheckpoint(n)
          PROVE  ToCheckpoint(n)'
      BY <1>3, <2>1, ToCheckpointStays DEF WaitsInv
    <2>2. ASSUME NEW h \in Handlers PROVE Numbers(records[h]) \subseteq Nat
      BY NumbersAre DEF ServerInv, QueueInv, Typed
    <2>3. EnqueuedWaits'
      <3> SUFFICES ASSUME NEW h \in Handlers, hpc'[h] = "respond", NEW n \in Numbers(records'[h])
                   PROVE  ToCheckpoint(n)'
        BY DEF EnqueuedWaits
      <3>1. \/ hpc[h] = "respond" /\ records'[h] = records[h]
            \/ HandleEnqueue(h)
        BY <1>3, RespondsAfter
      <3>2. CASE hpc[h] = "respond" /\ records'[h] = records[h]
        BY <2>1, <2>2, <3>2 DEF WaitsInv, EnqueuedWaits
      <3>3. CASE HandleEnqueue(h)
        <4>1. records[h] \in Seq(SpoolRecord) /\ records' = records
          BY <3>3 DEF ServerInv, QueueInv, Typed, HandleEnqueue
        <4>2. Numbers(Pending') = Numbers(Pending) \cup Numbers(records[h])
          BY <3>3, <4>1, EnqueueAdds DEF HandleEnqueue, ServerInv, QueueInv
        <4> QED BY <4>1, <4>2 DEF ToCheckpoint
      <3> QED BY <3>1, <3>2, <3>3
    <2>4. AnsweredWaits'
      <3>1. ASSUME NEW r \in ackedRecords PROVE ToCheckpoint(r.seq)'
        <4>1. r.seq \in Nat
          BY DEF RestTyped, SpoolRecord
        <4> QED BY <2>1, <4>1 DEF WaitsInv, AnsweredWaits
      <3>2. ASSUME NEW h \in Handlers, HandleRespond(h), NEW n \in Numbers(records[h])
            PROVE  ToCheckpoint(n)'
        <4>1. hpc[h] = "respond"
          BY <3>2 DEF HandleRespond, HandlerAt
        <4>2. ToCheckpoint(n) /\ n \in Nat
          BY <2>2, <3>2, <4>1 DEF WaitsInv, EnqueuedWaits
        <4> QED BY <2>1, <4>2
      <3>3. ackedRecords' = ackedRecords \/ \E h \in Handlers : HandleRespond(h)
        BY <1>3, AckedRecordsStay
      <3>4. ASSUME NEW r \in ackedRecords'
            PROVE  r \in ackedRecords
                     \/ \E h \in Handlers : HandleRespond(h) /\ r.seq \in Numbers(records[h])
        BY <3>3, <3>4 DEF HandleRespond, Numbers
      <3>5. ASSUME NEW r \in ackedRecords' PROVE ToCheckpoint(r.seq)'
        BY <3>1, <3>2, <3>4, <3>5
      <3> QED BY <3>5 DEF AnsweredWaits
    <2> QED BY <1>1, <2>3, <2>4 DEF WaitsInv
  <1> QED BY <1>2, <1>3

(* A shutdown without timeouts and flush errors leaves nothing in memory,  *)
(* every point the process acknowledged in SQLite and the checkpoint past  *)
(* every record it acknowledged, whichever handlers were still at work     *)
(* when the signal came and in whatever order they enqueued.               *)
THEOREM ShutdownDrains == Spec => []GracefulDrain
  <1> DEFINE Inv == /\ BaseInv /\ Ground /\ RestTyped
                    /\ DrainInv /\ clean \in BOOLEAN /\ WaitsInv
  <1>1. Init => Inv
    BY DurableInit, RestTypedInit, DrainInit, WaitsInit DEF Init, DurableInv
  <1>2. Inv /\ [Next]_vars => Inv'
    BY ServerInvStep, HeldStep, GivenStep, RecoveryStep, GroundStep, RestTypedStep, DrainStep,
       WaitsInvStep DEF BaseInv
  <1>3. Inv => GracefulDrain
    <2> SUFFICES ASSUME Inv, phase = "exited", clean
                 PROVE  /\ queue = <<>> /\ batch = <<>>
                        /\ \A p \in ackedHere : SafeInDb(p)
                        /\ \A r \in ackedRecords : r.seq <= checkpoint
      BY DEF GracefulDrain
    <2>1. queue = <<>> /\ batch = <<>>
      BY DEF DrainInv, Drained, ExitsAfter, BaseInv, ServerInv, QueueInv, Flushed
    <2>2. \A p : ~InMemory(p)
      BY <2>1 DEF InMemory
    <2>3. Numbers(Pending) = {}
      BY <2>1, EmptyInOrder DEF Pending
    <2>4. \A r \in ackedRecords : r.seq <= checkpoint
      BY <2>3 DEF WaitsInv, AnsweredWaits, ToCheckpoint
    <2> QED BY <2>1, <2>2, <2>4 DEF BaseInv, HeldInv, AckedHeld
  <1> HIDE DEF Inv
  <1> QED BY <1>1, <1>2, <1>3, PTL DEF Spec
=============================================================================
