------------------------- MODULE RateLimiterProofs --------------------------
(***************************************************************************)
(* The rate limiter lets in at most two full windows back to back, for     *)
(* every limit, window, number of clients and cleanup threshold.           *)
(***************************************************************************)
EXTENDS RateLimiter, TLAPS

(* A call decides by a time that is at most MaxDelay behind the clock.     *)
StampsRecent ==
  \A r \in Requests :
    calls[r] # NoCall => calls[r].stamp <= now /\ now <= calls[r].stamp + MaxDelay

(* A history is in order, not in the future and no longer than intended.   *)
InOrder(s, t) ==
  /\ Len(s) <= 2 * Limit
  /\ \A i \in 1..Len(s) : s[i] <= t
  /\ \A i, j \in 1..Len(s) : i <= j => s[i] <= s[j]

(* The last count requests are those of the open window.  Its first came   *)
(* when the window began, and the Limit-th before that a window earlier.   *)
WindowFits(s, start, count) ==
  /\ count <= Len(s)
  /\ s[Len(s) - count + 1] <= start + MaxDelay
  /\ Len(s) - count >= Limit =>
       s[Len(s) - count - Limit + 1] <= start - WindowLength + MaxDelay

(* The Limit-th request from the end came long enough before t.            *)
LongBefore(s, t) == Len(s) >= Limit => s[Len(s) - Limit + 1] <= t

Bounded(s) == Len(s) = 2 * Limit => s[2 * Limit] - s[1] >= WindowLength - MaxDelay

(* An entry is missing only if its window was over long ago.               *)
ClientInv(c) ==
  /\ InOrder(recent[c], now)
  /\ Bounded(recent[c])
  /\ c \in DOMAIN entries =>
       /\ entries[c].windowStart <= now
       /\ WindowFits(recent[c], entries[c].windowStart, entries[c].count)
  /\ c \notin DOMAIN entries => LongBefore(recent[c], now - 2 * WindowLength + MaxDelay)

LimiterInv ==
  /\ TypeOK
  /\ StampsRecent
  /\ \A c \in Clients : ClientInv(c)

-----------------------------------------------------------------------------
(* What pushing a time does to a history: Push.                            *)
LEMMA PushFacts ==
  ASSUME NEW s \in Seq(Nat), Len(s) <= 2 * Limit, NEW t \in Nat
  PROVE  /\ Push(s, t) \in Seq(Nat)
         /\ Len(Push(s, t)) \in Nat \ {0}
         /\ Len(Push(s, t)) = IF Len(s) = 2 * Limit THEN Len(s) ELSE Len(s) + 1
         /\ Push(s, t)[Len(Push(s, t))] = t
         /\ \A i \in 1..Len(Push(s, t)) - 1 :
              Push(s, t)[i] = s[i + (Len(s) + 1 - Len(Push(s, t)))]
<1>1. Limit \in Nat /\ Limit >= 1
  BY LimiterAssumption
<1>2. CASE Len(s) = 2 * Limit
  <2>1. s # <<>> /\ Tail(s) \in Seq(Nat) /\ Len(Tail(s)) = Len(s) - 1
    BY <1>1, <1>2
  <2>2. \A i \in 1..Len(s) - 1 : Tail(s)[i] = s[i + 1]
    BY <2>1
  <2>3. Push(s, t) = Append(Tail(s), t)
    BY <1>2 DEF Push
  <2>4. /\ Push(s, t) \in Seq(Nat) /\ Len(Push(s, t)) = Len(s)
        /\ Push(s, t)[Len(s)] = t
        /\ \A i \in 1..Len(s) - 1 : Push(s, t)[i] = Tail(s)[i]
    BY <2>1, <2>3, <1>1, <1>2
  <2> QED
    BY <2>1, <2>2, <2>4, <1>1, <1>2
<1>3. CASE Len(s) # 2 * Limit
  <2>1. Push(s, t) = Append(s, t)
    BY <1>3 DEF Push
  <2>2. /\ Push(s, t) \in Seq(Nat) /\ Len(Push(s, t)) = Len(s) + 1
        /\ Push(s, t)[Len(s) + 1] = t
        /\ \A i \in 1..Len(s) : Push(s, t)[i] = s[i]
    BY <2>1
  <2> QED
    BY <2>2, <1>3, <1>1
<1> QED
  BY <1>2, <1>3

(* A history stays in order when the present is pushed: LetIn.             *)
LEMMA PushInOrder ==
  ASSUME NEW s \in Seq(Nat), NEW t \in Nat, InOrder(s, t)
  PROVE  InOrder(Push(s, t), t)
<1> DEFINE p == Push(s, t)
<1>1. Len(s) <= 2 * Limit /\ Limit \in Nat /\ Limit >= 1 /\ Len(s) \in Nat
  BY LimiterAssumption DEF InOrder
<1>2. /\ p \in Seq(Nat) /\ Len(p) \in Nat \ {0}
      /\ Len(p) = IF Len(s) = 2 * Limit THEN Len(s) ELSE Len(s) + 1
      /\ p[Len(p)] = t
      /\ \A i \in 1..Len(p) - 1 : p[i] = s[i + (Len(s) + 1 - Len(p))]
  BY <1>1, PushFacts
<1> HIDE DEF p
<1>3. \A i \in 1..Len(p) - 1 : i + (Len(s) + 1 - Len(p)) \in 1..Len(s)
  BY <1>1, <1>2, SMTT(30)
<1>4. \A i \in 1..Len(p) : p[i] <= t
  <2> TAKE i \in 1..Len(p)
  <2>1. CASE i = Len(p)
    BY <2>1, <1>2
  <2>2. CASE i \in 1..Len(p) - 1
    BY <2>2, <1>2, <1>3 DEF InOrder
  <2> QED
    BY <2>1, <2>2, <1>2
<1>5. ASSUME NEW i \in 1..Len(p), NEW j \in 1..Len(p), i <= j
      PROVE  p[i] <= p[j]
  <2>1. CASE j = Len(p)
    BY <2>1, <1>2, <1>4
  <2>2. CASE j \in 1..Len(p) - 1
    <3>1. i \in 1..Len(p) - 1
      BY <1>5, <2>2, <1>2
    <3>2. i + (Len(s) + 1 - Len(p)) <= j + (Len(s) + 1 - Len(p))
      BY <1>5, <1>1, <1>2
    <3> QED
      BY <3>1, <3>2, <2>2, <1>2, <1>3 DEF InOrder
  <2> QED
    BY <2>1, <2>2, <1>2
<1>6. Len(p) <= 2 * Limit
  BY <1>1, <1>2
<1> QED
  BY <1>4, <1>5, <1>6 DEF InOrder, p

(* The first request of a window: AllowFirst.                              *)
LEMMA PushFirst ==
  ASSUME NEW s \in Seq(Nat), NEW t \in Nat, NEW stamp \in Nat,
         InOrder(s, t), stamp <= t, t <= stamp + MaxDelay,
         LongBefore(s, stamp - WindowLength + MaxDelay)
  PROVE  WindowFits(Push(s, t), stamp, 1) /\ Bounded(Push(s, t))
<1> DEFINE p == Push(s, t)
<1>1. /\ Len(s) <= 2 * Limit /\ Len(s) \in Nat
      /\ Limit \in Nat /\ Limit >= 1 /\ WindowLength \in Nat /\ MaxDelay \in Nat
  BY LimiterAssumption DEF InOrder
<1>2. /\ p \in Seq(Nat) /\ Len(p) \in Nat \ {0}
      /\ Len(p) = IF Len(s) = 2 * Limit THEN Len(s) ELSE Len(s) + 1
      /\ p[Len(p)] = t
      /\ \A i \in 1..Len(p) - 1 : p[i] = s[i + (Len(s) + 1 - Len(p))]
  BY <1>1, PushFacts
<1>3. InOrder(p, t)
  BY PushInOrder
<1>n. \A i \in 1..Len(p) : p[i] \in Nat
  <2>1. p \in Seq(Nat)
    BY <1>2
  <2> HIDE DEF p
  <2> QED
    BY <2>1
<1> HIDE DEF p
<1>4. Len(p) - 1 >= Limit => p[Len(p) - Limit] <= stamp - WindowLength + MaxDelay
  <2> SUFFICES ASSUME Len(p) - 1 >= Limit
               PROVE  p[Len(p) - Limit] <= stamp - WindowLength + MaxDelay
    OBVIOUS
  <2>1. Len(p) - Limit \in 1..Len(p) - 1 /\ Len(s) >= Limit
    BY <1>1, <1>2
  <2>2. p[Len(p) - Limit] = s[(Len(p) - Limit) + (Len(s) + 1 - Len(p))]
    BY <2>1, <1>2
  <2>3. (Len(p) - Limit) + (Len(s) + 1 - Len(p)) = Len(s) - Limit + 1
    BY <1>1, <1>2
  <2> QED
    BY <2>1, <2>2, <2>3 DEF LongBefore
<1>5. WindowFits(p, stamp, 1)
  <2>1. Len(p) - 1 + 1 = Len(p) /\ Len(p) - 1 - Limit + 1 = Len(p) - Limit
    BY <1>1, <1>2
  <2> QED
    BY <2>1, <1>1, <1>2, <1>4 DEF WindowFits
<1>6. Bounded(p)
  <2> SUFFICES ASSUME Len(p) = 2 * Limit
               PROVE  p[2 * Limit] - p[1] >= WindowLength - MaxDelay
    BY DEF Bounded
  <2>1. Len(p) - 1 >= Limit /\ Len(p) - Limit = Limit /\ 1 \in 1..Len(p) /\ Limit \in 1..Len(p)
    BY <1>1
  <2>2. p[1] <= p[Limit]
    BY <1>1, <1>3, <2>1 DEF InOrder
  <2>3. p[1] \in Nat /\ p[Limit] \in Nat
    BY <1>n, <2>1
  <2>4. p[Limit] <= stamp - WindowLength + MaxDelay
    BY <2>1, <1>4
  <2>5. p[2 * Limit] = t
    BY <1>2
  <2> QED
    BY <2>2, <2>3, <2>4, <2>5, <1>1
<1> QED
  BY <1>5, <1>6 DEF p

(* A further request of a window: AllowNext.                               *)
LEMMA PushNext ==
  ASSUME NEW s \in Seq(Nat), NEW t \in Nat, NEW start \in Nat, NEW count \in 1..Limit,
         InOrder(s, t), start <= t, count < Limit, WindowFits(s, start, count)
  PROVE  WindowFits(Push(s, t), start, count + 1) /\ Bounded(Push(s, t))
<1> DEFINE p == Push(s, t)
<1>1. /\ Len(s) <= 2 * Limit /\ Len(s) \in Nat /\ count \in Nat /\ count >= 1 /\ count <= Len(s)
      /\ Limit \in Nat /\ Limit >= 1 /\ WindowLength \in Nat /\ MaxDelay \in Nat
  BY LimiterAssumption DEF InOrder, WindowFits
<1>2. /\ p \in Seq(Nat) /\ Len(p) \in Nat \ {0}
      /\ Len(p) = IF Len(s) = 2 * Limit THEN Len(s) ELSE Len(s) + 1
      /\ p[Len(p)] = t
      /\ \A i \in 1..Len(p) - 1 : p[i] = s[i + (Len(s) + 1 - Len(p))]
  BY <1>1, PushFacts
<1>3. InOrder(p, t)
  BY PushInOrder
<1>n. \A i \in 1..Len(p) : p[i] \in Nat
  <2>1. p \in Seq(Nat)
    BY <1>2
  <2> HIDE DEF p
  <2> QED
    BY <2>1
<1> HIDE DEF p
<1>4. count + 1 <= Len(p)
  BY <1>1, <1>2, SMTT(30)
<1>5. p[Len(p) - count] <= start + MaxDelay
  <2>1. Len(p) - count \in 1..Len(p) - 1
    BY <1>1, <1>2, <1>4
  <2>2. (Len(p) - count) + (Len(s) + 1 - Len(p)) = Len(s) - count + 1
    BY <1>1, <1>2
  <2> QED
    BY <2>1, <2>2, <1>2 DEF WindowFits
<1>6. Len(p) - (count + 1) >= Limit =>
        p[Len(p) - count - Limit] <= start - WindowLength + MaxDelay
  <2> SUFFICES ASSUME Len(p) - (count + 1) >= Limit
               PROVE  p[Len(p) - count - Limit] <= start - WindowLength + MaxDelay
    OBVIOUS
  <2>1. Len(p) - count - Limit \in 1..Len(p) - 1 /\ Len(s) - count >= Limit
    BY <1>1, <1>2, SMTT(30)
  <2>2. (Len(p) - count - Limit) + (Len(s) + 1 - Len(p)) = Len(s) - count - Limit + 1
    BY <1>1, <1>2
  <2> QED
    BY <2>1, <2>2, <1>2 DEF WindowFits
<1>7. WindowFits(p, start, count + 1)
  <2>1. /\ Len(p) - (count + 1) + 1 = Len(p) - count
        /\ Len(p) - (count + 1) - Limit + 1 = Len(p) - count - Limit
    BY <1>1, <1>2
  <2> QED
    BY <2>1, <1>4, <1>5, <1>6 DEF WindowFits
<1>8. Bounded(p)
  <2> SUFFICES ASSUME Len(p) = 2 * Limit
               PROVE  p[2 * Limit] - p[1] >= WindowLength - MaxDelay
    BY DEF Bounded
  <2>1. /\ Len(p) - (count + 1) >= Limit
        /\ 1 \in 1..Len(p) /\ Len(p) - count - Limit \in 1..Len(p)
        /\ 1 <= Len(p) - count - Limit
    BY <1>1
  <2>2. p[1] <= p[Len(p) - count - Limit]
    BY <1>3, <2>1 DEF InOrder
  <2>3. p[1] \in Nat /\ p[Len(p) - count - Limit] \in Nat
    BY <1>n, <2>1
  <2>4. p[Len(p) - count - Limit] <= start - WindowLength + MaxDelay
    BY <2>1, <1>6
  <2>5. p[2 * Limit] = t
    BY <1>2
  <2> QED
    BY <2>2, <2>3, <2>4, <2>5, <1>1
<1> QED
  BY <1>7, <1>8 DEF p

(* When a window has begun, the Limit-th last request is not after that.   *)
LEMMA FitsLongBefore ==
  ASSUME NEW s \in Seq(Nat), NEW t \in Nat, NEW start \in Nat, NEW count \in 1..Limit,
         InOrder(s, t), WindowFits(s, start, count), NEW u \in Int, start + MaxDelay <= u
  PROVE  LongBefore(s, u)
<1> SUFFICES ASSUME Len(s) >= Limit
             PROVE  s[Len(s) - Limit + 1] <= u
  BY DEF LongBefore
<1>1. /\ Len(s) \in Nat /\ count \in Nat /\ count >= 1 /\ count <= Limit
      /\ Limit \in Nat /\ Limit >= 1 /\ MaxDelay \in Nat
  BY LimiterAssumption
<1>2. /\ Len(s) - Limit + 1 \in 1..Len(s) /\ Len(s) - count + 1 \in 1..Len(s)
      /\ Len(s) - Limit + 1 <= Len(s) - count + 1
  BY <1>1
<1>3. s[Len(s) - Limit + 1] <= s[Len(s) - count + 1]
  BY <1>2 DEF InOrder
<1>4. s[Len(s) - count + 1] <= start + MaxDelay
  BY DEF WindowFits
<1>5. s[Len(s) - Limit + 1] \in Nat /\ s[Len(s) - count + 1] \in Nat
  BY <1>2, SMTT(30)
<1> QED
  BY <1>1, <1>3, <1>4, <1>5, SMTT(30)

(* Later is only better.                                                   *)
LEMMA LongBeforeLater ==
  ASSUME NEW s \in Seq(Nat), NEW t \in Int, NEW u \in Int, t <= u, LongBefore(s, t)
  PROVE  LongBefore(s, u)
<1> SUFFICES ASSUME Len(s) >= Limit
             PROVE  s[Len(s) - Limit + 1] <= u
  BY DEF LongBefore
<1>1. Len(s) \in Nat /\ Limit \in Nat /\ Limit >= 1
  BY LimiterAssumption
<1>2. Len(s) - Limit + 1 \in 1..Len(s)
  BY <1>1
<1>3. s[Len(s) - Limit + 1] \in Nat
  BY <1>2
<1> QED
  BY <1>3 DEF LongBefore

-----------------------------------------------------------------------------
(* The limiter begins with no entry: NewFixedWindowLimiter.                *)
LEMMA InitInv == Init => LimiterInv
<1> SUFFICES ASSUME Init PROVE LimiterInv
  OBVIOUS
<1>1. Limit \in Nat /\ Limit >= 1
  BY LimiterAssumption
<1>2. DOMAIN entries = {} /\ \A c \in Clients : recent[c] = <<>> /\ Len(recent[c]) = 0
  BY DEF Init
<1>3. TypeOK
  BY <1>2 DEF Init, TypeOK
<1>4. StampsRecent
  BY DEF Init, StampsRecent
<1>5. ASSUME NEW c \in Clients PROVE ClientInv(c)
  BY <1>1, <1>2 DEF ClientInv, InOrder, Bounded, LongBefore
<1> QED
  BY <1>3, <1>4, <1>5 DEF LimiterInv

(* The clock moves on while no call waits too long: Tick.                  *)
LEMMA TickInv == LimiterInv /\ Tick => LimiterInv'
<1> SUFFICES ASSUME LimiterInv, Tick PROVE LimiterInv'
  OBVIOUS
<1> USE DEF LimiterInv, Tick
<1>1. WindowLength \in Nat /\ MaxDelay \in Nat /\ now \in Nat /\ now' = now + 1
  BY LimiterAssumption DEF TypeOK
<1>2. TypeOK'
  BY <1>1 DEF TypeOK
<1>3. StampsRecent'
  <2> SUFFICES ASSUME NEW r \in Requests, calls[r] # NoCall
               PROVE  calls[r].stamp <= now + 1 /\ now + 1 <= calls[r].stamp + MaxDelay
    BY DEF StampsRecent
  <2>1. calls[r].stamp \in Nat
    BY DEF TypeOK
  <2>2. calls[r].stamp <= now /\ now - calls[r].stamp < MaxDelay
    BY DEF StampsRecent
  <2> QED
    BY <1>1, <2>1, <2>2
<1>4. ASSUME NEW c \in Clients PROVE ClientInv(c)'
  <2>1. recent[c] \in Seq(Nat) /\ ClientInv(c)
    BY DEF TypeOK
  <2>2. InOrder(recent[c], now')
    <3>1. \A i \in 1..Len(recent[c]) : recent[c][i] \in Nat
      BY <2>1
    <3>2. InOrder(recent[c], now + 1)
      BY <2>1, <3>1, <1>1 DEF ClientInv, InOrder
    <3> QED
      BY <3>2, <1>1
  <2>3. c \in DOMAIN entries => entries[c].windowStart <= now'
    BY <2>1, <1>1 DEF ClientInv, TypeOK, Entry
  <2>4. c \notin DOMAIN entries => LongBefore(recent[c], now' - 2 * WindowLength + MaxDelay)
    BY <2>1, <1>1, LongBeforeLater DEF ClientInv
  <2>5. recent' = recent /\ entries' = entries
    OBVIOUS
  <2> HIDE DEF Tick, LimiterInv
  <2> QED
    BY <2>1, <2>2, <2>3, <2>4, <2>5 DEF ClientInv
<1> QED
  BY <1>2, <1>3, <1>4

(* A call reads the clock: ReadClock.                                      *)
LEMMA ReadClockInv ==
  ASSUME LimiterInv, NEW r \in Requests, NEW c \in Clients, ReadClock(r, c)
  PROVE  LimiterInv'
<1> USE DEF LimiterInv, ReadClock
<1>1. MaxDelay \in Nat /\ now \in Nat
  BY LimiterAssumption DEF TypeOK
<1>2. TypeOK'
  BY <1>1 DEF TypeOK
<1>3. StampsRecent'
  BY <1>1 DEF StampsRecent, TypeOK
<1>4. ASSUME NEW k \in Clients PROVE ClientInv(k)'
  BY DEF ClientInv
<1> QED
  BY <1>2, <1>3, <1>4

(* What a new window leaves in the table: WithEntry and maybeCleanup.      *)
LEMMA FirstEntries ==
  ASSUME TypeOK, NEW c \in Clients, NEW stamp \in Nat, AllowFirst(c, stamp)
  PROVE  /\ c \in DOMAIN entries'
         /\ entries'[c] = [windowStart |-> stamp, count |-> 1]
         /\ DOMAIN entries' \subseteq DOMAIN entries \cup {c}
         /\ \A k \in DOMAIN entries' \ {c} : entries'[k] = entries[k]
         /\ \A k \in DOMAIN entries \ DOMAIN entries' :
              stamp - entries[k].windowStart >= 2 * WindowLength
<1> DEFINE map == WithEntry(c, stamp, 1)
           kept == Kept(map, stamp)
<1>1. WindowLength \in Nat \ {0}
  BY LimiterAssumption
<1>2. /\ DOMAIN map = DOMAIN entries \cup {c}
      /\ map[c] = [windowStart |-> stamp, count |-> 1]
      /\ \A k \in DOMAIN entries \ {c} : map[k] = entries[k]
  BY DEF WithEntry
<1>3. entries' = [k \in kept |-> map[k]]
  BY DEF AllowFirst, CleanedUp
<1> HIDE DEF map
<1>4. /\ kept \subseteq DOMAIN map
      /\ \A k \in DOMAIN map \ kept : ~(stamp - map[k].windowStart < 2 * WindowLength)
  BY DEF Kept
<1>5. c \in kept
  <2>1. map[c].windowStart = stamp
    BY <1>2
  <2>2. stamp - stamp < 2 * WindowLength
    BY <1>1
  <2>3. c \in DOMAIN map
    BY <1>2
  <2> QED
    BY <1>4, <2>1, <2>2, <2>3
<1> HIDE DEF kept
<1>6. ASSUME NEW k \in DOMAIN entries, k \notin kept
      PROVE  stamp - entries[k].windowStart >= 2 * WindowLength
  <2>1. k # c /\ map[k] = entries[k] /\ k \in DOMAIN map
    BY <1>2, <1>5, <1>6
  <2>2. entries[k].windowStart \in Nat
    BY DEF TypeOK, Entry
  <2>3. ~(stamp - entries[k].windowStart < 2 * WindowLength)
    BY <2>1, <1>4, <1>6
  <2> QED
    BY <2>2, <2>3, <1>1
<1> QED
  BY <1>2, <1>3, <1>4, <1>5, <1>6

(* A request begins a window: AllowFirst.                                  *)
LEMMA AllowFirstInv ==
  ASSUME LimiterInv, NEW c \in Clients, NEW stamp \in Nat,
         stamp <= now, now <= stamp + MaxDelay, AllowFirst(c, stamp), now' = now
  PROVE  /\ DOMAIN entries' \subseteq Clients
         /\ \A k \in DOMAIN entries' : entries'[k] \in Entry
         /\ recent' \in [Clients -> Seq(Nat)]
         /\ \A k \in Clients : ClientInv(k)'
<1>1. /\ Limit \in Nat /\ Limit >= 1 /\ WindowLength \in Nat /\ MaxDelay \in Nat
      /\ MaxDelay <= WindowLength
  BY LimiterAssumption
<1>2. /\ TypeOK /\ now \in Nat
      /\ \A k \in Clients : recent[k] \in Seq(Nat) /\ ClientInv(k)
      /\ \A k \in DOMAIN entries :
           /\ entries[k] \in Entry
           /\ entries[k].windowStart \in Nat
           /\ entries[k].count \in 1..Limit
  BY DEF LimiterInv, TypeOK, Entry
<1>3. /\ c \in DOMAIN entries'
      /\ entries'[c] = [windowStart |-> stamp, count |-> 1]
      /\ DOMAIN entries' \subseteq DOMAIN entries \cup {c}
      /\ \A k \in DOMAIN entries' \ {c} : entries'[k] = entries[k]
      /\ \A k \in DOMAIN entries \ DOMAIN entries' :
           stamp - entries[k].windowStart >= 2 * WindowLength
  BY <1>2, FirstEntries
<1>4. DOMAIN entries' \subseteq Clients
  BY <1>2, <1>3 DEF TypeOK
<1>5. \A k \in DOMAIN entries' : entries'[k] \in Entry
  <2>1. entries'[c] \in Entry
    BY <1>1, <1>3 DEF Entry
  <2> QED
    BY <2>1, <1>2, <1>3
<1>6. /\ recent' = [recent EXCEPT ![c] = Push(recent[c], now)]
      /\ Len(recent[c]) <= 2 * Limit
  BY <1>2 DEF AllowFirst, LetIn, ClientInv, InOrder
<1>7. Push(recent[c], now) \in Seq(Nat)
  BY <1>2, <1>6, PushFacts
<1>8. /\ recent' \in [Clients -> Seq(Nat)]
      /\ recent'[c] = Push(recent[c], now)
      /\ \A k \in Clients \ {c} : recent'[k] = recent[k]
  BY <1>2, <1>6, <1>7 DEF TypeOK
<1>9. ClientInv(c)'
  <2>1. InOrder(recent[c], now)
    BY <1>2 DEF ClientInv
  <2>2. LongBefore(recent[c], stamp - WindowLength + MaxDelay)
    <3>1. CASE c \in DOMAIN entries
      <4>1. entries[c].windowStart + MaxDelay <= stamp - WindowLength + MaxDelay
        BY <3>1, <1>1, <1>2 DEF AllowFirst, WindowOver
      <4>2. WindowFits(recent[c], entries[c].windowStart, entries[c].count)
        BY <3>1, <1>2 DEF ClientInv
      <4>3. stamp - WindowLength + MaxDelay \in Int
        BY <1>1
      <4> QED
        BY <4>1, <4>2, <4>3, <3>1, <2>1, <1>2, FitsLongBefore
    <3>2. CASE c \notin DOMAIN entries
      <4>1. LongBefore(recent[c], now - 2 * WindowLength + MaxDelay)
        BY <3>2, <1>2 DEF ClientInv
      <4>2. /\ now - 2 * WindowLength + MaxDelay \in Int
            /\ stamp - WindowLength + MaxDelay \in Int
            /\ now - 2 * WindowLength + MaxDelay <= stamp - WindowLength + MaxDelay
        BY <1>1, <1>2
      <4> QED
        BY <4>1, <4>2, <1>2, LongBeforeLater
    <3> QED
      BY <3>1, <3>2
  <2>3. InOrder(recent'[c], now)
    BY <2>1, <1>2, <1>8, PushInOrder
  <2>4. WindowFits(recent'[c], stamp, 1) /\ Bounded(recent'[c])
    BY <2>1, <2>2, <1>2, <1>8, PushFirst
  <2>5. entries'[c].windowStart = stamp /\ entries'[c].count = 1
    BY <1>3
  <2> QED
    BY <2>3, <2>4, <2>5, <1>3 DEF ClientInv
<1>10. ASSUME NEW k \in Clients, k # c PROVE ClientInv(k)'
  <2>1. recent'[k] = recent[k] /\ ClientInv(k) /\ recent[k] \in Seq(Nat)
    BY <1>2, <1>8, <1>10
  <2>2. CASE k \in DOMAIN entries'
    <3>1. k \in DOMAIN entries /\ entries'[k] = entries[k]
      BY <2>2, <1>3, <1>10
    <3> QED
      BY <2>1, <2>2, <3>1 DEF ClientInv
  <2>3. CASE k \notin DOMAIN entries'
    <3>1. LongBefore(recent[k], now - 2 * WindowLength + MaxDelay)
      <4>1. CASE k \in DOMAIN entries
        <5>1. stamp - entries[k].windowStart >= 2 * WindowLength
          BY <4>1, <2>3, <1>3
        <5>2. entries[k].windowStart + MaxDelay <= now - 2 * WindowLength + MaxDelay
          BY <5>1, <4>1, <1>1, <1>2
        <5>3. /\ InOrder(recent[k], now)
              /\ WindowFits(recent[k], entries[k].windowStart, entries[k].count)
          BY <4>1, <2>1 DEF ClientInv
        <5>4. now - 2 * WindowLength + MaxDelay \in Int
          BY <1>1, <1>2
        <5> QED
          BY <5>2, <5>3, <5>4, <4>1, <2>1, <1>2, FitsLongBefore
      <4>2. CASE k \notin DOMAIN entries
        BY <4>2, <2>1 DEF ClientInv
      <4> QED
        BY <4>1, <4>2
    <3> QED
      BY <2>1, <2>3, <3>1 DEF ClientInv
  <2> QED
    BY <2>2, <2>3
<1> QED
  BY <1>4, <1>5, <1>8, <1>9, <1>10

(* A request joins the open window: AllowNext.                             *)
LEMMA AllowNextInv ==
  ASSUME LimiterInv, NEW c \in Clients, NEW stamp \in Nat, AllowNext(c, stamp), now' = now
  PROVE  /\ DOMAIN entries' \subseteq Clients
         /\ \A k \in DOMAIN entries' : entries'[k] \in Entry
         /\ recent' \in [Clients -> Seq(Nat)]
         /\ \A k \in Clients : ClientInv(k)'
<1>1. Limit \in Nat /\ Limit >= 1
  BY LimiterAssumption
<1>2. /\ TypeOK /\ now \in Nat
      /\ \A k \in Clients : recent[k] \in Seq(Nat) /\ ClientInv(k)
      /\ \A k \in DOMAIN entries :
           /\ entries[k] \in Entry
           /\ entries[k].windowStart \in Nat
           /\ entries[k].count \in 1..Limit
  BY DEF LimiterInv, TypeOK, Entry
<1>3. c \in DOMAIN entries /\ entries[c].count < Limit
  BY DEF AllowNext, WindowOver
<1>4. /\ DOMAIN entries' = DOMAIN entries
      /\ entries'[c] = [windowStart |-> entries[c].windowStart, count |-> entries[c].count + 1]
      /\ \A k \in DOMAIN entries \ {c} : entries'[k] = entries[k]
  BY <1>3 DEF AllowNext, WithEntry
<1>5. DOMAIN entries' \subseteq Clients
  BY <1>2, <1>4 DEF TypeOK
<1>6. \A k \in DOMAIN entries' : entries'[k] \in Entry
  <2>1. entries[c].count + 1 \in 1..Limit
    BY <1>1, <1>2, <1>3
  <2>2. entries'[c] \in Entry
    BY <2>1, <1>2, <1>3, <1>4 DEF Entry
  <2> QED
    BY <2>2, <1>2, <1>4
<1>7. /\ recent' = [recent EXCEPT ![c] = Push(recent[c], now)]
      /\ Len(recent[c]) <= 2 * Limit
  BY <1>2 DEF AllowNext, LetIn, ClientInv, InOrder
<1>8. Push(recent[c], now) \in Seq(Nat)
  BY <1>2, <1>7, PushFacts
<1>9. /\ recent' \in [Clients -> Seq(Nat)]
      /\ recent'[c] = Push(recent[c], now)
      /\ \A k \in Clients \ {c} : recent'[k] = recent[k]
  BY <1>2, <1>7, <1>8 DEF TypeOK
<1>10. ClientInv(c)'
  <2>1. /\ InOrder(recent[c], now)
        /\ entries[c].windowStart <= now
        /\ WindowFits(recent[c], entries[c].windowStart, entries[c].count)
    BY <1>2, <1>3 DEF ClientInv
  <2>2. InOrder(recent'[c], now)
    BY <2>1, <1>2, <1>9, PushInOrder
  <2>3. /\ WindowFits(recent'[c], entries[c].windowStart, entries[c].count + 1)
        /\ Bounded(recent'[c])
    BY <2>1, <1>2, <1>3, <1>9, PushNext
  <2>4. /\ entries'[c].windowStart = entries[c].windowStart
        /\ entries'[c].count = entries[c].count + 1
    BY <1>4
  <2> QED
    BY <2>1, <2>2, <2>3, <2>4, <1>3, <1>4 DEF ClientInv
<1>11. ASSUME NEW k \in Clients, k # c PROVE ClientInv(k)'
  <2>1. recent'[k] = recent[k] /\ ClientInv(k)
    BY <1>2, <1>9, <1>11
  <2>2. k \in DOMAIN entries => entries'[k] = entries[k]
    BY <1>4, <1>11
  <2> QED
    BY <2>1, <2>2, <1>4 DEF ClientInv
<1> QED
  BY <1>5, <1>6, <1>9, <1>10, <1>11

(* A call decides under the mutex: Allow.                                  *)
LEMMA AllowInv ==
  ASSUME LimiterInv, NEW r \in Requests, Allow(r)
  PROVE  LimiterInv'
<1> DEFINE c == calls[r].client
           stamp == calls[r].stamp
<1>1. /\ c \in Clients /\ stamp \in Nat
      /\ stamp <= now /\ now <= stamp + MaxDelay /\ now' = now
  <2>1. calls[r] \in [client : Clients, stamp : Nat]
    BY DEF LimiterInv, TypeOK, Allow
  <2> QED
    BY <2>1 DEF LimiterInv, StampsRecent, Allow
<1>2. /\ calls' = [calls EXCEPT ![r] = NoCall]
      /\ AllowFirst(c, stamp) \/ AllowNext(c, stamp) \/ Deny(c, stamp)
  BY DEF Allow
<1> HIDE DEF c, stamp
<1>3. calls' \in [Requests -> [client : Clients, stamp : Nat] \cup {NoCall}] /\ now' \in Nat
  BY <1>1, <1>2 DEF LimiterInv, TypeOK
<1>4. StampsRecent'
  BY <1>1, <1>2 DEF LimiterInv, TypeOK, StampsRecent
<1>5. /\ DOMAIN entries' \subseteq Clients
      /\ \A k \in DOMAIN entries' : entries'[k] \in Entry
      /\ recent' \in [Clients -> Seq(Nat)]
      /\ \A k \in Clients : ClientInv(k)'
  <2>1. CASE AllowFirst(c, stamp)
    BY <2>1, <1>1, AllowFirstInv
  <2>2. CASE AllowNext(c, stamp)
    BY <2>2, <1>1, AllowNextInv
  <2>3. CASE Deny(c, stamp)
    <3>1. entries' = entries /\ recent' = recent
      BY <2>3 DEF Deny
    <3>2. \A k \in Clients : ClientInv(k)'
      BY <3>1, <1>1 DEF LimiterInv, ClientInv
    <3> QED
      BY <3>1, <3>2 DEF LimiterInv, TypeOK
  <2> QED
    BY <2>1, <2>2, <2>3, <1>2
<1> QED
  BY <1>3, <1>4, <1>5 DEF LimiterInv, TypeOK

(* Every step of the limiter keeps the invariant.                          *)
LEMMA NextInv == LimiterInv /\ [Next]_vars => LimiterInv'
<1> SUFFICES ASSUME LimiterInv, [Next]_vars PROVE LimiterInv'
  OBVIOUS
<1>1. CASE Tick
  BY <1>1, TickInv
<1>2. ASSUME NEW r \in Requests, NEW c \in Clients, ReadClock(r, c) PROVE LimiterInv'
  BY <1>2, ReadClockInv
<1>3. ASSUME NEW r \in Requests, Allow(r) PROVE LimiterInv'
  BY <1>3, AllowInv
<1>4. CASE UNCHANGED vars
  <2>1. \A k \in Clients : ClientInv(k)'
    BY <1>4 DEF LimiterInv, ClientInv, vars
  <2> QED
    BY <1>4, <2>1 DEF LimiterInv, TypeOK, StampsRecent, vars
<1> QED
  BY <1>1, <1>2, <1>3, <1>4 DEF Next

(* The table holds well-formed entries of clients: no count ever exceeds   *)
(* the limit, and none is below one.                                       *)
THEOREM LimiterTypeCorrect == Spec => []TypeOK
<1>1. LimiterInv => TypeOK
  BY DEF LimiterInv
<1> QED
  BY InitInv, NextInv, <1>1, PTL DEF Spec

(* However calls interleave between reading the clock and the mutex and    *)
(* whenever entries are cleaned up, 2 * Limit requests of a client are let *)
(* in over no less than a window, less the wait for the mutex.             *)
THEOREM LimiterSlidingBound == Spec => []SlidingBound
<1>1. LimiterInv => SlidingBound
  BY DEF LimiterInv, ClientInv, Bounded, SlidingBound
<1> QED
  BY InitInv, NextInv, <1>1, PTL DEF Spec
=============================================================================
