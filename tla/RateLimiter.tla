---------------------------- MODULE RateLimiter -----------------------------
(***************************************************************************)
(* internal/api/rate_limit.go: FixedWindowLimiter.  Allow reads the clock  *)
(* before it takes the mutex, so the time it decides by (its stamp) may be *)
(* behind the clock, and stamps may arrive out of order.                   *)
(***************************************************************************)
EXTENDS Integers, Sequences, FiniteSets

CONSTANTS
  Requests,       \* calls of Allow in progress
  Clients,        \* the keys: a scope and a client address
  Limit,          \* l.limit
  WindowLength,   \* l.window
  CleanupSize,    \* 2048 in maybeCleanup
  MaxDelay,       \* bound: the longest wait for the mutex
  MaxTime,        \* bound: the clock
  NoCall          \* no call in progress

ASSUME LimiterAssumption ==
  /\ Limit \in Nat \ {0}
  /\ WindowLength \in Nat \ {0}
  /\ CleanupSize \in Nat
  /\ MaxDelay \in 0..WindowLength
  /\ MaxTime \in Nat
  /\ NoCall \notin [client : Clients, stamp : Nat]

VARIABLES
  now,        \* the clock
  calls,      \* the client and the stamp of each call waiting for the mutex
  entries,    \* l.entries: windowStart and count of each client it holds
  recent      \* history: when the last 2 * Limit requests of each client were let in

vars == <<now, calls, entries, recent>>

Entry == [windowStart : Nat, count : 1..Limit]

Init ==
  /\ now = 0
  /\ calls = [r \in Requests |-> NoCall]
  /\ entries = [c \in {} |-> NoCall]
  /\ recent = [c \in Clients |-> <<>>]

Tick ==
  /\ now < MaxTime
  /\ \A r \in Requests : calls[r] # NoCall => now - calls[r].stamp < MaxDelay
  /\ now' = now + 1
  /\ UNCHANGED <<calls, entries, recent>>

ReadClock(r, c) ==
  /\ calls[r] = NoCall
  /\ calls' = [calls EXCEPT ![r] = [client |-> c, stamp |-> now]]
  /\ UNCHANGED <<now, entries, recent>>

-----------------------------------------------------------------------------
(* No window of the client is open.                                        *)
WindowOver(c, stamp) ==
  c \in DOMAIN entries => stamp - entries[c].windowStart >= WindowLength

(* Mutant of Kept: a full table is emptied.                                *)
KeptNone(map, stamp) == IF Cardinality(DOMAIN map) < CleanupSize THEN DOMAIN map ELSE {}

(* maybeCleanup *)
Kept(map, stamp) ==
  IF Cardinality(DOMAIN map) < CleanupSize THEN DOMAIN map
  ELSE {c \in DOMAIN map : stamp - map[c].windowStart < 2 * WindowLength}

CleanedUp(map, stamp) == [c \in Kept(map, stamp) |-> map[c]]

WithEntry(c, start, count) ==
  [k \in DOMAIN entries \cup {c} |->
     IF k = c THEN [windowStart |-> start, count |-> count] ELSE entries[k]]

(* The last 2 * Limit of the times and one more.                           *)
Push(times, t) ==
  IF Len(times) = 2 * Limit THEN Append(Tail(times), t) ELSE Append(times, t)

LetIn(c) == recent' = [recent EXCEPT ![c] = Push(@, now)]

AllowFirst(c, stamp) ==
  /\ WindowOver(c, stamp)
  /\ entries' = CleanedUp(WithEntry(c, stamp, 1), stamp)
  /\ LetIn(c)

AllowNext(c, stamp) ==
  /\ ~WindowOver(c, stamp)
  /\ entries[c].count < Limit
  /\ entries' = WithEntry(c, entries[c].windowStart, entries[c].count + 1)
  /\ LetIn(c)

Deny(c, stamp) ==
  /\ ~WindowOver(c, stamp)
  /\ entries[c].count >= Limit
  /\ UNCHANGED <<entries, recent>>

(* The rest of Allow, under the mutex.                                     *)
Allow(r) ==
  /\ calls[r] # NoCall
  /\ LET c == calls[r].client
         stamp == calls[r].stamp
     IN  AllowFirst(c, stamp) \/ AllowNext(c, stamp) \/ Deny(c, stamp)
  /\ calls' = [calls EXCEPT ![r] = NoCall]
  /\ UNCHANGED now

Next ==
  \/ Tick
  \/ \E r \in Requests, c \in Clients : ReadClock(r, c)
  \/ \E r \in Requests : Allow(r)

Spec == Init /\ [][Next]_vars

-----------------------------------------------------------------------------
TypeOK ==
  /\ now \in Nat
  /\ calls \in [Requests -> [client : Clients, stamp : Nat] \cup {NoCall}]
  /\ DOMAIN entries \subseteq Clients
  /\ \A c \in DOMAIN entries : entries[c] \in Entry
  /\ recent \in [Clients -> Seq(Nat)]

(* Fixed windows may let in two full windows back to back, but no more:    *)
(* the last of any 2 * Limit requests of a client that were let in comes   *)
(* at least a window (less the wait for the mutex) after the first,        *)
(* although stamps arrive out of order and entries are cleaned up.         *)
SlidingBound ==
  \A c \in Clients :
    Len(recent[c]) = 2 * Limit => recent[c][2 * Limit] - recent[c][1] >= WindowLength - MaxDelay
=============================================================================
