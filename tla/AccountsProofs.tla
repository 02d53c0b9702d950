--------------------------- MODULE AccountsProofs ---------------------------
(***************************************************************************)
(* What Accounts promises of sessions and device keys, for any number of   *)
(* handlers, users, devices, openings of the store and failing calls.      *)
(***************************************************************************)
EXTENDS Accounts, TLAPS

PCs == {"idle", "lookup", "login", "session", "expired", "user", "handle", "rotate", "reread",
        "key", "device", "ingest"}

Ops == {"login", "user", "device", "rotate", "ingest"}

Request ==
  [pc : PCs, op : Ops \cup {None}, user : Users \cup {None}, actor : Users \cup {None},
   device : DeviceIDs \cup {None}, secret : Nat, made : Nat, dead : BOOLEAN]

Passed == {"user", "handle", "rotate", "reread", "device", "ingest"}

Typed ==
  /\ now \in Nat /\ now <= MaxTime
  /\ users \subseteq Users
  /\ secrets \in Nat /\ secrets <= MaxSecrets
  /\ req \in [Handlers -> Request]
  /\ cookies \cup shown \cup lost \cup replaced \cup unsettled \subseteq 1..secrets

SessionsTyped ==
  \A t \in DOMAIN sessions :
    t \in cookies /\ sessions[t].user \in users /\ sessions[t].expiresAt \in Nat

DevicesTyped ==
  /\ devices \in [DOMAIN devices -> [owner : Users, key : 1..secrets, settled : BOOLEAN]]
  /\ DOMAIN devices \subseteq DeviceIDs

(* Keys that the backfill has read are of rows that still wait for it, and *)
(* a key that is no longer that of its row is known as unsettled.          *)
Pending ==
  \A d \in Opening :
    /\ d \in DOMAIN devices
    /\ ~devices[d].settled
    /\ updates[d] \in 1..secrets
    /\ updates[d] = devices[d].key \/ updates[d] \in unsettled

(* No two devices share a key, or will once the backfill has written.      *)
KeysApart ==
  \A d, e \in DOMAIN devices : d # e =>
    /\ devices[d].key # devices[e].key
    /\ d \in Opening => updates[d] # devices[e].key
    /\ d \in Opening /\ e \in Opening => updates[d] # updates[e]

Returned(k) ==
  \/ k \in shown \cup lost
  \/ \E h \in Handlers : At(h, "reread") /\ req[h].made = k

KeysReturned ==
  /\ \A d \in DOMAIN devices : Returned(devices[d].key)
  /\ \A d \in Opening : Returned(updates[d])

(* What is known of a request from how far it has come.  A credential that *)
(* had ended when the request began has not come back, nor will it.        *)
ReqOK(r) ==
  /\ r.secret <= secrets
  /\ r.pc = "login" => r.user \in users
  /\ r.pc \in {"session", "user", "handle"} /\ r.op \in {"user", "device"} => r.user \in Users
  /\ r.pc = "rotate" => r.device \in DOMAIN devices
  /\ r.pc = "reread" => r.made \in 1..secrets
  /\ r.pc = "session" /\ r.dead =>
       \A t \in DOMAIN sessions : t = r.secret => sessions[t].expiresAt <= now
  /\ r.pc = "key" /\ r.dead /\ r.secret \notin unsettled =>
       /\ \A d \in DOMAIN devices : devices[d].key # r.secret
       /\ \A d \in Opening : updates[d] # r.secret
  /\ r.pc \in Passed /\ r.dead => r.secret \in unsettled

RequestsOK == \A h \in Handlers : ReqOK(req[h])

Inv == Typed /\ SessionsTyped /\ DevicesTyped /\ Pending /\ KeysApart /\ KeysReturned
       /\ ReplacedStaysReplaced /\ RequestsOK

-----------------------------------------------------------------------------
LEMMA InvInit == Init => Inv
<1> SUFFICES ASSUME Init PROVE Inv
    OBVIOUS
<1> USE AccountsAssumption
<1>1. /\ DOMAIN sessions = {} /\ DOMAIN devices = {} /\ Opening = {}
      /\ secrets = 0 /\ replaced = {} /\ shown = {} /\ now = 0
  BY DEF Init, Opening
<1>2. Idle \in Request
  BY DEF Idle, Request, PCs, Ops
<1>3. \A h \in Handlers : req[h] = Idle
  BY DEF Init
<1>4. Typed
  <2>1. users \subseteq Users /\ MaxTime \in Nat /\ MaxSecrets \in Nat
    BY DEF Init
  <2>2. req \in [Handlers -> Request]
    BY <1>2 DEF Init
  <2> QED
    BY <2>1, <2>2 DEF Init, Typed
<1>5. DevicesTyped
  <2>1. devices = [d \in DOMAIN devices |-> devices[d]]
    BY <1>1 DEF Init
  <2> QED
    BY <2>1, <1>1 DEF DevicesTyped
<1>6. ReqOK(Idle)
  BY <1>1 DEF ReqOK, Idle, Passed
<1>7. RequestsOK
  BY <1>3, <1>6 DEF RequestsOK
<1> QED
  BY <1>1, <1>4, <1>5, <1>7
     DEF Inv, SessionsTyped, Pending, KeysApart, KeysReturned, ReplacedStaysReplaced

-----------------------------------------------------------------------------
(* Steps that only move a request on.                                      *)

(* A key stays returned when no handler leaves the step that returns it.   *)
LEMMA ReturnedStays ==
  ASSUME Inv, NEW h \in Handlers, ~At(h, "reread"),
         \A g \in Handlers \ {h} : req'[g] = req[g],
         UNCHANGED <<shown, lost>>,
         NEW k, Returned(k)
  PROVE  Returned(k)'
<1>1. CASE k \in shown \cup lost
  BY <1>1 DEF Returned
<1>2. CASE \E g \in Handlers : At(g, "reread") /\ req[g].made = k
  <2>1. PICK g \in Handlers : At(g, "reread") /\ req[g].made = k
    BY <1>2
  <2>2. g # h
    BY <2>1
  <2> QED
    BY <2>1, <2>2 DEF Returned, At
<1> QED
  BY <1>1, <1>2 DEF Returned

(* A handler that was not about to return a key takes its request to a     *)
(* state that satisfies ReqOK.                                             *)
LEMMA RequestStep ==
  ASSUME Inv, NEW h \in Handlers, ~At(h, "reread"),
         req' \in [Handlers -> Request],
         \A g \in Handlers \ {h} : req'[g] = req[g],
         ReqOK(req'[h]),
         UNCHANGED <<now, tables, opening, secrets, ghosts>>
  PROVE  Inv'
<1> USE DEF Inv
<1>0. UNCHANGED <<now, users, sessions, devices, updates, secrets, cookies, shown, lost,
                  replaced, unsettled>>
  BY DEF tables, opening, ghosts
<1>1. Opening' = Opening
  BY <1>0 DEF Opening
<1>2. Typed' /\ SessionsTyped' /\ DevicesTyped'
  BY <1>0 DEF Typed, SessionsTyped, DevicesTyped
<1>3. Pending' /\ KeysApart' /\ ReplacedStaysReplaced'
  BY <1>0, <1>1 DEF Pending, KeysApart, ReplacedStaysReplaced
<1>5. KeysReturned'
  BY <1>0, <1>1, ReturnedStays DEF KeysReturned
<1>6. ASSUME NEW g \in Handlers PROVE ReqOK(req'[g])
  BY DEF RequestsOK
<1>7. RequestsOK'
  BY <1>0, <1>1, <1>6 DEF RequestsOK, ReqOK
<1> QED
  BY <1>2, <1>3, <1>5, <1>7

LEMMA IdleOK == Inv => Idle \in Request /\ ReqOK(Idle)
  BY DEF Inv, Typed, Idle, Request, PCs, Ops, ReqOK, Passed

LEMMA DoneStep ==
  ASSUME Inv, NEW h \in Handlers, ~At(h, "reread"), Done(h),
         UNCHANGED <<now, tables, opening, secrets, ghosts>>
  PROVE  Inv'
<1>1. /\ req' \in [Handlers -> Request]
      /\ \A g \in Handlers \ {h} : req'[g] = req[g]
      /\ req'[h] = Idle
  BY IdleOK DEF Done, Inv, Typed
<1> QED
  BY <1>1, IdleOK, RequestStep

LEMMA RefusedStep ==
  ASSUME Inv, NEW h \in Handlers, ~At(h, "reread"), Refused(h) \/ CallFails(h),
         UNCHANGED <<now, opening>>
  PROVE  Inv'
  BY DoneStep DEF Refused, CallFails

LEMMA BeginStep ==
  ASSUME Inv, NEW h \in Handlers, NEW r \in Request, ReqOK(r), Begin(h, r),
         UNCHANGED <<now, tables, opening, secrets, ghosts>>
  PROVE  Inv'
<1>1. /\ req' \in [Handlers -> Request]
      /\ \A g \in Handlers \ {h} : req'[g] = req[g]
      /\ req'[h] = r
  BY DEF Begin, Inv, Typed
<1>2. ~At(h, "reread")
  BY DEF Begin, At
<1> QED
  BY <1>1, <1>2, RequestStep

(* What Goto and the other assignments to a request leave in its record.   *)
LEMMA GotoSets ==
  ASSUME Inv, NEW h \in Handlers, NEW pc \in PCs, Goto(h, pc)
  PROVE  /\ req' \in [Handlers -> Request]
         /\ \A g \in Handlers \ {h} : req'[g] = req[g]
         /\ req'[h].pc = pc /\ req'[h].op = req[h].op /\ req'[h].user = req[h].user
         /\ req'[h].actor = req[h].actor /\ req'[h].device = req[h].device
         /\ req'[h].secret = req[h].secret /\ req'[h].made = req[h].made
         /\ req'[h].dead = req[h].dead
<1>1. req[h] \in Request
  BY DEF Inv, Typed
<1>2. [req[h] EXCEPT !.pc = pc] \in Request
  BY <1>1 DEF Request
<1> QED
  BY <1>1, <1>2 DEF Goto, Inv, Typed, Request

(* The steps of a handler that change no table: a request begins, or its   *)
(* credential or its user is looked up.                                    *)
LEMMA LoginSteps ==
  ASSUME Inv, NEW h \in Handlers, UNCHANGED <<now, opening>>,
         (\E u \in Users : LoginBegin(h, u)) \/ LoginLookup(h)
  PROVE  Inv'
<1>1. ASSUME NEW u \in Users, LoginBegin(h, u) PROVE Inv'
  <2> DEFINE r == [Idle EXCEPT !.pc = "lookup", !.op = "login", !.user = u]
  <2>1. r \in Request
    BY DEF Idle, Request, PCs, Ops
  <2>2. ReqOK(r)
    BY DEF Inv, Typed, Idle, ReqOK, Passed
  <2> QED
    BY <1>1, <2>1, <2>2, BeginStep DEF LoginBegin
<1>2. CASE LoginLookup(h)
  <2>1. ~At(h, "reread")
    BY <1>2 DEF LoginLookup, At
  <2>2. CASE Refused(h) \/ CallFails(h)
    BY <2>1, <2>2, RefusedStep
  <2>3. CASE GetUserByEmail(req[h].user) /\ Goto(h, "login")
             /\ UNCHANGED <<tables, secrets, ghosts, faults>>
    <3>1. /\ req' \in [Handlers -> Request]
          /\ \A g \in Handlers \ {h} : req'[g] = req[g]
          /\ req'[h].pc = "login" /\ req'[h].user = req[h].user /\ req'[h].secret = req[h].secret
      BY <2>3, GotoSets DEF PCs
    <3>2. ReqOK(req[h]) /\ req[h].user \in users
      BY <2>3 DEF Inv, RequestsOK, GetUserByEmail
    <3>3. ReqOK(req'[h])
      BY <3>1, <3>2 DEF ReqOK, Passed
    <3> QED
      BY <2>1, <2>3, <3>1, <3>3, RequestStep
  <2> QED
    BY <1>2, <2>2, <2>3 DEF LoginLookup
<1> QED
  BY <1>1, <1>2

LEMMA DeadIsSet ==
  ASSUME NEW r \in Request, NEW b \in BOOLEAN
  PROVE  [r EXCEPT !.dead = b] \in Request
  BY DEF Request

LEMMA SessionBegins ==
  ASSUME Inv, NEW h \in Handlers, NEW op \in {"user", "device", "rotate"}, NEW t \in cookies,
         NEW u \in Users \cup {None}, NEW d \in DeviceIDs \cup {None},
         op \in {"user", "device"} => u \in Users,
         SessionBegin(h, op, t, u, d), UNCHANGED <<now, opening>>
  PROVE  Inv'
<1> DEFINE dead == ~Live(t)
<1> DEFINE r == [Idle EXCEPT !.pc = "session", !.op = op, !.secret = t, !.user = u,
                             !.device = d, !.dead = dead]
<1>0. dead \in BOOLEAN
  BY DEF Live
<1> HIDE DEF dead
<1>1. t \in Nat /\ t \in 1..secrets /\ secrets \in Nat /\ now \in Nat
  BY DEF Inv, Typed
<1>2. r \in Request
  <2>0. op \in Ops
    BY DEF Ops
  <2>1. [Idle EXCEPT !.pc = "session", !.op = op, !.secret = t, !.user = u, !.device = d] \in Request
    BY <2>0, <1>1 DEF Idle, Request, PCs, Ops
  <2> QED
    BY <2>1, <1>0, DeadIsSet
<1>3. /\ r.pc = "session" /\ r.op = op /\ r.secret = t /\ r.user = u /\ r.dead = dead
  BY DEF Idle
<1>4. ASSUME dead, NEW s \in DOMAIN sessions, s = t PROVE sessions[s].expiresAt <= now
  BY <1>1, <1>4 DEF dead, Live, Inv, SessionsTyped
<1> HIDE DEF r
<1>5. ReqOK(r)
  BY <1>1, <1>3, <1>4 DEF ReqOK, Passed
<1> QED
  BY <1>2, <1>5, BeginStep DEF SessionBegin, r, dead

LEMMA IngestBegins ==
  ASSUME Inv, NEW h \in Handlers, NEW k \in shown, IngestBegin(h, k), UNCHANGED <<now, opening>>
  PROVE  Inv'
<1> DEFINE dead == ~Live(k)
<1> DEFINE r == [Idle EXCEPT !.pc = "key", !.op = "ingest", !.secret = k, !.dead = dead]
<1>0. dead \in BOOLEAN
  BY DEF Live
<1> HIDE DEF dead
<1>1. k \in Nat /\ k \in 1..secrets /\ secrets \in Nat
  BY DEF Inv, Typed
<1>2. r \in Request
  <2>1. [Idle EXCEPT !.pc = "key", !.op = "ingest", !.secret = k] \in Request
    BY <1>1 DEF Idle, Request, PCs, Ops
  <2> QED
    BY <2>1, <1>0, DeadIsSet
<1>3. /\ r.pc = "key" /\ r.op = "ingest" /\ r.secret = k /\ r.dead = dead
  BY DEF Idle
<1>4. ASSUME dead, k \notin unsettled
      PROVE  /\ \A d \in DOMAIN devices : devices[d].key # k
             /\ \A d \in Opening : updates[d] # k
  BY <1>4 DEF dead, Live, Inv, Pending
<1> HIDE DEF r
<1>5. ReqOK(r)
  BY <1>1, <1>3, <1>4 DEF ReqOK, Passed
<1> QED
  BY <1>2, <1>5, BeginStep DEF IngestBegin, r, dead

LEMMA ActorSets ==
  ASSUME Inv, NEW h \in Handlers, NEW u \in Users,
         req' = [req EXCEPT ![h].pc = "user", ![h].actor = u]
  PROVE  /\ req' \in [Handlers -> Request]
         /\ \A g \in Handlers \ {h} : req'[g] = req[g]
         /\ req'[h].pc = "user" /\ req'[h].op = req[h].op /\ req'[h].user = req[h].user
         /\ req'[h].secret = req[h].secret /\ req'[h].dead = req[h].dead
<1>1. req[h] \in Request
  BY DEF Inv, Typed
<1>2. [req[h] EXCEPT !.pc = "user", !.actor = u] \in Request
  BY <1>1 DEF Request, PCs
<1> QED
  BY <1>1, <1>2 DEF Inv, Typed, Request

LEMMA DeviceSets ==
  ASSUME Inv, NEW h \in Handlers, NEW d \in DeviceIDs,
         req' = [req EXCEPT ![h].pc = "device", ![h].device = d]
  PROVE  /\ req' \in [Handlers -> Request]
         /\ \A g \in Handlers \ {h} : req'[g] = req[g]
         /\ req'[h].pc = "device"
         /\ req'[h].secret = req[h].secret /\ req'[h].dead = req[h].dead
<1>1. req[h] \in Request
  BY DEF Inv, Typed
<1>2. [req[h] EXCEPT !.pc = "device", !.device = d] \in Request
  BY <1>1 DEF Request, PCs
<1> QED
  BY <1>1, <1>2 DEF Inv, Typed, Request

(* The session is read: a dead one is not found, or found to be expired.   *)
LEMMA SessionReads ==
  ASSUME Inv, NEW h \in Handlers, SessionRead(h), UNCHANGED <<now, opening>>
  PROVE  Inv'
<1>1. ~At(h, "reread") /\ req[h].pc = "session" /\ ReqOK(req[h]) /\ req[h] \in Request
  BY DEF SessionRead, At, Inv, RequestsOK, Typed
<1>2. CASE CallFails(h)
  BY <1>1, <1>2, RefusedStep
<1>3. CASE GetSession(h) /\ UNCHANGED <<tables, secrets, ghosts, faults>>
  <2> DEFINE t == req[h].secret
  <2>1. CASE t \notin DOMAIN sessions /\ Done(h)
    BY <1>1, <1>3, <2>1, DoneStep
  <2>2. CASE t \in DOMAIN sessions /\ sessions[t].expiresAt > now /\ Authenticated(h, t)
    <3>1. sessions[t].user \in Users /\ sessions[t].expiresAt \in Nat /\ now \in Nat
      BY <2>2 DEF Inv, SessionsTyped, Typed
    <3>2. /\ req' \in [Handlers -> Request]
          /\ \A g \in Handlers \ {h} : req'[g] = req[g]
          /\ req'[h].pc = "user" /\ req'[h].op = req[h].op /\ req'[h].user = req[h].user
          /\ req'[h].secret = req[h].secret /\ req'[h].dead = req[h].dead
      BY <2>2, <3>1, ActorSets DEF Authenticated
    <3>3. ~req[h].dead
      BY <1>1, <2>2, <3>1 DEF ReqOK
    <3>4. ReqOK(req'[h])
      BY <1>1, <3>2, <3>3 DEF ReqOK, Passed
    <3> QED
      BY <1>1, <1>3, <3>2, <3>4, RequestStep
  <2>3. CASE Goto(h, "expired")
    <3>1. /\ req' \in [Handlers -> Request]
          /\ \A g \in Handlers \ {h} : req'[g] = req[g]
          /\ req'[h].pc = "expired" /\ req'[h].secret = req[h].secret
      BY <2>3, GotoSets DEF PCs
    <3>2. ReqOK(req'[h])
      BY <1>1, <3>1 DEF ReqOK, Passed
    <3> QED
      BY <1>1, <1>3, <3>1, <3>2, RequestStep
  <2> QED
    BY <1>3, <2>1, <2>2, <2>3 DEF GetSession
<1> QED
  BY <1>2, <1>3 DEF SessionRead

(* A request that has passed its check moves on: the user is read, the     *)
(* device to be rotated is read, or the device that ingests.               *)
LEMMA MovesOn ==
  ASSUME Inv, NEW h \in Handlers, NEW pc \in {"handle", "rotate", "ingest"},
         req[h].pc \in {"user", "handle", "device"}, Goto(h, pc),
         pc = "rotate" => req[h].device \in DOMAIN devices,
         pc = "handle" => req[h].pc = "user",
         UNCHANGED <<now, tables, opening, secrets, ghosts>>
  PROVE  Inv'
<1>1. /\ req' \in [Handlers -> Request]
      /\ \A g \in Handlers \ {h} : req'[g] = req[g]
      /\ req'[h].pc = pc /\ req'[h].op = req[h].op /\ req'[h].user = req[h].user
      /\ req'[h].device = req[h].device
      /\ req'[h].secret = req[h].secret /\ req'[h].dead = req[h].dead
  BY GotoSets DEF PCs
<1>2. ReqOK(req[h])
  BY DEF Inv, RequestsOK
<1>3. ReqOK(req'[h])
  BY <1>1, <1>2 DEF ReqOK, Passed
<1>4. ~At(h, "reread")
  BY DEF At
<1> QED
  BY <1>1, <1>3, <1>4, RequestStep

(* The device is found by a key that is valid.                             *)
LEMMA KeyReads ==
  ASSUME Inv, NEW h \in Handlers, GetDeviceByAPIKey(h), UNCHANGED <<now, opening>>
  PROVE  Inv'
<1>1. ~At(h, "reread") /\ req[h].pc = "key" /\ ReqOK(req[h])
  BY DEF GetDeviceByAPIKey, At, Inv, RequestsOK
<1>2. CASE Refused(h) \/ CallFails(h)
  BY <1>1, <1>2, RefusedStep
<1>3. ASSUME NEW d \in DOMAIN devices, devices[d].key = req[h].secret,
             req' = [req EXCEPT ![h].pc = "device", ![h].device = d],
             UNCHANGED <<tables, secrets, ghosts, faults>>
      PROVE  Inv'
  <2>1. d \in DeviceIDs
    BY DEF Inv, DevicesTyped
  <2>2. /\ req' \in [Handlers -> Request]
        /\ \A g \in Handlers \ {h} : req'[g] = req[g]
        /\ req'[h].pc = "device"
        /\ req'[h].secret = req[h].secret /\ req'[h].dead = req[h].dead
    BY <1>3, <2>1, DeviceSets
  <2>3. req[h].dead => req[h].secret \in unsettled
    BY <1>1, <1>3 DEF ReqOK
  <2>4. ReqOK(req'[h])
    BY <1>1, <2>2, <2>3 DEF ReqOK, Passed
  <2> QED
    BY <1>1, <1>3, <2>2, <2>4, RequestStep
<1> QED
  BY <1>2, <1>3 DEF GetDeviceByAPIKey

-----------------------------------------------------------------------------
(* Steps that change the users, the sessions or the clock: what is known   *)
(* of the devices stays as it was.                                         *)

(* Sessions end, of tokens that are not known afterwards.                  *)
LEMMA SessionsEnd ==
  ASSUME Inv, NEW h \in Handlers, ~At(h, "reread"),
         Done(h) \/ UNCHANGED req,
         (\E t : DropSession(t)) \/ UNCHANGED sessions,
         UNCHANGED <<now, users, devices, opening, secrets, ghosts>>
  PROVE  Inv'
<1> USE DEF Inv
<1>0. UNCHANGED <<now, users, devices, updates, secrets, cookies, shown, lost, replaced, unsettled>>
  BY DEF opening, ghosts
<1>1. Opening' = Opening
  BY <1>0 DEF Opening
<1>2. /\ req' \in [Handlers -> Request]
      /\ \A g \in Handlers \ {h} : req'[g] = req[g]
      /\ req'[h] = Idle \/ req'[h] = req[h]
  BY IdleOK DEF Done, Typed
<1>3. \A t \in DOMAIN sessions' : t \in DOMAIN sessions /\ sessions'[t] = sessions[t]
  BY DEF DropSession, Restrict
<1>4. Typed' /\ SessionsTyped' /\ DevicesTyped'
  BY <1>0, <1>2, <1>3 DEF Typed, SessionsTyped, DevicesTyped
<1>5. Pending' /\ KeysApart' /\ ReplacedStaysReplaced'
  BY <1>0, <1>1 DEF Pending, KeysApart, ReplacedStaysReplaced
<1>6. KeysReturned'
  BY <1>0, <1>1, <1>2, ReturnedStays DEF KeysReturned
<1>7. ASSUME NEW g \in Handlers PROVE ReqOK(req'[g])
  BY <1>2, IdleOK DEF RequestsOK
<1>8. RequestsOK'
  BY <1>0, <1>1, <1>3, <1>7 DEF RequestsOK, ReqOK
<1> QED
  BY <1>4, <1>5, <1>6, <1>8

(* A user is created, or time passes.                                      *)
LEMMA UsersGrow ==
  ASSUME Inv, NEW h \in Handlers, ~At(h, "reread"), Done(h),
         users \subseteq users', users' \subseteq Users,
         UNCHANGED <<now, sessions, devices, opening, secrets, ghosts>>
  PROVE  Inv'
<1> USE DEF Inv
<1>0. UNCHANGED <<updates, cookies, shown, lost, replaced, unsettled>>
  BY DEF opening, ghosts
<1>1. Opening' = Opening
  BY <1>0 DEF Opening
<1>2. /\ req' \in [Handlers -> Request]
      /\ \A g \in Handlers \ {h} : req'[g] = req[g]
      /\ req'[h] = Idle
  BY IdleOK DEF Done, Typed
<1>3. Typed' /\ SessionsTyped' /\ DevicesTyped'
  BY <1>0, <1>2 DEF Typed, SessionsTyped, DevicesTyped
<1>4. Pending' /\ KeysApart' /\ ReplacedStaysReplaced'
  BY <1>0, <1>1 DEF Pending, KeysApart, ReplacedStaysReplaced
<1>5. KeysReturned'
  BY <1>0, <1>1, <1>2, ReturnedStays DEF KeysReturned
<1>6. ASSUME NEW g \in Handlers PROVE ReqOK(req'[g])
  BY <1>2, IdleOK DEF RequestsOK
<1>7. RequestsOK'
  BY <1>0, <1>1, <1>6 DEF RequestsOK, ReqOK
<1> QED
  BY <1>3, <1>4, <1>5, <1>7

LEMMA TickStep ==
  ASSUME Inv, Tick, UNCHANGED opening
  PROVE  Inv'
<1> USE DEF Inv
<1>0. /\ UNCHANGED <<users, sessions, devices, req, updates, secrets, cookies, shown, lost, replaced,
                     unsettled>>
      /\ now \in Nat /\ now' = now + 1 /\ now' <= MaxTime
  BY AccountsAssumption DEF Tick, tables, opening, ghosts, Typed
<1>1. Opening' = Opening
  BY <1>0 DEF Opening
<1>2. Typed' /\ SessionsTyped' /\ DevicesTyped'
  BY <1>0 DEF Typed, SessionsTyped, DevicesTyped
<1>3. Pending' /\ KeysApart' /\ KeysReturned' /\ ReplacedStaysReplaced'
  BY <1>0, <1>1 DEF Pending, KeysApart, KeysReturned, Returned, At, ReplacedStaysReplaced
<1>4. \A t \in DOMAIN sessions : sessions[t].expiresAt <= now => sessions[t].expiresAt <= now'
  BY <1>0 DEF SessionsTyped
<1>5. RequestsOK'
  BY <1>0, <1>1, <1>4 DEF RequestsOK, ReqOK
<1> QED
  BY <1>2, <1>3, <1>5

(* A session begins, under a token that nobody has carried before.         *)
LEMMA SessionCreated ==
  ASSUME Inv, NEW h \in Handlers, At(h, "login"), CreateSession(h), UNCHANGED <<now, opening>>
  PROVE  Inv'
<1> USE DEF Inv
<1> DEFINE t == secrets + 1
<1>0. /\ UNCHANGED <<now, users, devices, updates, shown, lost, replaced, unsettled>>
      /\ secrets \in Nat /\ secrets' = t /\ t <= MaxSecrets /\ cookies' = cookies \cup {t}
  BY AccountsAssumption DEF CreateSession, opening, Typed
<1>1. Opening' = Opening
  BY <1>0 DEF Opening
<1>2. /\ req' \in [Handlers -> Request]
      /\ \A g \in Handlers \ {h} : req'[g] = req[g]
      /\ req'[h] = Idle
  BY IdleOK DEF CreateSession, Done, Typed
<1>3. /\ DOMAIN sessions' = DOMAIN sessions \cup {t}
      /\ \A k \in DOMAIN sessions : k \in cookies /\ k # t /\ sessions'[k] = sessions[k]
      /\ sessions'[t].user \in users /\ sessions'[t].expiresAt \in Nat
  <2>1. req[h].user \in users
    BY DEF RequestsOK, ReqOK, At
  <2>2. \A k \in DOMAIN sessions : k \in cookies /\ k # t
    BY <1>0 DEF SessionsTyped, Typed
  <2>3. now + SessionTTL \in Nat
    BY AccountsAssumption DEF Typed
  <2> QED
    BY <2>1, <2>2, <2>3 DEF CreateSession
<1>4. Typed' /\ SessionsTyped' /\ DevicesTyped'
  BY <1>0, <1>2, <1>3 DEF Typed, SessionsTyped, DevicesTyped
<1>5. Pending' /\ KeysApart' /\ ReplacedStaysReplaced'
  BY <1>0, <1>1 DEF Pending, KeysApart, ReplacedStaysReplaced
<1>6. ~At(h, "reread")
  BY DEF At
<1>7. KeysReturned'
  BY <1>0, <1>1, <1>2, <1>6, ReturnedStays DEF KeysReturned
<1>8. ASSUME NEW g \in Handlers PROVE ReqOK(req'[g]) /\ req'[g].secret \in Nat
  BY <1>2, IdleOK DEF RequestsOK, Typed, Request
<1>9. RequestsOK'
  BY <1>0, <1>1, <1>3, <1>8 DEF RequestsOK, ReqOK
<1> QED
  BY <1>4, <1>5, <1>7, <1>9

-----------------------------------------------------------------------------
(* Steps that change the keys.                                             *)

LEMMA MadeSets ==
  ASSUME Inv, NEW h \in Handlers, NEW d \in DeviceIDs, NEW k \in Nat,
         req' = [req EXCEPT ![h].pc = "reread", ![h].device = d, ![h].made = k]
  PROVE  /\ req' \in [Handlers -> Request]
         /\ \A g \in Handlers \ {h} : req'[g] = req[g]
         /\ req'[h].pc = "reread" /\ req'[h].made = k
         /\ req'[h].secret = req[h].secret /\ req'[h].dead = req[h].dead
<1>1. req[h] \in Request
  BY DEF Inv, Typed
<1>2. [req[h] EXCEPT !.pc = "reread", !.device = d, !.made = k] \in Request
  BY <1>1 DEF Request, PCs
<1> QED
  BY <1>1, <1>2 DEF Inv, Typed, Request

(* A device gets a fresh key: the one it had, if it had one, is replaced,  *)
(* and unsettled if the backfill has read the row.                         *)
LEMMA KeyStored ==
  ASSUME Inv, NEW h \in Handlers, NEW d \in DeviceIDs, NEW owner \in Users,
         ~At(h, "reread"), req[h].pc \in Passed, StoreKey(h, d, owner),
         unsettled \subseteq unsettled', unsettled' \subseteq 1..secrets, replaced' \subseteq 1..secrets,
         d \in Opening => devices[d].key \in unsettled',
         \A k \in replaced' : k \in replaced \/ (d \in DOMAIN devices /\ k = devices[d].key),
         UNCHANGED <<now, users, sessions, opening, cookies, shown, lost>>
  PROVE  Inv'
<1> USE DEF Inv
<1>n. PICK n : n = secrets + 1
  OBVIOUS
<1>0. /\ UNCHANGED updates
      /\ secrets \in Nat /\ n \in Nat /\ n = secrets + 1 /\ secrets' = n /\ n <= MaxSecrets
  BY <1>n, AccountsAssumption DEF StoreKey, opening, Typed
<1>1. Opening' = Opening
  BY <1>0 DEF Opening
<1>2. /\ req' \in [Handlers -> Request]
      /\ \A g \in Handlers \ {h} : req'[g] = req[g]
      /\ req'[h].pc = "reread" /\ req'[h].made = n
      /\ req'[h].secret = req[h].secret /\ req'[h].dead = req[h].dead
  <2>1. req' = [req EXCEPT ![h].pc = "reread", ![h].device = d, ![h].made = n]
    BY <1>0 DEF StoreKey
  <2>2. n \in Nat
    BY <1>0
  <2> HIDE DEF Inv
  <2> QED
    BY <2>1, <2>2, MadeSets
<1>3. /\ DOMAIN devices' = DOMAIN devices \cup {d}
      /\ \A e \in DOMAIN devices \ {d} : devices'[e] = devices[e]
      /\ devices'[d] = [owner |-> owner, key |-> n, settled |-> FALSE]
  BY <1>0 DEF StoreKey
<1>4. \A e \in DOMAIN devices : devices[e].key \in 1..secrets
  BY DEF DevicesTyped
<1>5. devices'[d].key = n /\ devices'[d].settled = FALSE
  BY <1>3
<1>6. Typed' /\ SessionsTyped'
  <2>1. (cookies \cup shown \cup lost \cup replaced \cup unsettled)' \subseteq 1..n
    <3>1. 1..secrets \subseteq 1..n
      BY <1>0
    <3>2. cookies \cup shown \cup lost \subseteq 1..secrets
      BY DEF Typed
    <3> QED
      BY <3>1, <3>2
  <2>2. Typed'
    BY <1>0, <1>2, <2>1 DEF Typed
  <2> QED
    BY <2>2 DEF SessionsTyped
<1>7. DevicesTyped'
  <2>1. \A e \in DOMAIN devices' : devices'[e] \in [owner : Users, key : 1..n, settled : BOOLEAN]
    <3>1. devices'[d] \in [owner : Users, key : 1..n, settled : BOOLEAN]
      BY <1>0, <1>3
    <3>2. ASSUME NEW e \in DOMAIN devices, e # d
          PROVE  devices'[e] \in [owner : Users, key : 1..n, settled : BOOLEAN]
      <4>1. devices[e] \in [owner : Users, key : 1..secrets, settled : BOOLEAN]
        BY DEF DevicesTyped
      <4>2. devices[e] \in [owner : Users, key : 1..n, settled : BOOLEAN]
        BY <1>0, <4>1
      <4> QED
        BY <1>3, <3>2, <4>2
    <3> QED
      BY <1>3, <3>1, <3>2
  <2>2. devices' = [e \in DOMAIN devices' |-> devices'[e]]
    BY <1>3 DEF StoreKey
  <2>3. DOMAIN devices' \subseteq DeviceIDs
    BY <1>3 DEF DevicesTyped
  <2> QED
    BY <1>0, <2>1, <2>2, <2>3 DEF DevicesTyped
<1>8. Pending'
  <2> SUFFICES ASSUME NEW e \in Opening
               PROVE  /\ e \in DOMAIN devices'
                      /\ ~devices'[e].settled
                      /\ updates[e] \in 1..n
                      /\ updates[e] = devices'[e].key \/ updates[e] \in unsettled'
    BY <1>0, <1>1 DEF Pending
  <2> QED
    BY <1>0, <1>3, <1>5 DEF Pending
<1>9. KeysApart'
  <2> SUFFICES ASSUME NEW e \in DOMAIN devices', NEW f \in DOMAIN devices', e # f
               PROVE  /\ devices'[e].key # devices'[f].key
                      /\ e \in Opening => updates[e] # devices'[f].key
                      /\ e \in Opening /\ f \in Opening => updates[e] # updates[f]
    BY <1>0, <1>1 DEF KeysApart
  <2>1. \A g \in Opening : g \in DOMAIN devices /\ updates[g] \in 1..secrets
    BY DEF Pending
  <2> QED
    BY <1>0, <1>3, <1>4, <1>5, <2>1 DEF KeysApart
<1>10. KeysReturned'
  <2>1. Returned(n)'
    BY <1>2 DEF Returned, At
  <2> QED
    BY <1>0, <1>1, <1>2, <1>3, <1>5, <2>1, ReturnedStays DEF KeysReturned
<1>11. ReplacedStaysReplaced'
  <2> SUFFICES ASSUME NEW e \in DOMAIN devices', devices'[e].key \in replaced'
               PROVE  devices'[e].key \in unsettled'
    BY DEF ReplacedStaysReplaced
  <2>1. e # d
    BY <1>0, <1>5
  <2>2. d \in DOMAIN devices => devices[e].key # devices[d].key
    BY <1>3, <2>1 DEF KeysApart
  <2> QED
    BY <1>3, <2>1, <2>2 DEF ReplacedStaysReplaced
<1>12. ASSUME NEW g \in Handlers PROVE ReqOK(req[g])'
  <2>1. ReqOK(req[g]) /\ req[g].secret \in Nat
    BY DEF RequestsOK, Typed, Request
  <2>2. CASE g = h
    BY <1>0, <1>2, <2>1, <2>2 DEF ReqOK, Passed
  <2>3. CASE g # h
    BY <1>0, <1>1, <1>2, <1>3, <1>5, <2>1, <2>3 DEF ReqOK
  <2> QED
    BY <2>2, <2>3
<1> QED
  BY <1>6, <1>7, <1>8, <1>9, <1>10, <1>11, <1>12 DEF RequestsOK

(* The key made is returned, or lost with the error that reads the row.    *)
LEMMA KeyIsReturned ==
  ASSUME Inv, NEW h \in Handlers, ReturnKey(h), UNCHANGED <<now, opening>>
  PROVE  Inv'
<1> USE DEF Inv
<1>0. UNCHANGED <<now, users, sessions, devices, updates, secrets, cookies, replaced, unsettled>>
  BY DEF ReturnKey, tables, opening
<1>1. Opening' = Opening
  BY <1>0 DEF Opening
<1>2. /\ req' \in [Handlers -> Request]
      /\ \A g \in Handlers \ {h} : req'[g] = req[g]
      /\ req'[h] = Idle
  BY IdleOK DEF ReturnKey, Done, Typed
<1>3. /\ req[h].made \in 1..secrets
      /\ shown' \cup lost' = shown \cup lost \cup {req[h].made}
      /\ shown \subseteq shown'
  BY DEF ReturnKey, RequestsOK, ReqOK, At
<1>4. Typed' /\ SessionsTyped' /\ DevicesTyped'
  BY <1>0, <1>2, <1>3 DEF Typed, SessionsTyped, DevicesTyped
<1>5. Pending' /\ KeysApart' /\ ReplacedStaysReplaced'
  BY <1>0, <1>1 DEF Pending, KeysApart, ReplacedStaysReplaced
<1>6. ASSUME NEW k, Returned(k) PROVE Returned(k)'
  <2>1. CASE k \in shown \cup lost \/ k = req[h].made
    BY <1>3, <2>1 DEF Returned
  <2>2. CASE \E g \in Handlers \ {h} : At(g, "reread") /\ req[g].made = k
    BY <1>2, <2>2 DEF Returned, At
  <2> QED
    BY <1>6, <2>1, <2>2 DEF Returned
<1>7. KeysReturned'
  BY <1>0, <1>1, <1>6 DEF KeysReturned
<1>8. ASSUME NEW g \in Handlers PROVE ReqOK(req'[g])
  BY <1>2, IdleOK DEF RequestsOK
<1>9. RequestsOK'
  BY <1>0, <1>1, <1>8 DEF RequestsOK, ReqOK
<1> QED
  BY <1>4, <1>5, <1>7, <1>9

LEMMA BackfillReads ==
  ASSUME Inv, BackfillRead, UNCHANGED now
  PROVE  Inv'
<1> USE DEF Inv
<1>0. UNCHANGED <<now, users, sessions, devices, req, secrets, cookies, shown, lost, replaced, unsettled>>
  BY DEF BackfillRead, tables, ghosts
<1>1. /\ Opening' \subseteq {d \in DOMAIN devices : NeedsUpdate(d)}
      /\ \A d \in Opening' : updates'[d] = devices[d].key
  BY DEF BackfillRead, Opening
<1>2. Typed' /\ SessionsTyped' /\ DevicesTyped' /\ ReplacedStaysReplaced'
  BY <1>0 DEF Typed, SessionsTyped, DevicesTyped, ReplacedStaysReplaced
<1>3. Pending'
  BY <1>0, <1>1 DEF Pending, NeedsUpdate, DevicesTyped
<1>4. KeysApart'
  BY <1>0, <1>1 DEF KeysApart
<1>5. KeysReturned'
  BY <1>0, <1>1 DEF KeysReturned, Returned, At
<1>6. RequestsOK'
  BY <1>0, <1>1 DEF RequestsOK, ReqOK
<1> QED
  BY <1>2, <1>3, <1>4, <1>5, <1>6

(* Each key written back is the one its device has, or unsettled.          *)
LEMMA BackfillWrites ==
  ASSUME Inv, BackfillWrite, UNCHANGED now
  PROVE  Inv'
<1> USE DEF Inv
<1>0. /\ UNCHANGED <<now, users, sessions, req, secrets, cookies, shown, lost, replaced, unsettled>>
      /\ Opening' = {}
  BY DEF BackfillWrite, ghosts, Opening
<1>1. Typed' /\ SessionsTyped'
  BY <1>0 DEF Typed, SessionsTyped
<1>2. CASE UNCHANGED devices
  BY <1>0, <1>1, <1>2 DEF DevicesTyped, Pending, KeysApart, KeysReturned, Returned, At,
     ReplacedStaysReplaced, RequestsOK, ReqOK
<1>3. CASE devices' = [d \in DOMAIN devices |->
                         IF d \in Opening
                           THEN [devices[d] EXCEPT !.key = updates[d], !.settled = TRUE]
                           ELSE devices[d]]
  <2>1. DOMAIN devices' = DOMAIN devices
    BY <1>3
  <2>2. ASSUME NEW d \in DOMAIN devices
        PROVE  /\ devices'[d] \in [owner : Users, key : 1..secrets, settled : BOOLEAN]
               /\ d \in Opening => devices'[d].key = updates[d]
               /\ d \notin Opening => devices'[d] = devices[d]
    <3>1. devices[d] \in [owner : Users, key : 1..secrets, settled : BOOLEAN]
      BY DEF DevicesTyped
    <3>2. CASE d \in Opening
      <4>1. devices'[d] = [devices[d] EXCEPT !.key = updates[d], !.settled = TRUE]
        BY <1>3, <3>2
      <4>2. updates[d] \in 1..secrets
        BY <3>2 DEF Pending
      <4> QED
        BY <3>1, <3>2, <4>1, <4>2
    <3>3. CASE d \notin Opening
      BY <1>3, <3>1, <3>3
    <3> QED
      BY <3>2, <3>3
  <2>3. DevicesTyped'
    <3>1. devices' = [d \in DOMAIN devices' |-> devices'[d]]
      BY <1>3
    <3> QED
      BY <1>0, <2>1, <2>2, <3>1 DEF DevicesTyped
  <2>4. Pending' /\ KeysApart'
    BY <1>0, <2>1, <2>2 DEF Pending, KeysApart
  <2>5. KeysReturned'
    BY <1>0, <2>1, <2>2 DEF KeysReturned, Returned, At
  <2>6. ReplacedStaysReplaced'
    BY <1>0, <2>1, <2>2 DEF ReplacedStaysReplaced, Pending
  <2>7. RequestsOK'
    BY <1>0, <2>1, <2>2 DEF RequestsOK, ReqOK
  <2> QED
    BY <1>1, <2>3, <2>4, <2>5, <2>6, <2>7
<1> QED
  BY <1>2, <1>3 DEF BackfillWrite

-----------------------------------------------------------------------------
LEMMA HandlerSteps ==
  ASSUME Inv, NEW h \in Handlers, HandlerStep(h), UNCHANGED <<now, opening>>
  PROVE  Inv'
<1>0. ReqOK(req[h]) /\ req[h] \in Request
  BY DEF Inv, RequestsOK, Typed
<1>1. CASE (\E u \in Users : LoginBegin(h, u)) \/ LoginLookup(h)
  BY <1>1, LoginSteps
<1>2. CASE LoginCreate(h)
  <2>1. ~At(h, "reread") /\ At(h, "login")
    BY <1>2 DEF LoginCreate, At
  <2> QED
    BY <1>2, <2>1, SessionCreated, RefusedStep DEF LoginCreate
<1>3. CASE \E t \in cookies : Logout(h, t)
  <2>1. PICK t \in cookies : Logout(h, t)
    BY <1>3
  <2>2. ~At(h, "reread")
    BY <2>1 DEF Logout, At
  <2> QED
    BY <2>1, <2>2, SessionsEnd DEF Logout
<1>4. CASE \E t \in cookies, u \in Users : SessionBegin(h, "user", t, u, None)
  BY <1>4, SessionBegins
<1>5. CASE \E t \in cookies, u \in Users : SessionBegin(h, "device", t, u, None)
  BY <1>5, SessionBegins
<1>6. CASE \E t \in cookies, d \in DeviceIDs : SessionBegin(h, "rotate", t, None, d)
  BY <1>6, SessionBegins
<1>7. CASE SessionRead(h)
  BY <1>7, SessionReads
<1>8. CASE SessionExpired(h)
  <2>1. ~At(h, "reread")
    BY <1>8 DEF SessionExpired, At
  <2> QED
    BY <1>8, <2>1, RefusedStep, SessionsEnd DEF SessionExpired
<1>9. CASE UserRead(h)
  <2>1. ~At(h, "reread") /\ req[h].pc = "user"
    BY <1>9 DEF UserRead, At
  <2>2. CASE Goto(h, "handle") /\ UNCHANGED <<tables, secrets, ghosts, faults>>
    BY <2>1, <2>2, MovesOn
  <2>3. CASE Refused(h)
    BY <2>1, <2>3, RefusedStep
  <2>4. CASE /\ Done(h)
             /\ DropSession(req[h].secret) \/ UNCHANGED sessions
             /\ UNCHANGED <<users, devices, secrets, ghosts>>
    BY <2>1, <2>4, SessionsEnd
  <2> QED
    BY <1>9, <2>2, <2>3, <2>4 DEF UserRead
<1>10. CASE CreateUser(h)
  <2>1. ~At(h, "reread")
    BY <1>10 DEF CreateUser, At
  <2>2. CASE Refused(h) \/ CallFails(h)
    BY <2>1, <2>2, RefusedStep
  <2>3. req[h].user \in Users
    BY <1>0, <1>10 DEF CreateUser, At, ReqOK
  <2>4. CASE InsertUser(req[h].user) /\ Done(h)
             /\ UNCHANGED <<sessions, devices, secrets, ghosts, faults>>
    <3>1. users \subseteq users' /\ users' \subseteq Users
      BY <2>3, <2>4 DEF InsertUser, Inv, Typed
    <3> QED
      BY <2>1, <2>4, <3>1, UsersGrow
  <2> QED
    BY <1>10, <2>2, <2>4 DEF CreateUser
<1>11. CASE CreateDevice(h)
  <2>1. ~At(h, "reread") /\ req[h].pc = "handle" /\ req[h].user \in Users
    BY <1>0, <1>11 DEF CreateDevice, At, ReqOK
  <2>2. CASE Refused(h) \/ CallFails(h)
    BY <2>1, <2>2, RefusedStep
  <2>3. CASE /\ \E d \in DeviceIDs \ DOMAIN devices : StoreKey(h, d, req[h].user)
             /\ UNCHANGED <<users, sessions, ghosts, faults>>
    <3>1. PICK d \in DeviceIDs \ DOMAIN devices : StoreKey(h, d, req[h].user)
      BY <2>3
    <3>2. UNCHANGED <<cookies, shown, lost, replaced, unsettled>>
      BY <2>3 DEF ghosts
    <3>3. d \notin Opening /\ unsettled \subseteq 1..secrets /\ replaced \subseteq 1..secrets
      BY DEF Inv, Pending, Typed
    <3>4. req[h].pc \in Passed
      BY <2>1 DEF Passed
    <3> QED
      BY <2>1, <2>3, <3>1, <3>2, <3>3, <3>4, KeyStored
  <2> QED
    BY <1>11, <2>2, <2>3 DEF CreateDevice
<1>12. CASE RotateRead(h)
  <2>1. ~At(h, "reread") /\ req[h].pc = "handle"
    BY <1>12 DEF RotateRead, At
  <2>2. CASE Refused(h) \/ CallFails(h)
    BY <2>1, <2>2, RefusedStep
  <2>3. CASE req[h].device \in DOMAIN devices /\ Goto(h, "rotate")
             /\ UNCHANGED <<tables, secrets, ghosts, faults>>
    BY <2>1, <2>3, MovesOn
  <2> QED
    BY <1>12, <2>2, <2>3 DEF RotateRead
<1>13. CASE RotateDeviceAPIKey(h)
  <2> DEFINE d == req[h].device
  <2>1. ~At(h, "reread") /\ req[h].pc = "rotate" /\ d \in DOMAIN devices
    BY <1>0, <1>13 DEF RotateDeviceAPIKey, At, ReqOK
  <2>2. CASE Refused(h) \/ CallFails(h)
    BY <2>1, <2>2, RefusedStep
  <2>3. CASE /\ StoreKey(h, d, devices[d].owner)
             /\ replaced' = replaced \cup {devices[d].key}
             /\ unsettled' = unsettled \cup
                  {devices[f].key : f \in {e \in {d} \cap Opening : ~devices[e].settled}}
             /\ UNCHANGED <<users, sessions, cookies, shown, lost, faults>>
    <3>1. d \in DeviceIDs /\ devices[d].owner \in Users /\ devices[d].key \in 1..secrets
      BY <2>1 DEF Inv, DevicesTyped
    <3>2. replaced' \subseteq 1..secrets /\ unsettled' \subseteq 1..secrets
      BY <2>3, <3>1 DEF Inv, Typed
    <3>3. d \in Opening => devices[d].key \in unsettled'
      BY <2>3 DEF Inv, Pending
    <3>4. req[h].pc \in Passed
      BY <2>1 DEF Passed
    <3>5. \A k \in replaced' : k \in replaced \/ (d \in DOMAIN devices /\ k = devices[d].key)
      BY <2>1, <2>3
    <3> HIDE DEF d
    <3> QED
      BY <2>1, <2>3, <3>1, <3>2, <3>3, <3>4, <3>5, KeyStored
  <2> QED
    BY <1>13, <2>2, <2>3 DEF RotateDeviceAPIKey
<1>14. CASE ReturnKey(h)
  BY <1>14, KeyIsReturned
<1>15. CASE \E k \in shown : IngestBegin(h, k)
  BY <1>15, IngestBegins
<1>16. CASE GetDeviceByAPIKey(h)
  BY <1>16, KeyReads
<1>17. CASE GetDeviceByID(h)
  <2>1. ~At(h, "reread") /\ req[h].pc = "device"
    BY <1>17 DEF GetDeviceByID, At
  <2> QED
    BY <1>17, <2>1, RefusedStep, MovesOn DEF GetDeviceByID
<1>18. CASE IngestEnds(h)
  <2>1. ~At(h, "reread")
    BY <1>18 DEF IngestEnds, At
  <2> QED
    BY <1>18, <2>1, RefusedStep DEF IngestEnds
<1> QED
  BY <1>1, <1>2, <1>3, <1>4, <1>5, <1>6, <1>7, <1>8, <1>9, <1>10, <1>11, <1>12, <1>13, <1>14,
     <1>15, <1>16, <1>17, <1>18 DEF HandlerStep

LEMMA InvNext == Inv /\ [Next]_vars => Inv'
<1> SUFFICES ASSUME Inv, [Next]_vars PROVE Inv'
    OBVIOUS
<1>1. CASE UNCHANGED vars
  <2>1. UNCHANGED <<now, users, sessions, devices, updates, req, secrets, cookies, shown, lost,
                    replaced, unsettled>>
    BY <1>1 DEF vars, tables, opening, ghosts
  <2> QED
    BY <2>1 DEF Inv, Typed, SessionsTyped, DevicesTyped, Pending, Opening, KeysApart, KeysReturned,
                Returned, At, ReplacedStaysReplaced, RequestsOK, ReqOK
<1>2. CASE Tick /\ UNCHANGED opening
  BY <1>2, TickStep
<1>3. CASE (BackfillRead \/ BackfillWrite) /\ UNCHANGED now
  BY <1>3, BackfillReads, BackfillWrites
<1>4. CASE \E h \in Handlers : HandlerStep(h) /\ UNCHANGED <<now, opening>>
  BY <1>4, HandlerSteps
<1> QED
  BY <1>1, <1>2, <1>3, <1>4 DEF Next

LEMMA AlwaysInv == Spec => []Inv
  BY InvInit, InvNext, PTL DEF Spec

(* The tables, the clock and the secrets have the types that the handlers  *)
(* and the backfill give them: each session is of a user that exists and a *)
(* token that a browser was given, and each key one that was generated.    *)
THEOREM AccountsTyped == Spec => []TypeOK
<1>1. Inv => TypeOK
  <2> SUFFICES ASSUME Inv PROVE TypeOK
    OBVIOUS
  <2>1. MaxTime \in Nat /\ MaxSecrets \in Nat
    BY AccountsAssumption
  <2>2. devices \in Partial(DeviceIDs, [owner : Users, key : 1..secrets, settled : BOOLEAN])
    BY DEF Inv, DevicesTyped, Partial
  <2> QED
    BY <2>1, <2>2 DEF Inv, Typed, SessionsTyped, TypeOK
<1> QED
  BY <1>1, AlwaysInv, PTL

(* A request that the session or the API key middleware has let through    *)
(* began with a token or key that was good at that moment, however many    *)
(* logouts, rotations and expiries run between its accesses; the exception *)
(* is a key that backfillDeviceAPIKeyHashes, having read it before it was  *)
(* replaced, writes back.                                                  *)
THEOREM CredentialsAreFresh == Spec => []CredentialsFresh
<1>1. Inv => CredentialsFresh
  BY DEF Inv, RequestsOK, ReqOK, Passed, CredentialsFresh
<1> QED
  BY <1>1, AlwaysInv, PTL

(* The key that is valid for a device was returned to its user, is about   *)
(* to be, or was lost with the error of a reread after the write: for any  *)
(* number of createDeviceHandler and rotateDeviceKeyHandler requests and   *)
(* of openings of the store beside them.                                   *)
THEOREM ValidKeysAreReturned == Spec => []KeyShown
<1>1. Inv => KeyShown
  BY DEF Inv, KeysReturned, Returned, KeyShown
<1> QED
  BY <1>1, AlwaysInv, PTL

(* RotateDeviceAPIKey is final: a key that it replaced is valid again only *)
(* where a backfill had read it, unsettled, before the rotation.           *)
THEOREM ReplacedKeysStayReplaced == Spec => []ReplacedStaysReplaced
<1>1. Inv => ReplacedStaysReplaced
  BY DEF Inv
<1> QED
  BY <1>1, AlwaysInv, PTL
=============================================================================
