------------------------------ MODULE Accounts ------------------------------
(***************************************************************************)
(* Users, sessions and device keys: the login, logout, user and device     *)
(* handlers of internal/api with the session and API key middleware, over  *)
(* internal/store/{users,sessions,devices}.go, and the hashing of device   *)
(* keys each time a process opens the store (sqlite_store.go): cmd/migrate *)
(* --create-admin does so beside a running server.                         *)
(*                                                                         *)
(* One step per access to the database.  Tokens and keys are random in the *)
(* code and fresh numbers here; a client only presents one that it was     *)
(* given.  Parsing, CSRF, passwords and the rate limiters (RateLimiter)    *)
(* refuse requests; here a request may be refused for no reason.           *)
(***************************************************************************)
EXTENDS Integers, FiniteSets, Functions, TLC

CONSTANTS
  Handlers,       \* requests in progress
  Users,          \* emails
  Admins,         \* the users with is_admin
  DeviceIDs,      \* devices.id
  SessionTTL,     \* defaultSessionTTL
  None,           \* no value
  MaxTime,        \* bound: the clock
  MaxSecrets,     \* bound: tokens and keys
  MaxOpens,       \* bound: openings of the store that write
  MaxFaults       \* bound: failing database calls

ASSUME AccountsAssumption ==
  /\ Admins \subseteq Users /\ Admins # {}
  /\ SessionTTL \in Nat \ {0}
  /\ {MaxTime, MaxSecrets, MaxOpens, MaxFaults} \subseteq Nat
  /\ DeviceIDs \subseteq Nat \ {0}

VARIABLES
  now,          \* the clock
  users,        \* users: those created so far
  sessions,     \* sessions: user and expiresAt of each token
  devices,      \* devices: owner and key of each device, and whether the
                \* column api_key has the form that the backfill gives it
  updates,      \* pendingUpdate: the keys the backfill has read, or None
  opens,        \* number of openings so far
  req,          \* the request each handler is working on
  secrets,      \* number of tokens and keys generated so far
  cookies,      \* history: the tokens returned to a browser
  shown,        \* history: the keys returned to a user
  lost,         \* history: keys stored by a request that then failed
  replaced,     \* history: keys that a rotation has replaced
  unsettled,    \* history: keys replaced after a backfill read them to settle
  faults        \* number of failed calls so far

tables == <<users, sessions, devices>>
opening == <<updates, opens>>
ghosts == <<cookies, shown, lost, replaced, unsettled>>
vars   == <<now, tables, opening, req, secrets, ghosts, faults>>

Idle == [pc |-> "idle", op |-> None, user |-> None, actor |-> None, device |-> None,
         secret |-> 0, made |-> 0, dead |-> FALSE]

(* Before the server first runs, cmd/migrate has created an administrator. *)
Init ==
  /\ now = 0
  /\ \E a \in Admins : users = {a}
  /\ sessions = [t \in {} |-> 0]
  /\ devices = [d \in {} |-> 0]
  /\ req = [h \in Handlers |-> Idle]
  /\ secrets = 0
  /\ cookies = {}
  /\ shown = {}
  /\ lost = {}
  /\ updates = None
  /\ opens = 0
  /\ replaced = {}
  /\ unsettled = {}
  /\ faults = 0

(* The token is that of a session that has not expired, or the key that of *)
(* a device.                                                               *)
Live(s) ==
  \/ s \in DOMAIN sessions /\ sessions[s].expiresAt > now
  \/ \E d \in DOMAIN devices : devices[d].key = s

(* The devices whose keys a backfill is about to write back.               *)
Opening == IF updates = None THEN {} ELSE DOMAIN updates

At(h, pc) == req[h].pc = pc

Goto(h, pc) == req' = [req EXCEPT ![h].pc = pc]

Done(h) == req' = [req EXCEPT ![h] = Idle]

Begin(h, r) == At(h, "idle") /\ req' = [req EXCEPT ![h] = r]

(* The request ends with an error, without another change.                 *)
Refused(h) == Done(h) /\ UNCHANGED <<tables, secrets, ghosts, faults>>

(* A database call fails, and the request with it.                         *)
CallFails(h) ==
  /\ faults < MaxFaults
  /\ faults' = faults + 1
  /\ Done(h)
  /\ UNCHANGED <<tables, secrets, ghosts>>

DropSession(t) == sessions' = Restrict(sessions, DOMAIN sessions \ {t})

Tick ==
  /\ now < MaxTime
  /\ now' = now + 1
  /\ UNCHANGED <<tables, req, secrets, ghosts, faults>>

-----------------------------------------------------------------------------
(* loginHandler *)

LoginBegin(h, u) ==
  /\ Begin(h, [Idle EXCEPT !.pc = "lookup", !.op = "login", !.user = u])
  /\ UNCHANGED <<tables, secrets, ghosts, faults>>

(* Users are not deleted: the id and the row are found together.           *)
GetUserByEmail(u) == u \in users

(* GetUserByEmail and VerifyPassword.                                      *)
LoginLookup(h) ==
  /\ At(h, "lookup")
  /\ \/ /\ GetUserByEmail(req[h].user)
        /\ Goto(h, "login")
        /\ UNCHANGED <<tables, secrets, ghosts, faults>>
     \/ Refused(h)
     \/ CallFails(h)

(* CreateSession, and the token goes out in a cookie.                      *)
CreateSession(h) ==
  LET t == secrets + 1
  IN  /\ secrets < MaxSecrets
      /\ secrets' = t
      /\ sessions' = [k \in DOMAIN sessions \cup {t} |->
                        IF k = t THEN [user |-> req[h].user, expiresAt |-> now + SessionTTL]
                        ELSE sessions[k]]
      /\ cookies' = cookies \cup {t}
      /\ Done(h)
      /\ UNCHANGED <<users, devices, shown, lost, replaced, unsettled, faults>>

LoginCreate(h) ==
  /\ At(h, "login")
  /\ CreateSession(h) \/ Refused(h) \/ CallFails(h)

(* logoutHandler: the cookie is cleared whether DeleteSession fails or not. *)
Logout(h, t) ==
  /\ At(h, "idle")
  /\ \/ DropSession(t) /\ UNCHANGED faults
     \/ UNCHANGED sessions /\ faults < MaxFaults /\ faults' = faults + 1
  /\ UNCHANGED <<users, devices, req, secrets, ghosts>>

-----------------------------------------------------------------------------
(* LoadCurrentUserFromSession, RequireUserSessionAuth and RequireAdmin.    *)

SessionBegin(h, op, t, u, d) ==
  /\ Begin(h, [Idle EXCEPT !.pc = "session", !.op = op, !.secret = t, !.user = u, !.device = d,
                           !.dead = ~Live(t)])
  /\ UNCHANGED <<tables, secrets, ghosts, faults>>

Authenticated(h, t) ==
  req' = [req EXCEPT ![h].pc = "user", ![h].actor = sessions[t].user]

(* Mutant of GetSession: an expired session is still good.                 *)
GetSessionAnyAge(h) ==
  LET t == req[h].secret
  IN  IF t \in DOMAIN sessions THEN Authenticated(h, t) ELSE Done(h)

GetSession(h) ==
  LET t == req[h].secret
  IN  \/ t \notin DOMAIN sessions /\ Done(h)
      \/ t \in DOMAIN sessions /\ sessions[t].expiresAt > now /\ Authenticated(h, t)
      \/ t \in DOMAIN sessions /\ sessions[t].expiresAt <= now /\ Goto(h, "expired")

SessionRead(h) ==
  /\ At(h, "session")
  /\ \/ GetSession(h) /\ UNCHANGED <<tables, secrets, ghosts, faults>>
     \/ CallFails(h)

(* The expired session is deleted, if that works.                          *)
SessionExpired(h) ==
  /\ At(h, "expired")
  /\ \/ /\ DropSession(req[h].secret)
        /\ Done(h)
        /\ UNCHANGED <<users, devices, secrets, ghosts, faults>>
     \/ CallFails(h)

(* Only POST /api/v1/users asks for it.                                    *)
RequireAdmin(h) == req[h].op = "user" => req[h].actor \in Admins

(* GetUserByID; if it fails, whatever the reason, so does the session.     *)
UserRead(h) ==
  /\ At(h, "user")
  /\ \/ /\ RequireAdmin(h)
        /\ Goto(h, "handle")
        /\ UNCHANGED <<tables, secrets, ghosts, faults>>
     \/ ~RequireAdmin(h) /\ Refused(h)
     \/ /\ faults < MaxFaults
        /\ faults' = faults + 1
        /\ Done(h)
        /\ DropSession(req[h].secret) \/ UNCHANGED sessions
        /\ UNCHANGED <<users, devices, secrets, ghosts>>

-----------------------------------------------------------------------------
(* Emails are unique.  Reading back the row may fail, which changes        *)
(* nothing but the response.                                               *)
InsertUser(u) == u \notin users /\ users' = users \cup {u}

(* createUserHandler *)
CreateUser(h) ==
  /\ At(h, "handle") /\ req[h].op = "user"
  /\ \/ /\ InsertUser(req[h].user)
        /\ Done(h)
        /\ UNCHANGED <<sessions, devices, secrets, ghosts, faults>>
     \/ Refused(h)
     \/ CallFails(h)

(* Mutant of StoreKey: the key stored is not the one to be returned.       *)
StoreKeyAgain(h, d, owner) ==
  /\ secrets + 2 <= MaxSecrets
  /\ secrets' = secrets + 2
  /\ devices' = [e \in DOMAIN devices \cup {d} |->
                   IF e = d THEN [owner |-> owner, key |-> secrets + 2, settled |-> FALSE]
                   ELSE devices[e]]
  /\ req' = [req EXCEPT ![h].pc = "reread", ![h].device = d, ![h].made = secrets + 1]

(* A new key for the device, to be returned once the row is read back.     *)
StoreKey(h, d, owner) ==
  /\ secrets < MaxSecrets
  /\ secrets' = secrets + 1
  /\ devices' = [e \in DOMAIN devices \cup {d} |->
                   IF e = d THEN [owner |-> owner, key |-> secrets + 1, settled |-> FALSE]
                   ELSE devices[e]]
  /\ req' = [req EXCEPT ![h].pc = "reread", ![h].device = d, ![h].made = secrets + 1]

(* createDeviceHandler: for oneself, or by an administrator for anyone.    *)
(* Whether there is such a user only the connection that ran the pragma    *)
(* foreign_keys checks; the pool may use another.                          *)
CreateDevice(h) ==
  /\ At(h, "handle") /\ req[h].op = "device"
  /\ \/ /\ req[h].user = req[h].actor \/ req[h].actor \in Admins
        /\ \E d \in DeviceIDs \ DOMAIN devices :
             /\ \A e \in DeviceIDs : e < d => e \in DOMAIN devices
             /\ StoreKey(h, d, req[h].user)
        /\ UNCHANGED <<users, sessions, ghosts, faults>>
     \/ Refused(h)
     \/ CallFails(h)

(* rotateDeviceKeyHandler: the device is read, then its key replaced.      *)
RotateRead(h) ==
  /\ At(h, "handle") /\ req[h].op = "rotate"
  /\ \/ /\ req[h].device \in DOMAIN devices
        /\ devices[req[h].device].owner = req[h].actor \/ req[h].actor \in Admins
        /\ Goto(h, "rotate")
        /\ UNCHANGED <<tables, secrets, ghosts, faults>>
     \/ Refused(h)
     \/ CallFails(h)

RotateDeviceAPIKey(h) ==
  /\ At(h, "rotate")
  /\ \/ /\ StoreKey(h, req[h].device, devices[req[h].device].owner)
        /\ replaced' = replaced \cup {devices[req[h].device].key}
        /\ unsettled' = unsettled \cup
             {devices[d].key : d \in {e \in {req[h].device} \cap Opening : ~devices[e].settled}}
        /\ UNCHANGED <<users, sessions, cookies, shown, lost, faults>>
     \/ Refused(h)
     \/ CallFails(h)

(* GetDeviceByID after the write, and the response with the key.           *)
ReturnKey(h) ==
  /\ At(h, "reread")
  /\ Done(h)
  /\ \/ shown' = shown \cup {req[h].made} /\ UNCHANGED <<lost, faults>>
     \/ /\ faults < MaxFaults
        /\ faults' = faults + 1
        /\ lost' = lost \cup {req[h].made}
        /\ UNCHANGED shown
  /\ UNCHANGED <<tables, secrets, cookies, replaced, unsettled>>

-----------------------------------------------------------------------------
(* RequireDeviceAPIKeyAuth: the id is looked up by the key, then the row   *)
(* by the id, and the ingest handler runs.                                 *)

IngestBegin(h, k) ==
  /\ Begin(h, [Idle EXCEPT !.pc = "key", !.op = "ingest", !.secret = k, !.dead = ~Live(k)])
  /\ UNCHANGED <<tables, secrets, ghosts, faults>>

GetDeviceByAPIKey(h) ==
  /\ At(h, "key")
  /\ \/ /\ \E d \in DOMAIN devices :
             /\ devices[d].key = req[h].secret
             /\ req' = [req EXCEPT ![h].pc = "device", ![h].device = d]
        /\ UNCHANGED <<tables, secrets, ghosts, faults>>
     \/ /\ \A d \in DOMAIN devices : devices[d].key # req[h].secret
        /\ Refused(h)
     \/ CallFails(h)

GetDeviceByID(h) ==
  /\ At(h, "device")
  /\ \/ Goto(h, "ingest") /\ UNCHANGED <<tables, secrets, ghosts, faults>>
     \/ CallFails(h)

IngestEnds(h) == At(h, "ingest") /\ Refused(h)

-----------------------------------------------------------------------------
(* backfillDeviceAPIKeyHashes, when the store is opened: rows whose column *)
(* api_key has not its final form are read, then written back.  An opening *)
(* that finds no such row changes nothing and is not counted.              *)

(* Mutant of NeedsUpdate: every row is.                                    *)
NeedsUpdateAlways(d) == TRUE

NeedsUpdate(d) == ~devices[d].settled

BackfillRead ==
  /\ updates = None
  /\ opens < MaxOpens
  /\ opens' = opens + 1
  /\ LET pending == {d \in DOMAIN devices : NeedsUpdate(d)}
     IN  pending # {} /\ updates' = [d \in pending |-> devices[d].key]
  /\ UNCHANGED <<tables, req, secrets, ghosts, faults>>

(* One transaction, with the hashes as they were read.                     *)
BackfillWrite ==
  /\ updates # None
  /\ updates' = None
  /\ \/ /\ devices' = [d \in DOMAIN devices |->
                          IF d \in Opening
                            THEN [devices[d] EXCEPT !.key = updates[d], !.settled = TRUE]
                            ELSE devices[d]]
        /\ UNCHANGED faults
     \/ faults < MaxFaults /\ faults' = faults + 1 /\ UNCHANGED devices
  /\ UNCHANGED <<users, sessions, opens, req, secrets, ghosts>>

-----------------------------------------------------------------------------
HandlerStep(h) ==
  \/ \E u \in Users : LoginBegin(h, u)
  \/ LoginLookup(h) \/ LoginCreate(h)
  \/ \E t \in cookies : Logout(h, t)
  \/ \E t \in cookies, u \in Users : SessionBegin(h, "user", t, u, None)
  \/ \E t \in cookies, u \in Users : SessionBegin(h, "device", t, u, None)
  \/ \E t \in cookies, d \in DeviceIDs : SessionBegin(h, "rotate", t, None, d)
  \/ SessionRead(h) \/ SessionExpired(h) \/ UserRead(h)
  \/ CreateUser(h) \/ CreateDevice(h) \/ RotateRead(h) \/ RotateDeviceAPIKey(h) \/ ReturnKey(h)
  \/ \E k \in shown : IngestBegin(h, k)
  \/ GetDeviceByAPIKey(h) \/ GetDeviceByID(h) \/ IngestEnds(h)

Next ==
  \/ Tick /\ UNCHANGED opening
  \/ (BackfillRead \/ BackfillWrite) /\ UNCHANGED now
  \/ \E h \in Handlers : HandlerStep(h) /\ UNCHANGED <<now, opening>>

Spec == Init /\ [][Next]_vars

-----------------------------------------------------------------------------
Partial(S, T) == UNION {[D -> T] : D \in SUBSET S}

TypeOK ==
  /\ now \in 0..MaxTime
  /\ users \in SUBSET Users
  /\ \A t \in DOMAIN sessions : t \in cookies /\ sessions[t].user \in users
  /\ devices \in Partial(DeviceIDs, [owner : Users, key : 1..secrets, settled : BOOLEAN])
  /\ secrets \in 0..MaxSecrets
  /\ cookies \cup shown \cup lost \subseteq 1..secrets

(* The check of a session takes three accesses to the database and that of *)
(* a key two, while others log out, rotate the key or the session expires. *)
(* A request that passed it carries a token or key that was good when the  *)
(* request began: nothing is honoured that had been ended before, except a *)
(* key that a backfill brings back.                                        *)
CredentialsFresh ==
  \A h \in Handlers :
    req[h].pc \in {"user", "handle", "rotate", "reread", "device", "ingest"} =>
      ~req[h].dead \/ req[h].secret \in unsettled

(* Only the hash of a key is stored, and the key itself returned once.     *)
(* However rotations interleave, the key that is valid for a device has    *)
(* been or is about to be returned to someone, unless reading back the row *)
(* failed after the key was replaced.                                      *)
KeyShown ==
  \A d \in DOMAIN devices :
    \/ devices[d].key \in shown \cup lost
    \/ \E h \in Handlers : At(h, "reread") /\ req[h].made = devices[d].key

(* A key that was replaced is not valid again, unless the store was being  *)
(* opened and its backfill, which reads the keys before its transaction,   *)
(* had read this one as not yet in its final form before the rotation.     *)
ReplacedStaysReplaced ==
  \A d \in DOMAIN devices : devices[d].key \in replaced => devices[d].key \in unsettled
=============================================================================
