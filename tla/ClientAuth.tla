----------------------------- MODULE ClientAuth -----------------------------
(* ClientAuthService: the four client endpoints (init, license, login,       *)
(* variable) served concurrently with the administrator's dashboard calls.   *)
(*                                                                           *)
(* Each request is a process.  It takes one step per access to shared state  *)
(* (cache entry, application, license, user or variable row), because every  *)
(* such access takes and releases its own lock or is its own SQL statement;  *)
(* what the handler computes between two accesses belongs to the earlier     *)
(* step.  Rows are read as copies, so a request may act on a copy that the   *)
(* dashboard or another request has overwritten since.                       *)
EXTENDS LicenseRules

CONSTANTS
  Requests,       \* concurrently served requests
  Packets,        \* the client messages that may arrive
  MaxSessions,    \* bound: session ids and tokens ever issued
  MaxTime,        \* bound: last instant of the clock
  SessionTTL,     \* cache TTL of a handshake session
  TokenTTL,       \* cache TTL of an authenticated session
  SqlStore,       \* TRUE: PostgreSQL repositories; FALSE: MemoryStore
  RedisCache,     \* TRUE: cache entries survive a restart of the server
  Apps, Licenses, Users, VarKeys, Hwids, Nonces,
  LicenseApp, Duration, MaxHwids, TierLevel,   \* fixed columns of a license
  UserApp,        \* fixed column of a user
  AdminStatuses,  \* statuses the dashboard writes with UpdateLicenseStatus
  MinTiers        \* values of min_tier_level the dashboard writes

ASSUME ConstantTypes ==
  /\ MaxSessions \in Nat \ {0} /\ MaxTime \in Nat
  /\ SessionTTL \in Nat /\ TokenTTL \in Nat
  /\ SqlStore \in BOOLEAN /\ RedisCache \in BOOLEAN
  /\ Apps # {} /\ None \notin Apps \cup Licenses \cup Users \cup Hwids
  /\ LicenseApp \in [Licenses -> Apps] /\ UserApp \in [Users -> Apps]
  /\ Duration \in [Licenses -> Nat] /\ MaxHwids \in [Licenses -> Nat \ {0}]
  /\ TierLevel \in [Licenses -> Nat] /\ MinTiers \subseteq Nat

Statuses == {"unactivated", "active", "paused", "banned", "expired"}
Kinds    == {"init", "license", "login", "variable"}

(* What is wrong with a packet, if anything: its payload does not decrypt,   *)
(* its timestamp is outside the skew window, its public key does not parse,  *)
(* its binary hash or its password does not match.                           *)
Faults == {"none", "decrypt", "skew", "pubkey", "integrity", "password"}

Packet == [kind : Kinds, app : Apps, nonce : Nonces, fault : Faults,
           key : Licenses \cup Users \cup VarKeys \cup {None},
           hwid : Hwids \cup {None}]

ASSUME PacketType == Packets \subseteq Packet /\ Packets # {}
ASSUME StatusType == AdminStatuses \subseteq Statuses
(* MemoryStore has no subscriptions: it reports tier 1 for every license.    *)
ASSUME MemoryTiers == SqlStore \/ \A l \in Licenses : TierLevel[l] = 1

SessionIds == 1 .. MaxSessions
Session == [app : Apps, lic : Licenses \cup {None}, user : Users \cup {None},
            hwid : Hwids \cup {None}, tier : Nat, expires : Int]
App     == [exists : BOOLEAN, paused : BOOLEAN, hwidLock : BOOLEAN]
(* resumed is a history field: the dashboard has written "active" or         *)
(* "expired" on the license while it had no expiry.                          *)
License == [status : Statuses \cup {"deleted"}, hwid : Hwids \cup {None},
            expires : Int, resumed : BOOLEAN]
User    == [exists : BOOLEAN, banned : BOOLEAN,
            seen : BOOLEAN, hwid : Hwids \cup {None}]   \* seen: hwid_hash not NULL

Steps == {"idle", "session", "app", "nonce", "license", "expire", "activate",
          "user", "updatelogin", "variable", "store"}

Outcomes ==
  {"none", "ok", "ErrAppNotFound", "ErrAppPaused", "ErrSessionNotFound",
   "ErrStoreSession",
   "ErrDecrypt", "ErrClockSkew", "ErrReplayDetected", "ErrPublicKey",
   "ErrIntegrityFailed", "ErrLicenseInvalid", "ErrLicenseBanned",
   "ErrLicensePaused", "ErrLicenseExpired", "ErrHWIDRequired",
   "ErrHWIDMismatch", "ErrActivate", "ErrCredentials", "ErrUserBanned",
   "ErrVariableNotFound", "ErrTierInsufficient"}

(* The locals of one request: its packet, the session id it named (0: one    *)
(* that was never issued), the copies it has read and the expiry it will     *)
(* write; an idle slot keeps the answer of the request it served last.       *)
(* stale is a history variable: the license row was written after the copy.  *)
Request == [pc : Steps, pkt : Packets, sid : 0 .. MaxSessions, sess : Session,
            app : App, lic : License, newExpires : Int, stale : BOOLEAN,
            resp : Outcomes]

VARIABLES
  now,       \* the server's clock
  issued,    \* number of session ids and tokens issued so far (fresh UUIDs)
  sessions,  \* cache entries "session:<id>"; expires = Nil when there is none
  nonces,    \* cache entries "nonce:<n>" still live
  apps, lic, users, remoteVars,   \* the repositories
  req        \* the requests being served

store == <<apps, lic, users, remoteVars>>
cache == <<issued, sessions, nonces>>
vars == <<now, cache, store, req>>

AnyApp    == CHOOSE a \in Apps : TRUE
AnyPacket == CHOOSE p \in Packets : TRUE
NoSession == [app |-> AnyApp, lic |-> None, user |-> None,
              hwid |-> None, tier |-> 0, expires |-> Nil]
NewApp     == [exists |-> TRUE, paused |-> FALSE, hwidLock |-> TRUE]
NewLicense == [status |-> "unactivated", hwid |-> None, expires |-> Nil,
               resumed |-> FALSE]
NewUser    == [exists |-> TRUE, banned |-> FALSE, seen |-> FALSE, hwid |-> None]
NoVar      == Nil   \* min_tier_level of a variable that does not exist

(* An idle slot, with the answer of the request it served last.              *)
Answered(resp) ==
  [pc |-> "idle", pkt |-> AnyPacket, sid |-> 0, sess |-> NoSession,
   app |-> NewApp, lic |-> NewLicense, newExpires |-> Nil, stale |-> FALSE,
   resp |-> resp]
IdleRequest == Answered("none")

Init ==
  /\ now = 0 /\ issued = 0 /\ nonces = {}
  /\ sessions = [s \in SessionIds |-> NoSession]
  /\ apps = [a \in Apps |-> NewApp]
  /\ lic = [l \in Licenses |-> NewLicense]
  /\ users = [u \in Users |-> NewUser]
  /\ remoteVars = [v \in Apps \X VarKeys |-> NoVar]
  /\ req = [r \in Requests |-> IdleRequest]
-----------------------------------------------------------------------------
(* Helpers *)

At(r, step) == req[r].pc = step
Kind(r)     == req[r].pkt.kind
Goto(r, step)    == req' = [req EXCEPT ![r].pc = step]
Answer(r, resp)  == req' = [req EXCEPT ![r] = Answered(resp)]

(* GetSession: an entry is served until the clock is past its expiry.        *)
Live(s) == /\ s \in SessionIds /\ sessions[s].expires # Nil
           /\ now <= sessions[s].expires

(* Statuses a login is refused for; "expired" is not among them.             *)
Locked_BannedOnly(status) == status = "banned"   \* seeded fault
Locked(status) == status \in {"banned", "paused"}

(* The row a repository call names does not exist (any more).                *)
RowGone_Never(l) == FALSE                        \* seeded fault
RowGone(l) == lic[l].status = "deleted"

(* The row GetByKey(app, key) finds.                                         *)
KnownLicense_AnyApp(l, app) == l \in Licenses /\ ~RowGone(l)   \* seeded fault
KnownLicense(l, app) == l \in Licenses /\ ~RowGone(l) /\ LicenseApp[l] = app

(* The expiry an activation writes: computed for the first one, the copy's   *)
(* own for a later binding.                                                  *)
NewExpiry_Always(l, copy) == CalculateExpiration(FALSE, Duration[l], now)
NewExpiry_Never(l, copy)  == copy.expires
NewExpiry(l, copy) == IF copy.status = "unactivated"
                      THEN CalculateExpiration(FALSE, Duration[l], now)
                      ELSE copy.expires

TierSuffices_OffByOne(tier, minTier) == tier + 1 >= minTier   \* seeded fault
TierSuffices(tier, minTier) == tier >= minTier

(* The requests that hold a copy of license l they may still act on.         *)
Holds(r, l) == /\ Kind(r) = "license" /\ req[r].pkt.key = l
               /\ req[r].pc \in {"expire", "activate", "store"}

(* req after the rows of the licenses in L were written.                     *)
MarkStale(L) ==
  [r \in Requests |-> IF \E l \in L : Holds(r, l)
                      THEN [req[r] EXCEPT !.stale = TRUE] ELSE req[r]]

(* StoreSession under a fresh UUID.  A call to Redis may fail; the memory    *)
(* cache never does.                                                         *)
StoreSession(data, ttl) ==
  /\ issued < MaxSessions
  /\ issued' = issued + 1
  /\ sessions' = [sessions EXCEPT ![issued + 1] =
                    [data EXCEPT !.expires = now + ttl]]

CacheFails == RedisCache /\ UNCHANGED <<issued, sessions>>
-----------------------------------------------------------------------------
(* A request arrives, naming a session id or token issued to some client, or *)
(* none of them.  A slot is served only while an id is left for its answer.  *)
Receive(r, p, s) ==
  /\ At(r, "idle")
  /\ s <= issued /\ (p.kind = "init" => s = 0)
  /\ issued + Cardinality({q \in Requests : ~At(q, "idle")}) < MaxSessions
  /\ req' = [req EXCEPT ![r] = [IdleRequest EXCEPT
               !.pc = IF p.kind = "init" THEN "app" ELSE "session",
               !.pkt = p, !.sid = s]]
  /\ UNCHANGED <<now, cache, store>>

ReadSession(r) ==
  /\ At(r, "session")
  /\ \/ /\ Live(req[r].sid)
        /\ req' = [req EXCEPT ![r].pc = "app",
                              ![r].sess = sessions[req[r].sid]]
     \/ /\ ~Live(req[r].sid) \/ CacheFails
        /\ Answer(r, "ErrSessionNotFound")
  /\ UNCHANGED <<now, cache, store>>

RequestApp(r) == IF Kind(r) = "init" THEN req[r].pkt.app ELSE req[r].sess.app

(* GetByID, the paused check (not made for variables) and the decryption of  *)
(* the payload with the session's key.                                       *)
ReadApp(r) ==
  LET a == apps[RequestApp(r)] IN
  /\ At(r, "app")
  /\ \/ /\ ~a.exists
        /\ Answer(r, IF Kind(r) \in {"init", "variable"} THEN "ErrAppNotFound"
                     ELSE "ErrAppPaused")
     \/ /\ a.exists /\ a.paused /\ Kind(r) # "variable"
        /\ Answer(r, "ErrAppPaused")
     \/ /\ a.exists /\ (~a.paused \/ Kind(r) = "variable")
        /\ IF Kind(r) # "init" /\ req[r].pkt.fault = "decrypt"
           THEN Answer(r, "ErrDecrypt")
           ELSE req' = [req EXCEPT ![r].app = a,
                  ![r].pc = IF Kind(r) = "variable" THEN "variable" ELSE "nonce"]
  /\ UNCHANGED <<now, cache, store>>

(* validateNonceAndTimestamp, then the checks made on the packet alone.  The *)
(* nonce is spent even when one of those later checks fails.                 *)
AfterNonce(r) ==
  CASE Kind(r) = "init"  -> IF req[r].pkt.fault = "pubkey"
                            THEN Answer(r, "ErrPublicKey") ELSE Goto(r, "store")
    [] Kind(r) = "login" -> Goto(r, "user")
    [] OTHER             -> IF req[r].pkt.fault = "integrity"
                            THEN Answer(r, "ErrIntegrityFailed")
                            ELSE Goto(r, "license")

CheckNonce(r) ==
  LET n == req[r].pkt.nonce IN
  /\ At(r, "nonce")
  /\ \/ /\ req[r].pkt.fault = "skew"
        /\ Answer(r, "ErrClockSkew") /\ UNCHANGED nonces
     \/ /\ req[r].pkt.fault # "skew" /\ (n \in nonces \/ CacheFails)
        /\ Answer(r, "ErrReplayDetected") /\ UNCHANGED nonces
     \/ /\ req[r].pkt.fault # "skew" /\ n \notin nonces
        /\ nonces' = nonces \cup {n}
        /\ AfterNonce(r)
  /\ UNCHANGED <<now, issued, sessions, store>>

(* Init stores the handshake session.                                        *)
StoreHandshake(r) ==
  /\ At(r, "store") /\ Kind(r) = "init"
  /\ \/ /\ StoreSession([NoSession EXCEPT !.app = req[r].pkt.app], SessionTTL)
        /\ Answer(r, "ok")
     \/ CacheFails /\ Answer(r, "ErrStoreSession")
  /\ UNCHANGED <<now, nonces, store>>

(* GetByKey and every check made on the copy before the next write: status,  *)
(* expiry, hardware id.                                                      *)
ReadLicense(r) ==
  LET l == req[r].pkt.key
      copy == lic[l]
      known == KnownLicense(l, req[r].sess.app)
      usable == known /\ ~Locked(copy.status) /\ ~IsExpired(copy.expires, now)
      hwid == ValidateHWID(copy.hwid, {}, MaxHwids[l], req[r].pkt.hwid,
                           req[r].app.hwidLock)
      Proceed(step) ==
        req' = [req EXCEPT ![r].pc = step, ![r].lic = copy, ![r].stale = FALSE,
                           ![r].newExpires = NewExpiry(l, copy)]
  IN
  /\ At(r, "license")
  /\ \/ ~known /\ Answer(r, "ErrLicenseInvalid")
     \/ known /\ Locked(copy.status) /\ Answer(r,
          IF copy.status = "banned" THEN "ErrLicenseBanned" ELSE "ErrLicensePaused")
     \/ known /\ ~Locked(copy.status) /\ ~usable /\ Proceed("expire")
     \/ usable /\ hwid = "required" /\ Answer(r, "ErrHWIDRequired")
     \/ usable /\ hwid = "mismatch" /\ Answer(r, "ErrHWIDMismatch")
     \/ /\ usable /\ hwid = "match" /\ copy.status # "unactivated"
        /\ Proceed("store")
     \/ /\ usable
        /\ hwid = "bind" \/ (hwid = "match" /\ copy.status = "unactivated")
        /\ Proceed("activate")
  /\ UNCHANGED <<now, cache, store>>

(* SetStatus(expired) on the row as it is now; a missing row is an error     *)
(* that AuthenticateLicense ignores.                                         *)
MarkExpired(r) ==
  LET l == req[r].pkt.key IN
  /\ At(r, "expire")
  /\ lic' = IF RowGone(l) THEN lic
            ELSE [lic EXCEPT ![l].status = "expired"]
  /\ req' = [MarkStale({l}) EXCEPT ![r] =
               Answered("ErrLicenseExpired")]
  /\ UNCHANGED <<now, cache, apps, users, remoteVars>>

(* Activate writes status, device and expiry whatever the row holds now.  A  *)
(* missing row is an error in MemoryStore; the SQL UPDATE touches no row and *)
(* reports success.                                                          *)
Activate(r) ==
  LET l == req[r].pkt.key IN
  /\ At(r, "activate")
  /\ \/ /\ RowGone(l) /\ ~SqlStore
        /\ Answer(r, "ErrActivate") /\ UNCHANGED lic
     \/ /\ RowGone(l) /\ SqlStore
        /\ Goto(r, "store") /\ UNCHANGED lic
     \/ /\ ~RowGone(l)
        /\ lic' = [lic EXCEPT ![l] = [status |-> "active",
                     hwid |-> req[r].pkt.hwid, expires |-> req[r].newExpires,
                     resumed |-> lic[l].resumed]]
        /\ req' = [MarkStale({l}) EXCEPT ![r] =
                     [req[r] EXCEPT !.pc = "store"]]
  /\ UNCHANGED <<now, cache, apps, users, remoteVars>>

(* The new token carries the request's session copy with license, device and *)
(* tier filled in.  A failed write is ignored: the token is answered anyway. *)
StoreLicenseToken(r) ==
  /\ At(r, "store") /\ Kind(r) = "license"
  /\ \/ StoreSession([req[r].sess EXCEPT !.lic = req[r].pkt.key,
                        !.hwid = req[r].pkt.hwid,
                        !.tier = TierLevel[req[r].pkt.key]], TokenTTL)
     \/ CacheFails
  /\ Answer(r, "ok")
  /\ UNCHANGED <<now, nonces, store>>

(* GetByUsername, the ban and the password.                                  *)
ReadUser(r) ==
  LET u == req[r].pkt.key
      known == u \in Users /\ users[u].exists /\ UserApp[u] = req[r].sess.app
  IN
  /\ At(r, "user")
  /\ \/ ~known /\ Answer(r, "ErrCredentials")
     \/ known /\ users[u].banned /\ Answer(r, "ErrUserBanned")
     \/ known /\ ~users[u].banned /\ req[r].pkt.fault = "password"
          /\ Answer(r, "ErrCredentials")
     \/ known /\ ~users[u].banned /\ req[r].pkt.fault # "password"
          /\ Goto(r, "updatelogin")
  /\ UNCHANGED <<now, cache, store>>

(* The first login records the device; later ones leave it.                  *)
UpdateLogin(r) ==
  LET u == req[r].pkt.key IN
  /\ At(r, "updatelogin")
  /\ users' = IF users[u].exists /\ ~users[u].seen
              THEN [users EXCEPT ![u].seen = TRUE, ![u].hwid = req[r].pkt.hwid]
              ELSE users
  /\ Goto(r, "store")
  /\ UNCHANGED <<now, cache, apps, lic, remoteVars>>

(* A login keeps the license and tier the session copy already had.          *)
StoreUserToken_Swapped(r) ==   \* seeded fault: the id lands in LicenseID
  /\ At(r, "store") /\ Kind(r) = "login"
  /\ StoreSession([req[r].sess EXCEPT !.lic = req[r].pkt.key], TokenTTL)
  /\ Answer(r, "ok")
  /\ UNCHANGED <<now, nonces, store>>

StoreUserToken(r) ==
  /\ At(r, "store") /\ Kind(r) = "login"
  /\ \/ StoreSession([req[r].sess EXCEPT !.user = req[r].pkt.key,
                        !.hwid = req[r].pkt.hwid], TokenTTL)
     \/ CacheFails
  /\ Answer(r, "ok")
  /\ UNCHANGED <<now, nonces, store>>

(* GetByKey of the variable and the tier check of GetVariable.               *)
ReadVariable(r) ==
  LET v == <<req[r].sess.app, req[r].pkt.key>>
      known == req[r].pkt.key \in VarKeys /\ remoteVars[v] # NoVar IN
  /\ At(r, "variable")
  /\ \/ ~known /\ Answer(r, "ErrVariableNotFound")
     \/ known /\ ~TierSuffices(req[r].sess.tier, remoteVars[v])
          /\ Answer(r, "ErrTierInsufficient")
     \/ known /\ TierSuffices(req[r].sess.tier, remoteVars[v])
          /\ Answer(r, "ok")
  /\ UNCHANGED <<now, cache, store>>

ClientStep(r) ==
  \/ \E p \in Packets, s \in 0 .. MaxSessions : Receive(r, p, s)
  \/ ReadSession(r) \/ ReadApp(r) \/ CheckNonce(r) \/ StoreHandshake(r)
  \/ ReadLicense(r) \/ MarkExpired(r) \/ Activate(r) \/ StoreLicenseToken(r)
  \/ ReadUser(r) \/ UpdateLogin(r) \/ StoreUserToken(r)
  \/ ReadVariable(r)
-----------------------------------------------------------------------------
(* The dashboard.  A call on a missing row changes nothing.                  *)

(* The handler writes any status, and never an expiry with it.               *)
Resumes(status, expires) == status \in {"active", "expired"} /\ expires = Nil

UpdateLicenseStatus(l, status) ==
  /\ ~RowGone(l)
  /\ lic' = [lic EXCEPT ![l].status = status,
                        ![l].resumed = @ \/ Resumes(status, lic[l].expires)]
  /\ req' = MarkStale({l})
  /\ UNCHANGED <<now, cache, apps, users, remoteVars>>

ResetHWID(l) ==
  /\ ~RowGone(l)
  /\ lic' = [lic EXCEPT ![l].hwid = None]
  /\ req' = MarkStale({l})
  /\ UNCHANGED <<now, cache, apps, users, remoteVars>>

DeleteLicense(l) ==
  /\ ~RowGone(l)
  /\ lic' = [lic EXCEPT ![l].status = "deleted"]
  /\ req' = MarkStale({l})
  /\ UNCHANGED <<now, cache, apps, users, remoteVars>>

(* The two flags UpdateApp writes that the client endpoints read.            *)
UpdateApp(a, paused, hwidLock) ==
  /\ apps[a].exists
  /\ apps' = [apps EXCEPT ![a].paused = paused, ![a].hwidLock = hwidLock]
  /\ UNCHANGED <<now, cache, lic, users, remoteVars, req>>

(* ON DELETE CASCADE in the SQL schema; MemoryStore removes the application  *)
(* alone and leaves what belonged to it.                                     *)
DeleteApp(a) ==
  LET owned == {l \in Licenses : LicenseApp[l] = a} IN
  /\ apps[a].exists
  /\ apps' = [apps EXCEPT ![a].exists = FALSE]
  /\ IF SqlStore
     THEN /\ lic' = [l \in Licenses |-> IF l \in owned
                       THEN [lic[l] EXCEPT !.status = "deleted"] ELSE lic[l]]
          /\ users' = [u \in Users |-> [users[u] EXCEPT !.exists =
                         users[u].exists /\ UserApp[u] # a]]
          /\ remoteVars' = [v \in Apps \X VarKeys |->
                         IF v[1] = a THEN NoVar ELSE remoteVars[v]]
          /\ req' = MarkStale(owned)
     ELSE UNCHANGED <<lic, users, remoteVars, req>>
  /\ UNCHANGED <<now, cache>>

BanUser(u, banned) ==
  /\ users[u].exists
  /\ users' = [users EXCEPT ![u].banned = banned]
  /\ UNCHANGED <<now, cache, apps, lic, remoteVars, req>>

DeleteUser(u) ==
  /\ users[u].exists
  /\ users' = [users EXCEPT ![u].exists = FALSE]
  /\ UNCHANGED <<now, cache, apps, lic, remoteVars, req>>

(* Create upserts on (app, key); the SQL foreign key refuses a deleted app.  *)
CreateVariable(v, minTier) ==
  /\ SqlStore => apps[v[1]].exists
  /\ remoteVars' = [remoteVars EXCEPT ![v] = minTier]
  /\ UNCHANGED <<now, cache, apps, lic, users, req>>

DeleteVariable(v) ==
  /\ remoteVars[v] # NoVar
  /\ remoteVars' = [remoteVars EXCEPT ![v] = NoVar]
  /\ UNCHANGED <<now, cache, apps, lic, users, req>>

LicenseEdit ==
  \E l \in Licenses : \/ \E st \in AdminStatuses : UpdateLicenseStatus(l, st)
                      \/ ResetHWID(l) \/ DeleteLicense(l)
AppEdit ==
  \E a \in Apps : (\E p, h \in BOOLEAN : UpdateApp(a, p, h)) \/ DeleteApp(a)
UserEdit ==
  \E u \in Users : (\E b \in BOOLEAN : BanUser(u, b)) \/ DeleteUser(u)
VariableEdit ==
  \E v \in Apps \X VarKeys :
    (\E t \in MinTiers : CreateVariable(v, t)) \/ DeleteVariable(v)

AdminStep == LicenseEdit \/ AppEdit \/ UserEdit \/ VariableEdit
-----------------------------------------------------------------------------
(* One unit of time is far longer than the 60 s a nonce is kept: every nonce *)
(* recorded before the tick has lapsed after it (NonceGuard looks closer).   *)
Tick ==
  /\ now < MaxTime
  /\ now' = now + 1
  /\ nonces' = {}
  /\ UNCHANGED <<issued, sessions, store, req>>

(* The process stops and starts again: requests in flight are lost, and the  *)
(* in-memory cache with them; the repositories are durable.                  *)
Restart ==
  /\ req' = [r \in Requests |-> IdleRequest]
  /\ IF RedisCache THEN UNCHANGED <<sessions, nonces>>
     ELSE sessions' = [s \in SessionIds |-> NoSession] /\ nonces' = {}
  /\ UNCHANGED <<now, issued, store>>

Next == (\E r \in Requests : ClientStep(r)) \/ AdminStep \/ Tick \/ Restart

Spec == Init /\ [][Next]_vars
-----------------------------------------------------------------------------
(* PROPERTIES *)

(* Every variable keeps its type: rows, cache entries and request locals.    *)
TypeOK ==
  /\ now \in Nat /\ issued \in 0 .. MaxSessions
  /\ sessions \in [SessionIds -> Session] /\ nonces \subseteq Nonces
  /\ apps \in [Apps -> App] /\ lic \in [Licenses -> License]
  /\ users \in [Users -> User]
  /\ remoteVars \in [Apps \X VarKeys -> Int]
  /\ req \in [Requests -> Request]

(* A session is backed when the tier it claims is that of the license it     *)
(* names and that license belongs to the session's application.              *)
Backed(s) == /\ s.lic = None => s.tier = 0
             /\ s.lic # None => /\ s.tier = TierLevel[s.lic]
                                /\ LicenseApp[s.lic] = s.app
             /\ s.user # None => UserApp[s.user] = s.app

(* However a client chains handshakes, license logins and user logins (each  *)
(* may present a token of the other kind as its session id), every cache     *)
(* entry and every copy of one in a request is backed by its license.        *)
SessionsBacked ==
  /\ \A s \in SessionIds : Backed(sessions[s])
  /\ \A r \in Requests : Backed(req[r].sess)

(* A request whose copy of a license was not overwritten acts on the row as  *)
(* it is; and it never reached a write with a locked or deleted row.         *)
FreshCopy ==
  \A r \in Requests : \A l \in Licenses :
    Holds(r, l) /\ ~req[r].stale =>
      /\ lic[l].status \notin {"banned", "paused", "deleted"}
      /\ req[r].pc # "store" => req[r].lic = lic[l]

(* A step of a client request: it moves a program counter.  Dashboard calls  *)
(* and the clock move none.                                                  *)
Acting(r) == req[r].pc # req'[r].pc
ClientActs == \E r \in Requests : Acting(r)

(* Only a request that acts on an overwritten copy takes a license out of    *)
(* "banned" or "paused": the lock placed by the dashboard survives every     *)
(* login that looked the license up after it.                                *)
LockHolds ==
  [][\A l \in Licenses :
       /\ lic[l].status \in {"banned", "paused"}
       /\ lic'[l].status # lic[l].status
       /\ ClientActs
       => \E r \in Requests : Acting(r) /\ Holds(r, l) /\ req[r].stale]_vars

(* The device of a one-device license changes only from none, by a request   *)
(* that acts on an overwritten copy, or on a license put back to             *)
(* "unactivated" while the application's hardware lock is off.               *)
DeviceHolds ==
  [][\A l \in Licenses :
       /\ MaxHwids[l] = 1 /\ lic[l].hwid # None
       /\ lic'[l].hwid \notin {lic[l].hwid, None}
       => \E r \in Requests : /\ Acting(r) /\ Holds(r, l)
                              /\ \/ req[r].stale
                                 \/ /\ ~req[r].app.hwidLock
                                    /\ lic[l].status = "unactivated"]_vars

(* The expiry of a license once computed is moved only when the dashboard    *)
(* had put the license back to "unactivated", or by a stale request.         *)
ExpiryHolds ==
  [][\A l \in Licenses :
       /\ lic[l].expires # Nil /\ lic'[l].expires # lic[l].expires
       => \/ lic[l].status = "unactivated"
          \/ \E r \in Requests : Acting(r) /\ Holds(r, l) /\ req[r].stale]_vars

(* A deleted license stays deleted, whatever copies requests still hold.     *)
DeletedStaysDeleted ==
  [][\A l \in Licenses :
       lic[l].status = "deleted" => lic'[l].status = "deleted"]_vars

(* GetVariable serves a variable above tier 0 only to a session whose        *)
(* license belongs to the same application and has at least that tier.       *)
GatedVariables ==
  [][\A r \in Requests : \A v \in VarKeys :
       /\ req[r].pc = "variable" /\ req'[r].resp = "ok"
       /\ req[r].pkt.key = v /\ remoteVars[<<req[r].sess.app, v>>] > 0
       => /\ req[r].sess.lic # None
          /\ LicenseApp[req[r].sess.lic] = req[r].sess.app
          /\ TierLevel[req[r].sess.lic] >= remoteVars[<<req[r].sess.app, v>>]]_vars

(* A license sold for a limited time and in use has an expiry, whatever      *)
(* logins, locks, resets and deletions race for it, unless the dashboard has *)
(* itself put it in use while it had none: the console's Resume and Unban do *)
(* so to a license paused or banned before its first use, and its first      *)
(* login computes no expiry.                                                 *)
TimedLicenseExpires ==
  \A l \in Licenses :
    /\ lic[l].status = "active" /\ lic[l].hwid # None
    /\ Duration[l] > 0 /\ ~lic[l].resumed
    => lic[l].expires # Nil

(* As the dashboard's API reads: a lock is lifted by the dashboard alone.    *)
LockLiftedByDashboard ==
  [][\A l \in Licenses :
       /\ lic[l].status \in {"banned", "paused"} /\ ClientActs
       => lic'[l].status = lic[l].status]_vars
=============================================================================
