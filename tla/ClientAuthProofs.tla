-------------------------- MODULE ClientAuthProofs --------------------------
(* Proofs about ClientAuth for every value of its constants: any number of   *)
(* requests, packets, licenses, users, variables and applications.           *)
EXTENDS ClientAuth, FiniteSetTheorems, TLAPS

(* What a request's locals satisfy at every step, whatever the repositories  *)
(* hold: past the lookup, the key it carries is a row of its session's       *)
(* application.                                                              *)
Resolved(q) ==
  /\ q.pc # "idle" => q.resp = "none"
  /\ q.pc = "nonce" => q.pkt.kind # "variable"
  /\ q.pc = "variable" => q.pkt.kind = "variable"
  /\ q.pc \in {"license", "expire", "activate"} => q.pkt.kind = "license"
  /\ q.pc \in {"user", "updatelogin"} => q.pkt.kind = "login"
  /\ q.pkt.kind = "license" /\ q.pc \in {"expire", "activate", "store"}
       => q.pkt.key \in Licenses /\ LicenseApp[q.pkt.key] = q.sess.app
  /\ q.pkt.kind = "login" /\ q.pc \in {"updatelogin", "store"}
       => q.pkt.key \in Users /\ UserApp[q.pkt.key] = q.sess.app

RequestOK(q) == q \in Request /\ Resolved(q) /\ Backed(q.sess)
SessionOK(s) == s \in Session /\ Backed(s)

(* The inductive strengthening of TypeOK and SessionsBacked.                 *)
Inductive ==
  /\ TypeOK
  /\ \A s \in SessionIds : SessionOK(sessions[s])
  /\ \A r \in Requests : RequestOK(req[r])

LEMMA NoSessionOK == SessionOK(NoSession)
<1>1. AnyApp \in Apps
  BY ConstantTypes DEF AnyApp
<1>2. None \notin Licenses /\ None \notin Users
  BY ConstantTypes
<1> QED
  BY <1>1, <1>2, ConstantTypes DEF SessionOK, Session, NoSession, Backed, Nil

LEMMA AnsweredOK ==
  ASSUME NEW resp \in Outcomes
  PROVE  /\ RequestOK(Answered(resp))
         /\ Answered(resp).pc = "idle" /\ Answered(resp).resp = resp
<1>1. AnyPacket \in Packets
  BY PacketType DEF AnyPacket
<1>2. NoSession \in Session /\ Backed(NoSession)
  BY NoSessionOK DEF SessionOK
<1>3. NewApp \in App /\ NewLicense \in License
  BY DEF NewApp, App, NewLicense, License, Statuses, Nil
<1>4. 0 \in 0 .. MaxSessions
  BY ConstantTypes
<1>5. Answered(resp) =
        [pc |-> "idle", pkt |-> AnyPacket, sid |-> 0,
         sess |-> NoSession, app |-> NewApp, lic |-> NewLicense,
         newExpires |-> Nil, stale |-> FALSE, resp |-> resp]
  BY DEF Answered
<1>6. Answered(resp) \in Request
  BY <1>1, <1>2, <1>3, <1>4, <1>5 DEF Request, Steps, Nil
<1>7. Resolved(Answered(resp)) /\ Answered(resp).sess = NoSession
  BY <1>5 DEF Resolved
<1> QED
  BY <1>2, <1>5, <1>6, <1>7 DEF RequestOK

LEMMA IdleOK == /\ RequestOK(IdleRequest)
                /\ IdleRequest.pc = "idle" /\ IdleRequest.resp = "none"
BY AnsweredOK DEF IdleRequest, Outcomes

(* One request moves on and its new locals are sound; the others keep        *)
(* theirs, or have them marked stale.                                        *)
OnlyRequest(r) ==
  /\ req' \in [Requests -> Request]
  /\ RequestOK(req'[r])
  /\ \A q \in Requests \ {r} : RequestOK(req'[q])

LEMMA AnswerOK ==
  ASSUME Inductive, NEW r \in Requests, NEW resp \in Outcomes, Answer(r, resp)
  PROVE  OnlyRequest(r)
<1>1. RequestOK(Answered(resp))
  BY AnsweredOK
<1> QED
  BY <1>1 DEF Inductive, TypeOK, Answer, OnlyRequest, RequestOK

LEMMA GotoOK ==
  ASSUME Inductive, NEW r \in Requests, NEW step \in Steps, Goto(r, step),
         Resolved([req[r] EXCEPT !.pc = step])
  PROVE  OnlyRequest(r)
<1> DEFINE new == [req[r] EXCEPT !.pc = step]
<1>1. req[r] \in Request /\ Backed(req[r].sess)
  BY DEF Inductive, RequestOK
<1>2. new \in Request /\ new.sess = req[r].sess
  BY <1>1 DEF Request
<1>3. RequestOK(new)
  BY <1>1, <1>2 DEF RequestOK
<1>4. req' = [req EXCEPT ![r] = new]
  BY DEF Goto
<1> HIDE DEF new
<1> QED
  BY <1>3, <1>4 DEF Inductive, TypeOK, OnlyRequest, RequestOK

LEMMA MarkStaleOK ==
  ASSUME Inductive, NEW L
  PROVE  /\ MarkStale(L) \in [Requests -> Request]
         /\ \A q \in Requests : RequestOK(MarkStale(L)[q])
<1> SUFFICES ASSUME NEW q \in Requests
             PROVE  RequestOK(MarkStale(L)[q])
  BY DEF MarkStale, RequestOK
<1> DEFINE new == [req[q] EXCEPT !.stale = TRUE]
<1>1. RequestOK(req[q])
  BY DEF Inductive
<1>2. new \in Request /\ Resolved(new) /\ new.sess = req[q].sess
  BY <1>1 DEF RequestOK, Request, Resolved
<1>3. RequestOK(new)
  BY <1>1, <1>2 DEF RequestOK
<1>4. MarkStale(L)[q] \in {new, req[q]}
  BY DEF MarkStale
<1> QED
  BY <1>1, <1>3, <1>4

(* A step that only moves a request on.                                      *)
LEMMA FrameOK ==
  ASSUME Inductive, NEW r \in Requests, OnlyRequest(r),
         UNCHANGED <<now, cache, store>>
  PROVE  Inductive'
BY DEF Inductive, TypeOK, OnlyRequest, cache, store

LEMMA ReceiveOK ==
  ASSUME Inductive, NEW r \in Requests, NEW p \in Packets,
         NEW s \in 0 .. MaxSessions, Receive(r, p, s)
  PROVE  Inductive'
<1> DEFINE pc == IF p.kind = "init" THEN "app" ELSE "session"
           new == [IdleRequest EXCEPT !.pc = pc, !.pkt = p, !.sid = s]
<1>1. IdleRequest \in Request /\ Backed(IdleRequest.sess)
  BY IdleOK DEF RequestOK
<1>2. /\ new \in Request /\ new.sess = IdleRequest.sess /\ new.pc = pc
      /\ new.resp = "none"
  BY <1>1, IdleOK DEF Request, Steps
<1>3. RequestOK(new)
  BY <1>1, <1>2 DEF RequestOK, Resolved
<1>4. req' = [req EXCEPT ![r] = new]
  BY DEF Receive
<1> HIDE DEF new
<1>5. OnlyRequest(r)
  BY <1>3, <1>4 DEF Inductive, TypeOK, OnlyRequest, RequestOK
<1> QED
  BY <1>5, FrameOK DEF Receive

LEMMA ReadSessionOK ==
  ASSUME Inductive, NEW r \in Requests, ReadSession(r)
  PROVE  Inductive'
<1> DEFINE s == req[r].sid
           new == [req[r] EXCEPT !.pc = "app", !.sess = sessions[s]]
<1>1. CASE Live(s) /\ req' = [req EXCEPT ![r].pc = "app", ![r].sess = sessions[s]]
  <2>1. sessions[s] \in Session /\ Backed(sessions[s])
    BY <1>1 DEF Live, Inductive, SessionOK
  <2>2. req[r] \in Request /\ req[r].resp = "none"
    BY DEF Inductive, RequestOK, Resolved, ReadSession, At
  <2>3. /\ new \in Request /\ new.sess = sessions[s] /\ new.pc = "app"
        /\ new.resp = "none"
    BY <2>1, <2>2 DEF Request, Steps
  <2>4. RequestOK(new)
    BY <2>1, <2>3 DEF RequestOK, Resolved
  <2>5. req' = [req EXCEPT ![r] = new]
    BY <1>1
  <2> HIDE DEF new
  <2>6. OnlyRequest(r)
    BY <2>4, <2>5 DEF Inductive, TypeOK, OnlyRequest, RequestOK
  <2> QED
    BY <2>6, FrameOK DEF ReadSession
<1>2. CASE Answer(r, "ErrSessionNotFound")
  BY <1>2, AnswerOK, FrameOK DEF ReadSession, Outcomes
<1> QED
  BY <1>1, <1>2 DEF ReadSession

LEMMA ReadAppOK ==
  ASSUME Inductive, NEW r \in Requests, ReadApp(r)
  PROVE  Inductive'
<1> DEFINE a == apps[RequestApp(r)]
           pc == IF Kind(r) = "variable" THEN "variable" ELSE "nonce"
           new == [req[r] EXCEPT !.app = a, !.pc = pc]
<1>0. req[r] \in Request /\ Backed(req[r].sess) /\ req[r].resp = "none"
  BY DEF Inductive, RequestOK, Resolved, ReadApp, At
<1>1. CASE \E resp \in Outcomes : Answer(r, resp)
  BY <1>1, AnswerOK, FrameOK DEF ReadApp
<1>2. CASE req' = [req EXCEPT ![r].app = a, ![r].pc = pc]
  <2>1. RequestApp(r) \in Apps
    BY <1>0, PacketType DEF RequestApp, Request, Session, Packet
  <2>2. a \in App
    BY <2>1 DEF Inductive, TypeOK
  <2>3. /\ new \in Request /\ new.sess = req[r].sess /\ new.pc = pc
        /\ new.pkt = req[r].pkt /\ new.resp = "none"
    BY <1>0, <2>2 DEF Request, Steps
  <2>4. RequestOK(new)
    BY <1>0, <2>3 DEF RequestOK, Resolved, Kind
  <2>5. req' = [req EXCEPT ![r] = new]
    BY <1>2
  <2> HIDE DEF new
  <2>6. OnlyRequest(r)
    BY <2>4, <2>5 DEF Inductive, TypeOK, OnlyRequest, RequestOK
  <2> QED
    BY <2>6, FrameOK DEF ReadApp
<1> QED
  BY <1>1, <1>2 DEF ReadApp, Outcomes

LEMMA CheckNonceOK ==
  ASSUME Inductive, NEW r \in Requests, CheckNonce(r)
  PROVE  Inductive'
<1>0. req[r] \in Request /\ Resolved(req[r]) /\ req[r].pc = "nonce"
  BY DEF Inductive, RequestOK, CheckNonce, At
<1>1. OnlyRequest(r)
  <2>1. CASE \E resp \in Outcomes : Answer(r, resp)
    BY <2>1, AnswerOK
  <2>2. CASE \E step \in {"store", "user", "license"} :
                /\ Goto(r, step)
                /\ step = "store" => Kind(r) = "init"
                /\ step = "user" => Kind(r) = "login"
                /\ step = "license" => Kind(r) = "license"
    <3> PICK step \in {"store", "user", "license"} :
                /\ Goto(r, step)
                /\ step = "store" => Kind(r) = "init"
                /\ step = "user" => Kind(r) = "login"
                /\ step = "license" => Kind(r) = "license"
      BY <2>2
    <3>1. Resolved([req[r] EXCEPT !.pc = step])
      BY <1>0 DEF Resolved, Kind, Request
    <3> QED
      BY <3>1, GotoOK DEF Steps
  <2>3. Kind(r) \in {"init", "login", "license"}
    BY <1>0, PacketType DEF Resolved, Kind, Request, Packet, Kinds
  <2> QED
    BY <2>1, <2>2, <2>3 DEF CheckNonce, AfterNonce, Outcomes
<1>2. nonces' \subseteq Nonces
  BY <1>0, PacketType DEF CheckNonce, Inductive, TypeOK, Request, Packet
<1> QED
  BY <1>1, <1>2 DEF CheckNonce, Inductive, TypeOK, OnlyRequest, store

(* A session written to the cache keeps the invariant when its data is sound.*)
LEMMA StoreSessionOK ==
  ASSUME Inductive, NEW r \in Requests, OnlyRequest(r),
         NEW data, SessionOK(data), NEW ttl \in Nat, StoreSession(data, ttl),
         UNCHANGED <<now, nonces, store>>
  PROVE  Inductive'
<1> DEFINE new == [data EXCEPT !.expires = now + ttl]
<1>1. new \in Session
  BY DEF SessionOK, Session, Inductive, TypeOK
<1>2. Backed(new)
  BY DEF SessionOK, Session, Backed
<1>3. issued + 1 \in SessionIds /\ issued' = issued + 1
  BY ConstantTypes DEF StoreSession, Inductive, TypeOK, SessionIds
<1>4. sessions' = [sessions EXCEPT ![issued + 1] = new]
  BY DEF StoreSession
<1> HIDE DEF new
<1>5. sessions' \in [SessionIds -> Session]
  BY <1>1, <1>3, <1>4 DEF Inductive, TypeOK
<1>6. \A s \in SessionIds : SessionOK(sessions'[s])
  BY <1>1, <1>2, <1>3, <1>4 DEF Inductive, TypeOK, SessionOK
<1>7. issued' \in 0 .. MaxSessions
  BY <1>3, ConstantTypes DEF SessionIds
<1> QED
  BY <1>5, <1>6, <1>7 DEF Inductive, TypeOK, OnlyRequest, store

(* The write to Redis failed: only the request moves.                        *)
LEMMA CacheFailsOK ==
  ASSUME Inductive, NEW r \in Requests, OnlyRequest(r), CacheFails,
         UNCHANGED <<now, nonces, store>>
  PROVE  Inductive'
BY FrameOK DEF CacheFails, cache

LEMMA StoreHandshakeOK ==
  ASSUME Inductive, NEW r \in Requests, StoreHandshake(r)
  PROVE  Inductive'
<1> DEFINE data == [NoSession EXCEPT !.app = req[r].pkt.app]
<1>1. req[r].pkt.app \in Apps
  BY PacketType DEF Inductive, RequestOK, Request, Packet
<1>2. data \in Session /\ Backed(data)
  BY <1>1, NoSessionOK DEF SessionOK, Session, Backed, NoSession
<1>3. OnlyRequest(r)
  BY AnswerOK DEF StoreHandshake, Outcomes
<1>4. SessionTTL \in Nat
  BY ConstantTypes
<1>5. StoreSession(data, SessionTTL) \/ CacheFails
  BY DEF StoreHandshake
<1> HIDE DEF data
<1> QED
  BY <1>2, <1>3, <1>4, <1>5, StoreSessionOK, CacheFailsOK
     DEF StoreHandshake, SessionOK

LEMMA StoreLicenseTokenOK ==
  ASSUME Inductive, NEW r \in Requests, StoreLicenseToken(r)
  PROVE  Inductive'
<1> DEFINE l == req[r].pkt.key
           data == [req[r].sess EXCEPT !.lic = l, !.hwid = req[r].pkt.hwid,
                                       !.tier = TierLevel[l]]
<1>1. req[r] \in Request /\ Resolved(req[r]) /\ Backed(req[r].sess)
  BY DEF Inductive, RequestOK
<1>2. l \in Licenses /\ LicenseApp[l] = req[r].sess.app
  BY <1>1 DEF StoreLicenseToken, At, Kind, Resolved
<1>3. req[r].pkt.hwid \in Hwids \cup {None} /\ TierLevel[l] \in Nat
  BY <1>1, <1>2, PacketType, ConstantTypes DEF Request, Packet
<1>4. req[r].sess \in Session
  BY <1>1 DEF Request
<1>5. data \in Session
  BY <1>2, <1>3, <1>4 DEF Session
<1>6. Backed(data)
  BY <1>1, <1>2, <1>4, ConstantTypes DEF Backed, Session
<1>7. OnlyRequest(r)
  BY AnswerOK DEF StoreLicenseToken, Outcomes
<1>8. TokenTTL \in Nat
  BY ConstantTypes
<1>9. StoreSession(data, TokenTTL) \/ CacheFails
  BY DEF StoreLicenseToken
<1> HIDE DEF data
<1> QED
  BY <1>5, <1>6, <1>7, <1>8, <1>9, StoreSessionOK, CacheFailsOK
     DEF StoreLicenseToken, SessionOK

LEMMA StoreUserTokenOK ==
  ASSUME Inductive, NEW r \in Requests, StoreUserToken(r)
  PROVE  Inductive'
<1> DEFINE u == req[r].pkt.key
           data == [req[r].sess EXCEPT !.user = u, !.hwid = req[r].pkt.hwid]
<1>1. req[r] \in Request /\ Resolved(req[r]) /\ Backed(req[r].sess)
  BY DEF Inductive, RequestOK
<1>2. u \in Users /\ UserApp[u] = req[r].sess.app
  BY <1>1 DEF StoreUserToken, At, Kind, Resolved
<1>3. req[r].pkt.hwid \in Hwids \cup {None}
  BY <1>1, PacketType DEF Request, Packet
<1>4. req[r].sess \in Session
  BY <1>1 DEF Request
<1>5. data \in Session
  BY <1>2, <1>3, <1>4 DEF Session
<1>6. Backed(data)
  BY <1>1, <1>2, <1>4 DEF Backed, Session
<1>7. OnlyRequest(r)
  BY AnswerOK DEF StoreUserToken, Outcomes
<1>8. TokenTTL \in Nat
  BY ConstantTypes
<1>9. StoreSession(data, TokenTTL) \/ CacheFails
  BY DEF StoreUserToken
<1> HIDE DEF data
<1> QED
  BY <1>5, <1>6, <1>7, <1>8, <1>9, StoreSessionOK, CacheFailsOK
     DEF StoreUserToken, SessionOK

(* Past the lookup the key is a license of the session's application, and    *)
(* the expiry to be written is an integer.                                   *)
LEMMA ReadLicenseOK ==
  ASSUME Inductive, NEW r \in Requests, ReadLicense(r)
  PROVE  Inductive'
<1> DEFINE l == req[r].pkt.key
           expires == NewExpiry(l, lic[l])
           Proceed(step) ==
             req' = [req EXCEPT ![r].pc = step, ![r].lic = lic[l],
                                ![r].stale = FALSE, ![r].newExpires = expires]
<1>a. At(r, "license") /\ UNCHANGED <<now, cache, store>>
  BY Zenon DEF ReadLicense
<1>0. /\ req[r] \in Request /\ Backed(req[r].sess) /\ Resolved(req[r])
      /\ Kind(r) = "license" /\ req[r].resp = "none"
  BY <1>a DEF Inductive, RequestOK, At, Resolved, Kind
<1>1. CASE \E resp \in Outcomes : Answer(r, resp)
  BY <1>a, <1>1, AnswerOK, FrameOK
<1>2. ASSUME NEW step \in {"expire", "activate", "store"}, Proceed(step),
             KnownLicense(l, req[r].sess.app)
      PROVE  Inductive'
  <2> DEFINE new == [req[r] EXCEPT !.pc = step, !.lic = lic[l],
                                   !.stale = FALSE, !.newExpires = expires]
  <2>1. l \in Licenses /\ LicenseApp[l] = req[r].sess.app
    BY <1>2 DEF KnownLicense
  <2>2. lic[l] \in License
    BY <2>1 DEF Inductive, TypeOK
  <2>3. expires \in Int
    BY <2>1, <2>2, ConstantTypes
       DEF NewExpiry, CalculateExpiration, License, Inductive, TypeOK, Nil
  <2> HIDE DEF expires
  <2>4. /\ new \in Request /\ new.sess = req[r].sess
        /\ new.pc = step /\ new.pkt = req[r].pkt /\ new.resp = "none"
    BY <1>0, <2>2, <2>3 DEF Request, Steps
  <2>5. RequestOK(new)
    BY <1>0, <2>1, <2>4 DEF RequestOK, Resolved, Kind
  <2>6. req' = [req EXCEPT ![r] = new]
    BY <1>2
  <2> HIDE DEF new
  <2>7. OnlyRequest(r)
    BY <2>5, <2>6 DEF Inductive, TypeOK, OnlyRequest, RequestOK
  <2> QED
    BY <1>a, <2>7, FrameOK
<1>3. \/ \E resp \in Outcomes : Answer(r, resp)
      \/ /\ KnownLicense(l, req[r].sess.app)
         /\ \E step \in {"expire", "activate", "store"} : Proceed(step)
  BY Zenon DEF ReadLicense, Outcomes
<1> HIDE DEF Proceed, l
<1> QED
  BY <1>1, <1>2, <1>3

(* A step that writes licenses, and marks the copies of those it wrote.      *)
LEMMA LicenseWriteOK ==
  ASSUME Inductive, lic' \in [Licenses -> License],
         req' \in [Requests -> Request], \A q \in Requests : RequestOK(req'[q]),
         UNCHANGED <<now, cache, apps, users, remoteVars>>
  PROVE  Inductive'
BY DEF Inductive, TypeOK, cache

LEMMA MarkExpiredOK ==
  ASSUME Inductive, NEW r \in Requests, MarkExpired(r)
  PROVE  Inductive'
<1> DEFINE l == req[r].pkt.key
<1>1. l \in Licenses
  BY DEF Inductive, RequestOK, Resolved, MarkExpired, At
<1>2. RequestOK(Answered("ErrLicenseExpired"))
  BY AnsweredOK DEF Outcomes
<1>3. /\ req' \in [Requests -> Request]
      /\ \A q \in Requests : RequestOK(req'[q])
  BY <1>2, MarkStaleOK DEF MarkExpired, RequestOK
<1>4. lic' \in [Licenses -> License]
  BY <1>1 DEF MarkExpired, Inductive, TypeOK, License, Statuses
<1> QED
  BY <1>3, <1>4, LicenseWriteOK DEF MarkExpired

LEMMA ActivateOK ==
  ASSUME Inductive, NEW r \in Requests, Activate(r)
  PROVE  Inductive'
<1> DEFINE l == req[r].pkt.key
           new == [req[r] EXCEPT !.pc = "store"]
<1>0. req[r] \in Request /\ Resolved(req[r]) /\ Backed(req[r].sess)
      /\ req[r].pc = "activate"
  BY DEF Inductive, RequestOK, Activate, At
<1>1. l \in Licenses /\ Kind(r) = "license"
  BY <1>0 DEF Resolved, Kind
<1>2. Resolved(new) /\ new \in Request /\ new.sess = req[r].sess
  BY <1>0 DEF Resolved, Request, Steps
<1>3. CASE RowGone(l)
  <2>1. OnlyRequest(r)
    BY <1>2, <1>3, AnswerOK, GotoOK DEF Activate, Outcomes, Steps
  <2> QED
    BY <1>3, <2>1, FrameOK DEF Activate, store
<1>4. CASE ~RowGone(l)
  <2> DEFINE row == [status |-> "active", hwid |-> req[r].pkt.hwid,
                     expires |-> req[r].newExpires, resumed |-> lic[l].resumed]
  <2>1. row \in License
    <3>1. lic[l] \in License
      BY <1>1 DEF Inductive, TypeOK
    <3> QED
      BY <1>0, <3>1, PacketType DEF License, Statuses, Request, Packet
  <2>2. lic' = [lic EXCEPT ![l] = row] /\ req' = [MarkStale({l}) EXCEPT ![r] = new]
    BY <1>4 DEF Activate
  <2>3. RequestOK(new)
    BY <1>0, <1>2 DEF RequestOK
  <2> HIDE DEF row, new
  <2>4. lic' \in [Licenses -> License]
    BY <1>1, <2>1, <2>2 DEF Inductive, TypeOK
  <2>5. /\ req' \in [Requests -> Request]
        /\ \A q \in Requests : RequestOK(req'[q])
    BY <2>2, <2>3, MarkStaleOK DEF RequestOK
  <2> QED
    BY <2>4, <2>5, LicenseWriteOK DEF Activate
<1> QED
  BY <1>3, <1>4

LEMMA ReadUserOK ==
  ASSUME Inductive, NEW r \in Requests, ReadUser(r)
  PROVE  Inductive'
<1>0. /\ req[r] \in Request /\ Resolved(req[r]) /\ Kind(r) = "login"
      /\ req[r].resp = "none"
  BY DEF Inductive, RequestOK, ReadUser, At, Resolved, Kind
<1>1. CASE \E resp \in Outcomes : Answer(r, resp)
  BY <1>1, AnswerOK, FrameOK DEF ReadUser
<1>2. CASE /\ Goto(r, "updatelogin")
           /\ req[r].pkt.key \in Users /\ UserApp[req[r].pkt.key] = req[r].sess.app
  <2>1. Resolved([req[r] EXCEPT !.pc = "updatelogin"])
    BY <1>0, <1>2 DEF Resolved, Kind, Request
  <2> QED
    BY <1>2, <2>1, GotoOK, FrameOK DEF ReadUser, Steps
<1> QED
  BY <1>1, <1>2 DEF ReadUser, Outcomes

LEMMA UpdateLoginOK ==
  ASSUME Inductive, NEW r \in Requests, UpdateLogin(r)
  PROVE  Inductive'
<1> DEFINE u == req[r].pkt.key
<1>0. req[r] \in Request /\ Resolved(req[r]) /\ u \in Users /\ Kind(r) = "login"
  BY DEF Inductive, RequestOK, UpdateLogin, At, Resolved, Kind
<1>1. Resolved([req[r] EXCEPT !.pc = "store"])
  BY <1>0 DEF Resolved, Kind, Request, UpdateLogin, At
<1>2. OnlyRequest(r)
  BY <1>1, GotoOK DEF UpdateLogin, Steps
<1>3. req[r].pkt.hwid \in Hwids \cup {None}
  BY <1>0, PacketType DEF Request, Packet
<1>4. users' \in [Users -> User]
  <2> DEFINE row == [users[u] EXCEPT !.seen = TRUE, !.hwid = req[r].pkt.hwid]
  <2>1. users \in [Users -> User]
    BY DEF Inductive, TypeOK
  <2>2. row \in User
    <3>1. users[u] \in User
      BY <1>0, <2>1
    <3> QED
      BY <1>3, <3>1 DEF User
  <2>3. users' = users \/ users' = [users EXCEPT ![u] = row]
    BY Zenon DEF UpdateLogin
  <2> HIDE DEF row
  <2> QED
    BY <2>1, <2>2, <2>3
<1> QED
  BY <1>2, <1>4 DEF UpdateLogin, Inductive, TypeOK, OnlyRequest, cache

LEMMA ReadVariableOK ==
  ASSUME Inductive, NEW r \in Requests, ReadVariable(r)
  PROVE  Inductive'
BY AnswerOK, FrameOK DEF ReadVariable, Outcomes

(* A status is written alone; the row keeps its device and its expiry.       *)
LEMMA StatusWritten ==
  ASSUME lic \in [Licenses -> License], NEW k \in Licenses, NEW st \in Statuses,
         UpdateLicenseStatus(k, st)
  PROVE  /\ lic' \in [Licenses -> License]
         /\ lic[k].status # "deleted" /\ lic'[k].status = st
         /\ lic'[k].hwid = lic[k].hwid /\ lic'[k].expires = lic[k].expires
         /\ lic'[k].resumed <=> lic[k].resumed \/ Resumes(st, lic[k].expires)
         /\ \A l \in Licenses \ {k} : lic'[l] = lic[l]
<1> DEFINE resumed == lic[k].resumed \/ Resumes(st, lic[k].expires)
           row == [lic[k] EXCEPT !.status = st, !.resumed = resumed]
<1>1. lic' = [lic EXCEPT ![k] = row] /\ lic[k].status # "deleted"
  BY Zenon DEF UpdateLicenseStatus, RowGone
<1>2. resumed \in BOOLEAN
  BY Zenon
<1>3. lic[k] \in License
  OBVIOUS
<1> HIDE DEF resumed
<1>4. /\ row \in License /\ row.status = st /\ row.hwid = lic[k].hwid
      /\ row.expires = lic[k].expires /\ row.resumed = resumed
  BY <1>2, <1>3 DEF License
<1> HIDE DEF row
<1>5. /\ lic' \in [Licenses -> License] /\ lic'[k] = row
      /\ \A l \in Licenses \ {k} : lic'[l] = lic[l]
  BY <1>1, <1>4
<1> QED
  BY <1>1, <1>4, <1>5 DEF resumed

LEMMA LicenseEditOK ==
  ASSUME Inductive, LicenseEdit
  PROVE  Inductive'
<1> PICK l \in Licenses :
      \/ \E st \in AdminStatuses : UpdateLicenseStatus(l, st)
      \/ ResetHWID(l) \/ DeleteLicense(l)
  BY DEF LicenseEdit
<1>1. lic' \in [Licenses -> License]
  <2>1. lic \in [Licenses -> License]
    BY DEF Inductive, TypeOK
  <2>2. ASSUME NEW st \in AdminStatuses, UpdateLicenseStatus(l, st)
        PROVE  lic' \in [Licenses -> License]
    BY <2>1, <2>2, StatusType, StatusWritten
  <2>3. CASE ResetHWID(l) \/ DeleteLicense(l)
    BY <2>1, <2>3 DEF ResetHWID, DeleteLicense, License, Statuses
  <2> QED
    BY <2>2, <2>3
<1>2. req' = MarkStale({l}) /\ UNCHANGED <<now, cache, apps, users, remoteVars>>
  BY DEF UpdateLicenseStatus, ResetHWID, DeleteLicense
<1> QED
  BY <1>1, <1>2, MarkStaleOK, LicenseWriteOK

LEMMA UpdateAppOK ==
  ASSUME Inductive, NEW a \in Apps, NEW p \in BOOLEAN, NEW h \in BOOLEAN,
         UpdateApp(a, p, h)
  PROVE  Inductive'
<1>1. apps' \in [Apps -> App]
  BY DEF UpdateApp, Inductive, TypeOK, App
<1> QED
  BY <1>1 DEF UpdateApp, Inductive, TypeOK, cache

LEMMA DeleteAppOK ==
  ASSUME Inductive, NEW a \in Apps, DeleteApp(a)
  PROVE  Inductive'
<1> DEFINE owned == {l \in Licenses : LicenseApp[l] = a}
<1>1. apps' \in [Apps -> App]
  BY DEF DeleteApp, Inductive, TypeOK, App
<1>2. lic' \in [Licenses -> License]
  <2>1. \A l \in Licenses : [lic[l] EXCEPT !.status = "deleted"] \in License
    BY DEF Inductive, TypeOK, License
  <2> QED
    BY <2>1 DEF DeleteApp, Inductive, TypeOK
<1>3. users' \in [Users -> User]
  <2>1. \A u \in Users :
          [users[u] EXCEPT !.exists = users[u].exists /\ UserApp[u] # a] \in User
    BY DEF Inductive, TypeOK, User
  <2> QED
    BY <2>1 DEF DeleteApp, Inductive, TypeOK
<1>4. remoteVars' \in [Apps \X VarKeys -> Int]
  BY DEF DeleteApp, Inductive, TypeOK, NoVar, Nil
<1>5. /\ req' \in [Requests -> Request]
      /\ \A q \in Requests : RequestOK(req'[q])
  BY MarkStaleOK DEF DeleteApp, Inductive, TypeOK
<1> QED
  BY <1>1, <1>2, <1>3, <1>4, <1>5 DEF DeleteApp, Inductive, TypeOK, cache

LEMMA UserEditOK ==
  ASSUME Inductive, UserEdit
  PROVE  Inductive'
<1>1. users' \in [Users -> User]
  <2>1. ASSUME NEW u \in Users, NEW b \in BOOLEAN, BanUser(u, b)
        PROVE  users' \in [Users -> User]
    BY <2>1 DEF BanUser, Inductive, TypeOK, User
  <2>2. ASSUME NEW u \in Users, DeleteUser(u)
        PROVE  users' \in [Users -> User]
    BY <2>2 DEF DeleteUser, Inductive, TypeOK, User
  <2> QED
    BY <2>1, <2>2 DEF UserEdit
<1> QED
  BY <1>1 DEF UserEdit, BanUser, DeleteUser, Inductive, TypeOK, cache

LEMMA VariableEditOK ==
  ASSUME Inductive, VariableEdit
  PROVE  Inductive'
<1>1. remoteVars' \in [Apps \X VarKeys -> Int]
  BY ConstantTypes DEF VariableEdit, CreateVariable, DeleteVariable, Inductive,
                       TypeOK, NoVar, Nil
<1> QED
  BY <1>1 DEF VariableEdit, CreateVariable, DeleteVariable, Inductive, TypeOK, cache

LEMMA TickOK ==
  ASSUME Inductive, Tick
  PROVE  Inductive'
BY DEF Tick, Inductive, TypeOK, store

LEMMA RestartOK ==
  ASSUME Inductive, Restart
  PROVE  Inductive'
<1>1. /\ req' \in [Requests -> Request]
      /\ \A q \in Requests : RequestOK(req'[q])
  BY IdleOK DEF Restart, RequestOK
<1>2. /\ sessions' \in [SessionIds -> Session] /\ nonces' \subseteq Nonces
      /\ \A s \in SessionIds : SessionOK(sessions'[s])
  BY NoSessionOK DEF Restart, Inductive, TypeOK, SessionOK
<1> QED
  BY <1>1, <1>2 DEF Restart, Inductive, TypeOK, store

LEMMA InitOK == Init => Inductive
<1> SUFFICES ASSUME Init PROVE Inductive
  OBVIOUS
<1>1. /\ apps \in [Apps -> App] /\ lic \in [Licenses -> License]
      /\ users \in [Users -> User]
  BY ConstantTypes DEF Init, NewApp, App, NewLicense, License, Statuses,
                       NewUser, User, Nil
<1>2. remoteVars \in [Apps \X VarKeys -> Int] /\ now \in Nat
      /\ issued \in 0 .. MaxSessions /\ nonces \subseteq Nonces
  BY ConstantTypes DEF Init, NoVar, Nil
<1>3. /\ sessions \in [SessionIds -> Session]
      /\ \A s \in SessionIds : SessionOK(sessions[s])
  BY NoSessionOK DEF Init, SessionOK
<1>4. /\ req \in [Requests -> Request]
      /\ \A r \in Requests : RequestOK(req[r])
  BY IdleOK DEF Init, RequestOK
<1> QED
  BY <1>1, <1>2, <1>3, <1>4 DEF Inductive, TypeOK

LEMMA StepOK == Inductive /\ [Next]_vars => Inductive'
<1> SUFFICES ASSUME Inductive, [Next]_vars PROVE Inductive'
  OBVIOUS
<1>1. ASSUME NEW r \in Requests, ClientStep(r) PROVE Inductive'
  BY <1>1, ReceiveOK, ReadSessionOK, ReadAppOK, CheckNonceOK, StoreHandshakeOK,
     ReadLicenseOK, MarkExpiredOK, ActivateOK, StoreLicenseTokenOK, ReadUserOK,
     UpdateLoginOK, StoreUserTokenOK, ReadVariableOK DEF ClientStep
<1>2. CASE AdminStep
  BY <1>2, LicenseEditOK, UpdateAppOK, DeleteAppOK, UserEditOK, VariableEditOK
     DEF AdminStep, AppEdit
<1>3. CASE UNCHANGED vars
  BY <1>3 DEF vars, cache, store, Inductive, TypeOK
<1> QED
  BY <1>1, <1>2, <1>3, TickOK, RestartOK DEF Next

LEMMA Invariance == Spec => []Inductive
BY InitOK, StepOK, PTL DEF Spec

(* Whatever the clients and the dashboard do, in whatever order, every row,  *)
(* cache entry and request keeps its type.                                   *)
THEOREM TypeCorrect == Spec => []TypeOK
<1>1. Inductive => TypeOK
  BY DEF Inductive
<1> QED
  BY <1>1, Invariance, PTL

(* No chain of handshakes and logins yields a session that claims a tier     *)
(* other than its license's, or a license or user of another application.    *)
THEOREM SessionsAreBacked == Spec => []SessionsBacked
<1>1. Inductive => SessionsBacked
  BY DEF Inductive, SessionsBacked, SessionOK, RequestOK
<1> QED
  BY <1>1, Invariance, PTL

-----------------------------------------------------------------------------
(* A step of request q leaves every other request where it is; at most it    *)
(* marks that request's license copy stale.                                  *)
Kept(r) == req'[r] \in {req[r], [req[r] EXCEPT !.stale = TRUE]}

LEMMA MarkStaleKeeps ==
  ASSUME NEW L, NEW r \in Requests
  PROVE  MarkStale(L)[r] \in {req[r], [req[r] EXCEPT !.stale = TRUE]}
BY DEF MarkStale

LEMMA OthersKept ==
  ASSUME Inductive, NEW q \in Requests, ClientStep(q), NEW r \in Requests \ {q}
  PROVE  Kept(r)
<1>1. req \in [Requests -> Request]
  BY DEF Inductive, TypeOK
<1>2. CASE MarkExpired(q)
  <2> DEFINE l == req[q].pkt.key
  <2>1. req' = [MarkStale({l}) EXCEPT ![q] = Answered("ErrLicenseExpired")]
    BY <1>2 DEF MarkExpired
  <2>2. MarkStale({l}) \in [Requests -> Request]
    BY MarkStaleOK
  <2>3. req'[r] = MarkStale({l})[r]
    BY <2>1, <2>2
  <2> QED
    BY <2>3, MarkStaleKeeps DEF Kept
<1>3. CASE Activate(q)
  <2> DEFINE l == req[q].pkt.key
             new == [req[q] EXCEPT !.pc = "store"]
  <2>1. CASE RowGone(l)
    BY <1>1, <1>3, <2>1 DEF Activate, Kept, Answer, Goto
  <2>2. CASE req' = [MarkStale({l}) EXCEPT ![q] = new]
    <3>1. MarkStale({l}) \in [Requests -> Request]
      BY MarkStaleOK
    <3>2. req'[r] = MarkStale({l})[r]
      BY <2>2, <3>1
    <3> QED
      BY <3>2, MarkStaleKeeps DEF Kept
  <2> QED
    BY <1>3, <2>1, <2>2 DEF Activate
<1>4. ASSUME NEW new, req' = [req EXCEPT ![q] = new] PROVE Kept(r)
  BY <1>1, <1>4 DEF Kept
<1>5. CASE ReadLicense(q)
  <2>1. \E new : req' = [req EXCEPT ![q] = new]
    BY <1>5, Zenon DEF ReadLicense, Answer
  <2> QED
    BY <1>4, <2>1
<1>6. CASE \/ \E p \in Packets, s \in 0 .. MaxSessions : Receive(q, p, s)
           \/ ReadSession(q) \/ ReadApp(q) \/ CheckNonce(q)
  BY <1>1, <1>6 DEF Kept, Answer, Goto, Receive, ReadSession, ReadApp,
                    CheckNonce, AfterNonce
<1>7. CASE \/ StoreHandshake(q) \/ StoreLicenseToken(q) \/ ReadUser(q)
           \/ UpdateLogin(q) \/ StoreUserToken(q) \/ ReadVariable(q)
  BY <1>1, <1>7 DEF Kept, Answer, Goto, StoreHandshake, StoreLicenseToken,
     ReadUser, UpdateLogin, StoreUserToken, ReadVariable
<1> QED
  BY <1>2, <1>3, <1>5, <1>6, <1>7 DEF ClientStep

LEMMA DashboardKeeps ==
  ASSUME AdminStep, NEW r \in Requests
  PROVE  Kept(r)
BY MarkStaleKeeps DEF AdminStep, LicenseEdit, AppEdit, UserEdit, VariableEdit,
   UpdateLicenseStatus, ResetHWID, DeleteLicense, UpdateApp, DeleteApp, BanUser,
   DeleteUser, CreateVariable, DeleteVariable, Kept

(* What keeping a request means for its parts.                               *)
LEMMA KeptParts ==
  ASSUME Inductive, NEW r \in Requests, Kept(r)
  PROVE  /\ req'[r].pc = req[r].pc /\ req'[r].resp = req[r].resp
         /\ req'[r].pkt = req[r].pkt /\ req'[r].sess = req[r].sess
BY DEF Kept, Inductive, RequestOK, Request

(* A variable above tier 0 is served only to a session whose license belongs *)
(* to the application and has at least that tier.                            *)
THEOREM VariablesAreGated == Spec => GatedVariables
<1> DEFINE Gate(r, v) ==
       /\ req[r].pc = "variable" /\ req'[r].resp = "ok"
       /\ req[r].pkt.key = v /\ remoteVars[<<req[r].sess.app, v>>] > 0
       => /\ req[r].sess.lic # None
          /\ LicenseApp[req[r].sess.lic] = req[r].sess.app
          /\ TierLevel[req[r].sess.lic] >= remoteVars[<<req[r].sess.app, v>>]
<1>1. ASSUME Inductive, [Next]_vars, NEW r \in Requests, NEW v \in VarKeys,
             req[r].pc = "variable", req'[r].resp = "ok",
             req[r].pkt.key = v, remoteVars[<<req[r].sess.app, v>>] > 0
      PROVE  /\ req[r].sess.lic # None
             /\ LicenseApp[req[r].sess.lic] = req[r].sess.app
             /\ TierLevel[req[r].sess.lic] >= remoteVars[<<req[r].sess.app, v>>]
  <2>1. req[r] \in Request /\ Resolved(req[r]) /\ Backed(req[r].sess)
    BY <1>1 DEF Inductive, RequestOK
  <2>2. req[r].resp = "none"
    BY <1>1, <2>1 DEF Resolved
  <2>3. ~Kept(r)
    BY <1>1, <2>2, KeptParts
  <2>4. ~(Restart \/ AdminStep \/ Tick \/ UNCHANGED vars)
    BY <1>1, <2>3, DashboardKeeps, IdleOK DEF Restart, Tick, vars, Kept
  <2>5. ClientStep(r)
    BY <1>1, <2>3, <2>4, OthersKept DEF Next
  <2>6. ReadVariable(r)
    BY <1>1, <2>5 DEF ClientStep, At, Receive, ReadSession, ReadApp, CheckNonce,
       StoreHandshake, ReadLicense, MarkExpired, Activate, StoreLicenseToken,
       ReadUser, UpdateLogin, StoreUserToken
  <2>7. TierSuffices(req[r].sess.tier, remoteVars[<<req[r].sess.app, v>>])
    BY <1>1, <2>6, AnsweredOK DEF ReadVariable, Answer, Outcomes, Inductive, TypeOK
  <2>8. /\ remoteVars[<<req[r].sess.app, v>>] \in Int
        /\ req[r].sess.tier \in Nat
    <3>1. <<req[r].sess.app, v>> \in Apps \X VarKeys /\ req[r].sess.tier \in Nat
      BY <2>1 DEF Request, Session
    <3> QED
      BY <1>1, <3>1 DEF Inductive, TypeOK
  <2> QED
    BY <1>1, <2>1, <2>7, <2>8 DEF TierSuffices, Backed
<1>2. Inductive /\ [Next]_vars
        => [\A r \in Requests : \A v \in VarKeys : Gate(r, v)]_vars
  BY <1>1
<1> QED
  BY <1>2, Invariance, PTL DEF Spec, GatedVariables
-----------------------------------------------------------------------------
(* The races: what a login may do to a license row that the dashboard or     *)
(* another login wrote after it was looked up.                               *)

(* FreshCopy, of one request.                                                *)
FreshAt(r) ==
  \A l \in Licenses :
    Holds(r, l) /\ ~req[r].stale =>
      /\ lic[l].status \notin {"banned", "paused", "deleted"}
      /\ req[r].pc # "store" => req[r].lic = lic[l]

(* What a request about to activate will write is what its copy allows: the  *)
(* copy's expiry unless this is the first use, and the copy's device unless  *)
(* none is bound, another one is allowed, or the application has no lock.    *)
Copied(q) ==
  q.pc = "activate" =>
    /\ q.lic.status # "unactivated" => q.newExpires = q.lic.expires
    /\ MaxHwids[q.pkt.key] = 1 /\ q.lic.hwid \notin {None, q.pkt.hwid}
         => ~q.app.hwidLock /\ q.lic.status = "unactivated"

RaceInv == /\ Inductive
           /\ \A r \in Requests : FreshAt(r) /\ Copied(req[r])

(* A license row changes by a dashboard call, which marks the requests that  *)
(* hold a copy of it, or by the write of one login, which marks the others.  *)
LEMMA FreshMarked ==
  ASSUME RaceInv, NEW L, \A l \in Licenses \ L : lic'[l] = lic[l],
         NEW r \in Requests, req'[r] = MarkStale(L)[r]
  PROVE  FreshAt(r)' /\ Copied(req'[r])
<1>1. req[r] \in Request /\ FreshAt(r) /\ Copied(req[r])
  BY DEF RaceInv, Inductive, RequestOK
<1>2. CASE \E l \in L : Holds(r, l)
  <2> DEFINE new == [req[r] EXCEPT !.stale = TRUE]
  <2>1. req'[r] = new
    BY <1>2 DEF MarkStale
  <2>2. /\ new.stale = TRUE /\ new.pc = req[r].pc /\ new.lic = req[r].lic
        /\ new.newExpires = req[r].newExpires /\ new.pkt = req[r].pkt
        /\ new.app = req[r].app
    BY <1>1 DEF Request
  <2> HIDE DEF new
  <2>3. FreshAt(r)'
    BY <2>1, <2>2 DEF FreshAt
  <2>4. Copied(new)
    BY <1>1, <2>2 DEF Copied
  <2> QED
    BY <2>1, <2>3, <2>4
<1>3. CASE ~ \E l \in L : Holds(r, l)
  <2>1. req'[r] = req[r]
    BY <1>3 DEF MarkStale
  <2> QED
    BY <1>1, <1>3, <2>1 DEF FreshAt, Holds, Kind
<1> QED
  BY <1>2, <1>3

(* Nothing changed that a request's freshness is about.                      *)
LEMMA FreshKept ==
  ASSUME RaceInv, lic' = lic, NEW r \in Requests, req'[r] = req[r]
  PROVE  FreshAt(r)' /\ Copied(req'[r])
BY DEF RaceInv, FreshAt, Holds, Kind

(* A request that holds no copy has nothing to keep fresh.                   *)
LEMMA FreshIdle ==
  ASSUME NEW r \in Requests,
         \/ req'[r].pc \notin {"expire", "activate", "store"}
         \/ req'[r].pkt.kind # "license" /\ req'[r].pc # "activate"
  PROVE  FreshAt(r)' /\ Copied(req'[r])
BY DEF FreshAt, Holds, Kind, Copied

(* The steps of q that read or write no license: its next program counter    *)
(* is that of a request without a copy, and the rows are as before.          *)
LEMMA OtherStepsFresh ==
  ASSUME RaceInv, NEW q \in Requests, ClientStep(q),
         ~ReadLicense(q), ~MarkExpired(q), ~Activate(q)
  PROVE  /\ lic' = lic /\ req'[q].pc \notin {"expire", "activate"}
         /\ FreshAt(q)' /\ Copied(req'[q])
<1>0. /\ req \in [Requests -> Request] /\ req[q] \in Request
      /\ Resolved(req[q])
  BY DEF RaceInv, Inductive, TypeOK, RequestOK
<1>1. \A resp : Answer(q, resp) => req'[q].pc = "idle"
  BY <1>0 DEF Answer, Answered
<1>2. \A step : Goto(q, step) => req'[q].pc = step /\ req'[q].pkt = req[q].pkt
  BY <1>0 DEF Goto, Request
<1> HIDE DEF Answer
<1>3. CASE \E p \in Packets, s \in 0 .. MaxSessions : Receive(q, p, s)
  <2> PICK p \in Packets, s \in 0 .. MaxSessions : Receive(q, p, s)
    BY <1>3
  <2> DEFINE pc == IF p.kind = "init" THEN "app" ELSE "session"
             new == [IdleRequest EXCEPT !.pc = pc, !.pkt = p, !.sid = s]
  <2>1. req' = [req EXCEPT ![q] = new] /\ lic' = lic
    BY DEF Receive, store
  <2>2. new.pc = pc
    BY IdleOK DEF RequestOK, Request
  <2>3. req'[q].pc \in {"app", "session"}
    BY <1>0, <2>1, <2>2
  <2> QED
    BY <2>1, <2>3, FreshIdle
<1>4. CASE ReadSession(q) \/ ReadApp(q)
  <2>1. lic' = lic
    BY <1>4 DEF ReadSession, ReadApp, store
  <2>2. req'[q].pc \in {"app", "idle", "variable", "nonce"}
    BY <1>0, <1>1, <1>4 DEF ReadSession, ReadApp, Request
  <2> QED
    BY <2>1, <2>2, FreshIdle
<1>5. CASE CheckNonce(q)
  <2>1. lic' = lic
    BY <1>5 DEF CheckNonce, store
  <2>2. \/ req'[q].pc \in {"idle", "user", "license"}
        \/ req'[q].pc = "store" /\ req'[q].pkt.kind = "init"
    BY <1>1, <1>2, <1>5 DEF CheckNonce, AfterNonce, Kind
  <2> QED
    BY <2>1, <2>2, FreshIdle
<1>6. CASE StoreHandshake(q) \/ StoreLicenseToken(q) \/ StoreUserToken(q)
           \/ ReadVariable(q)
  <2>1. lic' = lic /\ req'[q].pc = "idle"
    BY <1>1, <1>6, SMTT(30) DEF StoreHandshake, StoreLicenseToken, StoreUserToken,
                                ReadVariable, store
  <2> QED
    BY <2>1, FreshIdle
<1>7. CASE ReadUser(q) \/ UpdateLogin(q)
  <2>1. lic' = lic /\ Kind(q) = "login"
    BY <1>0, <1>7 DEF ReadUser, UpdateLogin, store, Resolved, At, Kind
  <2>2. \/ req'[q].pc \in {"idle", "updatelogin"}
        \/ req'[q].pc = "store" /\ req'[q].pkt.kind = "login"
    BY <1>1, <1>2, <1>7, <2>1 DEF ReadUser, UpdateLogin, Kind
  <2> QED
    BY <2>1, <2>2, FreshIdle
<1> QED
  BY <1>3, <1>4, <1>5, <1>6, <1>7 DEF ClientStep

(* Of two devices, a one-device license under a lock binds only the first.   *)
LEMMA OneDevice ==
  ASSUME NEW bound, NEW device, NEW lockEnabled \in BOOLEAN,
         ValidateHWID(bound, {}, 1, device, lockEnabled) = "bind"
  PROVE  bound = None
<1>1. ~(1 > 1 + Cardinality({}))
  BY FS_EmptySet
<1> QED
  BY <1>1 DEF ValidateHWID

(* The lookup: the copy is the row, and the row is usable.                   *)
LEMMA ReadLicenseFresh ==
  ASSUME RaceInv, NEW q \in Requests, ReadLicense(q)
  PROVE  /\ lic' = lic
         /\ FreshAt(q)' /\ Copied(req'[q])
<1> DEFINE l == req[q].pkt.key
           copy == lic[l]
           expires == NewExpiry(l, copy)
           hwid == ValidateHWID(copy.hwid, {}, MaxHwids[l], req[q].pkt.hwid,
                                req[q].app.hwidLock)
           Proceed(step) ==
             req' = [req EXCEPT ![q].pc = step, ![q].lic = copy,
                                ![q].stale = FALSE, ![q].newExpires = expires]
<1>0. /\ req \in [Requests -> Request] /\ req[q] \in Request
      /\ req[q].app.hwidLock \in BOOLEAN
  BY DEF RaceInv, Inductive, TypeOK, RequestOK, Request, App
<1>1. lic' = lic
  BY Zenon DEF ReadLicense, store
<1>2. \/ \E resp : Answer(q, resp)
      \/ /\ KnownLicense(l, req[q].sess.app) /\ ~Locked(copy.status)
         /\ \/ Proceed("expire") \/ Proceed("store")
            \/ /\ Proceed("activate")
               /\ hwid = "bind" \/ (hwid = "match" /\ copy.status = "unactivated")
  BY Zenon DEF ReadLicense
<1>3. CASE \E resp : Answer(q, resp)
  <2>1. req'[q].pc = "idle"
    BY <1>0, <1>3 DEF Answer, Answered
  <2> QED
    BY <1>1, <2>1, FreshIdle
<1>4. ASSUME NEW step, Proceed(step), KnownLicense(l, req[q].sess.app),
             ~Locked(copy.status),
             step = "activate" => \/ hwid = "bind"
                                  \/ hwid = "match" /\ copy.status = "unactivated"
      PROVE  FreshAt(q)' /\ Copied(req'[q])
  <2> DEFINE new == [req[q] EXCEPT !.pc = step, !.lic = copy, !.stale = FALSE,
                                   !.newExpires = expires]
  <2>1. req'[q] = new
    BY <1>0, <1>4
  <2>2. /\ new.pc = step /\ new.lic = copy /\ new.newExpires = expires
        /\ new.pkt = req[q].pkt /\ new.app = req[q].app
    BY <1>0 DEF Request
  <2>3. expires = copy.expires \/ copy.status = "unactivated"
    BY DEF NewExpiry
  <2>4. ASSUME step = "activate", MaxHwids[l] = 1,
               copy.hwid \notin {None, req[q].pkt.hwid}
        PROVE  ~req[q].app.hwidLock /\ copy.status = "unactivated"
    <3>1. hwid # "bind"
      BY <1>0, <2>4, OneDevice
    <3>2. hwid = "match" /\ copy.status = "unactivated"
      BY <1>4, <2>4, <3>1
    <3>3. hwid = "match" /\ req[q].app.hwidLock => copy.hwid = req[q].pkt.hwid
      BY <1>0 DEF ValidateHWID
    <3> QED
      BY <1>0, <2>4, <3>2, <3>3
  <2> HIDE DEF new, expires, hwid, copy
  <2>5. Copied(new)
    BY <2>2, <2>3, <2>4 DEF Copied
  <2>6. FreshAt(q)'
    BY <1>1, <1>4, <2>1, <2>2 DEF FreshAt, Holds, Kind, KnownLicense, RowGone,
                                  Locked, copy
  <2> QED
    BY <2>1, <2>5, <2>6
<1> HIDE DEF l, copy, expires, hwid, Proceed
<1> QED
  BY <1>1, <1>2, <1>3, <1>4

(* The two writes of a login.  Only the row of the login's own key changes,  *)
(* the login held a copy of it, and it moves on.                             *)
LEMMA WriteStep ==
  ASSUME RaceInv, NEW q \in Requests, MarkExpired(q) \/ Activate(q)
  PROVE  /\ req[q].pkt.key \in Licenses /\ Holds(q, req[q].pkt.key) /\ Acting(q)
         /\ \A l \in Licenses \ {req[q].pkt.key} : lic'[l] = lic[l]
         /\ \A r \in Requests \ {q} :
              \/ req'[r] = MarkStale({req[q].pkt.key})[r]
              \/ lic' = lic /\ req'[r] = req[r]
         /\ req'[q].pc \in {"idle", "store"}
         /\ FreshAt(q)' /\ Copied(req'[q])
<1> DEFINE l == req[q].pkt.key
           new == [req[q] EXCEPT !.pc = "store"]
<1>0. /\ req \in [Requests -> Request] /\ req[q] \in Request
      /\ Resolved(req[q]) /\ req[q].pc \in {"expire", "activate"}
      /\ lic \in [Licenses -> License]
  BY DEF RaceInv, Inductive, TypeOK, RequestOK, MarkExpired, Activate, At
<1>1. l \in Licenses /\ Holds(q, l) /\ Kind(q) = "license"
  BY <1>0 DEF Resolved, Holds, Kind
<1>2. MarkStale({l}) \in [Requests -> Request]
  BY MarkStaleOK DEF RaceInv
<1>3. /\ new.pc = "store" /\ new.pkt = req[q].pkt /\ new.stale = req[q].stale
  BY <1>0 DEF Request
<1>4. CASE MarkExpired(q)
  <2>1. req' = [MarkStale({l}) EXCEPT ![q] = Answered("ErrLicenseExpired")]
    BY <1>4 DEF MarkExpired
  <2>2. req'[q].pc = "idle" /\ \A r \in Requests \ {q} : req'[r] = MarkStale({l})[r]
    BY <1>2, <2>1 DEF Answered
  <2>3. \A k \in Licenses \ {l} : lic'[k] = lic[k]
    BY <1>0, <1>4 DEF MarkExpired
  <2> QED
    BY <1>0, <1>1, <2>2, <2>3, FreshIdle DEF Acting
<1>5. CASE Activate(q) /\ RowGone(l)
  <2>1. lic' = lic
    BY <1>5 DEF Activate
  <2>2. req[q].stale
    BY <1>1, <1>5 DEF RaceInv, FreshAt, RowGone
  <2>3. CASE Answer(q, "ErrActivate")
    <3>1. req'[q].pc = "idle" /\ \A r \in Requests \ {q} : req'[r] = req[r]
      BY <1>0, <2>3 DEF Answer, Answered
    <3> QED
      BY <1>0, <1>1, <2>1, <3>1, FreshIdle DEF Acting
  <2>4. CASE Goto(q, "store")
    <3>1. req'[q] = new /\ \A r \in Requests \ {q} : req'[r] = req[r]
      BY <1>0, <2>4 DEF Goto
    <3> HIDE DEF new
    <3>2. FreshAt(q)' /\ Copied(req'[q])
      BY <1>3, <2>2, <3>1 DEF FreshAt, Copied
    <3> QED
      BY <1>0, <1>1, <1>3, <2>1, <3>1, <3>2 DEF Acting
  <2> QED
    BY <1>5, <2>3, <2>4 DEF Activate
<1>6. CASE Activate(q) /\ ~RowGone(l)
  <2>1. /\ req' = [MarkStale({l}) EXCEPT ![q] = new]
        /\ lic' = [lic EXCEPT ![l] = [status |-> "active",
                     hwid |-> req[q].pkt.hwid, expires |-> req[q].newExpires,
                     resumed |-> lic[l].resumed]]
    BY <1>6 DEF Activate
  <2>2. lic'[l].status = "active" /\ \A k \in Licenses \ {l} : lic'[k] = lic[k]
    BY <1>0, <1>1, <2>1
  <2> HIDE DEF new
  <2>3. req'[q] = new /\ \A r \in Requests \ {q} : req'[r] = MarkStale({l})[r]
    BY <1>2, <2>1
  <2>4. FreshAt(q)' /\ Copied(req'[q])
    BY <1>1, <1>3, <2>2, <2>3 DEF FreshAt, Copied, Holds, Kind
  <2> QED
    BY <1>0, <1>1, <1>3, <2>2, <2>3, <2>4 DEF Acting
<1> QED
  BY <1>4, <1>5, <1>6

(* A dashboard call marks every request that holds a row it writes.          *)
LEMMA DashboardFresh ==
  ASSUME RaceInv, AdminStep, NEW r \in Requests
  PROVE  FreshAt(r)' /\ Copied(req'[r])
<1>0. lic \in [Licenses -> License]
  BY DEF RaceInv, Inductive, TypeOK
<1>1. CASE LicenseEdit
  <2> PICK l \in Licenses :
        \/ \E st \in AdminStatuses : UpdateLicenseStatus(l, st)
        \/ ResetHWID(l) \/ DeleteLicense(l)
    BY <1>1 DEF LicenseEdit
  <2>1. req' = MarkStale({l}) /\ \A k \in Licenses \ {l} : lic'[k] = lic[k]
    BY <1>0 DEF UpdateLicenseStatus, ResetHWID, DeleteLicense
  <2> QED
    BY <2>1, FreshMarked
<1>2. CASE \E a \in Apps : DeleteApp(a)
  <2> PICK a \in Apps : DeleteApp(a)
    BY <1>2
  <2> DEFINE owned == {l \in Licenses : LicenseApp[l] = a}
  <2>1. CASE SqlStore
    <3>1. req' = MarkStale(owned) /\ \A k \in Licenses \ owned : lic'[k] = lic[k]
      BY <1>0, <2>1 DEF DeleteApp
    <3> HIDE DEF owned
    <3> QED
      BY <3>1, FreshMarked
  <2>2. CASE ~SqlStore
    BY <2>2, FreshKept DEF DeleteApp
  <2> QED
    BY <2>1, <2>2
<1>3. CASE lic' = lic /\ req' = req
  BY <1>3, FreshKept
<1> QED
  BY <1>1, <1>2, <1>3 DEF AdminStep, AppEdit, UserEdit, VariableEdit, UpdateApp,
     BanUser, DeleteUser, CreateVariable, DeleteVariable

LEMMA RaceInit == Init => RaceInv
<1> SUFFICES ASSUME Init PROVE RaceInv
  OBVIOUS
<1>1. \A r \in Requests : req[r].pc = "idle"
  BY IdleOK DEF Init
<1> QED
  BY <1>1, InitOK DEF RaceInv, FreshAt, Copied, Holds

LEMMA RaceStep == RaceInv /\ [Next]_vars => RaceInv'
<1> SUFFICES ASSUME RaceInv, [Next]_vars, NEW r \in Requests
             PROVE  FreshAt(r)' /\ Copied(req'[r])
  BY StepOK DEF RaceInv
<1>0. req \in [Requests -> Request]
  BY DEF RaceInv, Inductive, TypeOK
<1>1. ASSUME NEW q \in Requests, ClientStep(q) PROVE FreshAt(r)' /\ Copied(req'[r])
  <2>1. CASE MarkExpired(q) \/ Activate(q)
    <3>1. CASE r = q
      BY <2>1, <3>1, WriteStep
    <3>2. CASE r # q
      <4>1. \/ req'[r] = MarkStale({req[q].pkt.key})[r]
            \/ lic' = lic /\ req'[r] = req[r]
        BY <2>1, <3>2, WriteStep
      <4>2. \A l \in Licenses \ {req[q].pkt.key} : lic'[l] = lic[l]
        BY <2>1, WriteStep
      <4> QED
        BY <4>1, <4>2, FreshMarked, FreshKept
    <3> QED
      BY <3>1, <3>2
  <2>2. CASE ~MarkExpired(q) /\ ~Activate(q)
    <3>1. lic' = lic /\ FreshAt(q)' /\ Copied(req'[q])
      BY <1>1, <2>2, ReadLicenseFresh, OtherStepsFresh
    <3>2. CASE r # q
      <4>1. Inductive
        BY DEF RaceInv
      <4>2. Kept(r)
        BY <1>1, <3>2, <4>1, OthersKept
      <4>3. CASE req'[r] = req[r]
        BY <3>1, <4>3, FreshKept
      <4>4. CASE req'[r] = [req[r] EXCEPT !.stale = TRUE]
        <5> DEFINE new == [req[r] EXCEPT !.stale = TRUE]
        <5>1. /\ new.stale = TRUE /\ new.pc = req[r].pc /\ new.lic = req[r].lic
              /\ new.newExpires = req[r].newExpires /\ new.pkt = req[r].pkt
              /\ new.app = req[r].app
          BY <1>0 DEF Request
        <5> HIDE DEF new
        <5>2. req'[r] = new
          BY <4>4 DEF new
        <5> QED
          BY <5>1, <5>2 DEF FreshAt, Copied, RaceInv
      <4> QED
        BY <4>2, <4>3, <4>4 DEF Kept
    <3> QED
      BY <3>1, <3>2
  <2> QED
    BY <2>1, <2>2
<1>2. CASE Tick \/ UNCHANGED vars
  BY <1>2, FreshKept DEF Tick, vars, store
<1>3. CASE Restart
  BY <1>3, IdleOK, FreshIdle DEF Restart
<1> QED
  BY <1>1, <1>2, <1>3, DashboardFresh DEF Next

LEMMA RaceInvariance == Spec => []RaceInv
BY RaceInit, RaceStep, PTL DEF Spec

(* A login whose copy of a license nobody overwrote acts on the row as it    *)
(* is, and never on a row that is locked or deleted.                         *)
THEOREM CopiesAreFresh == Spec => []FreshCopy
<1>1. RaceInv => FreshCopy
  BY DEF RaceInv, FreshAt, FreshCopy
<1> QED
  BY <1>1, RaceInvariance, PTL

(* Only two kinds of steps change a license row: a dashboard call, which     *)
(* moves no request, and the write of the login that holds the row.          *)
LEMMA WhoWrites ==
  ASSUME RaceInv, [Next]_vars, NEW l \in Licenses, lic'[l] # lic[l]
  PROVE  \/ AdminStep /\ ~ClientActs
         \/ \E q \in Requests : /\ MarkExpired(q) \/ Activate(q)
                               /\ l = req[q].pkt.key /\ Holds(q, l) /\ Acting(q)
<1>1. ASSUME NEW q \in Requests, ClientStep(q)
      PROVE  /\ MarkExpired(q) \/ Activate(q)
             /\ l = req[q].pkt.key /\ Holds(q, l) /\ Acting(q)
  <2>1. MarkExpired(q) \/ Activate(q)
    BY <1>1, ReadLicenseFresh, OtherStepsFresh
  <2>2. /\ Holds(q, req[q].pkt.key) /\ Acting(q)
        /\ \A k \in Licenses \ {req[q].pkt.key} : lic'[k] = lic[k]
    BY <2>1, WriteStep
  <2> QED
    BY <2>1, <2>2
<1>2. ~(Tick \/ Restart \/ UNCHANGED vars)
  BY DEF Tick, Restart, vars, store
<1>3. ASSUME AdminStep PROVE ~ClientActs
  <2>1. Inductive
    BY DEF RaceInv
  <2> QED
    BY <1>3, <2>1, DashboardKeeps, KeptParts DEF ClientActs, Acting
<1> QED
  BY <1>1, <1>2, <1>3 DEF Next

(* What an activation from an unspoiled copy starts from.                    *)
LEMMA UnspoiledCopy ==
  ASSUME RaceInv, NEW q \in Requests, NEW l \in Licenses, Holds(q, l),
         req[q].pc \in {"expire", "activate"}, ~req[q].stale
  PROVE  /\ req[q].lic = lic[l] /\ Copied(req[q])
         /\ lic[l].status \notin {"banned", "paused", "deleted"}
BY DEF RaceInv, FreshAt

(* What the write of a login leaves in the row it writes.                    *)
LEMMA WriteFields ==
  ASSUME RaceInv, NEW q \in Requests, NEW l \in Licenses,
         MarkExpired(q) \/ Activate(q), l = req[q].pkt.key
  PROVE  /\ req[q].pc \in {"expire", "activate"}
         /\ lic[l].status = "deleted" => lic'[l] = lic[l]
         /\ \/ lic'[l].hwid = lic[l].hwid /\ lic'[l].expires = lic[l].expires
            \/ /\ req[q].pc = "activate"
               /\ lic'[l].hwid = req[q].pkt.hwid
               /\ lic'[l].expires = req[q].newExpires
         /\ lic'[l].resumed = lic[l].resumed
<1>0. lic \in [Licenses -> License]
  BY DEF RaceInv, Inductive, TypeOK
<1>1. CASE MarkExpired(q)
  BY <1>0, <1>1 DEF MarkExpired, At, RowGone, License
<1>2. CASE Activate(q)
  BY <1>0, <1>2 DEF Activate, At, RowGone
<1> QED
  BY <1>1, <1>2

(* What a dashboard call leaves in a row: deleted rows stay, no device is    *)
(* bound, no expiry is moved; and a license put in use while it has no       *)
(* expiry is one that the dashboard resumed.                                 *)
LEMMA DashboardFields ==
  ASSUME RaceInv, AdminStep, NEW l \in Licenses
  PROVE  /\ lic[l].status = "deleted" => lic'[l].status = "deleted"
         /\ lic'[l].hwid \in {lic[l].hwid, None}
         /\ lic'[l].expires = lic[l].expires
         /\ lic[l].resumed => lic'[l].resumed
         /\ \/ lic'[l].status \in {lic[l].status, "deleted"} \/ lic'[l].resumed
            \/ ~Resumes(lic'[l].status, lic[l].expires)
<1>0. lic \in [Licenses -> License]
  BY DEF RaceInv, Inductive, TypeOK
<1>1. CASE LicenseEdit
  <2> PICK k \in Licenses :
        \/ \E st \in AdminStatuses : UpdateLicenseStatus(k, st)
        \/ ResetHWID(k) \/ DeleteLicense(k)
    BY <1>1 DEF LicenseEdit
  <2>1. CASE k = l
    <3>1. ASSUME NEW st \in AdminStatuses, UpdateLicenseStatus(k, st)
          PROVE  /\ lic[l].status # "deleted" /\ lic'[l].status = st
                 /\ lic'[l].hwid = lic[l].hwid /\ lic'[l].expires = lic[l].expires
                 /\ lic'[l].resumed <=> lic[l].resumed \/ Resumes(st, lic[l].expires)
      BY <1>0, <2>1, <3>1, StatusType, StatusWritten
    <3>2. CASE \E st \in AdminStatuses : UpdateLicenseStatus(k, st)
      BY <3>1, <3>2
    <3>3. CASE ResetHWID(k) \/ DeleteLicense(k)
      BY <1>0, <2>1, <3>3 DEF ResetHWID, DeleteLicense, RowGone, License
    <3> QED
      BY <3>2, <3>3
  <2>2. CASE k # l
    BY <1>0, <2>2 DEF UpdateLicenseStatus, ResetHWID, DeleteLicense
  <2> QED
    BY <2>1, <2>2
<1>2. CASE \E a \in Apps : DeleteApp(a)
  <2>1. lic'[l] \in {lic[l], [lic[l] EXCEPT !.status = "deleted"]}
    BY <1>2 DEF DeleteApp
  <2> QED
    BY <1>0, <2>1 DEF License
<1>3. CASE lic' = lic
  BY <1>3
<1> QED
  BY <1>1, <1>2, <1>3 DEF AdminStep, AppEdit, UserEdit, VariableEdit, UpdateApp,
     BanUser, DeleteUser, CreateVariable, DeleteVariable

(* A ban or a pause is lifted by the dashboard or by a login whose copy of   *)
(* the license is older than it, never by a login that looked it up after.   *)
THEOREM LocksHold == Spec => LockHolds
<1> DEFINE Body(l) ==
       /\ lic[l].status \in {"banned", "paused"}
       /\ lic'[l].status # lic[l].status
       /\ ClientActs
       => \E r \in Requests : Acting(r) /\ Holds(r, l) /\ req[r].stale
<1>1. ASSUME RaceInv, [Next]_vars, NEW l \in Licenses PROVE Body(l)
  BY <1>1, WhoWrites, UnspoiledCopy, WriteFields
<1>2. RaceInv /\ [Next]_vars => [\A l \in Licenses : Body(l)]_vars
  BY <1>1
<1> QED
  BY <1>2, RaceInvariance, PTL DEF Spec, LockHolds

(* A deleted license is not brought back by a login that still holds a copy. *)
THEOREM DeletionIsFinal == Spec => DeletedStaysDeleted
<1> DEFINE Body(l) == lic[l].status = "deleted" => lic'[l].status = "deleted"
<1>1. ASSUME RaceInv, [Next]_vars, NEW l \in Licenses PROVE Body(l)
  BY <1>1, WhoWrites, WriteFields, DashboardFields
<1>2. RaceInv /\ [Next]_vars => [\A l \in Licenses : Body(l)]_vars
  BY <1>1
<1> QED
  BY <1>2, RaceInvariance, PTL DEF Spec, DeletedStaysDeleted

(* An expiry once computed moves only after the dashboard put the license    *)
(* back to "unactivated", or by a login whose copy was overwritten.          *)
THEOREM ExpiriesHold == Spec => ExpiryHolds
<1> DEFINE Body(l) ==
       /\ lic[l].expires # Nil /\ lic'[l].expires # lic[l].expires
       => \/ lic[l].status = "unactivated"
          \/ \E r \in Requests : Acting(r) /\ Holds(r, l) /\ req[r].stale
<1>1. ASSUME RaceInv, [Next]_vars, NEW l \in Licenses,
             lic'[l].expires # lic[l].expires
      PROVE  \/ lic[l].status = "unactivated"
             \/ \E r \in Requests : Acting(r) /\ Holds(r, l) /\ req[r].stale
  <2>1. PICK q \in Requests : /\ MarkExpired(q) \/ Activate(q)
                              /\ l = req[q].pkt.key /\ Holds(q, l) /\ Acting(q)
    BY <1>1, WhoWrites, DashboardFields
  <2>2. /\ req[q].pc = "activate" /\ lic'[l].expires = req[q].newExpires
    BY <1>1, <2>1, WriteFields
  <2>3. CASE ~req[q].stale
    BY <1>1, <2>1, <2>2, <2>3, UnspoiledCopy DEF Copied
  <2> QED
    BY <2>1, <2>3
<1>2. RaceInv /\ [Next]_vars => [\A l \in Licenses : Body(l)]_vars
  BY <1>1
<1> QED
  BY <1>2, RaceInvariance, PTL DEF Spec, ExpiryHolds

(* The device of a one-device license is replaced only by a login whose copy *)
(* was overwritten, or with the hardware lock off on a license put back to   *)
(* "unactivated": two logins at once never both bind from fresh copies.      *)
THEOREM DevicesHold == Spec => DeviceHolds
<1> DEFINE Body(l) ==
       /\ MaxHwids[l] = 1 /\ lic[l].hwid # None
       /\ lic'[l].hwid \notin {lic[l].hwid, None}
       => \E r \in Requests : /\ Acting(r) /\ Holds(r, l)
                              /\ \/ req[r].stale
                                 \/ /\ ~req[r].app.hwidLock
                                    /\ lic[l].status = "unactivated"
<1>1. ASSUME RaceInv, [Next]_vars, NEW l \in Licenses, MaxHwids[l] = 1,
             lic[l].hwid # None, lic'[l].hwid \notin {lic[l].hwid, None}
      PROVE  \E r \in Requests : /\ Acting(r) /\ Holds(r, l)
                                 /\ \/ req[r].stale
                                    \/ /\ ~req[r].app.hwidLock
                                       /\ lic[l].status = "unactivated"
  <2>1. PICK q \in Requests : /\ MarkExpired(q) \/ Activate(q)
                              /\ l = req[q].pkt.key /\ Holds(q, l) /\ Acting(q)
    BY <1>1, WhoWrites, DashboardFields
  <2>2. /\ req[q].pc = "activate" /\ lic'[l].hwid = req[q].pkt.hwid
    BY <1>1, <2>1, WriteFields
  <2>3. CASE ~req[q].stale
    BY <1>1, <2>1, <2>2, <2>3, UnspoiledCopy DEF Copied
  <2> QED
    BY <2>1, <2>3
<1>2. RaceInv /\ [Next]_vars => [\A l \in Licenses : Body(l)]_vars
  BY <1>1
<1> QED
  BY <1>2, RaceInvariance, PTL DEF Spec, DeviceHolds

-----------------------------------------------------------------------------
(* A license sold for a limited time gets its expiry with its first use.     *)

(* An expiry stands wherever a login may find the license usable, and what a *)
(* request is about to write keeps one there, unless the dashboard itself    *)
(* put the license in use while it had none.                                 *)
TimedRow(l) ==
  lic[l].status \in {"active", "expired"} => lic[l].expires # Nil
TimedRequest(l) ==
  \A r \in Requests :
    req[r].pkt.key = l =>
      /\ req[r].pc = "activate" => req[r].newExpires # Nil
      /\ req[r].pc = "expire" => lic[l].expires # Nil
Timed(l) == Duration[l] > 0 /\ ~lic[l].resumed => TimedRow(l) /\ TimedRequest(l)

TimedInv == RaceInv /\ \A l \in Licenses : Timed(l)

(* A license once resumed counts as such for good.                           *)
LEMMA ResumedStays ==
  ASSUME RaceInv, [Next]_vars, NEW l \in Licenses, ~lic'[l].resumed
  PROVE  ~lic[l].resumed
BY WhoWrites, DashboardFields, WriteFields

(* No step takes the expiry of a timed license away again.                   *)
LEMMA ExpiryStays ==
  ASSUME TimedInv, [Next]_vars, NEW l \in Licenses, Duration[l] > 0,
         ~lic[l].resumed, lic[l].expires # Nil
  PROVE  lic'[l].expires # Nil
<1>1. CASE lic'[l] # lic[l] /\ ~AdminStep
  <2>1. PICK q \in Requests : /\ MarkExpired(q) \/ Activate(q)
                              /\ l = req[q].pkt.key
    BY <1>1, WhoWrites DEF TimedInv
  <2>2. \/ lic'[l].expires = lic[l].expires
        \/ req[q].pc = "activate" /\ lic'[l].expires = req[q].newExpires
    BY <2>1, WriteFields DEF TimedInv
  <2> QED
    BY <2>1, <2>2 DEF TimedInv, Timed, TimedRequest
<1>2. CASE AdminStep
  BY <1>2, DashboardFields DEF TimedInv
<1> QED
  BY <1>1, <1>2

(* The row: a login that writes it brings an expiry along or found one, and  *)
(* the dashboard puts a license without one in use only by resuming it.      *)
LEMMA TimedRowStep ==
  ASSUME TimedInv, [Next]_vars, NEW l \in Licenses, Duration[l] > 0,
         ~lic'[l].resumed
  PROVE  TimedRow(l)'
<1>0. ~lic[l].resumed /\ TimedRow(l) /\ TimedRequest(l)
  BY ResumedStays DEF TimedInv, Timed
<1>1. CASE lic'[l] = lic[l]
  BY <1>0, <1>1 DEF TimedRow
<1>2. CASE AdminStep
  <2>1. /\ lic'[l].expires = lic[l].expires
        /\ \/ lic'[l].status \in {lic[l].status, "deleted"}
           \/ ~Resumes(lic'[l].status, lic[l].expires)
    BY <1>2, DashboardFields DEF TimedInv
  <2> QED
    BY <1>0, <2>1 DEF TimedRow, Resumes
<1>3. CASE lic'[l] # lic[l] /\ ~AdminStep
  <2>1. PICK q \in Requests : /\ MarkExpired(q) \/ Activate(q)
                              /\ l = req[q].pkt.key
    BY <1>3, WhoWrites DEF TimedInv
  <2>2. \/ lic'[l].expires = lic[l].expires
        \/ req[q].pc = "activate" /\ lic'[l].expires = req[q].newExpires
    BY <2>1, WriteFields DEF TimedInv
  <2>3. CASE MarkExpired(q)
    <3>1. req[q].pc = "expire"
      BY <2>3 DEF MarkExpired, At
    <3>2. lic[l].expires # Nil
      BY <1>0, <2>1, <3>1 DEF TimedRequest
    <3> QED
      BY <2>2, <3>1, <3>2 DEF TimedRow
  <2>4. CASE Activate(q)
    <3>1. req[q].pc = "activate"
      BY <2>4 DEF Activate, At
    <3>2. req[q].newExpires # Nil
      BY <1>0, <2>1, <3>1 DEF TimedRequest
    <3>3. lic'[l].expires = req[q].newExpires
      BY <1>3, <2>1, <2>4 DEF Activate, TimedInv, RaceInv, Inductive, TypeOK
    <3> QED
      BY <3>2, <3>3 DEF TimedRow
  <2> QED
    BY <2>1, <2>3, <2>4
<1> QED
  BY <1>1, <1>2, <1>3

(* The lookup of a timed license goes on to "expire" only with an expiry and *)
(* to "activate" only with one to write.                                     *)
LEMMA ReadLicenseTimed ==
  ASSUME TimedInv, NEW q \in Requests, ReadLicense(q), NEW l \in Licenses,
         Duration[l] > 0, ~lic[l].resumed, req'[q].pkt.key = l
  PROVE  /\ req'[q].pc = "activate" => req'[q].newExpires # Nil
         /\ req'[q].pc = "expire" => lic'[l].expires # Nil
<1> DEFINE k == req[q].pkt.key
           copy == lic[k]
           expires == NewExpiry(k, copy)
           Proceed(step) ==
             req' = [req EXCEPT ![q].pc = step, ![q].lic = copy,
                                ![q].stale = FALSE, ![q].newExpires = expires]
<1>0. /\ req \in [Requests -> Request] /\ req[q] \in Request
      /\ now \in Nat /\ lic \in [Licenses -> License]
      /\ Duration \in [Licenses -> Nat]
  BY ConstantTypes DEF TimedInv, RaceInv, Inductive, TypeOK
<1>1. lic' = lic
  BY Zenon DEF ReadLicense, store
<1>2. \/ \E resp : Answer(q, resp)
      \/ /\ KnownLicense(k, req[q].sess.app) /\ ~Locked(copy.status)
         /\ \/ Proceed("expire") /\ IsExpired(copy.expires, now)
            \/ Proceed("store") \/ Proceed("activate")
  BY Zenon DEF ReadLicense
<1>3. CASE \E resp : Answer(q, resp)
  <2>1. req'[q].pc = "idle"
    BY <1>0, <1>3 DEF Answer, Answered
  <2> QED
    BY <2>1
<1>4. ASSUME NEW step, Proceed(step), KnownLicense(k, req[q].sess.app),
             ~Locked(copy.status),
             step = "expire" => IsExpired(copy.expires, now)
      PROVE  /\ step = "activate" => expires # Nil
             /\ step = "expire" => copy.expires # Nil
             /\ req'[q].pc = step /\ req'[q].newExpires = expires /\ k = l
  <2>1. req'[q].pc = step /\ req'[q].newExpires = expires /\ req'[q].pkt.key = k
    BY <1>0, <1>4 DEF Request
  <2>2. k = l
    BY <2>1
  <2>3. step = "expire" => copy.expires # Nil
    BY <1>4 DEF IsExpired
  <2>4. CASE copy.status = "unactivated"
    <3>1. expires = now + Duration[l]
      BY <1>0, <2>2, <2>4 DEF NewExpiry, CalculateExpiration
    <3>2. now + Duration[l] # Nil
      BY <1>0 DEF Nil
    <3> QED
      BY <2>1, <2>2, <2>3, <3>1, <3>2
  <2>5. CASE copy.status # "unactivated"
    <3>1. copy.status \in {"active", "expired"}
      BY <1>0, <1>4, <2>2, <2>5 DEF KnownLicense, RowGone, Locked, License, Statuses
    <3>2. expires = copy.expires
      BY <2>5 DEF NewExpiry
    <3> QED
      BY <2>1, <2>2, <2>3, <3>1, <3>2 DEF TimedInv, Timed, TimedRow
  <2> QED
    BY <2>4, <2>5
<1> HIDE DEF k, copy, expires, Proceed
<1>5. ASSUME NEW step \in {"expire", "store", "activate"}, Proceed(step),
             KnownLicense(k, req[q].sess.app), ~Locked(copy.status),
             step = "expire" => IsExpired(copy.expires, now)
      PROVE  /\ req'[q].pc = "activate" => req'[q].newExpires # Nil
             /\ req'[q].pc = "expire" => lic'[l].expires # Nil
  BY <1>1, <1>4, <1>5 DEF copy
<1> QED
  BY <1>2, <1>3, <1>5

(* The requests: whoever did not act kept its locals, and the row its expiry.*)
LEMMA TimedRequestStep ==
  ASSUME TimedInv, [Next]_vars, NEW l \in Licenses, Duration[l] > 0,
         ~lic'[l].resumed
  PROVE  TimedRequest(l)'
<1> SUFFICES ASSUME NEW r \in Requests, req'[r].pkt.key = l
             PROVE  /\ req'[r].pc = "activate" => req'[r].newExpires # Nil
                    /\ req'[r].pc = "expire" => lic'[l].expires # Nil
  BY DEF TimedRequest
<1>0. Inductive /\ RaceInv /\ req[r] \in Request
  BY DEF TimedInv, RaceInv, Inductive, TypeOK
<1>7. ~lic[l].resumed /\ TimedRequest(l)
  BY ResumedStays DEF TimedInv, Timed
<1>1. CASE Kept(r)
  <2>1. /\ req'[r].pc = req[r].pc /\ req'[r].pkt = req[r].pkt
        /\ req'[r].newExpires = req[r].newExpires
    BY <1>0, <1>1 DEF Kept, Request
  <2> QED
    BY <1>7, <2>1, ExpiryStays DEF TimedRequest
<1>2. CASE ClientStep(r)
  <2>1. CASE ReadLicense(r)
    BY <1>7, <2>1, ReadLicenseTimed
  <2>2. CASE MarkExpired(r) \/ Activate(r)
    BY <1>0, <2>2, WriteStep
  <2>3. CASE ~ReadLicense(r) /\ ~MarkExpired(r) /\ ~Activate(r)
    BY <1>0, <1>2, <2>3, OtherStepsFresh
  <2> QED
    BY <2>1, <2>2, <2>3
<1>3. CASE Restart
  BY <1>3, IdleOK DEF Restart
<1>4. ASSUME NEW q \in Requests \ {r}, ClientStep(q) PROVE Kept(r)
  BY <1>0, <1>4, OthersKept
<1>5. CASE AdminStep
  BY <1>1, <1>5, DashboardKeeps
<1>6. CASE Tick \/ UNCHANGED vars
  BY <1>1, <1>6 DEF Tick, vars, Kept
<1> QED
  BY <1>1, <1>2, <1>3, <1>4, <1>5, <1>6 DEF Next

(* No race of logins, locks, resets and deletions, whatever statuses the     *)
(* dashboard writes, leaves a license sold for a limited time in use without *)
(* an expiry, unless the dashboard put it in use while it had none.          *)
THEOREM TimedLicensesExpire == Spec => []TimedLicenseExpires
<1>1. Init => TimedInv
  <2> SUFFICES ASSUME Init PROVE TimedInv
    OBVIOUS
  <2>1. \A r \in Requests : req[r].pc = "idle"
    BY IdleOK DEF Init
  <2>2. \A l \in Licenses : lic[l].status = "unactivated"
    BY DEF Init, NewLicense
  <2> QED
    BY <2>1, <2>2, RaceInit DEF TimedInv, Timed, TimedRow, TimedRequest
<1>2. TimedInv /\ [Next]_vars => TimedInv'
  <2> SUFFICES ASSUME TimedInv, [Next]_vars PROVE TimedInv'
    OBVIOUS
  <2>1. RaceInv'
    BY RaceStep DEF TimedInv
  <2>2. ASSUME NEW l \in Licenses, Duration[l] > 0, ~lic'[l].resumed
        PROVE  TimedRow(l)' /\ TimedRequest(l)'
    BY <2>2, TimedRowStep, TimedRequestStep
  <2>3. \A l \in Licenses : Timed(l)'
    BY <2>2 DEF Timed
  <2> QED
    BY <2>1, <2>3 DEF TimedInv
<1>3. TimedInv => TimedLicenseExpires
  BY DEF TimedInv, Timed, TimedRow, TimedLicenseExpires
<1> QED
  BY <1>1, <1>2, <1>3, PTL DEF Spec
=============================================================================
