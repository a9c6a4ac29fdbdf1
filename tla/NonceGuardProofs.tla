--------------------------- MODULE NonceGuardProofs ---------------------------
(* What the nonce guard promises, for any window, any delay between the two  *)
(* checks and any number of requests and packets, on both caches.            *)
EXTENDS NonceGuard, TLAPS

Request == [pc : {"idle", "set"}, pkt : Packets, at : Nat,
            answer : {"none", "accepted", "replay"}]

(* Between its two checks a request is of a packet that was in its window.   *)
RequestOK(q) ==
  q.pc = "set" => /\ q.answer = "none" /\ q.at <= now
                  /\ q.at <= q.pkt.timestamp + Skew
                  /\ q.pkt.timestamp <= q.at + Skew

(* An admitted packet was in its window, and its nonce is still recorded for *)
(* the rest of its life, unless that life is over.                           *)
AdmittedOK(p) ==
  accepted[p] # Nil =>
    /\ accepted[p] <= now /\ p.timestamp <= accepted[p] + Skew
    /\ \/ now >= accepted[p] + NonceTTL
       \/ entries[p.nonce] >= accepted[p] + NonceTTL

GuardInv ==
  /\ now \in Nat /\ entries \in [Nonces -> Int]
  /\ accepted \in [Packets -> Nat \cup {Nil}]
  /\ req \in [Requests -> Request]
  /\ \A r \in Requests : RequestOK(req[r])
  /\ \A p \in Packets : AdmittedOK(p)

LEMMA SkewFacts == /\ Skew \in Nat /\ NonceTTL \in Nat /\ NonceTTL = Skew + Skew
                   /\ \A p \in Packets : p.nonce \in Nonces /\ p.timestamp \in Nat
BY WindowTypes DEF NonceTTL

LEMMA IdleOK ==
  ASSUME NEW answer \in {"none", "accepted", "replay"}
  PROVE  /\ Idle(answer) \in Request /\ Idle(answer).pc = "idle"
         /\ Idle(answer).answer = answer
BY WindowTypes DEF Idle, Request, AnyPacket

LEMMA GuardInit == Init => GuardInv
<1> SUFFICES ASSUME Init PROVE GuardInv
  OBVIOUS
<1>1. req \in [Requests -> Request] /\ \A r \in Requests : RequestOK(req[r])
  BY IdleOK DEF Init, RequestOK
<1>2. /\ entries \in [Nonces -> Int] /\ accepted \in [Packets -> Nat \cup {Nil}]
      /\ \A p \in Packets : AdmittedOK(p)
  BY DEF Init, AdmittedOK, Nil
<1> QED
  BY <1>1, <1>2 DEF Init, GuardInv

(* One request moves to new; the others are as before.                       *)
LEMMA OneRequest ==
  ASSUME GuardInv, NEW r \in Requests, NEW new \in Request,
         req' = [req EXCEPT ![r] = new], RequestOK(new), now' = now
  PROVE  /\ req' \in [Requests -> Request]
         /\ \A q \in Requests : RequestOK(req[q])'
<1>1. req' \in [Requests -> Request]
  BY DEF GuardInv
<1>2. \A q \in Requests : req'[q] = IF q = r THEN new ELSE req[q]
  BY DEF GuardInv
<1>3. ASSUME NEW q \in Requests PROVE RequestOK(req[q])'
  BY <1>2 DEF GuardInv, RequestOK
<1> QED
  BY <1>1, <1>3

LEMMA CheckTimestampOK ==
  ASSUME GuardInv, NEW r \in Requests, NEW p \in Packets, CheckTimestamp(r, p)
  PROVE  GuardInv'
<1> DEFINE new == [pc |-> "set", pkt |-> p, at |-> now, answer |-> "none"]
<1>1. new \in Request /\ RequestOK(new)
  BY SkewFacts DEF RequestOK, Request, CheckTimestamp, WithinSkew, GuardInv
<1>2. req' = [req EXCEPT ![r] = new] /\ UNCHANGED <<cache, now, entries, accepted>>
  BY DEF CheckTimestamp
<1> HIDE DEF new
<1>3. /\ req' \in [Requests -> Request]
      /\ \A q \in Requests : RequestOK(req[q])'
  BY <1>1, <1>2, OneRequest
<1> QED
  BY <1>2, <1>3 DEF GuardInv, AdmittedOK

LEMMA SetNonceOK ==
  ASSUME GuardInv, NEW r \in Requests, SetNonce(r)
  PROVE  GuardInv'
<1> DEFINE p == req[r].pkt
           stored == [entries EXCEPT ![p.nonce] = now + NonceTTL]
<1>0. /\ p \in Packets /\ p.nonce \in Nonces /\ p.timestamp \in Nat
      /\ now \in Nat /\ now' = now /\ entries \in [Nonces -> Int]
      /\ req[r].pc = "set" /\ req[r].at \in Nat /\ req[r].at <= now
      /\ p.timestamp <= req[r].at + Skew
      /\ accepted \in [Packets -> Nat \cup {Nil}]
  BY SkewFacts DEF GuardInv, Request, RequestOK, SetNonce
<1>1. \E answer \in {"none", "accepted", "replay"} :
        req' = [req EXCEPT ![r] = Idle(answer)]
  BY DEF SetNonce
<1>2. /\ req' \in [Requests -> Request]
      /\ \A q \in Requests : RequestOK(req[q])'
  BY <1>1, IdleOK, OneRequest, <1>0 DEF RequestOK
<1>3. /\ entries' \in [Nonces -> Int] /\ entries' \in {entries, stored}
      /\ \/ accepted' = accepted
         \/ accepted' = [accepted EXCEPT ![p] = now] /\ entries' = stored
  BY <1>0, SkewFacts DEF SetNonce
<1>4. ASSUME NEW q \in Packets PROVE AdmittedOK(q)'
  <2>1. AdmittedOK(q) /\ q.nonce \in Nonces /\ q.timestamp \in Nat
    BY SkewFacts DEF GuardInv
  <2>2. /\ entries[q.nonce] \in Int /\ accepted[q] \in Nat \cup {Nil}
        /\ \/ entries'[q.nonce] = entries[q.nonce]
           \/ entries'[q.nonce] = now + NonceTTL
    BY <1>0, <1>3, <2>1
  <2>3. CASE accepted'[q] = accepted[q]
    BY <1>0, <2>1, <2>2, <2>3, SkewFacts DEF AdmittedOK, Nil
  <2>4. CASE accepted'[q] # accepted[q]
    <3>1. q = p /\ accepted'[q] = now /\ entries'[q.nonce] = now + NonceTTL
      BY <1>0, <1>3, <2>4
    <3> QED
      BY <1>0, <3>1, SkewFacts DEF AdmittedOK
  <2> QED
    BY <2>3, <2>4
<1>5. accepted' \in [Packets -> Nat \cup {Nil}]
  BY <1>0, <1>3
<1> QED
  BY <1>0, <1>2, <1>3, <1>4, <1>5 DEF GuardInv

LEMMA GuardStep == GuardInv /\ [Next]_vars => GuardInv'
<1> SUFFICES ASSUME GuardInv, [Next]_vars PROVE GuardInv'
  OBVIOUS
<1>0. \A p \in Packets : /\ accepted[p] \in Nat \cup {Nil} /\ AdmittedOK(p)
                         /\ p.nonce \in Nonces
  BY SkewFacts DEF GuardInv
<1>1. CASE Janitor
  <2>1. entries' \in [Nonces -> Int]
    BY <1>1 DEF Janitor, GuardInv, Nil
  <2>2. ASSUME NEW p \in Packets PROVE AdmittedOK(p)'
    <3>1. \/ entries'[p.nonce] = entries[p.nonce]
          \/ entries'[p.nonce] = Nil /\ now > entries[p.nonce]
      BY <1>0, <1>1 DEF Janitor
    <3>2. now \in Nat /\ now' = now /\ accepted' = accepted
          /\ entries[p.nonce] \in Int
      BY <1>0, <1>1 DEF Janitor, GuardInv
    <3> QED
      BY <1>0, <3>1, <3>2, SkewFacts DEF AdmittedOK, Nil
  <2> QED
    BY <1>1, <2>1, <2>2 DEF Janitor, GuardInv, RequestOK
<1>2. CASE Tick
  <2>1. /\ now \in Nat /\ now' = now + 1 /\ UNCHANGED <<entries, req, accepted>>
    BY <1>2 DEF Tick, GuardInv
  <2>2. ASSUME NEW p \in Packets PROVE AdmittedOK(p)'
    BY <1>0, <2>1, SkewFacts DEF AdmittedOK, Nil
  <2>3. ASSUME NEW r \in Requests PROVE RequestOK(req[r])'
    BY <2>1 DEF GuardInv, Request, RequestOK
  <2> QED
    BY <2>1, <2>2, <2>3 DEF GuardInv
<1>3. CASE Restart
  <2>1. req' \in [Requests -> Request]
    BY <1>3, IdleOK DEF Restart
  <2>2. \A r \in Requests : RequestOK(req[r])'
    BY <1>3, IdleOK DEF Restart, RequestOK
  <2>3. CASE cache = "redis"
    BY <1>3, <2>1, <2>2, <2>3 DEF Restart, GuardInv, AdmittedOK
  <2>4. CASE cache # "redis"
    BY <1>3, <2>1, <2>2, <2>4 DEF Restart, GuardInv, AdmittedOK, Nil
  <2> QED
    BY <2>3, <2>4
<1>4. CASE UNCHANGED vars
  BY <1>4 DEF vars, GuardInv, RequestOK, AdmittedOK
<1> QED
  BY <1>1, <1>2, <1>3, <1>4, CheckTimestampOK, SetNonceOK DEF Next

LEMMA GuardInvariance == Spec => []GuardInv
BY GuardInit, GuardStep, PTL DEF Spec

(* Only SetNonce admits, and only a nonce that is not recorded.              *)
LEMMA Admits ==
  ASSUME GuardInv, [Next]_vars, NEW r \in Requests, Accepts(r)
  PROVE  ~Recorded(req[r].pkt.nonce)
<1>0. req[r].pc = "set" /\ req[r].answer = "none"
  BY DEF Accepts, GuardInv, RequestOK
<1>1. req'[r] # req[r]
  BY <1>0 DEF Accepts
<1>2. ~(Janitor \/ Tick \/ UNCHANGED vars)
  BY <1>1 DEF Janitor, Tick, vars
<1>3. ~Restart
  BY IdleOK DEF Accepts, Restart
<1>4. PICK q \in Requests :
        (\E p \in Packets : CheckTimestamp(q, p)) \/ SetNonce(q)
  BY <1>2, <1>3 DEF Next
<1>5. q = r
  BY <1>1, <1>4 DEF CheckTimestamp, SetNonce, GuardInv
<1>6. SetNonce(r)
  BY <1>0, <1>4, <1>5 DEF CheckTimestamp
<1>7. \A answer \in {"none", "accepted", "replay"} :
        req' = [req EXCEPT ![r] = Idle(answer)] => answer = "accepted"
  BY IdleOK DEF Accepts, GuardInv
<1> QED
  BY <1>6, <1>7 DEF SetNonce

(* A nonce is admitted at most once in the life of its entry.                *)
THEOREM NonceOncePerLife == Spec => OncePerLife
<1> DEFINE Body(r) == Accepts(r) =>
             \A p \in Packets : p.nonce = req[r].pkt.nonce /\ accepted[p] # Nil
                                  => now >= accepted[p] + NonceTTL
<1>1. ASSUME GuardInv, [Next]_vars, NEW r \in Requests, Accepts(r),
             NEW p \in Packets, p.nonce = req[r].pkt.nonce, accepted[p] # Nil
      PROVE  now >= accepted[p] + NonceTTL
  <2>1. /\ now \in Nat /\ entries[p.nonce] \in Int /\ AdmittedOK(p)
        /\ accepted[p] \in Nat
    BY <1>1, SkewFacts DEF GuardInv
  <2>2. ~Recorded(p.nonce)
    BY <1>1, Admits
  <2> QED
    BY <1>1, <2>1, <2>2, SkewFacts DEF AdmittedOK, Recorded, Nil
<1>2. GuardInv /\ [Next]_vars => [\A r \in Requests : Body(r)]_vars
  <2> SUFFICES ASSUME GuardInv, [Next]_vars, NEW r \in Requests PROVE Body(r)
    OBVIOUS
  <2> QED
    BY <1>1
<1> QED
  BY <1>2, GuardInvariance, PTL DEF Spec, OncePerLife

(* A second admission needs a timestamp check made before the nonce lapsed.  *)
THEOREM ChecksCoverEachOther == Spec => CheckedBeforeLapse
<1> DEFINE Body(r) == Accepts(r) /\ accepted[req[r].pkt] # Nil
             => req[r].at <= accepted[req[r].pkt] + NonceTTL
<1>1. ASSUME GuardInv, NEW r \in Requests, Accepts(r), accepted[req[r].pkt] # Nil
      PROVE  req[r].at <= accepted[req[r].pkt] + NonceTTL
  <2> DEFINE p == req[r].pkt
  <2>1. /\ p \in Packets /\ req[r].at \in Nat /\ p.timestamp \in Nat
        /\ req[r].at <= p.timestamp + Skew
        /\ accepted[p] \in Nat /\ p.timestamp <= accepted[p] + Skew
    BY <1>1, SkewFacts DEF GuardInv, Request, RequestOK, AdmittedOK, Accepts
  <2> QED
    BY <2>1, SkewFacts
<1>2. GuardInv /\ [Next]_vars => [\A r \in Requests : Body(r)]_vars
  <2> SUFFICES ASSUME GuardInv, [Next]_vars, NEW r \in Requests PROVE Body(r)
    OBVIOUS
  <2> QED
    BY <1>1
<1> QED
  BY <1>2, GuardInvariance, PTL DEF Spec, CheckedBeforeLapse
=============================================================================
