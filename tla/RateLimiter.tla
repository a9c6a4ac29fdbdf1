---------------------------- MODULE RateLimiter ----------------------------
(* The RateLimiter middleware over Cache.IncrementRateLimit.  One increment  *)
(* is one critical section of the memory cache, or one MULTI of INCR and     *)
(* EXPIRE in Redis; the middleware decides from its answer alone.            *)
EXTENDS Integers, Functions

CONSTANTS
  Addresses, Paths,   \* a counter belongs to a client address and a path
  MaxRequests,        \* requests a counter admits (60 in the server)
  Window,             \* life of a counter (one minute in the server)
  MaxTime,            \* bound: last instant of the clock
  MaxHits,            \* bound: requests per counter and instant
  Engines             \* the caches the server may find: "memory", "redis"

ASSUME LimitTypes ==
  /\ MaxRequests \in Nat \ {0} /\ Window \in Nat \ {0}
  /\ MaxTime \in Nat /\ MaxHits \in Nat /\ Engines \subseteq {"memory", "redis"}

Nil  == -1
RateKeys == Addresses \X Paths
Times == 0 .. MaxTime

VARIABLES
  cache,     \* the one it found
  now,       \* the server's clock
  counter,   \* "ratelimit:<address>:<path>": its count and its expiry, or Nil
  hits,      \* history: requests that arrived, per key and instant
  admitted,  \* history: those the limiter counted and let through
  answer     \* history: what became of the last request

rateVars == <<cache, now, counter, hits, admitted, answer>>

NoCounter == [count |-> 0, expires |-> Nil]
Nothing   == [k \in RateKeys |-> [t \in Times |-> 0]]

RateInit ==
  /\ cache \in Engines
  /\ now = 0
  /\ counter = [k \in RateKeys |-> NoCounter]
  /\ hits = Nothing /\ admitted = Nothing /\ answer = "none"
-----------------------------------------------------------------------------
(* The memory cache asks expiresAt.After(now); Redis drops a key once its    *)
(* expiry has passed.                                                        *)
Running(c) == /\ c.expires # Nil
              /\ IF cache = "redis" THEN now <= c.expires ELSE now < c.expires

(* A running counter of the memory cache keeps its expiry; Redis sets it     *)
(* anew on every request.                                                    *)
Incremented_Rearmed(c) ==   \* seeded fault
  [count |-> IF Running(c) THEN c.count + 1 ELSE 1, expires |-> now + Window]
Incremented_Never(c) ==     \* seeded fault
  [count |-> c.count + 1, expires |-> now + Window]
Incremented(c) ==
  [count   |-> IF Running(c) THEN c.count + 1 ELSE 1,
   expires |-> IF Running(c) /\ cache = "memory" THEN c.expires ELSE now + Window]

Exceeds_OffByOne(count) == count > MaxRequests + 1   \* seeded fault
Exceeds(count) == count > MaxRequests

Arrives(k) == /\ hits[k][now] < MaxHits
              /\ hits' = [hits EXCEPT ![k][now] = @ + 1]

(* The request is counted, and let through or answered 429.                  *)
Limit(k) ==
  /\ Arrives(k)
  /\ counter' = [counter EXCEPT ![k] = Incremented(counter[k])]
  /\ \/ /\ Exceeds(Incremented(counter[k]).count)
        /\ answer' = "refused" /\ UNCHANGED admitted
     \/ /\ ~Exceeds(Incremented(counter[k]).count)
        /\ answer' = "admitted"
        /\ admitted' = [admitted EXCEPT ![k][now] = @ + 1]
  /\ UNCHANGED <<cache, now>>

(* Redis does not answer: the request is let through, counted or not.        *)
FailOpen(k) ==
  /\ cache = "redis"
  /\ Arrives(k)
  /\ \/ UNCHANGED counter
     \/ counter' = [counter EXCEPT ![k] = Incremented(counter[k])]
  /\ answer' = "failed"
  /\ UNCHANGED <<cache, now, admitted>>

(* The janitor, or Redis, removes a counter that has lapsed.                 *)
Janitor ==
  /\ \E k \in RateKeys : counter[k].expires # Nil /\ now > counter[k].expires
  /\ counter' = [k \in RateKeys |-> IF now > counter[k].expires THEN NoCounter
                                ELSE counter[k]]
  /\ UNCHANGED <<cache, now, hits, admitted, answer>>

Tick == /\ now < MaxTime /\ now' = now + 1
        /\ UNCHANGED <<cache, counter, hits, admitted, answer>>

RateNext == (\E k \in RateKeys : Limit(k) \/ FailOpen(k)) \/ Janitor \/ Tick
RateSpec == RateInit /\ [][RateNext]_rateVars
-----------------------------------------------------------------------------
(* PROPERTIES *)

(* How many of log's requests came in the window that ends now.              *)
Recent(log, k) ==
  SumFunctionOnSet(log[k], {t \in 0 .. now : t > now - Window})

(* The middleware answers a request for k with 429.                          *)
Refuses(k) == hits'[k] # hits[k] /\ answer' = "refused"

(* In no window of this length, wherever it begins, does the limiter admit   *)
(* more requests for one key than the limit (Redis), or than two limits: the *)
(* end of one counter of the memory cache and the start of the next.         *)
BoundPerWindow ==
  \A k \in RateKeys :
    Recent(admitted, k) <= (IF cache = "redis" THEN 1 ELSE 2) * MaxRequests

(* The memory cache refuses a request only when, with it, more requests than *)
(* the limit came in the window that ends now; Redis does not promise that.  *)
UnderLimit(k) == Recent(hits, k) + 1 <= MaxRequests
RefusedOnlyOverLimit ==
  [][cache = "memory" => \A k \in RateKeys : Refuses(k) => ~UnderLimit(k)]_rateVars

(* Every window between first and now saw a request for k (the last of them  *)
(* the one that arrives now).                                                *)
BusySince(k, first) ==
  \A t \in first .. now - Window - 1 :
    \E u \in t + 1 .. t + Window : hits[k][u] > 0

(* What a counter re-armed by every request still promises, even when some   *)
(* calls fail: a refusal comes only after more requests than the limit with  *)
(* no quiet window among them.                                               *)
RefusedOnlyWhenBusy ==
  [][\A k \in RateKeys : Refuses(k) =>
       \E first \in 0 .. now :
         /\ BusySince(k, first)
         /\ SumFunctionOnSet(hits[k], first .. now) >= MaxRequests]_rateVars
=============================================================================
