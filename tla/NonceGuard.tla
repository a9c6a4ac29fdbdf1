----------------------------- MODULE NonceGuard -----------------------------
(* ClientAuthService.validateNonceAndTimestamp and the nonce entries of the  *)
(* cache, at the resolution of the skew window.  ClientAuth treats a nonce   *)
(* as spent until the next tick of a much coarser clock; here the window,    *)
(* the life of the entry and the delay between the two checks are explicit.  *)
EXTENDS Integers

CONSTANTS
  Requests,     \* concurrently served requests
  Packets,      \* the messages that arrive, each any number of times
  Nonces,
  Skew,         \* tolerated clock difference (30 000 ms in the code)
  MaxDelay,     \* bound: time a request may spend between its two checks
  MaxTime,      \* bound: last instant of the clock
  Engines       \* the caches the server may find: "memory", "redis"

ASSUME WindowTypes ==
  /\ Skew \in Nat \ {0} /\ MaxDelay \in Nat /\ MaxTime \in Nat
  /\ Engines \subseteq {"memory", "redis"}
  /\ Packets \subseteq [nonce : Nonces, timestamp : Nat] /\ Packets # {}

Nil == -1

(* The life of a nonce: 60 s, twice the tolerated difference of the clocks.  *)
NonceTTL == 2 * Skew

VARIABLES
  cache,     \* the one it found; a restart finds it again
  now,       \* the server's clock
  entries,   \* "nonce:<n>": its expiry, or Nil
  req,       \* the requests: idle, or between the two checks
  accepted   \* history: when the cache last admitted a packet, or Nil

vars == <<cache, now, entries, req, accepted>>

AnyPacket == CHOOSE p \in Packets : TRUE
Idle(answer) == [pc |-> "idle", pkt |-> AnyPacket, at |-> 0, answer |-> answer]

Init ==
  /\ cache \in Engines
  /\ now = 0
  /\ entries = [n \in Nonces |-> Nil]
  /\ req = [r \in Requests |-> Idle("none")]
  /\ accepted = [p \in Packets |-> Nil]
-----------------------------------------------------------------------------
(* |now - timestamp| <= Skew: a difference of exactly Skew is tolerated.     *)
WithinSkew_PastOnly(timestamp) == now - timestamp <= Skew   \* seeded fault
WithinSkew(timestamp) == /\ now - timestamp <= Skew
                         /\ timestamp - now <= Skew

(* The entry still counts.  The memory cache asks expiresAt.After(now);      *)
(* Redis drops a key once its expiry has passed.                             *)
Recorded_Lapsing(n) == entries[n] # Nil /\ now + 1 < entries[n]   \* seeded fault
Recorded(n) == /\ entries[n] # Nil
               /\ IF cache = "redis" THEN now <= entries[n] ELSE now < entries[n]

(* A packet outside the window is refused without a trace.                   *)
CheckTimestamp(r, p) ==
  /\ req[r].pc = "idle"
  /\ WithinSkew(p.timestamp)
  /\ req' = [req EXCEPT ![r] = [pc |-> "set", pkt |-> p, at |-> now,
                                answer |-> "none"]]
  /\ UNCHANGED <<cache, now, entries, accepted>>

(* SetNonce: one critical section, or one SETNX.  A call to Redis that fails *)
(* refuses the request, whether or not the key was written.                  *)
SetNonce(r) ==
  LET p == req[r].pkt
      stored == [entries EXCEPT ![p.nonce] = now + NonceTTL] IN
  /\ req[r].pc = "set"
  /\ \/ /\ Recorded(p.nonce)
        /\ req' = [req EXCEPT ![r] = Idle("replay")]
        /\ UNCHANGED <<entries, accepted>>
     \/ /\ ~Recorded(p.nonce)
        /\ entries' = stored
        /\ accepted' = [accepted EXCEPT ![p] = now]
        /\ req' = [req EXCEPT ![r] = Idle("accepted")]
     \/ /\ cache = "redis"
        /\ entries' = entries \/ (~Recorded(p.nonce) /\ entries' = stored)
        /\ req' = [req EXCEPT ![r] = Idle("replay")]
        /\ UNCHANGED accepted
  /\ UNCHANGED <<cache, now>>

(* The janitor of the memory cache, or Redis, removes lapsed entries.        *)
Janitor ==
  /\ \E n \in Nonces : entries[n] # Nil /\ now > entries[n]
  /\ entries' = [n \in Nonces |-> IF now > entries[n] THEN Nil ELSE entries[n]]
  /\ UNCHANGED <<cache, now, req, accepted>>

Tick ==
  /\ now < MaxTime
  /\ \A r \in Requests : req[r].pc = "set" => now < req[r].at + MaxDelay
  /\ now' = now + 1
  /\ UNCHANGED <<cache, entries, req, accepted>>

(* The server restarts: the memory cache starts empty, and with it the       *)
(* history of what this cache admitted.                                      *)
Restart ==
  /\ req' = [r \in Requests |-> Idle("none")]
  /\ IF cache = "redis" THEN UNCHANGED <<entries, accepted>>
     ELSE /\ entries' = [n \in Nonces |-> Nil]
          /\ accepted' = [p \in Packets |-> Nil]
  /\ UNCHANGED <<cache, now>>

Next ==
  \/ \E r \in Requests : (\E p \in Packets : CheckTimestamp(r, p)) \/ SetNonce(r)
  \/ Janitor \/ Tick \/ Restart

Spec == Init /\ [][Next]_vars
-----------------------------------------------------------------------------
(* PROPERTIES *)

Accepts(r) == req[r].pc = "set" /\ req'[r].answer = "accepted"

(* However requests interleave, fail or are delayed, a nonce is admitted at  *)
(* most once in the life of its entry.                                       *)
OncePerLife ==
  [][\A r \in Requests : Accepts(r) =>
       \A p \in Packets : p.nonce = req[r].pkt.nonce /\ accepted[p] # Nil
                            => now >= accepted[p] + NonceTTL]_vars

(* The two checks cover one another: a packet is admitted a second time only *)
(* by a request that passed its timestamp check before the nonce lapsed (or  *)
(* at that instant) and then set the nonce after it.                         *)
CheckedBeforeLapse ==
  [][\A r \in Requests :
       Accepts(r) /\ accepted[req[r].pkt] # Nil
         => req[r].at <= accepted[req[r].pkt] + NonceTTL]_vars
=============================================================================
