----------------------------- MODULE KeyBatches -----------------------------
(* DashboardHandler.GenerateLicenses: a batch of license keys is paid with   *)
(* the credits of a reseller, drawn from a mask and inserted, each step on   *)
(* its own.  Developers and resellers order batches concurrently.            *)
EXTENDS Integers, FiniteSets, Functions

CONSTANTS
  Requests,        \* the batches ordered, each by one request
  Resellers, Developer,
  Keys,            \* the strings masks can produce
  MaskKeys,        \* what each mask can produce
  Counts, Days,    \* the sizes and durations ordered; days are any integers
  LifetimeDays,    \* what a lifetime key costs (365 in the code)
  Grants,          \* what AdjustResellerCredits adds
  MaxGranted,      \* bound: credits a reseller is granted in all
  Stores           \* the stores the server may run on: "memory", "sql"

Masks  == DOMAIN MaskKeys
Buyers == Resellers \cup {Developer}

ASSUME BatchTypes ==
  /\ Counts \subseteq Nat \ {0} /\ Days \subseteq Int /\ LifetimeDays \in Nat
  /\ Counts # {} /\ Days # {} /\ Masks # {}
  /\ Grants \subseteq Int /\ MaxGranted \in Nat /\ Stores \subseteq {"memory", "sql"}
  /\ MaskKeys \in [Masks -> SUBSET Keys] /\ Developer \notin Resellers
(* In the life of a server finitely many batches are ordered.                *)
ASSUME FinitelyMany == IsFiniteSet(Requests)

VARIABLES
  store,     \* the one it runs on
  credits,   \* of each reseller
  rows,      \* the keys of the license rows that each request inserted
  req,       \* the requests
  granted    \* history: credits granted to each reseller

vars == <<store, credits, rows, req, granted>>

Batch == [by : Buyers, mask : Masks, count : Counts, days : Days,
          lifetime : BOOLEAN]
Request == [pc : {"new", "pay", "draw", "create", "done", "refused", "failed",
                  "lost"},
            batch : Batch, drawn : SUBSET Keys]

(* No batch holds more keys than were ordered.                               *)
TypeOK == /\ store \in Stores
          /\ credits \in [Resellers -> Int] /\ granted \in [Resellers -> Int]
          /\ rows \in [Requests -> SUBSET Keys] /\ req \in [Requests -> Request]
          /\ \A r \in Requests : Cardinality(req[r].drawn) <= req[r].batch.count

AnyBatch == CHOOSE b \in Batch : TRUE
Init == /\ store \in Stores
        /\ credits = [s \in Resellers |-> 0] /\ granted = credits
        /\ rows = [r \in Requests |-> {}]
        /\ req = [r \in Requests |-> [pc |-> "new", batch |-> AnyBatch, drawn |-> {}]]
-----------------------------------------------------------------------------
(* The price of a key is not checked: no days cost nothing, and fewer than   *)
(* none earn credits.                                                        *)
Price(b) == IF b.lifetime THEN LifetimeDays ELSE b.days
Cost_AlwaysLifetime(b) == b.count * LifetimeDays   \* seeded fault
Cost_PerBatch(b) == IF b.lifetime THEN LifetimeDays ELSE b.count * b.days   \* seeded fault
Cost(b) == b.count * Price(b)

Advance(r, pc) == req' = [req EXCEPT ![r].pc = pc]

(* Only a reseller pays.                                                     *)
Order(r, b) ==
  /\ req[r].pc = "new"
  /\ req' = [req EXCEPT ![r].batch = b,
                        ![r].pc = IF b.by = Developer THEN "draw" ELSE "pay"]
  /\ UNCHANGED <<store, credits, rows, granted>>

(* DeductCredits: one conditional UPDATE, or one critical section.  The      *)
(* answer of PostgreSQL may be lost after the update; the batch is refused.  *)
(* A negative cost is always covered, and adds credits.                      *)
DeductCredits(r) ==
  LET b == req[r].batch
      deducted == [credits EXCEPT ![b.by] = @ - Cost(b)] IN
  /\ req[r].pc = "pay"
  /\ \/ /\ credits[b.by] >= Cost(b)
        /\ credits' = deducted /\ Advance(r, "draw")
     \/ /\ credits[b.by] < Cost(b)
        /\ UNCHANGED credits /\ Advance(r, "refused")
     \/ /\ store = "sql"
        /\ credits' = credits \/ (credits[b.by] >= Cost(b) /\ credits' = deducted)
        /\ Advance(r, "refused")
  /\ UNCHANGED <<store, rows, granted>>

Complete_OffByOne(b, drawn) == Cardinality(drawn) > b.count   \* seeded fault
Complete(b, drawn) == Cardinality(drawn) >= b.count

(* GenerateBatch draws until it has as many different keys as were ordered;  *)
(* a key drawn before changes nothing.                                       *)
DrawKey_Repeats(r, k) ==   \* seeded fault: the set of keys seen is not kept
  /\ req[r].pc = "draw" /\ k \in MaskKeys[req[r].batch.mask]
  /\ req' = [req EXCEPT ![r].drawn = {k},
                        ![r].pc = IF Complete(req[r].batch, {k}) THEN "create"
                                  ELSE "draw"]
  /\ UNCHANGED <<store, credits, rows, granted>>
DrawKey(r, k) ==
  LET drawn == req[r].drawn \cup {k} IN
  /\ req[r].pc = "draw" /\ k \in MaskKeys[req[r].batch.mask] \ req[r].drawn
  /\ req' = [req EXCEPT ![r].drawn = drawn,
                        ![r].pc = IF Complete(req[r].batch, drawn) THEN "create"
                                  ELSE "draw"]
  /\ UNCHANGED <<store, credits, rows, granted>>

(* The random source fails: the batch is given up, and nothing gives the     *)
(* credits back.                                                             *)
DrawFails(r) ==
  /\ req[r].pc = "draw" /\ Advance(r, "failed")
  /\ UNCHANGED <<store, credits, rows, granted>>

Inserted == UNION {rows[r] : r \in Requests}

(* The transaction of BulkCreate fails as a whole: on a license_key that is  *)
(* taken, and on a creator that is not a row of developers, where no         *)
(* reseller is.                                                              *)
Refused(b, drawn) ==
  store = "sql" /\ (drawn \cap Inserted # {} \/ b.by \in Resellers)

BulkCreate(r) ==
  LET b == req[r].batch
      inserted == [rows EXCEPT ![r] = req[r].drawn] IN
  /\ req[r].pc = "create"
  /\ \/ /\ ~Refused(b, req[r].drawn)
        /\ rows' = inserted /\ Advance(r, "done")
     \/ /\ Refused(b, req[r].drawn)
        /\ UNCHANGED rows /\ Advance(r, "failed")
     \/ /\ store = "sql"
        /\ rows' = rows \/ (~Refused(b, req[r].drawn) /\ rows' = inserted)
        /\ Advance(r, "failed")
  /\ UNCHANGED <<store, credits, granted>>

(* AdjustResellerCredits: the developer adds credits, or takes some away.    *)
AdjustCredits(s, n) ==
  /\ granted[s] + n \in 0 .. MaxGranted
  /\ credits' = [credits EXCEPT ![s] = @ + n]
  /\ granted' = [granted EXCEPT ![s] = @ + n]
  /\ UNCHANGED <<store, rows, req>>

DeleteLicense(r, k) ==
  /\ k \in rows[r]
  /\ rows' = [rows EXCEPT ![r] = @ \ {k}]
  /\ UNCHANGED <<store, credits, req, granted>>

(* The server stops: what was in progress is lost.                           *)
Restart ==
  /\ req' = [r \in Requests |->
              IF req[r].pc \in {"pay", "draw", "create"}
              THEN [req[r] EXCEPT !.pc = "lost"] ELSE req[r]]
  /\ UNCHANGED <<store, credits, rows, granted>>

Serve(r) == DeductCredits(r) \/ BulkCreate(r) \/ \E k \in Keys : DrawKey(r, k)
Next ==
  \/ \E r \in Requests : Serve(r) \/ DrawFails(r) \/ \E b \in Batch : Order(r, b)
  \/ \E r \in Requests : \E k \in rows[r] : DeleteLicense(r, k)
  \/ \E s \in Resellers, n \in Grants : AdjustCredits(s, n)
  \/ Restart

(* A handler runs on; a fair generator produces a new key in the end, and    *)
(* need not fail.                                                            *)
Fairness == \A r \in Requests : WF_vars(Serve(r))
Spec == Init /\ [][Next]_vars /\ Fairness
-----------------------------------------------------------------------------
(* PROPERTIES *)

(* What a key of the batch is worth to its buyer's customer, in days: one    *)
(* without a positive duration never expires and is a lifetime key.          *)
NeverExpires(b) == b.lifetime \/ b.days <= 0
Worth(b) == IF NeverExpires(b) THEN LifetimeDays ELSE b.days
Issued(s) == SumFunction([r \in Requests |-> IF req[r].batch.by = s
                            THEN Cardinality(rows[r]) * Worth(req[r].batch) ELSE 0])

(* The handler bills what it issues only while a reseller orders lifetime    *)
(* keys as such and durations of at least a day: it gives keys of no days    *)
(* away for nothing, and pays for those of fewer, and none of them expires.  *)
OrdersDays(s) == \A r \in Requests :
  req[r].pc # "new" /\ req[r].batch.by = s => Price(req[r].batch) = Worth(req[r].batch)

(* However batches, top-ups, failures and restarts interleave, the keys of a *)
(* reseller that orders durations of at least a day are worth no more than   *)
(* the credits it was granted and no longer has.                             *)
KeysArePaid == \A s \in Resellers :
  OrdersDays(s) => Issued(s) <= granted[s] - credits[s]

(* The credits that the keys a reseller holds were sold for, and those of    *)
(* its failed batches.                                                       *)
Sold(s) == SumFunction([r \in Requests |-> IF req[r].batch.by = s
                          THEN Cardinality(rows[r]) * Price(req[r].batch) ELSE 0])
Forfeited(s) == SumFunction([r \in Requests |->
                  IF req[r].batch.by = s /\ req[r].pc = "failed"
                  THEN Cost(req[r].batch) ELSE 0])

(* The batches of s have come to an end, with no stop of the server in the   *)
(* middle of one and no key deleted since.                                   *)
Settled(s) == \A r \in Requests : req[r].batch.by = s =>
  \/ req[r].pc \in {"new", "refused", "failed"}
  \/ req[r].pc = "done" /\ Cardinality(rows[r]) = req[r].batch.count

(* On the in-memory store the credits a reseller no longer has are, to the   *)
(* last one, the price of the keys it holds and of the batches whose draw    *)
(* failed: a failed batch costs its whole price, and nothing else is lost.   *)
OnlyFailuresForfeit == store = "memory" =>
  \A s \in Resellers : Settled(s) => Sold(s) + Forfeited(s) = granted[s] - credits[s]

(* A batch comes to an end when its mask can produce as many keys as it has. *)
Enough(b) == Cardinality(MaskKeys[b.mask]) >= b.count
Ended(r)  == req[r].pc \in {"done", "refused", "failed", "lost"}
BatchEnds == \A r \in Requests : req[r].pc # "new" /\ Enough(req[r].batch) ~> Ended(r)
=============================================================================
