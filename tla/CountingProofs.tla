--------------------------- MODULE CountingProofs ---------------------------
(* What holds of the two parts of the server that count: key batches, for    *)
(* any number of requests, resellers and keys, and the rate limiter, for any *)
(* limit, window and pace of requests.  Credits and requests are sums over   *)
(* finite sets: the first part is about SumFunctionOnSet, the operator of    *)
(* the community modules.  The limiter's names differ from those of the      *)
(* batches, so that one module can speak of both.                            *)
EXTENDS KeyBatches, RateLimiter, FiniteSetTheorems, TLAPS

(* Induction over the subsets of a finite set, in a form without operators.  *)
LEMMA SubsetInduction ==
  ASSUME NEW S, IsFiniteSet(S), NEW Good,
         \A T \in SUBSET S :
           (\A U \in SUBSET T : U # T => U \in Good) => T \in Good
  PROVE  \A T \in SUBSET S : T \in Good
<1> DEFINE Bad == (SUBSET S) \ Good
           R == StrictSubsetOrdering(S)
<1> SUFFICES ASSUME Bad # {} PROVE FALSE
  OBVIOUS
<1>1. FiniteSubsetsOf(S) = SUBSET S
  BY FS_FiniteSubsetsOfFinite
<1>2. IsWellFoundedOn(R, FiniteSubsetsOf(S))
  BY FS_StrictSubsetOrderingWellFounded
<1>3. \E T \in Bad : \A U \in Bad : <<U, T>> \notin R
  <2>1. Bad \subseteq SUBSET S /\ Bad # {}
    OBVIOUS
  <2> HIDE DEF Bad, R
  <2> QED
    BY <1>1, <1>2, <2>1, WFMin
<1>4. PICK T \in Bad : \A U \in Bad : <<U, T>> \notin R
  BY <1>3
<1>5. \A U \in SUBSET T : U # T => <<U, T>> \in R
  BY <1>4 DEF StrictSubsetOrdering
<1>6. ASSUME NEW U \in SUBSET T, U # T PROVE U \in Good
  <2>1. U \in SUBSET S /\ U \notin Bad
    BY <1>4, <1>5, <1>6
  <2> QED
    BY <2>1
<1> QED
  BY <1>4, <1>6

(* The recursion behind SumFunctionOnSet, on the subsets of S.               *)
Pick(s) == CHOOSE x \in s : TRUE
Rest(s) == s \ {Pick(s)}
Adds(g, f, S) ==
  g = [s \in SUBSET S |-> IF s = {} THEN 0 ELSE f[Pick(s)] + g[Rest(s)]]

(* What is left of a set without one of its elements is smaller.             *)
LEMMA RestSmaller ==
  ASSUME NEW s, s # {}
  PROVE  Pick(s) \in s /\ Rest(s) \in SUBSET s /\ Rest(s) # s
BY DEF Pick, Rest

(* SumFunctionOnSet is the choice of such a table.                           *)
LEMMA SumIsChoice ==
  ASSUME NEW f, NEW S
  PROVE  SumFunctionOnSet(f, S) = (CHOOSE g : Adds(g, f, S))[S]
BY DEF SumFunctionOnSet, FoldFunctionOnSet, MapThenFoldSet, Adds, Pick, Rest

(* The table at one subset.                                                  *)
LEMMA AddsAt ==
  ASSUME NEW g, NEW f, NEW S, Adds(g, f, S), NEW s \in SUBSET S
  PROVE  g[s] = IF s = {} THEN 0 ELSE f[Pick(s)] + g[Rest(s)]
BY DEF Adds

(* Two tables that add up the subsets of two sets agree on those of both.    *)
LEMMA SumsAgree ==
  ASSUME NEW S, IsFiniteSet(S), NEW T \in SUBSET S, NEW f, NEW g, NEW h,
         Adds(g, f, S), Adds(h, f, T)
  PROVE  \A U \in SUBSET T : g[U] = h[U]
<1> DEFINE Good == {U \in SUBSET T : g[U] = h[U]}
<1>1. ASSUME NEW U \in SUBSET T, \A V \in SUBSET U : V # U => V \in Good
      PROVE  U \in Good
  <2>1. g[U] = IF U = {} THEN 0 ELSE f[Pick(U)] + g[Rest(U)]
    BY AddsAt
  <2>2. h[U] = IF U = {} THEN 0 ELSE f[Pick(U)] + h[Rest(U)]
    BY AddsAt
  <2>3. U # {} => g[Rest(U)] = h[Rest(U)]
    BY <1>1, RestSmaller
  <2> QED
    BY <2>1, <2>2, <2>3
<1>2. IsFiniteSet(T)
  BY FS_Subset
<1> HIDE DEF Good
<1>3. \A U \in SUBSET T : U \in Good
  BY <1>1, <1>2, SubsetInduction
<1> QED
  BY <1>3 DEF Good

(* Such a table exists: every finite set has one.                            *)
LEMMA SumExists ==
  ASSUME NEW S, IsFiniteSet(S), NEW f
  PROVE  \E g : Adds(g, f, S)
<1> DEFINE Good == {T \in SUBSET S : \E g : Adds(g, f, T)}
<1>1. ASSUME NEW T \in SUBSET S, \A U \in SUBSET T : U # T => U \in Good
      PROVE  T \in Good
  <2> DEFINE table(U) == CHOOSE g : Adds(g, f, U)
             g == [s \in SUBSET T |-> IF s = {} THEN 0
                                      ELSE f[Pick(s)] + table(Rest(s))[Rest(s)]]
  <2>1. ASSUME NEW U \in SUBSET T, U # T PROVE Adds(table(U), f, U)
    BY <1>1, <2>1
  <2>2. ASSUME NEW U \in SUBSET T, U # T PROVE g[U] = table(U)[U]
    <3>0. \A s \in SUBSET T : g[s] = IF s = {} THEN 0
                                     ELSE f[Pick(s)] + table(Rest(s))[Rest(s)]
      OBVIOUS
    <3> HIDE DEF table, g
    <3>1. Adds(table(U), f, U)
      BY <2>1, <2>2
    <3>2. table(U)[U] = IF U = {} THEN 0 ELSE f[Pick(U)] + table(U)[Rest(U)]
      BY <3>1, AddsAt
    <3>3. CASE U = {}
      BY <3>0, <3>2, <3>3
    <3>4. CASE U # {}
      <4>1. Rest(U) \in SUBSET U /\ Rest(U) \in SUBSET T /\ Rest(U) # T
        BY <2>2, <3>4, RestSmaller
      <4>2. Adds(table(Rest(U)), f, Rest(U))
        BY <2>1, <4>1
      <4>3. IsFiniteSet(U)
        BY FS_Subset
      <4>4. table(U)[Rest(U)] = table(Rest(U))[Rest(U)]
        BY <3>1, <4>1, <4>2, <4>3, SumsAgree
      <4> QED
        BY <3>0, <3>2, <3>4, <4>4
    <3> QED
      BY <3>3, <3>4
  <2>3. ASSUME NEW s \in SUBSET T
        PROVE  g[s] = IF s = {} THEN 0 ELSE f[Pick(s)] + g[Rest(s)]
    <3>1. s # {} => Rest(s) \in SUBSET T /\ Rest(s) # T
      BY RestSmaller
    <3>2. s # {} => g[Rest(s)] = table(Rest(s))[Rest(s)]
      BY <2>2, <3>1
    <3>3. g[s] = IF s = {} THEN 0 ELSE f[Pick(s)] + table(Rest(s))[Rest(s)]
      OBVIOUS
    <3> QED
      BY <3>2, <3>3
  <2>4. g = [s \in SUBSET T |-> g[s]]
    OBVIOUS
  <2> HIDE DEF g, table
  <2>5. Adds(g, f, T)
    BY <2>3, <2>4 DEF Adds
  <2> QED
    BY <2>5
<1> HIDE DEF Good
<1>2. \A T \in SUBSET S : T \in Good
  BY <1>1, SubsetInduction
<1> QED
  BY <1>2 DEF Good

(* What SumFunctionOnSet adds up: nothing over the empty set, and otherwise  *)
(* any one element and the rest.                                             *)
LEMMA SumTable ==
  ASSUME NEW S, IsFiniteSet(S), NEW f
  PROVE  \E g : /\ Adds(g, f, S)
                /\ \A T \in SUBSET S : SumFunctionOnSet(f, T) = g[T]
<1> DEFINE table(U) == CHOOSE g : Adds(g, f, U)
<1>1. ASSUME NEW T \in SUBSET S PROVE Adds(table(T), f, T)
  BY FS_Subset, SumExists
<1>2. ASSUME NEW T \in SUBSET S
      PROVE  SumFunctionOnSet(f, T) = table(S)[T]
  <2>1. SumFunctionOnSet(f, T) = table(T)[T]
    BY SumIsChoice
  <2>2. Adds(table(T), f, T) /\ Adds(table(S), f, S)
    BY <1>1
  <2> HIDE DEF table
  <2> QED
    BY <2>1, <2>2, SumsAgree
<1>3. Adds(table(S), f, S)
  BY <1>1
<1> HIDE DEF table
<1> QED
  BY <1>2, <1>3

(* The sum over no element.                                                  *)
LEMMA SumEmpty == ASSUME NEW f PROVE SumFunctionOnSet(f, {}) = 0
<1>1. PICK g : /\ Adds(g, f, {})
               /\ \A T \in SUBSET {} : SumFunctionOnSet(f, T) = g[T]
  BY SumTable, FS_EmptySet
<1>2. g[{}] = 0
  BY <1>1, AddsAt
<1> QED
  BY <1>1, <1>2

(* The sum over a set is any one element and the sum over the rest.          *)
LEMMA SumRemove ==
  ASSUME NEW S, IsFiniteSet(S), NEW f, \A x \in S : f[x] \in Int
  PROVE  /\ SumFunctionOnSet(f, S) \in Int
         /\ \A x \in S : SumFunctionOnSet(f, S) = f[x] + SumFunctionOnSet(f, S \ {x})
<1>1. PICK g : /\ Adds(g, f, S)
               /\ \A T \in SUBSET S : SumFunctionOnSet(f, T) = g[T]
  BY SumTable
<1> DEFINE Good == {T \in SUBSET S : /\ g[T] \in Int
                                     /\ \A x \in T : g[T] = f[x] + g[T \ {x}]}
<1>2. ASSUME NEW T \in SUBSET S, \A U \in SUBSET T : U # T => U \in Good
      PROVE  T \in Good
  <2>1. g[T] = IF T = {} THEN 0 ELSE f[Pick(T)] + g[Rest(T)]
    BY <1>1, AddsAt
  <2>2. CASE T = {}
    BY <2>1, <2>2
  <2>3. CASE T # {}
    <3> DEFINE p == Pick(T)
    <3>1. p \in T /\ Rest(T) \in Good /\ Rest(T) = T \ {p}
      BY <1>2, <2>3, RestSmaller DEF Rest
    <3> HIDE DEF p
    <3>2. g[T] = f[p] + g[T \ {p}] /\ g[T \ {p}] \in Int /\ f[p] \in Int
      BY <2>1, <2>3, <3>1 DEF p
    <3>3. ASSUME NEW x \in T, x # p PROVE g[T] = f[x] + g[T \ {x}]
      <4>1. x \in T \ {p} /\ p \in T \ {x} /\ f[x] \in Int
        BY <3>1, <3>3
      <4>2. T \ {x} \in Good /\ T \ {p} \in Good
        BY <1>2, <3>1
      <4>3. g[T \ {p}] = f[x] + g[(T \ {p}) \ {x}]
        BY <4>1, <4>2
      <4>4. g[T \ {x}] = f[p] + g[(T \ {x}) \ {p}]
        BY <4>1, <4>2
      <4>5. (T \ {p}) \ {x} = (T \ {x}) \ {p} /\ (T \ {p}) \ {x} \in Good
        <5>1. (T \ {p}) \ {x} \in SUBSET T /\ (T \ {p}) \ {x} # T
          BY <3>1
        <5> HIDE DEF Good
        <5> QED
          BY <1>2, <5>1
      <4>6. g[(T \ {p}) \ {x}] \in Int
        BY <4>5
      <4>7. g[T \ {x}] = f[p] + g[(T \ {p}) \ {x}]
        BY <4>4, <4>5
      <4> DEFINE both == g[(T \ {p}) \ {x}]
      <4>8. both \in Int /\ g[T] = f[p] + (f[x] + both) /\ g[T \ {x}] = f[p] + both
        BY <3>2, <4>3, <4>6, <4>7
      <4> HIDE DEF both, Good
      <4> QED
        BY <3>2, <4>1, <4>8
    <3>4. g[T] \in Int
      BY <3>2
    <3>5. ASSUME NEW x \in T PROVE g[T] = f[x] + g[T \ {x}]
      <4>1. CASE x = p
        BY <3>2, <4>1
      <4> QED
        BY <3>3, <4>1
    <3> QED
      BY <3>4, <3>5
  <2> QED
    BY <2>2, <2>3
<1>3. S \in Good
  <2> HIDE DEF Good
  <2> QED
    BY <1>2, SubsetInduction
<1>4. \A x \in S : S \ {x} \in SUBSET S
  OBVIOUS
<1> QED
  BY <1>1, <1>3, <1>4

(* Two functions that are the same on the set have the same sum.             *)
LEMMA SumSame ==
  ASSUME NEW S, IsFiniteSet(S), NEW f, NEW h, \A x \in S : f[x] = h[x]
  PROVE  SumFunctionOnSet(f, S) = SumFunctionOnSet(h, S)
<1>1. PICK g : /\ Adds(g, f, S)
               /\ \A T \in SUBSET S : SumFunctionOnSet(f, T) = g[T]
  BY SumTable
<1>2. PICK k : /\ Adds(k, h, S)
               /\ \A T \in SUBSET S : SumFunctionOnSet(h, T) = k[T]
  BY SumTable
<1>3. Adds(g, h, S)
  <2>1. \A s \in SUBSET S : s # {} => f[Pick(s)] = h[Pick(s)]
    BY RestSmaller
  <2>2. g = [s \in SUBSET S |-> IF s = {} THEN 0 ELSE f[Pick(s)] + g[Rest(s)]]
    BY <1>1 DEF Adds
  <2>3. \A s \in SUBSET S : g[s] = IF s = {} THEN 0 ELSE h[Pick(s)] + g[Rest(s)]
    BY <1>1, <2>1, AddsAt
  <2>4. g = [s \in SUBSET S |-> g[s]]
    BY <2>2
  <2> QED
    BY <2>3, <2>4 DEF Adds
<1> QED
  BY <1>1, <1>2, <1>3, SumsAgree

(* One summand changes.                                                      *)
LEMMA SumUpdate ==
  ASSUME NEW S, IsFiniteSet(S), NEW f, NEW h, NEW x \in S,
         \A y \in S : f[y] \in Int /\ h[y] \in Int,
         \A y \in S \ {x} : f[y] = h[y]
  PROVE  SumFunctionOnSet(h, S) = SumFunctionOnSet(f, S) + (h[x] - f[x])
<1>1. IsFiniteSet(S \ {x})
  BY FS_RemoveElement
<1>2. SumFunctionOnSet(f, S \ {x}) = SumFunctionOnSet(h, S \ {x})
  BY <1>1, SumSame
<1>3. SumFunctionOnSet(f, S \ {x}) \in Int
  BY <1>1, SumRemove
<1>4. SumFunctionOnSet(f, S) = f[x] + SumFunctionOnSet(f, S \ {x})
  BY SumRemove
<1>5. SumFunctionOnSet(h, S) = h[x] + SumFunctionOnSet(h, S \ {x})
  BY SumRemove
<1> QED
  BY <1>2, <1>3, <1>4, <1>5

(* A sum grows with its summands.                                            *)
LEMMA SumMonotone ==
  ASSUME NEW S, IsFiniteSet(S), NEW f, NEW h,
         \A x \in S : f[x] \in Int /\ h[x] \in Int /\ f[x] <= h[x]
  PROVE  SumFunctionOnSet(f, S) <= SumFunctionOnSet(h, S)
<1> DEFINE Good == {T \in SUBSET S : SumFunctionOnSet(f, T) <= SumFunctionOnSet(h, T)}
<1>1. ASSUME NEW T \in SUBSET S, \A U \in SUBSET T : U # T => U \in Good
      PROVE  T \in Good
  <2>1. CASE T = {}
    <3>1. SumFunctionOnSet(f, {}) = 0 /\ SumFunctionOnSet(h, {}) = 0
      BY SumEmpty
    <3>2. SumFunctionOnSet(f, T) <= SumFunctionOnSet(h, T)
      BY <2>1, <3>1
    <3> QED
      BY <3>2
  <2>2. CASE T # {}
    <3>1. PICK x \in T : TRUE
      BY <2>2
    <3>2. T \ {x} \in Good
      BY <1>1, <3>1
    <3>3. IsFiniteSet(T) /\ IsFiniteSet(T \ {x})
      BY FS_Subset
    <3> DEFINE fr == SumFunctionOnSet(f, T \ {x})
               hr == SumFunctionOnSet(h, T \ {x})
    <3>4. fr \in Int /\ SumFunctionOnSet(f, T) = f[x] + fr
      BY <3>1, <3>3, SumRemove
    <3>5. hr \in Int /\ SumFunctionOnSet(h, T) = h[x] + hr
      BY <3>1, <3>3, SumRemove
    <3>6. fr <= hr /\ f[x] \in Int /\ h[x] \in Int /\ f[x] <= h[x]
      BY <3>1, <3>2
    <3> HIDE DEF fr, hr
    <3>7. SumFunctionOnSet(f, T) <= SumFunctionOnSet(h, T)
      BY <3>4, <3>5, <3>6
    <3> QED
      BY <3>7
  <2> QED
    BY <2>1, <2>2
<1> HIDE DEF Good
<1>2. S \in Good
  BY <1>1, SubsetInduction
<1> QED
  BY <1>2 DEF Good

(* A sum of zeros.                                                           *)
LEMMA SumZero ==
  ASSUME NEW S, IsFiniteSet(S), NEW f, \A x \in S : f[x] = 0
  PROVE  SumFunctionOnSet(f, S) = 0
<1> DEFINE Good == {T \in SUBSET S : SumFunctionOnSet(f, T) = 0}
<1>1. ASSUME NEW T \in SUBSET S, \A U \in SUBSET T : U # T => U \in Good
      PROVE  T \in Good
  <2>1. CASE T = {}
    BY <2>1, SumEmpty
  <2>2. CASE T # {}
    <3>1. PICK x \in T : TRUE
      BY <2>2
    <3>2. SumFunctionOnSet(f, T \ {x}) = 0 /\ f[x] = 0
      BY <1>1, <3>1
    <3>3. SumFunctionOnSet(f, T) = f[x] + SumFunctionOnSet(f, T \ {x})
      <4>1. IsFiniteSet(T) /\ \A y \in T : f[y] \in Int
        BY FS_Subset
      <4> QED
        BY <3>1, <4>1, SumRemove
    <3> QED
      BY <3>2, <3>3
  <2> QED
    BY <2>1, <2>2
<1> HIDE DEF Good
<1>2. S \in Good
  BY <1>1, SubsetInduction
<1> QED
  BY <1>2 DEF Good

(* The sum of two functions is the sum of their sums.                        *)
LEMMA SumPlus ==
  ASSUME NEW S, IsFiniteSet(S), NEW f, NEW h, NEW both,
         \A x \in S : f[x] \in Int /\ h[x] \in Int /\ both[x] = f[x] + h[x]
  PROVE  SumFunctionOnSet(both, S) = SumFunctionOnSet(f, S) + SumFunctionOnSet(h, S)
<1> DEFINE fs(T) == SumFunctionOnSet(f, T)
           hs(T) == SumFunctionOnSet(h, T)
           bs(T) == SumFunctionOnSet(both, T)
           Good == {T \in SUBSET S : bs(T) = fs(T) + hs(T)}
<1>1. ASSUME NEW T \in SUBSET S, \A U \in SUBSET T : U # T => U \in Good
      PROVE  bs(T) = fs(T) + hs(T)
  <2>1. CASE T = {}
    <3>1. fs({}) = 0 /\ hs({}) = 0 /\ bs({}) = 0
      BY SumEmpty
    <3> HIDE DEF fs, hs, bs
    <3> QED
      BY <2>1, <3>1
  <2>2. CASE T # {}
    <3>1. PICK x \in T : TRUE
      BY <2>2
    <3>2. bs(T \ {x}) = fs(T \ {x}) + hs(T \ {x})
      BY <1>1, <3>1
    <3>3. IsFiniteSet(T) /\ IsFiniteSet(T \ {x})
      BY FS_Subset
    <3>4. \A y \in T : f[y] \in Int /\ h[y] \in Int /\ both[y] \in Int
      OBVIOUS
    <3>5. fs(T \ {x}) \in Int /\ fs(T) = f[x] + fs(T \ {x})
      BY <3>1, <3>3, <3>4, SumRemove
    <3>6. hs(T \ {x}) \in Int /\ hs(T) = h[x] + hs(T \ {x})
      BY <3>1, <3>3, <3>4, SumRemove
    <3>7. bs(T) = both[x] + bs(T \ {x})
      BY <3>1, <3>3, <3>4, SumRemove
    <3>8. f[x] \in Int /\ h[x] \in Int /\ both[x] = f[x] + h[x]
      BY <3>1
    <3> HIDE DEF fs, hs, bs
    <3> QED
      BY <3>2, <3>5, <3>6, <3>7, <3>8
  <2> QED
    BY <2>1, <2>2
<1>2. \A T \in SUBSET S :
        (\A U \in SUBSET T : U # T => U \in Good) => T \in Good
  BY <1>1
<1> HIDE DEF Good
<1>3. S \in Good
  BY <1>2, SubsetInduction
<1> QED
  BY <1>3 DEF Good
-----------------------------------------------------------------------------
(* The batch that stands for any, of Batch.                                  *)
LEMMA AnyBatchType == AnyBatch \in Batch
<1>1. PICK m \in Masks, c \in Counts, d \in Days : TRUE
  BY BatchTypes
<1>2. [by |-> Developer, mask |-> m, count |-> c, days |-> d, lifetime |-> FALSE]
        \in Batch
  BY DEF Batch, Buyers
<1> QED
  BY <1>2 DEF AnyBatch

(* The state is of its type; the sizes of batches are TLC's.                 *)
Typed == /\ store \in Stores
         /\ rows \in [Requests -> SUBSET Keys] /\ req \in [Requests -> Request]

(* The batches start in states of their types,                               *)
LEMMA TypedInit == Init => Typed
BY AnyBatchType DEF Init, Typed, Request

(* serving a request keeps the types,                                        *)
LEMMA ServeTyped ==
  ASSUME Typed, NEW r \in Requests, Serve(r)
  PROVE  Typed'
<1>1. CASE DeductCredits(r)
  BY <1>1 DEF DeductCredits, Advance, Typed, Request
<1>2. CASE BulkCreate(r)
  <2>1. req' \in [Requests -> Request] /\ store' = store
    BY <1>2 DEF BulkCreate, Advance, Typed, Request
  <2>2. rows' \in {rows, [rows EXCEPT ![r] = req[r].drawn]}
    BY <1>2 DEF BulkCreate
  <2>3. req[r].drawn \in SUBSET Keys
    BY DEF Typed, Request
  <2> QED
    BY <2>1, <2>2, <2>3 DEF Typed
<1>3. ASSUME NEW k \in Keys, DrawKey(r, k) PROVE Typed'
  <2> DEFINE pc == IF Complete(req[r].batch, req[r].drawn \cup {k})
                   THEN "create" ELSE "draw"
  <2>1. pc \in {"create", "draw"}
    OBVIOUS
  <2>2. /\ req' = [req EXCEPT ![r].drawn = req[r].drawn \cup {k}, ![r].pc = pc]
        /\ UNCHANGED <<store, rows>>
    BY <1>3 DEF DrawKey
  <2> HIDE DEF pc
  <2> QED
    BY <2>1, <2>2, ZenonT(40) DEF Typed, Request
<1> QED
  BY <1>1, <1>2, <1>3 DEF Serve

(* and so does every step.                                                   *)
LEMMA TypedStep == Typed /\ [Next]_vars => Typed'
<1> SUFFICES ASSUME Typed, [Next]_vars PROVE Typed'
  OBVIOUS
<1>1. ASSUME NEW r \in Requests, NEW b \in Batch, Order(r, b) PROVE Typed'
  BY <1>1 DEF Order, Typed, Request
<1>2. ASSUME NEW r \in Requests, NEW k \in rows[r], DeleteLicense(r, k) PROVE Typed'
  BY <1>2 DEF DeleteLicense, Typed
<1>3. CASE Restart
  BY <1>3 DEF Restart, Typed, Request
<1>4. ASSUME NEW s \in Resellers, NEW n \in Grants, AdjustCredits(s, n) PROVE Typed'
  BY <1>4 DEF AdjustCredits, Typed
<1>5. CASE UNCHANGED vars
  BY <1>5 DEF vars, Typed
<1>6. ASSUME NEW r \in Requests, DrawFails(r) PROVE Typed'
  BY <1>6 DEF DrawFails, Advance, Typed, Request
<1> QED
  BY <1>1, <1>2, <1>3, <1>4, <1>5, <1>6, ServeTyped DEF Next
-----------------------------------------------------------------------------
(* What the keys of a whole batch are worth; what a request q, whose rows    *)
(* carry keys, has issued to s or still may; and what it took from s.        *)
Value(b) == b.count * Worth(b)
Share(s, q, keys) ==
  IF q.batch.by # s THEN 0
  ELSE IF q.pc \in {"draw", "create"} THEN Value(q.batch)
  ELSE Cardinality(keys) * Worth(q.batch)
Spent(s, q) ==
  IF q.batch.by = s /\ q.pc \in {"draw", "create", "done", "failed"}
  THEN Cost(q.batch) ELSE 0
Issue(s, q, keys) ==
  IF q.batch.by = s THEN Cardinality(keys) * Worth(q.batch) ELSE 0

(* A request holds no more keys than were ordered, drawn or inserted; it     *)
(* inserts at its end only, and on the in-memory store that succeeds: there, *)
(* what failed did not insert.                                               *)
RequestOK(q, keys, st) ==
  /\ IsFiniteSet(q.drawn) /\ IsFiniteSet(keys)
  /\ Cardinality(q.drawn) <= q.batch.count
  /\ Cardinality(keys) <= q.batch.count
  /\ q.pc \in {"new", "pay"} => q.drawn = {}
  /\ q.pc = "draw" => Cardinality(q.drawn) < q.batch.count
  /\ q.pc \notin {"done", "failed"} => keys = {}
  /\ q.pc = "pay" => q.batch.by \in Resellers
  /\ st = "memory" /\ q.pc = "failed" => keys = {}

Charged(s) == SumFunctionOnSet([r \in Requests |-> Share(s, req[r], rows[r])], Requests)
SpentBy(s) == SumFunctionOnSet([r \in Requests |-> Spent(s, req[r])], Requests)
Uninterrupted(s) ==
  \A r \in Requests : req[r].batch.by = s => req[r].pc # "lost"

Balances == credits \in [Resellers -> Int] /\ granted \in [Resellers -> Int]
RequestsOK == \A r \in Requests : RequestOK(req[r], rows[r], store)

(* The inductive invariant: what a reseller's requests have issued or may    *)
(* still issue is covered by the credits it was granted and no longer has,   *)
(* while it orders days; and on the in-memory store those credits are what   *)
(* its requests took, while none was lost.                                   *)
Covered(s) == OrdersDays(s) => Charged(s) <= granted[s] - credits[s]
Exact(s) == store = "memory" /\ Uninterrupted(s) => SpentBy(s) = granted[s] - credits[s]
BatchInv == /\ Typed /\ Balances /\ RequestsOK
            /\ \A s \in Resellers : Covered(s) /\ Exact(s)

(* A dearer key, or more of them, cost more.                                 *)
LEMMA TimesMonotone ==
  ASSUME NEW a \in Nat, NEW c \in Nat, NEW b \in Nat, a <= c
  PROVE  a * b \in Nat /\ c * b \in Nat /\ a * b <= c * b
<1>1. c * b = a * b + (c - a) * b /\ (c - a) * b \in Nat /\ a * b \in Nat
  OBVIOUS
<1> QED
  BY <1>1

(* What keys are worth is a natural number, whatever their price; a batch    *)
(* sold by the day costs what its keys are worth.                            *)
LEMMA PriceTypes ==
  ASSUME NEW b \in Batch
  PROVE  /\ b.count \in Nat /\ Worth(b) \in Nat /\ Price(b) \in Int
         /\ Value(b) = b.count * Worth(b) /\ Value(b) \in Nat
         /\ Cost(b) = b.count * Price(b) /\ Cost(b) \in Int
         /\ Price(b) = Worth(b) => Cost(b) = Value(b)
<1>1. b.count \in Nat /\ b.days \in Int /\ b.lifetime \in BOOLEAN
      /\ LifetimeDays \in Nat
  BY BatchTypes DEF Batch
<1>2. Worth(b) \in Nat /\ Price(b) \in Int
  BY <1>1 DEF Worth, Price, NeverExpires
<1>3. Value(b) = b.count * Worth(b) /\ Cost(b) = b.count * Price(b)
  BY DEF Value, Cost
<1>4. b.count * Worth(b) \in Nat
  BY <1>1, <1>2, TimesMonotone
<1>5. b.count * Price(b) \in Int
  BY <1>1, <1>2
<1> QED
  BY <1>1, <1>2, <1>3, <1>4, <1>5

(* What is issued is covered by the share, and that by the whole batch.      *)
LEMMA ShareBounds ==
  ASSUME NEW q \in Request, NEW keys, NEW st, RequestOK(q, keys, st), NEW s
  PROVE  /\ Share(s, q, keys) \in Nat /\ Issue(s, q, keys) \in Nat
         /\ Spent(s, q) \in Int
         /\ Issue(s, q, keys) <= Share(s, q, keys)
         /\ Share(s, q, keys) <= Value(q.batch)
         /\ keys = {} => Issue(s, q, keys) = 0
<1> DEFINE n == Cardinality(keys)
           w == Worth(q.batch)
<1>1. q.batch \in Batch
  BY DEF Request
<1>2. q.batch.count \in Nat /\ w \in Nat /\ Value(q.batch) = q.batch.count * w
      /\ Value(q.batch) \in Nat /\ Cost(q.batch) \in Int
  BY <1>1, PriceTypes
<1>3. n \in Nat /\ n <= q.batch.count
  BY FS_CardinalityType DEF RequestOK
<1>4. n * w \in Nat /\ n * w <= Value(q.batch)
  <2> HIDE DEF n, w
  <2> QED
    BY <1>2, <1>3, TimesMonotone
<1>5. keys = {} => n * w = 0
  <2>1. keys = {} => n = 0
    BY FS_EmptySet
  <2> HIDE DEF n, w
  <2> QED
    BY <1>2, <2>1
<1>6. q.pc \in {"draw", "create"} => keys = {}
  BY DEF RequestOK
<1> QED
  BY <1>2, <1>4, <1>5, <1>6 DEF Share, Issue, Spent

(* When one request changes, so do the sums, by what that request adds.      *)
LEMMA OneRequest ==
  ASSUME Typed, RequestsOK, Typed', RequestsOK', NEW r \in Requests, NEW s,
         \A q \in Requests \ {r} : req'[q] = req[q] /\ rows'[q] = rows[q]
  PROVE  /\ Charged(s) \in Int /\ SpentBy(s) \in Int
         /\ Charged(s)' = Charged(s) + (Share(s, req'[r], rows'[r])
                                        - Share(s, req[r], rows[r]))
         /\ SpentBy(s)' = SpentBy(s) + (Spent(s, req'[r]) - Spent(s, req[r]))
<1> DEFINE f == [q \in Requests |-> Share(s, req[q], rows[q])]
           h == [q \in Requests |-> Share(s, req'[q], rows'[q])]
           k == [q \in Requests |-> Spent(s, req[q])]
           l == [q \in Requests |-> Spent(s, req'[q])]
<1>1. \A q \in Requests : /\ f[q] = Share(s, req[q], rows[q])
                          /\ h[q] = Share(s, req'[q], rows'[q])
                          /\ k[q] = Spent(s, req[q]) /\ l[q] = Spent(s, req'[q])
  OBVIOUS
<1>2. /\ Charged(s) = SumFunctionOnSet(f, Requests)
      /\ Charged(s)' = SumFunctionOnSet(h, Requests)
      /\ SpentBy(s) = SumFunctionOnSet(k, Requests)
      /\ SpentBy(s)' = SumFunctionOnSet(l, Requests)
  BY DEF Charged, SpentBy
<1>3. ASSUME NEW q \in Requests
      PROVE  /\ Share(s, req[q], rows[q]) \in Int /\ Spent(s, req[q]) \in Int
             /\ Share(s, req'[q], rows'[q]) \in Int /\ Spent(s, req'[q]) \in Int
  <2>1. req[q] \in Request /\ RequestOK(req[q], rows[q], store)
    BY DEF Typed, RequestsOK
  <2>2. req'[q] \in Request /\ RequestOK(req'[q], rows'[q], store')
    BY DEF Typed, RequestsOK
  <2> QED
    BY <2>1, <2>2, ShareBounds
<1> HIDE DEF f, h, k, l
<1>4. \A q \in Requests : /\ f[q] \in Int /\ h[q] \in Int
                          /\ k[q] \in Int /\ l[q] \in Int
  BY <1>1, <1>3
<1>5. \A q \in Requests \ {r} : f[q] = h[q] /\ k[q] = l[q]
  BY <1>1
<1>6. IsFiniteSet(Requests)
  BY FinitelyMany
<1>7. SumFunctionOnSet(h, Requests) = SumFunctionOnSet(f, Requests) + (h[r] - f[r])
  BY <1>4, <1>5, <1>6, SumUpdate
<1>8. SumFunctionOnSet(l, Requests) = SumFunctionOnSet(k, Requests) + (l[r] - k[r])
  BY <1>4, <1>5, <1>6, SumUpdate
<1>9. SumFunctionOnSet(f, Requests) \in Int /\ SumFunctionOnSet(k, Requests) \in Int
  BY <1>4, <1>6, SumRemove
<1> QED
  BY <1>1, <1>2, <1>7, <1>8, <1>9

(* A step of one request keeps the invariant when the balance pays for it.   *)
LEMMA OneRequestInv ==
  ASSUME BatchInv, Typed', Balances', store' = store, NEW r \in Requests,
         \A q \in Requests \ {r} : req'[q] = req[q] /\ rows'[q] = rows[q],
         RequestOK(req'[r], rows'[r], store),
         req[r].pc = "lost" => req'[r] = req[r],
         req[r].pc # "new" =>
           req'[r].pc # "new" /\ req'[r].batch = req[r].batch,
         \A s \in Resellers :
           /\ OrdersDays(s)' => Share(s, req'[r], rows'[r]) - Share(s, req[r], rows[r])
                <= (granted'[s] - credits'[s]) - (granted[s] - credits[s])
           /\ store = "memory" =>
                Spent(s, req'[r]) - Spent(s, req[r])
                  = (granted'[s] - credits'[s]) - (granted[s] - credits[s])
  PROVE  BatchInv'
<1>1. RequestsOK'
  BY DEF BatchInv, RequestsOK
<1>2. ASSUME NEW s \in Resellers PROVE (Covered(s) /\ Exact(s))'
  <2> DEFINE g == granted[s] - credits[s]
             gp == granted'[s] - credits'[s]
             a == Share(s, req'[r], rows'[r]) - Share(s, req[r], rows[r])
             b == Spent(s, req'[r]) - Spent(s, req[r])
  <2>1. /\ Charged(s) \in Int /\ SpentBy(s) \in Int
        /\ Charged(s)' = Charged(s) + a /\ SpentBy(s)' = SpentBy(s) + b
    BY <1>1, OneRequest DEF BatchInv
  <2>2. a \in Int /\ b \in Int
    <3>1. req[r] \in Request /\ RequestOK(req[r], rows[r], store)
      BY DEF BatchInv, Typed, RequestsOK
    <3>2. req'[r] \in Request /\ RequestOK(req'[r], rows'[r], store')
      BY <1>1 DEF Typed, RequestsOK
    <3> DEFINE c == Share(s, req'[r], rows'[r])
               d == Share(s, req[r], rows[r])
               e == Spent(s, req'[r])
               i == Spent(s, req[r])
    <3>3. c \in Int /\ d \in Int /\ e \in Int /\ i \in Int
      BY <3>1, <3>2, ShareBounds
    <3> HIDE DEF c, d, e, i
    <3>4. c - d \in Int /\ e - i \in Int
      BY <3>3
    <3> QED
      BY <3>4 DEF c, d, e, i
  <2>3. g \in Int /\ gp \in Int
    BY DEF BatchInv, Balances
  <2>4. /\ OrdersDays(s)' => a <= gp - g
        /\ store = "memory" => b = gp - g
    OBVIOUS
  <2>5. /\ OrdersDays(s) => Charged(s) <= g
        /\ store = "memory" /\ Uninterrupted(s) => SpentBy(s) = g
    BY DEF BatchInv, Covered, Exact
  <2>10. OrdersDays(s)' => OrdersDays(s)
    BY DEF OrdersDays
  <2>6. Uninterrupted(s)' => Uninterrupted(s)
    BY DEF Uninterrupted
  <2>7. /\ Covered(s)' <=> (OrdersDays(s)' => Charged(s)' <= gp)
        /\ Exact(s)' <=> (store' = "memory" /\ Uninterrupted(s)' => SpentBy(s)' = gp)
    BY DEF Covered, Exact
  <2> HIDE DEF g, gp, a, b
  <2>8. OrdersDays(s)' => Charged(s)' <= gp
    BY <2>1, <2>2, <2>3, <2>4, <2>5, <2>10
  <2>9. store = "memory" /\ Uninterrupted(s) => SpentBy(s)' = gp
    BY <2>1, <2>2, <2>3, <2>4, <2>5
  <2> QED
    BY <2>6, <2>7, <2>8, <2>9
<1> QED
  BY <1>1, <1>2 DEF BatchInv

(* A request with no rows and no draw in progress has taken nothing, one     *)
(* that draws or is about to insert counts at its whole batch.               *)
LEMMA ShareValues ==
  ASSUME NEW q \in Request, NEW s
  PROVE  /\ q.pc \notin {"draw", "create"} => Share(s, q, {}) = 0
         /\ q.pc \in {"draw", "create"} =>
              \A keys : Share(s, q, keys) = IF q.batch.by = s THEN Value(q.batch) ELSE 0
         /\ Value(q.batch) \in Nat /\ Cost(q.batch) \in Int
<1>1. Worth(q.batch) \in Nat /\ Value(q.batch) \in Nat /\ Cost(q.batch) \in Int
  BY PriceTypes DEF Request
<1>2. Cardinality({}) * Worth(q.batch) = 0
  <2>1. Cardinality({}) = 0
    BY FS_EmptySet
  <2> QED
    BY <1>1, <2>1
<1> QED
  BY <1>1, <1>2 DEF Share

(* An order keeps the invariant,                                             *)
LEMMA OrderInv ==
  ASSUME BatchInv, Typed', NEW r \in Requests, NEW b \in Batch, Order(r, b)
  PROVE  BatchInv'
<1>1. /\ req'[r].batch = b /\ req'[r].drawn = req[r].drawn
      /\ req'[r].pc = IF b.by = Developer THEN "draw" ELSE "pay"
      /\ req[r].pc = "new"
      /\ \A p \in Requests \ {r} : req'[p] = req[p]
      /\ UNCHANGED <<store, credits, rows, granted>>
  BY DEF Order, BatchInv, Typed, Request
<1>2. req[r].drawn = {} /\ rows[r] = {} /\ req[r] \in Request /\ req'[r] \in Request
  BY <1>1 DEF BatchInv, RequestsOK, RequestOK, Typed
<1>3. req'[r].pc = "pay" => b.by \in Resellers
  BY <1>1 DEF Batch, Buyers
<1>4. b.count \in Nat \ {0}
  BY BatchTypes DEF Batch
<1>5. RequestOK(req'[r], rows'[r], store)
  <2>1. IsFiniteSet({}) /\ Cardinality({}) = 0
    BY FS_EmptySet
  <2>2. Cardinality({}) <= b.count /\ Cardinality({}) < b.count
    BY <1>4, <2>1
  <2> QED
    BY <1>1, <1>2, <1>3, <2>1, <2>2 DEF RequestOK
<1>6. ASSUME NEW s \in Resellers
      PROVE  /\ Share(s, req'[r], rows'[r]) = 0 /\ Share(s, req[r], rows[r]) = 0
             /\ Spent(s, req'[r]) = 0 /\ Spent(s, req[r]) = 0
             /\ granted'[s] - credits'[s] = granted[s] - credits[s]
             /\ granted[s] - credits[s] \in Int
  <2>1. req'[r].pc = "draw" => b.by # s
    BY <1>1, BatchTypes
  <2>2. Share(s, req[r], rows[r]) = 0
    BY <1>1, <1>2, ShareValues
  <2>3. Share(s, req'[r], rows'[r]) = 0
    BY <1>1, <1>2, <2>1, ShareValues
  <2>4. granted[s] - credits[s] \in Int
    BY DEF BatchInv, Balances
  <2> QED
    BY <1>1, <2>1, <2>2, <2>3, <2>4 DEF Spent
<1>7. Balances'
  BY <1>1 DEF BatchInv, Balances
<1> QED
  BY <1>1, <1>5, <1>6, <1>7, OneRequestInv

(* so does the deduction of credits,                                         *)
LEMMA DeductCreditsInv ==
  ASSUME BatchInv, Typed', NEW r \in Requests, DeductCredits(r)
  PROVE  BatchInv'
<1> DEFINE b == req[r].batch
           c == Cost(b)
           v == Value(b)
<1>1. /\ req[r] \in Request /\ req'[r] \in Request /\ req[r].pc = "pay"
      /\ req'[r].batch = b /\ req'[r].drawn = req[r].drawn
      /\ \A p \in Requests \ {r} : req'[p] = req[p]
      /\ UNCHANGED <<store, rows, granted>>
  BY DEF DeductCredits, Advance, BatchInv, Typed, Request
<1>2. /\ req[r].drawn = {} /\ rows[r] = {} /\ b.by \in Resellers
      /\ IsFiniteSet({}) /\ Cardinality({}) = 0
  BY <1>1, FS_EmptySet DEF BatchInv, RequestsOK, RequestOK
<1>3. c \in Int /\ v \in Nat /\ b.count \in Nat \ {0}
  BY <1>1, ShareValues, BatchTypes DEF Request, Batch
<1>4. \/ req'[r].pc = "draw" /\ credits' = [credits EXCEPT ![b.by] = @ - c]
      \/ req'[r].pc = "refused" /\ credits' = credits
      \/ req'[r].pc = "refused" /\ store = "sql"
           /\ credits' = [credits EXCEPT ![b.by] = @ - c]
  BY DEF DeductCredits, Advance, BatchInv, Typed, Request
<1>5. credits \in [Resellers -> Int] /\ granted \in [Resellers -> Int]
  BY DEF BatchInv, Balances
<1>6. Balances'
  BY <1>1, <1>2, <1>3, <1>4, <1>5 DEF Balances
<1>7. RequestOK(req'[r], rows'[r], store)
  <2>1. Cardinality({}) <= b.count /\ Cardinality({}) < b.count
    BY <1>2, <1>3
  <2> QED
    BY <1>1, <1>2, <1>4, <2>1 DEF RequestOK
<1>8. ASSUME NEW s \in Resellers
      PROVE  /\ OrdersDays(s)' => Share(s, req'[r], rows'[r]) - Share(s, req[r], rows[r])
                  <= (granted'[s] - credits'[s]) - (granted[s] - credits[s])
             /\ store = "memory" =>
                  Spent(s, req'[r]) - Spent(s, req[r])
                    = (granted'[s] - credits'[s]) - (granted[s] - credits[s])
  <2> DEFINE paid == IF b.by = s THEN c ELSE 0
             due  == IF b.by = s THEN v ELSE 0
  <2>1. Share(s, req[r], rows[r]) = 0 /\ Spent(s, req[r]) = 0
    BY <1>1, <1>2, ShareValues DEF Spent
  <2>2. \/ credits'[s] = credits[s] - paid
        \/ /\ credits'[s] = credits[s] /\ req'[r].pc = "refused"
    BY <1>3, <1>4, <1>5
  <2>3. IF req'[r].pc = "draw"
        THEN Share(s, req'[r], rows'[r]) = due /\ Spent(s, req'[r]) = paid
        ELSE Share(s, req'[r], rows'[r]) = 0 /\ Spent(s, req'[r]) = 0
    BY <1>1, <1>2, <1>4, ShareValues DEF Spent
  <2>4. /\ req'[r].pc = "draw" => credits'[s] = credits[s] - paid
        /\ req'[r].pc # "draw" /\ store = "memory" => credits'[s] = credits[s]
    BY <1>3, <1>4, <1>5
  <2>5. /\ paid \in Int /\ due \in Nat /\ credits[s] \in Int /\ granted[s] \in Int
        /\ granted'[s] = granted[s]
    BY <1>1, <1>3, <1>5
  <2>8. OrdersDays(s)' => paid = due
    <3>1. OrdersDays(s)' /\ b.by = s => Price(b) = Worth(b)
      BY <1>1, <1>4 DEF OrdersDays
    <3>2. Price(b) = Worth(b) => c = v
      BY <1>1, PriceTypes DEF Request
    <3> QED
      BY <3>1, <3>2
  <2> HIDE DEF paid, due, c, v
  <2>6. CASE req'[r].pc = "draw"
    BY <2>1, <2>3, <2>4, <2>5, <2>6, <2>8
  <2>7. CASE req'[r].pc # "draw"
    BY <2>1, <2>2, <2>3, <2>4, <2>5, <2>7, <2>8
  <2> QED
    BY <2>6, <2>7
<1> HIDE DEF c, v
<1> QED
  BY <1>1, <1>4, <1>6, <1>7, <1>8, OneRequestInv

(* the draw of a key,                                                        *)
LEMMA DrawKeyInv ==
  ASSUME BatchInv, Typed', NEW r \in Requests, NEW k \in Keys, DrawKey(r, k)
  PROVE  BatchInv'
<1> DEFINE b == req[r].batch
           drawn == req[r].drawn \cup {k}
<1>1. /\ req[r] \in Request /\ req'[r] \in Request /\ req[r].pc = "draw"
      /\ req'[r].batch = b /\ req'[r].drawn = drawn
      /\ req'[r].pc = IF Cardinality(drawn) >= b.count THEN "create" ELSE "draw"
      /\ \A p \in Requests \ {r} : req'[p] = req[p]
      /\ k \notin req[r].drawn
      /\ UNCHANGED <<store, credits, rows, granted>>
  BY DEF DrawKey, Complete, BatchInv, Typed, Request
<1>2. /\ rows[r] = {} /\ IsFiniteSet(req[r].drawn)
      /\ Cardinality(req[r].drawn) < b.count
      /\ IsFiniteSet(rows[r]) /\ Cardinality(rows[r]) <= b.count
  BY <1>1 DEF BatchInv, RequestsOK, RequestOK
<1>3. b.count \in Nat
  BY <1>1, BatchTypes DEF Request, Batch
<1>4. /\ IsFiniteSet(drawn) /\ Cardinality(drawn) = Cardinality(req[r].drawn) + 1
      /\ Cardinality(req[r].drawn) \in Nat
  BY <1>1, <1>2, FS_AddElement, FS_CardinalityType
<1>5. /\ Cardinality(drawn) <= b.count
      /\ Cardinality(drawn) >= b.count \/ Cardinality(drawn) < b.count
  <2> DEFINE n == Cardinality(req[r].drawn)
             m == Cardinality(drawn)
  <2>1. n \in Nat /\ m = n + 1 /\ n < b.count
    BY <1>2, <1>4
  <2> HIDE DEF n, m
  <2>2. m <= b.count /\ (m >= b.count \/ m < b.count)
    BY <1>3, <2>1
  <2> QED
    BY <2>2 DEF m
<1> HIDE DEF drawn
<1>6. RequestOK(req'[r], rows'[r], store)
  BY <1>1, <1>2, <1>4, <1>5 DEF RequestOK
<1>7. ASSUME NEW s \in Resellers
      PROVE  /\ Share(s, req'[r], rows'[r]) = Share(s, req[r], rows[r])
             /\ Spent(s, req'[r]) = Spent(s, req[r])
             /\ Share(s, req[r], rows[r]) \in Int /\ Spent(s, req[r]) \in Int
             /\ granted[s] - credits[s] \in Int
  <2>1. Share(s, req[r], rows[r]) = IF b.by = s THEN Value(b) ELSE 0
    BY <1>1, ShareValues
  <2>2. Share(s, req'[r], rows'[r]) = IF b.by = s THEN Value(b) ELSE 0
    BY <1>1, ShareValues
  <2>3. Spent(s, req'[r]) = Spent(s, req[r]) /\ Spent(s, req[r]) \in Int
    BY <1>1, ShareValues DEF Spent
  <2>4. granted[s] - credits[s] \in Int
    BY DEF BatchInv, Balances
  <2> QED
    BY <1>1, <2>1, <2>2, <2>3, <2>4, ShareValues
<1>8. Balances'
  BY <1>1 DEF BatchInv, Balances
<1>9. ASSUME NEW s \in Resellers
      PROVE  /\ Share(s, req'[r], rows'[r]) - Share(s, req[r], rows[r])
                  <= (granted'[s] - credits'[s]) - (granted[s] - credits[s])
             /\ store = "memory" =>
                  Spent(s, req'[r]) - Spent(s, req[r])
                    = (granted'[s] - credits'[s]) - (granted[s] - credits[s])
  BY <1>1, <1>7
<1> QED
  BY <1>1, <1>6, <1>8, <1>9, OneRequestInv

(* its failure, which takes the price of the batch for nothing,              *)
LEMMA DrawFailsInv ==
  ASSUME BatchInv, Typed', NEW r \in Requests, DrawFails(r)
  PROVE  BatchInv'
<1>1. /\ req[r] \in Request /\ req'[r] \in Request
      /\ req[r].pc = "draw" /\ req'[r].pc = "failed"
      /\ req'[r].batch = req[r].batch /\ req'[r].drawn = req[r].drawn
      /\ \A p \in Requests \ {r} : req'[p] = req[p]
      /\ UNCHANGED <<store, credits, rows, granted>>
  BY DEF DrawFails, Advance, BatchInv, Typed, Request
<1>2. rows[r] = {} /\ RequestOK(req[r], rows[r], store)
  BY <1>1 DEF BatchInv, RequestsOK, RequestOK
<1>3. RequestOK(req'[r], rows'[r], store)
  BY <1>1, <1>2 DEF RequestOK
<1>4. Balances'
  BY <1>1 DEF BatchInv, Balances
<1>5. ASSUME NEW s \in Resellers
      PROVE  /\ Share(s, req'[r], rows'[r]) - Share(s, req[r], rows[r])
                  <= (granted'[s] - credits'[s]) - (granted[s] - credits[s])
             /\ Spent(s, req'[r]) - Spent(s, req[r])
                  = (granted'[s] - credits'[s]) - (granted[s] - credits[s])
  <2> DEFINE old == Share(s, req[r], rows[r])
             new == Share(s, req'[r], rows'[r])
             took == Spent(s, req[r])
             g == granted[s] - credits[s]
  <2>1. new = 0
    BY <1>1, <1>2, ShareValues
  <2>2. old \in Nat /\ took \in Int
    BY <1>1, <1>2, ShareBounds
  <2>3. Spent(s, req'[r]) = took
    BY <1>1 DEF Spent
  <2>4. g \in Int /\ granted'[s] - credits'[s] = g
    BY <1>1 DEF BatchInv, Balances
  <2> HIDE DEF old, new, took, g
  <2>5. new - old <= g - g /\ took - took = g - g
    BY <2>1, <2>2, <2>4
  <2> QED
    BY <2>3, <2>4, <2>5 DEF old, new, took, g
<1> QED
  BY <1>1, <1>3, <1>4, <1>5, OneRequestInv

(* the insertion of the batch,                                               *)
LEMMA BulkCreateInv ==
  ASSUME BatchInv, Typed', NEW r \in Requests, BulkCreate(r)
  PROVE  BatchInv'
<1> DEFINE b == req[r].batch
<1>1. /\ req[r] \in Request /\ req'[r] \in Request /\ req[r].pc = "create"
      /\ req'[r].batch = b /\ req'[r].drawn = req[r].drawn
      /\ \A p \in Requests \ {r} : req'[p] = req[p] /\ rows'[p] = rows[p]
      /\ UNCHANGED <<store, credits, granted>>
  BY DEF BulkCreate, Advance, BatchInv, Typed, Request
<1>2. /\ req'[r].pc \in {"done", "failed"} /\ rows'[r] \in {rows[r], req[r].drawn}
      /\ store = "memory" => req'[r].pc = "done"
  BY BatchTypes DEF BulkCreate, Advance, Refused, BatchInv, Typed, Request
<1>3. /\ IsFiniteSet(req[r].drawn) /\ Cardinality(req[r].drawn) <= b.count
      /\ IsFiniteSet(rows[r]) /\ Cardinality(rows[r]) <= b.count
  BY <1>1 DEF BatchInv, RequestsOK, RequestOK
<1>4. RequestOK(req'[r], rows'[r], store)
  BY <1>1, <1>2, <1>3 DEF RequestOK
<1>5. ASSUME NEW s \in Resellers
      PROVE  /\ Share(s, req'[r], rows'[r]) - Share(s, req[r], rows[r])
                  <= (granted'[s] - credits'[s]) - (granted[s] - credits[s])
             /\ store = "memory" =>
                  Spent(s, req'[r]) - Spent(s, req[r])
                    = (granted'[s] - credits'[s]) - (granted[s] - credits[s])
  <2> DEFINE old == Share(s, req[r], rows[r])
             new == Share(s, req'[r], rows'[r])
             g == granted[s] - credits[s]
  <2>1. old = IF b.by = s THEN Value(b) ELSE 0
    BY <1>1, ShareValues
  <2>2. new \in Nat /\ new <= Value(b)
    BY <1>1, <1>4, ShareBounds
  <2>3. b.by # s => new = 0
    BY <1>1 DEF Share
  <2>4. Value(b) \in Nat /\ Cost(b) \in Int
    BY <1>1, ShareValues
  <2>5. /\ g \in Int /\ granted'[s] - credits'[s] = g
    BY <1>1 DEF BatchInv, Balances
  <2>6. store = "memory" => Spent(s, req'[r]) = Spent(s, req[r])
    BY <1>1, <1>2 DEF Spent
  <2>7. Spent(s, req[r]) \in Int
    BY <2>4 DEF Spent
  <2> HIDE DEF old, new, g, b
  <2>8. new - old <= g - g
    BY <2>1, <2>2, <2>3, <2>4, <2>5
  <2>9. store = "memory" => Spent(s, req'[r]) - Spent(s, req[r]) = g - g
    BY <2>5, <2>6, <2>7
  <2> QED
    BY <2>5, <2>8, <2>9 DEF old, new, g
<1>6. Balances'
  BY <1>1 DEF BatchInv, Balances
<1> QED
  BY <1>1, <1>2, <1>4, <1>5, <1>6, OneRequestInv

(* the deletion of a license,                                                *)
LEMMA DeleteLicenseInv ==
  ASSUME BatchInv, Typed', NEW r \in Requests, NEW k \in rows[r], DeleteLicense(r, k)
  PROVE  BatchInv'
<1> DEFINE left == rows[r] \ {k}
<1>1. /\ req[r] \in Request /\ rows'[r] = left
      /\ \A p \in Requests \ {r} : rows'[p] = rows[p]
      /\ UNCHANGED <<store, credits, req, granted>>
  BY DEF DeleteLicense, BatchInv, Typed
<1>2. RequestOK(req[r], rows[r], store) /\ req[r].pc \in {"done", "failed"}
  BY DEF BatchInv, RequestsOK, RequestOK
<1>3. /\ IsFiniteSet(left) /\ Cardinality(left) \in Nat
      /\ Cardinality(rows[r]) \in Nat /\ Cardinality(left) <= Cardinality(rows[r])
  BY <1>2, FS_Subset, FS_CardinalityType DEF RequestOK
<1>4. req[r].batch.count \in Nat /\ Worth(req[r].batch) \in Nat
  BY <1>1, PriceTypes DEF Request
<1> HIDE DEF left
<1>5. RequestOK(req'[r], rows'[r], store)
  <2>1. Cardinality(left) <= req[r].batch.count
    BY <1>2, <1>3, <1>4 DEF RequestOK
  <2> QED
    BY <1>1, <1>2, <1>3, <2>1 DEF RequestOK
<1>6. ASSUME NEW s \in Resellers
      PROVE  /\ Share(s, req'[r], rows'[r]) - Share(s, req[r], rows[r])
                  <= (granted'[s] - credits'[s]) - (granted[s] - credits[s])
             /\ store = "memory" =>
                  Spent(s, req'[r]) - Spent(s, req[r])
                    = (granted'[s] - credits'[s]) - (granted[s] - credits[s])
  <2> DEFINE old == Share(s, req[r], rows[r])
             new == Share(s, req'[r], rows'[r])
             g == granted[s] - credits[s]
  <2>1. old \in Nat /\ Spent(s, req[r]) \in Int
    BY <1>1, <1>2, ShareBounds
  <2>2. Cardinality(left) * Worth(req[r].batch) <=
          Cardinality(rows[r]) * Worth(req[r].batch)
    BY <1>3, <1>4, TimesMonotone
  <2>3. new \in Nat
    BY <1>1, <1>5, ShareBounds
  <2>4. new <= old
    BY <1>1, <1>2, <2>1, <2>2 DEF Share
  <2>5. g \in Int /\ granted'[s] - credits'[s] = g
    BY <1>1 DEF BatchInv, Balances
  <2> HIDE DEF old, new, g
  <2>6. new - old <= g - g
    BY <2>1, <2>3, <2>4, <2>5
  <2>7. Spent(s, req'[r]) - Spent(s, req[r]) = g - g
    BY <1>1, <2>1, <2>5
  <2> QED
    BY <2>5, <2>6, <2>7 DEF old, new, g
<1>7. Balances'
  BY <1>1 DEF BatchInv, Balances
<1> QED
  BY <1>1, <1>5, <1>6, <1>7, OneRequestInv

(* and the grant of credits.                                                 *)
LEMMA AdjustCreditsInv ==
  ASSUME BatchInv, Typed', NEW s \in Resellers, NEW n \in Grants, AdjustCredits(s, n)
  PROVE  BatchInv'
<1>1. /\ n \in Int /\ credits \in [Resellers -> Int] /\ granted \in [Resellers -> Int]
      /\ credits' = [credits EXCEPT ![s] = @ + n]
      /\ granted' = [granted EXCEPT ![s] = @ + n]
      /\ UNCHANGED <<store, rows, req>>
  BY BatchTypes DEF AdjustCredits, BatchInv, Balances
<1>2. Balances'
  BY <1>1 DEF Balances
<1>3. ASSUME NEW t \in Resellers PROVE (Covered(t) /\ Exact(t))'
  <2>1. granted'[t] - credits'[t] = granted[t] - credits[t]
    BY <1>1
  <2>2. /\ Charged(t)' = Charged(t) /\ SpentBy(t)' = SpentBy(t)
        /\ Uninterrupted(t)' <=> Uninterrupted(t)
        /\ OrdersDays(t)' <=> OrdersDays(t)
    BY <1>1 DEF Charged, SpentBy, Uninterrupted, OrdersDays
  <2> QED
    BY <1>1, <2>1, <2>2 DEF BatchInv, Covered, Exact
<1>4. RequestsOK'
  BY <1>1 DEF BatchInv, RequestsOK
<1> QED
  BY <1>2, <1>3, <1>4 DEF BatchInv

(* A stop ends what was in progress: it will issue nothing any more, so the  *)
(* shares fall, and the credits no longer match what was taken.              *)
LEMMA RestartInv ==
  ASSUME BatchInv, Typed', Restart
  PROVE  BatchInv'
<1>1. UNCHANGED <<store, credits, rows, granted>>
  BY DEF Restart
<1>2. ASSUME NEW r \in Requests
      PROVE  /\ req[r] \in Request /\ req'[r] \in Request
             /\ req'[r].batch = req[r].batch /\ req'[r].drawn = req[r].drawn
             /\ IF req[r].pc \in {"pay", "draw", "create"}
                THEN req'[r].pc = "lost" ELSE req'[r] = req[r]
             /\ RequestOK(req[r], rows[r], store)
  BY DEF Restart, BatchInv, Typed, Request, RequestsOK
<1>3. ASSUME NEW r \in Requests PROVE RequestOK(req'[r], rows'[r], store')
  <2>1. CASE req'[r] = req[r]
    BY <1>1, <1>2, <2>1
  <2>2. CASE req'[r].pc = "lost" /\ req[r].pc \in {"pay", "draw", "create"}
    BY <1>1, <1>2, <2>2 DEF RequestOK
  <2> QED
    BY <1>2, <2>1, <2>2
<1>4. RequestsOK'
  BY <1>3 DEF RequestsOK
<1>5. Balances'
  BY <1>1 DEF BatchInv, Balances
<1>6. IsFiniteSet(Requests)
  BY FinitelyMany
<1>7. ASSUME NEW s \in Resellers PROVE Covered(s)'
  <2> DEFINE f == [r \in Requests |-> Share(s, req'[r], rows'[r])]
             h == [r \in Requests |-> Share(s, req[r], rows[r])]
  <2>1. ASSUME NEW r \in Requests
        PROVE  /\ f[r] \in Int /\ h[r] \in Int /\ f[r] <= h[r]
    <3>1. Share(s, req[r], rows[r]) \in Nat /\ Share(s, req'[r], rows'[r]) \in Nat
      BY <1>2, <1>3, ShareBounds
    <3>2. Share(s, req'[r], rows'[r]) <= Share(s, req[r], rows[r])
      <4>1. CASE req'[r] = req[r]
        BY <1>1, <3>1, <4>1
      <4>2. CASE req'[r].pc = "lost" /\ req[r].pc \in {"pay", "draw", "create"}
        <5>1. rows'[r] = {}
          BY <1>1, <1>2, <4>2 DEF RequestOK
        <5>2. Share(s, req'[r], rows'[r]) = 0
          BY <1>2, <4>2, <5>1, ShareValues
        <5> QED
          BY <3>1, <5>2
      <4> QED
        BY <1>2, <4>1, <4>2
    <3> QED
      BY <3>1, <3>2
  <2>2. Charged(s) = SumFunctionOnSet(h, Requests)
        /\ Charged(s)' = SumFunctionOnSet(f, Requests)
    BY DEF Charged
  <2> HIDE DEF f, h
  <2>3. SumFunctionOnSet(f, Requests) <= SumFunctionOnSet(h, Requests)
    BY <1>6, <2>1, SumMonotone
  <2>4. SumFunctionOnSet(f, Requests) \in Int /\ SumFunctionOnSet(h, Requests) \in Int
    BY <1>6, <2>1, SumRemove
  <2>5. OrdersDays(s)' => OrdersDays(s)
    BY <1>2 DEF OrdersDays
  <2>6. /\ OrdersDays(s)' => Charged(s) <= granted[s] - credits[s]
        /\ granted[s] - credits[s] \in Int
    BY <2>5 DEF BatchInv, Covered, Balances
  <2>7. OrdersDays(s)' => Charged(s)' <= granted[s] - credits[s]
    BY <2>2, <2>3, <2>4, <2>6
  <2> QED
    BY <1>1, <2>7 DEF Covered
<1>8. ASSUME NEW s \in Resellers PROVE Exact(s)'
  <2> SUFFICES ASSUME store' = "memory", Uninterrupted(s)'
               PROVE  SpentBy(s)' = granted'[s] - credits'[s]
    BY DEF Exact
  <2>1. ASSUME NEW r \in Requests PROVE Spent(s, req'[r]) = Spent(s, req[r])
    BY <1>2 DEF Uninterrupted, Spent
  <2>2. Uninterrupted(s)
    BY <1>2 DEF Uninterrupted
  <2>3. SpentBy(s)' = SpentBy(s)
    BY <2>1 DEF SpentBy
  <2> QED
    BY <1>1, <2>2, <2>3 DEF BatchInv, Exact
<1> QED
  BY <1>4, <1>5, <1>7, <1>8 DEF BatchInv

(* The invariant of the batches holds at first,                              *)
LEMMA BatchInvInit == Init => BatchInv
<1> SUFFICES ASSUME Init PROVE BatchInv
  OBVIOUS
<1>1. Typed
  BY TypedInit
<1>2. Balances
  BY DEF Init, Balances
<1>3. ASSUME NEW r \in Requests
      PROVE  /\ req[r] \in Request /\ rows[r] = {}
             /\ req[r].pc = "new" /\ req[r].drawn = {}
             /\ RequestOK(req[r], rows[r], store)
  <2>1. req[r].batch.count \in Nat \ {0}
    BY <1>1, BatchTypes DEF Typed, Request, Batch
  <2>2. IsFiniteSet({}) /\ Cardinality({}) = 0
    BY FS_EmptySet
  <2>3. req[r].pc = "new" /\ req[r].drawn = {} /\ rows[r] = {}
    BY DEF Init
  <2> QED
    BY <1>1, <2>1, <2>2, <2>3 DEF RequestOK, Typed
<1>4. ASSUME NEW s \in Resellers
      PROVE  Charged(s) = 0 /\ SpentBy(s) = 0 /\ granted[s] - credits[s] = 0
  <2> DEFINE z == [r \in Requests |-> 0]
  <2>1. Charged(s) = SumFunctionOnSet(z, Requests)
    <3>1. ASSUME NEW r \in Requests PROVE Share(s, req[r], rows[r]) = 0
      <4>1. req[r].pc \notin {"draw", "create"} /\ rows[r] = {} /\ req[r] \in Request
        BY <1>3
      <4> QED
        BY <4>1, ShareValues
    <3> QED
      BY <3>1 DEF Charged
  <2>2. SpentBy(s) = SumFunctionOnSet(z, Requests)
    <3>1. \A r \in Requests : Spent(s, req[r]) = 0
      BY <1>3 DEF Spent
    <3> QED
      BY <3>1 DEF SpentBy
  <2>3. SumFunctionOnSet(z, Requests) = 0
    <3>1. \A r \in Requests : z[r] = 0
      OBVIOUS
    <3> HIDE DEF z
    <3> QED
      BY <3>1, FinitelyMany, SumZero
  <2>4. granted[s] - credits[s] = 0
    BY DEF Init
  <2> QED
    BY <2>1, <2>2, <2>3, <2>4
<1>5. \A r \in Requests : RequestOK(req[r], rows[r], store)
  BY <1>3
<1>6. ASSUME NEW s \in Resellers PROVE Covered(s) /\ Exact(s)
  BY <1>4 DEF Covered, Exact
<1> QED
  BY <1>1, <1>2, <1>5, <1>6 DEF BatchInv, RequestsOK

(* every step keeps it,                                                      *)
LEMMA BatchInvStep == BatchInv /\ [Next]_vars => BatchInv'
<1> SUFFICES ASSUME BatchInv, [Next]_vars PROVE BatchInv'
  OBVIOUS
<1>1. Typed'
  BY TypedStep DEF BatchInv
<1>2. ASSUME NEW r \in Requests, Serve(r) PROVE BatchInv'
  BY <1>1, <1>2, DeductCreditsInv, BulkCreateInv, DrawKeyInv DEF Serve
<1>3. ASSUME NEW r \in Requests, NEW b \in Batch, Order(r, b) PROVE BatchInv'
  BY <1>1, <1>3, OrderInv
<1>4. ASSUME NEW r \in Requests, NEW k \in rows[r], DeleteLicense(r, k) PROVE BatchInv'
  BY <1>1, <1>4, DeleteLicenseInv
<1>5. ASSUME NEW s \in Resellers, NEW n \in Grants, AdjustCredits(s, n) PROVE BatchInv'
  BY <1>1, <1>5, AdjustCreditsInv
<1>6. CASE Restart
  BY <1>1, <1>6, RestartInv
<1>7. CASE UNCHANGED vars
  BY <1>7 DEF vars, BatchInv, Typed, Balances, RequestsOK, Covered, Exact,
               Charged, SpentBy, Uninterrupted, OrdersDays
<1>8. ASSUME NEW r \in Requests, DrawFails(r) PROVE BatchInv'
  BY <1>1, <1>8, DrawFailsInv
<1> QED
  BY <1>2, <1>3, <1>4, <1>5, <1>6, <1>7, <1>8 DEF Next

(* so it always holds.                                                       *)
LEMMA Batches == Spec => []BatchInv
BY BatchInvInit, BatchInvStep, PTL DEF Spec

(* The state keeps its type, and no batch draws more keys than were ordered. *)
THEOREM TypeCorrect == Spec => []TypeOK
<1>1. BatchInv => TypeOK
  BY DEF BatchInv, Typed, Balances, RequestsOK, RequestOK, TypeOK
<1> QED
  BY <1>1, Batches, PTL

(* For any number of resellers, concurrent batches, top-ups, failures and    *)
(* restarts and for any integers as days, the keys of a reseller that orders *)
(* durations of at least a day are worth no more than the credits it was     *)
(* granted and no longer has.                                                *)
THEOREM KeysPaid == Spec => []KeysArePaid
<1>1. ASSUME BatchInv, NEW s \in Resellers, OrdersDays(s)
      PROVE  Issued(s) <= granted[s] - credits[s]
  <2> DEFINE f == [r \in Requests |-> Issue(s, req[r], rows[r])]
             h == [r \in Requests |-> Share(s, req[r], rows[r])]
  <2>1. ASSUME NEW r \in Requests
        PROVE  f[r] \in Int /\ h[r] \in Int /\ f[r] <= h[r]
    <3>1. req[r] \in Request /\ RequestOK(req[r], rows[r], store)
      BY <1>1 DEF BatchInv, Typed, RequestsOK
    <3>2. /\ Issue(s, req[r], rows[r]) \in Nat /\ Share(s, req[r], rows[r]) \in Nat
          /\ Issue(s, req[r], rows[r]) <= Share(s, req[r], rows[r])
      BY <3>1, ShareBounds
    <3> QED
      BY <3>2
  <2>2. Issued(s) = SumFunctionOnSet(f, Requests)
    BY DEF Issued, Issue, SumFunction
  <2>3. Charged(s) = SumFunctionOnSet(h, Requests)
    BY DEF Charged
  <2> HIDE DEF f, h
  <2>4. /\ SumFunctionOnSet(f, Requests) <= SumFunctionOnSet(h, Requests)
        /\ SumFunctionOnSet(f, Requests) \in Int /\ SumFunctionOnSet(h, Requests) \in Int
    <3>1. IsFiniteSet(Requests)
      BY FinitelyMany
    <3>2. SumFunctionOnSet(f, Requests) <= SumFunctionOnSet(h, Requests)
      BY <2>1, <3>1, SumMonotone
    <3> QED
      BY <2>1, <3>1, <3>2, SumRemove
  <2>5. Charged(s) <= granted[s] - credits[s] /\ granted[s] - credits[s] \in Int
    BY <1>1 DEF BatchInv, Covered, Balances
  <2> QED
    BY <2>2, <2>3, <2>4, <2>5
<1>2. BatchInv => KeysArePaid
  BY <1>1 DEF KeysArePaid
<1> QED
  BY <1>2, Batches, PTL

(* On the in-memory store, when the batches of a reseller have come to an    *)
(* end, none of them interrupted, its credits have paid for the keys it      *)
(* holds and for the batches whose draw failed, and for nothing else.        *)
THEOREM OnlyFailuresCost == Spec => []OnlyFailuresForfeit
<1>1. ASSUME BatchInv, store = "memory", NEW s \in Resellers, Settled(s)
      PROVE  Sold(s) + Forfeited(s) = granted[s] - credits[s]
  <2> DEFINE sold == [r \in Requests |-> IF req[r].batch.by = s
                        THEN Cardinality(rows[r]) * Price(req[r].batch) ELSE 0]
             lost == [r \in Requests |-> IF req[r].batch.by = s /\ req[r].pc = "failed"
                        THEN Cost(req[r].batch) ELSE 0]
             took == [r \in Requests |-> Spent(s, req[r])]
  <2>1. ASSUME NEW r \in Requests
        PROVE  sold[r] \in Int /\ lost[r] \in Int /\ took[r] = sold[r] + lost[r]
    <3>1. req[r] \in Request /\ RequestOK(req[r], rows[r], store)
      BY <1>1 DEF BatchInv, Typed, RequestsOK
    <3>2. /\ Price(req[r].batch) \in Int /\ Cost(req[r].batch) \in Int
          /\ Cost(req[r].batch) = req[r].batch.count * Price(req[r].batch)
      BY <3>1, PriceTypes DEF Request
    <3>3. CASE req[r].batch.by # s
      BY <3>3 DEF Spent
    <3>4. CASE req[r].batch.by = s /\ req[r].pc \in {"new", "refused", "failed"}
      <4>1. Cardinality(rows[r]) = 0
        BY <1>1, <3>1, <3>4, FS_EmptySet DEF RequestOK
      <4>2. Cardinality(rows[r]) * Price(req[r].batch) = 0
        BY <3>2, <4>1
      <4> QED
        BY <3>2, <3>4, <4>2 DEF Spent
    <3>5. CASE /\ req[r].batch.by = s /\ req[r].pc = "done"
               /\ Cardinality(rows[r]) = req[r].batch.count
      BY <3>2, <3>5 DEF Spent
    <3> QED
      BY <1>1, <3>3, <3>4, <3>5 DEF Settled
  <2>2. /\ Sold(s) = SumFunctionOnSet(sold, Requests)
        /\ Forfeited(s) = SumFunctionOnSet(lost, Requests)
        /\ SpentBy(s) = SumFunctionOnSet(took, Requests)
    BY DEF Sold, Forfeited, SpentBy, SumFunction
  <2>3. IsFiniteSet(Requests)
    BY FinitelyMany
  <2> HIDE DEF sold, lost, took
  <2>4. SpentBy(s) = Sold(s) + Forfeited(s)
    BY <2>1, <2>2, <2>3, SumPlus
  <2>5. Uninterrupted(s)
    BY <1>1 DEF Uninterrupted, Settled
  <2> QED
    BY <1>1, <2>4, <2>5 DEF BatchInv, Exact
<1>2. BatchInv => OnlyFailuresForfeit
  BY <1>1 DEF OnlyFailuresForfeit
<1> QED
  BY <1>2, Batches, PTL
-----------------------------------------------------------------------------
(* THE RATE LIMITER *)

(* The requests of a log f, from the instant a to the instant n.             *)
Since(n, a) == {t \in 0 .. n : t >= a}
Total(f, n, a) == SumFunctionOnSet(f, Since(n, a))

(* A counter of the memory cache, started at s: what was admitted since then *)
(* is counted, and together with the counter before it it stays below two    *)
(* limits; a key without a counter admitted little in the last window.       *)
MemoryOK(c, h, d, n) ==
  /\ c.expires = -1 => Total(d, n, n - Window) <= MaxRequests /\ Total(d, n, n) = 0
  /\ c.expires # -1 =>
       LET s == c.expires - Window IN
       /\ Total(d, n, s) <= c.count /\ Total(d, n, s) <= MaxRequests
       /\ Total(d, n, s - Window) <= MaxRequests + c.count
       /\ Total(d, n, s - Window) <= 2 * MaxRequests
       /\ Total(d, n, c.expires) = 0
       /\ c.count <= Total(h, n, s)

(* From first to last no window without a request.                           *)
Train(h, n, first, last) ==
  \A t \in first .. last - 1 : \E u \in t + 1 .. n : u <= t + Window /\ h[u] > 0

(* A counter of Redis lives for a window after the last request it counted;  *)
(* it counts every request admitted in the window that ends now.             *)
RedisOK(c, h, d, n) ==
  /\ c.expires = -1 => Total(d, n, n - Window + 1) = 0
  /\ c.expires # -1 =>
       /\ Total(d, n, c.expires - Window + 1) = 0
       /\ n <= c.expires =>
            /\ Total(d, n, n - Window + 1) <= c.count
            /\ Total(d, n, n - Window + 1) <= MaxRequests
            /\ \E first \in 0 .. n : /\ c.count <= Total(h, n, first)
                                     /\ Train(h, n, first, c.expires - Window)

Log(f, n) == f \in [Times -> Nat] /\ \A t \in Times : t > n => f[t] = 0
Counter == [count : Nat, expires : Int]
CounterOK(c, n) ==
  c \in Counter /\ (c.expires = -1 \/ (Window <= c.expires /\ c.expires <= n + Window))

KeyOK(engine, c, h, d, n) ==
  /\ CounterOK(c, n) /\ Log(h, n) /\ Log(d, n)
  /\ engine = "redis" => RedisOK(c, h, d, n)
  /\ engine = "memory" => MemoryOK(c, h, d, n)

LimiterInv ==
  /\ cache \in {"memory", "redis"} /\ now \in Times
  /\ counter \in [RateKeys -> Counter]
  /\ hits \in [RateKeys -> [Times -> Nat]]
  /\ admitted \in [RateKeys -> [Times -> Nat]]
  /\ \A k \in RateKeys : KeyOK(cache, counter[k], hits[k], admitted[k], now)

(* A part of a sum of natural numbers is at most the whole.                  *)
LEMMA SumPart ==
  ASSUME NEW S, IsFiniteSet(S), NEW T \in SUBSET S, NEW f, \A x \in S : f[x] \in Nat
  PROVE  /\ SumFunctionOnSet(f, T) \in Nat
         /\ SumFunctionOnSet(f, T) <= SumFunctionOnSet(f, S)
<1>1. IsFiniteSet(T) /\ \A U \in SUBSET S : IsFiniteSet(U)
  BY FS_Subset
<1>2. ASSUME NEW U \in SUBSET S PROVE SumFunctionOnSet(f, U) \in Int
  <2>1. IsFiniteSet(U) /\ \A y \in U : f[y] \in Int
    BY <1>1
  <2> QED
    BY <2>1, SumRemove
<1> DEFINE sum(U) == SumFunctionOnSet(f, U)
           Good == {U \in SUBSET S : T \subseteq U => sum(T) <= sum(U)}
<1>3. ASSUME NEW U \in SUBSET S, \A V \in SUBSET U : V # U => V \in Good
      PROVE  U \in Good
  <2>1. CASE U = T \/ ~(T \subseteq U)
    BY <1>2, <2>1
  <2>2. CASE U # T /\ T \subseteq U
    <3>1. PICK x \in U : x \notin T
      BY <2>2
    <3>2. U \ {x} \in Good /\ T \subseteq U \ {x} /\ U \ {x} \in SUBSET S
      BY <1>3, <2>2, <3>1
    <3>3. sum(T) <= sum(U \ {x})
      BY <3>2
    <3>4. sum(U) = f[x] + sum(U \ {x})
      <4>1. IsFiniteSet(U) /\ \A y \in U : f[y] \in Int
        BY <1>1
      <4> QED
        BY <3>1, <4>1, SumRemove
    <3>5. f[x] \in Nat /\ sum(T) \in Int /\ sum(U) \in Int /\ sum(U \ {x}) \in Int
      BY <1>2, <3>1, <3>2
    <3> HIDE DEF sum
    <3>6. sum(T) <= sum(U)
      BY <3>3, <3>4, <3>5
    <3> QED
      BY <3>6
  <2> QED
    BY <2>1, <2>2
<1>4. S \in Good
  <2> HIDE DEF Good
  <2> QED
    BY <1>3, SubsetInduction
<1>5. sum(T) <= sum(S)
  BY <1>4
<1>6. 0 <= sum(T)
  <2> DEFINE none == [x \in T |-> 0]
  <2>1. \A x \in T : none[x] = 0 /\ none[x] \in Int /\ f[x] \in Int /\ none[x] <= f[x]
    OBVIOUS
  <2> HIDE DEF none
  <2>2. SumFunctionOnSet(none, T) = 0
    BY <1>1, <2>1, SumZero
  <2>3. SumFunctionOnSet(none, T) <= SumFunctionOnSet(f, T)
    BY <1>1, <2>1, SumMonotone
  <2> QED
    BY <2>2, <2>3
<1>7. sum(T) \in Int
  BY <1>2 DEF sum
<1> QED
  BY <1>5, <1>6, <1>7

(* The instants from a on: finitely many, fewer for a later a.               *)
LEMMA SinceFacts ==
  ASSUME NEW n \in Nat, NEW a \in Int
  PROVE  /\ IsFiniteSet(Since(n, a))
         /\ \A b \in Int : a <= b => Since(n, b) \in SUBSET Since(n, a)
         /\ a > n => Since(n, a) = {}
         /\ a <= n + 1 => /\ Since(n + 1, a) = Since(n, a) \cup {n + 1}
                          /\ n + 1 \notin Since(n, a)
         /\ a > n + 1 => Since(n + 1, a) = {} /\ Since(n, a) = {}
<1>1. IsFiniteSet(0 .. n) /\ Since(n, a) \subseteq 0 .. n
  BY FS_Interval DEF Since
<1>2. IsFiniteSet(Since(n, a))
  BY <1>1, FS_Subset
<1>3. ASSUME a <= n + 1
      PROVE  Since(n + 1, a) = Since(n, a) \cup {n + 1} /\ n + 1 \notin Since(n, a)
  BY <1>3 DEF Since
<1> QED
  BY <1>2, <1>3 DEF Since

(* Totals are natural numbers, and smaller from a later instant on.          *)
LEMMA TotalFacts ==
  ASSUME NEW f \in [Times -> Nat], NEW n \in Times, NEW a \in Int
  PROVE  /\ Total(f, n, a) \in Nat
         /\ \A b \in Int : a <= b => Total(f, n, b) <= Total(f, n, a)
         /\ a > n => Total(f, n, a) = 0
<1>1. n \in Nat /\ IsFiniteSet(Since(n, a)) /\ \A x \in Since(n, a) : f[x] \in Nat
  BY LimitTypes, SinceFacts DEF Since, Times
<1>2. \A b \in Int : a <= b => Since(n, b) \in SUBSET Since(n, a)
  BY <1>1, SinceFacts
<1>3. Since(n, a) \in SUBSET Since(n, a)
  OBVIOUS
<1>4. Total(f, n, a) \in Nat
  BY <1>1, <1>3, SumPart DEF Total
<1>5. ASSUME NEW b \in Int, a <= b PROVE Total(f, n, b) <= Total(f, n, a)
  BY <1>1, <1>2, <1>5, SumPart DEF Total
<1>6. a > n => Total(f, n, a) = 0
  BY <1>1, SinceFacts, SumEmpty DEF Total
<1> QED
  BY <1>4, <1>5, <1>6

(* One more request, now.                                                    *)
Hit(f, n) == [f EXCEPT ![n] = @ + 1]

(* It adds one to every total that reaches back to now or before.            *)
LEMMA HitTotal ==
  ASSUME NEW n \in Times, NEW f \in [Times -> Nat], NEW a \in Int
  PROVE  /\ Total(f, n, a) \in Nat /\ Hit(f, n) \in [Times -> Nat]
         /\ a <= n => Total(Hit(f, n), n, a) = Total(f, n, a) + 1
         /\ a > n => Total(f, n, a) = 0 /\ Total(Hit(f, n), n, a) = 0
<1> DEFINE h == Hit(f, n)
<1>1. h \in [Times -> Nat] /\ h[n] = f[n] + 1 /\ \A t \in Times : t # n => h[t] = f[t]
  BY DEF Hit
<1> HIDE DEF h
<1>2. ASSUME a <= n PROVE Total(h, n, a) = Total(f, n, a) + 1
  <2>1. n \in Since(n, a) /\ IsFiniteSet(Since(n, a)) /\ Since(n, a) \subseteq Times
    BY LimitTypes, <1>2, SinceFacts DEF Since, Times
  <2> DEFINE S == Since(n, a)
  <2>2. /\ \A y \in S : f[y] \in Int /\ h[y] \in Int
        /\ \A y \in S \ {n} : f[y] = h[y]
        /\ n \in S /\ IsFiniteSet(S)
    BY <1>1, <2>1
  <2> HIDE DEF S
  <2>3. SumFunctionOnSet(h, S) = h[n] + SumFunctionOnSet(h, S \ {n})
    BY <2>2, SumRemove
  <2>4. SumFunctionOnSet(f, S) = f[n] + SumFunctionOnSet(f, S \ {n})
    BY <2>2, SumRemove
  <2>5. IsFiniteSet(S \ {n}) /\ \A y \in S \ {n} : f[y] \in Int
    BY <2>2, FS_Subset
  <2>6. SumFunctionOnSet(h, S \ {n}) = SumFunctionOnSet(f, S \ {n})
    BY <2>2, <2>5, SumSame
  <2>7. SumFunctionOnSet(f, S \ {n}) \in Int
    BY <2>5, SumRemove
  <2> DEFINE rest == SumFunctionOnSet(f, S \ {n})
  <2>8. rest \in Int /\ f[n] \in Int /\ Total(h, n, a) = (f[n] + 1) + rest
        /\ Total(f, n, a) = f[n] + rest
    BY <1>1, <2>2, <2>3, <2>4, <2>6, <2>7 DEF Total, S
  <2> HIDE DEF rest
  <2> QED
    BY <2>8
<1> QED
  BY <1>1, <1>2, TotalFacts DEF h

(* The clock goes on.                                                        *)
LEMMA TotalTick ==
  ASSUME NEW n \in Times, n < MaxTime, NEW f, Log(f, n), NEW a \in Int
  PROVE  n + 1 \in Times /\ Log(f, n + 1) /\ Total(f, n + 1, a) = Total(f, n, a)
<1>1. n + 1 \in Times /\ f \in [Times -> Nat] /\ f[n + 1] = 0 /\ n \in Nat
  BY LimitTypes DEF Log, Times
<1>2. ASSUME a <= n + 1 PROVE Total(f, n + 1, a) = Total(f, n, a)
  <2> DEFINE S == Since(n + 1, a)
  <2>1. S = Since(n, a) \cup {n + 1} /\ n + 1 \notin Since(n, a)
    BY <1>1, <1>2, SinceFacts
  <2>2. IsFiniteSet(S) /\ S \ {n + 1} = Since(n, a) /\ n + 1 \in S
    BY <1>1, <2>1, SinceFacts
  <2>3. \A x \in S : f[x] \in Int
    BY LimitTypes, <1>1 DEF Since, Times
  <2> HIDE DEF S
  <2>4. SumFunctionOnSet(f, S) = f[n + 1] + SumFunctionOnSet(f, Since(n, a))
    BY <2>2, <2>3, SumRemove
  <2>5. Total(f, n, a) \in Nat
    BY <1>1, TotalFacts
  <2>6. Total(f, n + 1, a) = 0 + Total(f, n, a)
    BY <1>1, <2>4 DEF Total, S
  <2> QED
    BY <2>5, <2>6
<1>3. ASSUME a > n + 1 PROVE Total(f, n + 1, a) = Total(f, n, a)
  <2>1. Since(n, a) = {} /\ Since(n + 1, a) = {}
    BY <1>1, <1>3, SinceFacts
  <2> QED
    BY <2>1 DEF Total
<1>4. Total(f, n + 1, a) = Total(f, n, a)
  <2>1. a <= n + 1 \/ a > n + 1
    BY <1>1
  <2> QED
    BY <1>2, <1>3, <2>1
<1>5. Log(f, n + 1)
  BY <1>1 DEF Log, Times
<1> QED
  BY <1>1, <1>4, <1>5

(* What a counter becomes with one more request: its life goes on, or a new  *)
(* one begins.                                                               *)
GoesOn(c, e) == [count |-> c.count + 1, expires |-> e]
Begins(n) == [count |-> 1, expires |-> n + Window]
Admits(c, d, new, n) == new = d \/ (c.count <= MaxRequests /\ new = Hit(d, n))

(* A log with one more request now is a log.                                 *)
LEMMA LogHit ==
  ASSUME NEW n \in Times, NEW f, Log(f, n)
  PROVE  Log(Hit(f, n), n)
BY DEF Log, Hit, Times

(* The fields of a counter, and of one that goes on.                         *)
LEMMA CounterFields ==
  ASSUME NEW n \in Times, NEW c, CounterOK(c, n), NEW e
  PROVE  /\ c.count \in Nat /\ c.expires \in Int
         /\ c.expires = -1 \/ (Window <= c.expires /\ c.expires <= n + Window)
         /\ GoesOn(c, e).count = c.count + 1 /\ GoesOn(c, e).expires = e
BY DEF CounterOK, Counter, GoesOn

(* A request counted by a running counter of the memory cache.               *)
LEMMA MemoryGoesOn ==
  ASSUME NEW n \in Times, NEW c, CounterOK(c, n), NEW h, Log(h, n),
         NEW d, Log(d, n), MemoryOK(c, h, d, n), c.expires # -1, n < c.expires,
         NEW new, Admits(GoesOn(c, c.expires), d, new, n)
  PROVE  MemoryOK(GoesOn(c, c.expires), Hit(h, n), new, n)
<1> DEFINE e == c.expires
           s == e - Window
           b == GoesOn(c, e)
<1>0. /\ c.count \in Nat /\ e \in Int /\ (e = -1 \/ e <= n + Window)
      /\ b.count = c.count + 1 /\ b.expires = e
  BY CounterFields
<1>1. /\ e \in Int /\ s \in Int /\ s - Window \in Int /\ c.count \in Nat /\ n \in Nat
      /\ s <= n /\ s - Window <= n /\ n < e /\ e # -1
      /\ MaxRequests \in Nat /\ Window \in Nat /\ MaxTime \in Nat
      /\ h \in [Times -> Nat] /\ d \in [Times -> Nat]
      /\ b.count = c.count + 1 /\ b.expires = e
  <2>1. /\ n \in Nat /\ MaxRequests \in Nat /\ Window \in Nat /\ MaxTime \in Nat
        /\ h \in [Times -> Nat] /\ d \in [Times -> Nat] /\ n < e /\ e # -1
    BY LimitTypes DEF Times, Log
  <2>2. e \in Int /\ e <= n + Window
    BY <1>0, <2>1
  <2> HIDE DEF e, b
  <2>3. s \in Int /\ s - Window \in Int /\ s <= n /\ s - Window <= n
    BY <2>1, <2>2
  <2> QED
    BY <1>0, <2>1, <2>2, <2>3
<1>2. /\ Total(d, n, s) <= c.count /\ Total(d, n, s) <= MaxRequests
      /\ Total(d, n, s - Window) <= MaxRequests + c.count
      /\ Total(d, n, s - Window) <= 2 * MaxRequests
      /\ Total(d, n, e) = 0
      /\ c.count <= Total(h, n, s)
  BY DEF MemoryOK
<1>3. new = d \/ (c.count + 1 <= MaxRequests /\ new = Hit(d, n))
  BY <1>1 DEF Admits
<1> HIDE DEF b, s, e
<1>4. /\ Total(Hit(h, n), n, s) = Total(h, n, s) + 1
      /\ Total(h, n, s) \in Nat /\ Total(d, n, s) \in Nat
      /\ Total(d, n, s - Window) \in Nat
  BY <1>1, HitTotal
<1>5. /\ Total(Hit(d, n), n, s) = Total(d, n, s) + 1
      /\ Total(Hit(d, n), n, s - Window) = Total(d, n, s - Window) + 1
      /\ Total(Hit(d, n), n, e) = 0
  BY <1>1, HitTotal
<1>6. /\ Total(new, n, s) <= c.count + 1 /\ Total(new, n, s) <= MaxRequests
      /\ Total(new, n, s - Window) <= MaxRequests + (c.count + 1)
      /\ Total(new, n, s - Window) <= 2 * MaxRequests
      /\ Total(new, n, e) = 0
  <2>1. CASE new = d
    BY <1>1, <1>2, <1>4, <2>1
  <2>2. CASE c.count + 1 <= MaxRequests /\ new = Hit(d, n)
    BY <1>1, <1>2, <1>4, <1>5, <2>2
  <2> QED
    BY <1>3, <2>1, <2>2
<1>7. c.count + 1 <= Total(Hit(h, n), n, s)
  BY <1>1, <1>2, <1>4
<1>8. MemoryOK(b, Hit(h, n), new, n)
  BY <1>1, <1>6, <1>7 DEF MemoryOK, s
<1> QED
  BY <1>8 DEF b, e

(* A request that starts a counter of the memory cache.                      *)
LEMMA MemoryBegins ==
  ASSUME NEW n \in Times, NEW c, CounterOK(c, n), NEW h, Log(h, n),
         NEW d, Log(d, n), MemoryOK(c, h, d, n), c.expires = -1 \/ c.expires <= n
  PROVE  MemoryOK(Begins(n), Hit(h, n), Hit(d, n), n)
<1> DEFINE e == c.expires
<1>1. /\ e \in Int /\ n \in Nat /\ MaxTime \in Nat /\ MaxRequests \in Nat \ {0}
      /\ Window \in Nat \ {0} /\ n - Window \in Int /\ e - Window \in Int
      /\ n + Window \in Int /\ (n + Window) - Window = n /\ n + Window # -1
      /\ n - Window <= n /\ n + Window > n
      /\ h \in [Times -> Nat] /\ d \in [Times -> Nat]
      /\ Begins(n).count = 1 /\ Begins(n).expires = n + Window
  BY LimitTypes DEF CounterOK, Counter, Times, Log, Begins
<1>2. Total(d, n, n) = 0 /\ Total(d, n, n - Window) <= MaxRequests
  <2>1. CASE e = -1
    BY <2>1 DEF MemoryOK
  <2>2. CASE e # -1
    <3>1. Total(d, n, e) = 0 /\ Total(d, n, e - Window) <= MaxRequests
      BY <2>2 DEF MemoryOK
    <3>2. e <= n /\ e - Window <= n - Window
      BY <1>1, <2>2
    <3> HIDE DEF e
    <3>3. /\ Total(d, n, n) <= Total(d, n, e)
          /\ Total(d, n, n - Window) <= Total(d, n, e - Window)
          /\ Total(d, n, n) \in Nat /\ Total(d, n, n - Window) \in Nat
          /\ Total(d, n, e - Window) \in Nat
      BY <1>1, <3>2, TotalFacts
    <3> QED
      BY <1>1, <3>1, <3>3
  <2> QED
    BY <2>1, <2>2
<1> HIDE DEF e
<1>3. /\ Total(Hit(d, n), n, n) = Total(d, n, n) + 1
      /\ Total(Hit(d, n), n, n - Window) = Total(d, n, n - Window) + 1
      /\ Total(Hit(d, n), n, n + Window) = 0
      /\ Total(Hit(h, n), n, n) = Total(h, n, n) + 1
      /\ Total(h, n, n) \in Nat /\ Total(d, n, n - Window) \in Nat
  <2>1. n \in Int /\ n <= n
    BY <1>1
  <2>2. Total(Hit(d, n), n, n) = Total(d, n, n) + 1
    BY <1>1, <2>1, HitTotal
  <2>3. /\ Total(Hit(d, n), n, n - Window) = Total(d, n, n - Window) + 1
        /\ Total(d, n, n - Window) \in Nat
    BY <1>1, HitTotal
  <2>4. Total(Hit(d, n), n, n + Window) = 0
    BY <1>1, HitTotal
  <2>5. Total(Hit(h, n), n, n) = Total(h, n, n) + 1 /\ Total(h, n, n) \in Nat
    BY <1>1, <2>1, HitTotal
  <2> QED
    BY <2>2, <2>3, <2>4, <2>5
<1>4. /\ Total(Hit(d, n), n, n) <= 1 /\ Total(Hit(d, n), n, n) <= MaxRequests
      /\ Total(Hit(d, n), n, n - Window) <= MaxRequests + 1
      /\ Total(Hit(d, n), n, n - Window) <= 2 * MaxRequests
      /\ 1 <= Total(Hit(h, n), n, n)
  BY <1>1, <1>2, <1>3
<1> QED
  BY <1>1, <1>3, <1>4 DEF MemoryOK

(* A request counted by Redis, admitted or not.                              *)
LEMMA RedisGoesOn ==
  ASSUME NEW n \in Times, NEW c, CounterOK(c, n), NEW h, Log(h, n),
         NEW d, Log(d, n), RedisOK(c, h, d, n), c.expires # -1, n <= c.expires,
         NEW new, Admits(GoesOn(c, n + Window), d, new, n)
  PROVE  RedisOK(GoesOn(c, n + Window), Hit(h, n), new, n)
<1> DEFINE e == c.expires
           a == n - Window + 1
           b == GoesOn(c, n + Window)
<1>1. /\ e \in Int /\ c.count \in Nat /\ n \in Nat /\ a \in Int /\ a <= n /\ n <= e
      /\ MaxRequests \in Nat /\ Window \in Nat \ {0} /\ MaxTime \in Nat
      /\ h \in [Times -> Nat] /\ d \in [Times -> Nat]
      /\ b.count = c.count + 1 /\ b.expires = n + Window /\ n + Window # -1
      /\ (n + Window) - Window + 1 = n + 1 /\ (n + Window) - Window = n
      /\ n + 1 \in Int /\ n + 1 > n
  BY LimitTypes, CounterFields DEF Times, Log
<1>2. Total(d, n, a) <= c.count /\ Total(d, n, a) <= MaxRequests
  BY <1>1 DEF RedisOK
<1>3. PICK first \in 0 .. n : /\ c.count <= Total(h, n, first)
                               /\ Train(h, n, first, e - Window)
  BY <1>1 DEF RedisOK
<1>4. new = d \/ (c.count + 1 <= MaxRequests /\ new = Hit(d, n))
  BY <1>1 DEF Admits
<1> HIDE DEF a, b, e
<1>5. /\ Total(d, n, a) \in Nat /\ Total(Hit(d, n), n, a) = Total(d, n, a) + 1
      /\ Total(Hit(d, n), n, n + 1) = 0 /\ Total(d, n, n + 1) = 0
  BY <1>1, HitTotal
<1>6. Total(new, n, a) <= c.count + 1 /\ Total(new, n, a) <= MaxRequests
  <2>1. CASE new = d
    BY <1>1, <1>2, <1>5, <2>1
  <2>2. CASE c.count + 1 <= MaxRequests /\ new = Hit(d, n)
    BY <1>1, <1>2, <1>5, <2>2
  <2> QED
    BY <1>4, <2>1, <2>2
<1>7. Total(new, n, n + 1) = 0
  BY <1>4, <1>5
<1>8. c.count + 1 <= Total(Hit(h, n), n, first)
  <2>1. first \in Int /\ first <= n
    BY <1>1
  <2>2. Total(Hit(h, n), n, first) = Total(h, n, first) + 1 /\ Total(h, n, first) \in Nat
    BY <1>1, <2>1, HitTotal
  <2> QED
    BY <1>1, <1>3, <2>2
<1>9. Train(Hit(h, n), n, first, n)
  <2> SUFFICES ASSUME NEW t \in first .. n - 1
               PROVE  \E u \in t + 1 .. n : u <= t + Window /\ Hit(h, n)[u] > 0
    BY DEF Train
  <2>0. t \in Int /\ t + 1 <= n /\ first <= t /\ first \in Nat
    BY <1>1
  <2>1. \A u \in Times : /\ Hit(h, n)[u] \in Nat /\ (h[u] > 0 => Hit(h, n)[u] > 0)
                         /\ (u = n => Hit(h, n)[u] > 0)
    BY <1>1 DEF Hit
  <2>2. CASE t < e - Window
    <3>1. t \in first .. (e - Window) - 1
      BY <1>1, <2>0, <2>2
    <3>2. PICK u \in t + 1 .. n : u <= t + Window /\ h[u] > 0
      BY <1>3, <3>1 DEF Train
    <3>3. u \in Times
      BY <1>1, <2>0 DEF Times
    <3> QED
      BY <2>1, <3>2, <3>3
  <2>3. CASE ~(t < e - Window)
    <3>1. n \in t + 1 .. n /\ n <= t + Window
      BY <1>1, <2>0, <2>3
    <3> QED
      BY <2>1, <3>1
  <2> QED
    BY <2>2, <2>3
<1>10. RedisOK(b, Hit(h, n), new, n)
  <2>1. \E f \in 0 .. n : /\ b.count <= Total(Hit(h, n), n, f)
                          /\ Train(Hit(h, n), n, f, b.expires - Window)
    BY <1>1, <1>8, <1>9
  <2>2. /\ b.expires # -1 /\ Total(new, n, b.expires - Window + 1) = 0
        /\ Total(new, n, n - Window + 1) <= b.count
        /\ Total(new, n, n - Window + 1) <= MaxRequests
    BY <1>1, <1>6, <1>7 DEF a
  <2> QED
    BY <2>1, <2>2 DEF RedisOK
<1> QED
  BY <1>10 DEF b

(* A request that starts a counter of Redis, admitted or not.                *)
LEMMA RedisBegins ==
  ASSUME NEW n \in Times, NEW c, CounterOK(c, n), NEW h, Log(h, n),
         NEW d, Log(d, n), RedisOK(c, h, d, n), c.expires = -1 \/ c.expires < n,
         NEW new, new = d \/ new = Hit(d, n)
  PROVE  RedisOK(Begins(n), Hit(h, n), new, n)
<1> DEFINE e == c.expires
           a == n - Window + 1
<1>1. /\ e \in Int /\ n \in Nat /\ a \in Int /\ a <= n
      /\ MaxRequests \in Nat \ {0} /\ Window \in Nat \ {0} /\ MaxTime \in Nat
      /\ h \in [Times -> Nat] /\ d \in [Times -> Nat]
      /\ Begins(n).count = 1 /\ Begins(n).expires = n + Window /\ n + Window # -1
      /\ (n + Window) - Window + 1 = n + 1 /\ (n + Window) - Window = n
      /\ n + 1 \in Int /\ n + 1 > n
  BY LimitTypes DEF CounterOK, Counter, Times, Log, Begins
<1>2. Total(d, n, a) = 0
  <2>1. CASE e = -1
    BY <2>1 DEF RedisOK
  <2>2. CASE e # -1
    <3>1. Total(d, n, e - Window + 1) = 0
      BY <2>2 DEF RedisOK
    <3>2. e - Window + 1 \in Int /\ e - Window + 1 <= a
      BY <1>1, <2>2
    <3> HIDE DEF e, a
    <3>3. Total(d, n, a) <= Total(d, n, e - Window + 1) /\ Total(d, n, a) \in Nat
      BY <1>1, <3>2, TotalFacts
    <3> QED
      BY <3>1, <3>3
  <2> QED
    BY <2>1, <2>2
<1> HIDE DEF a, e
<1>3. /\ Total(Hit(d, n), n, a) = Total(d, n, a) + 1
      /\ Total(Hit(d, n), n, n + 1) = 0 /\ Total(d, n, n + 1) = 0
      /\ Total(Hit(h, n), n, n) = Total(h, n, n) + 1 /\ Total(h, n, n) \in Nat
  BY <1>1, HitTotal
<1>4. Total(new, n, a) <= 1 /\ Total(new, n, a) <= MaxRequests /\ Total(new, n, n + 1) = 0
  BY <1>1, <1>2, <1>3
<1>5. 1 <= Total(Hit(h, n), n, n) /\ n \in 0 .. n
  BY <1>1, <1>3
<1>6. Train(Hit(h, n), n, n, n)
  BY <1>1 DEF Train
<1>7. \E f \in 0 .. n : /\ 1 <= Total(Hit(h, n), n, f)
                        /\ Train(Hit(h, n), n, f, n)
  BY <1>5, <1>6
<1> QED
  BY <1>1, <1>4, <1>7 DEF RedisOK, a

(* A request that Redis did not count.                                       *)
LEMMA RedisMisses ==
  ASSUME NEW n \in Times, NEW c, CounterOK(c, n), NEW h, Log(h, n),
         NEW d, Log(d, n), RedisOK(c, h, d, n)
  PROVE  RedisOK(c, Hit(h, n), d, n)
<1>1. /\ n \in Nat /\ MaxTime \in Nat /\ h \in [Times -> Nat]
      /\ c.count \in Nat /\ c.expires \in Int /\ Window \in Nat
  BY LimitTypes, CounterFields DEF Times, Log
<1>2. ASSUME c.expires # -1, n <= c.expires
      PROVE  \E first \in 0 .. n : /\ c.count <= Total(Hit(h, n), n, first)
                                   /\ Train(Hit(h, n), n, first, c.expires - Window)
  <2>1. PICK first \in 0 .. n : /\ c.count <= Total(h, n, first)
                                /\ Train(h, n, first, c.expires - Window)
    BY <1>2 DEF RedisOK
  <2>2. first \in Int /\ first \in Nat /\ first <= n
    BY <1>1
  <2>3. Total(Hit(h, n), n, first) = Total(h, n, first) + 1 /\ Total(h, n, first) \in Nat
    BY <1>1, <2>2, HitTotal
  <2>4. c.count <= Total(Hit(h, n), n, first)
    BY <1>1, <2>1, <2>3
  <2>5. \A u \in Times : h[u] > 0 => Hit(h, n)[u] > 0
    BY <1>1 DEF Hit
  <2>6. \A t \in first .. (c.expires - Window) - 1 : t + 1 .. n \subseteq Times
    BY <1>1, <2>2 DEF Times
  <2>7. Train(Hit(h, n), n, first, c.expires - Window)
    BY <2>1, <2>5, <2>6 DEF Train
  <2> QED
    BY <2>4, <2>7
<1> QED
  BY <1>2 DEF RedisOK

(* A counter that has lapsed is removed.                                     *)
LEMMA Lapses ==
  ASSUME NEW n \in Times, NEW c, CounterOK(c, n), NEW h, NEW d, Log(d, n),
         n > c.expires
  PROVE  /\ MemoryOK(c, h, d, n) => MemoryOK(NoCounter, h, d, n)
         /\ RedisOK(c, h, d, n) => RedisOK(NoCounter, h, d, n)
<1> DEFINE e == c.expires
<1>0. NoCounter.expires = -1
  BY DEF NoCounter, Nil
<1>1. /\ n \in Nat /\ MaxTime \in Nat /\ d \in [Times -> Nat] /\ e \in Int
      /\ Window \in Nat /\ MaxRequests \in Nat
  BY LimitTypes, CounterFields DEF Times, Log
<1>2. /\ e <= n /\ e - Window <= n - Window /\ e - Window + 1 <= n - Window + 1
      /\ e - Window \in Int /\ n - Window \in Int /\ n \in Int
      /\ e - Window + 1 \in Int /\ n - Window + 1 \in Int
  BY <1>1
<1>3. ASSUME MemoryOK(c, h, d, n) PROVE MemoryOK(NoCounter, h, d, n)
  <2>1. CASE e = -1
    BY <1>0, <1>3, <2>1 DEF MemoryOK
  <2>2. CASE e # -1
    <3>1. Total(d, n, e) = 0 /\ Total(d, n, e - Window) <= MaxRequests
      BY <1>3, <2>2 DEF MemoryOK
    <3> HIDE DEF e
    <3>2. Total(d, n, n) <= Total(d, n, e) /\ Total(d, n, n) \in Nat
      BY <1>1, <1>2, TotalFacts
    <3>3. /\ Total(d, n, n - Window) <= Total(d, n, e - Window)
          /\ Total(d, n, n - Window) \in Nat /\ Total(d, n, e - Window) \in Nat
      BY <1>1, <1>2, TotalFacts
    <3>4. Total(d, n, n) = 0 /\ Total(d, n, n - Window) <= MaxRequests
      BY <1>1, <3>1, <3>2, <3>3
    <3> QED
      BY <1>0, <3>4 DEF MemoryOK
  <2> QED
    BY <2>1, <2>2
<1>4. ASSUME RedisOK(c, h, d, n) PROVE RedisOK(NoCounter, h, d, n)
  <2>1. CASE e = -1
    BY <1>0, <1>4, <2>1 DEF RedisOK
  <2>2. CASE e # -1
    <3>1. Total(d, n, e - Window + 1) = 0
      BY <1>4, <2>2 DEF RedisOK
    <3> HIDE DEF e
    <3>2. /\ Total(d, n, n - Window + 1) <= Total(d, n, e - Window + 1)
          /\ Total(d, n, n - Window + 1) \in Nat
      BY <1>1, <1>2, TotalFacts
    <3>3. Total(d, n, n - Window + 1) = 0
      BY <3>1, <3>2
    <3> QED
      BY <1>0, <3>3 DEF RedisOK
  <2> QED
    BY <2>1, <2>2
<1> QED
  BY <1>3, <1>4

(* The clock goes on: what was counted and admitted stays, the window moves. *)
LEMMA MemoryTicks ==
  ASSUME NEW n \in Times, n < MaxTime, NEW c, CounterOK(c, n),
         NEW h, Log(h, n), NEW d, Log(d, n), MemoryOK(c, h, d, n)
  PROVE  MemoryOK(c, h, d, n + 1)
<1> DEFINE e == c.expires
           m == n + 1
<1>0. c.count \in Nat /\ e \in Int
  BY CounterFields
<1>1. /\ n \in Nat /\ MaxTime \in Nat /\ d \in [Times -> Nat] /\ h \in [Times -> Nat]
      /\ e \in Int /\ e - Window \in Int /\ (e - Window) - Window \in Int
      /\ Window \in Nat /\ MaxRequests \in Nat /\ m \in Int /\ m > n
      /\ n - Window \in Int /\ m - Window \in Int /\ n - Window <= m - Window
  <2>1. /\ n \in Nat /\ MaxTime \in Nat /\ d \in [Times -> Nat] /\ h \in [Times -> Nat]
        /\ Window \in Nat /\ MaxRequests \in Nat
    BY LimitTypes DEF Times, Log
  <2> HIDE DEF e
  <2> QED
    BY <1>0, <2>1
<1>2. \A a \in Int : Total(d, m, a) = Total(d, n, a) /\ Total(h, m, a) = Total(h, n, a)
  BY <1>1, TotalTick
<1> HIDE DEF m
<1>3. CASE e = -1
  <2>1. Total(d, n, n - Window) <= MaxRequests
    BY <1>3 DEF MemoryOK
  <2>2. /\ Total(d, n, m - Window) <= Total(d, n, n - Window)
        /\ Total(d, n, m - Window) \in Nat /\ Total(d, n, n - Window) \in Nat
    BY <1>1, TotalFacts
  <2>3. Total(d, n, m) = 0
    BY <1>1, TotalFacts
  <2>4. Total(d, m, m - Window) <= MaxRequests /\ Total(d, m, m) = 0
    BY <1>1, <1>2, <2>1, <2>2, <2>3
  <2> QED
    BY <1>3, <2>4 DEF MemoryOK, m
<1>4. CASE e # -1
  <2>1. /\ Total(d, n, e - Window) <= c.count /\ Total(d, n, e - Window) <= MaxRequests
        /\ Total(d, n, (e - Window) - Window) <= MaxRequests + c.count
        /\ Total(d, n, (e - Window) - Window) <= 2 * MaxRequests
        /\ Total(d, n, e) = 0
        /\ c.count <= Total(h, n, e - Window)
    BY <1>4 DEF MemoryOK
  <2>2. /\ Total(d, m, e - Window) = Total(d, n, e - Window)
        /\ Total(d, m, (e - Window) - Window) = Total(d, n, (e - Window) - Window)
        /\ Total(d, m, e) = Total(d, n, e)
        /\ Total(h, m, e - Window) = Total(h, n, e - Window)
    BY <1>1, <1>2
  <2>3. MemoryOK(c, h, d, m)
    BY <1>4, <2>1, <2>2 DEF MemoryOK
  <2> QED
    BY <2>3 DEF m
<1> QED
  BY <1>3, <1>4

(* The same of a counter of Redis.                                           *)
LEMMA RedisTicks ==
  ASSUME NEW n \in Times, n < MaxTime, NEW c, CounterOK(c, n),
         NEW h, Log(h, n), NEW d, Log(d, n), RedisOK(c, h, d, n)
  PROVE  RedisOK(c, h, d, n + 1)
<1> DEFINE e == c.expires
           m == n + 1
           a == n - Window + 1
           b == m - Window + 1
<1>0. c.count \in Nat /\ e \in Int
  BY CounterFields
<1>1. /\ n \in Nat /\ MaxTime \in Nat /\ d \in [Times -> Nat] /\ h \in [Times -> Nat]
      /\ e \in Int /\ e - Window + 1 \in Int /\ c.count \in Nat
      /\ Window \in Nat /\ MaxRequests \in Nat /\ m \in Int /\ m > n
      /\ a \in Int /\ b \in Int /\ a <= b
  <2>1. /\ n \in Nat /\ MaxTime \in Nat /\ d \in [Times -> Nat] /\ h \in [Times -> Nat]
        /\ Window \in Nat /\ MaxRequests \in Nat
    BY LimitTypes DEF Times, Log
  <2> HIDE DEF e
  <2> QED
    BY <1>0, <2>1
<1>2. \A i \in Int : Total(d, m, i) = Total(d, n, i) /\ Total(h, m, i) = Total(h, n, i)
  BY <1>1, TotalTick
<1>3. m = n + 1 /\ b = m - Window + 1
  OBVIOUS
<1> HIDE DEF m, b
<1>4. /\ Total(d, m, b) <= Total(d, n, a)
      /\ Total(d, m, b) \in Nat /\ Total(d, n, a) \in Nat
  <2>1. Total(d, n, a) \in Nat /\ Total(d, n, b) <= Total(d, n, a)
    BY <1>1, TotalFacts
  <2>2. Total(d, n, b) \in Nat
    BY <1>1, TotalFacts
  <2> QED
    BY <1>1, <1>2, <2>1, <2>2
<1>5. CASE e = -1
  <2>1. Total(d, n, a) = 0
    BY <1>5 DEF RedisOK
  <2>2. Total(d, m, b) = 0
    BY <1>4, <2>1
  <2>3. RedisOK(c, h, d, m)
    BY <1>3, <1>5, <2>2 DEF RedisOK
  <2> QED
    BY <2>3 DEF m
<1>6. CASE e # -1
  <2>1. Total(d, m, e - Window + 1) = 0
    <3>1. Total(d, n, e - Window + 1) = 0
      BY <1>6 DEF RedisOK
    <3> QED
      BY <1>1, <1>2, <3>1
  <2>2. ASSUME m <= e
        PROVE  /\ Total(d, m, b) <= c.count /\ Total(d, m, b) <= MaxRequests
               /\ \E first \in 0 .. m : /\ c.count <= Total(h, m, first)
                                        /\ Train(h, m, first, e - Window)
    <3>1. n <= e
      BY <1>1, <2>2
    <3>2. Total(d, n, a) <= c.count /\ Total(d, n, a) <= MaxRequests
      BY <1>6, <3>1 DEF RedisOK
    <3>3. PICK first \in 0 .. n : /\ c.count <= Total(h, n, first)
                                  /\ Train(h, n, first, e - Window)
      BY <1>6, <3>1 DEF RedisOK
    <3>4. first \in 0 .. m /\ first \in Int
      BY <1>1
    <3>5. \A t \in first .. (e - Window) - 1 : t + 1 .. n \subseteq t + 1 .. m
      BY <1>1, <3>4
    <3>6. Train(h, m, first, e - Window)
      BY <3>3, <3>5 DEF Train
    <3>7. c.count <= Total(h, m, first)
      BY <1>2, <3>3, <3>4
    <3>8. Total(d, m, b) <= c.count /\ Total(d, m, b) <= MaxRequests
      <4> DEFINE new == Total(d, m, b)
                 old == Total(d, n, a)
      <4>1. /\ new <= old /\ new \in Nat /\ old \in Nat
            /\ old <= c.count /\ old <= MaxRequests
        BY <1>4, <3>2
      <4> HIDE DEF new, old
      <4>2. new <= c.count /\ new <= MaxRequests
        BY <1>1, <4>1
      <4> QED
        BY <4>2 DEF new
    <3> QED
      BY <3>4, <3>6, <3>7, <3>8
  <2>3. RedisOK(c, h, d, m)
    BY <1>3, <1>6, <2>1, <2>2 DEF RedisOK
  <2> QED
    BY <2>3 DEF m
<1> QED
  BY <1>5, <1>6

(* The middleware counts a request: its counter goes on or begins anew.      *)
LEMMA IncrementedIs ==
  ASSUME cache \in {"memory", "redis"}, now \in Times,
         NEW c, CounterOK(c, now)
  PROVE  /\ cache = "memory" =>
              IF c.expires # -1 /\ now < c.expires
                THEN Incremented(c) = GoesOn(c, c.expires)
                ELSE Incremented(c) = Begins(now)
         /\ cache = "redis" =>
              IF c.expires # -1 /\ now <= c.expires
                THEN Incremented(c) = GoesOn(c, now + Window)
                ELSE Incremented(c) = Begins(now)
BY DEF Incremented, Running, Nil, GoesOn, Begins

(* Counting a request keeps what is said of its key, over either cache.      *)
LEMMA Counted ==
  ASSUME cache \in {"memory", "redis"}, now \in Times,
         NEW c, NEW h, NEW d, KeyOK(cache, c, h, d, now), NEW new,
         Admits(Incremented(c), d, new, now),
         new = d => cache = "redis" \/ Exceeds(Incremented(c).count)
  PROVE  KeyOK(cache, Incremented(c), Hit(h, now), new, now)
<1> DEFINE n == now
           i == Incremented(c)
<1>1. CounterOK(c, n) /\ Log(h, n) /\ Log(d, n) /\ n \in Times
  BY DEF KeyOK
<1>2. Log(Hit(h, n), n) /\ Log(new, n)
  <2>1. Log(Hit(h, n), n) /\ Log(Hit(d, n), n)
    BY LimitTypes, <1>1, LogHit
  <2>2. new = d \/ new = Hit(d, n)
    BY DEF Admits
  <2> QED
    BY <1>1, <2>1, <2>2
<1>3. \/ c.expires # -1 /\ n < c.expires /\ cache = "memory" /\ i = GoesOn(c, c.expires)
      \/ c.expires # -1 /\ n <= c.expires /\ cache = "redis" /\ i = GoesOn(c, n + Window)
      \/ i = Begins(n)
  BY <1>1, IncrementedIs
<1>4. CounterOK(i, n)
  <2>1. n \in Nat /\ Window \in Nat
    BY LimitTypes, <1>1 DEF Times
  <2>2. /\ c \in Counter /\ c.count + 1 \in Nat /\ c.expires \in Int
        /\ c.expires = -1 \/ (Window <= c.expires /\ c.expires <= n + Window)
    BY <1>1 DEF CounterOK, Counter
  <2> HIDE DEF i, n
  <2>3. CASE i = GoesOn(c, c.expires)
    BY <2>2, <2>3 DEF CounterOK, Counter, GoesOn
  <2>4. CASE i = GoesOn(c, n + Window)
    BY <2>1, <2>2, <2>4 DEF CounterOK, Counter, GoesOn
  <2>5. CASE i = Begins(n)
    BY <2>1, <2>5 DEF CounterOK, Counter, Begins
  <2> QED
    BY <1>3, <2>3, <2>4, <2>5
<1>5. ASSUME cache = "memory" PROVE MemoryOK(i, Hit(h, n), new, n)
  <2>1. MemoryOK(c, h, d, n)
    BY <1>5 DEF KeyOK
  <2>2. CASE c.expires # -1 /\ n < c.expires
    <3>1. i = GoesOn(c, c.expires)
      BY <1>1, <1>5, <2>2, IncrementedIs
    <3>2. Admits(GoesOn(c, c.expires), d, new, n)
      BY <3>1
    <3> QED
      BY <1>1, <2>1, <2>2, <3>1, <3>2, MemoryGoesOn
  <2>3. CASE ~(c.expires # -1 /\ n < c.expires)
    <3>1. i = Begins(n)
      BY <1>1, <1>5, <2>3, IncrementedIs
    <3>2. ~Exceeds(i.count)
      BY LimitTypes, <3>1 DEF Begins, Exceeds
    <3>3. new = Hit(d, n)
      BY <1>5, <3>2 DEF Admits
    <3>4. c.expires = -1 \/ c.expires <= n
      BY <1>1, <2>3 DEF CounterOK, Counter, Times
    <3> QED
      BY <1>1, <2>1, <3>1, <3>3, <3>4, MemoryBegins
  <2> QED
    BY <2>2, <2>3
<1>6. ASSUME cache = "redis" PROVE RedisOK(i, Hit(h, n), new, n)
  <2>1. RedisOK(c, h, d, n)
    BY <1>6 DEF KeyOK
  <2>2. CASE c.expires # -1 /\ n <= c.expires
    <3>1. i = GoesOn(c, n + Window)
      BY <1>1, <1>6, <2>2, IncrementedIs
    <3>2. Admits(GoesOn(c, n + Window), d, new, n)
      BY <3>1
    <3> QED
      BY <1>1, <2>1, <2>2, <3>1, <3>2, RedisGoesOn
  <2>3. CASE ~(c.expires # -1 /\ n <= c.expires)
    <3>1. i = Begins(n)
      BY <1>1, <1>6, <2>3, IncrementedIs
    <3>3. new = d \/ new = Hit(d, n)
      BY DEF Admits
    <3>4. c.expires = -1 \/ c.expires < n
      BY <1>1, <2>3 DEF CounterOK, Counter, Times
    <3> QED
      BY <1>1, <2>1, <3>1, <3>3, <3>4, RedisBegins
  <2> QED
    BY <2>2, <2>3
<1> QED
  BY <1>2, <1>4, <1>5, <1>6 DEF KeyOK

(* The limiter starts without counters and with empty logs.                  *)
LEMMA LimiterStarts == ASSUME RateInit PROVE LimiterInv
<1> DEFINE zero == [t \in Times |-> 0]
<1>1. /\ cache \in {"memory", "redis"} /\ now = 0 /\ 0 \in Times
      /\ counter = [k \in RateKeys |-> NoCounter]
      /\ hits = [k \in RateKeys |-> zero] /\ admitted = [k \in RateKeys |-> zero]
  BY LimitTypes DEF RateInit, Nothing, Times
<1>2. NoCounter \in Counter /\ NoCounter.expires = -1
  BY DEF NoCounter, Nil, Counter
<1>3. zero \in [Times -> Nat] /\ \A t \in Times : zero[t] = 0
  OBVIOUS
<1> HIDE DEF zero
<1>4. Log(zero, 0) /\ CounterOK(NoCounter, 0)
  BY <1>2, <1>3 DEF Log, CounterOK
<1>5. ASSUME NEW a \in Int PROVE Total(zero, 0, a) = 0
  <2>1. IsFiniteSet(Since(0, a))
    BY SinceFacts
  <2>2. \A t \in Since(0, a) : zero[t] = 0
    BY <1>1, <1>3 DEF Since, Times
  <2> HIDE DEF Since
  <2> QED
    BY <2>1, <2>2, SumZero DEF Total
<1>6. MemoryOK(NoCounter, zero, zero, 0)
  <2>1. Total(zero, 0, 0 - Window) = 0 /\ Total(zero, 0, 0) = 0 /\ MaxRequests \in Nat
    BY LimitTypes, <1>5
  <2> QED
    BY <1>2, <2>1 DEF MemoryOK
<1>7. RedisOK(NoCounter, zero, zero, 0)
  <2>1. Total(zero, 0, 0 - Window + 1) = 0
    BY LimitTypes, <1>5
  <2> QED
    BY <1>2, <2>1 DEF RedisOK
<1>8. ASSUME NEW k \in RateKeys
      PROVE  KeyOK(cache, counter[k], hits[k], admitted[k], now)
  BY <1>1, <1>4, <1>6, <1>7 DEF KeyOK
<1> QED
  BY <1>1, <1>2, <1>3, <1>8 DEF LimiterInv

(* A request for key k reaches one counter and one pair of logs.             *)
LEMMA OneKeyCounted ==
  ASSUME LimiterInv, NEW k \in RateKeys, UNCHANGED <<cache, now>>,
         hits' = [hits EXCEPT ![k] = Hit(hits[k], now)],
         \/ UNCHANGED counter
         \/ counter' = [counter EXCEPT ![k] = Incremented(counter[k])],
         \/ UNCHANGED admitted
         \/ admitted' = [admitted EXCEPT ![k] = Hit(admitted[k], now)],
         counter'[k] \in Counter,
         KeyOK(cache, counter'[k], hits'[k], admitted'[k], now)
  PROVE  LimiterInv'
<1>1. \A j \in RateKeys : Hit(hits[j], now) \in [Times -> Nat]
                              /\ Hit(admitted[j], now) \in [Times -> Nat]
  BY DEF LimiterInv, Hit
<1>2. /\ counter' \in [RateKeys -> Counter]
      /\ hits' \in [RateKeys -> [Times -> Nat]]
      /\ admitted' \in [RateKeys -> [Times -> Nat]]
  BY <1>1 DEF LimiterInv
<1>3. \A j \in RateKeys : j # k =>
        hits'[j] = hits[j] /\ counter'[j] = counter[j] /\ admitted'[j] = admitted[j]
  BY DEF LimiterInv
<1>4. \A j \in RateKeys : KeyOK(cache, counter'[j], hits'[j], admitted'[j], now)
  BY <1>3 DEF LimiterInv
<1>5. cache' = cache /\ now' = now
  OBVIOUS
<1> QED
  BY <1>2, <1>4, <1>5 DEF LimiterInv

(* The logs change at one key and one instant.                               *)
LEMMA HitOf ==
  ASSUME LimiterInv, NEW k \in RateKeys
  PROVE  /\ [hits EXCEPT ![k][now] = @ + 1] = [hits EXCEPT ![k] = Hit(hits[k], now)]
         /\ [admitted EXCEPT ![k][now] = @ + 1]
              = [admitted EXCEPT ![k] = Hit(admitted[k], now)]
BY DEF Hit

(* A request that is counted,                                                *)
LEMMA LimitStep ==
  ASSUME LimiterInv, NEW k \in RateKeys, Limit(k)
  PROVE  LimiterInv'
<1> DEFINE c == counter[k]
           i == Incremented(c)
           h == hits[k]
           d == admitted[k]
           new == admitted'[k]
<1>1. /\ cache \in {"memory", "redis"} /\ now \in Times /\ KeyOK(cache, c, h, d, now)
      /\ c \in Counter
  BY DEF LimiterInv
<1>2. /\ counter' = [counter EXCEPT ![k] = i] /\ UNCHANGED <<cache, now>>
      /\ hits' = [hits EXCEPT ![k] = Hit(hits[k], now)]
  BY HitOf DEF Limit, Arrives
<1>3. \/ Exceeds(i.count) /\ UNCHANGED admitted
      \/ /\ ~Exceeds(i.count)
         /\ admitted' = [admitted EXCEPT ![k] = Hit(admitted[k], now)]
  BY HitOf DEF Limit
<1>4. counter'[k] = i /\ hits'[k] = Hit(h, now)
  BY <1>2 DEF LimiterInv
<1>5. \/ Exceeds(i.count) /\ new = d
      \/ ~Exceeds(i.count) /\ new = Hit(d, now)
  BY <1>3 DEF LimiterInv
<1>6. i.count \in Nat /\ MaxRequests \in Nat
  <2>1. c.count + 1 \in Nat
    BY <1>1 DEF Counter
  <2> HIDE DEF c
  <2> QED
    BY LimitTypes, <2>1 DEF Incremented
<1>7. Admits(i, d, new, now)
  BY <1>5, <1>6 DEF Admits, Exceeds
<1>8. new = d => Exceeds(i.count)
  <2>1. d # Hit(d, now)
    <3>1. d \in [Times -> Nat] /\ now \in Times
      BY DEF LimiterInv
    <3> HIDE DEF d
    <3>2. Hit(d, now)[now] = d[now] + 1 /\ d[now] \in Nat
      BY <3>1 DEF Hit
    <3> QED
      BY <3>2
  <2> QED
    BY <1>5, <2>1
<1> HIDE DEF i, c, h, d, new
<1>9. KeyOK(cache, i, Hit(h, now), new, now)
  BY <1>1, <1>7, <1>8, Counted DEF i
<1>10. i \in Counter
  BY <1>9 DEF KeyOK, CounterOK
<1> QED
  BY <1>2, <1>3, <1>4, <1>9, <1>10, OneKeyCounted DEF i, c, h, d, new

(* one that Redis fails,                                                     *)
LEMMA FailOpenStep ==
  ASSUME LimiterInv, NEW k \in RateKeys, FailOpen(k)
  PROVE  LimiterInv'
<1> DEFINE c == counter[k]
           i == Incremented(c)
           h == hits[k]
           d == admitted[k]
<1>1. /\ cache = "redis" /\ now \in Times /\ KeyOK(cache, c, h, d, now) /\ c \in Counter
      /\ Log(h, now) /\ Log(d, now) /\ CounterOK(c, now) /\ MaxTime \in Nat
  BY LimitTypes DEF LimiterInv, FailOpen, KeyOK
<1>2. /\ UNCHANGED <<cache, now, admitted>>
      /\ hits' = [hits EXCEPT ![k] = Hit(hits[k], now)]
      /\ UNCHANGED counter \/ counter' = [counter EXCEPT ![k] = i]
  BY HitOf DEF FailOpen, Arrives
<1>3. /\ hits'[k] = Hit(h, now) /\ admitted'[k] = d
      /\ counter'[k] = c \/ counter'[k] = i
  BY <1>2 DEF LimiterInv
<1> HIDE DEF i, c, h, d
<1>4. KeyOK(cache, c, Hit(h, now), d, now)
  <2>1. RedisOK(c, Hit(h, now), d, now) /\ Log(Hit(h, now), now)
    BY <1>1, RedisMisses, LogHit DEF KeyOK
  <2> QED
    BY <1>1, <2>1 DEF KeyOK
<1>5. KeyOK(cache, i, Hit(h, now), d, now)
  <2>1. Admits(i, d, d, now)
    BY DEF Admits
  <2> QED
    BY <1>1, <2>1, Counted DEF i
<1>6. KeyOK(cache, counter'[k], hits'[k], admitted'[k], now)
  BY <1>3, <1>4, <1>5
<1>7. counter'[k] \in Counter
  BY <1>6 DEF KeyOK, CounterOK
<1> QED
  BY <1>2, <1>6, <1>7, OneKeyCounted DEF i, c

(* the janitor                                                               *)
LEMMA JanitorStep ==
  ASSUME LimiterInv, Janitor
  PROVE  LimiterInv'
<1>1. /\ UNCHANGED <<cache, now, hits, admitted>>
      /\ counter' = [k \in RateKeys |-> IF now > counter[k].expires
                                            THEN NoCounter ELSE counter[k]]
  BY DEF Janitor
<1>2. NoCounter \in Counter /\ NoCounter.expires = -1
  BY DEF NoCounter, Nil, Counter
<1>3. ASSUME NEW k \in RateKeys
      PROVE  KeyOK(cache, counter'[k], hits[k], admitted[k], now)
  <2>1. KeyOK(cache, counter[k], hits[k], admitted[k], now) /\ now \in Times
    BY DEF LimiterInv
  <2>2. CASE now > counter[k].expires
    <3>1. counter'[k] = NoCounter
      BY <1>1, <2>2
    <3>2. /\ CounterOK(counter[k], now) /\ Log(hits[k], now) /\ Log(admitted[k], now)
          /\ cache = "redis" => RedisOK(counter[k], hits[k], admitted[k], now)
          /\ cache = "memory" => MemoryOK(counter[k], hits[k], admitted[k], now)
      BY <2>1 DEF KeyOK
    <3>3. CounterOK(NoCounter, now)
      BY <1>2 DEF CounterOK
    <3>4. /\ cache = "redis" => RedisOK(NoCounter, hits[k], admitted[k], now)
          /\ cache = "memory" => MemoryOK(NoCounter, hits[k], admitted[k], now)
      BY <2>1, <2>2, <3>2, Lapses
    <3> QED
      BY <3>1, <3>2, <3>3, <3>4 DEF KeyOK
  <2>3. CASE ~(now > counter[k].expires)
    BY <1>1, <2>1, <2>3
  <2> QED
    BY <2>2, <2>3
<1>4. counter' \in [RateKeys -> Counter]
  BY <1>1, <1>2 DEF LimiterInv
<1> QED
  BY <1>1, <1>3, <1>4 DEF LimiterInv

(* and the clock keep LimiterInv,                                            *)
LEMMA TickStep ==
  ASSUME LimiterInv, Tick
  PROVE  LimiterInv'
<1>1. /\ now < MaxTime /\ now' = now + 1 /\ now \in Times /\ MaxTime \in Nat
      /\ UNCHANGED <<cache, counter, hits, admitted>>
  BY LimitTypes DEF Tick, LimiterInv
<1>2. now + 1 \in Times /\ now \in Nat
  BY <1>1 DEF Times
<1>3. ASSUME NEW k \in RateKeys
      PROVE  KeyOK(cache, counter[k], hits[k], admitted[k], now + 1)
  <2> DEFINE c == counter[k]
             h == hits[k]
             d == admitted[k]
  <2>1. /\ CounterOK(c, now) /\ Log(h, now) /\ Log(d, now)
        /\ cache = "redis" => RedisOK(c, h, d, now)
        /\ cache = "memory" => MemoryOK(c, h, d, now)
    BY DEF LimiterInv, KeyOK
  <2> HIDE DEF c, h, d
  <2>2. Log(h, now + 1) /\ Log(d, now + 1)
    BY <1>1, <1>2, <2>1 DEF Log
  <2>3. CounterOK(c, now + 1)
    <3>1. c.expires = -1 \/ c.expires <= (now + 1) + Window
      BY LimitTypes, <1>2, <2>1 DEF CounterOK, Counter
    <3> QED
      BY <2>1, <3>1 DEF CounterOK
  <2>4. /\ cache = "redis" => RedisOK(c, h, d, now + 1)
        /\ cache = "memory" => MemoryOK(c, h, d, now + 1)
    BY <1>1, <2>1, MemoryTicks, RedisTicks
  <2> QED
    BY <2>2, <2>3, <2>4 DEF KeyOK, c, h, d
<1> QED
  BY <1>1, <1>2, <1>3 DEF LimiterInv

(* and so does every step.                                                   *)
LEMMA LimiterStep ==
  ASSUME LimiterInv, [RateNext]_rateVars
  PROVE  LimiterInv'
<1>1. CASE UNCHANGED rateVars
  <2>1. UNCHANGED <<cache, now, counter, hits, admitted>>
    BY <1>1 DEF rateVars
  <2> QED
    BY <2>1 DEF LimiterInv
<1>2. CASE RateNext
  BY <1>2, LimitStep, FailOpenStep, JanitorStep, TickStep DEF RateNext
<1> QED
  BY <1>1, <1>2

(* The limiter keeps LimiterInv, for any addresses, paths, limit, window and *)
(* pace of requests, over either cache.                                      *)
THEOREM LimiterSafe == RateSpec => []LimiterInv
<1>1. RateInit => LimiterInv
  BY LimiterStarts
<1>2. LimiterInv /\ [RateNext]_rateVars => LimiterInv'
  BY LimiterStep
<1> QED
  BY <1>1, <1>2, PTL DEF RateSpec

(* What the properties count is a total since the window began.              *)
LEMMA RecentIs ==
  ASSUME now \in Times, NEW log, NEW k
  PROVE  Recent(log, k) = Total(log[k], now, now - Window + 1)
<1>1. {t \in 0 .. now : t > now - Window} = Since(now, now - Window + 1)
  BY LimitTypes DEF Since, Times
<1> QED
  BY <1>1 DEF Recent, Total

(* LimiterInv bounds what a window admits.                                   *)
LEMMA LimiterBound == LimiterInv => BoundPerWindow
<1> SUFFICES ASSUME LimiterInv, NEW k \in RateKeys
             PROVE  Recent(admitted, k)
                      <= (IF cache = "redis" THEN 1 ELSE 2) * MaxRequests
  BY DEF BoundPerWindow
<1> DEFINE c == counter[k]
           h == hits[k]
           d == admitted[k]
           n == now
           e == c.expires
           a == n - Window + 1
<1>1. /\ cache \in {"memory", "redis"} /\ n \in Times /\ CounterOK(c, n) /\ Log(d, n)
      /\ cache = "redis" => RedisOK(c, h, d, n)
      /\ cache = "memory" => MemoryOK(c, h, d, n)
  BY DEF LimiterInv, KeyOK
<1>2. Recent(admitted, k) = Total(d, n, a)
  BY <1>1, RecentIs
<1>3. c.count \in Nat /\ e \in Int /\ (e = -1 \/ e <= n + Window)
  BY <1>1, CounterFields
<1>4. /\ n \in Nat /\ MaxTime \in Nat /\ Window \in Nat \ {0} /\ MaxRequests \in Nat
      /\ d \in [Times -> Nat]
  BY LimitTypes, <1>1 DEF Times, Log
<1>5. a \in Int /\ n - Window \in Int /\ n - Window <= a
  BY <1>4
<1>6. Total(d, n, a) \in Nat
  BY <1>1, <1>4, <1>5, TotalFacts
<1>7. ASSUME cache = "memory" PROVE Total(d, n, a) <= 2 * MaxRequests
  <2>1. CASE e = -1
    <3>1. Total(d, n, n - Window) <= MaxRequests
      BY <1>1, <1>7, <2>1 DEF MemoryOK
    <3> HIDE DEF a, n, d
    <3>2. Total(d, n, a) <= Total(d, n, n - Window) /\ Total(d, n, n - Window) \in Nat
      BY <1>1, <1>4, <1>5, TotalFacts
    <3> QED
      BY <1>4, <1>6, <3>1, <3>2
  <2>2. CASE e # -1
    <3>1. Total(d, n, (e - Window) - Window) <= 2 * MaxRequests
      BY <1>1, <1>7, <2>2 DEF MemoryOK
    <3> HIDE DEF n, d, e
    <3>2. (e - Window) - Window \in Int /\ (e - Window) - Window <= a
      BY <1>3, <1>4, <2>2
    <3> HIDE DEF a
    <3>3. /\ Total(d, n, a) <= Total(d, n, (e - Window) - Window)
          /\ Total(d, n, (e - Window) - Window) \in Nat
      BY <1>1, <1>4, <1>5, <3>2, TotalFacts
    <3> QED
      BY <1>4, <1>6, <3>1, <3>3
  <2> QED
    BY <2>1, <2>2
<1>8. ASSUME cache = "redis" PROVE Total(d, n, a) <= MaxRequests
  <2>1. CASE e = -1
    BY <1>1, <1>4, <1>8, <2>1 DEF RedisOK
  <2>2. CASE e # -1 /\ n <= e
    BY <1>1, <1>4, <1>8, <2>2 DEF RedisOK
  <2>3. CASE e # -1 /\ e < n
    <3>1. Total(d, n, e - Window + 1) = 0
      BY <1>1, <1>8, <2>3 DEF RedisOK
    <3> HIDE DEF n, d, e
    <3>2. e - Window + 1 \in Int /\ e - Window + 1 <= a
      BY <1>3, <1>4, <2>3
    <3> HIDE DEF a
    <3>3. Total(d, n, a) <= Total(d, n, e - Window + 1)
      BY <1>1, <1>4, <1>5, <3>2, TotalFacts
    <3> QED
      BY <1>4, <1>6, <3>1, <3>3
  <2> QED
    <3>1. e = -1 \/ (e # -1 /\ n <= e) \/ (e # -1 /\ e < n)
      BY <1>3, <1>4
    <3> QED
      BY <2>1, <2>2, <2>3, <3>1
<1> QED
  BY <1>1, <1>2, <1>4, <1>6, <1>7, <1>8

(* BoundPerWindow: in no window are more requests admitted for a key than    *)
(* the limit by Redis, or than twice the limit by the memory cache.          *)
THEOREM AtMostTwoLimits == RateSpec => []BoundPerWindow
BY LimiterSafe, LimiterBound, PTL

(* Only a request that the limiter counts beyond the limit is refused.       *)
LEMMA RefusedIs ==
  ASSUME LimiterInv, [RateNext]_rateVars, NEW k \in RateKeys,
         Refuses(k)
  PROVE  /\ Exceeds(Incremented(counter[k]).count)
         /\ counter[k].expires # -1 /\ counter[k].count >= MaxRequests
         /\ cache = "memory" => now < counter[k].expires
         /\ cache = "redis" => now <= counter[k].expires
<1>1. hits'[k] # hits[k] /\ answer' = "refused"
  BY DEF Refuses
<1>2. ~UNCHANGED rateVars /\ ~Janitor /\ ~Tick
  BY <1>1 DEF rateVars, Janitor, Tick
<1>3. PICK j \in RateKeys : Limit(j) \/ FailOpen(j)
  BY <1>2 DEF RateNext
<1>4. j = k /\ ~FailOpen(j)
  <2>1. hits' = [hits EXCEPT ![j][now] = @ + 1]
    BY <1>3 DEF Limit, FailOpen, Arrives
  <2>2. j # k => hits'[k] = hits[k]
    BY <2>1 DEF LimiterInv
  <2>3. ~FailOpen(j)
    BY <1>1 DEF FailOpen
  <2> QED
    BY <1>1, <2>2, <2>3
<1>5. Exceeds(Incremented(counter[k]).count)
  BY <1>1, <1>3, <1>4 DEF Limit
<1> DEFINE c == counter[k]
<1>6. CounterOK(c, now) /\ cache \in {"memory", "redis"} /\ now \in Times
  BY DEF LimiterInv, KeyOK
<1>7. c.count \in Nat /\ c.expires \in Int /\ GoesOn(c, c.expires).count = c.count + 1
      /\ GoesOn(c, now + Window).count = c.count + 1
  BY <1>6, CounterFields
<1>8. ~Exceeds(Begins(now).count)
  BY LimitTypes DEF Begins, Exceeds
<1> DEFINE i == Incremented(c)
<1>9. /\ cache = "memory" => IF c.expires # -1 /\ now < c.expires
                               THEN i = GoesOn(c, c.expires) ELSE i = Begins(now)
      /\ cache = "redis" => IF c.expires # -1 /\ now <= c.expires
                              THEN i = GoesOn(c, now + Window) ELSE i = Begins(now)
  BY <1>6, IncrementedIs
<1>10. Exceeds(i.count)
  BY <1>5
<1> HIDE DEF c, i
<1>11. i.count = c.count + 1 /\ c.expires # -1 /\ (cache = "memory" => now < c.expires)
       /\ (cache = "redis" => now <= c.expires)
  BY <1>6, <1>7, <1>8, <1>9, <1>10
<1>12. c.count >= MaxRequests
  BY LimitTypes, <1>7, <1>10, <1>11 DEF Exceeds
<1> QED
  BY <1>5, <1>11, <1>12 DEF c

(* A request that the memory cache refuses is one too many.                  *)
LEMMA OverLimit ==
  ASSUME LimiterInv, [RateNext]_rateVars, cache = "memory",
         NEW k \in RateKeys, Refuses(k)
  PROVE  ~UnderLimit(k)
<1> DEFINE c == counter[k]
           h == hits[k]
           n == now
           s == c.expires - Window
           a == n - Window + 1
<1>1. c.expires # -1 /\ c.count >= MaxRequests /\ n < c.expires
  BY RefusedIs
<1>2. /\ n \in Times /\ CounterOK(c, n) /\ Log(h, n)
      /\ MemoryOK(c, h, admitted[k], n)
  BY DEF LimiterInv, KeyOK
<1>3. c.count \in Nat /\ c.expires \in Int
  BY <1>2, CounterFields
<1>4. /\ n \in Nat /\ MaxTime \in Nat /\ Window \in Nat /\ MaxRequests \in Nat
      /\ h \in [Times -> Nat]
  BY LimitTypes, <1>2 DEF Times, Log
<1>5. c.count <= Total(h, n, s)
  BY <1>1, <1>2 DEF MemoryOK
<1>6. Recent(hits, k) = Total(h, n, a)
  BY <1>2, RecentIs
<1> HIDE DEF c, h, n
<1>7. s \in Int /\ a \in Int /\ a <= s
  BY <1>1, <1>3, <1>4
<1> HIDE DEF s, a
<1>8. Total(h, n, s) <= Total(h, n, a) /\ Total(h, n, a) \in Nat /\ Total(h, n, s) \in Nat
  BY <1>2, <1>4, <1>7, TotalFacts
<1>9. ~(Total(h, n, a) + 1 <= MaxRequests)
  BY <1>1, <1>3, <1>4, <1>5, <1>8
<1> QED
  BY <1>6, <1>9 DEF UnderLimit

(* RefusedOnlyOverLimit: the memory cache refuses only a request that is one *)
(* too many for the window that ends with it.                                *)
THEOREM MemoryRefusesOnlyOverLimit == RateSpec => RefusedOnlyOverLimit
<1>1. LimiterInv /\ [RateNext]_rateVars =>
        [cache = "memory" => \A k \in RateKeys :
           Refuses(k) => ~UnderLimit(k)]_rateVars
  BY OverLimit
<1> QED
  BY LimiterSafe, <1>1, PTL DEF RateSpec, RefusedOnlyOverLimit

(* Where the requests that led to a refusal began.                           *)
LEMMA OnlyWhenBusy ==
  ASSUME LimiterInv, [RateNext]_rateVars,
         NEW k \in RateKeys, Refuses(k)
  PROVE  \E first \in 0 .. now :
           /\ BusySince(k, first)
           /\ SumFunctionOnSet(hits[k], first .. now) >= MaxRequests
<1> DEFINE c == counter[k]
           h == hits[k]
           n == now
           e == c.expires
<1>1. /\ e # -1 /\ c.count >= MaxRequests
      /\ (cache = "memory" => n < e) /\ (cache = "redis" => n <= e)
  BY RefusedIs
<1>2. /\ n \in Times /\ CounterOK(c, n) /\ Log(h, n) /\ cache \in {"memory", "redis"}
      /\ cache = "memory" => MemoryOK(c, h, admitted[k], n)
      /\ cache = "redis" => RedisOK(c, h, admitted[k], n)
  BY DEF LimiterInv, KeyOK
<1>3. c.count \in Nat /\ e \in Int /\ Window <= e /\ e <= n + Window
  BY <1>1, <1>2, CounterFields
<1>4. /\ n \in Nat /\ MaxTime \in Nat /\ Window \in Nat /\ MaxRequests \in Nat
      /\ h \in [Times -> Nat]
  BY LimitTypes, <1>2 DEF Times, Log
<1>5. \E first \in 0 .. n : /\ c.count <= Total(h, n, first)
                             /\ Train(h, n, first, e - Window)
  <2>1. CASE cache = "memory"
    <3>1. c.count <= Total(h, n, e - Window)
      BY <1>1, <1>2, <2>1 DEF MemoryOK
    <3> HIDE DEF e, n
    <3>2. e - Window \in 0 .. n
      BY <1>3, <1>4
    <3>3. Train(h, n, e - Window, e - Window)
      BY <1>3, <1>4 DEF Train
    <3> QED
      BY <3>1, <3>2, <3>3
  <2>2. CASE cache = "redis"
    BY <1>1, <1>2, <2>2 DEF RedisOK
  <2> QED
    BY <1>2, <2>1, <2>2
<1>6. PICK first \in 0 .. n : /\ c.count <= Total(h, n, first)
                               /\ Train(h, n, first, e - Window)
  BY <1>5
<1>7. n <= e
  BY <1>1, <1>2, <1>3, <1>4
<1>8. ASSUME NEW t \in first .. n - Window - 1
      PROVE  \E u \in t + 1 .. t + Window : h[u] > 0
  <2> HIDE DEF n, e, h
  <2>1. t \in first .. (e - Window) - 1
    BY <1>3, <1>4, <1>6, <1>7
  <2>2. PICK u \in t + 1 .. n : u <= t + Window /\ h[u] > 0
    BY <1>6, <2>1 DEF Train
  <2>3. u \in t + 1 .. t + Window
    BY <1>3, <1>4, <1>6, <2>1, <2>2
  <2> QED
    BY <2>2, <2>3
<1>9. BusySince(k, first)
  BY <1>8 DEF BusySince
<1>10. first .. n = Since(n, first)
  BY <1>4, <1>6 DEF Since
<1>11. SumFunctionOnSet(h, first .. n) = Total(h, n, first)
  BY <1>10 DEF Total
<1>12. Total(h, n, first) >= MaxRequests
  <2> HIDE DEF c, h, n
  <2>1. first \in Int
    BY <1>4, <1>6
  <2>2. Total(h, n, first) \in Nat
    BY <1>2, <1>4, <2>1, TotalFacts
  <2> QED
    BY <1>1, <1>3, <1>4, <1>6, <2>2
<1> QED
  BY <1>6, <1>9, <1>11, <1>12

(* RefusedOnlyWhenBusy: over either cache a refusal comes only after as many *)
(* requests as the limit, with no quiet window among them.                   *)
THEOREM EitherRefusesOnlyWhenBusy == RateSpec => RefusedOnlyWhenBusy
<1>1. LimiterInv /\ [RateNext]_rateVars =>
        [\A k \in RateKeys : Refuses(k) =>
           \E first \in 0 .. now :
             /\ BusySince(k, first)
             /\ SumFunctionOnSet(hits[k], first .. now)
                  >= MaxRequests]_rateVars
  BY OnlyWhenBusy
<1> QED
  BY LimiterSafe, <1>1, PTL DEF RateSpec, RefusedOnlyWhenBusy
=============================================================================
