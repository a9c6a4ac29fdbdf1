------------------------- MODULE WebhookServiceProofs -------------------------
(* The webhook service implements its contract, for any number of events and *)
(* any capacity: every step is a step of the contract or changes nothing it  *)
(* speaks of.  The contract's progress is left to TLC.                       *)
EXTENDS WebhookService, TLAPS, SequenceTheorems

TypeOK == queue \in Seq(Events) /\ job \in Events \cup {NoJob}

LEMMA TypeInit == Init => TypeOK
BY EmptySeq DEF Init, TypeOK

LEMMA TypeStep == TypeOK /\ [Next]_vars => TypeOK'
<1> SUFFICES ASSUME TypeOK, [Next]_vars PROVE TypeOK'
  OBVIOUS
<1>1. CASE \E e \in Events : Dispatch(e)
  BY <1>1, AppendProperties DEF Dispatch, TypeOK
<1>2. CASE Take
  BY <1>2, HeadTailProperties DEF Take, TypeOK
<1>3. CASE Send \/ Stop \/ UNCHANGED vars
  BY <1>3, EmptySeq DEF Send, Stop, vars, TypeOK
<1> QED
  BY <1>1, <1>2, <1>3 DEF Next

(* Putting one element before a sequence, and taking it off again.           *)
LEMMA Cons ==
  ASSUME NEW S, NEW x \in S, NEW q \in Seq(S)
  PROVE  /\ <<x>> \o q \in Seq(S) /\ <<x>> \o q # <<>>
         /\ Len(<<x>> \o q) = 1 + Len(q)
         /\ Head(<<x>> \o q) = x /\ Tail(<<x>> \o q) = q
<1> DEFINE one == <<x>>
           s == one \o q
<1>1. one \in Seq(S) /\ Len(one) = 1 /\ one[1] = x
  OBVIOUS
<1>2. Len(q) \in Nat
  BY LenProperties
<1> HIDE DEF one
<1>3. /\ s \in Seq(S) /\ Len(s) = 1 + Len(q)
      /\ \A i \in 1 .. 1 + Len(q) : s[i] = IF i <= 1 THEN one[i] ELSE q[i - 1]
  <2>1. /\ s \in Seq(S) /\ Len(s) = Len(one) + Len(q)
        /\ \A i \in 1 .. Len(one) + Len(q) :
             s[i] = IF i <= Len(one) THEN one[i] ELSE q[i - Len(one)]
    BY <1>1, ConcatProperties, Zenon
  <2> QED
    BY <1>1, <2>1, Zenon
<1> HIDE DEF s
<1>4. s # <<>>
  BY <1>2, <1>3
<1>5. Head(s) = x
  <2>1. s[1] = one[1]
    BY <1>2, <1>3
  <2> QED
    BY <1>1, <1>3, <1>4, <2>1
<1>6. Tail(s) \in Seq(S) /\ Len(Tail(s)) = Len(q)
      /\ \A i \in 1 .. Len(q) : Tail(s)[i] = q[i]
  BY <1>2, <1>3, <1>4, HeadTailProperties
<1>7. Tail(s) = q
  BY <1>6, SeqEqual
<1> QED
  BY <1>3, <1>4, <1>5, <1>7 DEF s, one

LEMMA Uncons ==
  ASSUME NEW S, NEW q \in Seq(S), q # <<>>
  PROVE  <<Head(q)>> \o Tail(q) = q
<1> DEFINE s == <<Head(q)>> \o Tail(q)
<1>1. Head(q) \in S /\ Tail(q) \in Seq(S) /\ Len(Tail(q)) = Len(q) - 1
      /\ \A i \in 1 .. Len(Tail(q)) : Tail(q)[i] = q[i + 1]
  BY HeadTailProperties
<1>2. Len(q) \in Nat /\ Len(q) > 0
  BY EmptySeq
<1>3. /\ s \in Seq(S) /\ s # <<>> /\ Len(s) = Len(q)
      /\ Head(s) = Head(q) /\ Tail(s) = Tail(q)
  BY <1>1, <1>2, Cons
<1> HIDE DEF s
<1>4. \A i \in 1 .. Len(Tail(s)) : Tail(s)[i] = s[i + 1]
  BY <1>3, HeadTailProperties
<1>5. \A i \in 1 .. Len(s) : s[i] = q[i]
  <2> SUFFICES ASSUME NEW i \in 1 .. Len(s) PROVE s[i] = q[i]
    OBVIOUS
  <2>1. CASE i = 1
    BY <1>3, <2>1
  <2>2. CASE i # 1
    <3>1. i - 1 \in 1 .. Len(Tail(q)) /\ (i - 1) + 1 = i
      BY <1>1, <1>2, <1>3, <2>2
    <3> QED
      BY <1>1, <1>3, <1>4, <3>1
  <2> QED
    BY <2>1, <2>2
<1>6. s = q
  BY <1>3, <1>5, SeqEqual
<1> QED
  BY <1>6 DEF s

(* Each step, seen by the contract.                                          *)
LEMMA ContractStep ==
  TypeOK /\ [Next]_vars => [Contract!Next]_(Contract!contract)
<1> SUFFICES ASSUME TypeOK, [Next]_vars
             PROVE  Contract!Next \/ UNCHANGED Contract!contract
  OBVIOUS
<1> USE DEF TypeOK
<1>0. job = NoJob \/ job \in Events
  OBVIOUS
<1>1. CASE \E e \in Events : Dispatch(e)
  <2> PICK e \in Events : Dispatch(e)
    BY <1>1
  <2>1. Len(Waiting) >= Len(queue)
    BY <1>0, LenProperties, Cons DEF Waiting
  <2>2. CASE Full(queue)
    <3>1. Len(Waiting) >= Capacity
      <4>1. Len(queue) \in Nat /\ Len(Waiting) \in Nat
        BY <1>0, LenProperties, Cons DEF Waiting
      <4> QED
        BY <2>1, <2>2, <4>1, QueueTypes DEF Full
    <3>2. Contract!Drop(e)
      BY <2>2, <3>1 DEF Dispatch, Contract!Drop, Waiting
    <3> QED
      BY <3>2 DEF Contract!Next
  <2>3. CASE ~Full(queue)
    <3>1. queue' = Append(queue, e) /\ job' = job
      BY <2>3 DEF Dispatch
    <3>2. Waiting' = Append(Waiting, e)
      <4>1. CASE job = NoJob
        BY <3>1, <4>1 DEF Waiting
      <4>2. CASE job # NoJob
        <5>1. <<job>> \in Seq(Events) /\ <<e>> \in Seq(Events)
          BY <1>0, <4>2
        <5>2. Append(<<job>> \o queue, e) = (<<job>> \o queue) \o <<e>>
          BY <1>0, <4>2, Cons, AppendIsConcat
        <5>3. Append(queue, e) = queue \o <<e>>
          BY AppendIsConcat
        <5> QED
          BY <3>1, <4>2, <5>1, <5>2, <5>3, ConcatAssociative DEF Waiting
      <4> QED
        BY <4>1, <4>2
    <3>3. Contract!Accept(e)
      BY <2>3, <3>2 DEF Dispatch, Contract!Accept
    <3> QED
      BY <3>3 DEF Contract!Next
  <2> QED
    BY <2>2, <2>3
<1>2. CASE Take
  <2>1. Head(queue) \in Events /\ <<Head(queue)>> \o Tail(queue) = queue
    <3>1. queue \in Seq(Events) /\ queue # <<>>
      BY <1>2 DEF Take
    <3> QED
      BY <3>1, HeadTailProperties, Uncons
  <2>2. Waiting' = Waiting
    BY <1>2, <2>1, QueueTypes DEF Take, Waiting
  <2> QED
    BY <1>2, <2>2 DEF Take, Contract!contract
<1>3. CASE Send
  <2>1. job \in Events
    BY <1>0, <1>3 DEF Send
  <2>2. Waiting # <<>> /\ Head(Waiting) = job /\ Tail(Waiting) = queue
    BY <1>3, <2>1, Cons DEF Send, Waiting
  <2>3. Contract!Attempt
    BY <1>3, <2>2 DEF Send, Contract!Attempt, Waiting
  <2> QED
    BY <2>3 DEF Contract!Next
<1>4. CASE Stop
  BY <1>4 DEF Stop, Waiting, Contract!Next, Contract!Lose
<1>5. CASE UNCHANGED vars
  BY <1>5 DEF vars, Waiting, Contract!contract
<1> QED
  BY <1>1, <1>2, <1>3, <1>4, <1>5 DEF Next

(* Dispatch, worker and a stop of the server keep the contract: events are   *)
(* attempted in order and at most once, and dropped only under a full load.  *)
THEOREM ImplementsContract ==
  Init /\ [][Next]_vars => Contract!Init /\ [][Contract!Next]_(Contract!contract)
<1>1. Init => Contract!Init
  BY DEF Init, Contract!Init, Waiting
<1> QED
  BY <1>1, TypeInit, TypeStep, ContractStep, PTL
=============================================================================
