---------------------------- MODULE RunnerProofs ----------------------------
(* Safety of the runner, for every number of attempts.                       *)
EXTENDS Runner, TLAPS

(* What is still to come of a health check that may retry: a timer is one    *)
(* probe, an idle answer one retry, an unanswered probe two.  Once attempts  *)
(* are exhausted only the pending timers are left.                           *)
Budget ==
  /\ attempts >= 1
  /\ ~Exhausted => timers + 2 * probing + unread <= attempts + 1
  /\ Exhausted => attempts + timers < 2 * MaxAttempts

(* Who runs after the shutdown began was started after it.                   *)
Told ==
  /\ shuttingDown => /\ backend # "running"
                     /\ frontend = "running" => launchedLate
  /\ runner = "stopped" => shuttingDown

RunnerInv == TypeOK /\ Budget /\ Told

LEMMA RunnerInit == Init => RunnerInv
<1> SUFFICES ASSUME Init PROVE RunnerInv
  OBVIOUS
<1>1. TypeOK
  BY DEF Init, TypeOK, Children
<1>2. Budget
  BY AttemptsType DEF Init, Budget, Exhausted
<1>3. Told
  BY DEF Init, Told
<1> QED
  BY <1>1, <1>2, <1>3 DEF RunnerInv

LEMMA SettleOK ==
  ASSUME TypeOK, Told, Up, Settle, UNCHANGED <<shuttingDown, backend>>
  PROVE  /\ Told' /\ settled' \in BOOLEAN /\ launchedLate' \in BOOLEAN
         /\ runner' \in {"up", "stopped", "failed"} /\ frontend' \in Children
BY DEF Settle, TypeOK, Told, Children, Up, start

LEMMA RetryOK ==
  ASSUME TypeOK, Told, Up, NEW n \in {1, 2}, Retry(n),
         UNCHANGED <<shuttingDown, backend>>
  PROVE  /\ Told' /\ settled' \in BOOLEAN /\ launchedLate' \in BOOLEAN
         /\ runner' \in {"up", "stopped", "failed"} /\ frontend' \in Children
         /\ timers' \in Nat
         /\ timers' = IF Exhausted THEN timers ELSE timers + n
<1>1. CASE Exhausted
  BY <1>1, SettleOK DEF Retry, TypeOK
<1>2. CASE ~Exhausted
  BY <1>2 DEF Retry, TypeOK, Told, start
<1> QED
  BY <1>1, <1>2

LEMMA RunnerStep == RunnerInv /\ [Next]_vars => RunnerInv'
<1> SUFFICES ASSUME RunnerInv, [Next]_vars PROVE RunnerInv'
  OBVIOUS
<1> USE AttemptsType DEF RunnerInv
<1>1. CASE Check
  BY <1>1 DEF Check, TypeOK, Budget, Told, Exhausted, start
<1>2. CASE Answer
  <2>1. /\ probing > 0 /\ probing' = probing - 1 /\ unread' = unread + 1
        /\ UNCHANGED <<shuttingDown, backend, attempts>> /\ Up
    BY <1>2 DEF Answer
  <2>2. CASE Settle /\ UNCHANGED timers
    BY <2>1, <2>2, SettleOK DEF TypeOK, Budget, Exhausted
  <2>3. CASE Retry(1)
    <3>1. /\ TypeOK' /\ Told'
          /\ timers' = IF Exhausted THEN timers ELSE timers + 1
      BY <2>1, <2>3, RetryOK DEF TypeOK
    <3> QED
      BY <2>1, <3>1 DEF TypeOK, Budget, Exhausted
  <2> QED
    BY <1>2, <2>2, <2>3 DEF Answer
<1>3. CASE Fail
  <2>1. /\ probing > 0 /\ probing' = probing - 1
        /\ UNCHANGED <<shuttingDown, backend, attempts, unread>> /\ Up
    BY <1>3 DEF Fail
  <2>2. PICK n \in {1, 2} : Retry(n)
    BY <1>3 DEF Fail
  <2>3. /\ TypeOK' /\ Told'
        /\ timers' = IF Exhausted THEN timers ELSE timers + n
    BY <2>1, <2>2, RetryOK DEF TypeOK
  <2> QED
    BY <2>1, <2>3 DEF TypeOK, Budget, Exhausted
<1>4. CASE IdleTimeout
  <2>1. /\ unread > 0 /\ unread' = unread - 1
        /\ UNCHANGED <<shuttingDown, backend, attempts, probing>> /\ Up
    BY <1>4 DEF IdleTimeout
  <2>2. CASE Retry(1)
    <3>1. /\ TypeOK' /\ Told'
          /\ timers' = IF Exhausted THEN timers ELSE timers + 1
      BY <2>1, <2>2, RetryOK DEF TypeOK
    <3> QED
      BY <2>1, <3>1 DEF TypeOK, Budget, Exhausted
  <2>3. CASE UNCHANGED <<runner, timers, start>>
    BY <2>1, <2>3 DEF TypeOK, Budget, Exhausted, Told, start
  <2> QED
    BY <1>4, <2>2, <2>3 DEF IdleTimeout
<1>5. CASE Signal
  BY <1>5 DEF Signal, Shutdown, Killed, TypeOK, Budget, Told, Exhausted, Children,
              probes
<1>6. CASE BackendDies \/ FrontendDies
  BY <1>6 DEF BackendDies, FrontendDies, Dies, TypeOK, Budget, Told, Exhausted,
              Children, probes, start
<1>7. CASE BackendExit \/ FrontendExit
  <2>1. CASE BackendExit
    BY <2>1 DEF BackendExit, Shutdown, Killed, TypeOK, Budget, Told, Exhausted,
                Children, probes
  <2>2. CASE FrontendExit
    BY <2>2 DEF FrontendExit, Shutdown, Killed, TypeOK, Budget, Told, Exhausted,
                Children, probes
  <2> QED
    BY <1>7, <2>1, <2>2
<1>8. CASE ExitTimer
  BY <1>8 DEF ExitTimer, TypeOK, Budget, Told, Exhausted, probes, start
<1>9. CASE UNCHANGED vars
  BY <1>9 DEF vars, probes, start, TypeOK, Budget, Told, Exhausted
<1> QED
  BY <1>1, <1>2, <1>3, <1>4, <1>5, <1>6, <1>7, <1>8, <1>9 DEF Next

LEMMA RunnerInvariance == Spec => []RunnerInv
BY RunnerInit, RunnerStep, PTL DEF Spec

(* The health check sends fewer than twice the probes it was allowed.        *)
THEOREM ProbesAreBounded == Spec => []ProbesBounded
<1>1. RunnerInv => ProbesBounded
  BY AttemptsType DEF RunnerInv, TypeOK, Budget, Exhausted, ProbesBounded
<1> QED
  BY <1>1, RunnerInvariance, PTL

(* A runner that stopped told every child that was started in time.          *)
THEOREM ChildrenAreTold == Spec => []ChildrenTold
<1>1. RunnerInv => ChildrenTold
  BY DEF RunnerInv, Told, ChildrenTold
<1> QED
  BY <1>1, RunnerInvariance, PTL
=============================================================================
