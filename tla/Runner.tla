------------------------------- MODULE Runner -------------------------------
(* index.js: the Node process that starts the backend, probes it until it    *)
(* answers, starts the frontend, and stops both on a signal or when one of   *)
(* them exits.  One action is one callback of the event loop, with the       *)
(* continuation of start that runs as soon as the health check settles.      *)
EXTENDS Integers

CONSTANT MaxAttempts   \* of waitForBackend (30 in the code)

ASSUME AttemptsType == MaxAttempts \in Nat \ {0}

VARIABLES
  runner,        \* "up", "stopped" (exit 0) or "failed" (exit 1)
  shuttingDown,  \* isShuttingDown; from then on the exit timer is set
  backend, frontend,   \* the child processes
  attempts,      \* probes sent so far
  probing,       \* probes without an answer
  unread,        \* probes answered, whose body nobody reads
  timers,        \* pending calls of check
  settled,       \* the promise of the health check is resolved or rejected
  launchedLate   \* history: the frontend was started during the shutdown

probes == <<attempts, probing, unread, timers>>
start  == <<settled, frontend, launchedLate>>
vars   == <<runner, shuttingDown, backend, probes, start>>

(* "dead": exited, and the runner has not been told; "failed": never ran.    *)
Children == {"none", "running", "failed", "terminating", "dead", "gone"}

TypeOK ==
  /\ runner \in {"up", "stopped", "failed"}
  /\ shuttingDown \in BOOLEAN /\ settled \in BOOLEAN /\ launchedLate \in BOOLEAN
  /\ backend \in Children \ {"none"} /\ frontend \in Children
  /\ attempts \in Nat /\ probing \in Nat /\ unread \in Nat /\ timers \in Nat

Init == /\ runner = "up" /\ shuttingDown = FALSE
        /\ backend \in {"running", "failed"} /\ frontend = "none"
        /\ attempts = 1 /\ probing = 1 /\ unread = 0 /\ timers = 0
        /\ settled = FALSE /\ launchedLate = FALSE
-----------------------------------------------------------------------------
Up == runner = "up"

(* The rest of start: ensureFrontendReady gives up with exit code 1, or the  *)
(* frontend is spawned.  It does not ask whether a shutdown has begun.       *)
Settle ==
  \/ settled /\ UNCHANGED <<runner, start>>
  \/ /\ ~settled /\ settled' = TRUE
     /\ \/ runner' = "failed" /\ UNCHANGED <<frontend, launchedLate>>
        \/ /\ frontend' \in {"running", "failed"}
           /\ launchedLate' = shuttingDown
           /\ UNCHANGED runner

Exhausted_OffByOne == attempts > MaxAttempts   \* seeded fault
Exhausted == attempts >= MaxAttempts

(* retry, called n times by one callback.                                    *)
Retry_Silent(n) ==   \* seeded fault
  /\ timers' = IF Exhausted THEN timers ELSE timers + n
  /\ UNCHANGED <<runner, start>>
Retry(n) ==
  \/ Exhausted /\ Settle /\ UNCHANGED timers
  \/ ~Exhausted /\ timers' = timers + n /\ UNCHANGED <<runner, start>>

Check ==
  /\ Up /\ timers > 0
  /\ timers' = timers - 1 /\ attempts' = attempts + 1 /\ probing' = probing + 1
  /\ UNCHANGED <<runner, shuttingDown, backend, unread, start>>

(* A probe is answered with 200 or 404, or with another status.              *)
Answer ==
  /\ Up /\ probing > 0
  /\ probing' = probing - 1 /\ unread' = unread + 1
  /\ \/ Settle /\ UNCHANGED timers
     \/ Retry(1)
  /\ UNCHANGED <<shuttingDown, backend, attempts>>

(* The connection fails, or is idle for 400 ms: then destroy() makes the     *)
(* request fail too, and retry is called for both.                           *)
Fail ==
  /\ Up /\ probing > 0
  /\ probing' = probing - 1
  /\ Retry(1) \/ Retry(2)
  /\ UNCHANGED <<shuttingDown, backend, attempts, unread>>

(* The timeout is still set on a connection whose answer nobody reads; or    *)
(* the backend closes the connection before.                                 *)
IdleTimeout ==
  /\ Up /\ unread > 0
  /\ unread' = unread - 1
  /\ Retry(1) \/ UNCHANGED <<runner, timers, start>>
  /\ UNCHANGED <<shuttingDown, backend, attempts, probing>>

Killed(child) == IF child = "running" THEN "terminating" ELSE child

(* shutdown, for children in the states b and f: the first call tells both   *)
(* to terminate and sets the exit timer, later ones do nothing.              *)
Shutdown_BackendOnly(b, f) ==   \* seeded fault
  /\ shuttingDown' = TRUE
  /\ backend' = IF shuttingDown THEN b ELSE Killed(b)
  /\ frontend' = f
Shutdown(b, f) ==
  /\ shuttingDown' = TRUE
  /\ backend'  = IF shuttingDown THEN b ELSE Killed(b)
  /\ frontend' = IF shuttingDown THEN f ELSE Killed(f)

Signal ==
  /\ Up /\ Shutdown(backend, frontend)
  /\ UNCHANGED <<runner, probes, settled, launchedLate>>

(* A child exits by itself, or because it was told to; outside the runner.   *)
Dies(child) == child \in {"running", "terminating"}
BackendDies == /\ Dies(backend) /\ backend' = "dead"
               /\ UNCHANGED <<runner, shuttingDown, probes, start>>
FrontendDies == /\ Dies(frontend) /\ frontend' = "dead"
                /\ UNCHANGED <<runner, shuttingDown, backend, probes, settled,
                               launchedLate>>

(* The exit events.                                                          *)
BackendExit ==
  /\ Up /\ backend = "dead" /\ Shutdown("gone", frontend)
  /\ UNCHANGED <<runner, probes, settled, launchedLate>>
FrontendExit_Ignored ==   \* seeded fault
  /\ Up /\ frontend = "dead" /\ frontend' = "gone"
  /\ UNCHANGED <<runner, shuttingDown, backend, probes, settled, launchedLate>>
FrontendExit ==
  /\ Up /\ frontend = "dead" /\ Shutdown(backend, "gone")
  /\ UNCHANGED <<runner, probes, settled, launchedLate>>

(* The timer of shutdown, one second later: exit code 0.                     *)
ExitTimer ==
  /\ Up /\ shuttingDown /\ runner' = "stopped"
  /\ UNCHANGED <<shuttingDown, backend, probes, start>>

Next == Check \/ Answer \/ Fail \/ IdleTimeout \/ Signal \/ BackendDies
        \/ FrontendDies \/ BackendExit \/ FrontendExit \/ ExitTimer

(* The event loop runs every timer, socket and exit event in the end.  A     *)
(* probe ends by its own timeout.  Children exit when they please.           *)
Fairness == /\ WF_vars(Check) /\ WF_vars(Answer \/ Fail) /\ WF_vars(IdleTimeout)
            /\ WF_vars(BackendExit) /\ WF_vars(FrontendExit) /\ WF_vars(ExitTimer)

Spec == Init /\ [][Next]_vars /\ Fairness
-----------------------------------------------------------------------------
(* PROPERTIES *)

(* A probe that times out retries twice, and answered probes retry once more *)
(* when their connection idles; even so the health check sends fewer than    *)
(* twice the probes it was allowed.                                          *)
ProbesBounded == attempts < 2 * MaxAttempts

(* When the runner ends with "All services stopped" it has told every child  *)
(* to terminate that was started before the shutdown began.                  *)
ChildrenTold ==
  runner = "stopped" => /\ backend # "running"
                        /\ frontend = "running" => launchedLate

(* The exit of either child ends the runner.                                 *)
DeathEndsService ==
  /\ backend = "dead" ~> runner # "up"
  /\ frontend = "dead" ~> runner # "up"

(* The health check settles: the frontend is started, backend or not, or the *)
(* runner ends.                                                              *)
StartSettles == <>(settled \/ runner # "up")
=============================================================================
