--------------------------- MODULE WebhookService ---------------------------
(* WebhookService: Dispatch puts an event on a bounded channel and never     *)
(* waits; one worker goroutine takes the events off and sends each with a    *)
(* client that gives up after five seconds.                                  *)
EXTENDS Naturals, Sequences

CONSTANTS
  Events,      \* the events logins raise
  Hooked,      \* those of applications with a webhook URL
  Capacity,    \* of the channel (1000 in the code)
  NoJob        \* the worker is waiting for a job

ASSUME QueueTypes == Hooked \subseteq Events /\ Capacity \in Nat /\ NoJob \notin Events

VARIABLES
  queue,       \* the channel
  job,         \* the event the worker is sending, or NoJob
  raised,      \* history: events Dispatch was called with and a URL
  attempted,   \* history: events whose sending ended
  dropped      \* history: events the full channel turned away

vars == <<queue, job, raised, attempted, dropped>>

Init == /\ queue = <<>> /\ job = NoJob
        /\ raised = {} /\ attempted = {} /\ dropped = {}

Full_Early(q) == Len(q) + 1 >= Capacity   \* seeded fault
Full(q) == Len(q) >= Capacity

(* The select of Dispatch: into the channel if there is room, else dropped.  *)
(* Without a URL nothing happens.                                            *)
Dispatch(e) ==
  /\ e \in Hooked \ raised
  /\ raised' = raised \cup {e}
  /\ IF Full(queue) THEN dropped' = dropped \cup {e} /\ UNCHANGED queue
     ELSE queue' = Append(queue, e) /\ UNCHANGED dropped
  /\ UNCHANGED <<job, attempted>>

Take == /\ job = NoJob /\ queue # <<>>
        /\ job' = Head(queue) /\ queue' = Tail(queue)
        /\ UNCHANGED <<raised, attempted, dropped>>

(* The request was answered, refused or timed out: in every case the worker  *)
(* goes on with the next job, without a retry.                               *)
Send_Requeue ==   \* seeded fault: a failed event goes back to the queue
  /\ job # NoJob
  /\ \/ attempted' = attempted \cup {job} /\ UNCHANGED queue
     \/ queue' = Append(queue, job) /\ UNCHANGED attempted
  /\ job' = NoJob
  /\ UNCHANGED <<raised, dropped>>
Send == /\ job # NoJob
        /\ attempted' = attempted \cup {job} /\ job' = NoJob
        /\ UNCHANGED <<queue, raised, dropped>>

(* The server stops: the channel and the job in hand are lost.               *)
Stop == /\ queue' = <<>> /\ job' = NoJob
        /\ UNCHANGED <<raised, attempted, dropped>>

Next == (\E e \in Events : Dispatch(e)) \/ Take \/ Send \/ Stop

(* The worker is a goroutine that never blocks but on the channel, and the   *)
(* client's timeout ends every request.                                      *)
Fairness == WF_vars(Take) /\ WF_vars(Send)

Spec == Init /\ [][Next]_vars /\ Fairness
-----------------------------------------------------------------------------
(* PROPERTIES *)

(* The contract's pending events: the one in hand, then the channel.         *)
Waiting == IF job = NoJob THEN queue ELSE <<job>> \o queue

Contract == INSTANCE WebhookContract WITH pending <- Waiting

(* The service keeps its contract: order, at most one attempt, drops only    *)
(* under a full load, progress of the worker.                                *)
KeepsContract == Contract!Spec

(* An event of an application with a webhook is attempted or dropped in the  *)
(* end, or lost in a stop of the server.                                     *)
EveryEventEnds ==
  \A e \in Hooked :
    e \in raised ~> \/ e \in attempted \cup dropped
                    \/ job # e /\ \A i \in DOMAIN queue : queue[i] # e
=============================================================================
