--------------------------- MODULE WebhookContract ---------------------------
(* What the webhook service promises about the events it is handed: they are *)
(* attempted one at a time, in the order they came, each at most once; an    *)
(* event is turned away only when Capacity others are waiting; what waits    *)
(* is attempted eventually, unless the server stops first.                   *)
EXTENDS Naturals, Sequences

CONSTANTS Events, Capacity

VARIABLES
  raised,      \* events handed to the service so far
  pending,     \* those accepted and not yet attempted, oldest first
  attempted,   \* those sent to their hook, answered or not
  dropped      \* those turned away

contract == <<raised, pending, attempted, dropped>>

Init == raised = {} /\ pending = <<>> /\ attempted = {} /\ dropped = {}

Accept(e) == /\ e \notin raised
             /\ raised' = raised \cup {e}
             /\ pending' = Append(pending, e)
             /\ UNCHANGED <<attempted, dropped>>

Drop(e) == /\ e \notin raised /\ Len(pending) >= Capacity
           /\ raised' = raised \cup {e}
           /\ dropped' = dropped \cup {e}
           /\ UNCHANGED <<pending, attempted>>

Attempt == /\ pending # <<>>
           /\ attempted' = attempted \cup {Head(pending)}
           /\ pending' = Tail(pending)
           /\ UNCHANGED <<raised, dropped>>

Lose == pending' = <<>> /\ UNCHANGED <<raised, attempted, dropped>>

Next == (\E e \in Events : Accept(e) \/ Drop(e)) \/ Attempt \/ Lose

Spec == Init /\ [][Next]_contract /\ WF_contract(Attempt)
=============================================================================
