--------------------------- MODULE QueueDelivery ---------------------------
(***************************************************************************)
(* The queue implements Delivery for jobs that may overlap, as long as no  *)
(* running node loses its lease, no call fails and no ticket is abandoned. *)
(* The README's promise "Kill any process at any moment" is the fault this *)
(* leaves in.                                                              *)
(***************************************************************************)
EXTENDS Queue

Running(t) == {e \in execs : e.ticket = t}

\* A ticket runs while an execution of it is in flight and is queued while its
\* pending key exists.
Phase(t) ==
    IF Running(t) # {} THEN "running"
    ELSE IF t \in DOMAIN pending THEN "queued"
    ELSE "absent"

\* Its attempt is the one in the pending key.
Attempt(t) == IF t \in DOMAIN pending THEN pending[t].attempt ELSE 0

Runner(t) == {e.node : e \in Running(t)}

D == INSTANCE Delivery WITH
        phase <- [t \in Ticket |-> Phase(t)],
        attempt <- [t \in Ticket |-> Attempt(t)],
        runner <- [t \in Ticket |-> Runner(t)],
        reports <- results

\* Every step of the worker loops, leases and claims is a step of Delivery or
\* changes nothing it can see.
ImplementsDelivery == D!Spec
=============================================================================
