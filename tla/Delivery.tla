----------------------------- MODULE Delivery -----------------------------
(***************************************************************************)
(* What the ticket queue promises of a fire, seen from outside: no keys,   *)
(* no leases, no revisions and no worker loops.  A ticket is absent,       *)
(* queued or running; it runs on one node at a time; it leaves "running"   *)
(* either with a report of the attempt or, when its node dies, back to the *)
(* queue with the attempt spent; and a report is written together with the *)
(* change it reports.                                                      *)
(***************************************************************************)
EXTENDS Integers

CONSTANTS Node, Ticket, MaxRetries

VARIABLES
    phase,      \* "absent", "queued" or "running", of each ticket
    attempt,    \* the attempts a ticket in the queue has spent
    runner,     \* the node a running ticket runs on
    reports     \* every report made

vars == <<phase, attempt, runner, reports>>

Init ==
    /\ phase = [t \in Ticket |-> "absent"]
    /\ attempt = [t \in Ticket |-> 0]
    /\ runner = [t \in Ticket |-> {}]
    /\ reports = {}

Report(t, a, s, n) ==
    reports' = reports \cup {[ticket |-> t, attempt |-> a, status |-> s, node |-> n]}

\* Ticket t becomes absent, or queued with attempt a.
Becomes(t, p, a) ==
    /\ phase' = [phase EXCEPT ![t] = p]
    /\ attempt' = [attempt EXCEPT ![t] = a]
    /\ runner' = [runner EXCEPT ![t] = {}]

Fire(t) ==
    /\ phase[t] = "absent"
    /\ Becomes(t, "queued", 0)
    /\ UNCHANGED reports

Take(n, t) ==
    /\ phase[t] = "queued"
    /\ phase' = [phase EXCEPT ![t] = "running"]
    /\ attempt' = [attempt EXCEPT ![t] = @ + 1]
    /\ runner' = [runner EXCEPT ![t] = {n}]
    /\ UNCHANGED reports

Succeed(n, t) ==
    /\ runner[t] = {n}
    /\ Report(t, attempt[t], "success", n)
    /\ Becomes(t, "absent", 0)

Retry(n, t) ==
    /\ runner[t] = {n}
    /\ attempt[t] <= MaxRetries[t]
    /\ Report(t, attempt[t], "failed", n)
    /\ Becomes(t, "queued", attempt[t])

GiveUp(n, t) ==
    /\ runner[t] = {n}
    /\ attempt[t] > MaxRetries[t]
    /\ Report(t, attempt[t], "failed_permanent", n)
    /\ Becomes(t, "absent", 0)

\* Node n dies and everything that runs on it is queued again.
Die(n) ==
    /\ phase' = [t \in Ticket |-> IF runner[t] = {n} THEN "queued" ELSE phase[t]]
    /\ runner' = [t \in Ticket |-> IF runner[t] = {n} THEN {} ELSE runner[t]]
    /\ UNCHANGED <<attempt, reports>>

Next ==
    \/ \E t \in Ticket : Fire(t)
    \/ \E n \in Node : Die(n)
    \/ \E n \in Node, t \in Ticket :
           Take(n, t) \/ Succeed(n, t) \/ Retry(n, t) \/ GiveUp(n, t)

Spec == Init /\ [][Next]_vars
=============================================================================
