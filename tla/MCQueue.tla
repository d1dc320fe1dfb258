------------------------------ MODULE MCQueue ------------------------------
(***************************************************************************)
(* Instances of Queue for TLC.                                             *)
(***************************************************************************)
EXTENDS QueueDelivery, TLC

CONSTANTS n1, n2, j1, j2

\* All tickets are fires of one job.
SameJob == [t \in Ticket |-> j1]

\* How many retries each ticket has.
NoRetry == [t \in Ticket |-> 0]
OneRetry == [t \in Ticket |-> 1]

\* The nodes are interchangeable: only their names tell them apart.
NodeSymmetry == Permutations(Node)
=============================================================================
