----------------------------- MODULE Leadership -----------------------------
(***************************************************************************)
(* What internal/cluster promises the rest of a node through IsLeader.     *)
(*                                                                         *)
(* The leader key has at most one holder, and a node takes itself for the  *)
(* leader when its flag is up.  As long as no lease of a running node      *)
(* expires, only the holder's flag is up.  When leases may expire, the     *)
(* flag of a node says that it was the holder once, and no more.           *)
(***************************************************************************)
EXTENDS FiniteSets

CONSTANTS
    Node,       \* the nodes
    Faults      \* which failures happen; "expire" is the one that matters here

VARIABLES
    holder,     \* the node that holds the leader key, as a set of at most one
    won,        \* the nodes that won it and are about to raise their flag
    flag        \* the nodes' isLeader

leadershipVars == <<holder, won, flag>>

LeadershipTypeOK ==
    /\ holder \in SUBSET Node
    /\ won \in SUBSET Node
    /\ flag \in [Node -> BOOLEAN]

LeadershipInit ==
    /\ holder = {}
    /\ won = {}
    /\ flag = [n \in Node |-> FALSE]

\* The leader key is free and n puts it; n may fail to learn of it.
Win(n) ==
    /\ holder = {}
    /\ holder' = {n}
    /\ won' \in {won, won \cup {n}}
    /\ UNCHANGED flag

\* n, which has won, takes itself for the leader.
Raise(n) ==
    /\ n \in won
    /\ won' = won \ {n}
    /\ flag' = [flag EXCEPT ![n] = TRUE]
    /\ UNCHANGED holder

\* n stops taking itself for the leader.
Lower(n) ==
    /\ flag' = [flag EXCEPT ![n] = FALSE]
    /\ won' = won \ {n}
    /\ UNCHANGED holder

\* The leader key goes with the lease it rides.
Vacate(n) ==
    /\ n \in holder
    /\ flag[n] \/ n \in won => "expire" \in Faults
    /\ holder' = {}
    /\ UNCHANGED <<won, flag>>

LeadershipNext == \E n \in Node : Win(n) \/ Raise(n) \/ Lower(n) \/ Vacate(n)

LeadershipSpec == LeadershipInit /\ [][LeadershipNext]_leadershipVars
=============================================================================
