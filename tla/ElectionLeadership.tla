------------------------- MODULE ElectionLeadership -------------------------
(***************************************************************************)
(* Election implements Leadership: the holder is the node named by the     *)
(* leader key, the winners are between campaign and isLeader.Store(true),  *)
(* and the flags are Node.isLeader.                                        *)
(***************************************************************************)
EXTENDS Election

LeaderHolder == {leader[k].node : k \in DOMAIN leader}
Winners == {n \in Node : pc[n] = "won"}

L == INSTANCE Leadership
         WITH holder <- LeaderHolder, won <- Winners, flag <- isLeader

\* Whatever the loop Run of each node, etcd and the faults do to the leader key
\* and to the flags is a step that Leadership allows: in particular nobody takes
\* the key from its holder, and without expiring leases a flag is raised by the
\* holder only and the key is not vacated under a raised flag.
ImplementsLeadership == L!LeadershipSpec
=============================================================================
