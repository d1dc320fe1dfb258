----------------------------- MODULE MCElection -----------------------------
(***************************************************************************)
(* Instances of Election for TLC.                                          *)
(***************************************************************************)
EXTENDS ElectionLeadership

CONSTANTS n1, n2
=============================================================================
