----------------------------- MODULE MCHistory -----------------------------
(***************************************************************************)
(* Instances of History for TLC.                                           *)
(***************************************************************************)
EXTENDS History

CONSTANTS n1, n2, b1, b2
=============================================================================
