------------------------------- MODULE MCJobs -------------------------------
(***************************************************************************)
(* Instances of Jobs for TLC.                                              *)
(***************************************************************************)
EXTENDS Jobs, TLC

CONSTANTS c1, c2, c3, v1

\* The callers are interchangeable.
ClientSymmetry == Permutations(Client)
=============================================================================
