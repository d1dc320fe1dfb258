---------------------------- MODULE MCScheduler ----------------------------
(***************************************************************************)
(* Instances of Scheduler for TLC.                                         *)
(***************************************************************************)
EXTENDS Scheduler, TLC

CONSTANTS n1, n2

\* The nodes are interchangeable: only their names tell them apart.
NodeSymmetry == Permutations(Node)

\* "often" fires at every instant and beyond the last one, "rare" at two instants
\* and never again, so that NextAfter fails after the second.
CronFires == [often |-> 1 .. (MaxTime + 1), rare |-> {1, 3}]

\* A job of the given policies and expressions, enabled or not.
Values(policies, crons) ==
    [enabled : BOOLEAN, cron : crons, policy : policies]

AllPolicies == Values(Policy, {"often", "rare"})
Often == Values(Policy, {"often"})
RunAllOnly == Values({"run_all"}, {"often"})
RunLatestOnly == Values({"run_latest"}, {"often"})
=============================================================================
