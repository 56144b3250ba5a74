---------------------------- MODULE MCRunnerRuns ----------------------------
(* Instances of RunnerRuns for TLC.                                        *)
EXTENDS RunnerRuns, TLC

CONSTANTS k1, k2, g1

OneGroup == [r \in Runs |-> g1]
NoGroups == [r \in Runs |-> NoGroup]

(* Renaming runners changes nothing (safety runs only).                    *)
Symmetric == Permutations(Runners)
=============================================================================
