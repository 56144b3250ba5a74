--------------------------- MODULE MCWorkflowRuns ---------------------------
(* Instances of WorkflowRuns for TLC.  Together: two runs on one server,   *)
(* the second in a concurrency group.  Apart: two runs of one group on two *)
(* servers.                                                                *)
EXTENDS WorkflowRuns

CONSTANTS r1, r2, s1, s2, g1

Together  == [r \in Runs |-> s1]
OneGroup  == [r \in Runs |-> IF r = r1 THEN NoGroup ELSE g1]
Apart     == [r \in Runs |-> IF r = r1 THEN s1 ELSE s2]
SameGroup == [r \in Runs |-> g1]
=============================================================================
