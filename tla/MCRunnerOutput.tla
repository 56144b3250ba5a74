--------------------------- MODULE MCRunnerOutput ---------------------------
(* Instances of RunnerOutput for TLC: a workflow of two jobs, the second   *)
(* of which act never starts.                                              *)
EXTENDS RunnerOutput

CONSTANTS build, deploy

Ev(event, step) == [job |-> build, event |-> event, step |-> step, result |-> "success"]
OneJob == <<Ev("start", 1), Ev("finish", 1), Ev("end", 0)>>
=============================================================================
