--------------------------- MODULE MCDeployments ----------------------------
(* An instance of Deployments for TLC: deployments of one service, some by *)
(* the queue and some that bypass it.  Services do not interact.           *)
EXTENDS Deployments

CONSTANT x1

MCServiceOf == [a \in Attempts |-> x1]
=============================================================================
