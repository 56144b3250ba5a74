--------------------------- MODULE MCDeployQueue ----------------------------
(* Instances of DeployQueue for TLC: one server, three services.           *)
EXTENDS DeployQueue

CONSTANTS p1, g1, g2, g3
=============================================================================
