----------------------------- MODULE MCTransfer -----------------------------
(* Instances of Transfer for TLC: one service, of any kind, one call that  *)
(* moves it to another server and one that moves it back.                  *)
EXTENDS Transfer

CONSTANTS x1, old, new, t1, t2

OneSubject == [t \in Sagas |-> x1]
MCTarget == [t \in Sagas |-> IF t = t1 THEN new ELSE old]
=============================================================================
