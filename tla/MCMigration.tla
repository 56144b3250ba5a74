---------------------------- MODULE MCMigration ----------------------------
(* Instances of Migration for TLC: an application with two domains and its *)
(* database in one environment, a stack in another one, a migration of all *)
(* and one of the application from there to a third server.                *)
EXTENDS Migration

CONSTANTS old, new, third, web, db, api, w1, w2, a1, a2, m1, m2

MCSagas == Migrations \X Services
MCSubject == [t \in MCSagas |-> t[2]]
MCTarget == [t \in MCSagas |-> IF t[1] = m1 THEN new ELSE third]
MCFrom == [m \in Migrations |-> IF m = m1 THEN old ELSE new]
MCTo == [m \in Migrations |-> IF m = m1 THEN new ELSE third]
MCAsked == [m \in Migrations |-> IF m = m1 THEN Services ELSE {web}]
MCEnvOf == [x \in Services |-> IF x = api THEN 2 ELSE 1]
MCDomainOf == [r \in Records |-> IF r = w1 THEN "web" ELSE IF r = w2 THEN "www" ELSE "api"]
MCServiceOf == [d \in {"web", "www", "api"} |-> IF d = "api" THEN api ELSE web]

(* The api points to both servers; or to two addresses of the old one. *)
OneEach == [r \in Records |-> IF r = a2 THEN new ELSE old]
TwoOnSource == [r \in Records |-> old]

(* All services run, and the stack has data. *)
MCInit ==
  /\ MInit
  /\ shape[web] = [kind |-> "application", stateful |-> FALSE]
  /\ shape[db].kind = "database"
  /\ shape[api] = [kind |-> "stack", stateful |-> TRUE]
  /\ \A x \in Services : running[x] = {Home}

MCSpec == MCInit /\ [][MNext]_mvars
MCFairSpec == MCSpec /\ MFairness
=============================================================================
