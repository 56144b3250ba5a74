------------------------------ MODULE Transfer ------------------------------
(***************************************************************************)
(* Moving a service to another server (packages/server/src/services/       *)
(* transfer.ts): a saga that stops, copies, switches the record, deploys   *)
(* and checks, and is then committed or rolled back.  The steps are those  *)
(* of prepareTransfer, stageTransfer, waitUntilHealthy, rollbackTransfer   *)
(* and commitTransfer; transferService drives them here, migrateServer in  *)
(* Migration.  Beside the sagas, builds from the deployment queue deploy   *)
(* the same services, and their users write data.                          *)
(***************************************************************************)
EXTENDS Integers, FiniteSets

CONSTANTS
  Services,
  Servers,
  Home,         \* where the services are at first
  Sagas,        \* calls of transferService, or transfers of a migration
  Subject,      \* [Sagas -> Services]
  Target,       \* [Sagas -> Servers]
  Faults,       \* the faults that may strike, among Kinds
  MaxFaults     \* how many kinds of them strike in one behaviour

Kinds == {"stop",     \* the service cannot be stopped (no error is thrown)
          "copy",     \* a copy of data breaks off
          "db",       \* a database statement of the saga fails
          "deploy",   \* the deployment fails, nothing runs
          "partial",  \* the deployment fails, the service runs
          "health",   \* the new copy does not stay up
          "remove",   \* the new copy cannot be removed
          "start",    \* the old copy cannot be started again
          "logs",     \* deployment logs cannot be copied
          "clean",    \* the old copy cannot be removed
          "build",    \* the queue builds a service that may be in transfer
          "overlap",  \* a second call transfers a service that is in transfer
          "crash",    \* Dokploy stops
          \* In a migration:
          "probe",    \* the target does not serve a domain
          "dns",      \* a change of a record fails, "lost" after it was made,
          "partly",   \* "partly" when one of its domain was changed before
          "lost",
          "public",   \* a domain is not served after the switch
          "revert",   \* a record cannot be changed back
          "ttl"}      \* resolvers keep addresses longer than the drain

ASSUME TransferAssumption ==
  /\ Home \in Servers
  /\ Subject \in [Sagas -> Services] /\ Target \in [Sagas -> Servers]
  /\ Faults \subseteq Kinds /\ MaxFaults \in Nat

VARIABLES
  shape,      \* [kind, stateful] of a service
  record,     \* serverId of a service
  status,     \* its applicationStatus or composeStatus
  present,    \* servers on which it is defined, so that it can be started
  running,    \* servers on which it runs
  fresh,      \* servers whose copy of its data has every write
  saga,       \* the StagedTransfer of each call, and where the call is
  building,   \* builds of the queue: where a build deploys to
  struck      \* history: the kinds of faults so far

world == <<record, status, present, running, fresh>>
vars == <<shape, world, saga, building, struck>>

Shapes == [kind : {"application", "compose", "stack"}, stateful : BOOLEAN]
            \cup [kind : {"database"}, stateful : {TRUE}]
Statuses == {"idle", "running", "done", "error"}
Steps == {"new", "prepared", "begin", "stop", "copy", "switch", "deploy", "deploying",
          "staged", "check", "healthy", "logs", "clean", "finish", "failed", "remove",
          "restore", "restart", "reset", "broken"}
Ended == {"moved", "undone", "stuck", "unclean", "rejected", "dead"}

Nowhere == "nowhere"
NoSaga == [at |-> "new", source |-> Home, was |-> "idle", ran |-> {}, stopped |-> FALSE,
           switched |-> FALSE, on |-> Home]

(* A service that runs has been deployed; one that does not may have been. *)
Init ==
  /\ shape \in [Services -> Shapes]
  /\ record = [x \in Services |-> Home]
  /\ running \in [Services -> {{}, {Home}}]
  /\ present \in { p \in [Services -> {{}, {Home}}] : \A x \in Services : running[x] \subseteq p[x] }
  /\ status = [x \in Services |-> IF running[x] = {} THEN "idle" ELSE "done"]
  /\ fresh = [x \in Services |-> {Home}]
  /\ saga = [t \in Sagas |-> NoSaga]
  /\ building = [x \in Services |-> Nowhere]
  /\ struck = {}

Compose(x) == shape[x].kind \in {"compose", "stack"}
Active(t) == saga[t].at \notin Ended \cup {"new"}

Go(t, step) == saga' = [saga EXCEPT ![t].at = step]
Set(f, x, v) == [f EXCEPT ![x] = v]
Strike(k) == k \in Faults /\ struck' = struck \cup {k} /\ Cardinality(struck') <= MaxFaults
Keep(v) == UNCHANGED v /\ UNCHANGED <<shape, building>>

(* The step's database statement fails: the call throws.                   *)
DbFails(t, at, next) ==
  /\ saga[t].at = at /\ Strike("db") /\ Go(t, next) /\ Keep(world)

-----------------------------------------------------------------------------
(* prepareTransfer: reads the service, changes nothing.                    *)
Prepare(t, next) ==
  LET x == Subject[t]
  IN  /\ saga[t].at = "new"
      /\ saga' = [saga EXCEPT ![t] =
                    [NoSaga EXCEPT !.at = IF record[x] = Target[t] THEN "rejected" ELSE next,
                                   !.source = record[x], !.was = status[x], !.ran = running[x]]]
      /\ IF \E u \in Sagas \ {t} : Subject[u] = x /\ Active(u)
           THEN Strike("overlap") ELSE UNCHANGED struck
      /\ Keep(world)

(* Mutants: data is copied from a service that runs; every service is      *)
(* stopped.                                                                *)
BeginRunning(t) ==
  /\ saga[t].at = "begin"
  /\ status' = Set(status, Subject[t], "running")
  /\ Go(t, IF shape[Subject[t]].stateful THEN "copy" ELSE "switch")
  /\ Keep(<<record, present, running, fresh, struck>>)

BeginStopping(t) ==
  /\ saga[t].at = "begin"
  /\ status' = Set(status, Subject[t], "running")
  /\ Go(t, "stop")
  /\ Keep(<<record, present, running, fresh, struck>>)

(* stageTransfer.                                                          *)
Begin(t) ==
  LET x == Subject[t]
  IN  \/ /\ saga[t].at = "begin"
         /\ status' = Set(status, x, "running")
         /\ Go(t, IF shape[x].stateful THEN "stop" ELSE "switch")
         /\ Keep(<<record, present, running, fresh, struck>>)
      \/ DbFails(t, "begin", "failed")

(* stopOnSource: for a compose, stopCompose reads the record again and     *)
(* sets the status; nobody learns that the service could not be stopped.   *)
Stop(t) ==
  LET x == Subject[t]
      s == IF Compose(x) THEN record[x] ELSE saga[t].source
  IN  /\ saga[t].at = "stop"
      /\ saga' = [saga EXCEPT ![t].at = "copy", ![t].stopped = TRUE]
      /\ \/ /\ running' = Set(running, x, running[x] \ {s})
            /\ present' = IF shape[x].kind = "stack" THEN Set(present, x, present[x] \ {s}) ELSE present
            /\ status' = IF Compose(x) THEN Set(status, x, "idle") ELSE status
            /\ UNCHANGED struck
         \/ /\ Strike("stop")
            /\ status' = IF Compose(x) THEN Set(status, x, "error") ELSE status
            /\ UNCHANGED <<running, present>>
      /\ Keep(<<record, fresh>>)

(* A mutant: nobody looks at how the copy ended.                           *)
CopyUnchecked(t) ==
  LET x == Subject[t]
  IN  /\ saga[t].at = "copy"
      /\ \/ fresh' = Set(fresh, x, fresh[x] \cup {Target[t]}) /\ UNCHANGED struck
         \/ fresh' = Set(fresh, x, fresh[x] \ {Target[t]}) /\ Strike("copy")
      /\ Go(t, "switch")
      /\ Keep(<<record, status, present, running>>)

(* The volumes are exported from the source into those of the target.      *)
Copy(t) ==
  LET x == Subject[t]
  IN  /\ saga[t].at = "copy"
      /\ \/ /\ fresh' = Set(fresh, x, IF saga[t].source \in fresh[x]
                                         THEN fresh[x] \cup {Target[t]} ELSE fresh[x] \ {Target[t]})
            /\ Go(t, "switch")
            /\ UNCHANGED struck
         \/ /\ Strike("copy")
            /\ fresh' = Set(fresh, x, fresh[x] \ {Target[t]})
            /\ Go(t, "failed")
      /\ Keep(<<record, status, present, running>>)

(* switched is set before updateServer is awaited.                         *)
Switch(t) ==
  /\ saga[t].at = "switch"
  /\ \/ /\ record' = Set(record, Subject[t], Target[t])
        /\ saga' = [saga EXCEPT ![t].at = "deploy", ![t].switched = TRUE]
        /\ UNCHANGED struck
     \/ /\ Strike("db")
        /\ saga' = [saga EXCEPT ![t].at = "failed", ![t].switched = TRUE]
        /\ UNCHANGED record
  /\ Keep(<<status, present, running, fresh>>)

(* File mounts and Traefik are set up, which may fail too, before          *)
(* deployOnTarget: a deployment outside the queue, to where the record     *)
(* says when it begins.                                                    *)
Deploy(t) ==
  LET x == Subject[t]
  IN  /\ saga[t].at = "deploy"
      /\ \/ /\ status' = Set(status, x, "running")
            /\ saga' = [saga EXCEPT ![t].at = "deploying", ![t].on = record[x]]
            /\ UNCHANGED struck
         \/ Strike("deploy") /\ Go(t, "failed") /\ UNCHANGED status
      /\ Keep(<<record, present, running, fresh>>)

Runs(x, s) == /\ running' = Set(running, x, running[x] \cup {s})
              /\ present' = Set(present, x, present[x] \cup {s})

Deployed(t) ==
  LET x == Subject[t]
  IN  /\ saga[t].at = "deploying"
      /\ \/ Runs(x, saga[t].on) /\ status' = Set(status, x, "done") /\ Go(t, "staged") /\ UNCHANGED struck
         \/ Strike("deploy") /\ status' = Set(status, x, "error") /\ Go(t, "failed") /\ UNCHANGED <<running, present>>
         \/ Strike("partial") /\ status' = Set(status, x, "error") /\ Go(t, "failed") /\ Runs(x, saga[t].on)
      /\ Keep(<<record, fresh>>)

(* waitUntilHealthy: the same containers stay up for a while.              *)
Check(t) ==
  /\ saga[t].at = "check"
  /\ \/ Target[t] \in running[Subject[t]] /\ Go(t, "healthy") /\ UNCHANGED struck
     \/ Target[t] \notin running[Subject[t]] /\ Go(t, "failed") /\ UNCHANGED struck
     \/ Strike("health") /\ Go(t, "failed")
  /\ Keep(world)

-----------------------------------------------------------------------------
(* A mutant: a service that was stopped is not started again.              *)
RollbackStopped(t) == Go(t, IF saga[t].switched THEN "remove" ELSE "reset")

(* rollbackTransfer.                                                       *)
Rollback(t) == Go(t, IF saga[t].switched THEN "remove" ELSE IF saga[t].stopped THEN "restart" ELSE "reset")

(* removeFromTarget reads the service again: a compose is removed from     *)
(* where its record says.  An error is logged only.                        *)
Remove(t) ==
  LET x == Subject[t]
      s == IF Compose(x) THEN record[x] ELSE Target[t]
  IN  /\ saga[t].at = "remove"
      /\ Go(t, "restore")
      /\ \/ /\ running' = Set(running, x, running[x] \ {s})
            /\ present' = Set(present, x, present[x] \ {s})
            /\ UNCHANGED struck
         \/ Strike("remove") /\ UNCHANGED <<running, present>>
      /\ Keep(<<record, status, fresh>>)

Restore(t) ==
  \/ /\ saga[t].at = "restore"
     /\ record' = Set(record, Subject[t], saga[t].source)
     /\ saga' = [saga EXCEPT ![t].at = IF saga[t].stopped THEN "restart" ELSE "reset",
                             ![t].switched = FALSE]
     /\ Keep(<<status, present, running, fresh, struck>>)
  \/ DbFails(t, "restore", "broken")

(* A mutant: a service is started although it was never deployed there.    *)
RestartUndefined(t) ==
  /\ saga[t].at = "restart"
  /\ running' = Set(running, Subject[t], running[Subject[t]] \cup {saga[t].source})
  /\ saga' = [saga EXCEPT ![t].at = "reset", ![t].stopped = FALSE]
  /\ Keep(<<record, status, present, fresh, struck>>)

(* startOnSource, or a new deployment of a stack, which may throw.         *)
Restart(t) ==
  LET x == Subject[t]
      s == IF Compose(x) THEN record[x] ELSE saga[t].source
      stack == shape[x].kind = "stack"
  IN  /\ saga[t].at = "restart"
      /\ \/ /\ IF stack \/ s \in present[x] THEN Runs(x, s) ELSE UNCHANGED <<running, present>>
            /\ status' = IF Compose(x) THEN Set(status, x, "done") ELSE status
            /\ saga' = [saga EXCEPT ![t].at = "reset", ![t].stopped = FALSE]
            /\ UNCHANGED struck
         \/ /\ Strike("start")
            /\ status' = IF Compose(x) THEN Set(status, x, IF stack THEN "error" ELSE "idle") ELSE status
            /\ saga' = [saga EXCEPT ![t].at = IF stack THEN "broken" ELSE "reset", ![t].stopped = stack]
            /\ UNCHANGED <<running, present>>
      /\ Keep(<<record, fresh>>)

Reset(t) ==
  \/ /\ saga[t].at = "reset"
     /\ status' = Set(status, Subject[t], saga[t].was)
     /\ Go(t, "undone")
     /\ Keep(<<record, present, running, fresh, struck>>)
  \/ DbFails(t, "reset", "broken")

-----------------------------------------------------------------------------
(* commitTransfer: a failure to move the logs leaves the old copy.         *)
MoveLogs(t) ==
  /\ saga[t].at = "logs"
  /\ \/ Go(t, "clean") /\ UNCHANGED struck
     \/ shape[Subject[t]].kind # "database" /\ Strike("logs") /\ Go(t, "unclean")
  /\ Keep(world)

(* A mutant: the service is cleaned up where its record is now.            *)
CleanUpRecord(t) ==
  LET x == Subject[t]
  IN  /\ saga[t].at = "clean"
      /\ Go(t, "finish")
      /\ running' = Set(running, x, running[x] \ {record[x]})
      /\ present' = Set(present, x, present[x] \ {record[x]})
      /\ Keep(<<record, status, fresh, struck>>)

(* cleanupSource: the old copy goes, and its data if that was asked for.   *)
CleanUp(t) ==
  LET x == Subject[t]
      s == saga[t].source
  IN  /\ saga[t].at = "clean"
      /\ Go(t, "finish")
      /\ \/ /\ running' = Set(running, x, running[x] \ {s})
            /\ present' = Set(present, x, present[x] \ {s})
            /\ fresh' = Set(fresh, x, fresh[x] \ {s}) \/ UNCHANGED fresh
            /\ UNCHANGED struck
         \/ Strike("clean") /\ UNCHANGED <<running, present, fresh>>
      /\ Keep(<<record, status>>)

Finish(t) ==
  \/ /\ saga[t].at = "finish"
     /\ status' = Set(status, Subject[t], "done")
     /\ Go(t, "moved")
     /\ Keep(<<record, present, running, fresh, struck>>)
  \/ DbFails(t, "finish", "unclean")

Step(t) == \/ Begin(t) \/ Stop(t) \/ Copy(t) \/ Switch(t) \/ Deploy(t) \/ Deployed(t) \/ Check(t)
           \/ Remove(t) \/ Restore(t) \/ Restart(t) \/ Reset(t)
           \/ MoveLogs(t) \/ CleanUp(t) \/ Finish(t)

-----------------------------------------------------------------------------
(* A mutant: an error of the rollback is not caught.                       *)
DriveUncaught(t) ==
  /\ \/ saga[t].at = "staged" /\ Go(t, "check")
     \/ saga[t].at = "healthy" /\ Go(t, "logs")
     \/ saga[t].at = "failed" /\ Rollback(t)
  /\ Keep(<<status, record, present, running, fresh, struck>>)

(* transferService: check what is staged, commit what is healthy, roll     *)
(* back what failed; if that throws the status is an error.                *)
Drive(t) ==
  /\ \/ saga[t].at = "staged" /\ Go(t, "check") /\ UNCHANGED status
     \/ saga[t].at = "healthy" /\ Go(t, "logs") /\ UNCHANGED status
     \/ saga[t].at = "failed" /\ Rollback(t) /\ UNCHANGED status
     \/ saga[t].at = "broken" /\ Go(t, "stuck") /\ status' = Set(status, Subject[t], "error")
  /\ Keep(<<record, present, running, fresh, struck>>)

-----------------------------------------------------------------------------
(* Around the sagas.  A build of the queue deploys to where the record was *)
(* when it began; users write to the data of a service that runs.          *)
StartBuild(x) ==
  /\ building[x] = Nowhere /\ Strike("build")
  /\ building' = Set(building, x, record[x])
  /\ status' = Set(status, x, "running")
  /\ UNCHANGED <<shape, record, present, running, fresh, saga>>

EndBuild(x) ==
  /\ building[x] # Nowhere
  /\ Runs(x, building[x])
  /\ status' = Set(status, x, "done")
  /\ building' = Set(building, x, Nowhere)
  /\ UNCHANGED <<shape, record, fresh, saga, struck>>

Write(x) ==
  /\ shape[x].stateful
  /\ \E s \in running[x] : fresh' = Set(fresh, x, fresh[x] \cap {s})
  /\ UNCHANGED <<shape, record, status, present, running, saga, building, struck>>

Crash ==
  /\ Strike("crash")
  /\ saga' = [t \in Sagas |-> IF Active(t) THEN [saga[t] EXCEPT !.at = "dead"] ELSE saga[t]]
  /\ building' = [x \in Services |-> Nowhere]
  /\ UNCHANGED <<shape, world>>

Outside == \/ \E x \in Services : StartBuild(x) \/ EndBuild(x) \/ Write(x)
           \/ Crash

Next == Outside \/ \E t \in Sagas : Prepare(t, "begin") \/ Step(t) \/ Drive(t)

Spec == Init /\ [][Next]_vars

(* Commands and statements return: each step of a call that goes on.       *)
FairSpec == Spec /\ \A t \in Sagas : WF_vars(Step(t) \/ Drive(t))

-----------------------------------------------------------------------------
Safe(kinds) == struck \cap kinds = {}

(* Every variable has its type.                                            *)
TypeOK ==
  /\ shape \in [Services -> Shapes]
  /\ record \in [Services -> Servers] /\ status \in [Services -> Statuses]
  /\ present \in [Services -> SUBSET Servers] /\ running \in [Services -> SUBSET Servers]
  /\ fresh \in [Services -> SUBSET Servers]
  /\ \A x \in Services : running[x] \subseteq present[x]
  /\ saga \in [Sagas -> [at : Steps \cup Ended, source : Servers, was : Statuses,
                         ran : SUBSET Servers, stopped : BOOLEAN, switched : BOOLEAN, on : Servers]]
  /\ building \in [Services -> Servers \cup {Nowhere}]
  /\ struck \subseteq Kinds

(* A service with data runs on one server at a time, whatever fails, as    *)
(* long as commands to stop or remove it do not fail silently and nobody   *)
(* else deploys it: neither the queue nor a second transfer.               *)
StatefulRunsOnce ==
  Safe({"stop", "remove", "build", "overlap"}) =>
    \A x \in Services : shape[x].stateful => Cardinality(running[x]) <= 1

(* It runs on data that has every write, and a complete copy of its data   *)
(* survives any failure, a crash included.  What is written on the target  *)
(* before a rollback is lost, hence "partial" and "health".                *)
NoWriteLost ==
  Safe({"stop", "remove", "partial", "health", "build", "overlap"}) =>
    \A x \in Services : shape[x].stateful => fresh[x] # {} /\ running[x] \subseteq fresh[x]

(* "A service without persistent data keeps running on the source until    *)
(* the new copy is healthy": until the old copy is cleaned up, and also    *)
(* while the transfer is rolled back.                                      *)
SourceServes ==
  Safe({"db", "overlap"}) =>
    \A t \in Sagas :
      LET x == Subject[t] s == saga[t].source
      IN  Active(t) /\ saga[t].at # "finish" /\ ~shape[x].stateful /\ s \in saga[t].ran
            => s \in running[x]

(* A transfer that was rolled back has brought the service back to its     *)
(* source; if it ran there it runs there again, and it runs on the target  *)
(* only if it did so before.                                               *)
RollbackRestores ==
  [][ \A t \in Sagas :
        LET x == Subject[t]
        IN  saga'[t].at = "undone" /\ saga[t].at # "undone" /\ Safe({"db", "overlap", "build"}) =>
              /\ record'[x] = saga[t].source /\ status'[x] = saga[t].was
              /\ saga[t].source \in saga[t].ran /\ Safe({"start"}) => saga[t].source \in running'[x]
              /\ Target[t] \in running'[x] /\ Safe({"remove"}) => Target[t] \in saga[t].ran ]_vars

(* A transfer that was committed has left the service on its target, and   *)
(* nowhere else if the clean-up did not fail.                              *)
CommitMoves ==
  [][ \A t \in Sagas :
        LET x == Subject[t]
        IN  saga'[t].at = "moved" /\ saga[t].at # "moved" /\ Safe({"overlap", "build", "crash"}) =>
              /\ record'[x] = Target[t] /\ Target[t] \in running'[x]
              /\ Safe({"clean", "logs", "db", "remove"}) => running'[x] = {Target[t]} ]_vars

(* Every transfer ends.                                                    *)
EveryTransferEnds == \A t \in Sagas : (saga[t].at # "new") ~> (saga[t].at \in Ended)
=============================================================================
