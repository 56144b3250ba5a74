----------------------------- MODULE Deployments -----------------------------
(***************************************************************************)
(* Deployments of applications and composes: the job a worker of the queue *)
(* runs (deployments-queue.ts), the deployment's row (deployment.ts) and   *)
(* the status of its service (application.ts, compose.ts), which are       *)
(* written by separate statements; what a user does to the service in the  *)
(* meantime (the routers); and what a restart does with the deployments it *)
(* interrupted (cancel-deployments.ts, server.ts).  Of the queue this uses *)
(* what SerialExecutor promises: one job of a service at a time, in order. *)
(***************************************************************************)
EXTENDS Integers, Sequences, FiniteSets, Functions

CONSTANTS
  Services,
  Attempts,     \* numbers: the deployments, in the order they are queued
  ServiceOf,    \* [Attempts -> Services]
  Direct,       \* attempts that bypass the queue: those of transfers
  Keep,         \* rows that removeLastTenDeployments leaves: 10 in the code
  Faults,       \* the faults that may strike, among Kinds
  MaxFaults,    \* how many kinds of them strike in one behaviour
  MaxCrashes    \* how often Dokploy stops in one behaviour

Kinds == {"db",       \* a statement fails
          "prune",    \* the logs of old deployments cannot be removed
          "side",     \* the log file cannot be created, the notifications throw
          "user",     \* somebody stops, starts, reloads the service, or starts a
                      \* transfer during the startup
          "odd",      \* ... marks it as running or removes a deployment's row
          "crash",    \* Dokploy stops
          "gap"}      \* ... while a status says running and no row does

ASSUME DeploymentsAssumption ==
  /\ Attempts \subseteq Nat /\ ServiceOf \in [Attempts -> Services]
  /\ Direct \subseteq Attempts /\ Keep \in Nat
  /\ Faults \subseteq Kinds /\ MaxFaults \in Nat /\ MaxCrashes \in Nat

VARIABLES
  status,     \* applicationStatus or composeStatus
  row,        \* the status of an attempt's row
  made,       \* attempts in the order their rows were created
  at,         \* where the code of an attempt is
  reloading,  \* services that are being reloaded
  boot,       \* what the startup does next
  selected,   \* the running rows that initCancelDeployments found
  crashes,    \* how often Dokploy stopped
  struck      \* history: the kinds of faults so far

startup == <<boot, selected, crashes>>
vars == <<status, row, made, at, reloading, startup, struck>>

Statuses == {"idle", "running", "done", "error"}
Rows == {"none", "running", "done", "error", "cancelled", "removed"}
Running == {"start", "prune", "insert", "build", "rowDone", "statusDone", "notify",
            "rowError", "statusError", "createError"}
Steps == {"new", "queued", "over", "lost"} \cup Running

Init ==
  /\ status = [s \in Services |-> "idle"]
  /\ row = [a \in Attempts |-> "none"]
  /\ made = <<>>
  /\ at = [a \in Attempts |-> "new"]
  /\ reloading = {}
  /\ boot = "done" /\ selected = {} /\ crashes = 0
  /\ struck = {}

Strike(k) == k \in Faults /\ struck' = struck \cup {k} /\ Cardinality(struck') <= MaxFaults
Go(a, step) == at' = [at EXCEPT ![a] = step]
SetStatus(s, v) == status' = [status EXCEPT ![s] = v]
SetRow(a, v) == row' = [row EXCEPT ![a] = IF @ = "removed" THEN @ ELSE v]

Of(s) == { a \in Attempts : ServiceOf[a] = s }

-----------------------------------------------------------------------------
(* A request queues a deployment, or a transfer deploys by itself.         *)
Request(a) ==
  /\ at[a] = "new" /\ \A b \in Attempts \ Direct : b < a => at[b] # "new"
  /\ IF a \in Direct
       THEN /\ Go(a, "start")
            /\ IF boot = "done" THEN UNCHANGED struck ELSE Strike("user")
       ELSE Go(a, "queued") /\ UNCHANGED struck
  /\ UNCHANGED <<status, row, made, reloading, startup>>

(* A mutant: jobs of one service run side by side.                         *)
TakeAny(a) ==
  /\ at[a] = "queued" /\ boot = "done"
  /\ Go(a, "start")
  /\ UNCHANGED <<status, row, made, reloading, startup, struck>>

(* The worker, which starts when the startup is over.                      *)
Take(a) ==
  /\ at[a] = "queued" /\ boot = "done"
  /\ \A b \in Of(ServiceOf[a]) \ Direct : at[b] \notin Running /\ (at[b] = "queued" => a <= b)
  /\ Go(a, "start")
  /\ UNCHANGED <<status, row, made, reloading, startup, struck>>

(* Dropping what waits: cleanQueues, or deleting the queue.                *)
CleanQueues(s) ==
  /\ \E a \in Of(s) : at[a] = "queued"
  /\ at' = [a \in Attempts |-> IF a \in Of(s) /\ at[a] = "queued" THEN "over" ELSE at[a]]
  /\ UNCHANGED <<status, row, made, reloading, startup, struck>>

(* processDeploymentJob: an error is logged, and that is the end of it.    *)
Start(a) ==
  /\ at[a] = "start"
  /\ \/ SetStatus(ServiceOf[a], "running") /\ Go(a, "prune") /\ UNCHANGED struck
     \/ Strike("db") /\ Go(a, "over") /\ UNCHANGED status
  /\ UNCHANGED <<row, made, reloading, startup>>

(* The rows of a service by their place in made, the newest at the end.    *)
History(s) == { i \in DOMAIN made : ServiceOf[made[i]] = s /\ row[made[i]] # "removed" }

(* removeLastTenDeployments: outside createDeployment's try.  The rows go  *)
(* before the command that removes the logs is executed.                   *)
Prune(a) ==
  LET h == History(ServiceOf[a])
      old == { made[i] : i \in { i \in h : Cardinality({ j \in h : j > i }) >= Keep } }
  IN  /\ at[a] = "prune"
      /\ row' = [b \in Attempts |-> IF b \in old THEN "removed" ELSE row[b]]
      /\ \/ Go(a, "insert") /\ UNCHANGED struck
         \/ old # {} /\ Strike("prune") /\ Go(a, "over")
      /\ UNCHANGED <<status, made, reloading, startup>>

(* A mutant: the row is inserted before its log file is created, and a     *)
(* failure inserts another one.                                            *)
InsertTwice(a) ==
  /\ at[a] = "insert"
  /\ \/ made' = Append(made, a) /\ SetRow(a, "running") /\ Go(a, "build") /\ UNCHANGED struck
     \/ made' = made \o <<a, a>> /\ SetRow(a, "error") /\ Go(a, "createError") /\ Strike("side")
  /\ UNCHANGED <<status, reloading, startup>>

(* createDeployment, createDeploymentCompose: a failure inserts a row that *)
(* says so, and when the database is the reason that fails too.            *)
Insert(a) ==
  /\ at[a] = "insert"
  /\ \/ made' = Append(made, a) /\ SetRow(a, "running") /\ Go(a, "build") /\ UNCHANGED struck
     \/ made' = Append(made, a) /\ SetRow(a, "error") /\ Go(a, "createError") /\ Strike("side")
     \/ Go(a, "over") /\ Strike("db") /\ UNCHANGED <<made, row>>
  /\ UNCHANGED <<status, reloading, startup>>

Build(a) ==
  /\ at[a] = "build"
  /\ Go(a, "rowDone") \/ Go(a, "rowError")
  /\ UNCHANGED <<status, row, made, reloading, startup, struck>>

(* A mutant: the row of a failed build is left alone.                      *)
WriteRowDone(a) ==
  /\ \/ at[a] = "rowDone" /\ SetRow(a, "done") /\ Go(a, "statusDone") /\ UNCHANGED struck
     \/ at[a] = "rowError" /\ Go(a, "statusError") /\ UNCHANGED <<row, struck>>
  /\ UNCHANGED <<status, made, reloading, startup>>

(* updateDeploymentStatus, whatever the row says by now.                   *)
WriteRow(a) ==
  /\ \/ at[a] = "rowDone" /\ SetRow(a, "done") /\ Go(a, "statusDone") /\ UNCHANGED struck
     \/ at[a] = "rowDone" /\ Strike("db") /\ Go(a, "rowError") /\ UNCHANGED row
     \/ at[a] = "rowError" /\ SetRow(a, "error") /\ Go(a, "statusError") /\ UNCHANGED struck
     \/ at[a] = "rowError" /\ Strike("db") /\ Go(a, "over") /\ UNCHANGED row
  /\ UNCHANGED <<status, made, reloading, startup>>

(* updateApplicationStatus or updateCompose.                               *)
WriteStatus(a) ==
  /\ \/ at[a] = "statusDone" /\ SetStatus(ServiceOf[a], "done") /\ Go(a, "notify") /\ UNCHANGED struck
     \/ at[a] = "statusDone" /\ Strike("db") /\ Go(a, "rowError") /\ UNCHANGED status
     \/ at[a] \in {"statusError", "createError"} /\ SetStatus(ServiceOf[a], "error") /\ Go(a, "over")
          /\ UNCHANGED struck
     \/ at[a] \in {"statusError", "createError"} /\ Strike("db") /\ Go(a, "over") /\ UNCHANGED status
  /\ UNCHANGED <<row, made, reloading, startup>>

(* The notifications are sent inside the try: an error fails a deployment  *)
(* that was done.                                                          *)
Notify(a) ==
  /\ at[a] = "notify"
  /\ \/ Go(a, "over") /\ UNCHANGED struck
     \/ Strike("side") /\ Go(a, "rowError")
  /\ UNCHANGED <<status, row, made, reloading, startup>>

-----------------------------------------------------------------------------
(* The routers: start, stop, the two writes of reload, markRunning and     *)
(* removeDeployment, at any time.                                          *)
StartOrStop(s) ==
  /\ Strike("user")
  /\ SetStatus(s, "done") \/ SetStatus(s, "idle")
  /\ UNCHANGED <<row, made, at, reloading, startup>>

Reload(s) ==
  \/ /\ s \notin reloading /\ Strike("user")
     /\ SetStatus(s, "idle") /\ reloading' = reloading \cup {s}
     /\ UNCHANGED <<row, made, at, startup>>
  \/ /\ s \in reloading
     /\ SetStatus(s, "done") \/ SetStatus(s, "error")
     /\ reloading' = reloading \ {s}
     /\ UNCHANGED <<row, made, at, startup, struck>>

MarkRunning(s) ==
  /\ Strike("odd") /\ SetStatus(s, "running")
  /\ UNCHANGED <<row, made, at, reloading, startup>>

RemoveDeployment(a) ==
  /\ row[a] \notin {"none", "removed"} /\ Strike("odd")
  /\ row' = [row EXCEPT ![a] = "removed"]
  /\ UNCHANGED <<status, made, at, reloading, startup>>

-----------------------------------------------------------------------------
(* Dokploy stops: the jobs are gone.  The new process serves requests from *)
(* the start; the worker starts when the startup is over.                  *)
RowRunning(s) == \E a \in Of(s) : row[a] = "running"

Crash ==
  /\ crashes < MaxCrashes /\ crashes' = crashes + 1
  /\ Strike(IF \E s \in Services : status[s] = "running" /\ ~RowRunning(s) THEN "gap" ELSE "crash")
  /\ at' = [a \in Attempts |-> IF at[a] \in Running \cup {"queued"} THEN "lost" ELSE at[a]]
  /\ reloading' = {}
  /\ boot' = "select" /\ selected' = {}
  /\ UNCHANGED <<status, row, made>>

(* initCancelDeployments: three statements; an error is logged only.       *)
SelectRunning ==
  /\ boot = "select"
  /\ selected' = { a \in Attempts : row[a] = "running" }
  /\ boot' = IF selected' = {} THEN "done" ELSE "rows"
  /\ UNCHANGED <<status, row, made, at, reloading, crashes, struck>>

CancelRows ==
  /\ boot = "rows"
  /\ \/ /\ row' = [a \in Attempts |-> IF a \in selected /\ row[a] # "removed"
                                        THEN "cancelled" ELSE row[a]]
        /\ selected' = { a \in selected : row[a] # "removed" }
        /\ boot' = "services"
        /\ UNCHANGED struck
     \/ Strike("db") /\ boot' = "done" /\ UNCHANGED <<row, selected>>
  /\ UNCHANGED <<status, made, at, reloading, crashes>>

(* A mutant: the services are left as they were.                           *)
ResetNone ==
  /\ boot = "services" /\ boot' = "done"
  /\ UNCHANGED <<status, row, made, at, reloading, selected, crashes, struck>>

ResetServices ==
  /\ boot = "services" /\ boot' = "done"
  /\ \/ /\ status' = [s \in Services |-> IF selected \cap Of(s) # {} THEN "idle" ELSE status[s]]
        /\ UNCHANGED struck
     \/ Strike("db") /\ UNCHANGED status
  /\ UNCHANGED <<row, made, at, reloading, selected, crashes>>

Startup == SelectRunning \/ CancelRows \/ ResetServices

Deploy(a) == Start(a) \/ Prune(a) \/ Insert(a) \/ Build(a) \/ WriteRow(a) \/ WriteStatus(a) \/ Notify(a)

Next ==
  \/ \E a \in Attempts : Request(a) \/ Take(a) \/ Deploy(a) \/ RemoveDeployment(a)
  \/ \E s \in Services : CleanQueues(s) \/ StartOrStop(s) \/ Reload(s) \/ MarkRunning(s)
  \/ Crash \/ Startup

Spec == Init /\ [][Next]_vars

(* Builds end, statements return, and the startup goes on.                 *)
FairSpec ==
  Spec /\ WF_vars(Startup) /\ \A a \in Attempts : WF_vars(Take(a) \/ Deploy(a))

-----------------------------------------------------------------------------
Safe(kinds) == struck \cap kinds = {}

(* Every variable has its type.                                            *)
TypeOK ==
  /\ status \in [Services -> Statuses] /\ row \in [Attempts -> Rows]
  /\ at \in [Attempts -> Steps] /\ made \in Seq(Attempts) /\ IsInjective(made)
  /\ \A a \in Attempts : row[a] # "none" <=> a \in Range(made)
  /\ reloading \subseteq Services
  /\ boot \in {"select", "rows", "services", "done"} /\ selected \subseteq Attempts
  /\ crashes \in 0..MaxCrashes
  /\ struck \subseteq Kinds

(* Once the startup is over, a deployment that is shown as running is      *)
(* being executed, whatever a crash interrupted.                           *)
RunningIsExecuted ==
  boot = "done" /\ Safe({"db"}) =>
    \A a \in Attempts : row[a] = "running" => at[a] \in {"build", "rowDone", "rowError"}

(* When nothing of a service is under way its status is the outcome of its *)
(* latest deployment.                                                      *)
StatusTells ==
  \A s \in Services : \A i \in History(s) :
    /\ struck = {} /\ \A a \in Of(s) \cap Direct : at[a] = "new"
    /\ \A a \in Of(s) : at[a] \notin Running
    /\ \A j \in History(s) : j <= i
    => status[s] = row[made[i]]

(* A service is not shown as being deployed for ever: a crash included,    *)
(* unless it strikes between the statement that writes the status and the  *)
(* one that writes the row, which initCancelDeployments does not look for. *)
StatusSettles ==
  \A s \in Services :
    (status[s] = "running") ~>
      (status[s] # "running" \/ ~Safe({"db", "prune", "odd", "gap"}))
=============================================================================
