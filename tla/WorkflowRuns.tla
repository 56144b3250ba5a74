---------------------------- MODULE WorkflowRuns ----------------------------
(***************************************************************************)
(* Workflow runs executed over SSH (packages/server/src/utils/workflows    *)
(* and services/workflow-run.ts): the run rows of the database, the        *)
(* in-memory queue, the executor of every active run, the createWorkflowRun *)
(* and cancelWorkflowRun calls in flight, the startup recovery, and the    *)
(* scripts on the workflow servers, which outlive the Dokploy process.     *)
(*                                                                         *)
(* Node runs one callback at a time: an action is a database statement or  *)
(* the code between two awaits.  A read and the code that uses it are      *)
(* separate actions where another callback in between matters.  Where a    *)
(* statement may throw, the action has a disjunct for it.                  *)
(*                                                                         *)
(* Routing is settled before a run exists here: ServerOf and GroupOf are   *)
(* the run's serverId (NoServer: it is skipped, or no server can take it)  *)
(* and concurrencyKey.  Runs of self-hosted runners, job rows, logs and    *)
(* error messages are left out.                                            *)
(***************************************************************************)
EXTENDS Integers, FiniteSets, FiniteSetsExt

CONSTANTS Runs, Servers, Groups, NoServer, NoGroup, User,
          ServerOf,      \* [Runs -> Servers or NoServer]
          GroupOf,       \* [Runs -> Groups or NoGroup]
          CancelsOthers, \* runs with cancel-in-progress
          UserCancels,   \* runs a user may ask to cancel
          Faults,        \* of "link" (an SSH connection may drop), "timeout" (a
                         \* run may reach the 6 hour limit), "db" (a statement
                         \* may throw) and "remove" (a server may be removed)
          MaxMishaps,    \* bound: faults of all kinds in a behaviour
          MaxRestarts    \* bound: restarts of the Dokploy process

ASSUME RunsAssumption == IsFiniteSet(Runs)

ASSUME RoutingAssumption ==
  /\ ServerOf \in [Runs -> Servers \cup {NoServer}]
  /\ GroupOf \in [Runs -> Groups \cup {NoGroup}]
  /\ CancelsOthers \subseteq Runs /\ UserCancels \subseteq Runs
  /\ NoServer \notin Servers /\ NoGroup \notin Groups /\ User \notin Runs
ASSUME FaultsAssumption == Faults \subseteq {"link", "timeout", "db", "remove"}
ASSUME BoundAssumption == MaxMishaps \in Nat /\ MaxRestarts \in Nat

Finished == {"success", "failure", "cancelled", "skipped"}
Statuses == {"none", "queued", "in_progress"} \cup Finished

VARIABLES
  status,    \* [Runs -> Statuses], the rows; "none": not created
  created,   \* [Runs -> Nat], order of createdAt; 0: not created
  creating,  \* [Runs -> where its createWorkflowRun is]
  others,    \* [Runs -> runs its applyConcurrency has still to cancel]
  cancels,   \* cancelWorkflowRun calls in flight
  waiting,   \* state.waiting: set of [run, place], ordered by place
  active,    \* keys of state.active
  exec,      \* [Runs -> where its executeWorkflowRun is]
  aborted,   \* active runs whose AbortController fired
  timedOut,  \* active runs past MAX_RUN_DURATION_MS
  killed,    \* active runs whose act process was sent a signal
  outcome,   \* [Runs -> status its executor is about to record]
  script,    \* [Runs -> what its script does on the server]
  boot,      \* progress of initWorkflowRuns
  snapshot,  \* queued runs initWorkflowRuns has read and not dealt with
  serverless, \* those of them whose row had lost its server
  restarts,
  gone,      \* removed servers; a row's serverId is null once its server is
  struck,    \* history: runs a statement threw for, until the next restart
  orphans,   \* history: runs whose script nobody listens to any more
  mishaps    \* history: number of faults

vars == <<status, created, creating, others, cancels, waiting, active, exec,
          aborted, timedOut, killed, outcome, script, boot, snapshot,
          serverless, restarts, gone, struck, orphans, mishaps>>

db       == <<status, created>>
requests == <<creating, others, cancels>>
executor == <<aborted, timedOut, killed, outcome, script, orphans>>
startup  == <<boot, snapshot, serverless, restarts>>
faults   == <<gone, struck, mishaps>>

(* Something goes wrong, of the given kind.                                *)
Fault(kind) == kind \in Faults /\ mishaps < MaxMishaps /\ mishaps' = mishaps + 1

(* A statement throws, to the detriment of the runs of R.                  *)
Throws(R) == Fault("db") /\ struck' = struck \cup R

Calls == [by : Runs \cup {User}, run : Runs, at : {"decide", "write"}]

Init ==
  /\ status = [r \in Runs |-> "none"]
  /\ created = [r \in Runs |-> 0]
  /\ creating = [r \in Runs |-> "no"]
  /\ others = [r \in Runs |-> {}]
  /\ cancels = {}
  /\ waiting = {}
  /\ active = {}
  /\ exec = [r \in Runs |-> "no"]
  /\ aborted = {} /\ timedOut = {} /\ killed = {}
  /\ outcome = [r \in Runs |-> "failure"]
  /\ script = [r \in Runs |-> "none"]
  /\ boot = "failing"
  /\ snapshot = {} /\ serverless = {}
  /\ restarts = 0
  /\ gone = {} /\ struck = {} /\ orphans = {} /\ mishaps = 0

-----------------------------------------------------------------------------
(* The queue (queue.ts).                                                   *)

(* Mutants: only the server or only the concurrency group is looked at.    *)
BlockedByServer(r, A) == \E a \in A : ServerOf[a] = ServerOf[r]
BlockedByGroup(r, A) == \E a \in A : GroupOf[r] # NoGroup /\ GroupOf[a] = GroupOf[r]

Blocked(r, A) ==
  \E a \in A : \/ ServerOf[a] = ServerOf[r]
               \/ GroupOf[r] # NoGroup /\ GroupOf[a] = GroupOf[r]

(* pump() over entries W with runs A active: in order of place, every      *)
(* entry that is not blocked by A or by an entry just started.  E is exec  *)
(* as the caller leaves it; the AbortController of a run goes with it.     *)
Pump(W, A, E) ==
  \E P \in SUBSET W :
    LET started == {w.run : w \in P} IN
    /\ \A w \in W :
         w \in P <=>
           ~Blocked(w.run, A \cup {v.run : v \in {u \in P : u.place < w.place}})
    /\ waiting' = W \ P
    /\ active' = A \cup started
    /\ exec' = [r \in Runs |-> IF r \in started THEN "load" ELSE E[r]]
    /\ aborted' = aborted \cap A
    /\ timedOut' = timedOut \cap A
    /\ killed' = killed \cap A

NextPlace == IF waiting = {} THEN 1 ELSE Max({w.place : w \in waiting}) + 1

(* enqueueWorkflowRun for the runs of R in the order of createdAt; a run   *)
(* already waiting or active is left where it is.                          *)
Enqueue(R) ==
  LET new == {r \in R : r \notin active /\ \A w \in waiting : w.run # r}
      place(r) == NextPlace + Cardinality({q \in new : created[q] < created[r]})
  IN  Pump(waiting \cup {[run |-> r, place |-> place(r)] : r \in new},
           active, exec)

-----------------------------------------------------------------------------
(* createWorkflowRun                                                       *)

(* The insert: queued, or finished at once.                                *)
Create(r) ==
  /\ status[r] = "none"
  /\ \E s \in IF ServerOf[r] \in Servers \ gone
                THEN {"queued"} ELSE {"skipped", "failure"} :
       /\ status' = [status EXCEPT ![r] = s]
       /\ creating' = [creating EXCEPT ![r] = IF s = "queued" THEN "find" ELSE "done"]
  /\ created' = [created EXCEPT ![r] = 1 + Cardinality({q \in Runs : created[q] > 0})]
  /\ UNCHANGED <<others, cancels, waiting, active, exec, executor, startup, faults>>

(* applyConcurrency's query, or its failure: the row stays behind, queued. *)
FindOthers(r) ==
  /\ creating[r] = "find"
  /\ \/ /\ others' = [others EXCEPT ![r] =
             { o \in Runs \ {r} :
                 /\ GroupOf[r] # NoGroup /\ GroupOf[o] = GroupOf[r]
                 /\ \/ status[o] = "queued"
                    \/ r \in CancelsOthers /\ status[o] = "in_progress" }]
        /\ creating' = [creating EXCEPT ![r] = "cancel"]
        /\ UNCHANGED <<struck, mishaps>>
     \/ /\ Throws({r})
        /\ creating' = [creating EXCEPT ![r] = "done"]
        /\ UNCHANGED others
  /\ UNCHANGED <<db, cancels, waiting, active, exec, executor, startup, gone>>

(* cancelWorkflowRun, called by b, has read the row: it ends there when    *)
(* the run has finished.                                                   *)
Call(b, r) ==
  IF status[r] \in Finished THEN {} ELSE {[by |-> b, run |-> r, at |-> "decide"]}

(* Something called by b throws.  It is b's end if b is a createWorkflowRun *)
(* (the row is not enqueued); the runs of R lose by it too.                *)
BreaksOff(b, R) ==
  /\ Throws(R \cup ({b} \cap Runs))
  /\ creating' = [r \in Runs |-> IF r = b THEN "done" ELSE creating[r]]
  /\ others' = [r \in Runs |-> IF r = b THEN {} ELSE others[r]]

(* applyConcurrency's loop: one awaited cancelWorkflowRun at a time.       *)
CancelOther(r) ==
  /\ creating[r] = "cancel" /\ others[r] # {}
  /\ \A c \in cancels : c.by # r
  /\ \/ /\ \E o \in others[r] :
             /\ others' = [others EXCEPT ![r] = @ \ {o}]
             /\ cancels' = cancels \cup Call(r, o)
        /\ UNCHANGED <<creating, struck, mishaps>>
     \/ BreaksOff(r, {}) /\ UNCHANGED cancels
  /\ UNCHANGED <<db, waiting, active, exec, executor, startup, gone>>

EnqueueCreated(r) ==
  /\ creating[r] = "cancel" /\ others[r] = {}
  /\ \A c \in cancels : c.by # r
  /\ creating' = [creating EXCEPT ![r] = "done"]
  /\ Enqueue({r})
  /\ UNCHANGED <<db, others, cancels, outcome, script, orphans, startup, faults>>

-----------------------------------------------------------------------------
(* cancelWorkflowRun                                                       *)

UserCancel(r) ==
  /\ r \in UserCancels /\ status[r] \in {"queued", "in_progress"}
  /\ \A c \in cancels : ~(c.by = User /\ c.run = r)
  /\ cancels' = cancels \cup Call(User, r)
  /\ UNCHANGED <<db, creating, others, waiting, active, exec, executor, startup, faults>>

(* Firing the signal of an active run runs the listeners attached by then: *)
(* while the script runs one of them sends the cancel script, which does   *)
(* nothing unless act has been started.                                    *)
Signalled(r) ==
  IF exec[r] = "remote" /\ script[r] = "act" /\ r \notin aborted \cup timedOut
    THEN killed \cup {r} ELSE killed

(* cancelQueuedOrActiveRun, on what the row was when it was read; before   *)
(* it the update of the reason may throw.                                  *)
CancelDecide(c) ==
  /\ c.at = "decide"
  /\ \/ /\ c.run \in active
        /\ aborted' = aborted \cup {c.run}
        /\ killed' = Signalled(c.run)
        /\ cancels' = cancels \ {c}
        /\ UNCHANGED <<creating, others, waiting, struck, mishaps>>
     \/ /\ c.run \notin active
        /\ waiting' = {w \in waiting : w.run # c.run}
        /\ cancels' = (cancels \ {c}) \cup {[c EXCEPT !.at = "write"]}
        /\ UNCHANGED <<creating, others, aborted, killed, struck, mishaps>>
     \/ /\ BreaksOff(c.by, {})
        /\ cancels' = cancels \ {c}
        /\ UNCHANGED <<waiting, aborted, killed>>
  /\ UNCHANGED <<db, active, exec, timedOut, outcome, script, orphans, startup, gone>>

(* The run has left the waiting list whether or not the update throws.     *)
CancelWrite(c) ==
  /\ c.at = "write"
  /\ cancels' = cancels \ {c}
  /\ \/ /\ status' = [status EXCEPT ![c.run] = "cancelled"]
        /\ UNCHANGED <<creating, others, struck, mishaps>>
     \/ BreaksOff(c.by, {c.run}) /\ UNCHANGED status
  /\ UNCHANGED <<created, waiting, active, exec, executor, startup, gone>>

-----------------------------------------------------------------------------
(* executeWorkflowRun, RunRecorder and runRemoteScript                     *)

(* RunRecorder.start reads the row and gives up unless it is queued.  It   *)
(* may throw, and then the queue logs the error and drops the run.         *)
Load(r) ==
  /\ exec[r] = "load"
  /\ \/ /\ exec' = [exec EXCEPT ![r] = IF status[r] = "queued" THEN "mark" ELSE "leave"]
        /\ UNCHANGED <<struck, mishaps>>
     \/ /\ Throws({r})
        /\ exec' = [exec EXCEPT ![r] = "leave"]
  /\ UNCHANGED <<db, requests, waiting, active, executor, startup, gone>>

(* Its update is not conditional on the status.  The executor returns when *)
(* the updated row has no server; the update may throw, done or not.       *)
Mark(r) ==
  /\ exec[r] = "mark"
  /\ \/ /\ status' = [status EXCEPT ![r] = "in_progress"]
        /\ exec' = [exec EXCEPT ![r] = IF ServerOf[r] \in gone THEN "leave" ELSE "prepare"]
        /\ UNCHANGED <<struck, mishaps>>
     \/ /\ Throws({r})
        /\ \E s \in {status[r], "in_progress"} : status' = [status EXCEPT ![r] = s]
        /\ exec' = [exec EXCEPT ![r] = "leave"]
  /\ UNCHANGED <<created, requests, waiting, active, executor, startup, gone>>

(* Loading the server, building the inputs and connecting, any of which    *)
(* may throw; then the abort listener is attached and the script started.  *)
Prepare(r) ==
  /\ exec[r] = "prepare"
  /\ \/ /\ ServerOf[r] \notin gone
        /\ exec' = [exec EXCEPT ![r] = "remote"]
        /\ script' = [script EXCEPT ![r] = "fetch"]
        /\ UNCHANGED outcome
     \/ /\ exec' = [exec EXCEPT ![r] = "finish"]
        /\ outcome' = [outcome EXCEPT ![r] = "failure"]
        /\ UNCHANGED script
  /\ UNCHANGED <<db, requests, waiting, active, aborted, timedOut, killed, orphans,
                 startup, faults>>

(* The repository is fetched; act is started and its pid file written.     *)
ActStarts(r) ==
  /\ script[r] = "fetch"
  /\ script' = [script EXCEPT ![r] = "act"]
  /\ UNCHANGED <<db, requests, waiting, active, exec, aborted, timedOut, killed,
                 outcome, orphans, startup, faults>>

(* The script ends: the fetch fails, or act ends by itself or because it   *)
(* was told to.  Its stream closes if an executor still listens.           *)
ScriptEnds(r) ==
  /\ script[r] # "none"
  /\ script' = [script EXCEPT ![r] = "none"]
  /\ orphans' = orphans \ {r}
  /\ IF exec[r] = "remote"
       THEN /\ exec' = [exec EXCEPT ![r] = "finish"]
            /\ \E s \in IF script[r] = "act" THEN {"success", "failure"} ELSE {"failure"} :
                 outcome' = [outcome EXCEPT ![r] = s]
       ELSE UNCHANGED <<exec, outcome>>
  /\ UNCHANGED <<db, requests, waiting, active, aborted, timedOut, killed, startup,
                 faults>>

(* The connection drops: the stream closes without an exit code and the    *)
(* script goes on.                                                         *)
LinkDrops(r) ==
  /\ Fault("link")
  /\ exec[r] = "remote"
  /\ exec' = [exec EXCEPT ![r] = "finish"]
  /\ outcome' = [outcome EXCEPT ![r] = "failure"]
  /\ orphans' = orphans \cup {r}
  /\ UNCHANGED <<db, requests, waiting, active, aborted, timedOut, killed, script,
                 startup, gone, struck>>

(* The 6 hour limit fires.                                                 *)
Timeout(r) ==
  /\ Fault("timeout")
  /\ exec[r] \in {"prepare", "remote", "finish"}
  /\ r \notin timedOut
  /\ timedOut' = timedOut \cup {r}
  /\ killed' = Signalled(r)
  /\ UNCHANGED <<db, requests, waiting, active, exec, aborted, outcome, script, orphans,
                 startup, gone, struck>>

(* The cleanup script has run and finish() is called with what the two     *)
(* signals say at that moment.                                             *)
Conclude(r) ==
  /\ exec[r] = "finish"
  /\ outcome' = [outcome EXCEPT ![r] =
                   IF r \in aborted THEN "cancelled"
                   ELSE IF r \in timedOut THEN "failure" ELSE @]
  /\ exec' = [exec EXCEPT ![r] = "record"]
  /\ UNCHANGED <<db, requests, waiting, active, aborted, timedOut, killed, script,
                 orphans, startup, faults>>

(* finish() stores the outcome, whatever the row says by then, or throws.  *)
Record(r) ==
  /\ exec[r] = "record"
  /\ \/ status' = [status EXCEPT ![r] = outcome[r]] /\ UNCHANGED <<struck, mishaps>>
     \/ Throws({r}) /\ UNCHANGED status
  /\ exec' = [exec EXCEPT ![r] = "leave"]
  /\ outcome' = [outcome EXCEPT ![r] = "failure"]
  /\ UNCHANGED <<created, requests, waiting, active, aborted, timedOut, killed, script,
                 orphans, startup, gone>>

(* Mutants: the run stays in the map, or nobody is let in after it.        *)
LeaveStaysActive(r) ==
  /\ exec[r] = "leave"
  /\ Pump(waiting, active, [exec EXCEPT ![r] = "no"])
  /\ UNCHANGED <<db, requests, outcome, script, orphans, startup, faults>>

LeaveWithoutPump(r) ==
  /\ exec[r] = "leave"
  /\ active' = active \ {r}
  /\ exec' = [exec EXCEPT ![r] = "no"]
  /\ aborted' = aborted \ {r} /\ timedOut' = timedOut \ {r} /\ killed' = killed \ {r}
  /\ UNCHANGED <<db, requests, waiting, outcome, script, orphans, startup, faults>>

(* The check run and the notifications are sent; the promise settles and   *)
(* pump's finally block makes room.                                        *)
Leave(r) ==
  /\ exec[r] = "leave"
  /\ Pump(waiting, active \ {r}, [exec EXCEPT ![r] = "no"])
  /\ UNCHANGED <<db, requests, outcome, script, orphans, startup, faults>>

-----------------------------------------------------------------------------
(* A server is removed: its runs, whatever they are doing, lose it.        *)
RemoveServer(s) ==
  /\ Fault("remove")
  /\ s \notin gone
  /\ gone' = gone \cup {s}
  /\ UNCHANGED <<db, requests, waiting, active, exec, executor, startup, struck>>

(* The process dies and starts again.  The HTTP server listens before      *)
(* initWorkflowRuns is called, so requests interleave with it.  "before":  *)
(* the run was created by an earlier process.                              *)
Restart ==
  /\ restarts < MaxRestarts
  /\ restarts' = restarts + 1
  /\ creating' = [r \in Runs |-> IF status[r] = "none" THEN "no" ELSE "before"]
  /\ others' = [r \in Runs |-> {}]
  /\ cancels' = {}
  /\ waiting' = {} /\ active' = {}
  /\ exec' = [r \in Runs |-> "no"]
  /\ aborted' = {} /\ timedOut' = {} /\ killed' = {}
  /\ outcome' = [r \in Runs |-> "failure"]
  /\ boot' = "failing" /\ snapshot' = {} /\ serverless' = {}
  /\ struck' = {}
  /\ orphans' = {r \in Runs : script[r] # "none"}
  /\ UNCHANGED <<db, script, gone, mishaps>>

(* Mutants: startup leaves the rows in progress alone, or forgets the      *)
(* queued ones.                                                            *)
FailNothing ==
  /\ boot = "failing"
  /\ boot' = "reading"
  /\ UNCHANGED <<db, requests, waiting, active, exec, executor, snapshot, serverless,
                 restarts, faults>>

RequeueNothing ==
  /\ boot = "requeueing" /\ serverless = {}
  /\ boot' = "done"
  /\ snapshot' = {}
  /\ UNCHANGED <<db, requests, waiting, active, exec, executor, serverless, restarts,
                 faults>>

(* initWorkflowRuns fails the rows in progress and reads the queued ones.  *)
FailInterrupted ==
  /\ boot = "failing"
  /\ status' = [r \in Runs |-> IF status[r] = "in_progress" THEN "failure" ELSE status[r]]
  /\ boot' = "reading"
  /\ UNCHANGED <<created, requests, waiting, active, exec, executor, snapshot,
                 serverless, restarts, faults>>

ReadQueued ==
  /\ boot = "reading"
  /\ snapshot' = {r \in Runs : status[r] = "queued"}
  /\ serverless' = {r \in snapshot' : ServerOf[r] \in gone}
  /\ boot' = "requeueing"
  /\ UNCHANGED <<db, requests, waiting, active, exec, executor, restarts, faults>>

(* In the order of createdAt it requeues those that have a server, down to *)
(* the next one that has none, in one go ...                               *)
Batch == {r \in snapshot \ serverless : \A q \in serverless : created[r] < created[q]}

Requeue ==
  /\ boot = "requeueing"
  /\ Batch # {} \/ serverless = {}
  /\ Enqueue(Batch)
  /\ boot' = IF serverless = {} THEN "done" ELSE boot
  /\ snapshot' = snapshot \ Batch
  /\ UNCHANGED <<db, requests, outcome, script, orphans, serverless, restarts, faults>>

(* ... and fails that one.                                                 *)
FailRemoved ==
  /\ boot = "requeueing"
  /\ \E r \in serverless :
       /\ \A q \in snapshot \ {r} : created[r] < created[q]
       /\ status' = [status EXCEPT ![r] = "failure"]
       /\ snapshot' = snapshot \ {r} /\ serverless' = serverless \ {r}
  /\ UNCHANGED <<created, requests, waiting, active, exec, executor, boot, restarts,
                 faults>>

(* One of its statements throws: server.ts logs that, and the runs of the  *)
(* earlier process are left as they are.                                   *)
BootFails ==
  /\ \/ boot \in {"failing", "reading"}
     \/ boot = "requeueing" /\ serverless # {}
  /\ Throws({r \in Runs : creating[r] = "before"})
  /\ boot' = "failed" /\ snapshot' = {} /\ serverless' = {}
  /\ UNCHANGED <<db, requests, waiting, active, exec, executor, restarts, gone>>

-----------------------------------------------------------------------------
Recover == FailInterrupted \/ ReadQueued \/ Requeue \/ FailRemoved \/ BootFails
Cancelling(c) == CancelDecide(c) \/ CancelWrite(c)
Executing(r) == \/ Load(r) \/ Mark(r) \/ Prepare(r) \/ Conclude(r)
                \/ Record(r) \/ Leave(r)
Creating(r) == FindOthers(r) \/ CancelOther(r) \/ EnqueueCreated(r)

Next ==
  \/ \E r \in Runs : Create(r)
  \/ \E r \in Runs : Creating(r)
  \/ \E r \in Runs : UserCancel(r)
  \/ \E c \in cancels : Cancelling(c)
  \/ \E r \in Runs : Executing(r)
  \/ \E r \in Runs : ActStarts(r) \/ ScriptEnds(r) \/ LinkDrops(r) \/ Timeout(r)
  \/ \E s \in Servers : RemoveServer(s)
  \/ Restart
  \/ Recover

Spec == Init /\ [][Next]_vars

(* Database statements answer, callbacks run, and scripts end.             *)
Fairness ==
  /\ WF_vars(Recover)
  /\ \A r \in Runs : WF_vars(Creating(r)) /\ WF_vars(Executing(r))
                   /\ WF_vars(ScriptEnds(r))
  /\ \A r \in Runs, b \in Runs \cup {User} :
       WF_vars(\E c \in cancels : c.run = r /\ c.by = b /\ Cancelling(c))

FairSpec == Spec /\ Fairness

-----------------------------------------------------------------------------
Places == {"no", "load", "mark", "prepare", "remote", "finish", "record", "leave"}

TypeOK ==
  /\ status \in [Runs -> Statuses]
  /\ created \in [Runs -> Nat]
  /\ creating \in [Runs -> {"no", "find", "cancel", "done", "before"}]
  /\ others \in [Runs -> SUBSET Runs]
  /\ cancels \in SUBSET Calls
  /\ waiting \in SUBSET [run : Runs, place : Nat \ {0}]
  /\ active \in SUBSET Runs
  /\ exec \in [Runs -> Places]
  /\ \A r \in Runs : r \in active <=> exec[r] # "no"
  /\ aborted \in SUBSET Runs /\ timedOut \in SUBSET Runs /\ killed \in SUBSET Runs
  /\ outcome \in [Runs -> Finished]
  /\ script \in [Runs -> {"none", "fetch", "act"}]
  /\ boot \in {"failing", "reading", "requeueing", "done", "failed"}
  /\ snapshot \in SUBSET Runs /\ serverless \in SUBSET snapshot
  /\ restarts \in Nat /\ mishaps \in Nat
  /\ gone \in SUBSET Servers
  /\ struck \in SUBSET Runs /\ orphans \in SUBSET Runs

(* pump() never lets two active runs share a server or a concurrency group. *)
Conflict(r, q) ==
  /\ r # q
  /\ \/ ServerOf[r] = ServerOf[q]
     \/ GroupOf[r] # NoGroup /\ GroupOf[r] = GroupOf[q]
ActiveRunsCompatible == \A r, q \in active : ~Conflict(r, q)

(* Between callbacks every waiting run is held up by an active one, so the *)
(* next pump, when that one leaves, is all it needs: cancelling a waiting   *)
(* run, which does not pump, strands nobody.                               *)
WaitingIsBlocked == \A w \in waiting : Blocked(w.run, active)

(* Once startup is over, or has failed, a queued row is held by someone    *)
(* who will act on it (the queue, an executor, its creator or a call about *)
(* to cancel it), whatever cancellations, removed servers and restarts     *)
(* cross it: only a statement that threw for that very run leaves its row  *)
(* to the next restart (queue.ts, executor.ts, initWorkflowRuns).          *)
QueuedIsTracked ==
  boot \in {"done", "failed"} =>
    \A r \in Runs \ struck : status[r] = "queued" =>
      \/ \E w \in waiting : w.run = r
      \/ exec[r] \in {"load", "mark"}
      \/ creating[r] \in {"find", "cancel"}
      \/ \E c \in cancels : c.run = r /\ c.at = "write"

(* Once startup is over, or has failed, a row in progress has an executor  *)
(* that will record its outcome, unless a statement threw for that run or  *)
(* its server has been removed (executor.ts returns when the row it has    *)
(* just marked has none).                                                  *)
InProgressIsExecuted ==
  boot \in {"done", "failed"} =>
    \A r \in Runs \ struck : status[r] = "in_progress" /\ ServerOf[r] \notin gone =>
      exec[r] \in {"prepare", "remote", "finish", "record"}

(* No two scripts run on one server or for one concurrency group at a      *)
(* time, except those that a restart or a dropped connection has left      *)
(* without a listener and that nothing stops.                              *)
OneScriptPerServer ==
  \A r, q \in {x \in Runs : script[x] # "none"} \ orphans : ~Conflict(r, q)

(* Every created run ends, through cancellations, dropped connections,     *)
(* timeouts and restarts, unless a statement throws for it or its server   *)
(* is removed: then its row may stay as it is until the next restart.      *)
EveryRunEnds ==
  \A r \in Runs : status[r] \in {"queued", "in_progress"} ~>
    status[r] \in Finished \/ r \in struck \/ ServerOf[r] \in gone

-----------------------------------------------------------------------------
(* What a comment of the repository says and the code does not do.         *)

(* run-recorder.ts, RunRecorder.start: it marks a queued run as started.   *)
StartsOnlyQueued ==
  [][\A r \in Runs :
       status'[r] = "in_progress" => status[r] \in {"queued", "in_progress"}]_vars
=============================================================================
