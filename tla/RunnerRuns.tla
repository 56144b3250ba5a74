----------------------------- MODULE RunnerRuns -----------------------------
(***************************************************************************)
(* Workflow runs executed by self-hosted runners: the rows, the claim,     *)
(* events and complete requests and the stale check of the server          *)
(* (packages/server/src/services/workflow-runner.ts), and the command line *)
(* runner that polls, executes and reports (apps/runner/src/runner.ts).    *)
(*                                                                         *)
(* A request and its database reads are one action, and so is an answer    *)
(* that is delivered; handlers that write after an await keep a record of  *)
(* what they read.  A runner's own crash leaves nothing behind here: the   *)
(* process group it had started is left out, and so are output lines,      *)
(* labels and repositories (every runner may take every run), stopping the *)
(* runner by a signal, and re-registration.                                *)
(***************************************************************************)
EXTENDS Integers, FiniteSets, FiniteSetsExt

CONSTANTS NumRuns,     \* runs 1..NumRuns, numbered in the order of createdAt
          Runners, Groups, NoGroup, Nobody,
          GroupOf,     \* [Runs -> Groups or NoGroup]
          Faults       \* of "offline" (no request arrives for 3 minutes),
                       \* "lost" (a request times out while it is handled),
                       \* "crash" (of a runner), "restart" (of Dokploy) and
                       \* "remove" (of a runner, by a user)

Runs == 1..NumRuns

ASSUME RunsAssumption == NumRuns \in Nat
ASSUME GroupsAssumption ==
  GroupOf \in [Runs -> Groups \cup {NoGroup}] /\ NoGroup \notin Groups
ASSUME NamesAssumption == Nobody \notin Runners
ASSUME FaultsAssumption == Faults \subseteq {"offline", "lost", "crash", "restart", "remove"}

Finished == {"success", "failure", "cancelled"}

VARIABLES
  status,     \* [Runs -> "none", "queued", "in_progress" or finished]
  assignee,   \* [Runs -> Runners or Nobody], the row's workflowRunnerId
  cancelled,  \* runs with cancelRequested
  registered, \* runners that have a row
  seen,       \* runners whose lastSeenAt is less than 3 minutes old
  recorders,  \* runs with an entry in the recorders map
  claims,     \* claim requests being handled
  finishes,   \* calls of finish() under way
  cancels,    \* runs a cancellation has read as queued and not yet written
  cli,        \* [Runners -> what the command line runner is doing]
  job,        \* [Runners -> the run it executes, 0 when there is none]
  exit        \* [Runners -> what the exit code of its script stands for]

vars == <<status, assignee, cancelled, registered, seen, recorders, claims,
          finishes, cancels, cli, job, exit>>

rows   == <<status, assignee, cancelled>>
runner == <<cli, job, exit>>

Claims == [by : Runners, at : {"poll", "locked", "prepare"}, run : Runs \cup {0},
           live : BOOLEAN]
Finishes == [run : Runs, outcome : Finished, at : {"resume", "write"},
             by : Runners \cup {Nobody}]

Init ==
  /\ status = [r \in Runs |-> "none"]
  /\ assignee = [r \in Runs |-> Nobody]
  /\ cancelled = {}
  /\ registered = Runners
  /\ seen = Runners
  /\ recorders = {}
  /\ claims = {} /\ finishes = {} /\ cancels = {}
  /\ cli = [k \in Runners |-> "idle"]
  /\ job = [k \in Runners |-> 0]
  /\ exit = [k \in Runners |-> "failure"]

-----------------------------------------------------------------------------
(* Rows: creation and cancellation (workflow-run.ts).                      *)

(* A run that needs a runner is inserted and waits in the database.        *)
Create(r) ==
  /\ status[r] = "none"
  /\ \A q \in 1..(r - 1) : status[q] # "none"
  /\ status' = [status EXCEPT ![r] = "queued"]
  /\ UNCHANGED <<assignee, cancelled, registered, seen, recorders, claims,
                 finishes, cancels, runner>>

(* A mutant: claims lock nothing.                                          *)
LockedNone == {}

(* Rows a claim has locked until it commits, which other claims skip.      *)
Locked == {c.run : c \in {d \in claims : d.at = "locked"}}

(* cancelWorkflowRun reads the row: for a run in progress it requests the  *)
(* cancellation (a request that comes too late changes nothing), else the  *)
(* status is written after another await.                                  *)
Cancel(r) ==
  \/ /\ status[r] = "in_progress" /\ r \notin cancelled
     /\ cancelled' = cancelled \cup {r}
     /\ UNCHANGED <<status, assignee, registered, seen, recorders, claims,
                    finishes, cancels, runner>>
  \/ /\ status[r] = "queued" /\ r \notin cancels
     /\ cancels' = cancels \cup {r}
     /\ UNCHANGED <<rows, registered, seen, recorders, claims, finishes, runner>>

CancelWrite(r) ==
  /\ r \in cancels \ Locked
  /\ status' = [status EXCEPT ![r] = "cancelled"]
  /\ cancels' = cancels \ {r}
  /\ UNCHANGED <<assignee, cancelled, registered, seen, recorders, claims,
                 finishes, runner>>

-----------------------------------------------------------------------------
(* The claim request                                                       *)

(* A mutant: the credential of a removed runner is accepted.               *)
PollAnyone(k) ==
  /\ cli[k] = "idle"
  /\ seen' = seen \cup {k}
  /\ claims' = claims \cup {[by |-> k, at |-> "poll", run |-> 0, live |-> TRUE]}
  /\ cli' = [cli EXCEPT ![k] = "claiming"]
  /\ UNCHANGED <<rows, registered, recorders, finishes, cancels, job, exit>>

(* The runner asks for work; without a row its credential is refused and   *)
(* it exits.                                                               *)
Poll(k) ==
  /\ cli[k] = "idle"
  /\ IF k \in registered
       THEN /\ seen' = seen \cup {k}
            /\ claims' = claims \cup {[by |-> k, at |-> "poll", run |-> 0, live |-> TRUE]}
            /\ cli' = [cli EXCEPT ![k] = "claiming"]
       ELSE /\ cli' = [cli EXCEPT ![k] = "off"]
            /\ UNCHANGED <<seen, claims>>
  /\ UNCHANGED <<rows, registered, recorders, finishes, cancels, job, exit>>

(* What the subquery of the claim can return.                              *)
Claimable ==
  { r \in Runs \ Locked :
      /\ status[r] = "queued"
      /\ \A q \in Runs : ~(/\ status[q] = "in_progress"
                           /\ GroupOf[q] # NoGroup /\ GroupOf[q] = GroupOf[r]) }

(* The statement runs on the rows committed by then and locks its choice.  *)
ClaimLock(c) ==
  /\ c.at = "poll" /\ Claimable # {}
  /\ claims' = (claims \ {c}) \cup {[c EXCEPT !.at = "locked", !.run = Min(Claimable)]}
  /\ UNCHANGED <<rows, registered, seen, recorders, finishes, cancels, runner>>

(* Nothing to claim until the deadline, or nobody is waiting any more.     *)
ClaimNothing(c) ==
  /\ c.at = "poll" /\ (c.live => Claimable = {})
  /\ claims' = claims \ {c}
  /\ cli' = IF c.live THEN [cli EXCEPT ![c.by] = "idle"] ELSE cli
  /\ UNCHANGED <<rows, registered, seen, recorders, finishes, cancels, job, exit>>

(* The statement commits; a runner removed meanwhile makes it fail.        *)
ClaimCommit(c) ==
  /\ c.at = "locked"
  /\ IF c.by \in registered
       THEN /\ status' = [status EXCEPT ![c.run] = "in_progress"]
            /\ assignee' = [assignee EXCEPT ![c.run] = c.by]
            /\ claims' = (claims \ {c}) \cup {[c EXCEPT !.at = "prepare"]}
            /\ recorders' = recorders \ {c.run}
            /\ UNCHANGED cli
       ELSE /\ claims' = claims \ {c}
            /\ cli' = IF c.live THEN [cli EXCEPT ![c.by] = "idle"] ELSE cli
            /\ UNCHANGED <<status, assignee, recorders>>
  /\ UNCHANGED <<cancelled, registered, seen, finishes, cancels, job, exit>>

(* The recorder is resumed and the inputs of the run built: the script is  *)
(* answered to whoever waits.                                              *)
ClaimAnswer(c) ==
  /\ c.at = "prepare" /\ status[c.run] = "in_progress"
  /\ recorders' = recorders \cup {c.run}
  /\ claims' = claims \ {c}
  /\ IF c.live THEN /\ cli' = [cli EXCEPT ![c.by] = "running"]
                    /\ job' = [job EXCEPT ![c.by] = c.run]
               ELSE UNCHANGED <<cli, job>>
  /\ UNCHANGED <<rows, registered, seen, finishes, cancels, exit>>

(* The run is over by then, or its inputs cannot be built and it is failed *)
(* through completeRunnerRun, which nobody else can be calling for it yet: *)
(* the request polls on.  A runner removed meanwhile gets an error.  The   *)
(* entry of the recorders map is deleted only with the failure.            *)
ClaimFails(c) ==
  LET r == c.run IN
  /\ c.at = "prepare"
  /\ IF status[r] = "in_progress" /\ assignee[r] = c.by
       THEN /\ status' = [status EXCEPT ![r] = IF r \in cancelled THEN "cancelled" ELSE "failure"]
            /\ recorders' = recorders \ {r}
       ELSE /\ recorders' = recorders \cup {r}
            /\ UNCHANGED status
  /\ IF c.by \in registered
       THEN /\ claims' = (claims \ {c}) \cup {[c EXCEPT !.at = "poll", !.run = 0]}
            /\ UNCHANGED cli
       ELSE /\ claims' = claims \ {c}
            /\ cli' = IF c.live THEN [cli EXCEPT ![c.by] = "idle"] ELSE cli
  /\ UNCHANGED <<assignee, cancelled, registered, seen, finishes, cancels, job, exit>>

-----------------------------------------------------------------------------
(* Execution and reports                                                   *)

(* A mutant: the answer does not carry the cancellation.                   *)
HeartbeatDeaf(k) ==
  LET r == job[k] IN
  /\ cli[k] \in {"running", "stopping"}
  /\ k \in registered
  /\ seen' = seen \cup {k}
  /\ IF assignee[r] = k /\ status[r] = "in_progress"
       THEN recorders' = recorders \cup {r} ELSE UNCHANGED recorders
  /\ UNCHANGED <<rows, registered, claims, finishes, cancels, runner>>

(* A batch of output, possibly empty, is posted every few seconds; the     *)
(* answer says whether to stop.  Without a row, or for a run that is not   *)
(* the runner's, the error is only logged.                                 *)
Heartbeat(k) ==
  LET r == job[k] IN
  /\ cli[k] \in {"running", "stopping"}
  /\ k \in registered
  /\ seen' = seen \cup {k}
  /\ IF assignee[r] = k /\ status[r] = "in_progress"
       THEN recorders' = recorders \cup {r} ELSE UNCHANGED recorders
  /\ IF assignee[r] = k /\ (status[r] # "in_progress" \/ r \in cancelled)
       THEN cli' = [cli EXCEPT ![k] = "stopping"] ELSE UNCHANGED cli
  /\ UNCHANGED <<rows, registered, claims, finishes, cancels, job, exit>>

(* The process group ends, by itself or because it is killed.              *)
ScriptEnds(k) ==
  /\ cli[k] \in {"running", "stopping"}
  /\ cli' = [cli EXCEPT ![k] = "flushing"]
  /\ \E c \in {"success", "failure"} : exit' = [exit EXCEPT ![k] = c]
  /\ UNCHANGED <<rows, registered, seen, recorders, claims, finishes, cancels, job>>

(* Runner k has done with its run.                                         *)
Done(k) ==
  /\ cli' = [cli EXCEPT ![k] = "idle"]
  /\ job' = [job EXCEPT ![k] = 0]
  /\ exit' = [exit EXCEPT ![k] = "failure"]

(* The output that is left is posted before the result.  A refused         *)
(* credential is retried for ever, a run that is not its own given up.     *)
Flush(k) ==
  LET r == job[k] IN
  /\ cli[k] = "flushing"
  /\ k \in registered
  /\ seen' = seen \cup {k}
  /\ recorders' = IF assignee[r] = k /\ status[r] = "in_progress"
                    THEN recorders \cup {r} ELSE recorders
  /\ IF assignee[r] = k
       THEN cli' = [cli EXCEPT ![k] = "posting"] /\ UNCHANGED <<job, exit>>
       ELSE Done(k)
  /\ UNCHANGED <<rows, registered, claims, finishes, cancels>>

(* Mutants: the answer does not wait for finish(), or a cancelled run is   *)
(* taken to be over.                                                       *)
CompleteUnawaited(k) ==
  LET r == job[k] IN
  /\ cli[k] = "posting"
  /\ k \in registered
  /\ seen' = seen \cup {k}
  /\ finishes' = IF assignee[r] = k /\ status[r] = "in_progress"
                   THEN finishes \cup {[run |-> r, at |-> "write", by |-> Nobody,
                                        outcome |-> exit[k]]}
                   ELSE finishes
  /\ recorders' = recorders \ {r}
  /\ Done(k)
  /\ UNCHANGED <<rows, registered, claims, cancels>>

CompleteUncancelled(k) ==
  LET r == job[k] IN
  /\ cli[k] = "posting"
  /\ k \in registered
  /\ \A f \in finishes : f.by # k
  /\ seen' = seen \cup {k}
  /\ IF assignee[r] = k /\ status[r] = "in_progress" /\ r \notin cancelled
       THEN /\ finishes' = finishes \cup
                 {[run |-> r, at |-> "write", by |-> k, outcome |-> exit[k]]}
            /\ recorders' = recorders \ {r}
            /\ UNCHANGED runner
       ELSE Done(k) /\ UNCHANGED <<finishes, recorders>>
  /\ UNCHANGED <<rows, registered, claims, cancels>>

(* The result is posted; for a run that is over nothing is done.           *)
Complete(k) ==
  LET r == job[k] IN
  /\ cli[k] = "posting"
  /\ k \in registered
  /\ \A f \in finishes : f.by # k
  /\ seen' = seen \cup {k}
  /\ IF assignee[r] = k /\ status[r] = "in_progress"
       THEN /\ finishes' = finishes \cup
                 {[run |-> r, at |-> IF r \in recorders THEN "write" ELSE "resume",
                   by |-> k, outcome |-> IF r \in cancelled THEN "cancelled" ELSE exit[k]]}
            /\ recorders' = recorders \ {r}
            /\ UNCHANGED runner
       ELSE Done(k) /\ UNCHANGED <<finishes, recorders>>
  /\ UNCHANGED <<rows, registered, claims, cancels>>

(* The answer to a runner that waits for it.                               *)
Reported(f) == IF f.by \in Runners THEN Done(f.by) ELSE UNCHANGED runner

(* RunRecorder.resume reads the row again when no recorder was in the map. *)
FinishResume(f) ==
  /\ f.at = "resume"
  /\ IF status[f.run] = "in_progress"
       THEN /\ finishes' = (finishes \ {f}) \cup {[f EXCEPT !.at = "write"]}
            /\ UNCHANGED runner
       ELSE finishes' = finishes \ {f} /\ Reported(f)
  /\ UNCHANGED <<rows, registered, seen, recorders, claims, cancels>>

(* finish() stores the outcome, whatever the row says by then.             *)
FinishWrite(f) ==
  /\ f.at = "write"
  /\ status' = [status EXCEPT ![f.run] = f.outcome]
  /\ finishes' = finishes \ {f}
  /\ Reported(f)
  /\ UNCHANGED <<assignee, cancelled, registered, seen, recorders, claims, cancels>>

(* The check of every minute fails the runs of silent runners.             *)
StaleCheck ==
  LET silent == { r \in Runs : /\ status[r] = "in_progress"
                               /\ assignee[r] \in registered \ seen } IN
  /\ silent # {}
  /\ finishes' = finishes \cup
       { [run |-> r, at |-> IF r \in recorders THEN "write" ELSE "resume",
          by |-> Nobody, outcome |-> "failure"] : r \in silent }
  /\ recorders' = recorders \ silent
  /\ UNCHANGED <<rows, registered, seen, claims, cancels, runner>>

-----------------------------------------------------------------------------
(* Faults                                                                  *)

(* Nothing from runner k arrives for 3 minutes.                            *)
Silence(k) ==
  /\ k \in seen
  /\ "offline" \in Faults \/ cli[k] = "off"
  /\ seen' = seen \ {k}
  /\ UNCHANGED <<rows, registered, recorders, claims, finishes, cancels, runner>>

Orphaned(k) == {[c EXCEPT !.live = (c.by # k /\ @)] : c \in claims}
Unattended(k) == {[f EXCEPT !.by = IF @ = k THEN Nobody ELSE @] : f \in finishes}

(* What a runner does when its request fails.                              *)
Retry(at) == CASE at = "claiming" -> "idle"
               [] at = "posting" -> "flushing"
               [] OTHER -> at

(* A request of k times out while the server goes on handling it: a claim  *)
(* is asked for again, a result posted again.                              *)
TimeOut(k) ==
  /\ "lost" \in Faults
  /\ \/ cli[k] = "claiming" \/ \E f \in finishes : f.by = k
  /\ claims' = Orphaned(k)
  /\ finishes' = Unattended(k)
  /\ cli' = [cli EXCEPT ![k] = Retry(@)]
  /\ UNCHANGED <<rows, registered, seen, recorders, cancels, job, exit>>

(* The runner's process dies.                                              *)
Crash(k) ==
  /\ "crash" \in Faults
  /\ cli[k] # "off"
  /\ claims' = Orphaned(k)
  /\ finishes' = Unattended(k)
  /\ cli' = [cli EXCEPT ![k] = "off"]
  /\ job' = [job EXCEPT ![k] = 0]
  /\ exit' = [exit EXCEPT ![k] = "failure"]
  /\ UNCHANGED <<rows, registered, seen, recorders, cancels>>

Start(k) ==
  /\ cli[k] = "off" /\ k \in registered
  /\ cli' = [cli EXCEPT ![k] = "idle"]
  /\ UNCHANGED <<rows, registered, seen, recorders, claims, finishes, cancels, job, exit>>

(* Dokploy restarts: requests under way fail and are sent again.           *)
Restart ==
  /\ "restart" \in Faults
  /\ recorders' = {} /\ claims' = {} /\ finishes' = {} /\ cancels' = {}
  /\ cli' = [k \in Runners |-> Retry(cli[k])]
  /\ UNCHANGED <<rows, registered, seen, job, exit>>

(* A user deletes the runner: its runs keep their status and lose it.      *)
Remove(k) ==
  /\ "remove" \in Faults
  /\ k \in registered
  /\ registered' = registered \ {k}
  /\ seen' = seen \ {k}
  /\ assignee' = [r \in Runs |-> IF assignee[r] = k THEN Nobody ELSE assignee[r]]
  /\ UNCHANGED <<status, cancelled, recorders, claims, finishes, cancels, runner>>

-----------------------------------------------------------------------------
Claiming(c) == ClaimLock(c) \/ ClaimNothing(c) \/ ClaimCommit(c) \/ ClaimAnswer(c)
               \/ ClaimFails(c)
Finishing(f) == FinishResume(f) \/ FinishWrite(f)

Next ==
  \/ \E r \in Runs : Create(r) \/ Cancel(r) \/ CancelWrite(r)
  \/ \E k \in Runners : Poll(k) \/ Heartbeat(k) \/ ScriptEnds(k)
                          \/ Flush(k) \/ Complete(k)
  \/ \E c \in claims : Claiming(c)
  \/ \E f \in finishes : Finishing(f)
  \/ StaleCheck
  \/ \E k \in Runners : Silence(k) \/ TimeOut(k) \/ Crash(k) \/ Start(k) \/ Remove(k)
  \/ Restart

Spec == Init /\ [][Next]_vars

(* Statements answer, a runner that is up polls and posts, the machine     *)
(* that is asked to stop a process group stops it, and the check runs      *)
(* every minute.  Nothing makes a script end by itself, a runner start or  *)
(* a user act.                                                             *)
Fairness ==
  /\ \A r \in Runs : WF_vars(CancelWrite(r))
  /\ \A k \in Runners :
       /\ WF_vars(Poll(k))
       /\ WF_vars(Flush(k)) /\ WF_vars(Complete(k))
       /\ WF_vars(cli[k] = "running" /\ Heartbeat(k))
       /\ WF_vars(cli[k] = "stopping" /\ ScriptEnds(k))
       /\ WF_vars(\E c \in claims : c.by = k /\ Claiming(c))
  /\ \A r \in Runs :
       /\ WF_vars(\E f \in finishes : f.run = r /\ FinishResume(f))
       /\ WF_vars(\E f \in finishes : f.run = r /\ FinishWrite(f))
  /\ WF_vars(StaleCheck)

FairSpec == Spec /\ Fairness

-----------------------------------------------------------------------------
Doing == {"off", "idle", "claiming", "running", "stopping", "flushing", "posting"}

TypeOK ==
  /\ status \in [Runs -> {"none", "queued", "in_progress"} \cup Finished]
  /\ assignee \in [Runs -> Runners \cup {Nobody}]
  /\ cancelled \in SUBSET Runs /\ recorders \in SUBSET Runs /\ cancels \in SUBSET Runs
  /\ registered \in SUBSET Runners /\ seen \in SUBSET registered
  /\ claims \in SUBSET Claims /\ finishes \in SUBSET Finishes
  /\ cli \in [Runners -> Doing]
  /\ job \in [Runners -> Runs \cup {0}]
  /\ exit \in [Runners -> {"success", "failure"}]

(* No run is executed twice at the same time, and none by a runner other   *)
(* than the one its row names (claimRunForRunner), whatever claims are     *)
(* repeated, lost or concurrent.                                           *)
ExecutedByAssignee ==
  \A k \in Runners : job[k] # 0 =>
    /\ k \in registered => assignee[job[k]] = k
    /\ \A m \in Runners \ {k} : job[m] # job[k]

(* A runner forgets a result only when Dokploy has the run down as over    *)
(* (executeRun retries until its result arrives), through time-outs,       *)
(* restarts of Dokploy and results posted twice.                           *)
ResultNotDropped ==
  [][\A k \in registered :
       cli[k] \in {"flushing", "posting"} /\ cli'[k] = "idle"
         => status'[job[k]] \in Finished]_vars

(* A run that is over stays over: neither a claim that is committing nor a *)
(* late report takes it up again.                                          *)
OverForGood ==
  [][\A r \in Runs : status[r] \in Finished => status'[r] \in Finished]_vars

(* A claimed run ends, if scripts end by themselves.                       *)
ClaimedRunsEnd ==
  (\A k \in Runners : WF_vars(ScriptEnds(k)))
    => \A r \in Runs : status[r] = "in_progress" ~> status[r] \in Finished

(* A run whose cancellation is requested ends, even if its script would    *)
(* not: the runner learns of it from the answers to its output.            *)
CancelledRunsEnd ==
  \A r \in Runs : r \in cancelled /\ status[r] = "in_progress" ~> status[r] \in Finished

-----------------------------------------------------------------------------
(* What comments and docs of the repository say and the code does not do.  *)

(* docs/plans/workflows.md: claims respect concurrency groups.             *)
ClaimsRespectGroups ==
  \A r, q \in Runs :
    /\ r # q /\ GroupOf[r] # NoGroup /\ GroupOf[r] = GroupOf[q]
    => ~(status[r] = "in_progress" /\ status[q] = "in_progress")
=============================================================================
