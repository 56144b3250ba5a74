# Verification of Dokploy in TLA+

Dokploy is a deployment platform: one Node process (`apps/dokploy`) serves the
web interface, keeps its state in PostgreSQL, builds applications, and drives
Docker on local and remote servers over SSH. This directory holds TLA+ models
of the parts of it that run concurrently, configurations for TLC, and proofs
for TLAPS. Paths below are relative to the root of the repository; line numbers
of the translation of every definition are in `PROJECT.json` (`map`).

- [Inventory](#inventory)
- [Deployment queue](#deployment-queue)
- [Workflow runs over SSH](#workflow-runs-over-ssh)
- [Self-hosted runners](#self-hosted-runners)
- [Output of a runner](#output-of-a-runner)
- [Deployments](#deployments)
- [Transfer of a service](#transfer-of-a-service)
- [Migration of a server](#migration-of-a-server)
- [Disagreements between docs and code](#disagreements-between-docs-and-code)
- [What is proved](#what-is-proved)
- [What is only model-checked](#what-is-only-model-checked)
- [Plan](#plan)
- [Not modelled](#not-modelled)

To check a module: `tlc -config WorkflowRuns_queue.cfg MCWorkflowRuns`; to
check the proofs: `tlapm DeployQueueProofs.tla`.

## Inventory

### Components with a protocol of their own

| Component | State | Operations | Interacts with |
|---|---|---|---|
| **Deployment queue**, `apps/dokploy/server/queues` | per partition (server): waiting array, active jobs, active groups; `running`, `seq`, the registered processor | `add`, `process`, `run`, `close`, `getJobs(...).remove`, `removeWaiting`, `clearWaiting`, `drainPartition`, `runJob` | routers and webhooks add jobs; the deployment worker is its processor; the limit is read from the database on every drain; clean-up buttons remove jobs; SIGTERM closes it |
| **Deployment worker and records**, `deployments-queue.ts`, `services/application.ts`, `compose.ts`, `deployment.ts` | application/compose status, deployment rows with a pid and a log path | deploy, rebuild, preview deploy, kill a build, cancel, start-up clean-up | called by the queue and, directly, by transfers |
| **Workflow runs over SSH**, `packages/server/src/utils/workflows/{queue,executor,run-recorder,ssh,act}.ts`, `services/workflow-run.ts` | run rows; `state.waiting`, `state.active` with an AbortController each; scripts, pid files and containers on the workflow server | create (with a concurrency group), re-run, cancel, enqueue/pump, execute, finish, 6 hour limit, start-up recovery | webhooks and users create runs; the recorder updates rows while `act` prints; GitHub checks and notifications at the end |
| **Self-hosted runners**, `services/workflow-runner.ts`, `apps/runner/src` | run rows with `workflowRunnerId` and `cancelRequested`, runner rows with `lastSeenAt`, the recorders map; on the runner: the process group and unsent output | claim (long poll), events, complete, stale check, removal; on the runner: poll, execute, post batches, post the result until answered | the same rows as the SSH runs; cancelled by `cancelWorkflowRun` |
| **Workflow definitions**, `parser.ts`, `triggers.ts`, `expressions.ts`, `events.ts` | none | parse, match a trigger, evaluate an expression | decide which runs are created |
| **Service transfer**, `services/transfer.ts` | a `StagedTransfer` in memory (what was stopped, whether the record was switched, what to restore); `serverId` and status of the service; volumes and containers on two servers | prepare, stage (stop, copy, switch, deploy), health check, commit, roll back | deploys outside the queue, and changes the partition of a service under its feet |
| **Server migration**, `services/server-migration.ts` | the staged and committed transfers, the DNS reverts, the set of locked servers; all in memory | select, lock, per environment: prepare, stage, check, probe, switch records, probe; revert and roll back; drain, commit, unlock | drives transfers; Cloudflare's records and what resolvers remember of them |
| **Runner output**, `apps/runner/src/output.ts`, `run-recorder.ts`, `act-log.ts` | on the runner: a queue of lines, its size, a batch in flight, lines dropped; on the server: recorders with a chain of pending lines and the jobs they know, job rows | add (dropping the oldest lines at a limit), flush, drain; push lines, handle a line, resume, finish | batches and the result are repeated until answered |
| **Backups, schedules** | cron jobs of one process | shell pipelines | locks left to the shell |

Everything else (databases, builders, domains, Traefik, providers, vaults,
permissions, notifications, monitoring, cloud services, user interface) is
listed in `PROJECT.json` under `components` with the reason why it is not
modelled: text transformations, row updates of one request, provider APIs, or a
protocol that belongs to another product (Inngest for `apps/api`, BullMQ for
`apps/schedules`).

### What is hard in it

There is one thread, but every `await` lets other callbacks run, and the state
is spread over memory, the database, remote machines and other processes.

- *A read before an await and a write after it*: `drainPartition` awaits the
  limit; `RunRecorder.start`, `cancelWorkflowRun`, `applyConcurrency`,
  `failStaleRunnerRuns` and `RunRecorder.finish` write rows on the strength of
  rows read earlier.
- *Crashes*: queues are in memory, rows are not, and remote scripts survive the
  process that started them. Requests are served before start-up recovery.
- *Lost requests*: runners talk HTTP; a request may time out while the server
  goes on handling it.
- *Errors that are logged and passed over*: a run whose executor throws, a line
  whose row cannot be written, a domain that cannot be analyzed: the code goes on,
  and what it leaves behind must stay confined to that run, line or domain.
- *Liveness without a timer*: both queues wake waiting work only from the
  callback that ends other work.

### What makes the components correct

- Deployment queue: builds of one service never overlap in a partition, they run in
  the order of addition, no partition exceeds its limit, no job is left behind with
  nobody to wake it.
- Workflow runs: no two active runs share a server or a concurrency group; every row
  that is not finished has somebody who will finish it, also after a restart, unless
  a statement threw for that very run or its server was removed; a waiting run is
  always held up by an active one.
- Runners: a run is executed by one runner only, the one its row names; its result
  is not dropped; a finished run stays finished; a claimed or cancelled run ends.
- Runner output: lines arrive in order, and those that do not arrive were dropped at
  the limit, and counted or told of, or could not be written; a job has one row,
  which is not left in progress.
- Deployments: what is shown as running is being executed, also after a restart; no
  service stays `running` for ever; the status of an idle service is the outcome of
  its latest deployment.
- Transfers: a service with data never runs twice and never without its data; one
  without data is served throughout; a transfer that fails leaves the service where
  it was, one that is committed moves it.
- Migrations: services that use one another switch together, with their DNS records,
  but for the domains that the user is told to update; visitors are not cut off; two
  migrations do not meet in a server.

`PROJECT.json` lists the hazards line by line, with the properties that would
catch each one, and a note where a property does not cover all of it.

## Deployment queue

`SerialExecutor` ← `DeployQueue` ← `MCDeployQueue`, `DeployQueueProofs`

**DeployQueue** models `in-memory-queue.ts`, `concurrency.ts` and
`queueSetup.ts`. Node runs one callback at a time and `drainPartition` suspends
exactly once, at `await resolveConcurrency(...)`; an action is the code between
two suspension points. The `waiting` arrays are always sorted by job id (`add`
appends, nothing else inserts), so they are sets of jobs.

| Model | Code |
|---|---|
| `waiting`, `active`, `activeGroups` per partition, `keys` | `PartitionState` and the `partitions` map |
| `reading[p]` | drains suspended in `await` whose answer is not there |
| `granted[p][n]` | drains that have been answered limit `n` and have not resumed |
| `Add`, `Process`, `Run`, `Close` | the methods; `Schedule` is `schedule()`, one drain per known partition |
| `Remove`, `RemoveWaiting`, `ClearWaiting` | `filter`s of the waiting arrays, by the clean-up routes |
| `ReadLimit` | `resolveBuildsConcurrency`, with its clamp to 1 and its `catch` |
| `Drain` | the loop after the await, which starts `Starts(p, n)` |
| `Finish` | the `finally` of `runJob`, which drains whatever `running` says |
| `Configure` | the setting is changed; nothing is scheduled |
| `Restart` | SIGTERM or a crash: the queue is empty again |

**SerialExecutor** is what the queue promises: jobs of one group run one at a
time and in the order of addition; a job may vanish while it waits; a restart
forgets everything. `ImplementsExecutor` is the refinement, under the mapping
in `DeployQueue`.

Properties: `GroupsSerialized` (no two active jobs of one group in a partition),
`OldestRunsFirst` (no active job was added after one of its group that still
waits), `WithinCapacity` (active jobs never exceed the largest limit, although
several drains that read different limits resume one after the other),
`WorkConserving` (while the queue is on and no drain of the
partition is under way, a job that could start waits only because the partition
runs as many jobs as some limit in use allows: nobody is forgotten),
`EveryJobServed` (a waiting job of a queue that stays on is started or removed).

| Run | Shows | Bounds and why they are enough |
|---|---|---|
| `queue` | `WithinCapacity` and `WorkConserving` with failing queries, `ImplementsExecutor` (which implies `GroupsSerialized` and `OldestRunsFirst`; they are proved below), and `EveryJobServed` under `FairSpec` | 1 partition (partitions share nothing but `schedule()`, which the proofs cover for any number); 3 groups and limits 1 and 2, so that there is a group more than the largest limit and a drain can hold an older limit above or below the stored one; 4 jobs: two jobs of one group with jobs of the others beside them; `MaxDrains` 2: two drains at each suspension point, which is what an overlap takes |

*Limits.* `MaxJobs` bounds the jobs a process accepts and `MaxDrains` the
drains at one suspension point; `MaxDrains` only delays `Add`, `Run` and
`ReadLimit`, never `Finish`. `Settings` starts at 1 because the validation of
the setting does; the proofs take any integers, the clamp to 1 included.

*Fairness* (`FairSpec`): database queries answer and their continuations run
(`ReadLimit`, `Drain`), and a processor's promise settles (`Finish`): the code
awaits a child process that is expected to end. Nothing else is fair: nobody
has to add, run or configure.

Exclusion holds *within* a partition, but a service that is transferred to
another server is queued in another partition, and a transfer deploys it without
the queue: [Transfer](#transfer-of-a-service) has the builds of the queue beside
the sagas.

## Workflow runs over SSH

`WorkflowRuns` ← `MCWorkflowRuns`, `WorkflowRunsProofs`

**WorkflowRuns** models `queue.ts`, `executor.ts`, `RunRecorder`'s start and
finish, `runRemoteScript`, the script and cancel script of `act.ts`, and from
`services/workflow-run.ts` creation, `applyConcurrency`, `cancelWorkflowRun` and
`initWorkflowRuns`.

| Model | Code |
|---|---|
| `status`, `created` | the rows' status and the order of `createdAt` |
| `creating`, `others` | where `createWorkflowRun` is: it inserts (`Create`), queries its group (`FindOthers`), cancels one run after another (`CancelOther`) and enqueues (`EnqueueCreated`) |
| `cancels` | calls of `cancelWorkflowRun` by a user or by a creation, between their awaits: `CancelDecide` looks at the queue, `CancelWrite` overwrites the row |
| `waiting`, `active` | `state.waiting` and the keys of `state.active`; `Pump` is `pump()` |
| `exec` | where `executeWorkflowRun` is: `Load` and `Mark` are the two halves of `RunRecorder.start`, then `Prepare`, the remote script, `Conclude`, `Record` (`finish`), `Leave` |
| `Throws`, `BreaksOff`, `struck` | statements that throw where nothing catches them but the queue (`queue.ts:38`), the caller of a creation or the start of the server: each such action has a disjunct that ends there, and `struck` names the runs that lose by it |
| `RemoveServer`, `gone` | `deleteServer`: the rows lose their server. `executeWorkflowRun` marks such a run in progress and returns (`executor.ts:18`), recovery fails it (`FailRemoved`) |
| `aborted`, `timedOut`, `killed` | the two signals of a run and whether a signal reached `act` |
| `script`, `orphans` | the script on the server: fetching, then running `act`. It survives a restart and a lost connection, and then nobody listens to it |
| `boot`, `snapshot`, `serverless` | the steps of `initWorkflowRuns`, which run while requests are served: rows in progress are failed, the queued ones read, then requeued in stretches (`Requeue`) between those whose server is gone. It may throw half way (`BootFails`) |
| `Restart` | memory is lost, rows and scripts stay |

`Pump` is stated declaratively: the set it starts is the one set in which an
entry is included exactly when it is blocked neither by an active run nor by an
included entry before it.

Properties: `ActiveRunsCompatible`, `WaitingIsBlocked`, `OneScriptPerServer`,
`QueuedIsTracked`, `InProgressIsExecuted`, `EveryRunEnds`; the module states each
with the reason it matters.

The code does leave rows behind that nobody acts on until the next restart. An
error of `executeWorkflowRun` outside its `try`, which begins after the row was
marked and ends before `recorder.finish`, is logged and the slot freed; an error in
a creation or a cancellation loses the run it was about; a run whose server has been
removed stays in progress. The last three properties say that these are the only
ways: a run may be stranded if a statement threw for *that* run (`struck`) or if *its*
server is gone, and nobody else is, whatever happens to it. (A statement of the recovery
that throws is one for all the runs of the earlier process.) A statement that throws may
have been done or not in `Mark`; the other writes are taken as not made.

| Run | Shows | Bounds and why they are enough |
|---|---|---|
| `runs_queue` | the queue strands nobody, scripts that somebody listens to never share a server or a group, and, under `FairSpec`, every run ends, is struck or loses its server | 2 runs that compete for a server, one of which its user may cancel; one restart and one fault of any kind at any point: lost connection, 6 hour limit, throwing statement, removed server (`MaxMishaps` 1). Two runs suffice for a run that waits and the one that must wake it; that a run held up by several is woken by the last is proved (`NoneStranded`) |
| `runs_recovery` | the queue serialises the runs, and no row is left without an owner but those named above | 2 runs of one group on two servers that cancel one another, one of them cancelled by its user too; any two faults (`MaxMishaps` 2, so that an error strikes one run while the other's server goes, or strikes again in the recovery) and one restart at any point (`MaxRestarts` 1; recovery also runs after the first start) |

*Fairness*: statements answer and callbacks run (creations, cancellations,
executors, recovery), and scripts end. The last is an assumption about the
workflow: without it the 6 hour limit would be what ends a run, which the
`timeout` fault models as something that may happen. `ActStarts`, faults,
restarts and users are not fair.

*Left out*: job and step rows and logs (they do not influence the run; their own
failures are in [Output of a runner](#output-of-a-runner)), numbering and re-runs, the
choice of a server (settled before a run exists: `ServerOf`).

`CHECK_DEADLOCK FALSE`: the system stops when all runs are over.

## Self-hosted runners

`RunnerRuns` ← `MCRunnerRuns`, `RunnerRunsProofs`

**RunnerRuns** models both ends of the protocol: `services/workflow-runner.ts`
and the handlers in `apps/dokploy/pages/api/workflow-runner`, and the command
line runner (`apps/runner/src/runner.ts`).

| Model | Code |
|---|---|
| `status`, `assignee`, `cancelled` | the row: status, `workflowRunnerId`, `cancelRequested` |
| `registered`, `seen` | runner rows, and whether `lastSeenAt` is younger than 3 minutes |
| `recorders` | the recorders map of the server |
| `claims` | claim requests: `poll` in the long poll, `locked` between the row lock of `FOR UPDATE SKIP LOCKED` and the commit, `prepare` while the recorder and the inputs are made. `live` says whether the runner still waits for the answer |
| `finishes` | calls of `completeRunnerRun` and of the stale check that have passed their check of the status and have not written |
| `cancels` | cancellations that have read a queued row and have not written |
| `cli`, `job`, `exit` | the runner: idle, claiming, running, stopping, flushing its output, posting its result |
| `Silence`, `TimeOut`, `Crash`, `Restart`, `Remove` | the faults, switched on by `Faults` |

Properties: `ExecutedByAssignee`, `ResultNotDropped`, `OverForGood`,
`CancelledRunsEnd`, `ClaimedRunsEnd`.

| Run | Shows | Bounds and why they are enough |
|---|---|---|
| `runners_safety` | the three safety properties with all five faults | 1 run, 2 runners: a run that could be executed twice, claimed again after it was over, or reported on by the wrong runner; every fault may strike any number of times |
| `runners_liveness` | under `FairSpec`, in which a script may never end by itself, `CancelledRunsEnd`; and `ClaimedRunsEnd`, whose premise is that scripts end | 2 runs of one group, 1 runner that may go silent; no lost request and no crash, under which claimed runs do stay for ever (below) |

There are no counters to bound: the state space is finite by itself.
Symmetry is over runners, and used for safety only.

*Fairness*: statements answer; a runner that is up polls, posts its output (a
batch is due every few seconds even when empty) and its result until it is
answered; the operating system ends a process group that is killed; the stale
check runs every minute. `ClaimedRunsEnd` assumes besides that scripts end by themselves.
Nothing makes a crashed runner start again.

*Left out*: registration and credentials, labels and repositories (every runner
may take every run), the output itself, the stop signal, the process group a
crashed runner leaves behind. That statements answer excludes here that a recorder
cannot be resumed: `recordingFor` keeps the rejected promise, and then the reports of
that run fail, and so does the stale check that reaches it. That case is modelled in
[Output of a runner](#output-of-a-runner).

`CHECK_DEADLOCK FALSE`: runs may all be over and the runners off.

## Output of a runner

`RunnerOutput` ← `MCRunnerOutput`, `RunnerOutputProofs`

**RunnerOutput** follows the lines that `act` prints on a runner until they are job
rows: the bounded `OutputSender` (`output.ts`), `executeRun` from the exit of the
child to the answered result, requests that fail or are given up, and on the
server `recordRunnerEvents`, `completeRunnerRun` and `RunRecorder` with the log
events of `act-log.ts`.

| Model | Code |
|---|---|
| `queue`, `dropped`, `batch`, `sending`, `late` | `queue`, `droppedLines`, the batch of `drain`, `inFlight`, `retryAt` of the sender. `Enqueue` is `add` with `trimQueue`, `StartFlush` is `flush` up to the first request |
| `phase` | where `executeRun` is: the child runs, the final flush is due or awaited, the result is posted, the pause before the next attempt |
| `requests` | requests the server may still handle, by their place between two awaits. `live` says whether the runner waits for the answer |
| `recorders`, `current` | every `RunRecorder` of the process and the one in the map; `pending` and `handled` are the promise chain of `pushLines`, `known` the jobs a recorder has heard of |
| `rows`, `log` | `workflowJobs` with their steps, and the log files |
| `HandleLine`, `HandleFails` | a line is recorded; or its insert or update throws, the rest of the line's events is skipped, the error printed, and the next line handled (`run-recorder.ts:223`) |
| `ResumeFails`, `Refuse` | `resume` throws: the map keeps the rejected promise (`workflow-runner.ts:308`), and every request for the run is answered 500 |
| `FinishRows`, `FinishRun`, `FinishRowsFails`, `FinishRunFails` | `finish()`, and a statement of it that throws, after any part of the job rows has been written |
| `Fail`, `Abandon`, `Restart` | a request that never arrives, one that is given up while the server handles it, a restart of the server |
| `trimmed`, `drops`, `unheard`, `failed` | history: lines dropped, the number of drops, the drops that dropped notes were about, lines whose recording failed |

Every drop has a number, and a note says how many lines it stands for (`gone`) and up
to which drop (`upto`): `About` is the drops a note tells of.

Properties:

- `FirstSightInOrder`: a line is seen for the first time after a later one only if it
  had been dropped or its recording had failed.
- `NothingLeftBehind`: the run gets its outcome after every line is in the log, except
  those that were dropped and those whose recording failed.
- `DropsRemembered`: every drop is counted still, or a note with the right number is on
  its way or in the log, or that note was dropped in turn (a note is dropped like any
  line, and then counts as one); and the *last* drop is counted or told by a note that is
  there.
- `OneRowPerJob`; `NoneInProgress`: when the run is over no job is in progress, unless the
  line with its end could not be recorded: the recorder then takes the job for ended,
  and `finish()` passes it over.
- `ResultArrives`: the run gets its outcome, unless the server holds a recorder it could
  not resume, which only a restart takes away.

`DropsRemembered`, `OneRowPerJob` and `NoneInProgress` name what they do not cover: a
request that is handled after the runner has given it up can make a second recorder,
which doubles or overwrites rows (`abandoned`). A repeated, dropped or failed line can
leave a step of a finished job in progress, and so does a script whose job ends before
its steps: `finish()` settles the steps of a job that is still running and passes over
one that has ended. `ActFinishes` is what `act` does, which starts a step once and
finishes it before it ends the job.

| Run | Shows | Bounds and why they are enough |
|---|---|---|
| `output` | all of them | a script of 3 lines against a queue and a batch of 2, so that lines are dropped while a batch is in flight and a flush takes two batches; 2 jobs, of which one never starts; 2 faults, so that a retry may fail again or meet a restarted server, a write may fail before or after a restart, and a second line of a job whose insert failed may fail too; 732,069 states |

`MaxDrops` 3 stops the retries of a runner that a rejected recorder refuses for ever,
each of which would drop another note; it bounds nothing else.

A write that fails is taken as not made. Once `finish()` has begun, lines a second
recorder of the process, or a late request, still brings may or may not reach the log,
whose streams end one after the other (`Write`).

*Fairness*: timers fire, the server and its database answer; the script
ends by itself or is killed. *Left out*: masking, job names of matrices,
stdout and stderr, the bytes of lines (the limit is a number of lines),
cancellation and the stale check (in `RunnerRuns`).

## Deployments

`Deployments` ← `MCDeployments`, `DeploymentsProofs`

**Deployments** models a deployment from the request to its outcome: the worker
(`deployments-queue.ts`), `createDeployment` with `removeLastTenDeployments`,
`deployApplication` or `deployCompose` with their `try` and `catch`, the routers
that write the status of a service (start, stop, reload, markRunning) or remove a row,
and what a restart makes of it all (`cancel-deployments.ts`). It uses of the queue
what `SerialExecutor` promises.

| Model | Code |
|---|---|
| `status`, `row`, `made` | `applicationStatus` or `composeStatus`; the rows of the deployments and the order of their creation |
| `at` | where the code of a deployment is: it sets the status (`Start`), removes old rows (`Prune`), inserts its own (`Insert`), builds (`Build`), then writes row (`WriteRow`) and status (`WriteStatus`) and notifies (`Notify`) |
| `Direct` | deployments by a transfer, which call `deployApplication` without the queue |
| `boot`, `selected` | the three statements of `initCancelDeployments`, which run while requests are served; the worker starts after them |
| `struck` | which kinds of faults have struck: properties name the kinds they do not cover |

Properties: `RunningIsExecuted`, `StatusTells`, `StatusSettles`.
`StatusSettles` excepts the hole in the clean-up, which looks for running
*rows*: a crash between the status and the row (`gap`), a row removed while it
runs (`odd`), or a failed removal of old logs (`prune`) leave a service `running` for
ever.

| Run | Shows | Bounds and why they are enough |
|---|---|---|
| `deployments` | all of them | one service, since no variable relates two; two deployments by the queue and one beside it, which is two at once and a third before or after them; `Keep` 1 instead of 10, so that a running deployment may be the one that is pruned; 2 kinds of faults and one crash |

*Fairness*: builds end, statements return, the start-up goes on. *Left out*:
preview deployments, and deployments of backups, schedules and servers, whose rows
have no status of a service beside them; killing a build (the build then fails,
which `Build` does anyway).

## Transfer of a service

`Transfer` ← `MCTransfer`, `Migration`, `TransferProofs`

**Transfer** models `transfer.ts`: the saga of `stageTransfer`, `waitUntilHealthy`,
`rollbackTransfer` and `commitTransfer`, driven by `transferService`.

| Model | Code |
|---|---|
| `shape` | application, compose, stack (a compose in a swarm) or database; with persistent data or without |
| `record`, `status` | the `serverId` and the status of the service |
| `present`, `running`, `fresh` | external: where it is defined, where it runs, which servers' copy of its data has every write |
| `saga` | the `StagedTransfer` (`source`, `was` for the original status, `stopped`, `switched`) and the step the call is at. `ran` and `on` are history and the server a deployment has begun with |
| `Begin` … `Deployed`, `Check` | `stageTransfer` and the health check |
| `Rollback`, `Remove`, `Restore`, `Restart`, `Reset` | `rollbackTransfer` |
| `MoveLogs`, `CleanUp`, `Finish` | `commitTransfer` |
| `StartBuild`, `EndBuild`, `Write`, `Crash` | the queue beside the saga, the users of the service, the end of the process |

Steps that read the service again, as `stopCompose` and `removeFromTarget` do for
a compose, use the record of that moment, not the one the saga began with.

Properties: `StatefulRunsOnce`, `NoWriteLost`, `SourceServes`, `RollbackRestores`,
`CommitMoves`, `EveryTransferEnds`. Each names in `Safe` the kinds of failures
under which it does not hold; what happens then is in the hazards. All the others
may strike, a crash included.

| Run | Shows | Bounds and why they are enough |
|---|---|---|
| `transfer` | all of them | one service of every kind (services share nothing); two calls, one to the other server and one back, each of which may come first (calls that overlap are a fault, `overlap`, that all properties but two except; it is on in `migration`, where the lock must prevent it); any two of twelve kinds of failures, each any number of times: a failure and another one during its rollback |

*Fairness*: commands and statements return. *Left out*: Traefik files, file mounts
and networks (their set-up may fail: a disjunct of `Deploy`), sizes and free
space, the text of commands. `Copy` makes the target's data that of the source. The code
unpacks an archive over whatever the volume holds (`transfer.ts:182`): files that an
earlier copy, or a service that has been there before, left on the target and that the source
does not have remain beside the new ones. The models do not show that.

## Migration of a server

`Transfer` ← `Migration` ← `MCMigration`, `MigrationProofs`

**Migration** composes the sagas of `Transfer` into `migrateServer`:
environment by environment the transfers are staged and checked, the domains
probed and their records switched; a failure reverts the records and rolls the
environment back; in the end the migration waits for the resolvers, commits and
unlocks.

| Model | Code |
|---|---|
| `mig` | the locals of the call: the environment in hand (`group`), `staged`, `committed`, the planned `change` of records, the domains in the `manual` group, the `reverts`, those of the domain in hand (`doing`), and `manualDns`, the domains the user is told to update |
| `Analyze`, `Plan`, `Manual` | `analyzeDomain`: any domains may turn out `unknown`, because their records cannot be listed or the target has no known address. They get no change and, if they point to the source, go to the manual group; the environment migrates all the same |
| `activeServers` | the set `lockServers` takes and releases |
| `points`, `visits` | external: where records point, and where resolvers still send visitors |
| `TransferStep` | a step of the saga in hand; the migration takes the part that `Drive` has in `Transfer` |
| `Apply` | one request of `applyDnsChange`; Cloudflare rejects a duplicate (`Duplicates`) |

Properties: `NoOverlap` (the lock), `EnvironmentTogether`, `VisitorsServed`,
`MigrationEnds`; `DnsIncluded` is refuted (below). The first three hold as long as
services are where they were selected (`SelectionHolds`): `migrateServer` selects
before it locks, and a service that another migration moves, or rolls back, in
between is transferred from a server that is not locked. `EnvironmentTogether` fails
without that premise in the instance of `migration`.

`EnvironmentTogether` is about environments a migration has left behind, while it goes
on. One that is through has its services on the target and no record at the source but
those of domains that the user is told to update (`manualDns`). One that failed has back
at the source every service that was found there, unless a statement of the roll-back
fails (`db`), and every record that was the only one of its domain there (`Lone`),
unless an answer of the DNS provider is lost (`lost`) or a change cannot be undone
(`revert`). A domain with two records there is what `DnsIncluded` is refuted with. A
service that another migration has had too may have had its records changed by that one,
so the statement about records is for services in no other.

`VisitorsServed` is claimed when nothing fails from the DNS on, resolvers forget within the
drain, no user was told to update the domain and no record is beside another of its domain on one server
(`Lone`). A domain that could not be analyzed, or that the migration was not asked to update, keeps
pointing to the old copy, which goes at the commit: its visitors are cut off until the user does what the
migration told him. Two records there make a migration fail after it has touched the DNS, without
any fault: Cloudflare rejects the second change as a duplicate of the first, and the
environment is rolled back, the copy on the target removed, while resolvers may know its
address. What fails before the DNS is touched is allowed.

| Run | Shows | Bounds and why they are enough |
|---|---|---|
| `migration` | `NoOverlap`, `EnvironmentTogether`, `VisitorsServed`, `MigrationEnds` | an application with two domains and its database in one environment and a stack with data in a second, a domain with a record on each server: environments of two services and of one, records that are updated and one that is deleted; any set of domains whose analysis comes to nothing; a migration of everything, and one that begins meanwhile and takes the application from the target to a third server, so that what it selected may be rolled back before it locks; two of nine kinds of failures, a crash among them (the transfers' other failures are in `transfer`; `db`, `partly` and `lost` are left out to keep the run small: what holds in spite of them is proved) |
| `migration_dns` | `DnsIncluded` fails without any failure from outside | one migration, a domain with two records on addresses of the source |

*Fairness*: commands, statements and requests return, waits have deadlines; caches of
resolvers expire in time unless the fault `ttl` strikes. *Left out*: that the change of
a proxied record takes another wait, domains that no Cloudflare provider manages
(reported to the user, never changed), file mounts, progress events.

## Disagreements between docs and code

Each of these runs checks one statement of a comment or a document, and TLC
finds a behaviour of the code that contradicts it. `findings` in
`PROJECT.json` quotes the statements.

| Run | Statement | Behaviour |
|---|---|---|
| `start_race` | `RunRecorder.start` "returns null if it isn't queued any more" | a cancellation between its read and its update is overwritten and the run executed |
| `claim_groups` | claims "respect concurrency groups" | two concurrent claims start two runs of one group |
| `migration_dns` | a failure "rolls the whole environment back, DNS included" | when a later record of a domain cannot be updated the reverts of the earlier ones are lost |

Further disagreements are behaviours of the models that no run singles out:

- `workflow-run.ts:406`: "a new run replaces a pending one in its group", but two
  runs created together cancel each other (`FindOthers`, `CancelOther`).
- `ssh.ts:69`: a cancellation before the abort listener is attached, or before the pid
  file is written, kills nothing, and the run goes on to its end (`Signalled`).
- `workflow-runner.ts:461`: a claim whose answer was not awaited stays in progress
  while its runner polls on, although runs "whose runner stops reporting for 3
  minutes are failed" (`ClaimedRunsEnd` with the fault `lost`).
- `transfer.ts:793`: a rollback "puts the service back on the source server as it
  was", but starts a service with data that was not running (`Restart`).
- `transfer.ts:538`: "Nothing is removed from the source", but `switched` is set
  before the record is updated; if that fails, the rollback removes a compose from where
  its record says, the source (`Switch`, `Remove`).

More behaviours of the models that nobody has promised away, but that a maintainer will want
to know, beside those in the notes of the hazards in `PROJECT.json`:

- Runs: a statement that throws outside the `try` of `executeWorkflowRun`, or a
  server removed while a run is queued, leaves a row queued or in progress until the
  next restart, with nobody to act on it (`Load`, `Mark`, `Record`); after a restart
  the old script and a new run share a server; a run started while the server
  initialises is failed as interrupted; a late cancellation, or the stale check,
  replaces an outcome already recorded; the recorder of a run cancelled while it is
  claimed is never released; the runs of a deleted runner stay in progress.
- Deployments: a notification that throws fails a deployment that was done; start,
  stop and reload write the status of a service while it is deployed.
- Output: a line that cannot be written is lost, and with it a job may stay in
  progress for ever (`HandleFails`); one failed query while a recorder is resumed
  makes a run unreportable until the server restarts (`ResumeFails`); a note that is
  dropped takes the number it told of with it, so that later notes say too little.
- Transfers: a rollback writes back the status of before, whatever happened
  meanwhile; a rollback that fails is logged only.
- Migrations: a service that moves between the selection and the lock is migrated
  from wherever it is then, which may be a server in another migration, and records
  that point there are not switched; after a failed public check the new copy is
  removed while resolvers still know its address; when all migrated services have
  data nobody waits for the resolvers.

Seen in the code and not modelled: concurrent creations choose the same least busy
server (`workflow-run.ts:348`); two re-runs at once get one attempt number
(`workflow-run.ts:937`); a registration token used twice at once passes twice
(`workflow-runner.ts:205`); a runner whose credential was refused retries its report for
ever (`runner.ts:138`); a step of the startup that throws skips all later ones
(`server.ts:62`).

## What is proved

`DeployQueueProofs` proves, for any sets of partitions and groups, any integer
settings, and any bounds (`SettingsAssumption`, `CapacityAssumption`: `Capacity`
is an upper bound of the effective limits, `FailureAssumption`,
`BoundsAssumption`):

| Theorem | Statement |
|---|---|
| `TypeCorrect` | `Spec => []TypeOK` |
| `SerializedGroups` | `Spec => []GroupsSerialized` |
| `FifoWithinGroup` | `Spec => []OldestRunsFirst` |
| `CapacityRespected` | `Spec => []WithinCapacity` |
| `NoLostWakeup` | `Spec => []WorkConserving` |
| `Refinement` | `Spec => ImplementsExecutor` |

The argument is one inductive invariant, `IInv`. Besides the properties it has `IdsOK`
(the jobs of a partition are finitely many, their ids are distinct and at most `seq`)
and `KeysOK` (a partition with waiting jobs is in the map). `IdsOK` is needed because
`Finish` removes an active job by its id, because a new job has to be the youngest of
its group, and because "the oldest startable job" exists and the number of jobs a drain
starts can be counted only in a finite set; `KeysOK` because `schedule()` reaches the
partitions of the map only, without which `WorkConserving` is not preserved by `Run` and
`Process`. Three lemmas carry most of the weight: `SmallestOfNat` of `NatSets` (a
nonempty finite set of naturals has a smallest element, by which an oldest waiting job
exists), `LoopFillsToLimit` (a drain never goes beyond its limit, and either reaches it
or leaves nothing startable) and `DrainWork` (so that a drain preserves
`WorkConserving`). Each action has a step of its own. The refinement uses the invariant:
a `Drain` maps to a step that starts several jobs at once, each the oldest of its group,
none of a running group.

The conjuncts of `IInv` that are properties are checked by TLC in `queue`, by themselves
or through the refinement.

`WorkflowRunsProofs` proves, for any finite set of runs (`RunsAssumption`; a
database holds finitely many), any servers, groups and routing
(`RoutingAssumption`), any faults, throwing statements and removed servers among them,
and any number of them and of restarts (`FaultsAssumption`, `BoundAssumption`):

| Theorem | Statement |
|---|---|
| `TypeCorrect` | `Spec => []TypeOK` |
| `NoConflict` | `Spec => []ActiveRunsCompatible` |
| `NoneStranded` | `Spec => []WaitingIsBlocked` |
| `NoneForgotten` | `Spec => []QueuedIsTracked` |
| `NoneOrphaned` | `Spec => []InProgressIsExecuted` |
| `ScriptsApart` | `Spec => []OneScriptPerServer` |

The first three come from one inductive invariant, again `IInv`. It adds to the
properties that the rows are numbered without repetition (`RowsOK`), that only
created runs are anywhere in the process (`KnownOK`), and that the waiting array
holds a run once, at a place of its own (`PlacesOK`). Places and numbers matter
because `initWorkflowRuns` appends several runs at once, in the order of
`createdAt`: two runs at one place would let `pump()` start both although they
conflict. `PumpCorrect` is the heart of the argument: whatever `pump()` is given,
provided it holds no conflict among the active runs, it leaves the queue in order
(`QueueOK`), loses nobody and disturbs no executor. `EnqueueCorrect` and
`LeaveCorrect` are its two uses. `NoneForgotten` and `NoneOrphaned` rest on a second
inductive invariant, `RowsHeld`, about the runs no statement threw for: no executor past
its update has a queued row; a queued row is held by somebody, or it is one of an
earlier process and startup has not read it yet or has it in its `snapshot`; a row in
progress whose server is there has an executor past its update. The steps of `Load`,
`Mark` and `Record` have a case for the statement that throws, which puts the run in
`struck`, and `Mark` one for the server that is gone; the step of `Leave` shows why a
finished executor cannot take any other queued row with it. `BreaksOffCorrect` says
what an error in a creation or cancellation takes with it: the run that was created and the one that was being cancelled, no other.
`ScriptsApart` rests on a third invariant, `ScriptsHeld`: every script that is no
orphan of a restart or a dropped connection has an executor that listens to it, also
when its run is cancelled or timed out, so that two scripts in conflict would be two
active runs in conflict.

`RunnerRunsProofs` proves, for any finite number of runs, any runners and groups, and
with any faults switched on (`RunsAssumption`, `GroupsAssumption`, `NamesAssumption`,
`FaultsAssumption`):

| Theorem | Statement |
|---|---|
| `TypeCorrect` | `Spec => []TypeOK` |
| `OneExecution` | `Spec => []ExecutedByAssignee` |
| `NotTakenUpAgain` | `Spec => OverForGood` |
| `ResultsArrive` | `Spec => ResultNotDropped` |

The inductive invariant follows a run through a claim. At most one claim holds a
row, and a runner waits for one claim at most (`ClaimsOK`); the row lock keeps the
row queued until the commit (`LockedOK`); from then on the row names the claimer
and no runner has the job before the claim is answered (`PreparedOK`); nobody has,
or reports on, a run that was not claimed (`UnclaimedOK`, `JobsOK`). A report
that is awaited belongs to the run its runner is posting (`ReportsOK`), which is
why the answer that makes a runner give up a result is never the answer to
another run. `ClaimsOK` is what carries lost answers: a runner that timed out and
polls again has a second claim, of which only one is `live`.

`RunnerOutputProofs` proves, for any script (`ScriptAssumption`), any finite number of
jobs (`JobsAssumption`), any sizes of the queue and of a batch and any number of faults,
failed writes among them (`SizesAssumption`):

| Theorem | Statement |
|---|---|
| `TypeCorrect` | `Spec => []TypeOK` |
| `SeenInOrder` | `Spec => []FirstSightInOrder` |
| `AllRecorded` | `Spec => []NothingLeftBehind` |
| `DropsAnnounced` | `Spec => []DropsRemembered` |
| `JobsAreRows` | `Spec => []OneRowPerJob` |
| `AllSettled` | `Spec => []NoneInProgress` |

The inductive invariant `IInv` follows the lines. Its first part, `FlowInv`, holds
whatever fails. Lines wait at the runner in the order of the script, and one that does
not wait there is in the log, was dropped, or could not be recorded (`WaitingOK`, with
`Gone` for the last two). Requests and recorders repeat and overtake each other, but
each of them has a line only after all earlier ones that are not logged, gone or before
it in the same batch (`OrderOK`), and therefore so has the log (`LogOK`). A request is
answered only when its batch has been handled (`WaitOK`), so the runner forgets no line
that is neither in the log nor down as failed; and the result is posted when nothing
waits (`EndingOK`). The other parts hold until a request is handled that the runner has
given up. Then there is one request at a time and one recorder at work (`CalmOK`), whose
lines all reach the log or fail (`CalmHandles`). `TableOK` says what the recorder then
knows: for every job it has heard of, the row is what it remembers, unless the recording
of the job's end failed, or the job has no row because its insert failed (`Knows`,
`EndFailed`). From this `SettledWell` says what `finish()` leaves, also when it breaks
off and is repeated by another recorder. `DropsRemembered` is a conjunct of `IInv`
itself; the lemmas on items and drops (`Items...`, `Drops...`) follow notes through the
queue, the batch in flight and the log, and those that are dropped into `unheard`.
`StepsOK` adds, for scripts as `act` prints them (`ActFinishes`) of which nothing was
dropped, repeated or failed, that the log is the script so far and a step is in progress
from its start to its finish; for this nothing may be noted before something is dropped
(`NotesOK`). The steps of the process are sorted into a few kinds first (`Flushes`,
`Requeued`, `Loses`, `Lost`, ...), since most of the actions differ only in what a
conjunct does not look at, and what a handled line may do is said once for success and
failure (`Handles`).

`DeploymentsProofs` proves, for any services and deployments, any number of rows
that are kept, and any number of crashes (`DeploymentsAssumption`):

| Theorem | Statement |
|---|---|
| `TypeCorrect` | `Spec => []TypeOK` |
| `NoneLeftRunning` | `Spec => []RunningIsExecuted` |
| `StatusAgrees` | `Spec => []StatusTells` |

`RunningIsHeld` strengthens the second: a running row is executed, or the startup
has not selected the running rows yet, or has selected this one. The third rests
on `CleanInv`, which speaks of the executions without faults: there is one deployment of a
service at a time past the queue (`OneAtATime`), its row is the latest one, and
row and status take their outcomes in the order of the code (`InStep`). The
latest row of a service is the last of its *positions* in `made`, since rows are
also removed: `MadeAppended` says what an insertion does to the positions.

`TransferProofs` proves, for any services, servers and calls, and any number of
faults of any kinds (`TransferAssumption`):

| Theorem | Statement |
|---|---|
| `TypeCorrect` | `Spec => []TypeOK` |
| `RunsOnce` | `Spec => []StatefulRunsOnce` |
| `DataSurvives` | `Spec => []NoWriteLost` |
| `SourceKeepsServing` | `Spec => []SourceServes` |
| `RollbackBrings` | `Spec => RollbackRestores` |
| `CommitBrings` | `Spec => CommitMoves` |

Each conjunct of `IInv` names the kinds of faults under which it is not claimed, and the
proof shows for every action that it keeps the conjunct under all the others.
`OneTransfer` and `StagedOK` say what a step of the saga may rely on: a service is in
one transfer, and at each step it is settled where its record is and what the flags of
its `StagedTransfer` are. `RunsAtRecord` and `StoppedOK` are about machines: a service
with data runs where its record is, and nowhere from the stop until it is deployed or
started again, a rollback included. On these rests `DataOK`: the data is complete where
the record is, and at the source until the service has run on the target, so that
whichever side the saga ends on has every write. `ServedOK`, `UndoingOK` and
`NoLeftover` carry the last three theorems. `Frame` says that a step of a saga concerns
its own service only, and one lemma per group of actions says what it does to the
service (`StageEffects`, `RemoveEffect`, ...). The overlap that the properties except is
what `NoOverlap` of `Migration` excludes for transfers that migrations make, while
services are where they were selected.

`MigrationProofs` proves, for any servers, any finite set of services, any environments,
records and migrations, and any number of faults of any kinds (`MigrationAssumption`, by which
`Deleted`, the mark of a deleted record, is no server, and `TransferAssumption`):

| Theorem | Statement |
|---|---|
| `TransfersApart` | `MSpec => []NoOverlap` |
| `EnvironmentsSwitch` | `MSpec => []EnvironmentTogether` |
| `VisitorsKept` | `MSpec => VisitorsServed` |

The lock is on servers and the property is about services; the invariant `MInv`
connects them. A migration that is under way holds its two servers, and no two
such migrations share one (`LocksOK`). A transfer that has begun and not ended
belongs to a migration that is under way: it waits to be committed, or it is one
of the environment in hand, staged or prepared only (`SagasOK`); this is where all the
bookkeeping of `migrateServer` comes in, since a migration that unlocked with a
transfer left over would break it. The record of a service in transfer names one of
its migration's two servers (`RecordsOK`). So whoever prepares the service finds its record
on a server that another migration has locked, and cannot have locked it too.
`RecordsOK` needs `OneTransfer`, which the module keeps along every step of a migration,
and types, because a migration's locals are sequences and functions. `SmallestOfNat`
gives the next environment (`NextGroupOf`), for which the services have to be finite.

The second theorem needs the larger invariant `TInv`. `Together` says that the locals of
a call tell the truth: the transfers it has staged and committed are those of its
environments (`GroupsOK`), records are changed for the environment in hand only and
changed back before its transfers are rolled back (`ChangesOK`), and the transfers of an
environment are as far as the migration is with it (`StandsOK`). What a transfer does to
its service is `StagedOK` of `TransferProofs`, kept by the steps of `MNext` too, which
take a transfer through other stops than a single call does (`StagedMStep`). Where a
finished transfer has left its service is `RestOK`; it stays there because nobody else
can transfer the service before the migration unlocks (`NobodyElse`), which is where
`NoOverlap` is used. For records, `SwitchedOK` says that a migration on its way to the
target knows every record that is still at the source, as one it will change or as one
of a domain in `manual`, and that an environment that is through has none there but
those told to the user, and `KeptOK` that a record which was alone there in its domain
is there, or will be changed back, or its environment is through; for this nobody else
may have touched the other records of the domain, since Cloudflare would reject a
duplicate.

The third theorem is about a step, and about three things at once: what resolvers remember,
what records say and where copies run. `VInv` adds to `TInv` what relates them in the
behaviours the property is about (`Ordinary`, the part of its premises that holds of a
state). `VisitsOK`: resolvers give out what the records say. `PlansOK`: the records of a domain
point to different servers, so that every planned change can be made and none has to
be changed back; hence an environment that has touched the DNS gets through. `AddressOK`: a
service that no migration has in hand is visited where its record is only; one on its way is visited
at the source until the record of its domain is changed, then at both servers, and from
the commit on, which comes after the drain, at the target only (`Routed`). What removes a
copy is then shown to remove one that nobody visits: the roll-back takes the one on the target
before the change (`Remove`), and the clean-up the one at the source after the drain (`CleanUp`).

The conjuncts of the invariants that are no properties were checked by TLC on
the instances of the runs before they were proved. `NatSets` has facts about sets of
naturals that these proofs use, those of `Deployments` and `Transfer` excepted.

## What is only model-checked

- Liveness under fairness (`EveryJobServed`, `EveryRunEnds`, `ClaimedRunsEnd`,
  `CancelledRunsEnd`, `ResultArrives`, `StatusSettles`, `EveryTransferEnds`,
  `MigrationEnds`) is out of the prover's reach.
- That the claims of `findings` are violated is shown by a counterexample of TLC each.

No module has a RECURSIVE operator.

Every property comes with a mutant of the code (operators named after the
definition they change, marked "mutant" in the modules, listed in
`PROJECT.json`): a plausible bug under which TLC finds the property violated.

## Plan

What was planned for the components with a protocol of their own is built, each
in the order model, runs, proof: `SerialExecutor` and `DeployQueue`;
`WorkflowRuns`; `RunnerRuns`; `RunnerOutput`; `Deployments`; `Transfer`, composed
into `Migration`. That the queue's partition of a service goes stale when a
transfer moves it (`in-memory-queue.ts:45`) is the fault `build` of `Transfer`: a
deployment by the queue beside the saga.

Left, the most useful first:

1. `WorkflowRuns` extended by re-runs and run numbers; `Deployments` by previews and by
   backups and schedules.
2. Registration and credentials of runners.
3. `Triggers`: branch, path and type filters and expressions as operators, checked
   against a reference over small inputs.

## Not modelled

Most of the repository has no state that outlives a request: the user interface,
routers that check a permission and update a row, generators of shell
scripts, YAML and Traefik files, and clients of providers' APIs. What could go
wrong there is a matter of text and of input and output, which tests reach and
a model would only restate. `apps/api` and `apps/schedules` forward jobs to
Inngest and BullMQ, whose queues decide what happens. `components` in
`PROJECT.json` gives the reason for each part.
