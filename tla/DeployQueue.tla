---------------------------- MODULE DeployQueue -----------------------------
(***************************************************************************)
(* The in-memory deployment queue of a self-hosted instance                *)
(* (apps/dokploy/server/queues).  Node runs one callback at a time, so an  *)
(* action is the code between two suspension points: drainPartition        *)
(* suspends once, while it reads the concurrency setting, and any other    *)
(* callback may run in between.                                            *)
(*                                                                         *)
(* add() pushes at the end of `waiting` with a larger id than any before,  *)
(* and filter() and splice() keep the order of the rest: the array is      *)
(* always sorted by id and is represented by the set of its jobs.          *)
(***************************************************************************)
EXTENDS Integers, FiniteSets

CONSTANTS Partitions,   \* servers, and the local one
          Groups,       \* services: application:<id> and compose:<id>
          Settings,     \* values the buildsConcurrency column can hold
          QueriesFail,  \* whether reading the setting may fail
          Capacity,     \* an upper bound of the effective limits
          MaxJobs,      \* bound: jobs one process accepts
          MaxDrains     \* bound: drains of a partition at one suspension point

Normalize(s) == IF s < 1 THEN 1 ELSE s
Limits == {Normalize(s) : s \in Settings} \cup (IF QueriesFail THEN {1} ELSE {})

ASSUME SettingsAssumption == Settings \subseteq Int
ASSUME CapacityAssumption ==
  /\ Capacity \in Nat
  /\ \A n \in Limits : n <= Capacity
ASSUME FailureAssumption == QueriesFail \in BOOLEAN
ASSUME BoundsAssumption == MaxJobs \in Nat /\ MaxDrains \in Nat

Jobs == [id : Nat, group : Groups]

VARIABLES processor,    \* a worker has been registered with process()
          running,      \* the queue's `running` flag
          seq,          \* number of jobs added so far
          keys,         \* keys of the `partitions` map
          waiting,      \* [Partitions -> set of jobs], in the order of the ids
          active,       \* [Partitions -> set of jobs]
          activeGroups, \* [Partitions -> set of groups]
          reading,      \* [Partitions -> number of drains awaiting the limit]
          granted,      \* [Partitions -> [Limits -> number of drains resuming]]
          setting       \* [Partitions -> the stored buildsConcurrency]

vars == <<processor, running, seq, keys, waiting, active, activeGroups,
          reading, granted, setting>>

Empty == [p \in Partitions |-> {}]

(* A freshly constructed queue.                                            *)
Init == /\ processor = FALSE
        /\ running = FALSE
        /\ seq = 0
        /\ keys = {}
        /\ waiting = Empty
        /\ active = Empty
        /\ activeGroups = Empty
        /\ reading = [p \in Partitions |-> 0]
        /\ granted = [p \in Partitions |-> [n \in Limits |-> 0]]
        /\ setting \in [Partitions -> Settings]

-----------------------------------------------------------------------------
(* schedule(): one drain per known partition, if the queue is on.          *)
Schedule(ks, on) ==
  reading' = [p \in Partitions |->
                IF on /\ p \in ks THEN reading[p] + 1 ELSE reading[p]]

Process ==
  /\ ~processor
  /\ processor' = TRUE
  /\ running' = TRUE
  /\ Schedule(keys, TRUE)
  /\ UNCHANGED <<seq, keys, waiting, active, activeGroups, granted, setting>>

Run ==
  /\ \A p \in Partitions : reading[p] < MaxDrains
  /\ running' = TRUE
  /\ Schedule(keys, processor)
  /\ UNCHANGED <<processor, seq, keys, waiting, active, activeGroups, granted,
                 setting>>

Add(p, g) ==
  /\ seq < MaxJobs
  /\ \A q \in Partitions : reading[q] < MaxDrains
  /\ seq' = seq + 1
  /\ keys' = keys \cup {p}
  /\ waiting' = [waiting EXCEPT ![p] = @ \cup {[id |-> seq + 1, group |-> g]}]
  /\ Schedule(keys', running /\ processor)
  /\ UNCHANGED <<processor, running, active, activeGroups, granted, setting>>

(* Replace every waiting array by the jobs of it that satisfy Keep.        *)
Filter(Keep(_)) ==
  /\ waiting' = [p \in Partitions |-> {j \in waiting[p] : Keep(j)}]
  /\ UNCHANGED <<processor, running, seq, keys, active, activeGroups, reading,
                 granted, setting>>

Remove(i) == Filter(LAMBDA j : j.id # i)

(* The predicates of cleanQueuesByApplication and cleanQueuesByCompose     *)
(* match the jobs of one service, its previews included.                   *)
RemoveWaiting(g) == Filter(LAMBDA j : j.group # g)

ClearWaiting == Filter(LAMBDA j : FALSE)

Close ==
  /\ running' = FALSE
  /\ UNCHANGED <<processor, seq, keys, waiting, active, activeGroups, reading,
                 granted, setting>>

(* A mutant: the setting is answered without a drain that asked for it.    *)
ReadLimitUnasked(p) ==
  /\ reading' = [reading EXCEPT ![p] = @ - 1]
  /\ \E n \in {Normalize(setting[p])} : granted' = [granted EXCEPT ![p][n] = @ + 1]
  /\ UNCHANGED <<processor, running, seq, keys, waiting, active, activeGroups,
                 setting>>

(* resolveBuildsConcurrency answers a drain: the stored value, clamped, or *)
(* 1 when the query fails or the server row is gone.                       *)
ReadLimit(p) ==
  /\ reading[p] > 0
  /\ reading' = [reading EXCEPT ![p] = @ - 1]
  /\ \E n \in {Normalize(setting[p])} \cup (IF QueriesFail THEN {1} ELSE {}) :
       /\ granted[p][n] < MaxDrains
       /\ granted' = [granted EXCEPT ![p][n] = @ + 1]
  /\ UNCHANGED <<processor, running, seq, keys, waiting, active, activeGroups,
                 setting>>

(* A mutant: the youngest job of a group is started.                        *)
StartableYoungest(p) ==
  { j \in waiting[p] :
      /\ j.group \notin activeGroups[p]
      /\ \A k \in waiting[p] : k.group = j.group => k.id <= j.id }

(* First waiting job of every group that is not running: what the loop's   *)
(* findIndex can return before it gives up.                                *)
Startable(p) ==
  { j \in waiting[p] :
      /\ j.group \notin activeGroups[p]
      /\ \A k \in waiting[p] : k.group = j.group => j.id <= k.id }

(* A mutant: the drain counts the jobs it starts and not those that run.   *)
StartsOwnOnly(p, n) ==
  {j \in Startable(p) : Cardinality({k \in Startable(p) : k.id < j.id}) < n}

(* The jobs the loop starts under limit n: the oldest startable ones,      *)
(* while active.length < n.                                                *)
Starts(p, n) ==
  { j \in Startable(p) :
      Cardinality(active[p])
        + Cardinality({k \in Startable(p) : k.id < j.id}) < n }

(* drainPartition after the await, to the end of its loop.                 *)
Drain(p, n) ==
  LET S == Starts(p, n) IN
  /\ granted[p][n] > 0
  /\ granted' = [granted EXCEPT ![p][n] = @ - 1]
  /\ waiting' = [waiting EXCEPT ![p] = @ \ S]
  /\ active' = [active EXCEPT ![p] = @ \cup S]
  /\ activeGroups' = [activeGroups EXCEPT ![p] = @ \cup {j.group : j \in S}]
  /\ UNCHANGED <<processor, running, seq, keys, reading, setting>>

(* Mutants: runJob does not drain, or keeps the group of the job.          *)
FinishNoDrain(p, j) ==
  /\ j \in active[p]
  /\ active' = [active EXCEPT ![p] = {k \in @ : k.id # j.id}]
  /\ activeGroups' = [activeGroups EXCEPT ![p] = @ \ {j.group}]
  /\ UNCHANGED <<processor, running, seq, keys, waiting, reading, granted, setting>>

FinishKeepsGroup(p, j) ==
  /\ j \in active[p]
  /\ active' = [active EXCEPT ![p] = {k \in @ : k.id # j.id}]
  /\ reading' = [reading EXCEPT ![p] = @ + 1]
  /\ UNCHANGED <<processor, running, seq, keys, waiting, activeGroups, granted,
                 setting>>

(* The processor's promise settles, either way: runJob's finally block.    *)
(* It drains whatever `running` says.                                      *)
Finish(p, j) ==
  /\ j \in active[p]
  /\ active' = [active EXCEPT ![p] = {k \in @ : k.id # j.id}]
  /\ activeGroups' = [activeGroups EXCEPT ![p] = @ \ {j.group}]
  /\ reading' = [reading EXCEPT ![p] = @ + 1]
  /\ UNCHANGED <<processor, running, seq, keys, waiting, granted, setting>>

(* An administrator saves another buildsConcurrency; nothing is scheduled. *)
Configure(p, s) ==
  /\ setting' = [setting EXCEPT ![p] = s]
  /\ UNCHANGED <<processor, running, seq, keys, waiting, active, activeGroups,
                 reading, granted>>

(* SIGTERM (close, then exit) or a crash: the memory is lost and the next  *)
(* process constructs a new queue.                                         *)
Restart ==
  /\ processor' = FALSE
  /\ running' = FALSE
  /\ seq' = 0
  /\ keys' = {}
  /\ waiting' = Empty
  /\ active' = Empty
  /\ activeGroups' = Empty
  /\ reading' = [p \in Partitions |-> 0]
  /\ granted' = [p \in Partitions |-> [n \in Limits |-> 0]]
  /\ UNCHANGED setting

FinishId(p, i) == \E j \in active[p] : j.id = i /\ Finish(p, j)

Next ==
  \/ Process
  \/ Run
  \/ \E p \in Partitions, g \in Groups : Add(p, g)
  \/ \E i \in 1..MaxJobs : Remove(i)
  \/ \E g \in Groups : RemoveWaiting(g)
  \/ ClearWaiting
  \/ Close
  \/ \E p \in Partitions : ReadLimit(p)
  \/ \E p \in Partitions, n \in Limits : Drain(p, n)
  \/ \E p \in Partitions : \E j \in active[p] : Finish(p, j)
  \/ \E p \in Partitions, s \in Settings : Configure(p, s)
  \/ Restart

Spec == Init /\ [][Next]_vars

(* Settings queries answer, resumed callbacks run and builds end.          *)
Fairness ==
  \A p \in Partitions :
    /\ WF_vars(ReadLimit(p))
    /\ \A n \in Limits : WF_vars(Drain(p, n))
    /\ \A i \in 1..MaxJobs : WF_vars(FinishId(p, i))

FairSpec == Spec /\ Fairness

-----------------------------------------------------------------------------
(* Types of the variables, with the drains counted per limit.              *)
TypeOK ==
  /\ processor \in BOOLEAN
  /\ running \in BOOLEAN
  /\ seq \in Nat
  /\ keys \in SUBSET Partitions
  /\ waiting \in [Partitions -> SUBSET Jobs]
  /\ active \in [Partitions -> SUBSET Jobs]
  /\ activeGroups \in [Partitions -> SUBSET Groups]
  /\ reading \in [Partitions -> Nat]
  /\ granted \in [Partitions -> [Limits -> Nat]]
  /\ setting \in [Partitions -> Settings]

(* Within a partition, two jobs of one service never run in parallel, and  *)
(* the activeGroups set the drains look at is that of the running jobs,    *)
(* whatever drains, finishes and removals interleave (in-memory-queue.ts,  *)
(* drainPartition and runJob).                                             *)
GroupsSerialized ==
  \A p \in Partitions :
    /\ activeGroups[p] = {j.group : j \in active[p]}
    /\ \A j, k \in active[p] : j.group = k.group => j = k

(* FIFO: the running job of a service was added before every job of that   *)
(* service still waiting in the partition.                                 *)
OldestRunsFirst ==
  \A p \in Partitions : \A j \in active[p], k \in waiting[p] :
    j.group = k.group => j.id < k.id

(* However many drains overlap, each with the limit it read before the     *)
(* others started jobs, a partition never runs more jobs than the largest  *)
(* limit in use.                                                           *)
WithinCapacity ==
  \A p \in Partitions : Cardinality(active[p]) <= Capacity

(* No lost wake-up: while the queue is on and no drain of the partition is *)
(* under way, a job that could start is waiting only because the partition *)
(* runs as many jobs as some limit in use allows.  add() drains nothing    *)
(* while the queue is closed, and two drains may resume in either order.   *)
DrainsUnderWay(p) == reading[p] > 0 \/ \E n \in Limits : granted[p][n] > 0
WorkConserving ==
  \A p \in Partitions :
    running /\ processor /\ ~DrainsUnderWay(p) /\ Startable(p) # {}
      => \E n \in Limits : Cardinality(active[p]) >= n

(* Every job added to a queue that stays on leaves the waiting state: it   *)
(* is started, removed or lost with the process.                           *)
Waits(i) == /\ running /\ processor
            /\ \E p \in Partitions : \E j \in waiting[p] : j.id = i
EveryJobServed == \A i \in 1..MaxJobs : Waits(i) ~> ~Waits(i)

(* The queue implements the serial executor.                               *)
Executor == INSTANCE SerialExecutor
              WITH Lanes <- Partitions, Services <- Groups,
                   pending <- waiting, executing <- active
ImplementsExecutor == Executor!XSpec
=============================================================================
