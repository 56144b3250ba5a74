------------------------- MODULE TransferProofs ---------------------------
(***************************************************************************)
(* TLAPS proofs about Transfer: a service with data runs once, on data     *)
(* that has every write; one without data is served until its old copy is  *)
(* cleaned up; what a rollback and a commit leave behind.  For any         *)
(* services, servers and calls, and for any number of the faults that the  *)
(* properties name none of.                                                *)
(***************************************************************************)
EXTENDS Transfer, FiniteSetTheorems, TLAPS

Before == {"prepared", "begin", "stop", "copy", "switch"}
Moved == {"deploy", "deploying", "staged", "check", "healthy", "logs", "clean", "finish"}
Up == {"staged", "check", "healthy", "logs", "clean", "finish"}
Down == {"copy", "switch", "deploy", "deploying", "restore", "restart"}
Back == {"restart", "reset"}

Source(t) == saga[t].source
Record(t) == record[Subject[t]]
Run(t) == running[Subject[t]]
Defined(t) == present[Subject[t]]
Data(t) == fresh[Subject[t]]
Stateful(t) == shape[Subject[t]].stateful

(* Unless calls overlap, a service is in one transfer at a time.           *)
OneTransfer ==
  Safe({"overlap"}) =>
    \A t, u \in Sagas : Active(t) /\ Active(u) /\ Subject[t] = Subject[u] => t = u

(* Where the record is and what the StagedTransfer says, by the step that  *)
(* the call is at.  Only a failed statement leaves a switched transfer     *)
(* with the record at the source.                                          *)
Staged(t) ==
  /\ Source(t) # Target[t]
  /\ saga[t].stopped => Stateful(t)
  /\ saga[t].at \in {"prepared", "begin", "stop"} => ~saga[t].stopped
  /\ saga[t].at \in {"stop", "copy", "restart"} => Stateful(t)
  /\ saga[t].at \in {"copy", "restart"} => saga[t].stopped
  /\ saga[t].at \in {"switch", "remove", "restore"} \cup Moved => saga[t].stopped = Stateful(t)
  /\ saga[t].at = "failed" =>
       \/ saga[t].stopped = Stateful(t)
       \/ ~Safe({"db"}) /\ ~saga[t].switched /\ ~saga[t].stopped
  /\ saga[t].at \in Before \cup Back => Record(t) = Source(t) /\ ~saga[t].switched
  /\ saga[t].at \in Moved => Record(t) = Target[t] /\ saga[t].switched
  /\ saga[t].at = "deploying" => saga[t].on = Target[t]
  /\ saga[t].at \in {"remove", "restore"} => saga[t].switched
  /\ saga[t].at \in {"failed", "remove", "restore"} =>
       IF saga[t].switched THEN Record(t) = Target[t] \/ (Record(t) = Source(t) /\ ~Safe({"db"}))
                           ELSE Record(t) = Source(t) /\ (Safe({"db"}) => saga[t].stopped)
  /\ saga[t].at = "broken" /\ Safe({"db"}) => Record(t) = Source(t)
  /\ saga[t].at \in Up => Target[t] \in Run(t)

StagedOK == Safe({"overlap"}) => \A t \in Sagas : Active(t) => Staged(t)

(* The queue deploys nothing unless it builds.                             *)
NoBuild == Safe({"build"}) => \A x \in Services : building[x] = Nowhere

(* A service with data runs where its record is, if anywhere, and not at   *)
(* all from the stop on until it is deployed or started again.             *)
Alone == {"stop", "remove", "build", "overlap"}

RunsAtRecord ==
  Safe(Alone) => \A x \in Services : shape[x].stateful => running[x] \subseteq {record[x]}

Stopped(t) ==
  \/ saga[t].at \in Down
  \/ saga[t].at = "failed" /\ saga[t].stopped /\ ~saga[t].switched
  \/ saga[t].at \in {"failed", "remove"} /\ saga[t].switched /\ Record(t) # Target[t]

StoppedOK ==
  Safe(Alone) =>
    \A t \in Sagas : Active(t) /\ Stateful(t) /\ Stopped(t) => Run(t) = {}

(* The data is complete where the record is, and at the source until the   *)
(* service has run on the target.                                          *)
WithData == Alone \cup {"partial", "health"}

Complete(t) ==
  /\ saga[t].at = "switch" => Target[t] \in Data(t)
  /\ saga[t].at \notin Up \cup {"broken"} => Source(t) \in Data(t)
  /\ saga[t].at \in {"failed", "remove"} /\ saga[t].switched => Run(t) = {}

DataOK ==
  Safe(WithData) =>
    /\ \A x \in Services : shape[x].stateful => record[x] \in fresh[x]
    /\ \A t \in Sagas : Active(t) /\ Stateful(t) => Complete(t)

(* A service without data that ran at the source runs there.               *)
Serves(t) == Source(t) \in saga[t].ran /\ saga[t].at # "finish" => Source(t) \in Run(t)

ServedOK ==
  Safe({"db", "overlap"}) => \A t \in Sagas : Active(t) /\ ~Stateful(t) => Serves(t)

(* What ran at the source can be started there again, and has been when    *)
(* the status is reset; the target runs it only if it did before, or       *)
(* because of this transfer.                                               *)
Undoable(t) ==
  /\ Source(t) \in saga[t].ran /\ saga[t].at # "finish" /\ shape[Subject[t]].kind # "stack"
       => Source(t) \in Defined(t)
  /\ saga[t].at = "reset" /\ Source(t) \in saga[t].ran /\ Safe({"start"})
       => Source(t) \in Run(t)
  /\ \/ saga[t].at \in Before \cup Back \cup {"deploy", "deploying", "restore"}
     \/ saga[t].at = "failed" /\ ~saga[t].switched
     => (Target[t] \in Run(t) /\ Safe({"remove"}) => Target[t] \in saga[t].ran)

UndoingOK ==
  Safe({"db", "overlap", "build"}) => \A t \in Sagas : Active(t) => Undoable(t)

(* Without the failures that leave a copy behind, a service runs on the    *)
(* servers of its transfer only.                                           *)
Tidy == {"overlap", "build", "crash", "clean", "logs", "db", "remove"}

Confined(t) ==
  /\ Run(t) \subseteq {Source(t), Target[t]}
  /\ \/ saga[t].at \in Before \cup Back \cup {"deploy", "deploying", "restore", "broken"}
     \/ saga[t].at = "failed" /\ ~saga[t].switched
     => Run(t) \subseteq {Source(t)}
  /\ saga[t].at = "finish" => Run(t) \subseteq {Target[t]}

NoLeftover ==
  Safe(Tidy) =>
    /\ \A x \in Services :
         (\A t \in Sagas : Subject[t] = x => ~Active(t)) => running[x] \subseteq {record[x]}
    /\ \A t \in Sagas : Active(t) => Confined(t)

IInv == /\ TypeOK /\ OneTransfer /\ StagedOK /\ NoBuild /\ RunsAtRecord /\ StoppedOK /\ DataOK
        /\ ServedOK /\ UndoingOK /\ NoLeftover
-----------------------------------------------------------------------------
Saga(t) == Prepare(t, "begin") \/ Step(t) \/ Drive(t)

(* A step of a saga concerns its own service.                              *)
LEMMA Frame ==
  ASSUME TypeOK, NEW t \in Sagas, Saga(t)
  PROVE  /\ \A u \in Sagas : u # t => saga'[u] = saga[u]
         /\ \A x \in Services : x # Subject[t] =>
              /\ record'[x] = record[x] /\ running'[x] = running[x]
              /\ present'[x] = present[x] /\ fresh'[x] = fresh[x]
         /\ shape' = shape /\ building' = building
<1> USE TransferAssumption DEF TypeOK, Keep, Set, Go, Runs
<1>1. \A u \in Sagas : u # t => saga'[u] = saga[u]
  BY DEF Saga, Prepare, Step, Drive, Begin, Stop, Copy, Switch, Deploy, Deployed, Check, Remove,
         Restore, Restart, Reset, MoveLogs, CleanUp, Finish, DbFails, Rollback
<1>2. shape' = shape /\ building' = building
  BY DEF Saga, Prepare, Step, Drive, Begin, Stop, Copy, Switch, Deploy, Deployed, Check, Remove,
         Restore, Restart, Reset, MoveLogs, CleanUp, Finish, DbFails, Rollback
<1>3. \A x \in Services : x # Subject[t] =>
        /\ record'[x] = record[x] /\ running'[x] = running[x]
        /\ present'[x] = present[x] /\ fresh'[x] = fresh[x]
  BY DEF Saga, Prepare, Step, Drive, Begin, Stop, Copy, Switch, Deploy, Deployed, Check, Remove,
         Restore, Restart, Reset, MoveLogs, CleanUp, Finish, DbFails, Rollback, world
<1> QED
  BY <1>1, <1>2, <1>3

(* Faults only accumulate.                                                 *)
LEMMA SafeBefore ==
  ASSUME Next
  PROVE  /\ struck' = struck \/ \E k : Strike(k)
         /\ \A K \in SUBSET Kinds : Safe(K)' => Safe(K) /\ \A k \in K : ~Strike(k)
<1>1. ASSUME NEW t \in Sagas, Prepare(t, "begin") \/ Step(t) \/ Drive(t)
      PROVE  struck' = struck \/ \E k : Strike(k)
  <2>1. CASE Prepare(t, "begin") \/ Drive(t) \/ Begin(t) \/ Restore(t) \/ Reset(t) \/ Finish(t)
    BY <2>1 DEF Prepare, Drive, Begin, Restore, Reset, Finish, DbFails, Keep
  <2>2. CASE Stop(t) \/ Copy(t) \/ Switch(t) \/ Deploy(t) \/ Check(t) \/ Remove(t)
    BY <2>2 DEF Stop, Copy, Switch, Deploy, Check, Remove
  <2>3. CASE Deployed(t) \/ Restart(t) \/ MoveLogs(t) \/ CleanUp(t)
    BY <2>3 DEF Deployed, Restart, MoveLogs, CleanUp
  <2> QED
    BY <1>1, <2>1, <2>2, <2>3 DEF Step
<1>2. ASSUME Outside
      PROVE  struck' = struck \/ \E k : Strike(k)
  BY <1>2 DEF Outside, StartBuild, EndBuild, Write, Crash
<1>3. struck' = struck \/ \E k : Strike(k)
  BY <1>1, <1>2 DEF Next
<1> QED
  BY <1>3 DEF Safe, Strike

StagedTransfer ==
  [at : Steps \cup Ended, source : Servers, was : Statuses, ran : SUBSET Servers,
   stopped : BOOLEAN, switched : BOOLEAN, on : Servers]

(* The call goes on to another step.                                       *)
Goes(t) == \E v \in Steps \cup Ended : Go(t, v)

LEMMA GoTypes ==
  ASSUME NEW t \in Sagas, saga \in [Sagas -> StagedTransfer], Goes(t)
  PROVE  saga' \in [Sagas -> StagedTransfer]
BY DEF StagedTransfer, Go, Goes

LEMMA SagaTypes ==
  ASSUME TypeOK, NEW t \in Sagas, Saga(t)
  PROVE  saga' \in [Sagas -> StagedTransfer]
<1>1. saga \in [Sagas -> StagedTransfer]
  BY DEF TypeOK, StagedTransfer
<1>2. /\ record[Subject[t]] \in Servers /\ status[Subject[t]] \in Statuses
      /\ running[Subject[t]] \in SUBSET Servers
  BY TransferAssumption DEF TypeOK
<1>3. CASE Prepare(t, "begin")
  <2> DEFINE n == [NoSaga EXCEPT !.at = IF record[Subject[t]] = Target[t] THEN "rejected" ELSE "begin",
                                 !.source = record[Subject[t]], !.was = status[Subject[t]],
                                 !.ran = running[Subject[t]]]
  <2>1. saga' = [saga EXCEPT ![t] = n]
    BY <1>3 DEF Prepare
  <2>2. n \in StagedTransfer
    BY <1>2, TransferAssumption DEF NoSaga, Steps, Ended, Statuses, StagedTransfer
  <2> QED
    BY <1>1, <2>1, <2>2
<1>4. CASE Begin(t) \/ Copy(t) \/ Check(t) \/ Remove(t) \/ Reset(t)
  <2>1. Goes(t)
    BY <1>4 DEF Begin, Copy, Check, Remove, Reset, DbFails, Goes, Steps, Ended
  <2> QED
    BY <1>1, <2>1, GoTypes
<1>5. CASE MoveLogs(t) \/ CleanUp(t) \/ Finish(t) \/ Deployed(t) \/ Drive(t)
  <2>1. Goes(t)
    BY <1>5 DEF MoveLogs, CleanUp, Finish, Deployed, Drive, Rollback, DbFails, Goes, Steps, Ended
  <2> QED
    BY <1>1, <2>1, GoTypes
<1>6. ASSUME NEW v \in Steps, NEW b \in BOOLEAN,
             \/ saga' = [saga EXCEPT ![t].at = v, ![t].stopped = b]
             \/ saga' = [saga EXCEPT ![t].at = v, ![t].switched = b]
             \/ saga' = [saga EXCEPT ![t].at = v, ![t].on = record[Subject[t]]]
      PROVE  saga' \in [Sagas -> StagedTransfer]
  BY <1>1, <1>2, <1>6 DEF StagedTransfer
<1>7. CASE Stop(t)
  BY <1>6, <1>7 DEF Stop, Steps
<1>8. CASE Switch(t)
  BY <1>6, <1>8 DEF Switch, Steps
<1>9. CASE Deploy(t)
  <2>1. CASE Strike("deploy") /\ Go(t, "failed")
    BY <1>1, <2>1, GoTypes DEF Goes, Steps
  <2>2. CASE saga' = [saga EXCEPT ![t].at = "deploying", ![t].on = record[Subject[t]]]
    BY <1>6, <2>2 DEF Steps
  <2> QED
    BY <1>9, <2>1, <2>2 DEF Deploy
<1>10. CASE Restore(t)
  <2>1. CASE DbFails(t, "restore", "broken")
    BY <1>1, <2>1, GoTypes DEF Goes, DbFails, Steps
  <2>2. CASE saga' = [saga EXCEPT ![t].at = IF saga[t].stopped THEN "restart" ELSE "reset",
                                  ![t].switched = FALSE]
    BY <1>6, <2>2 DEF Steps
  <2> QED
    BY <1>10, <2>1, <2>2 DEF Restore
<1>11. CASE Restart(t)
  BY <1>6, <1>11 DEF Restart, Steps
<1> QED
  BY <1>3, <1>4, <1>5, <1>7, <1>8, <1>9, <1>10, <1>11 DEF Saga, Step

(* What is deployed is defined; what is removed does not run.              *)
LEMMA PresentTypes ==
  ASSUME TypeOK, NEW x \in Services, NEW s \in Servers,
         \/ UNCHANGED <<running, present>>
         \/ Runs(x, s)
         \/ /\ running' = Set(running, x, running[x] \ {s})
            /\ present' = present \/ present' = Set(present, x, present[x] \ {s})
  PROVE  /\ present' \in [Services -> SUBSET Servers] /\ running' \in [Services -> SUBSET Servers]
         /\ \A y \in Services : running'[y] \subseteq present'[y]
<1>1. /\ present \in [Services -> SUBSET Servers] /\ running \in [Services -> SUBSET Servers]
      /\ \A y \in Services : running[y] \subseteq present[y]
  BY DEF TypeOK
<1> QED
  BY <1>1 DEF Runs, Set

LEMMA SagaStepTypes ==
  ASSUME TypeOK, NEW t \in Sagas, Saga(t)
  PROVE  /\ record' \in [Services -> Servers] /\ status' \in [Services -> Statuses]
         /\ fresh' \in [Services -> SUBSET Servers]
         /\ present' \in [Services -> SUBSET Servers] /\ running' \in [Services -> SUBSET Servers]
         /\ \A x \in Services : running'[x] \subseteq present'[x]
<1> DEFINE x == Subject[t]
<1>1. /\ record \in [Services -> Servers] /\ status \in [Services -> Statuses]
      /\ fresh \in [Services -> SUBSET Servers] /\ saga[t].was \in Statuses
      /\ x \in Services /\ Target[t] \in Servers /\ saga[t].source \in Servers
      /\ saga[t].on \in Servers /\ record[x] \in Servers
  BY TransferAssumption DEF TypeOK
<1>2. record' = record \/ \E s \in Servers : record' = Set(record, x, s)
  BY <1>1 DEF Saga, Prepare, Step, Drive, Begin, Stop, Copy, Switch, Deploy, Deployed, Check,
              Remove, Restore, Restart, Reset, MoveLogs, CleanUp, Finish, DbFails, Keep, world
<1>3. status' = status \/ \E v \in Statuses : status' = Set(status, x, v)
  BY <1>1 DEF Saga, Prepare, Step, Drive, Begin, Stop, Copy, Switch, Deploy, Deployed, Check,
              Remove, Restore, Restart, Reset, MoveLogs, CleanUp, Finish, DbFails, Keep, world,
              Statuses
<1>4. fresh' = fresh \/ \E f \in SUBSET Servers : fresh' = Set(fresh, x, f)
  <2>1. fresh[x] \in SUBSET Servers
    BY <1>1
  <2> QED
    BY <1>1, <2>1
       DEF Saga, Prepare, Step, Drive, Begin, Stop, Copy, Switch, Deploy, Deployed, Check,
           Remove, Restore, Restart, Reset, MoveLogs, CleanUp, Finish, DbFails, Keep, world
<1>5. \/ UNCHANGED <<running, present>>
      \/ \E s \in Servers :
           \/ Runs(x, s)
           \/ /\ running' = Set(running, x, running[x] \ {s})
              /\ present' = present \/ present' = Set(present, x, present[x] \ {s})
  <2>1. CASE Stop(t) \/ Remove(t) \/ CleanUp(t)
    BY <1>1, <2>1 DEF Stop, Remove, CleanUp
  <2>2. CASE Deployed(t) \/ Restart(t)
    BY <1>1, <2>2 DEF Deployed, Restart
  <2>3. CASE Prepare(t, "begin") \/ Drive(t) \/ Begin(t) \/ Copy(t) \/ Switch(t) \/ Deploy(t)
             \/ Check(t) \/ Restore(t) \/ Reset(t) \/ MoveLogs(t) \/ Finish(t)
    BY <2>3 DEF Prepare, Drive, Begin, Copy, Switch, Deploy, Check, Restore, Reset, MoveLogs,
                Finish, DbFails, Keep, world
  <2> QED
    BY <2>1, <2>2, <2>3 DEF Saga, Step
<1>6. /\ present' \in [Services -> SUBSET Servers] /\ running' \in [Services -> SUBSET Servers]
      /\ \A y \in Services : running'[y] \subseteq present'[y]
  BY <1>1, <1>5, PresentTypes
<1> QED
  BY <1>1, <1>2, <1>3, <1>4, <1>6 DEF Set

LEMMA TypeStep ==
  ASSUME TypeOK, Next
  PROVE  TypeOK'
<1>1. struck' \subseteq Kinds
  <2>1. struck \subseteq Kinds /\ Faults \subseteq Kinds
    BY TransferAssumption DEF TypeOK
  <2> QED
    BY <2>1, SafeBefore DEF Strike
<1>2. ASSUME NEW t \in Sagas, Saga(t)
      PROVE  TypeOK'
  <2>1. saga' \in [Sagas -> StagedTransfer] /\ shape' = shape /\ building' = building
    BY <1>2, SagaTypes, Frame
  <2> QED
    BY <1>1, <1>2, <2>1, SagaStepTypes DEF TypeOK, StagedTransfer
<1>3. ASSUME NEW x \in Services, StartBuild(x) \/ EndBuild(x) \/ Write(x)
      PROVE  TypeOK'
  <2>1. /\ saga' = saga /\ shape' = shape /\ record' = record
        /\ status' \in [Services -> Statuses]
        /\ building' \in [Services -> Servers \cup {Nowhere}]
    BY <1>3 DEF TypeOK, StartBuild, EndBuild, Write, Set, Statuses
  <2>2. fresh' \in [Services -> SUBSET Servers]
    BY <1>3 DEF TypeOK, StartBuild, EndBuild, Write, Set
  <2>3. UNCHANGED <<running, present>> \/ \E s \in Servers : Runs(x, s)
    BY <1>3 DEF TypeOK, StartBuild, EndBuild, Write
  <2> QED
    BY <1>1, <2>1, <2>2, <2>3, PresentTypes DEF TypeOK
<1>4. CASE Crash
  <2>1. saga \in [Sagas -> StagedTransfer]
    BY DEF TypeOK, StagedTransfer
  <2>2. \A r \in StagedTransfer : [r EXCEPT !.at = "dead"] \in StagedTransfer
    BY DEF StagedTransfer, Ended
  <2>3. saga' \in [Sagas -> StagedTransfer]
    BY <1>4, <2>1, <2>2 DEF Crash
  <2> QED
    BY <1>1, <1>4, <2>3 DEF TypeOK, Crash, world, StagedTransfer
<1> QED
  BY <1>2, <1>3, <1>4 DEF Next, Outside, Saga

-----------------------------------------------------------------------------
(* Only a call that is under way takes steps.                              *)
LEMMA ActiveStep ==
  ASSUME TypeOK, NEW t \in Sagas, Step(t) \/ Drive(t)
  PROVE  Active(t)
BY DEF Active, Ended, Step, Drive, Begin, Stop, Copy, Switch, Deploy, Deployed, Check, Remove,
       Restore, Restart, Reset, MoveLogs, CleanUp, Finish, DbFails

(* As long as calls do not overlap, another call that is under way has     *)
(* nothing to do with the service of this one.                             *)
LEMMA Apart ==
  ASSUME TypeOK, OneTransfer, Next, NEW t \in Sagas, NEW u \in Sagas, u # t, Saga(t),
         Safe({"overlap"})', Active(u)'
  PROVE  /\ Safe({"overlap"}) /\ Active(u) /\ Subject[u] # Subject[t] /\ saga'[u] = saga[u]
         /\ LET x == Subject[u]
            IN  /\ x \in Services /\ shape'[x] = shape[x] /\ record'[x] = record[x]
                /\ running'[x] = running[x] /\ present'[x] = present[x] /\ fresh'[x] = fresh[x]
<1>1. saga'[u] = saga[u] /\ Active(u)
  BY Frame DEF Active
<1>2. Safe({"overlap"}) /\ ~Strike("overlap")
  BY SafeBefore DEF Kinds
<1>3. Subject[u] # Subject[t]
  <2>1. CASE Prepare(t, "begin")
    BY <1>1, <1>2, <2>1 DEF Prepare
  <2>2. CASE Step(t) \/ Drive(t)
    BY <1>1, <1>2, <2>2, ActiveStep DEF OneTransfer
  <2> QED
    BY <2>1, <2>2 DEF Saga
<1>4. Subject[u] \in Services
  BY TransferAssumption
<1> QED
  BY <1>1, <1>2, <1>3, <1>4, Frame

LEMMA OneTransferStep ==
  ASSUME TypeOK, OneTransfer, Next
  PROVE  OneTransfer'
<1> SUFFICES ASSUME Safe({"overlap"})', NEW u \in Sagas, NEW v \in Sagas, Active(u)', Active(v)',
                    Subject[u] = Subject[v], u # v
             PROVE  FALSE
  BY DEF OneTransfer
<1>1. Safe({"overlap"})
  BY SafeBefore DEF Kinds
<1>2. ASSUME NEW t \in Sagas, Saga(t)
      PROVE  FALSE
  <2>1. CASE t = u \/ t = v
    BY <1>2, <2>1, Apart
  <2>2. CASE t # u /\ t # v
    BY <1>1, <1>2, <2>2, Apart DEF OneTransfer
  <2> QED
    BY <2>1, <2>2
<1>3. ASSUME Outside
      PROVE  FALSE
  <2>1. \A t \in Sagas : Active(t)' => Active(t)
    BY <1>3 DEF TypeOK, Outside, StartBuild, EndBuild, Write, Crash, Active, Ended
  <2> QED
    BY <1>1, <2>1 DEF OneTransfer
<1> QED
  BY <1>2, <1>3 DEF Next, Saga

-----------------------------------------------------------------------------
(* What each step does to the call and to its service: the effects of the  *)
(* actions at one point of each function.                                  *)
Call(t) == <<saga[t].stopped, saga[t].switched, saga[t].on>>
Place(t) == <<Record(t), Run(t), Defined(t), Data(t)>>

LEMMA SagaFields ==
  ASSUME TypeOK, NEW t \in Sagas, NEW v
  PROVE  /\ saga[t].stopped \in BOOLEAN /\ saga[t].switched \in BOOLEAN
         /\ saga[t].source \in Servers /\ saga[t].ran \subseteq Servers
         /\ Subject[t] \in Services
         /\ Go(t, v) => /\ saga'[t].at = v /\ saga'[t].source = saga[t].source
                        /\ saga'[t].ran = saga[t].ran /\ Call(t)' = Call(t)
         /\ saga \in [Sagas -> StagedTransfer]
<1>1. saga \in [Sagas -> StagedTransfer] /\ saga[t] \in StagedTransfer
  BY DEF TypeOK, StagedTransfer
<1>2. Subject[t] \in Services
  BY TransferAssumption
<1>3. /\ saga[t].stopped \in BOOLEAN /\ saga[t].switched \in BOOLEAN
      /\ saga[t].source \in Servers /\ saga[t].ran \subseteq Servers
  BY <1>1 DEF StagedTransfer
<1>4. Go(t, v) => /\ saga'[t].at = v /\ saga'[t].source = saga[t].source
                  /\ saga'[t].ran = saga[t].ran /\ Call(t)' = Call(t)
  BY <1>1 DEF StagedTransfer, Go, Call
<1> QED
  BY <1>1, <1>2, <1>3, <1>4

LEMMA PlaceFields ==
  ASSUME TypeOK, NEW t \in Sagas, NEW v
  PROVE  /\ record' = Set(record, Subject[t], v) => Record(t)' = v
         /\ running' = Set(running, Subject[t], v) => Run(t)' = v
         /\ present' = Set(present, Subject[t], v) => Defined(t)' = v
         /\ fresh' = Set(fresh, Subject[t], v) => Data(t)' = v
BY TransferAssumption DEF TypeOK, Set, Record, Run, Defined, Data

LEMMA PrepareEffect ==
  ASSUME TypeOK, NEW t \in Sagas, Prepare(t, "begin")
  PROVE  /\ ~Active(t) /\ Place(t)' = Place(t)
         /\ Active(t)' =>
              /\ saga'[t].at = "begin" /\ saga'[t].source = Record(t)
              /\ saga'[t].ran = Run(t) /\ Record(t) # Target[t]
              /\ ~saga'[t].stopped /\ ~saga'[t].switched
<1>1. saga'[t] = [NoSaga EXCEPT !.at = IF Record(t) = Target[t] THEN "rejected" ELSE "begin",
                                !.source = Record(t), !.was = status[Subject[t]], !.ran = Run(t)]
  BY DEF TypeOK, Prepare, Record, Run
<1>2. Place(t)' = Place(t)
  BY DEF Prepare, Keep, world, Place, Record, Run, Defined, Data
<1>3. saga[t].at = "new"
  BY DEF Prepare
<1>4. Active(t)' => Record(t) # Target[t]
  BY <1>1 DEF NoSaga, Active, Ended
<1>5. Active(t)' => /\ saga'[t].at = "begin" /\ saga'[t].source = Record(t)
                    /\ saga'[t].ran = Run(t) /\ ~saga'[t].stopped /\ ~saga'[t].switched
  BY <1>1, <1>4 DEF NoSaga
<1> QED
  BY <1>2, <1>3, <1>4, <1>5 DEF Active

LEMMA StageEffects ==
  ASSUME TypeOK, NEW t \in Sagas
  PROVE  /\ Begin(t) =>
              /\ saga[t].at = "begin" /\ Call(t)' = Call(t) /\ Place(t)' = Place(t)
              /\ \/ saga'[t].at = (IF Stateful(t) THEN "stop" ELSE "switch")
                 \/ saga'[t].at = "failed" /\ Strike("db")
         /\ Copy(t) =>
              /\ saga[t].at = "copy" /\ Call(t)' = Call(t)
              /\ <<Record(t), Run(t), Defined(t)>>' = <<Record(t), Run(t), Defined(t)>>
              /\ \/ /\ saga'[t].at = "switch"
                    /\ Source(t) \in Data(t) => Data(t)' = Data(t) \cup {Target[t]}
                 \/ /\ saga'[t].at = "failed"
                    /\ Data(t)' = Data(t) \ {Target[t]}
         /\ Check(t) =>
              /\ saga[t].at = "check" /\ Call(t)' = Call(t) /\ Place(t)' = Place(t)
              /\ \/ saga'[t].at = "healthy" /\ Target[t] \in Run(t)
                 \/ saga'[t].at = "failed" /\ Target[t] \notin Run(t)
                 \/ saga'[t].at = "failed" /\ Strike("health")
<1>1. Begin(t) => Place(t)' = Place(t)
  BY DEF Begin, DbFails, Keep, world, Place, Record, Run, Defined, Data
<1>2. Check(t) => Place(t)' = Place(t)
  BY DEF Check, Keep, world, Place, Record, Run, Defined, Data
<1>3. Copy(t) => <<Record(t), Run(t), Defined(t)>>' = <<Record(t), Run(t), Defined(t)>>
  BY DEF Copy, Keep, Record, Run, Defined
<1>4. ASSUME Begin(t)
      PROVE  /\ saga[t].at = "begin" /\ Call(t)' = Call(t)
             /\ \/ saga'[t].at = (IF Stateful(t) THEN "stop" ELSE "switch")
                \/ saga'[t].at = "failed" /\ Strike("db")
  BY <1>4, SagaFields DEF Begin, DbFails, Stateful
<1>5. ASSUME Check(t)
      PROVE  /\ saga[t].at = "check" /\ Call(t)' = Call(t)
             /\ \/ saga'[t].at = "healthy" /\ Target[t] \in Run(t)
                \/ saga'[t].at = "failed" /\ Target[t] \notin Run(t)
                \/ saga'[t].at = "failed" /\ Strike("health")
  BY <1>5, SagaFields DEF Check, Run
<1>6. ASSUME Copy(t)
      PROVE  /\ saga[t].at = "copy" /\ Call(t)' = Call(t)
             /\ \/ /\ saga'[t].at = "switch"
                   /\ Source(t) \in Data(t) => Data(t)' = Data(t) \cup {Target[t]}
                \/ /\ saga'[t].at = "failed"
                   /\ Data(t)' = Data(t) \ {Target[t]}
  BY <1>6, SagaFields, PlaceFields DEF Copy, Data, Source
<1> QED
  BY <1>1, <1>2, <1>3, <1>4, <1>5, <1>6

LEMMA StopEffect ==
  ASSUME TypeOK, NEW t \in Sagas, Stop(t)
  PROVE  /\ saga[t].at = "stop" /\ saga'[t].at = "copy" /\ saga'[t].stopped
         /\ saga'[t].switched = saga[t].switched
         /\ <<Record(t), Data(t)>>' = <<Record(t), Data(t)>>
         /\ \/ /\ Run(t)' = Run(t) \ {IF Compose(Subject[t]) THEN Record(t) ELSE Source(t)}
               /\ \/ Defined(t)' = Defined(t)
                  \/ shape[Subject[t]].kind = "stack"
            \/ Strike("stop") /\ Run(t)' = Run(t) /\ Defined(t)' = Defined(t)
<1>1. /\ saga[t].at = "stop" /\ saga'[t].at = "copy" /\ saga'[t].stopped
      /\ saga'[t].switched = saga[t].switched
  <2>1. saga' = [saga EXCEPT ![t].at = "copy", ![t].stopped = TRUE] /\ saga[t].at = "stop"
    BY DEF Stop
  <2> QED
    BY <2>1, SagaFields DEF StagedTransfer
<1>2. <<Record(t), Data(t)>>' = <<Record(t), Data(t)>>
  BY DEF Stop, Keep, Record, Data
<1>3. \/ /\ Run(t)' = Run(t) \ {IF Compose(Subject[t]) THEN Record(t) ELSE Source(t)}
         /\ \/ Defined(t)' = Defined(t)
            \/ shape[Subject[t]].kind = "stack"
      \/ Strike("stop") /\ Run(t)' = Run(t) /\ Defined(t)' = Defined(t)
  BY PlaceFields DEF Stop, Run, Defined, Source, Record
<1> QED
  BY <1>1, <1>2, <1>3

LEMMA SwitchEffect ==
  ASSUME TypeOK, NEW t \in Sagas, Switch(t)
  PROVE  /\ saga[t].at = "switch" /\ saga'[t].switched /\ saga'[t].stopped = saga[t].stopped
         /\ <<Run(t), Defined(t), Data(t)>>' = <<Run(t), Defined(t), Data(t)>>
         /\ \/ saga'[t].at = "deploy" /\ Record(t)' = Target[t]
            \/ saga'[t].at = "failed" /\ Record(t)' = Record(t) /\ Strike("db")
<1>1. <<Run(t), Defined(t), Data(t)>>' = <<Run(t), Defined(t), Data(t)>>
  BY DEF Switch, Keep, Run, Defined, Data
<1>2. /\ saga[t].at = "switch"
      /\ \/ /\ saga' = [saga EXCEPT ![t].at = "deploy", ![t].switched = TRUE]
            /\ Record(t)' = Target[t]
         \/ /\ saga' = [saga EXCEPT ![t].at = "failed", ![t].switched = TRUE]
            /\ Record(t)' = Record(t) /\ Strike("db")
  BY PlaceFields DEF Switch, Record
<1> QED
  BY <1>1, <1>2, SagaFields DEF StagedTransfer

LEMMA DeployEffects ==
  ASSUME TypeOK, NEW t \in Sagas
  PROVE  /\ Deploy(t) =>
              /\ saga[t].at = "deploy" /\ Place(t)' = Place(t)
              /\ saga'[t].stopped = saga[t].stopped /\ saga'[t].switched = saga[t].switched
              /\ \/ saga'[t].at = "deploying" /\ saga'[t].on = Record(t)
                 \/ saga'[t].at = "failed"
         /\ Deployed(t) =>
              /\ saga[t].at = "deploying" /\ Call(t)' = Call(t)
              /\ <<Record(t), Data(t)>>' = <<Record(t), Data(t)>>
              /\ \/ /\ Run(t)' = Run(t) \cup {saga[t].on}
                    /\ Defined(t)' = Defined(t) \cup {saga[t].on}
                    /\ saga'[t].at = "staged" \/ (saga'[t].at = "failed" /\ Strike("partial"))
                 \/ Run(t)' = Run(t) /\ Defined(t)' = Defined(t) /\ saga'[t].at = "failed"
<1>1. ASSUME Deploy(t)
      PROVE  /\ saga[t].at = "deploy" /\ Place(t)' = Place(t)
             /\ saga'[t].stopped = saga[t].stopped /\ saga'[t].switched = saga[t].switched
             /\ \/ saga'[t].at = "deploying" /\ saga'[t].on = Record(t)
                \/ saga'[t].at = "failed"
  <2>1. Place(t)' = Place(t)
    BY <1>1 DEF Deploy, Keep, Place, Record, Run, Defined, Data
  <2>2. /\ saga[t].at = "deploy"
        /\ \/ saga' = [saga EXCEPT ![t].at = "deploying", ![t].on = Record(t)]
           \/ saga' = [saga EXCEPT ![t].at = "failed"]
    BY <1>1 DEF Deploy, Record, Go
  <2>3. Record(t) \in Servers
    BY TransferAssumption DEF TypeOK, Record
  <2> QED
    BY <2>1, <2>2, <2>3, SagaFields DEF StagedTransfer
<1>2. ASSUME Deployed(t)
      PROVE  /\ saga[t].at = "deploying" /\ Call(t)' = Call(t)
             /\ <<Record(t), Data(t)>>' = <<Record(t), Data(t)>>
             /\ \/ /\ Run(t)' = Run(t) \cup {saga[t].on}
                   /\ Defined(t)' = Defined(t) \cup {saga[t].on}
                   /\ saga'[t].at = "staged" \/ (saga'[t].at = "failed" /\ Strike("partial"))
                \/ Run(t)' = Run(t) /\ Defined(t)' = Defined(t) /\ saga'[t].at = "failed"
  <2>1. <<Record(t), Data(t)>>' = <<Record(t), Data(t)>>
    BY <1>2 DEF Deployed, Keep, Record, Data
  <2>2. Runs(Subject[t], saga[t].on) => /\ Run(t)' = Run(t) \cup {saga[t].on}
                                        /\ Defined(t)' = Defined(t) \cup {saga[t].on}
    BY PlaceFields DEF Runs, Run, Defined
  <2>3. UNCHANGED <<running, present>> => Run(t)' = Run(t) /\ Defined(t)' = Defined(t)
    BY DEF Run, Defined
  <2>4. /\ saga[t].at = "deploying"
        /\ \/ Runs(Subject[t], saga[t].on) /\ (Go(t, "staged") \/ (Go(t, "failed") /\ Strike("partial")))
           \/ UNCHANGED <<running, present>> /\ Go(t, "failed")
    BY <1>2 DEF Deployed
  <2>5. \A v : Go(t, v) => saga'[t].at = v /\ Call(t)' = Call(t)
    BY SagaFields
  <2> QED
    BY <2>1, <2>2, <2>3, <2>4, <2>5
<1> QED
  BY <1>1, <1>2

LEMMA RemoveEffect ==
  ASSUME TypeOK, NEW t \in Sagas, Remove(t)
  PROVE  /\ saga[t].at = "remove" /\ saga'[t].at = "restore" /\ Call(t)' = Call(t)
         /\ <<Record(t), Data(t)>>' = <<Record(t), Data(t)>>
         /\ \/ LET s == IF Compose(Subject[t]) THEN Record(t) ELSE Target[t]
               IN  Run(t)' = Run(t) \ {s} /\ Defined(t)' = Defined(t) \ {s}
            \/ Strike("remove") /\ Run(t)' = Run(t) /\ Defined(t)' = Defined(t)
<1>1. saga[t].at = "remove" /\ saga'[t].at = "restore" /\ Call(t)' = Call(t)
  BY SagaFields DEF Remove
<1>2. <<Record(t), Data(t)>>' = <<Record(t), Data(t)>>
  BY DEF Remove, Keep, Record, Data
<1>3. \/ LET s == IF Compose(Subject[t]) THEN Record(t) ELSE Target[t]
         IN  Run(t)' = Run(t) \ {s} /\ Defined(t)' = Defined(t) \ {s}
      \/ Strike("remove") /\ Run(t)' = Run(t) /\ Defined(t)' = Defined(t)
  BY PlaceFields DEF Remove, Run, Defined, Record
<1> QED
  BY <1>1, <1>2, <1>3

LEMMA RestoreEffect ==
  ASSUME TypeOK, NEW t \in Sagas, Restore(t)
  PROVE  /\ saga[t].at = "restore" /\ saga'[t].stopped = saga[t].stopped
         /\ <<Run(t), Defined(t), Data(t)>>' = <<Run(t), Defined(t), Data(t)>>
         /\ \/ /\ saga'[t].at = (IF saga[t].stopped THEN "restart" ELSE "reset")
               /\ ~saga'[t].switched /\ Record(t)' = Source(t)
            \/ /\ saga'[t].at = "broken" /\ Strike("db")
               /\ saga'[t].switched = saga[t].switched /\ Record(t)' = Record(t)
<1>1. <<Run(t), Defined(t), Data(t)>>' = <<Run(t), Defined(t), Data(t)>>
  BY DEF Restore, DbFails, Keep, world, Run, Defined, Data
<1>2. /\ saga[t].at = "restore"
      /\ \/ /\ saga' = [saga EXCEPT ![t].at = IF saga[t].stopped THEN "restart" ELSE "reset",
                                    ![t].switched = FALSE]
            /\ Record(t)' = Source(t)
         \/ saga' = [saga EXCEPT ![t].at = "broken"] /\ Strike("db") /\ Record(t)' = Record(t)
  BY PlaceFields DEF Restore, DbFails, Keep, world, Record, Source, Go
<1> QED
  BY <1>1, <1>2, SagaFields DEF StagedTransfer

LEMMA RestartEffect ==
  ASSUME TypeOK, NEW t \in Sagas, Restart(t)
  PROVE  LET s == IF Compose(Subject[t]) THEN Record(t) ELSE Source(t)
             stack == shape[Subject[t]].kind = "stack"
         IN  /\ saga[t].at = "restart" /\ saga'[t].switched = saga[t].switched
             /\ <<Record(t), Data(t)>>' = <<Record(t), Data(t)>>
             /\ \/ /\ saga'[t].at = "reset" /\ ~saga'[t].stopped
                   /\ IF stack \/ s \in Defined(t)
                        THEN Run(t)' = Run(t) \cup {s} /\ Defined(t)' = Defined(t) \cup {s}
                        ELSE Run(t)' = Run(t) /\ Defined(t)' = Defined(t)
                \/ /\ Strike("start") /\ Run(t)' = Run(t) /\ Defined(t)' = Defined(t)
                   /\ saga'[t].at = (IF stack THEN "broken" ELSE "reset")
                   /\ saga'[t].stopped = stack
<1> DEFINE s == IF Compose(Subject[t]) THEN Record(t) ELSE Source(t)
           stack == shape[Subject[t]].kind = "stack"
<1>1. <<Record(t), Data(t)>>' = <<Record(t), Data(t)>>
  BY DEF Restart, Keep, Record, Data
<1>2. Runs(Subject[t], s) => Run(t)' = Run(t) \cup {s} /\ Defined(t)' = Defined(t) \cup {s}
  BY PlaceFields DEF Runs, Run, Defined
<1>3. UNCHANGED <<running, present>> => Run(t)' = Run(t) /\ Defined(t)' = Defined(t)
  BY DEF Run, Defined
<1>4. /\ saga[t].at = "restart"
      /\ \/ /\ saga' = [saga EXCEPT ![t].at = "reset", ![t].stopped = FALSE]
            /\ IF stack \/ s \in Defined(t) THEN Runs(Subject[t], s) ELSE UNCHANGED <<running, present>>
         \/ /\ saga' = [saga EXCEPT ![t].at = IF stack THEN "broken" ELSE "reset",
                                    ![t].stopped = stack]
            /\ UNCHANGED <<running, present>> /\ Strike("start")
  BY DEF Restart, Source, Record, Defined
<1>5. stack \in BOOLEAN
  OBVIOUS
<1>6. \A v, b : saga' = [saga EXCEPT ![t].at = v, ![t].stopped = b] =>
        saga'[t].at = v /\ saga'[t].stopped = b /\ saga'[t].switched = saga[t].switched
  BY SagaFields DEF StagedTransfer
<1>7. \/ /\ saga'[t].at = "reset" /\ saga'[t].stopped = FALSE
         /\ saga'[t].switched = saga[t].switched
         /\ IF stack \/ s \in Defined(t) THEN Runs(Subject[t], s) ELSE UNCHANGED <<running, present>>
      \/ /\ saga'[t].at = (IF stack THEN "broken" ELSE "reset") /\ saga'[t].stopped = stack
         /\ saga'[t].switched = saga[t].switched
         /\ UNCHANGED <<running, present>> /\ Strike("start")
  BY <1>4, <1>6
<1> HIDE DEF s, stack
<1>8. /\ \/ /\ saga'[t].at = "reset" /\ ~saga'[t].stopped
            /\ IF stack \/ s \in Defined(t)
                 THEN Run(t)' = Run(t) \cup {s} /\ Defined(t)' = Defined(t) \cup {s}
                 ELSE Run(t)' = Run(t) /\ Defined(t)' = Defined(t)
         \/ /\ Strike("start") /\ Run(t)' = Run(t) /\ Defined(t)' = Defined(t)
            /\ saga'[t].at = (IF stack THEN "broken" ELSE "reset")
            /\ saga'[t].stopped = stack
      /\ saga'[t].switched = saga[t].switched
  BY <1>2, <1>3, <1>7
<1> QED
  BY <1>1, <1>4, <1>8 DEF s, stack

LEMMA ResetEffects ==
  ASSUME TypeOK, NEW t \in Sagas
  PROVE  /\ Reset(t) =>
              /\ saga[t].at = "reset" /\ Call(t)' = Call(t) /\ Place(t)' = Place(t)
              /\ saga'[t].at = "undone" \/ (saga'[t].at = "broken" /\ Strike("db"))
         /\ Finish(t) =>
              /\ saga[t].at = "finish" /\ Call(t)' = Call(t) /\ Place(t)' = Place(t)
              /\ saga'[t].at = "moved" \/ (saga'[t].at = "unclean" /\ Strike("db"))
         /\ MoveLogs(t) =>
              /\ saga[t].at = "logs" /\ Call(t)' = Call(t) /\ Place(t)' = Place(t)
              /\ saga'[t].at = "clean" \/ (saga'[t].at = "unclean" /\ Strike("logs"))
<1>1. Reset(t) \/ Finish(t) \/ MoveLogs(t) => Place(t)' = Place(t)
  BY DEF Reset, Finish, MoveLogs, DbFails, Keep, world, Place, Record, Run, Defined, Data
<1>2. Reset(t) => /\ saga[t].at = "reset" /\ Call(t)' = Call(t)
                  /\ saga'[t].at = "undone" \/ (saga'[t].at = "broken" /\ Strike("db"))
  BY SagaFields DEF Reset, DbFails
<1>3. Finish(t) => /\ saga[t].at = "finish" /\ Call(t)' = Call(t)
                   /\ saga'[t].at = "moved" \/ (saga'[t].at = "unclean" /\ Strike("db"))
  BY SagaFields DEF Finish, DbFails
<1>4. MoveLogs(t) => /\ saga[t].at = "logs" /\ Call(t)' = Call(t)
                     /\ saga'[t].at = "clean" \/ (saga'[t].at = "unclean" /\ Strike("logs"))
  BY SagaFields DEF MoveLogs
<1> QED
  BY <1>1, <1>2, <1>3, <1>4

LEMMA CleanUpEffect ==
  ASSUME TypeOK, NEW t \in Sagas, CleanUp(t)
  PROVE  /\ saga[t].at = "clean" /\ saga'[t].at = "finish" /\ Call(t)' = Call(t)
         /\ Record(t)' = Record(t)
         /\ Data(t)' = Data(t) \/ Data(t)' = Data(t) \ {Source(t)}
         /\ \/ Run(t)' = Run(t) \ {Source(t)} /\ Defined(t)' = Defined(t) \ {Source(t)}
            \/ Strike("clean") /\ Run(t)' = Run(t) /\ Defined(t)' = Defined(t)
<1>1. saga[t].at = "clean" /\ saga'[t].at = "finish" /\ Call(t)' = Call(t)
  BY SagaFields DEF CleanUp
<1>2. Record(t)' = Record(t)
  BY DEF CleanUp, Keep, Record
<1>3. Data(t)' = Data(t) \/ Data(t)' = Data(t) \ {Source(t)}
  BY PlaceFields DEF CleanUp, Data, Source
<1>4. \/ Run(t)' = Run(t) \ {Source(t)} /\ Defined(t)' = Defined(t) \ {Source(t)}
      \/ Strike("clean") /\ Run(t)' = Run(t) /\ Defined(t)' = Defined(t)
  BY PlaceFields DEF CleanUp, Run, Defined, Source
<1> QED
  BY <1>1, <1>2, <1>3, <1>4

LEMMA DriveEffect ==
  ASSUME TypeOK, NEW t \in Sagas, Drive(t)
  PROVE  /\ Call(t)' = Call(t) /\ Place(t)' = Place(t)
         /\ \/ saga[t].at = "staged" /\ saga'[t].at = "check"
            \/ saga[t].at = "healthy" /\ saga'[t].at = "logs"
            \/ /\ saga[t].at = "failed"
               /\ saga'[t].at = (IF saga[t].switched THEN "remove"
                                 ELSE IF saga[t].stopped THEN "restart" ELSE "reset")
            \/ saga[t].at = "broken" /\ saga'[t].at = "stuck"
<1>1. Place(t)' = Place(t)
  BY DEF Drive, Keep, Place, Record, Run, Defined, Data
<1> QED
  BY <1>1, SagaFields DEF Drive, Rollback

(* The steps after the first do not change what the call has read.         *)
LEMMA SameRead ==
  ASSUME TypeOK, NEW t \in Sagas, Step(t) \/ Drive(t)
  PROVE  saga'[t].source = saga[t].source /\ saga'[t].ran = saga[t].ran
<1>1. CASE Goes(t)
  BY <1>1, SagaFields DEF Goes
<1>2. CASE Stop(t) \/ Switch(t) \/ Restart(t)
  <2>1. \E v, b : \/ saga' = [saga EXCEPT ![t].at = v, ![t].stopped = b]
                  \/ saga' = [saga EXCEPT ![t].at = v, ![t].switched = b]
    BY <1>2 DEF Stop, Switch, Restart
  <2> QED
    BY <2>1, SagaFields DEF StagedTransfer
<1>3. CASE Restore(t) \/ Deploy(t)
  <2>1. ASSUME NEW v, NEW b, \/ saga' = [saga EXCEPT ![t].at = v, ![t].switched = b]
                             \/ saga' = [saga EXCEPT ![t].at = v, ![t].on = b]
        PROVE  saga'[t].source = saga[t].source /\ saga'[t].ran = saga[t].ran
    BY <2>1, SagaFields DEF StagedTransfer
  <2>2. CASE Restore(t)
    BY <1>1, <2>1, <2>2 DEF Restore, DbFails, Goes, Steps
  <2>3. CASE Deploy(t)
    BY <1>1, <2>1, <2>3 DEF Deploy, Goes, Steps
  <2> QED
    BY <1>3, <2>2, <2>3
<1>4. CASE Begin(t) \/ Copy(t) \/ Check(t) \/ Remove(t) \/ Reset(t)
  BY <1>1, <1>4 DEF Begin, Copy, Check, Remove, Reset, DbFails, Goes, Steps, Ended
<1>5. CASE MoveLogs(t) \/ CleanUp(t) \/ Finish(t) \/ Deployed(t) \/ Drive(t)
  BY <1>1, <1>5 DEF MoveLogs, CleanUp, Finish, Deployed, Drive, Rollback, DbFails, Goes, Steps, Ended
<1> QED
  BY <1>2, <1>3, <1>4, <1>5 DEF Step

(* The step of the call itself.                                            *)
LEMMA StagedSelf ==
  ASSUME TypeOK, Next, NEW t \in Sagas, Active(t) => Staged(t), Saga(t), Active(t)'
  PROVE  Staged(t)'
<1> USE DEF Staged, Source, Stateful, Before, Moved, Up, Back, Call, Place
<1>1. /\ shape' = shape /\ Stateful(t) \in BOOLEAN
      /\ saga[t].stopped \in BOOLEAN /\ saga[t].switched \in BOOLEAN
  BY Frame, TransferAssumption DEF TypeOK, Shapes
<1>2. Safe({"db"})' => Safe({"db"}) /\ ~Strike("db")
  BY SafeBefore DEF Kinds
<1>4. CASE Prepare(t, "begin")
  BY <1>1, <1>4, PrepareEffect
<1>5. ASSUME Active(t), Step(t) \/ Drive(t)
      PROVE  Staged(t)'
  <2>0. Staged(t) /\ saga'[t].source = saga[t].source
    BY <1>5, SameRead
  <2>1. CASE Begin(t)
    BY <1>1, <1>2, <2>0, <2>1, StageEffects
  <2>2. CASE Stop(t)
    BY <1>1, <1>2, <2>0, <2>2, StopEffect
  <2>3. CASE Copy(t)
    BY <1>1, <1>2, <2>0, <2>3, StageEffects
  <2>4. CASE Switch(t)
    BY <1>1, <1>2, <2>0, <2>4, SwitchEffect
  <2>5. CASE Deploy(t)
    BY <1>1, <1>2, <2>0, <2>5, DeployEffects
  <2>6. CASE Deployed(t)
    BY <1>1, <1>2, <2>0, <2>6, DeployEffects DEF Run
  <2>7. CASE Check(t)
    BY <1>1, <1>2, <2>0, <2>7, StageEffects DEF Run
  <2>8. CASE Remove(t)
    BY <1>1, <1>2, <2>0, <2>8, RemoveEffect DEF Run
  <2>9. CASE Restore(t)
    BY <1>1, <1>2, <2>0, <2>9, RestoreEffect
  <2>10. CASE Restart(t)
    BY <1>1, <1>2, <2>0, <2>10, RestartEffect
  <2>11. CASE Reset(t)
    BY <1>1, <1>2, <2>0, <2>11, ResetEffects
  <2>12. CASE MoveLogs(t)
    BY <1>1, <1>2, <2>0, <2>12, ResetEffects
  <2>13. CASE CleanUp(t)
    BY <1>1, <1>2, <2>0, <2>13, CleanUpEffect DEF Run
  <2>14. CASE Finish(t)
    BY <1>1, <1>2, <2>0, <2>14, ResetEffects DEF Active, Ended
  <2>15. CASE Drive(t)
    BY <1>1, <1>2, <2>0, <2>15, DriveEffect DEF Active, Ended
  <2> QED
    BY <1>5, <2>1, <2>2, <2>3, <2>4, <2>5, <2>6, <2>7, <2>8, <2>9, <2>10,
       <2>11, <2>12, <2>13, <2>14, <2>15 DEF Step
<1> QED
  BY <1>4, <1>5, ActiveStep DEF Saga

LEMMA StagedStep ==
  ASSUME TypeOK, OneTransfer, StagedOK, Next
  PROVE  StagedOK'
<1> SUFFICES ASSUME Safe({"overlap"})', NEW u \in Sagas, Active(u)'
             PROVE  Staged(u)'
  BY DEF StagedOK
<1>1. Safe({"overlap"}) /\ (Safe({"db"})' => Safe({"db"}))
  BY SafeBefore DEF Kinds
<1>2. ASSUME NEW t \in Sagas, Saga(t), t # u
      PROVE  Staged(u)'
  BY <1>1, <1>2, Apart DEF StagedOK, Staged, Source, Record, Stateful, Run
<1>3. ASSUME Saga(u)
      PROVE  Staged(u)'
  BY <1>1, <1>3, StagedSelf DEF StagedOK
<1>4. ASSUME Outside
      PROVE  Staged(u)'
  <2>1. /\ saga' = saga /\ shape' = shape /\ record' = record
        /\ \A x \in Services : running[x] \subseteq running'[x]
    BY <1>4 DEF TypeOK, Outside, StartBuild, EndBuild, Write, Crash, Active, Ended, Runs, Set
  <2>2. Active(u) /\ Subject[u] \in Services
    BY <2>1, TransferAssumption DEF Active
  <2> QED
    BY <1>1, <2>1, <2>2 DEF StagedOK, Staged, Source, Record, Stateful, Run
<1> QED
  BY <1>2, <1>3, <1>4 DEF Next, Saga

-----------------------------------------------------------------------------
LEMMA NoBuildStep ==
  ASSUME TypeOK, NoBuild, Next
  PROVE  NoBuild'
<1> SUFFICES ASSUME Safe({"build"})', NEW x \in Services
             PROVE  building'[x] = Nowhere
  BY DEF NoBuild
<1>1. Safe({"build"}) /\ ~Strike("build")
  BY SafeBefore DEF Kinds
<1>2. building[x] = Nowhere
  BY <1>1 DEF NoBuild
<1>3. ASSUME NEW t \in Sagas, Saga(t)
      PROVE  building' = building
  BY <1>3, Frame
<1>4. ASSUME Outside
      PROVE  building'[x] = Nowhere
  BY <1>1, <1>2, <1>4 DEF TypeOK, Outside, StartBuild, EndBuild, Write, Crash, Set
<1> QED
  BY <1>2, <1>3, <1>4 DEF Next, Saga

(* What the users and the queue change while nothing is built.             *)
LEMMA OutsideEffect ==
  ASSUME TypeOK, NoBuild, Next, Outside
  PROVE  /\ shape' = shape /\ record' = record
         /\ \A x \in Services : running[x] \subseteq running'[x] /\ present[x] \subseteq present'[x]
         /\ \/ saga' = saga
            \/ Strike("crash") /\ \A t \in Sagas : ~Active(t)'
         /\ Safe({"build"})' => running' = running /\ present' = present
<1>1. /\ shape' = shape /\ record' = record
      /\ \A x \in Services : running[x] \subseteq running'[x] /\ present[x] \subseteq present'[x]
  BY DEF TypeOK, Outside, StartBuild, EndBuild, Write, Crash, Runs, Set, world
<1>2. saga' = saga \/ (Strike("crash") /\ \A t \in Sagas : ~Active(t)')
  BY DEF TypeOK, Outside, StartBuild, EndBuild, Write, Crash, Active, Ended
<1>3. ASSUME Safe({"build"})'
      PROVE  running' = running /\ present' = present
  <2>1. Safe({"build"})
    BY <1>3, SafeBefore DEF Kinds
  <2> QED
    BY <2>1 DEF NoBuild, Outside, StartBuild, EndBuild, Write, Crash, world
<1> QED
  BY <1>1, <1>2, <1>3

(* The step of the call itself.                                            *)
LEMMA AtRecordSelf ==
  ASSUME TypeOK, Next, NEW t \in Sagas, Saga(t), Active(t) => Staged(t),
         Stateful(t), Safe(Alone)', Run(t) \subseteq {Record(t)},
         Active(t) /\ Stopped(t) => Run(t) = {}
  PROVE  /\ Run(t)' \subseteq {Record(t)'}
         /\ Active(t)' /\ Stopped(t)' => Run(t)' = {}
<1> USE DEF Staged, Source, Stateful, Before, Moved, Up, Back, Call, Place, Stopped, Down
<1>1. /\ shape' = shape /\ Stateful(t) \in BOOLEAN /\ Run(t) \subseteq Defined(t)
      /\ saga[t].stopped \in BOOLEAN /\ saga[t].switched \in BOOLEAN
  BY Frame, TransferAssumption DEF TypeOK, Shapes, Run, Defined
<1>2. ~Strike("stop") /\ ~Strike("remove")
  BY SafeBefore DEF Kinds, Safe, Alone
<1>3. CASE Prepare(t, "begin")
  BY <1>1, <1>2, <1>3, PrepareEffect DEF Active, Ended
<1>4. CASE Step(t) \/ Drive(t)
  <2>0. /\ Active(t) /\ Staged(t)
        /\ saga'[t].source = saga[t].source /\ saga'[t].ran = saga[t].ran
    BY <1>4, ActiveStep, SameRead
  <2>1. CASE Begin(t)
    BY <1>1, <1>2, <2>0, <2>1, StageEffects DEF Active, Ended
  <2>2. CASE Stop(t)
    BY <1>1, <1>2, <2>0, <2>2, StopEffect DEF Active, Ended
  <2>3. CASE Copy(t)
    BY <1>1, <1>2, <2>0, <2>3, StageEffects DEF Active, Ended
  <2>4. CASE Switch(t)
    BY <1>1, <1>2, <2>0, <2>4, SwitchEffect DEF Active, Ended
  <2>5. CASE Deploy(t)
    BY <1>1, <1>2, <2>0, <2>5, DeployEffects DEF Active, Ended
  <2>6. CASE Deployed(t)
    BY <1>1, <1>2, <2>0, <2>6, DeployEffects DEF Active, Ended
  <2>7. CASE Check(t)
    BY <1>1, <1>2, <2>0, <2>7, StageEffects DEF Active, Ended
  <2>8. CASE Remove(t)
    BY <1>1, <1>2, <2>0, <2>8, RemoveEffect DEF Active, Ended
  <2>9. CASE Restore(t)
    BY <1>1, <1>2, <2>0, <2>9, RestoreEffect DEF Active, Ended
  <2>10. CASE Restart(t)
    BY <1>1, <1>2, <2>0, <2>10, RestartEffect DEF Active, Ended
  <2>11. CASE Reset(t)
    BY <1>1, <1>2, <2>0, <2>11, ResetEffects DEF Active, Ended
  <2>12. CASE MoveLogs(t)
    BY <1>1, <1>2, <2>0, <2>12, ResetEffects DEF Active, Ended
  <2>13. CASE CleanUp(t)
    BY <1>1, <1>2, <2>0, <2>13, CleanUpEffect DEF Active, Ended
  <2>14. CASE Finish(t)
    BY <1>1, <1>2, <2>0, <2>14, ResetEffects DEF Active, Ended
  <2>15. CASE Drive(t)
    BY <1>1, <1>2, <2>0, <2>15, DriveEffect DEF Active, Ended
  <2> QED
    BY <1>4, <2>1, <2>2, <2>3, <2>4, <2>5, <2>6, <2>7, <2>8,
       <2>9, <2>10, <2>11, <2>12, <2>13, <2>14, <2>15 DEF Step
<1> QED
  BY <1>3, <1>4 DEF Saga

LEMMA AtRecordStep ==
  ASSUME TypeOK, OneTransfer, StagedOK, NoBuild, RunsAtRecord, StoppedOK, Next
  PROVE  RunsAtRecord' /\ StoppedOK'
<1> SUFFICES ASSUME Safe(Alone)'
             PROVE  /\ \A x \in Services : shape'[x].stateful => running'[x] \subseteq {record'[x]}
                    /\ \A u \in Sagas : Active(u)' /\ Stateful(u)' /\ Stopped(u)' => Run(u)' = {}
  BY DEF RunsAtRecord, StoppedOK
<1>1. Safe(Alone) /\ Safe({"overlap"})' /\ Safe({"overlap"}) /\ Safe({"build"})'
  BY SafeBefore DEF Kinds, Alone, Safe
<1>2. ASSUME NEW t \in Sagas, Saga(t)
      PROVE  /\ \A x \in Services : shape'[x].stateful => running'[x] \subseteq {record'[x]}
             /\ \A u \in Sagas : Active(u)' /\ Stateful(u)' /\ Stopped(u)' => Run(u)' = {}
  <2>1. Subject[t] \in Services /\ shape' = shape
    BY <1>2, Frame, TransferAssumption
  <2>2. Stateful(t) => /\ Run(t)' \subseteq {Record(t)'}
                       /\ Active(t)' /\ Stopped(t)' => Run(t)' = {}
    BY <1>1, <1>2, <2>1, AtRecordSelf
       DEF RunsAtRecord, StoppedOK, StagedOK, Stateful, Run, Record
  <2>3. \A x \in Services : shape'[x].stateful => running'[x] \subseteq {record'[x]}
    BY <1>1, <1>2, <2>1, <2>2, Frame DEF RunsAtRecord, Stateful, Run, Record
  <2>4. ASSUME NEW u \in Sagas, u # t, Active(u)', Stateful(u)', Stopped(u)'
        PROVE  Run(u)' = {}
    BY <1>1, <1>2, <2>1, <2>4, Apart DEF StoppedOK, Stateful, Stopped, Run, Record
  <2> QED
    BY <2>1, <2>2, <2>3, <2>4 DEF Stateful
<1>3. ASSUME Outside
      PROVE  /\ \A x \in Services : shape'[x].stateful => running'[x] \subseteq {record'[x]}
             /\ \A u \in Sagas : Active(u)' /\ Stateful(u)' /\ Stopped(u)' => Run(u)' = {}
  BY <1>1, <1>3, OutsideEffect DEF RunsAtRecord, StoppedOK, Stateful, Stopped, Run, Record, Active
<1> QED
  BY <1>2, <1>3 DEF Next, Saga

LEMMA DataSelf ==
  ASSUME TypeOK, Next, NEW t \in Sagas, Saga(t), Active(t) => Staged(t),
         Stateful(t), Safe(WithData)', Run(t) \subseteq {Record(t)},
         Active(t) /\ Stopped(t) => Run(t) = {}, Record(t) \in Data(t), Active(t) => Complete(t)
  PROVE  Record(t)' \in Data(t)' /\ (Active(t)' => Complete(t)')
<1> USE DEF Staged, Source, Stateful, Before, Moved, Up, Back, Call, Place, Stopped, Down, Complete
<1>1. /\ shape' = shape /\ Stateful(t) \in BOOLEAN /\ Run(t) \subseteq Defined(t)
      /\ saga[t].stopped \in BOOLEAN /\ saga[t].switched \in BOOLEAN
  BY Frame, TransferAssumption DEF TypeOK, Shapes, Run, Defined
<1>2. ~Strike("stop") /\ ~Strike("remove") /\ ~Strike("partial") /\ ~Strike("health")
  BY SafeBefore DEF Kinds, Safe, Alone, WithData
<1>3. CASE Prepare(t, "begin")
  BY <1>1, <1>2, <1>3, PrepareEffect DEF Active, Ended
<1>4. CASE Step(t) \/ Drive(t)
  <2>0. /\ Active(t) /\ Staged(t)
        /\ saga'[t].source = saga[t].source /\ saga'[t].ran = saga[t].ran
    BY <1>4, ActiveStep, SameRead
  <2>1. CASE Begin(t)
    BY <1>1, <1>2, <2>0, <2>1, StageEffects DEF Active, Ended
  <2>2. CASE Stop(t)
    BY <1>1, <1>2, <2>0, <2>2, StopEffect DEF Active, Ended
  <2>3. CASE Copy(t)
    <3>1. /\ Record(t) = Source(t) /\ ~saga[t].switched /\ Source(t) # Target[t]
          /\ Record(t) \in Data(t)
      BY <2>0, <2>3, StageEffects
    <3>2. /\ Record(t)' = Record(t) /\ ~saga'[t].switched /\ Source(t)' = Source(t)
          /\ Source(t) \in Data(t)'
          /\ saga'[t].at = "switch" => Target[t] \in Data(t)'
      BY <2>0, <2>3, <3>1, StageEffects
    <3> QED
      BY <3>1, <3>2
  <2>4. CASE Switch(t)
    BY <1>1, <1>2, <2>0, <2>4, SwitchEffect DEF Active, Ended
  <2>5. CASE Deploy(t)
    BY <1>1, <1>2, <2>0, <2>5, DeployEffects DEF Active, Ended
  <2>6. CASE Deployed(t)
    BY <1>1, <1>2, <2>0, <2>6, DeployEffects DEF Active, Ended
  <2>7. CASE Check(t)
    BY <1>1, <1>2, <2>0, <2>7, StageEffects DEF Active, Ended
  <2>8. CASE Remove(t)
    BY <1>1, <1>2, <2>0, <2>8, RemoveEffect DEF Active, Ended
  <2>9. CASE Restore(t)
    BY <1>1, <1>2, <2>0, <2>9, RestoreEffect DEF Active, Ended
  <2>10. CASE Restart(t)
    BY <1>1, <1>2, <2>0, <2>10, RestartEffect DEF Active, Ended
  <2>11. CASE Reset(t)
    BY <1>1, <1>2, <2>0, <2>11, ResetEffects DEF Active, Ended
  <2>12. CASE MoveLogs(t)
    BY <1>1, <1>2, <2>0, <2>12, ResetEffects DEF Active, Ended
  <2>13. CASE CleanUp(t)
    BY <1>1, <1>2, <2>0, <2>13, CleanUpEffect DEF Active, Ended
  <2>14. CASE Finish(t)
    BY <1>1, <1>2, <2>0, <2>14, ResetEffects DEF Active, Ended
  <2>15. CASE Drive(t)
    BY <1>1, <1>2, <2>0, <2>15, DriveEffect DEF Active, Ended
  <2> QED
    BY <1>4, <2>1, <2>2, <2>3, <2>4, <2>5, <2>6, <2>7, <2>8,
       <2>9, <2>10, <2>11, <2>12, <2>13, <2>14, <2>15 DEF Step
<1> QED
  BY <1>3, <1>4 DEF Saga

LEMMA DataStep ==
  ASSUME TypeOK, OneTransfer, StagedOK, NoBuild, RunsAtRecord, StoppedOK, DataOK, Next
  PROVE  DataOK'
<1> DEFINE Goal == /\ \A x \in Services : shape'[x].stateful => record'[x] \in fresh'[x]
                   /\ \A u \in Sagas : Active(u)' /\ Stateful(u)' => Complete(u)'
<1> SUFFICES ASSUME Safe(WithData)'
             PROVE  Goal
  BY DEF DataOK
<1>1. /\ Safe(WithData) /\ Safe(Alone) /\ Safe({"overlap"})' /\ Safe({"overlap"})
      /\ Safe({"build"})'
  BY SafeBefore DEF Kinds, WithData, Alone, Safe
<1>2. ASSUME NEW t \in Sagas, Saga(t)
      PROVE  Goal
  <2>1. Subject[t] \in Services /\ shape' = shape
    BY <1>2, Frame, TransferAssumption
  <2>2. Stateful(t) => Record(t)' \in Data(t)' /\ (Active(t)' => Complete(t)')
    BY <1>1, <1>2, <2>1, DataSelf
       DEF RunsAtRecord, StoppedOK, DataOK, StagedOK, Stateful, Run, Record, Data
  <2>3. \A x \in Services : shape'[x].stateful => record'[x] \in fresh'[x]
    BY <1>1, <1>2, <2>1, <2>2, Frame DEF DataOK, Stateful, Data, Record
  <2>4. ASSUME NEW u \in Sagas, u # t, Active(u)', Stateful(u)'
        PROVE  Complete(u)'
    BY <1>1, <1>2, <2>1, <2>4, Apart DEF DataOK, Stateful, Complete, Run, Data, Source
  <2> QED
    BY <2>1, <2>2, <2>3, <2>4 DEF Stateful
<1>3. ASSUME NEW x \in Services, Write(x)
      PROVE  Goal
  <2>1. PICK s \in running[x] : fresh' = Set(fresh, x, fresh[x] \cap {s})
    BY <1>3 DEF Write
  <2>2. /\ shape[x].stateful /\ UNCHANGED <<shape, record, running, saga>>
        /\ s = record[x] /\ record[x] \in fresh[x]
    BY <1>1, <1>3, <2>1 DEF Write, RunsAtRecord, DataOK
  <2>3. fresh'[x] = {record[x]} /\ \A y \in Services : y # x => fresh'[y] = fresh[y]
    BY <2>1, <2>2 DEF TypeOK, Set
  <2>4. ASSUME NEW u \in Sagas, Active(u), Stateful(u), Subject[u] = x
        PROVE  /\ saga[u].at # "switch"
               /\ saga[u].at \notin Up \cup {"broken"} => Source(u) = record[x]
    <3>1. Run(u) # {}
      BY <2>1, <2>4 DEF Run
    <3>2. Staged(u) /\ Complete(u) /\ ~Stopped(u)
      BY <1>1, <2>4, <3>1 DEF StagedOK, StoppedOK, DataOK
    <3> QED
      BY <2>4, <3>1, <3>2 DEF TypeOK, Staged, Complete, Stopped, Down, Before, Moved, Back, Up, Record,
                              Active, Ended, Steps
  <2>5. ASSUME NEW u \in Sagas, Active(u), Stateful(u)
        PROVE  Complete(u)'
    <3>1. Complete(u) /\ Subject[u] \in Services
      BY <1>1, <2>5, TransferAssumption DEF DataOK
    <3> QED
      BY <2>2, <2>3, <2>4, <2>5, <3>1 DEF Complete, Data, Run, Source
  <2> QED
    BY <1>1, <2>2, <2>3, <2>5 DEF DataOK, Active, Stateful
<1>4. ASSUME Crash \/ \E x \in Services : StartBuild(x) \/ EndBuild(x)
      PROVE  Goal
  <2>1. Outside /\ fresh' = fresh
    BY <1>4 DEF Outside, Crash, StartBuild, EndBuild, world
  <2> QED
    BY <1>1, <2>1, OutsideEffect
       DEF DataOK, Stateful, Complete, Source, Run, Data, Record, Active
<1> QED
  BY <1>2, <1>3, <1>4 DEF Next, Saga, Outside

-----------------------------------------------------------------------------
LEMMA ServesSelf ==
  ASSUME TypeOK, Next, NEW t \in Sagas, Saga(t), Active(t) => Staged(t),
         ~Stateful(t), Safe({"db", "overlap"})', Active(t) => Serves(t)
  PROVE  Active(t)' => Serves(t)'
<1> USE DEF Staged, Source, Stateful, Before, Moved, Up, Back, Call, Place, Serves
<1>1. /\ shape' = shape /\ Stateful(t) \in BOOLEAN /\ Run(t) \subseteq Defined(t)
      /\ saga[t].stopped \in BOOLEAN /\ saga[t].switched \in BOOLEAN
  BY Frame, TransferAssumption DEF TypeOK, Shapes, Run, Defined
<1>2. ~Strike("db") /\ Safe({"db"})
  BY SafeBefore DEF Kinds, Safe
<1>3. CASE Prepare(t, "begin")
  BY <1>1, <1>2, <1>3, PrepareEffect DEF Active, Ended
<1>4. CASE Step(t) \/ Drive(t)
  <2>0. /\ Active(t) /\ Staged(t)
        /\ saga'[t].source = saga[t].source /\ saga'[t].ran = saga[t].ran
    BY <1>4, ActiveStep, SameRead
  <2>1. CASE Begin(t)
    BY <1>1, <1>2, <2>0, <2>1, StageEffects DEF Active, Ended
  <2>2. CASE Stop(t)
    BY <1>1, <1>2, <2>0, <2>2, StopEffect DEF Active, Ended
  <2>3. CASE Copy(t)
    BY <1>1, <1>2, <2>0, <2>3, StageEffects DEF Active, Ended
  <2>4. CASE Switch(t)
    BY <1>1, <1>2, <2>0, <2>4, SwitchEffect DEF Active, Ended
  <2>5. CASE Deploy(t)
    BY <1>1, <1>2, <2>0, <2>5, DeployEffects DEF Active, Ended
  <2>6. CASE Deployed(t)
    BY <1>1, <1>2, <2>0, <2>6, DeployEffects DEF Active, Ended
  <2>7. CASE Check(t)
    BY <1>1, <1>2, <2>0, <2>7, StageEffects DEF Active, Ended
  <2>8. CASE Remove(t)
    BY <1>1, <1>2, <2>0, <2>8, RemoveEffect DEF Active, Ended
  <2>9. CASE Restore(t)
    BY <1>1, <1>2, <2>0, <2>9, RestoreEffect DEF Active, Ended
  <2>10. CASE Restart(t)
    BY <1>1, <1>2, <2>0, <2>10, RestartEffect DEF Active, Ended
  <2>11. CASE Reset(t)
    BY <1>1, <1>2, <2>0, <2>11, ResetEffects DEF Active, Ended
  <2>12. CASE MoveLogs(t)
    BY <1>1, <1>2, <2>0, <2>12, ResetEffects DEF Active, Ended
  <2>13. CASE CleanUp(t)
    BY <1>1, <1>2, <2>0, <2>13, CleanUpEffect DEF Active, Ended
  <2>14. CASE Finish(t)
    BY <1>1, <1>2, <2>0, <2>14, ResetEffects DEF Active, Ended
  <2>15. CASE Drive(t)
    BY <1>1, <1>2, <2>0, <2>15, DriveEffect DEF Active, Ended
  <2> QED
    BY <1>4, <2>1, <2>2, <2>3, <2>4, <2>5, <2>6, <2>7, <2>8,
       <2>9, <2>10, <2>11, <2>12, <2>13, <2>14, <2>15 DEF Step
<1> QED
  BY <1>3, <1>4 DEF Saga

LEMMA ServesStep ==
  ASSUME TypeOK, OneTransfer, StagedOK, NoBuild, ServedOK, Next
  PROVE  ServedOK'
<1> SUFFICES ASSUME Safe({"db", "overlap"})', NEW u \in Sagas, Active(u)', ~Stateful(u)'
             PROVE  Serves(u)'
  BY DEF ServedOK
<1>1. Safe({"db", "overlap"}) /\ Safe({"overlap"})' /\ Safe({"overlap"})
  BY SafeBefore DEF Kinds, Safe
<1>2. ASSUME NEW t \in Sagas, Saga(t), t # u
      PROVE  Serves(u)'
  BY <1>1, <1>2, Apart DEF ServedOK, Serves, Stateful, Run, Source
<1>3. ASSUME Saga(u)
      PROVE  Serves(u)'
  <2>1. shape' = shape
    BY <1>3, Frame
  <2> QED
    BY <1>1, <1>3, <2>1, ServesSelf DEF ServedOK, StagedOK, Stateful
<1>4. ASSUME Outside
      PROVE  Serves(u)'
  BY <1>1, <1>4, OutsideEffect, TransferAssumption DEF ServedOK, Serves, Stateful, Run, Source, Active
<1> QED
  BY <1>2, <1>3, <1>4 DEF Next, Saga

-----------------------------------------------------------------------------
LEMMA UndoableSelf ==
  ASSUME TypeOK, Next, NEW t \in Sagas, Saga(t), Active(t) => Staged(t),
         Safe({"db", "overlap", "build"})', Active(t) => Undoable(t),
         Active(t) /\ ~Stateful(t) => Serves(t)
  PROVE  Active(t)' => Undoable(t)'
<1> USE DEF Staged, Source, Stateful, Before, Moved, Up, Back, Call, Place, Serves, Undoable, Compose
<1>1. /\ shape' = shape /\ Stateful(t) \in BOOLEAN /\ Run(t) \subseteq Defined(t)
      /\ saga[t].stopped \in BOOLEAN /\ saga[t].switched \in BOOLEAN
  BY Frame, TransferAssumption DEF TypeOK, Shapes, Run, Defined
<1>2. /\ ~Strike("db") /\ Safe({"db"})
      /\ Safe({"start"})' => Safe({"start"}) /\ ~Strike("start")
      /\ Safe({"remove"})' => Safe({"remove"}) /\ ~Strike("remove")
  BY SafeBefore DEF Kinds, Safe
<1>3. CASE Prepare(t, "begin")
  BY <1>1, <1>2, <1>3, PrepareEffect DEF Active, Ended
<1>4. CASE Step(t) \/ Drive(t)
  <2>0. /\ Active(t) /\ Staged(t)
        /\ saga'[t].source = saga[t].source /\ saga'[t].ran = saga[t].ran
    BY <1>4, ActiveStep, SameRead
  <2>1. CASE Begin(t)
    BY <1>1, <1>2, <2>0, <2>1, StageEffects DEF Active, Ended
  <2>2. CASE Stop(t)
    BY <1>1, <1>2, <2>0, <2>2, StopEffect DEF Active, Ended
  <2>3. CASE Copy(t)
    BY <1>1, <1>2, <2>0, <2>3, StageEffects DEF Active, Ended
  <2>4. CASE Switch(t)
    BY <1>1, <1>2, <2>0, <2>4, SwitchEffect DEF Active, Ended
  <2>5. CASE Deploy(t)
    BY <1>1, <1>2, <2>0, <2>5, DeployEffects DEF Active, Ended
  <2>6. CASE Deployed(t)
    BY <1>1, <1>2, <2>0, <2>6, DeployEffects DEF Active, Ended
  <2>7. CASE Check(t)
    BY <1>1, <1>2, <2>0, <2>7, StageEffects DEF Active, Ended
  <2>8. CASE Remove(t)
    BY <1>1, <1>2, <2>0, <2>8, RemoveEffect DEF Active, Ended
  <2>9. CASE Restore(t)
    BY <1>1, <1>2, <2>0, <2>9, RestoreEffect DEF Active, Ended
  <2>10. CASE Restart(t)
    BY <1>1, <1>2, <2>0, <2>10, RestartEffect DEF Active, Ended
  <2>11. CASE Reset(t)
    BY <1>1, <1>2, <2>0, <2>11, ResetEffects DEF Active, Ended
  <2>12. CASE MoveLogs(t)
    BY <1>1, <1>2, <2>0, <2>12, ResetEffects DEF Active, Ended
  <2>13. CASE CleanUp(t)
    BY <1>1, <1>2, <2>0, <2>13, CleanUpEffect DEF Active, Ended
  <2>14. CASE Finish(t)
    BY <1>1, <1>2, <2>0, <2>14, ResetEffects DEF Active, Ended
  <2>15. CASE Drive(t)
    BY <1>1, <1>2, <2>0, <2>15, DriveEffect DEF Active, Ended
  <2> QED
    BY <1>4, <2>1, <2>2, <2>3, <2>4, <2>5, <2>6, <2>7, <2>8,
       <2>9, <2>10, <2>11, <2>12, <2>13, <2>14, <2>15 DEF Step
<1> QED
  BY <1>3, <1>4 DEF Saga

LEMMA UndoingStep ==
  ASSUME TypeOK, OneTransfer, StagedOK, NoBuild, ServedOK, UndoingOK, Next
  PROVE  UndoingOK'
<1> SUFFICES ASSUME Safe({"db", "overlap", "build"})', NEW u \in Sagas, Active(u)'
             PROVE  Undoable(u)'
  BY DEF UndoingOK
<1>1. /\ Safe({"db", "overlap", "build"}) /\ Safe({"db", "overlap"}) /\ Safe({"overlap"})'
      /\ Safe({"overlap"}) /\ Safe({"build"})'
      /\ Safe({"start"})' => Safe({"start"})
      /\ Safe({"remove"})' => Safe({"remove"})
  BY SafeBefore DEF Kinds, Safe
<1>2. ASSUME NEW t \in Sagas, Saga(t), t # u
      PROVE  Undoable(u)'
  <2>1. Undoable(u)
    BY <1>1, <1>2, Apart DEF UndoingOK
  <2> QED
    BY <1>1, <1>2, <2>1, Apart DEF Undoable, Run, Defined, Source
<1>3. ASSUME Saga(u)
      PROVE  Undoable(u)'
  BY <1>1, <1>3, UndoableSelf DEF ServedOK, StagedOK, UndoingOK
<1>4. ASSUME Outside
      PROVE  Undoable(u)'
  <2>1. Active(u) /\ Undoable(u)
    BY <1>1, <1>4, OutsideEffect DEF UndoingOK, Active
  <2> QED
    BY <1>1, <1>4, <2>1, OutsideEffect DEF Undoable, Run, Defined, Source
<1> QED
  BY <1>2, <1>3, <1>4 DEF Next, Saga

-----------------------------------------------------------------------------
LEMMA ConfinedSelf ==
  ASSUME TypeOK, Next, NEW t \in Sagas, Saga(t), Active(t) => Staged(t),
         Safe(Tidy)', Active(t) => Confined(t), ~Active(t) => Run(t) \subseteq {Record(t)}
  PROVE  IF Active(t)' THEN Confined(t)' ELSE Run(t)' \subseteq {Record(t)'}
<1> USE DEF Staged, Source, Stateful, Before, Moved, Up, Back, Call, Place, Confined, Compose
<1>1. /\ shape' = shape /\ Stateful(t) \in BOOLEAN /\ Run(t) \subseteq Defined(t)
      /\ saga[t].stopped \in BOOLEAN /\ saga[t].switched \in BOOLEAN
  BY Frame, TransferAssumption DEF TypeOK, Shapes, Run, Defined
<1>2. /\ ~Strike("db") /\ Safe({"db"}) /\ ~Strike("clean")
      /\ ~Strike("logs") /\ ~Strike("remove")
  BY SafeBefore DEF Kinds, Safe, Tidy
<1>3. CASE Prepare(t, "begin")
  BY <1>1, <1>2, <1>3, PrepareEffect DEF Active, Ended
<1>4. CASE Step(t) \/ Drive(t)
  <2>0. /\ Active(t) /\ Staged(t)
        /\ saga'[t].source = saga[t].source /\ saga'[t].ran = saga[t].ran
    BY <1>4, ActiveStep, SameRead
  <2>1. CASE Begin(t)
    BY <1>1, <1>2, <2>0, <2>1, StageEffects DEF Active, Ended
  <2>2. CASE Stop(t)
    BY <1>1, <1>2, <2>0, <2>2, StopEffect DEF Active, Ended
  <2>3. CASE Copy(t)
    BY <1>1, <1>2, <2>0, <2>3, StageEffects DEF Active, Ended
  <2>4. CASE Switch(t)
    BY <1>1, <1>2, <2>0, <2>4, SwitchEffect DEF Active, Ended
  <2>5. CASE Deploy(t)
    BY <1>1, <1>2, <2>0, <2>5, DeployEffects DEF Active, Ended
  <2>6. CASE Deployed(t)
    BY <1>1, <1>2, <2>0, <2>6, DeployEffects DEF Active, Ended
  <2>7. CASE Check(t)
    BY <1>1, <1>2, <2>0, <2>7, StageEffects DEF Active, Ended
  <2>8. CASE Remove(t)
    BY <1>1, <1>2, <2>0, <2>8, RemoveEffect DEF Active, Ended
  <2>9. CASE Restore(t)
    BY <1>1, <1>2, <2>0, <2>9, RestoreEffect DEF Active, Ended
  <2>10. CASE Restart(t)
    BY <1>1, <1>2, <2>0, <2>10, RestartEffect DEF Active, Ended
  <2>11. CASE Reset(t)
    BY <1>1, <1>2, <2>0, <2>11, ResetEffects DEF Active, Ended
  <2>12. CASE MoveLogs(t)
    BY <1>1, <1>2, <2>0, <2>12, ResetEffects DEF Active, Ended
  <2>13. CASE CleanUp(t)
    BY <1>1, <1>2, <2>0, <2>13, CleanUpEffect DEF Active, Ended
  <2>14. CASE Finish(t)
    BY <1>1, <1>2, <2>0, <2>14, ResetEffects DEF Active, Ended
  <2>15. CASE Drive(t)
    BY <1>1, <1>2, <2>0, <2>15, DriveEffect DEF Active, Ended
  <2> QED
    BY <1>4, <2>1, <2>2, <2>3, <2>4, <2>5, <2>6, <2>7, <2>8,
       <2>9, <2>10, <2>11, <2>12, <2>13, <2>14, <2>15 DEF Step
<1> QED
  BY <1>3, <1>4 DEF Saga

LEMMA LeftoverStep ==
  ASSUME TypeOK, OneTransfer, StagedOK, NoBuild, NoLeftover, Next
  PROVE  NoLeftover'
<1> DEFINE Idle(x) == \A u \in Sagas : Subject[u] = x => ~Active(u)
           Goal == /\ \A x \in Services : Idle(x)' => running'[x] \subseteq {record'[x]}
                   /\ \A u \in Sagas : Active(u)' => Confined(u)'
<1> SUFFICES ASSUME Safe(Tidy)'
             PROVE  Goal
  BY DEF NoLeftover
<1>1. /\ Safe(Tidy) /\ Safe({"overlap"})' /\ Safe({"overlap"}) /\ Safe({"build"})'
      /\ ~Strike("overlap") /\ ~Strike("crash")
  BY SafeBefore DEF Kinds, Tidy, Safe
<1>2. ASSUME NEW t \in Sagas, Saga(t)
      PROVE  Goal
  <2>1. Subject[t] \in Services /\ shape' = shape
    BY <1>2, Frame, TransferAssumption
  <2>2. ~Active(t) => Idle(Subject[t])
    BY <1>1, <1>2, ActiveStep DEF Saga, Prepare
  <2>3. /\ Active(t) => Staged(t) /\ Confined(t)
        /\ ~Active(t) => Run(t) \subseteq {Record(t)}
    BY <1>1, <2>1, <2>2 DEF StagedOK, NoLeftover, Run, Record
  <2>4. IF Active(t)' THEN Confined(t)' ELSE Run(t)' \subseteq {Record(t)'}
    BY <1>2, <2>3, ConfinedSelf
  <2>5. ASSUME NEW u \in Sagas, u # t, Active(u)'
        PROVE  Confined(u)'
    <3>1. Confined(u)
      BY <1>1, <1>2, <2>5, Apart DEF NoLeftover
    <3> QED
      BY <1>1, <1>2, <2>5, <3>1, Apart DEF Confined, Run, Source
  <2>6. ASSUME NEW x \in Services, Idle(x)'
        PROVE  running'[x] \subseteq {record'[x]}
    <3>1. CASE x = Subject[t]
      BY <2>4, <2>6, <3>1 DEF Run, Record
    <3>2. CASE x # Subject[t]
      <4>1. Idle(x)
        BY <1>2, <2>6, <3>2, Frame DEF Active
      <4> QED
        BY <1>1, <1>2, <3>2, <4>1, Frame DEF NoLeftover
    <3> QED
      BY <3>1, <3>2
  <2> QED
    BY <2>4, <2>5, <2>6
<1>3. ASSUME Outside
      PROVE  Goal
  BY <1>1, <1>3, OutsideEffect DEF NoLeftover, Confined, Run, Source, Active
<1> QED
  BY <1>2, <1>3 DEF Next, Saga

-----------------------------------------------------------------------------
(* The saga, the record and the machines agree, step by step, unless a     *)
(* fault that each conjunct names has struck (transfer.ts).                *)
THEOREM Invariance == Spec => []IInv
<1>1. Init => IInv
  <2> SUFFICES ASSUME Init
               PROVE  IInv
    OBVIOUS
  <2>1. TypeOK
    <3>1. saga \in [Sagas -> StagedTransfer]
      BY TransferAssumption DEF Init, NoSaga, StagedTransfer, Steps, Statuses
    <3>2. \A x \in Services : running[x] \in {{}, {Home}} /\ present[x] \in {{}, {Home}}
      BY DEF Init
    <3>3. /\ running \in [Services -> SUBSET Servers] /\ present \in [Services -> SUBSET Servers]
          /\ \A x \in Services : running[x] \subseteq present[x]
      BY <3>2, TransferAssumption DEF Init
    <3> QED
      BY <3>1, <3>3, TransferAssumption DEF Init, TypeOK, StagedTransfer, Statuses
  <2>2. \A t \in Sagas : ~Active(t)
    BY DEF Init, Active, NoSaga
  <2>3. \A x \in Services : /\ record[x] = Home /\ fresh[x] = {Home} /\ running[x] \subseteq {Home}
                            /\ building[x] = Nowhere
    BY DEF Init
  <2> QED
    BY <2>1, <2>2, <2>3
       DEF IInv, OneTransfer, StagedOK, NoBuild, RunsAtRecord, StoppedOK, DataOK, ServedOK,
           UndoingOK, NoLeftover
<1>2. IInv /\ [Next]_vars => IInv'
  <2>1. ASSUME IInv, Next
        PROVE  IInv'
    BY <2>1, TypeStep, OneTransferStep, StagedStep, NoBuildStep, AtRecordStep, DataStep, ServesStep,
       UndoingStep, LeftoverStep DEF IInv
  <2>2. ASSUME IInv, UNCHANGED vars
        PROVE  IInv'
    <3>1. UNCHANGED <<shape, record, status, present, running, fresh, saga, building, struck>>
      BY <2>2 DEF vars, world
    <3> QED
      BY <2>2, <3>1
         DEF IInv, TypeOK, OneTransfer, StagedOK, NoBuild, RunsAtRecord, StoppedOK, DataOK, ServedOK,
             UndoingOK, NoLeftover, Staged, Stopped, Complete, Serves, Undoable, Confined, Active,
             Source, Record, Run, Defined, Data, Stateful, Safe
  <2> QED
    BY <2>1, <2>2
<1> QED
  BY <1>1, <1>2, PTL DEF Spec

(* The variables keep their types, and what runs is defined.               *)
THEOREM TypeCorrect == Spec => []TypeOK
<1>1. IInv => TypeOK
  BY DEF IInv
<1> QED
  BY <1>1, Invariance, PTL

(* A service with data never runs on two servers: it runs where its record *)
(* is, if anywhere (transfer.ts, stageTransfer, rollbackTransfer).         *)
THEOREM RunsOnce == Spec => []StatefulRunsOnce
<1>1. IInv => StatefulRunsOnce
  <2> SUFFICES ASSUME IInv, Safe(Alone), NEW x \in Services, shape[x].stateful
               PROVE  Cardinality(running[x]) <= 1
    BY DEF StatefulRunsOnce, Alone
  <2>1. running[x] \subseteq {record[x]}
    BY DEF IInv, RunsAtRecord
  <2>2. running[x] = {} \/ running[x] = {record[x]}
    BY <2>1
  <2>3. Cardinality({}) = 0 /\ Cardinality({record[x]}) = 1
    BY FS_EmptySet, FS_Singleton
  <2>4. CASE running[x] = {}
    BY <2>3, <2>4
  <2>5. CASE running[x] = {record[x]}
    BY <2>3, <2>5
  <2> QED
    BY <2>2, <2>4, <2>5
<1> QED
  BY <1>1, Invariance, PTL

(* It runs on complete data, and a complete copy survives every failure    *)
(* (transfer.ts, stageTransfer: copied while it is stopped; commitTransfer:*)
(* the source goes last).                                                  *)
THEOREM DataSurvives == Spec => []NoWriteLost
<1>1. IInv => NoWriteLost
  <2> SUFFICES ASSUME IInv, Safe(WithData), NEW x \in Services, shape[x].stateful
               PROVE  fresh[x] # {} /\ running[x] \subseteq fresh[x]
    BY DEF NoWriteLost, WithData, Alone
  <2>1. Safe(Alone)
    BY DEF Safe, WithData
  <2> QED
    BY <2>1 DEF IInv, RunsAtRecord, DataOK
<1> QED
  BY <1>1, Invariance, PTL

(* A service without data that ran at the source runs there until the old  *)
(* copy is cleaned up (transfer.ts, stageTransfer, commitTransfer).        *)
THEOREM SourceKeepsServing == Spec => []SourceServes
<1>1. IInv => SourceServes
  BY DEF IInv, ServedOK, Serves, SourceServes, Source, Run, Stateful
<1> QED
  BY <1>1, Invariance, PTL

(* Which steps end a transfer well.                                        *)
LEMMA EndSteps ==
  ASSUME TypeOK, NoBuild, Next, NEW t \in Sagas, saga'[t].at # saga[t].at
  PROVE  /\ saga'[t].at = "undone" => Reset(t)
         /\ saga'[t].at = "moved" => Finish(t)
<1>1. CASE Prepare(t, "begin")
  BY <1>1, PrepareEffect DEF Prepare, TypeOK, NoSaga
<1>2. CASE Begin(t) \/ Copy(t) \/ Check(t) \/ Stop(t) \/ Switch(t) \/ Deploy(t) \/ Deployed(t)
  BY <1>2, StageEffects, StopEffect, SwitchEffect, DeployEffects
<1>3. CASE Remove(t) \/ Restore(t) \/ Restart(t) \/ MoveLogs(t) \/ CleanUp(t) \/ Drive(t)
  BY <1>3, RemoveEffect, RestoreEffect, RestartEffect, ResetEffects, CleanUpEffect, DriveEffect
<1>4. CASE Reset(t) \/ Finish(t)
  BY <1>4, ResetEffects
<1>5. ASSUME NEW u \in Sagas, u # t, Saga(u)
      PROVE  FALSE
  BY <1>5, Frame
<1>6. CASE Outside
  BY <1>6, OutsideEffect DEF Active, Ended, Outside, Crash, TypeOK, StartBuild, EndBuild, Write
<1> QED
  BY <1>1, <1>2, <1>3, <1>4, <1>5, <1>6 DEF Next, Saga, Step

(* A rollback brings the service back to where it was (transfer.ts,        *)
(* rollbackTransfer).                                                      *)
THEOREM RollbackBrings == Spec => RollbackRestores
<1> DEFINE Undone == \A t \in Sagas :
             LET x == Subject[t]
             IN  saga'[t].at = "undone" /\ saga[t].at # "undone" /\ Safe({"db", "overlap", "build"}) =>
                   /\ record'[x] = saga[t].source /\ status'[x] = saga[t].was
                   /\ saga[t].source \in saga[t].ran /\ Safe({"start"}) => saga[t].source \in running'[x]
                   /\ Target[t] \in running'[x] /\ Safe({"remove"}) => Target[t] \in saga[t].ran
<1>1. IInv /\ [Next]_vars => [Undone]_vars
  <2> SUFFICES ASSUME IInv, Next, NEW t \in Sagas, saga'[t].at = "undone", saga[t].at # "undone",
                      Safe({"db", "overlap", "build"})
               PROVE  /\ Record(t)' = Source(t) /\ status'[Subject[t]] = saga[t].was
                      /\ Source(t) \in saga[t].ran /\ Safe({"start"}) => Source(t) \in Run(t)'
                      /\ Target[t] \in Run(t)' /\ Safe({"remove"}) => Target[t] \in saga[t].ran
    BY DEF Record, Source, Run
  <2>1. TypeOK /\ Reset(t)
    BY EndSteps DEF IInv
  <2>2. saga[t].at = "reset" /\ Record(t)' = Record(t) /\ Run(t)' = Run(t)
    <3>1. saga[t].at = "reset" /\ Place(t)' = Place(t)
      BY <2>1, ResetEffects
    <3> QED
      BY <2>1, <3>1, SagaFields DEF Place, Reset, DbFails, Go
  <2>3. status'[Subject[t]] = saga[t].was
    <3>1. status' = Set(status, Subject[t], saga[t].was)
      BY <2>1, SagaFields DEF Reset, DbFails
    <3> QED
      BY <2>1, <3>1, TransferAssumption DEF TypeOK, Set
  <2>4. Active(t) /\ Staged(t) /\ Undoable(t)
    <3>1. Active(t) /\ Safe({"overlap"})
      BY <2>2 DEF Active, Ended, Safe
    <3> QED
      BY <3>1 DEF IInv, StagedOK, UndoingOK
  <2> QED
    BY <2>2, <2>3, <2>4 DEF Staged, Undoable, Back
<1> QED
  BY <1>1, Invariance, PTL DEF Spec, RollbackRestores

(* A commit leaves the service on its target only (transfer.ts,            *)
(* commitTransfer).                                                        *)
THEOREM CommitBrings == Spec => CommitMoves
<1> DEFINE Done == \A t \in Sagas :
             LET x == Subject[t]
             IN  saga'[t].at = "moved" /\ saga[t].at # "moved" /\ Safe({"overlap", "build", "crash"}) =>
                   /\ record'[x] = Target[t] /\ Target[t] \in running'[x]
                   /\ Safe({"clean", "logs", "db", "remove"}) => running'[x] = {Target[t]}
<1>1. IInv /\ [Next]_vars => [Done]_vars
  <2> SUFFICES ASSUME IInv, Next, NEW t \in Sagas, saga'[t].at = "moved", saga[t].at # "moved",
                      Safe({"overlap", "build", "crash"})
               PROVE  /\ Record(t)' = Target[t] /\ Target[t] \in Run(t)'
                      /\ Safe({"clean", "logs", "db", "remove"}) => Run(t)' = {Target[t]}
    BY DEF Record, Run
  <2>1. TypeOK /\ Finish(t)
    BY EndSteps DEF IInv
  <2>2. saga[t].at = "finish" /\ Record(t)' = Record(t) /\ Run(t)' = Run(t)
    BY <2>1, ResetEffects DEF Place
  <2>3. Active(t) /\ Staged(t)
    <3>1. Active(t) /\ Safe({"overlap"})
      BY <2>2 DEF Active, Ended, Safe
    <3> QED
      BY <3>1 DEF IInv, StagedOK
  <2>4. ASSUME Safe({"clean", "logs", "db", "remove"})
        PROVE  Run(t) \subseteq {Target[t]}
    <3>1. Safe(Tidy)
      BY <2>4 DEF Safe, Tidy
    <3> QED
      BY <2>2, <2>3, <3>1 DEF IInv, NoLeftover, Confined
  <2> QED
    BY <2>2, <2>3, <2>4 DEF Staged, Moved, Up
<1> QED
  BY <1>1, Invariance, PTL DEF Spec, CommitMoves

=============================================================================
