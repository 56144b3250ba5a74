-------------------------- MODULE DeploymentsProofs --------------------------
(***************************************************************************)
(* TLAPS proofs about Deployments: once the startup is over what is shown  *)
(* as running is being executed, and without faults the status of an idle  *)
(* service is the outcome of its latest deployment.  For any services and  *)
(* deployments, any number of rows kept, and any number of crashes.        *)
(***************************************************************************)
EXTENDS Deployments, TLAPS

Early == {"new", "queued", "start", "prune", "insert"}
WithRow == {"build", "rowDone", "rowError", "statusDone", "statusError", "createError",
            "notify"}

(* A deployment has a row from its insertion on, and not before.           *)
RowsOK ==
  /\ \A a \in Attempts : at[a] \in Early => row[a] = "none"
  /\ \A a \in Attempts : at[a] \in WithRow => row[a] # "none"
  /\ \A a \in selected : row[a] # "none"

(* A running row is executed, or one that the startup will find or found.  *)
RunningIsHeld ==
  Safe({"db"}) =>
    \A a \in Attempts : row[a] = "running" =>
      \/ at[a] \in {"build", "rowDone", "rowError"}
      \/ boot = "select"
      \/ boot = "rows" /\ a \in selected

IInv == TypeOK /\ RowsOK /\ RunningIsHeld

-----------------------------------------------------------------------------
(* The rows that are in made are those that exist.                         *)
LEMMA MadeAppended ==
  ASSUME TypeOK, NEW a \in Attempts, row[a] = "none", made' = Append(made, a)
  PROVE  /\ made' \in Seq(Attempts) /\ IsInjective(made')
         /\ Range(made') = Range(made) \cup {a}
         /\ Len(made') = Len(made) + 1 /\ made'[Len(made) + 1] = a
         /\ \A i \in DOMAIN made : made'[i] = made[i]
         /\ DOMAIN made' = DOMAIN made \cup {Len(made) + 1}
<1>1. made \in Seq(Attempts) /\ IsInjective(made) /\ a \notin Range(made)
  BY DEF TypeOK
<1>2. /\ Len(made) \in Nat /\ DOMAIN made = 1..Len(made)
      /\ made' \in Seq(Attempts) /\ Len(made') = Len(made) + 1
      /\ DOMAIN made' = 1..(Len(made) + 1)
      /\ made'[Len(made) + 1] = a
      /\ \A i \in DOMAIN made : made'[i] = made[i]
  BY <1>1
<1>3. DOMAIN made' = DOMAIN made \cup {Len(made) + 1}
  BY <1>2
<1>4. Range(made') = Range(made) \cup {a}
  BY <1>2, <1>3 DEF Range
<1>5. IsInjective(made')
  BY <1>1, <1>2, <1>3 DEF IsInjective, Range
<1> QED
  BY <1>2, <1>3, <1>4, <1>5

LEMMA TypeStep ==
  ASSUME TypeOK, RowsOK, Next
  PROVE  TypeOK'
<1> USE DeploymentsAssumption DEF Rows, Statuses, Steps, Running, Kinds
<1>1. ASSUME NEW a \in Attempts, Request(a) \/ Take(a) \/ Start(a) \/ Build(a)
                                 \/ WriteStatus(a) \/ Notify(a)
      PROVE  TypeOK'
  <2>1. status' \in [Services -> Statuses] /\ at' \in [Attempts -> Steps]
    BY <1>1 DEF TypeOK, Request, Take, Start, Build, WriteStatus, Notify, Go, SetStatus
  <2>2. struck' \subseteq Kinds
    BY <1>1 DEF TypeOK, Request, Take, Start, Build, WriteStatus, Notify, Strike
  <2>3. UNCHANGED <<row, made, reloading, startup>>
    BY <1>1 DEF Request, Take, Start, Build, WriteStatus, Notify
  <2> QED
    BY <2>1, <2>2, <2>3 DEF TypeOK, startup
<1>2. ASSUME NEW a \in Attempts, Prune(a)
      PROVE  TypeOK'
  <2>1. /\ row' \in [Attempts -> Rows] /\ at' \in [Attempts -> Steps]
        /\ struck' \subseteq Kinds
    BY <1>2 DEF TypeOK, Prune, Go, Strike
  <2>2. \A b \in Attempts : row'[b] # "none" <=> row[b] # "none"
    BY <1>2 DEF TypeOK, Prune, History, Range
  <2> QED
    BY <1>2, <2>1, <2>2 DEF TypeOK, Prune, startup
<1>3. ASSUME NEW a \in Attempts, Insert(a)
      PROVE  TypeOK'
  <2>1. row[a] = "none"
    BY <1>3 DEF RowsOK, Insert, Early
  <2>2. /\ at' \in [Attempts -> Steps] /\ struck' \subseteq Kinds
        /\ UNCHANGED <<status, reloading, startup>>
    BY <1>3 DEF TypeOK, Insert, Go, Strike
  <2>3. CASE UNCHANGED <<made, row>>
    BY <2>2, <2>3 DEF TypeOK, startup
  <2>4. CASE made' = Append(made, a) /\ (SetRow(a, "running") \/ SetRow(a, "error"))
    <3>1. /\ row' \in [Attempts -> Rows] /\ row'[a] \in {"running", "error"}
          /\ \A b \in Attempts : b # a => row'[b] = row[b]
      BY <2>1, <2>4 DEF TypeOK, SetRow
    <3>2. made' \in Seq(Attempts) /\ IsInjective(made') /\ Range(made') = Range(made) \cup {a}
      BY <2>1, <2>4, MadeAppended
    <3> QED
      BY <2>2, <3>1, <3>2 DEF TypeOK, startup
  <2> QED
    BY <1>3, <2>3, <2>4 DEF Insert
<1>4. ASSUME NEW a \in Attempts, WriteRow(a)
      PROVE  TypeOK'
  <2>1. row[a] # "none"
    BY <1>4 DEF RowsOK, WriteRow, WithRow
  <2>2. /\ row' \in [Attempts -> Rows] /\ at' \in [Attempts -> Steps]
        /\ struck' \subseteq Kinds /\ \A b \in Attempts : row'[b] # "none" <=> row[b] # "none"
    BY <1>4, <2>1 DEF TypeOK, WriteRow, SetRow, Go, Strike
  <2> QED
    BY <1>4, <2>2 DEF TypeOK, WriteRow, startup
<1>5. ASSUME NEW a \in Attempts, RemoveDeployment(a)
      PROVE  TypeOK'
  BY <1>5 DEF TypeOK, RemoveDeployment, Strike, startup
<1>6. ASSUME NEW s \in Services, CleanQueues(s)
      PROVE  TypeOK'
  BY <1>6 DEF TypeOK, CleanQueues, startup
<1>7. ASSUME NEW s \in Services, StartOrStop(s) \/ Reload(s) \/ MarkRunning(s)
      PROVE  TypeOK'
  BY <1>7 DEF TypeOK, StartOrStop, Reload, MarkRunning, SetStatus, Strike, startup
<1>8. CASE Crash
  BY <1>8 DEF TypeOK, Crash, Strike
<1>9. CASE SelectRunning
  BY <1>9 DEF TypeOK, SelectRunning
<1>10. CASE CancelRows
  <2>1. \A b \in Attempts : row'[b] # "none" <=> row[b] # "none"
    BY <1>10 DEF TypeOK, RowsOK, CancelRows
  <2>2. row' \in [Attempts -> Rows] /\ selected' \subseteq Attempts /\ struck' \subseteq Kinds
    BY <1>10 DEF TypeOK, CancelRows, Strike
  <2> QED
    BY <1>10, <2>1, <2>2 DEF TypeOK, CancelRows
<1>11. CASE ResetServices
  BY <1>11 DEF TypeOK, ResetServices, Strike
<1> QED
  BY <1>1, <1>2, <1>3, <1>4, <1>5, <1>6, <1>7, <1>8, <1>9, <1>10, <1>11
     DEF Next, Deploy, Startup

(* Every step keeps the rows where they belong.                            *)
LEMMA RowsStep ==
  ASSUME TypeOK, RowsOK, Next
  PROVE  RowsOK'
<1> USE DeploymentsAssumption DEF RowsOK, Early, WithRow
<1>1. ASSUME NEW a \in Attempts, Request(a) \/ Take(a) \/ Start(a) \/ Build(a)
                                 \/ WriteStatus(a) \/ Notify(a)
      PROVE  RowsOK'
  BY <1>1 DEF TypeOK, Request, Take, Start, Build, WriteStatus, Notify, Go, startup
<1>2. ASSUME NEW a \in Attempts, Prune(a)
      PROVE  RowsOK'
  <2>1. \A b \in Attempts : row'[b] # "none" <=> row[b] # "none"
    BY <1>2 DEF TypeOK, Prune, History, Range
  <2> QED
    BY <1>2, <2>1 DEF TypeOK, Prune, Go, startup
<1>3. ASSUME NEW a \in Attempts, Insert(a)
      PROVE  RowsOK'
  BY <1>3 DEF TypeOK, Insert, Go, SetRow, startup
<1>4. ASSUME NEW a \in Attempts, WriteRow(a)
      PROVE  RowsOK'
  BY <1>4 DEF TypeOK, WriteRow, Go, SetRow, startup
<1>5. ASSUME NEW a \in Attempts, RemoveDeployment(a)
      PROVE  RowsOK'
  BY <1>5 DEF TypeOK, RemoveDeployment, startup
<1>6. ASSUME NEW s \in Services,
             CleanQueues(s) \/ StartOrStop(s) \/ Reload(s) \/ MarkRunning(s)
      PROVE  RowsOK'
  BY <1>6 DEF TypeOK, CleanQueues, StartOrStop, Reload, MarkRunning, startup
<1>7. CASE Crash
  BY <1>7 DEF TypeOK, Crash
<1>8. CASE SelectRunning \/ ResetServices
  BY <1>8 DEF TypeOK, SelectRunning, ResetServices
<1>9. CASE CancelRows
  BY <1>9 DEF TypeOK, CancelRows
<1> QED
  BY <1>1, <1>2, <1>3, <1>4, <1>5, <1>6, <1>7, <1>8, <1>9 DEF Next, Deploy, Startup

LEMMA HeldStep ==
  ASSUME TypeOK, RowsOK, RunningIsHeld, Next
  PROVE  RunningIsHeld'
<1> DEFINE Held(b) == \/ at[b] \in {"build", "rowDone", "rowError"}
                      \/ boot = "select"
                      \/ boot = "rows" /\ b \in selected
<1> SUFFICES ASSUME Safe({"db"})', NEW b \in Attempts, row'[b] = "running"
             PROVE  Held(b)'
  BY DEF RunningIsHeld, Safe
<1>1. ~ Strike("db")
  BY DEF Safe, Strike
<1>2. struck \subseteq struck'
  BY DEF Next, Request, Take, CleanQueues, Deploy, Start, Prune, Insert, Build, WriteRow,
         WriteStatus, Notify, StartOrStop, Reload, MarkRunning, RemoveDeployment, Crash,
         Startup, SelectRunning, CancelRows, ResetServices, Strike
<1>3. row[b] = "running" => Held(b)
  BY <1>2 DEF RunningIsHeld, Safe
<1>4. ASSUME NEW a \in Attempts, Request(a) \/ Take(a) \/ Start(a) \/ Build(a)
                                 \/ WriteStatus(a) \/ Notify(a)
      PROVE  Held(b)'
  BY <1>1, <1>3, <1>4 DEF TypeOK, RowsOK, Early, Request, Take, Start, Build, WriteStatus,
                          Notify, Go, startup
<1>5. ASSUME NEW a \in Attempts, Prune(a)
      PROVE  Held(b)'
  <2>1. row[b] = "running"
    BY <1>5 DEF TypeOK, Prune
  <2> QED
    BY <1>3, <1>5, <2>1 DEF TypeOK, Prune, Go, startup
<1>6. ASSUME NEW a \in Attempts, Insert(a)
      PROVE  Held(b)'
  BY <1>1, <1>3, <1>6 DEF TypeOK, Insert, Go, SetRow, startup
<1>7. ASSUME NEW a \in Attempts, WriteRow(a)
      PROVE  Held(b)'
  BY <1>1, <1>3, <1>7 DEF TypeOK, WriteRow, Go, SetRow, startup
<1>8. ASSUME NEW a \in Attempts, RemoveDeployment(a)
      PROVE  Held(b)'
  BY <1>3, <1>8 DEF TypeOK, RemoveDeployment, startup
<1>9. ASSUME NEW s \in Services,
             CleanQueues(s) \/ StartOrStop(s) \/ Reload(s) \/ MarkRunning(s)
      PROVE  Held(b)'
  BY <1>3, <1>9 DEF TypeOK, RowsOK, Early, CleanQueues, StartOrStop, Reload, MarkRunning, startup
<1>10. CASE Crash
  BY <1>10 DEF Crash
<1>11. CASE SelectRunning
  BY <1>3, <1>11 DEF SelectRunning
<1>12. CASE CancelRows
  BY <1>1, <1>3, <1>12 DEF TypeOK, CancelRows
<1>13. CASE ResetServices
  BY <1>3, <1>13 DEF ResetServices
<1> QED
  BY <1>4, <1>5, <1>6, <1>7, <1>8, <1>9, <1>10, <1>11, <1>12, <1>13 DEF Next, Deploy, Startup

(* Rows and their deployments stay in step, whatever fails (deployment.ts).*)
THEOREM Invariance == Spec => []IInv
<1>1. Init => IInv
  BY DeploymentsAssumption
     DEF Init, IInv, TypeOK, RowsOK, RunningIsHeld, Early, WithRow, Rows, Statuses, Steps,
         Range, IsInjective
<1>2. IInv /\ [Next]_vars => IInv'
  <2>1. ASSUME IInv, Next
        PROVE  IInv'
    BY <2>1, TypeStep, RowsStep, HeldStep DEF IInv
  <2>2. ASSUME IInv, UNCHANGED vars
        PROVE  IInv'
    <3>1. UNCHANGED <<status, row, made, at, reloading, boot, selected, crashes, struck>>
      BY <2>2 DEF vars, startup
    <3> QED
      BY <2>2, <3>1 DEF IInv, TypeOK, RowsOK, RunningIsHeld, Safe
  <2> QED
    BY <2>1, <2>2
<1> QED
  BY <1>1, <1>2, PTL DEF Spec

(* The variables keep their types; every row but none is in made once      *)
(* (deployment.ts, createDeployment).                                      *)
THEOREM TypeCorrect == Spec => []TypeOK
<1>1. IInv => TypeOK
  BY DEF IInv
<1> QED
  BY <1>1, Invariance, PTL

(* Once the startup is over, a deployment that is shown as running is      *)
(* being executed, unless statements fail: initCancelDeployments finds     *)
(* every row that a crash left running (cancel-deployments.ts).            *)
THEOREM NoneLeftRunning == Spec => []RunningIsExecuted
<1>1. IInv => RunningIsExecuted
  BY DEF IInv, RunningIsHeld, RunningIsExecuted
<1> QED
  BY <1>1, Invariance, PTL

-----------------------------------------------------------------------------
(* What holds as long as no fault has struck, for the services whose       *)
(* deployments all go by the queue.                                        *)
Queued(s) == struck = {} /\ \A a \in Of(s) \cap Direct : at[a] = "new"

Latest(a) ==
  \E i \in History(ServiceOf[a]) :
    made[i] = a /\ \A j \in History(ServiceOf[a]) : j <= i

(* The process runs, nobody reloads a service, and a row can be created.   *)
Calm ==
  struck = {} =>
    /\ boot = "done" /\ reloading = {}
    /\ \A a \in Attempts : at[a] # "createError"

(* The queue runs one deployment of a service at a time.                   *)
OneAtATime ==
  \A s \in Services : Queued(s) =>
    \A a, b \in Of(s) : at[a] \in Running /\ at[b] \in Running => a = b

(* From its insertion on, its row is the latest of its service, and row    *)
(* and status have been written in step.                                   *)
InStep ==
  \A a \in Attempts : Queued(ServiceOf[a]) =>
    /\ at[a] \in WithRow => Latest(a)
    /\ at[a] \in {"statusDone", "notify"} => row[a] = "done"
    /\ at[a] = "statusError" => row[a] = "error"
    /\ at[a] = "notify" => status[ServiceOf[a]] = "done"

CleanInv == Calm /\ OneAtATime /\ InStep /\ StatusTells

(* A step that is no fault is one of a deployment, or drops what waits.    *)
LEMMA CleanSteps ==
  ASSUME TypeOK, Calm, Next, struck' = {}
  PROVE  /\ struck = {} /\ UNCHANGED <<reloading, startup>>
         /\ \/ \E a \in Attempts : Request(a) \/ Take(a) \/ Deploy(a)
            \/ \E s \in Services : CleanQueues(s)
<1>1. ASSUME NEW k \in Kinds
      PROVE  ~ Strike(k)
  BY DEF Strike
<1>2. ASSUME NEW a \in Attempts, RemoveDeployment(a)
      PROVE  FALSE
  BY <1>1, <1>2 DEF RemoveDeployment, Kinds
<1>3. ASSUME NEW s \in Services, StartOrStop(s) \/ MarkRunning(s)
      PROVE  FALSE
  BY <1>1, <1>3 DEF StartOrStop, MarkRunning, Kinds
<1>4. ~ Crash
  BY <1>1 DEF Crash, Kinds
<1>5. CASE \E a \in Attempts : Request(a) \/ Take(a) \/ Deploy(a)
  BY <1>1, <1>5 DEF Request, Take, Deploy, Start, Prune, Insert, Build, WriteRow, WriteStatus,
                    Notify, Kinds
<1>6. CASE \E s \in Services : CleanQueues(s)
  BY <1>6 DEF CleanQueues
<1>7. CASE Startup \/ \E s \in Services : Reload(s)
  <2>1. struck = {}
    BY <1>1, <1>7 DEF Startup, SelectRunning, CancelRows, ResetServices, Reload, Kinds
  <2>2. boot = "done" /\ reloading = {}
    BY <2>1 DEF Calm
  <2> QED
    BY <1>1, <1>7, <2>2 DEF Startup, SelectRunning, CancelRows, ResetServices, Reload, Kinds
<1> QED
  BY <1>2, <1>3, <1>4, <1>5, <1>6, <1>7 DEF Next

(* What a step of a deployment leaves alone.                               *)
LEMMA Elsewhere ==
  ASSUME TypeOK, RowsOK, Calm, NEW a \in Attempts, Request(a) \/ Take(a) \/ Deploy(a),
         struck' = {}, struck = {}
  PROVE  /\ \A b \in Attempts : b # a => at'[b] = at[b]
         /\ \A s \in Services : s # ServiceOf[a] =>
              /\ status'[s] = status[s]
              /\ History(s)' = History(s)
              /\ \A i \in History(s) : made'[i] = made[i] /\ row'[made[i]] = row[made[i]]
<1> USE DeploymentsAssumption
<1>0. ASSUME NEW k \in Kinds
      PROVE  ~ Strike(k)
  BY DEF Strike
<1>1. \A b \in Attempts : b # a => at'[b] = at[b]
  BY DEF TypeOK, Request, Take, Deploy, Start, Prune, Insert, Build, WriteRow, WriteStatus,
         Notify, Go
<1>2. \A s \in Services : s # ServiceOf[a] => status'[s] = status[s]
  BY DEF TypeOK, Request, Take, Deploy, Start, Prune, Insert, Build, WriteRow, WriteStatus,
         Notify, SetStatus
<1>3. /\ made \in Seq(Attempts) /\ DOMAIN made = 1..Len(made) /\ Len(made) \in Nat
      /\ \A i \in DOMAIN made : made[i] \in Attempts
  BY DEF TypeOK
<1>4. ASSUME NEW s \in Services, s # ServiceOf[a]
      PROVE  /\ History(s)' = History(s)
             /\ \A i \in History(s) : made'[i] = made[i] /\ row'[made[i]] = row[made[i]]
  <2>1. CASE Insert(a)
    <3>1. row[a] = "none" /\ made' = Append(made, a) /\ SetRow(a, "running")
      BY <1>0, <2>1 DEF RowsOK, Early, Insert, Kinds
    <3>2. \A b \in Attempts : b # a => row'[b] = row[b]
      BY <3>1 DEF TypeOK, SetRow
    <3>3. /\ \A i \in DOMAIN made : made'[i] = made[i] /\ made[i] # a
          /\ DOMAIN made' = DOMAIN made \cup {Len(made) + 1} /\ made'[Len(made) + 1] = a
      BY <3>1, MadeAppended DEF TypeOK, Range
    <3>4. \A i \in DOMAIN made : made'[i] = made[i] /\ row'[made[i]] = row[made[i]]
      BY <1>3, <3>2, <3>3
    <3>5. ServiceOf[made'[Len(made) + 1]] # s
      BY <1>4, <3>3
    <3>6. \A i \in DOMAIN made' : i = Len(made) + 1 \/ i \in DOMAIN made
      BY <3>3
    <3>7. DOMAIN made \subseteq DOMAIN made'
      BY <3>3
    <3>8. \A i : i \in History(s)' <=> i \in History(s)
      BY <3>4, <3>5, <3>6, <3>7 DEF History
    <3> QED
      BY <3>4, <3>8 DEF History
  <2>2. CASE Prune(a)
    <3>1. /\ made' = made
          /\ \A b \in Attempts : ServiceOf[b] # ServiceOf[a] => row'[b] = row[b]
      BY <2>2 DEF TypeOK, Prune, History
    <3> QED
      BY <1>3, <1>4, <3>1 DEF History
  <2>3. CASE WriteRow(a)
    <3>1. made' = made /\ \A b \in Attempts : b # a => row'[b] = row[b]
      BY <2>3 DEF TypeOK, WriteRow, SetRow
    <3> QED
      BY <1>3, <1>4, <3>1 DEF History
  <2>4. CASE Request(a) \/ Take(a) \/ Start(a) \/ Build(a) \/ WriteStatus(a) \/ Notify(a)
    <3>1. made' = made /\ row' = row
      BY <2>4 DEF Request, Take, Start, Build, WriteStatus, Notify
    <3> QED
      BY <3>1 DEF History
  <2> QED
    BY <2>1, <2>2, <2>3, <2>4 DEF Deploy
<1> QED
  BY <1>1, <1>2, <1>4

LEMMA QueuedBefore ==
  ASSUME TypeOK, Calm, Next, NEW s \in Services, Queued(s)'
  PROVE  Queued(s)
<1>1. struck' = {} /\ \A b \in Of(s) \cap Direct : at'[b] = "new"
  BY DEF Queued, Of
<1>2. /\ struck = {}
      /\ \/ \E a \in Attempts : Request(a) \/ Take(a) \/ Deploy(a)
         \/ \E u \in Services : CleanQueues(u)
  BY <1>1, CleanSteps
<1>3. \A b \in Attempts : at'[b] = "new" => at[b] = "new"
  BY <1>2 DEF TypeOK, Request, Take, Deploy, Start, Prune, Insert, Build, WriteRow,
              WriteStatus, Notify, CleanQueues, Go
<1> QED
  BY <1>1, <1>2, <1>3 DEF Queued, Of

(* The step of a deployment by the queue, for its own service.             *)
LEMMA OwnService ==
  ASSUME TypeOK, RowsOK, CleanInv, NEW a \in Attempts, Request(a) \/ Take(a) \/ Deploy(a),
         struck' = {}, struck = {}, Queued(ServiceOf[a])', Queued(ServiceOf[a])
  PROVE  /\ \A b, c \in Of(ServiceOf[a]) : at'[b] \in Running /\ at'[c] \in Running => b = c
         /\ \A b \in Of(ServiceOf[a]) :
              /\ at'[b] \in WithRow => Latest(b)'
              /\ at'[b] \in {"statusDone", "notify"} => row'[b] = "done"
              /\ at'[b] = "statusError" => row'[b] = "error"
              /\ at'[b] = "notify" => status'[ServiceOf[a]] = "done"
         /\ \A i \in History(ServiceOf[a])' :
              /\ \A b \in Of(ServiceOf[a]) : at'[b] \notin Running
              /\ \A j \in History(ServiceOf[a])' : j <= i
              => status'[ServiceOf[a]] = row'[made'[i]]
<1> DEFINE s == ServiceOf[a]
<1>0. ASSUME NEW k \in Kinds
      PROVE  ~ Strike(k)
  BY DEF Strike
<1>1. /\ a \in Of(s) /\ s \in Services /\ Of(s) \subseteq Attempts
      /\ \A b \in Of(s) : ServiceOf[b] = s
  BY DeploymentsAssumption DEF Of
<1>2. \A b \in Attempts : b # a => at'[b] = at[b]
  BY Elsewhere DEF CleanInv
<1>3. \A b \in Of(s) : b \in Direct => at[b] = "new" /\ at'[b] = "new"
  BY DEF Queued, Of
<1>4. \A b, c \in Of(s) : at[b] \in Running /\ at[c] \in Running => b = c
  BY <1>1 DEF CleanInv, OneAtATime
<1>5. /\ at[a] \in WithRow => Latest(a)
      /\ at[a] \in {"statusDone", "notify"} => row[a] = "done"
      /\ at[a] = "statusError" => row[a] = "error"
      /\ at[a] = "notify" => status[s] = "done"
      /\ at[a] # "createError"
  BY DEF CleanInv, InStep, Calm
<1>6. WithRow \subseteq Running
  BY DEF WithRow, Running
<1>7. at[a] \in Running \/ Take(a) \/ (Request(a) /\ at' = [at EXCEPT ![a] = "queued"])
  BY <1>1, <1>3 DEF TypeOK, Request, Deploy, Start, Prune, Insert, Build, WriteRow, WriteStatus,
                    Notify, Running, Go
<1>8. CASE Request(a) /\ at' = [at EXCEPT ![a] = "queued"]
  <2>1. /\ status' = status /\ row' = row /\ made' = made
        /\ at[a] = "new" /\ at'[a] = "queued"
    BY <1>8 DEF TypeOK, Request
  <2>2. \A b \in Of(s) : at'[b] \in Running => b # a /\ at[b] = at'[b]
    BY <1>1, <1>2, <2>1 DEF Running
  <2>3. \A b \in Of(s) : at[b] \in Running => at'[b] \in Running
    BY <1>1, <1>2, <2>1 DEF Running
  <2>4. \A b \in Of(s) : at'[b] \in WithRow => /\ at[b] = at'[b] /\ Latest(b)
                                               /\ at[b] \in {"statusDone", "notify"} => row[b] = "done"
                                               /\ at[b] = "statusError" => row[b] = "error"
                                               /\ at[b] = "notify" => status[s] = "done"
    BY <1>1, <1>6, <2>2 DEF CleanInv, InStep
  <2>5. \A b : Latest(b)' = Latest(b)
    BY <2>1 DEF Latest, History
  <2>6. History(s)' = History(s)
    BY <2>1 DEF History
  <2>7. \A i \in History(s) : /\ \A b \in Of(s) : at[b] \notin Running
                              /\ \A j \in History(s) : j <= i
                              => status[s] = row[made[i]]
    BY <1>1 DEF CleanInv, StatusTells, Queued
  <2> QED
    BY <1>4, <2>1, <2>2, <2>3, <2>4, <2>5, <2>6, <2>7 DEF WithRow
<1>9. CASE Take(a)
  <2>1. /\ status' = status /\ row' = row /\ made' = made
        /\ at[a] = "queued" /\ at'[a] = "start"
        /\ \A b \in Of(s) \ Direct : at[b] \notin Running
    BY <1>9 DEF TypeOK, Take, Go
  <2>2. \A b \in Of(s) : at'[b] \in Running => b = a
    BY <1>1, <1>2, <1>3, <2>1 DEF Running
  <2> QED
    BY <1>1, <2>1, <2>2 DEF WithRow, Running
<1>10. CASE at[a] \in Running
  <2>0. Deploy(a)
    BY <1>10 DEF Request, Take, Running
  <2>1. \A b \in Of(s) : at'[b] \in Running => b = a
    BY <1>1, <1>2, <1>4, <1>10
  <2>2. CASE Start(a) \/ Prune(a)
    <3>1. at'[a] \in {"prune", "insert"}
      BY <1>0, <2>2 DEF TypeOK, Start, Prune, Go, Kinds
    <3> QED
      BY <1>1, <2>1, <3>1 DEF WithRow, Running
  <2>3. CASE Insert(a)
    <3>1. /\ row[a] = "none" /\ made' = Append(made, a) /\ SetRow(a, "running")
          /\ at'[a] = "build"
      BY <1>0, <2>3 DEF TypeOK, RowsOK, Early, Insert, Go, Kinds
    <3>2. /\ Len(made) \in Nat /\ DOMAIN made = 1..Len(made)
          /\ DOMAIN made' = DOMAIN made \cup {Len(made) + 1} /\ made'[Len(made) + 1] = a
      BY <3>1, MadeAppended DEF TypeOK
    <3>3. row'[a] = "running"
      BY <3>1 DEF TypeOK, SetRow
    <3>4. Len(made) + 1 \in History(s)' /\ \A j \in History(s)' : j <= Len(made) + 1
      BY <3>2, <3>3 DEF History
    <3>5. Latest(a)'
      BY <3>2, <3>4 DEF Latest
    <3> QED
      BY <1>1, <2>1, <3>1, <3>5 DEF WithRow, Running
  <2>4. CASE Build(a) \/ WriteRow(a)
    <3>1. at[a] \in {"build", "rowDone", "rowError"} /\ made' = made
      BY <2>4 DEF Build, WriteRow
    <3>2. \A b \in Attempts : row'[b] = "removed" <=> row[b] = "removed"
      BY <2>4 DEF TypeOK, Build, WriteRow, SetRow
    <3>3. \A i \in DOMAIN made : made[i] \in Attempts
      BY DEF TypeOK
    <3>4. History(s)' = History(s)
      BY <3>1, <3>2, <3>3 DEF History
    <3>5. Latest(a)'
      BY <1>5, <3>1, <3>4 DEF Latest, WithRow
    <3>6. row[a] # "removed"
      BY <1>5, <3>1 DEF Latest, History, WithRow
    <3>7. \/ at'[a] \in {"rowDone", "rowError"}
          \/ at'[a] = "statusDone" /\ row'[a] = "done"
          \/ at'[a] = "statusError" /\ row'[a] = "error"
      BY <1>0, <2>4, <3>6 DEF TypeOK, Build, WriteRow, SetRow, Go, Kinds
    <3> QED
      BY <1>1, <2>1, <3>5, <3>7 DEF WithRow, Running
  <2>5. CASE WriteStatus(a) \/ Notify(a)
    <3>1. made' = made /\ row' = row /\ Latest(a) /\ at[a] \in {"statusDone", "statusError", "notify"}
      BY <1>5, <2>5 DEF WriteStatus, Notify, WithRow
    <3>2. History(s)' = History(s) /\ Latest(a)'
      BY <3>1 DEF History, Latest
    <3>3. status'[s] = row'[a] /\ row'[a] = row[a]
      BY <1>0, <1>1, <1>5, <2>5, <3>1 DEF TypeOK, WriteStatus, Notify, SetStatus, Kinds
    <3>4. \/ at'[a] = "notify" /\ row[a] = "done"
          \/ at'[a] = "over"
      BY <1>0, <1>5, <2>5 DEF TypeOK, WriteStatus, Notify, Go, Kinds
    <3>5. ASSUME NEW i \in History(s), \A j \in History(s) : j <= i
          PROVE  made[i] = a
      <4>1. PICK j \in History(s) : made[j] = a /\ \A k \in History(s) : k <= j
        BY <3>1 DEF Latest
      <4>2. i \in Int /\ j \in Int
        BY DEF TypeOK, History
      <4> QED
        BY <3>5, <4>1, <4>2
    <3> QED
      BY <1>1, <2>1, <3>1, <3>2, <3>3, <3>4, <3>5 DEF WithRow, Running
  <2> QED
    BY <2>0, <2>2, <2>3, <2>4, <2>5 DEF Deploy
<1> QED
  BY <1>7, <1>8, <1>9, <1>10

(* A step of a deployment keeps all services in step.                      *)
LEMMA DeploymentKeeps ==
  ASSUME TypeOK, RowsOK, CleanInv, Next, NEW a \in Attempts,
         Request(a) \/ Take(a) \/ Deploy(a), struck' = {}, struck = {}
  PROVE  (OneAtATime /\ InStep /\ StatusTells)'
<1>1. ServiceOf[a] \in Services /\ \A b \in Attempts : ServiceOf[b] \in Services
  BY DeploymentsAssumption
<1>2. \A s \in Services : Queued(s)' => Queued(s)
  BY QueuedBefore DEF CleanInv
<1>3. /\ \A b \in Attempts : b # a => at'[b] = at[b]
      /\ \A s \in Services : s # ServiceOf[a] =>
           /\ status'[s] = status[s]
           /\ History(s)' = History(s)
           /\ \A i \in History(s) : made'[i] = made[i] /\ row'[made[i]] = row[made[i]]
  BY Elsewhere DEF CleanInv
<1>4. ASSUME NEW s \in Services, s # ServiceOf[a]
      PROVE  \A b \in Of(s) : b \in Attempts /\ b # a /\ at'[b] = at[b] /\ ServiceOf[b] = s
  BY <1>3, <1>4 DEF Of
<1>5. OneAtATime'
  <2> SUFFICES ASSUME NEW s \in Services, Queued(s)', NEW b \in Of(s), NEW c \in Of(s),
                      at'[b] \in Running, at'[c] \in Running
               PROVE  b = c
    BY DEF OneAtATime, Of
  <2>1. CASE s = ServiceOf[a]
    BY <1>2, <2>1, OwnService
  <2>2. CASE s # ServiceOf[a]
    BY <1>2, <1>4, <2>2 DEF CleanInv, OneAtATime
  <2> QED
    BY <2>1, <2>2
<1>6. InStep'
  <2> SUFFICES ASSUME NEW b \in Attempts, Queued(ServiceOf[b])'
               PROVE  /\ at'[b] \in WithRow => Latest(b)'
                      /\ at'[b] \in {"statusDone", "notify"} => row'[b] = "done"
                      /\ at'[b] = "statusError" => row'[b] = "error"
                      /\ at'[b] = "notify" => status'[ServiceOf[b]] = "done"
    BY DEF InStep, WithRow
  <2>1. b \in Of(ServiceOf[b])
    BY DEF Of
  <2>2. CASE ServiceOf[b] = ServiceOf[a]
    <3>1. Queued(ServiceOf[a])' /\ Queued(ServiceOf[a]) /\ b \in Of(ServiceOf[a])
      BY <1>1, <1>2, <2>1, <2>2
    <3> QED
      BY <2>2, <3>1, OwnService
  <2>3. CASE ServiceOf[b] # ServiceOf[a]
    <3>1. /\ at[b] \in WithRow => Latest(b)
          /\ at[b] \in {"statusDone", "notify"} => row[b] = "done"
          /\ at[b] = "statusError" => row[b] = "error"
          /\ at[b] = "notify" => status[ServiceOf[b]] = "done"
      BY <1>1, <1>2 DEF CleanInv, InStep
    <3>2. at'[b] = at[b] /\ status'[ServiceOf[b]] = status[ServiceOf[b]]
      BY <1>1, <1>3, <2>3
    <3>3. Latest(b) => Latest(b)' /\ row'[b] = row[b]
      BY <1>1, <1>3, <2>3 DEF Latest
    <3> QED
      BY <3>1, <3>2, <3>3 DEF WithRow
  <2> QED
    BY <2>2, <2>3
<1>7. StatusTells'
  <2> SUFFICES ASSUME NEW s \in Services, NEW i \in History(s)', Queued(s)',
                      \A b \in Of(s) : at'[b] \notin Running,
                      \A j \in History(s)' : j <= i
               PROVE  status'[s] = row'[made'[i]]
    BY DEF StatusTells, Queued, Of
  <2>1. CASE s = ServiceOf[a]
    BY <1>2, <2>1, OwnService
  <2>2. CASE s # ServiceOf[a]
    <3>1. i \in History(s) /\ \A j \in History(s) : j <= i
      BY <1>3, <2>2
    <3>2. \A b \in Of(s) : at[b] \notin Running
      BY <1>4, <2>2
    <3>3. status[s] = row[made[i]]
      BY <1>2, <3>1, <3>2 DEF CleanInv, StatusTells, Queued
    <3> QED
      BY <1>3, <2>2, <3>1, <3>3
  <2> QED
    BY <2>1, <2>2
<1> QED
  BY <1>5, <1>6, <1>7

(* So does dropping what waits.                                            *)
LEMMA CleaningKeeps ==
  ASSUME TypeOK, CleanInv, Next, NEW u \in Services, CleanQueues(u), struck' = {}
  PROVE  (OneAtATime /\ InStep /\ StatusTells)'
<1>1. UNCHANGED <<status, row, made, struck>>
  BY DEF CleanQueues
<1>2. /\ \A b \in Attempts : at'[b] \in Running <=> at[b] \in Running
      /\ \A b \in Attempts : at[b] \in Running => at'[b] = at[b]
      /\ \A b \in Attempts : at'[b] \in WithRow => at'[b] = at[b]
  BY DEF TypeOK, CleanQueues, Running, WithRow
<1>3. \A s \in Services : Queued(s)' => Queued(s)
  BY QueuedBefore DEF CleanInv
<1>4. \A s : /\ History(s)' = History(s) /\ Latest(s)' = Latest(s)
             /\ Of(s) \subseteq Attempts
  BY <1>1 DEF History, Latest, Of
<1>5. OneAtATime'
  BY <1>2, <1>3, <1>4 DEF CleanInv, OneAtATime, Of
<1>6. InStep'
  <2>1. \A b \in Attempts : ServiceOf[b] \in Services
    BY DeploymentsAssumption
  <2> QED
    BY <1>1, <1>2, <1>3, <1>4, <2>1 DEF CleanInv, InStep, WithRow
<1>7. StatusTells'
  BY <1>1, <1>2, <1>3, <1>4 DEF CleanInv, StatusTells, Queued, Of
<1> QED
  BY <1>5, <1>6, <1>7

LEMMA CleanStep ==
  ASSUME TypeOK, RowsOK, CleanInv, Next
  PROVE  CleanInv'
<1>1. CASE struck' = {}
  <2>1. /\ struck = {} /\ UNCHANGED <<reloading, boot>>
        /\ \/ \E a \in Attempts : Request(a) \/ Take(a) \/ Deploy(a)
           \/ \E s \in Services : CleanQueues(s)
    BY <1>1, CleanSteps DEF CleanInv, startup
  <2>2. Calm'
    <3>1. \A k \in Kinds : ~ Strike(k)
      BY <1>1 DEF Strike
    <3>2. \A b \in Attempts : at'[b] # "createError"
      BY <2>1, <3>1 DEF CleanInv, Calm, TypeOK, Request, Take, Deploy, Start, Prune, Insert,
                        Build, WriteRow, WriteStatus, Notify, CleanQueues, Go, Kinds
    <3> QED
      BY <2>1, <3>2 DEF CleanInv, Calm
  <2>3. (OneAtATime /\ InStep /\ StatusTells)'
    BY <1>1, <2>1, DeploymentKeeps, CleaningKeeps
  <2> QED
    BY <2>2, <2>3 DEF CleanInv
<1>2. CASE struck' # {}
  BY <1>2 DEF CleanInv, Calm, OneAtATime, InStep, StatusTells, Queued
<1> QED
  BY <1>1, <1>2

(* Without faults the status of a service none of whose deployments is     *)
(* under way is the outcome of the latest one (application.ts,             *)
(* deployApplication; compose.ts, deployCompose).                          *)
THEOREM StatusAgrees == Spec => []StatusTells
<1>1. Init => CleanInv
  BY DEF Init, CleanInv, Calm, OneAtATime, InStep, StatusTells, History, Running, WithRow, Of
<1>2. IInv /\ CleanInv /\ [Next]_vars => CleanInv'
  <2>1. ASSUME IInv, CleanInv, Next
        PROVE  CleanInv'
    BY <2>1, CleanStep DEF IInv
  <2>2. ASSUME CleanInv, UNCHANGED vars
        PROVE  CleanInv'
    <3>1. UNCHANGED <<status, row, made, at, reloading, boot, struck>>
      BY <2>2 DEF vars, startup
    <3> QED
      BY <2>2, <3>1 DEF CleanInv, Calm, OneAtATime, InStep, StatusTells, Queued, Latest,
                        History, Of
  <2> QED
    BY <2>1, <2>2
<1>3. CleanInv => StatusTells
  BY DEF CleanInv
<1> QED
  BY <1>1, <1>2, <1>3, Invariance, PTL DEF Spec
=============================================================================
