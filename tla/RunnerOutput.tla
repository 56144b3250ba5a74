---------------------------- MODULE RunnerOutput ----------------------------
(***************************************************************************)
(* The output of one run on a self-hosted runner, from the child process   *)
(* to the job rows: the runner's bounded OutputSender (apps/runner/src/    *)
(* output.ts, runner.ts), HTTP requests that fail or whose answer is not   *)
(* awaited, and the server's RunRecorder with act's log events (services/  *)
(* workflow-runner.ts, utils/workflows/run-recorder.ts, act-log.ts).       *)
(*                                                                         *)
(* A line is its number in Script.  Cancellation, the stale check and the  *)
(* claim are in RunnerRuns; here the run has been claimed.                 *)
(***************************************************************************)
EXTENDS Integers, Sequences, SequencesExt

CONSTANTS
  Jobs,         \* the jobs of the workflow (run.jobNames)
  Script,       \* what act prints: [job, event, step, result]
  MaxQueue,     \* lines the runner keeps (MAX_QUEUE_LINES, MAX_QUEUE_BYTES)
  MaxBatch,     \* lines of one request (MAX_BATCH_LINES)
  MaxDrops,     \* a runner whose requests are all refused drops no more
  MaxFaults     \* failed and abandoned requests, failed writes, server restarts

ASSUME JobsAssumption == IsFiniteSet(Jobs)

ASSUME SizesAssumption == MaxQueue \in Nat \ {0} /\ MaxBatch \in Nat \ {0}
                          /\ MaxDrops \in Nat /\ MaxFaults \in Nat

Results == {"success", "failure"}
States == {"in_progress", "skipped"} \cup Results
LogEvents == [job : Jobs, event : {"start", "finish", "end"}, step : Nat, result : Results]

ASSUME ScriptAssumption == Script \in Seq(LogEvents)

VARIABLES
  out,        \* lines printed so far
  queue,      \* sender.queue: lines, and notes on lines that were dropped
  dropped,    \* sender.droppedLines
  late,       \* Date.now() < sender.retryAt
  batch,      \* the lines of the request in flight
  sending,    \* sender.inFlight is a promise
  phase,      \* where executeRun is
  requests,   \* slots of requests the server may still handle
  over,       \* the row of the run has its final status
  recorders,  \* every RunRecorder of this server process
  current,    \* the one the recorders map holds, 0 if none
  rows,       \* workflowJobs
  log,        \* what the log files show
  faults,     \* faults so far
  abandoned,  \* history: a request was given up while the server handled it
  failed,     \* history: lines whose recording failed
  trimmed,    \* history: lines dropped from the queue
  drops,      \* history: how often a line or note was dropped from the queue
  unheard     \* history: the drops that dropped notes were about

lost == <<trimmed, drops, unheard>>
runnerVars == <<out, queue, dropped, late, batch, sending, phase, lost>>
serverVars == <<over, recorders, current, rows, log, failed>>
vars == <<runnerVars, serverVars, requests, faults, abandoned>>

(* A note says how many were dropped; upto tells the drops it is about.    *)
Line(n) == [line |-> n, gone |-> 0, upto |-> 0]
Marker(k, d) == [line |-> 0, gone |-> k, upto |-> d]
Items == [line : 0..Len(Script), gone : Nat, upto : Nat]
About(item) == (item.upto - item.gone + 1) .. item.upto
LinesOf(s) == { s[i].line : i \in DOMAIN s } \ {0}

Slots == 1 .. (MaxFaults + 1)
Free == [kind |-> "none", lines |-> <<>>, stage |-> "free", rec |-> 0, until |-> 0, live |-> FALSE]
NewRequest(kind, lines) ==
  [kind |-> kind, lines |-> lines, stage |-> "sent", rec |-> 0, until |-> 0, live |-> TRUE]
Stages == {"free", "sent", "read", "wait", "settled"}

(* A job as a recorder remembers it, and as its row says.                  *)
Unknown == [row |-> 0, status |-> "in_progress", steps |-> <<>>]
NewRecorder(state) == [state |-> state, pending |-> <<>>, handled |-> 0, closed |-> FALSE,
                       known |-> {}, jobs |-> [j \in Jobs |-> Unknown]]

Init ==
  /\ out = 0 /\ queue = <<>> /\ dropped = 0 /\ late = FALSE
  /\ batch = <<>> /\ sending = FALSE /\ phase = "running"
  /\ trimmed = {} /\ drops = 0 /\ unheard = {}
  /\ requests = [i \in Slots |-> Free]
  /\ over = FALSE /\ recorders = <<NewRecorder("ready")>> /\ current = 1
  /\ rows = <<>> /\ log = <<>> /\ failed = {}
  /\ faults = 0 /\ abandoned = FALSE

-----------------------------------------------------------------------------
(* The runner.                                                             *)

(* trimQueue: the oldest items go until the queue fits.                    *)
Excess(q) == IF Len(q) > MaxQueue THEN Len(q) - MaxQueue ELSE 0

Drop(s) ==
  /\ trimmed' = trimmed \cup LinesOf(s)
  /\ drops' = drops + Len(s)
  /\ unheard' = unheard \cup UNION { About(s[i]) : i \in DOMAIN s }

Enqueue(q) ==
  /\ queue' = SubSeq(q, Excess(q) + 1, Len(q))
  /\ Drop(SubSeq(q, 1, Excess(q)))

Post(kind, lines) ==
  LET i == CHOOSE n \in Slots : requests[n] = Free /\ \A k \in 1..(n - 1) : requests[k] # Free
  IN  requests' = [requests EXCEPT ![i] = NewRequest(kind, lines)]

(* act prints a line; sender.add.                                          *)
PrintLine ==
  /\ phase = "running" /\ out < Len(Script)
  /\ out' = out + 1
  /\ Enqueue(Append(queue, Line(out + 1)))
  /\ dropped' = dropped + Excess(Append(queue, Line(out + 1)))
  /\ UNCHANGED <<late, batch, sending, phase, requests, serverVars, faults, abandoned>>

(* The child closes, of itself or killed; the ticker is stopped.           *)
Exit ==
  /\ phase = "running"
  /\ phase' = "flush"
  /\ UNCHANGED <<out, queue, dropped, late, batch, sending, lost, requests, serverVars,
                 faults, abandoned>>

(* flush() when nothing is in flight: the note on dropped lines is queued  *)
(* like any line, then drain takes its first batch.                        *)
Announced == IF dropped > 0 THEN Append(queue, Marker(dropped, drops)) ELSE queue

Flush(counted) ==
  LET kept == SubSeq(Announced, Excess(Announced) + 1, Len(Announced))
      n == IF Len(kept) < MaxBatch THEN Len(kept) ELSE MaxBatch
  IN  /\ dropped' = counted
      /\ Drop(SubSeq(Announced, 1, Excess(Announced)))
      /\ batch' = SubSeq(kept, 1, n)
      /\ queue' = SubSeq(kept, n + 1, Len(kept))
      /\ sending' = TRUE
      /\ Post("events", batch')

(* A mutant: the count is reset after the note is queued, not before.      *)
StartFlushResetsLast == Flush(0)

StartFlush == Flush(Excess(Announced))

(* The server keeps a recorder it could not resume, and refuses every      *)
(* request for it.                                                         *)
Poisoned == current # 0 /\ recorders[current].state = "rejected"
TriesAgain == Poisoned => drops < MaxDrops

(* The ticker; an empty batch is the heartbeat.                            *)
Tick ==
  /\ phase = "running" /\ ~sending /\ ~late /\ TriesAgain
  /\ StartFlush
  /\ UNCHANGED <<out, late, phase, serverVars, faults, abandoned>>

RetryDue ==
  /\ late /\ late' = FALSE
  /\ UNCHANGED <<out, queue, dropped, batch, sending, phase, lost, requests, serverVars,
                 faults, abandoned>>

(* sender.flush(true) after the exit: it joins a flush that is under way.  *)
FinalFlush ==
  /\ phase = "flush"
  /\ phase' = "await"
  /\ IF sending THEN UNCHANGED <<queue, dropped, batch, sending, lost, requests>>
                ELSE StartFlush
  /\ UNCHANGED <<out, late, serverVars, faults, abandoned>>

(* A mutant: the next attempt awaits a flush that nobody has started.      *)
RetryIdly ==
  /\ phase = "sleep"
  /\ phase' = "await"
  /\ UNCHANGED <<out, queue, dropped, late, batch, sending, lost, requests, serverVars,
                 faults, abandoned>>

Retry ==
  /\ phase = "sleep" /\ TriesAgain
  /\ phase' = "flush"
  /\ UNCHANGED <<out, queue, dropped, late, batch, sending, lost, requests, serverVars,
                 faults, abandoned>>

(* A mutant: one batch per flush.                                          *)
BatchAnsweredOnce(i) ==
  /\ late' = FALSE /\ batch' = <<>> /\ sending' = FALSE
  /\ phase' = IF phase = "await" THEN "complete" ELSE phase
  /\ requests' = [requests EXCEPT ![i] = IF phase = "await" THEN NewRequest("complete", <<>>) ELSE Free]
  /\ UNCHANGED <<out, queue, dropped, lost>>

(* The answer to a batch: drain goes on while the queue is not empty; then *)
(* executeRun, if it waits, posts the result.                              *)
BatchAnswered(i) ==
  LET n == IF Len(queue) < MaxBatch THEN Len(queue) ELSE MaxBatch
      put(request) == [requests EXCEPT ![i] = request]
  IN  /\ late' = FALSE
      /\ batch' = SubSeq(queue, 1, n)
      /\ queue' = SubSeq(queue, n + 1, Len(queue))
      /\ sending' = (queue # <<>>)
      /\ phase' = IF queue = <<>> /\ phase = "await" THEN "complete" ELSE phase
      /\ requests' = IF queue # <<>> THEN put(NewRequest("events", batch'))
                     ELSE IF phase = "await" THEN put(NewRequest("complete", <<>>)) ELSE put(Free)
      /\ UNCHANGED <<out, dropped, lost>>

ResultAnswered(i) ==
  /\ requests' = [requests EXCEPT ![i] = Free]
  /\ phase' = "over"
  /\ UNCHANGED <<out, queue, dropped, late, batch, sending, lost>>

(* Mutants: the lines go back behind the newer ones; the promise of the    *)
(* failed flush is kept.                                                   *)
FailedToBack(kind) ==
  /\ UNCHANGED out
  /\ phase' = IF phase \in {"await", "complete"} THEN "sleep" ELSE phase
  /\ IF kind = "complete" THEN UNCHANGED <<queue, dropped, late, batch, sending, lost>>
     ELSE /\ Enqueue(queue \o batch)
          /\ dropped' = dropped + Excess(queue \o batch)
          /\ batch' = <<>> /\ sending' = FALSE /\ late' = TRUE

FailedKeepsPromise(kind) ==
  /\ UNCHANGED <<out, sending>>
  /\ phase' = IF phase \in {"await", "complete"} THEN "sleep" ELSE phase
  /\ IF kind = "complete" THEN UNCHANGED <<queue, dropped, late, batch, lost>>
     ELSE /\ Enqueue(batch \o queue)
          /\ dropped' = dropped + Excess(batch \o queue)
          /\ batch' = <<>> /\ late' = TRUE

(* The request in flight fails: its lines go back to the front, the queue  *)
(* is trimmed, and the next try waits for retryAt.                         *)
Failed(kind) ==
  LET q == batch \o queue
  IN  /\ UNCHANGED out
      /\ phase' = IF phase \in {"await", "complete"} THEN "sleep" ELSE phase
      /\ IF kind = "complete" THEN UNCHANGED <<queue, dropped, late, batch, sending, lost>>
         ELSE /\ Enqueue(q)
              /\ dropped' = dropped + Excess(q)
              /\ batch' = <<>>
              /\ sending' = FALSE
              /\ late' = TRUE

-----------------------------------------------------------------------------
(* The server.                                                             *)

Answer(i) ==
  IF ~requests[i].live
    THEN requests' = [requests EXCEPT ![i] = Free] /\ UNCHANGED runnerVars
    ELSE IF requests[i].kind = "events" THEN BatchAnswered(i) ELSE ResultAnswered(i)

(* The handler throws: 500.                                                *)
Refuse(i) ==
  /\ requests' = [requests EXCEPT ![i] = Free]
  /\ IF requests[i].live THEN Failed(requests[i].kind) ELSE UNCHANGED runnerVars

(* findRunnerRun; a run that is over takes nothing more.                   *)
ReadRun(i) ==
  /\ requests[i].stage = "sent"
  /\ IF over THEN Answer(i)
     ELSE requests' = [requests EXCEPT ![i].stage = "read"] /\ UNCHANGED runnerVars
  /\ UNCHANGED <<serverVars, faults, abandoned>>

(* recordingFor, when the map has no recorder: it holds a new one at once, *)
(* which is resumed from the database.                                     *)
Open(i) ==
  /\ requests[i].stage = "read" /\ requests[i].rec = 0
  /\ IF current # 0
       THEN /\ requests' = [requests EXCEPT ![i].rec = current]
            /\ UNCHANGED <<recorders, current>>
       ELSE /\ recorders' = Append(recorders, NewRecorder("loading"))
            /\ current' = Len(recorders) + 1
            /\ requests' = [requests EXCEPT ![i].rec = Len(recorders) + 1]
  /\ UNCHANGED <<runnerVars, over, rows, log, failed, faults, abandoned>>

(* RunRecorder.resume: null if the run is over, else every job row is      *)
(* known.  If it throws, the map keeps the rejected promise.               *)
(* A mutant: a resumed recorder starts from nothing.                       *)
RowOfNone(j) == {}

RowOf(j) == { n \in DOMAIN rows : rows[n].job = j }

Remembered(j) ==
  IF RowOf(j) = {} THEN Unknown
  ELSE LET n == CHOOSE k \in RowOf(j) : \A l \in RowOf(j) : l <= k
       IN  [row |-> n, status |-> rows[n].status, steps |-> rows[n].steps]

Resume(r) ==
  /\ recorders[r].state = "loading"
  /\ recorders' = [recorders EXCEPT ![r].state = IF over THEN "null" ELSE "ready",
                                    ![r].known = { j \in Jobs : RowOf(j) # {} },
                                    ![r].jobs  = [j \in Jobs |-> Remembered(j)]]
  /\ UNCHANGED <<runnerVars, requests, over, current, rows, log, failed, faults, abandoned>>

ResumeFails(r) ==
  /\ faults < MaxFaults /\ faults' = faults + 1
  /\ recorders[r].state = "loading"
  /\ recorders' = [recorders EXCEPT ![r].state = "rejected"]
  /\ UNCHANGED <<runnerVars, requests, over, current, rows, log, failed, abandoned>>

(* recordRunnerEvents appends its lines to the recorder's chain and waits. *)
Push(i) ==
  LET r == requests[i].rec
  IN  /\ requests[i].stage = "read" /\ requests[i].kind = "events" /\ r # 0
      /\ \/ /\ recorders[r].state = "null"
            /\ Answer(i)
            /\ UNCHANGED recorders
         \/ /\ recorders[r].state = "rejected"
            /\ Refuse(i)
            /\ UNCHANGED recorders
         \/ /\ recorders[r].state = "ready"
            /\ recorders' = [recorders EXCEPT ![r].pending = @ \o requests[i].lines]
            /\ requests' = [requests EXCEPT ![i].stage = "wait",
                              ![i].until = recorders[r].handled + Len(recorders'[r].pending)]
            /\ UNCHANGED runnerVars
      /\ UNCHANGED <<over, current, rows, log, failed, faults, abandoned>>

(* completeRunnerRun removes the recorder from the map and finishes it; a  *)
(* rejected promise is thrown before that.                                 *)
Close(i) ==
  LET r == requests[i].rec
  IN  /\ requests[i].stage = "read" /\ requests[i].kind = "complete" /\ r # 0
      /\ recorders[r].state # "loading"
      /\ current' = IF recorders[r].state = "rejected" THEN current ELSE 0
      /\ CASE recorders[r].state = "null" -> Answer(i)
           [] recorders[r].state = "rejected" -> Refuse(i)
           [] OTHER -> /\ requests' = [requests EXCEPT ![i].stage = "wait",
                                ![i].until = recorders[r].handled + Len(recorders[r].pending)]
                       /\ UNCHANGED runnerVars
      /\ UNCHANGED <<over, recorders, rows, log, failed, faults, abandoned>>

(* handleLine: the first line of a job inserts its row.                    *)
StartedJob == [row |-> Len(rows) + 1, status |-> "in_progress", steps |-> <<>>]

Started(recorder, j) == IF j \in recorder.known THEN recorder.jobs[j] ELSE StartedJob

LastStep(steps, key) ==
  LET at == { n \in DOMAIN steps : steps[n].key = key }
  IN  IF at = {} THEN 0 ELSE CHOOSE n \in at : \A k \in at : k <= n

(* What a line makes of the job as the recorder remembers it.              *)
Handled(job, e) ==
  CASE e.event = "start"  -> [job EXCEPT !.steps = Append(@, [key |-> e.step, status |-> "in_progress"])]
    [] e.event = "finish" -> LET n == LastStep(job.steps, e.step)
                             IN  IF n = 0 THEN job ELSE [job EXCEPT !.steps[n].status = e.result]
    [] e.event = "end"    -> [job EXCEPT !.status = e.result]

(* Rows are updated with all of the recorder's knowledge of the job.       *)
Persist(table, j, job) ==
  LET row == [job |-> j, status |-> job.status, steps |-> job.steps]
  IN  IF job.row > Len(table) THEN Append(table, row) ELSE [table EXCEPT ![job.row] = row]

(* A job whose insert failed is known and has no row: its lines are only   *)
(* logged.  Once finish() has begun the logs end one after the other.      *)
Write(r, item) == log' \in {Append(log, item)} \cup IF recorders[r].closed THEN {log} ELSE {}

Taken(r, j, job) ==
  recorders' = [recorders EXCEPT ![r].pending = Tail(@), ![r].handled = @ + 1,
                                 ![r].known = @ \cup {j}, ![r].jobs[j] = job]

HandleLine(r) ==
  /\ recorders[r].pending # <<>>
  /\ LET item == Head(recorders[r].pending)
         e == Script[item.line]
         started == Started(recorders[r], e.job)
         job == IF started.row = 0 THEN started ELSE Handled(started, e)
     IN  /\ IF item.line = 0
              THEN /\ recorders' = [recorders EXCEPT ![r].pending = Tail(@), ![r].handled = @ + 1]
                   /\ UNCHANGED rows
              ELSE /\ Taken(r, e.job, job)
                   /\ rows' = IF job.row = 0 THEN rows ELSE Persist(rows, e.job, job)
         /\ Write(r, item)
  /\ UNCHANGED <<runnerVars, requests, over, current, failed, faults, abandoned>>

(* An insert or update throws: the rest of the line's events is skipped,   *)
(* the error is printed, and the next line is handled (pushLines).  A step *)
(* starts before its line is logged, and ends after.                       *)
HandleFails(r) ==
  /\ faults < MaxFaults /\ faults' = faults + 1
  /\ recorders[r].pending # <<>>
  /\ LET item == Head(recorders[r].pending)
         e == Script[item.line]
         started == Started(recorders[r], e.job)
     IN  /\ item.line # 0
         /\ failed' = failed \cup {item.line}
         /\ \/ /\ e.job \notin recorders[r].known
               /\ Taken(r, e.job, Unknown)
               /\ UNCHANGED <<rows, log>>
            \/ /\ started.row # 0
               /\ Taken(r, e.job, Handled(started, e))
               /\ rows' = IF started.row > Len(rows) THEN Persist(rows, e.job, started) ELSE rows
               /\ IF e.event = "start" THEN UNCHANGED log ELSE Write(r, item)
  /\ UNCHANGED <<runnerVars, requests, over, current, abandoned>>

Drained(i) == requests[i].stage = "wait" /\ recorders[requests[i].rec].handled >= requests[i].until

AnswerEvents(i) ==
  /\ requests[i].kind = "events" /\ Drained(i)
  /\ Answer(i)
  /\ UNCHANGED <<serverVars, faults, abandoned>>

(* A mutant: what still runs is left as it is.                             *)
SettledNot(job) == job

(* finish: jobs that still run fail with their steps, and jobs that never  *)
(* started get a row of their own.                                         *)
Settled(job) ==
  IF job.row = 0 \/ job.status # "in_progress" THEN job
  ELSE [job EXCEPT !.status = "failure",
                   !.steps = [n \in DOMAIN job.steps |->
                                IF job.steps[n].status = "in_progress"
                                  THEN [job.steps[n] EXCEPT !.status = "failure"]
                                  ELSE job.steps[n]]]

NeverStarted(r) == { j \in Jobs : recorders[r].jobs[j].row = 0 }

SettledRows(r) ==
  LET jobs == recorders[r].jobs
      updated == [n \in DOMAIN rows |->
                    IF jobs[rows[n].job].row = n /\ jobs[rows[n].job].status = "in_progress"
                      THEN [job |-> rows[n].job, status |-> Settled(jobs[rows[n].job]).status,
                            steps |-> Settled(jobs[rows[n].job]).steps]
                      ELSE rows[n]]
      skipped == IF NeverStarted(r) = Jobs THEN {} ELSE NeverStarted(r)
  IN  updated \o SetToSeq({ [job |-> j, status |-> "skipped", steps |-> <<>>] : j \in skipped })

FinishRows(i) ==
  LET r == requests[i].rec
  IN  /\ requests[i].kind = "complete" /\ Drained(i)
      /\ rows' = SettledRows(r)
      /\ recorders' = [recorders EXCEPT ![r].closed = TRUE,
                         ![r].jobs = [j \in Jobs |-> Settled(recorders[r].jobs[j])]]
      /\ requests' = [requests EXCEPT ![i].stage = "settled"]
      /\ UNCHANGED <<runnerVars, over, current, log, failed, faults, abandoned>>

FinishRun(i) ==
  /\ requests[i].stage = "settled"
  /\ over' = TRUE
  /\ Answer(i)
  /\ UNCHANGED <<recorders, current, rows, log, failed, faults, abandoned>>

(* A write of finish() throws.  Rows in left are not updated, and but for  *)
(* the one that failed their jobs are not settled; once all are, some of   *)
(* the jobs that never started have got their rows.                        *)
FinishRowsFails(i) ==
  LET r == requests[i].rec
      jobs == recorders[r].jobs
      all == SettledRows(r)
  IN  /\ faults < MaxFaults /\ faults' = faults + 1
      /\ requests[i].kind = "complete" /\ Drained(i)
      /\ \E left \in SUBSET DOMAIN rows, m \in Len(rows)..Len(all) :
           \E at \in IF left = {} THEN {0} ELSE left :
             /\ left = {} \/ m = Len(rows)
             /\ rows' = [n \in 1..m |-> IF n \in left THEN rows[n] ELSE all[n]]
             /\ recorders' = [recorders EXCEPT ![r].closed = TRUE,
                  ![r].jobs = [j \in Jobs |-> IF jobs[j].row \in left \ {at} THEN jobs[j]
                                              ELSE Settled(jobs[j])]]
      /\ Refuse(i)
      /\ UNCHANGED <<over, current, log, failed, abandoned>>

FinishRunFails(i) ==
  /\ faults < MaxFaults /\ faults' = faults + 1
  /\ requests[i].stage = "settled"
  /\ Refuse(i)
  /\ UNCHANGED <<serverVars, abandoned>>

-----------------------------------------------------------------------------
(* Faults.  Fail: the request never reached the server.  Abandon: the      *)
(* runner stops waiting (30 s) for a request the server goes on with.      *)
Live(i) == requests[i].kind # "none" /\ requests[i].live

Fail(i) ==
  /\ faults < MaxFaults /\ faults' = faults + 1
  /\ Live(i) /\ requests[i].stage = "sent"
  /\ requests' = [requests EXCEPT ![i] = Free]
  /\ Failed(requests[i].kind)
  /\ UNCHANGED <<serverVars, abandoned>>

Abandon(i) ==
  /\ faults < MaxFaults /\ faults' = faults + 1
  /\ Live(i)
  /\ requests' = [requests EXCEPT ![i].live = FALSE]
  /\ abandoned' = TRUE
  /\ Failed(requests[i].kind)
  /\ UNCHANGED serverVars

(* The server restarts: rows and logs stay, recorders and requests do not. *)
Restart ==
  /\ faults < MaxFaults /\ faults' = faults + 1
  /\ requests' = [i \in Slots |-> Free]
  /\ recorders' = <<>> /\ current' = 0
  /\ IF \E i \in Slots : Live(i)
       THEN Failed((CHOOSE q \in { requests[i] : i \in Slots } : q.live).kind)
       ELSE UNCHANGED runnerVars
  /\ UNCHANGED <<over, rows, log, failed, abandoned>>

Runner == PrintLine \/ Tick \/ RetryDue
Report == Exit \/ FinalFlush \/ Retry
Handle(i) == \/ ReadRun(i) \/ Open(i) \/ Push(i) \/ Close(i)
             \/ AnswerEvents(i) \/ FinishRows(i) \/ FinishRun(i)
Record(r) == Resume(r) \/ HandleLine(r)

Next ==
  \/ Runner \/ Report \/ Restart
  \/ \E i \in Slots : \/ Handle(i) \/ Fail(i) \/ Abandon(i)
                       \/ FinishRowsFails(i) \/ FinishRunFails(i)
  \/ \E r \in DOMAIN recorders : Record(r) \/ ResumeFails(r) \/ HandleFails(r)

Spec == Init /\ [][Next]_vars

(* The script ends, timers fire, the server and its database answer.       *)
FairSpec ==
  /\ Spec /\ WF_vars(Report)
  /\ \A i \in Slots : WF_vars(Handle(i))
  /\ \A r \in 1 .. (MaxFaults + 2) : WF_vars(r \in DOMAIN recorders /\ Record(r))

-----------------------------------------------------------------------------
(* Every variable has its type; a request in flight has a live slot.       *)
TypeOK ==
  /\ out \in 0..Len(Script) /\ queue \in Seq(Items) /\ batch \in Seq(Items)
  /\ dropped \in Nat /\ late \in BOOLEAN /\ sending \in BOOLEAN
  /\ phase \in {"running", "flush", "await", "complete", "sleep", "over"}
  /\ \A i \in Slots :
       /\ requests[i].kind \in {"none", "events", "complete"}
       /\ requests[i].lines \in Seq(Items) /\ requests[i].stage \in Stages
       /\ requests[i].rec \in 0..Len(recorders) /\ requests[i].until \in Nat
  /\ over \in BOOLEAN /\ current \in 0..Len(recorders) /\ log \in Seq(Items)
  /\ \A n \in DOMAIN rows : rows[n].job \in Jobs /\ rows[n].status \in States
  /\ faults \in 0..MaxFaults /\ abandoned \in BOOLEAN /\ drops \in Nat
  /\ trimmed \cup failed \subseteq 1..Len(Script) /\ unheard \subseteq Int
  /\ (sending \/ phase = "complete") = (\E i \in Slots : Live(i))

(* A line is logged after a later one only as a repetition, or if the      *)
(* runner has dropped it or the server has failed to record it: batches    *)
(* that fail go back to the front, and the next one is sent when the last  *)
(* is answered.                                                            *)
FirstSightInOrder ==
  \A i, j \in DOMAIN log :
    i < j /\ log[j].line > 0 /\ log[j].line < log[i].line =>
      log[j].line \in trimmed \cup failed \cup LinesOf(SubSeq(log, 1, i - 1))

(* A run gets its outcome only when every line its script printed is in    *)
(* the log, or was dropped for want of room, or the server failed to       *)
(* record it and said so on its console: the final flush joins one that is *)
(* under way, and that one goes on until the queue is empty.               *)
NothingLeftBehind == over => 1..out \subseteq LinesOf(log) \cup trimmed \cup failed

(* What was dropped is still counted, or a note about it, with its number, *)
(* is on its way or in the log, or that note was dropped in turn; and the  *)
(* last drop is counted or told by a note that is there, whatever fails or *)
(* is repeated, as long as no request is handled that was given up.        *)
ItemsOf(q) == { q[n] : n \in DOMAIN q }

DropsRemembered ==
  ~abandoned =>
    LET notes == { n \in ItemsOf(queue) \cup ItemsOf(batch) \cup ItemsOf(log) : n.gone > 0 }
    IN  /\ 1 .. (drops - dropped) \subseteq unheard \cup UNION { About(n) : n \in notes }
        /\ drops > 0 /\ dropped = 0 => \E n \in notes : n.upto = drops

(* A job has one row, over restarts and repeated batches and results, as   *)
(* long as the server handles no request the runner has given up.          *)
OneRowPerJob == ~abandoned => \A m, n \in DOMAIN rows : rows[m].job = rows[n].job => m = n

(* When the run is over no job is in progress, unless the line with its    *)
(* end could not be recorded, and no step either if act has finished the   *)
(* steps of the jobs it ended and no line was dropped, repeated or failed  *)
(* to be recorded: finish() settles the steps of a job that runs, and      *)
(* leaves those of a job that has ended in its memory.                     *)
EventOf(n, event, j) == n \in DOMAIN Script /\ Script[n].event = event /\ Script[n].job = j

ActFinishes ==
  \A p \in DOMAIN Script : Script[p].event = "start" =>
    LET same(q) == q \in DOMAIN Script /\ Script[q].job = Script[p].job /\ Script[q].step = Script[p].step
    IN  /\ \A q \in DOMAIN Script : EventOf(q, "start", Script[p].job) /\ same(q) => q = p
        /\ \A e \in DOMAIN Script : EventOf(e, "end", Script[p].job) =>
             \E q \in (p + 1)..(e - 1) : EventOf(q, "finish", Script[p].job) /\ same(q)

Repeated == \E i, j \in DOMAIN log : i < j /\ log[i] = log[j]

NoneInProgress ==
  over /\ ~abandoned =>
    \A n \in DOMAIN rows :
      /\ rows[n].status # "in_progress" \/ \E e \in failed : EventOf(e, "end", rows[n].job)
      /\ ActFinishes /\ trimmed \cup failed = {} /\ ~Repeated =>
           \A k \in DOMAIN rows[n].steps : rows[n].steps[k].status # "in_progress"

(* Once the script has ended the run gets its outcome, unless the server   *)
(* holds on to a recorder it could not resume: flush and result are        *)
(* retried until they are answered.                                        *)
ResultArrives == (phase # "running") ~> (over \/ Poisoned)
=============================================================================
