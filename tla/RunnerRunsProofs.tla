-------------------------- MODULE RunnerRunsProofs --------------------------
(***************************************************************************)
(* TLAPS proofs about RunnerRuns: a run is executed by one runner only,    *)
(* the one its row names; its result is not dropped; a run that is over    *)
(* stays over.  For any runs, runners and groups, and with every fault.    *)
(***************************************************************************)
EXTENDS RunnerRuns, NatSets, TLAPS

Busy == {"running", "stopping", "flushing", "posting"}

(* A runner that waits for a claim has one that counts, and a row is in    *)
(* the hands of one claim at most.                                         *)
ClaimsOK ==
  /\ \A c \in claims : c.live => cli[c.by] = "claiming"
  /\ \A c, d \in claims : c.live /\ d.live /\ c.by = d.by => c = d
  /\ \A c \in claims : c.at # "poll" => c.run \in Runs
  /\ \A c, d \in claims : c.at # "poll" /\ d.at # "poll" /\ c.run = d.run => c = d

(* The lock keeps a row queued until the claim commits.                    *)
LockedOK == \A c \in claims : c.at = "locked" => status[c.run] = "queued"

(* From then on the row names the claiming runner, if that still exists,   *)
(* and nobody has the run before the claim is answered.                    *)
PreparedOK ==
  \A c \in claims : c.at = "prepare" =>
    /\ c.by \in registered => assignee[c.run] = c.by
    /\ \A k \in Runners : job[k] # c.run

(* Nobody works on a run that has not been claimed.                        *)
UnclaimedOK ==
  \A r \in Runs : status[r] \in {"none", "queued"} =>
    /\ \A k \in Runners : job[k] # r
    /\ \A f \in finishes : f.run # r
    /\ \A c \in claims : c.at = "prepare" => c.run # r

(* A runner at work has a run.                                             *)
JobsOK == \A k \in Runners : cli[k] \in Busy => job[k] \in Runs

(* A report that is waited for is the one its runner is posting.           *)
ReportsOK ==
  /\ \A f \in finishes : f.by \in Runners => cli[f.by] = "posting" /\ job[f.by] = f.run
  /\ \A f, g \in finishes : f.by \in Runners /\ f.by = g.by => f = g

(* The inductive invariant.                                                *)
IInv == /\ TypeOK
        /\ ClaimsOK
        /\ LockedOK
        /\ PreparedOK
        /\ UnclaimedOK
        /\ JobsOK
        /\ ReportsOK
        /\ ExecutedByAssignee
-----------------------------------------------------------------------------
(* 0 stands for no run.                                                   *)
LEMMA NoRunZero == 0 \notin Runs
BY DEF Runs

(* Every action keeps the invariant.                                       *)
LEMMA IInvStep == IInv /\ [Next]_vars => IInv'
<1> SUFFICES ASSUME IInv, [Next]_vars
             PROVE  IInv'
  OBVIOUS
<1>1. ASSUME NEW r \in Runs, Create(r)
      PROVE  IInv'
  <2>1. TypeOK'
    BY <1>1, NamesAssumption DEF IInv, TypeOK, Create, rows, runner, Claims,
          Finishes, Doing, Finished
  <2>2. LockedOK'
    BY <1>1 DEF IInv, TypeOK, ClaimsOK, LockedOK, Create, rows, runner,
          Claims, Finished
  <2>3. UnclaimedOK'
    BY <1>1 DEF IInv, TypeOK, ClaimsOK, UnclaimedOK, Create, rows, runner,
          Claims, Finishes, Finished
  <2>4. ClaimsOK' /\ PreparedOK' /\ JobsOK' /\ ReportsOK' /\ ExecutedByAssignee'
    BY <1>1 DEF IInv, ClaimsOK, PreparedOK, JobsOK, ReportsOK,
          ExecutedByAssignee, Create, rows, runner
  <2> QED
    BY <2>1, <2>2, <2>3, <2>4 DEF IInv
<1>2. ASSUME NEW r \in Runs, Cancel(r)
      PROVE  IInv'
  <2>1. TypeOK'
    BY <1>2, NamesAssumption DEF IInv, TypeOK, Cancel, rows, runner, Claims,
          Finishes, Doing, Finished
  <2>2. /\ ClaimsOK' /\ LockedOK' /\ PreparedOK' /\ UnclaimedOK'
       /\ JobsOK' /\ ReportsOK' /\ ExecutedByAssignee'
    BY <1>2 DEF IInv, ClaimsOK, LockedOK, PreparedOK, UnclaimedOK, JobsOK,
          ReportsOK, ExecutedByAssignee, Cancel, rows, runner
  <2> QED
    BY <2>1, <2>2 DEF IInv
<1>3. ASSUME NEW r \in Runs, CancelWrite(r)
      PROVE  IInv'
  <2>1. TypeOK'
    BY <1>3, NamesAssumption DEF IInv, TypeOK, CancelWrite, Locked, rows,
          runner, Claims, Finishes, Doing, Finished
  <2>2. LockedOK'
    BY <1>3 DEF IInv, TypeOK, ClaimsOK, LockedOK, CancelWrite, Locked, rows,
          runner, Claims, Finished
  <2>3. UnclaimedOK'
    BY <1>3 DEF IInv, TypeOK, ClaimsOK, UnclaimedOK, CancelWrite, Locked,
          rows, runner, Claims, Finishes, Finished
  <2>4. ClaimsOK' /\ PreparedOK' /\ JobsOK' /\ ReportsOK' /\ ExecutedByAssignee'
    BY <1>3 DEF IInv, ClaimsOK, PreparedOK, JobsOK, ReportsOK,
          ExecutedByAssignee, CancelWrite, rows, runner
  <2> QED
    BY <2>1, <2>2, <2>3, <2>4 DEF IInv
<1>4. ASSUME NEW k \in Runners, Poll(k)
      PROVE  IInv'
  <2> DEFINE d == [by |-> k, at |-> "poll", run |-> 0, live |-> TRUE]
  <2>0. /\ d \in Claims /\ d.by = k /\ d.at = "poll" /\ d.live
        /\ cli[k] = "idle"
        /\ \/ /\ k \in registered /\ claims' = claims \cup {d} /\ seen' = seen \cup {k}
              /\ cli' = [cli EXCEPT ![k] = "claiming"]
           \/ UNCHANGED <<claims, seen>> /\ cli' = [cli EXCEPT ![k] = "off"]
        /\ UNCHANGED <<rows, registered, recorders, finishes, cancels, job, exit>>
    BY <1>4 DEF Claims, Poll
  <2> HIDE DEF d
  <2>1. TypeOK'
    BY <2>0 DEF IInv, TypeOK, rows, Doing
  <2>2. ClaimsOK'
    BY <2>0 DEF IInv, TypeOK, ClaimsOK, Claims
  <2>3. LockedOK'
    BY <1>4, <2>0 DEF IInv, TypeOK, ClaimsOK, LockedOK, Poll, rows, runner,
          Claims, Finished
  <2>4. PreparedOK'
    BY <1>4, <2>0 DEF IInv, TypeOK, ClaimsOK, PreparedOK, Poll, rows,
          runner, Claims
  <2>5. UnclaimedOK'
    BY <1>4, <2>0 DEF IInv, TypeOK, ClaimsOK, UnclaimedOK, Poll, rows,
          runner, Claims, Finishes, Finished
  <2>6. JobsOK'
    BY <1>4, <2>0 DEF IInv, TypeOK, JobsOK, Poll, rows, runner, Claims,
          Finishes, Busy
  <2>7. ReportsOK'
    BY <1>4, <2>0, NamesAssumption DEF IInv, TypeOK, ReportsOK, Poll, rows,
          runner, Claims, Finishes
  <2>8. ExecutedByAssignee'
    BY <1>4 DEF IInv, ExecutedByAssignee, Poll, rows, runner
  <2> QED
    BY <2>1, <2>2, <2>3, <2>4, <2>5, <2>6, <2>7, <2>8 DEF IInv
<1>5. ASSUME NEW k \in Runners, Heartbeat(k)
      PROVE  IInv'
  <2>1. TypeOK'
    BY <1>5, NamesAssumption DEF IInv, TypeOK, JobsOK, Heartbeat, rows,
          runner, Claims, Finishes, Doing, Finished, Busy
  <2>2. ClaimsOK'
    BY <1>5 DEF IInv, TypeOK, ClaimsOK, Heartbeat, rows, runner, Claims
  <2>3. JobsOK'
    BY <1>5 DEF IInv, TypeOK, JobsOK, Heartbeat, rows, runner, Claims,
          Finishes, Busy
  <2>4. ReportsOK'
    BY <1>5, NamesAssumption DEF IInv, TypeOK, ReportsOK, Heartbeat, rows,
          runner, Claims, Finishes
  <2>5. LockedOK' /\ PreparedOK' /\ UnclaimedOK' /\ ExecutedByAssignee'
    BY <1>5 DEF IInv, LockedOK, PreparedOK, UnclaimedOK, ExecutedByAssignee,
          Heartbeat, rows, runner
  <2> QED
    BY <2>1, <2>2, <2>3, <2>4, <2>5 DEF IInv
<1>6. ASSUME NEW k \in Runners, ScriptEnds(k)
      PROVE  IInv'
  <2>1. TypeOK'
    BY <1>6, NamesAssumption DEF IInv, TypeOK, ScriptEnds, rows, runner,
          Claims, Finishes, Doing, Finished
  <2>2. ClaimsOK'
    BY <1>6 DEF IInv, TypeOK, ClaimsOK, ScriptEnds, rows, runner, Claims
  <2>3. JobsOK'
    BY <1>6 DEF IInv, TypeOK, JobsOK, ScriptEnds, rows, runner, Claims,
          Finishes, Busy
  <2>4. ReportsOK'
    BY <1>6, NamesAssumption DEF IInv, TypeOK, ReportsOK, ScriptEnds, rows,
          runner, Claims, Finishes
  <2>5. LockedOK' /\ PreparedOK' /\ UnclaimedOK' /\ ExecutedByAssignee'
    BY <1>6 DEF IInv, LockedOK, PreparedOK, UnclaimedOK, ExecutedByAssignee,
          ScriptEnds, rows, runner
  <2> QED
    BY <2>1, <2>2, <2>3, <2>4, <2>5 DEF IInv
<1>7. ASSUME NEW k \in Runners, Flush(k)
      PROVE  IInv'
  <2>1. TypeOK'
    BY <1>7, NamesAssumption DEF IInv, TypeOK, JobsOK, Flush, Done, rows,
          runner, Claims, Finishes, Doing, Finished, Busy
  <2>2. ClaimsOK'
    BY <1>7 DEF IInv, TypeOK, ClaimsOK, Flush, Done, rows, runner, Claims
  <2>3. PreparedOK'
    BY <1>7, NoRunZero DEF IInv, TypeOK, ClaimsOK, PreparedOK, Flush, Done,
          rows, runner, Claims
  <2>4. UnclaimedOK'
    BY <1>7, NoRunZero DEF IInv, TypeOK, ClaimsOK, UnclaimedOK, Flush, Done,
          rows, runner, Claims, Finishes, Finished
  <2>5. JobsOK'
    BY <1>7 DEF IInv, TypeOK, JobsOK, Flush, Done, rows, runner, Claims,
          Finishes, Busy
  <2>6. ReportsOK'
    BY <1>7, NamesAssumption DEF IInv, TypeOK, ReportsOK, Flush, Done, rows,
          runner, Claims, Finishes
  <2>7. ExecutedByAssignee'
    BY <1>7, NoRunZero, NamesAssumption DEF IInv, TypeOK,
          ExecutedByAssignee, Flush, Done, rows, runner, Claims
  <2>8. LockedOK'
    BY <1>7 DEF IInv, LockedOK, Flush, rows, runner
  <2> QED
    BY <2>1, <2>2, <2>3, <2>4, <2>5, <2>6, <2>7, <2>8 DEF IInv
<1>8. ASSUME NEW k \in Runners, Complete(k)
      PROVE  IInv'
  <2>1. TypeOK'
    BY <1>8, NamesAssumption DEF IInv, TypeOK, JobsOK, Complete, Done, rows,
          runner, Claims, Finishes, Doing, Finished, Busy
  <2>2. ClaimsOK'
    BY <1>8 DEF IInv, TypeOK, ClaimsOK, Complete, Done, rows, runner, Claims
  <2>3. PreparedOK'
    BY <1>8, NoRunZero DEF IInv, TypeOK, ClaimsOK, PreparedOK, Complete,
          Done, rows, runner, Claims
  <2>4. UnclaimedOK'
    BY <1>8, NoRunZero DEF IInv, TypeOK, ClaimsOK, UnclaimedOK, JobsOK,
          Complete, Done, rows, runner, Claims, Finishes, Finished, Busy
  <2>5. JobsOK'
    BY <1>8 DEF IInv, TypeOK, JobsOK, Complete, Done, rows, runner, Claims,
          Finishes, Busy
  <2>6. ReportsOK'
    BY <1>8, NamesAssumption DEF IInv, TypeOK, ReportsOK, JobsOK, Complete,
          Done, rows, runner, Claims, Finishes, Busy
  <2>7. ExecutedByAssignee'
    BY <1>8, NoRunZero, NamesAssumption DEF IInv, TypeOK,
          ExecutedByAssignee, Complete, Done, rows, runner, Claims
  <2>8. LockedOK'
    BY <1>8 DEF IInv, LockedOK, Complete, rows, runner
  <2> QED
    BY <2>1, <2>2, <2>3, <2>4, <2>5, <2>6, <2>7, <2>8 DEF IInv
<1>9. ASSUME NEW c \in claims, ClaimLock(c)
      PROVE  IInv'
  <2> DEFINE d == [c EXCEPT !.at = "locked", !.run = Min(Claimable)]
  <2>0. /\ d \in Claims /\ d.by = c.by /\ d.at = "locked" /\ d.live = c.live
        /\ d.run \in Claimable
        /\ claims' = (claims \ {c}) \cup {d}
        /\ UNCHANGED <<rows, registered, seen, recorders, finishes, cancels, runner>>
    <3>1. Claimable \in SUBSET Nat /\ Claimable # {} /\ IsFiniteSet(Claimable)
      <4>1. Runs \in SUBSET Nat /\ IsFiniteSet(Runs)
        BY RunsAssumption, FS_Interval DEF Runs
      <4>2. Claimable \subseteq Runs /\ Claimable # {}
        BY <1>9 DEF ClaimLock, Claimable
      <4> QED
        BY <4>1, <4>2, FS_Subset
    <3>2. Min(Claimable) \in Claimable
      BY <3>1, SmallestOfNat DEF Min
    <3> QED
      BY <1>9, <3>2 DEF IInv, TypeOK, Claims, Claimable, ClaimLock
  <2> HIDE DEF d
  <2>1. TypeOK'
    BY <2>0 DEF IInv, TypeOK, rows, runner
  <2>2. ClaimsOK'
    BY <2>0 DEF IInv, TypeOK, ClaimsOK, UnclaimedOK, Claimable, Locked, Claims, runner
  <2>3. LockedOK'
    BY <2>0 DEF IInv, LockedOK, Claimable, rows
  <2>4. PreparedOK'
    BY <1>9, <2>0 DEF IInv, TypeOK, ClaimsOK, PreparedOK, ClaimLock, Locked,
          rows, runner, Claims
  <2>5. UnclaimedOK'
    BY <1>9, <2>0 DEF IInv, TypeOK, ClaimsOK, UnclaimedOK, ClaimLock,
          Locked, rows, runner, Claims, Finishes, Finished
  <2>6. JobsOK' /\ ReportsOK' /\ ExecutedByAssignee'
    BY <1>9 DEF IInv, JobsOK, ReportsOK, ExecutedByAssignee, ClaimLock,
          rows, runner
  <2> QED
    BY <2>1, <2>2, <2>3, <2>4, <2>5, <2>6 DEF IInv
<1>10. ASSUME NEW c \in claims, ClaimNothing(c)
      PROVE  IInv'
  <2>1. TypeOK'
    BY <1>10, NamesAssumption DEF IInv, TypeOK, ClaimNothing, rows, runner,
          Claims, Finishes, Doing, Finished
  <2>2. ClaimsOK'
    BY <1>10 DEF IInv, TypeOK, ClaimsOK, ClaimNothing, rows, runner, Claims
  <2>3. LockedOK'
    BY <1>10 DEF IInv, TypeOK, ClaimsOK, LockedOK, ClaimNothing, rows,
          runner, Claims, Finished
  <2>4. PreparedOK'
    BY <1>10 DEF IInv, TypeOK, ClaimsOK, PreparedOK, ClaimNothing, rows,
          runner, Claims
  <2>5. UnclaimedOK'
    BY <1>10 DEF IInv, TypeOK, ClaimsOK, UnclaimedOK, ClaimNothing, rows,
          runner, Claims, Finishes, Finished
  <2>6. JobsOK'
    BY <1>10 DEF IInv, TypeOK, JobsOK, ClaimNothing, rows, runner, Claims,
          Finishes, Busy
  <2>7. ReportsOK'
    BY <1>10, NamesAssumption DEF IInv, TypeOK, ReportsOK, ClaimsOK,
          ClaimNothing, rows, runner, Claims, Finishes
  <2>8. ExecutedByAssignee'
    BY <1>10 DEF IInv, ExecutedByAssignee, ClaimNothing, rows, runner
  <2> QED
    BY <2>1, <2>2, <2>3, <2>4, <2>5, <2>6, <2>7, <2>8 DEF IInv
<1>11. ASSUME NEW c \in claims, ClaimCommit(c)
      PROVE  IInv'
  <2>1. TypeOK'
    BY <1>11, NamesAssumption DEF IInv, TypeOK, ClaimCommit, rows, runner,
          Claims, Finishes, Doing, Finished
  <2>2. ClaimsOK'
    BY <1>11 DEF IInv, TypeOK, ClaimsOK, ClaimCommit, rows, runner, Claims
  <2>3. LockedOK'
    BY <1>11 DEF IInv, TypeOK, ClaimsOK, LockedOK, ClaimCommit, rows,
          runner, Claims, Finished
  <2>4. PreparedOK'
    BY <1>11 DEF IInv, TypeOK, ClaimsOK, PreparedOK, LockedOK, UnclaimedOK,
          ClaimCommit, rows, runner, Claims
  <2>5. UnclaimedOK'
    BY <1>11 DEF IInv, TypeOK, ClaimsOK, UnclaimedOK, LockedOK, ClaimCommit,
          rows, runner, Claims, Finishes, Finished
  <2>6. JobsOK'
    BY <1>11 DEF IInv, TypeOK, JobsOK, ClaimCommit, rows, runner, Claims,
          Finishes, Busy
  <2>7. ReportsOK'
    BY <1>11, NamesAssumption DEF IInv, TypeOK, ReportsOK, ClaimsOK,
          ClaimCommit, rows, runner, Claims, Finishes
  <2>8. ExecutedByAssignee'
    BY <1>11, NamesAssumption DEF IInv, TypeOK, ExecutedByAssignee,
          ClaimsOK, LockedOK, UnclaimedOK, ClaimCommit, rows, runner, Claims
  <2> QED
    BY <2>1, <2>2, <2>3, <2>4, <2>5, <2>6, <2>7, <2>8 DEF IInv
<1>12. ASSUME NEW c \in claims, ClaimAnswer(c)
      PROVE  IInv'
  <2>1. TypeOK'
    BY <1>12, NamesAssumption DEF IInv, TypeOK, ClaimsOK, ClaimAnswer, rows,
          runner, Claims, Finishes, Doing, Finished
  <2>2. ClaimsOK'
    BY <1>12 DEF IInv, TypeOK, ClaimsOK, ClaimAnswer, rows, runner, Claims
  <2>3. LockedOK'
    BY <1>12 DEF IInv, TypeOK, ClaimsOK, LockedOK, ClaimAnswer, rows,
          runner, Claims, Finished
  <2>4. PreparedOK'
    BY <1>12, NoRunZero DEF IInv, TypeOK, ClaimsOK, PreparedOK, ClaimAnswer,
          rows, runner, Claims
  <2>5. UnclaimedOK'
    BY <1>12, NoRunZero DEF IInv, TypeOK, ClaimsOK, UnclaimedOK,
          ClaimAnswer, rows, runner, Claims, Finishes, Finished
  <2>6. JobsOK'
    BY <1>12 DEF IInv, TypeOK, JobsOK, ClaimsOK, ClaimAnswer, rows, runner,
          Claims, Finishes, Busy
  <2>7. ReportsOK'
    BY <1>12, NamesAssumption DEF IInv, TypeOK, ReportsOK, ClaimsOK,
          ClaimAnswer, rows, runner, Claims, Finishes
  <2>8. ExecutedByAssignee'
    BY <1>12, NoRunZero, NamesAssumption DEF IInv, TypeOK,
          ExecutedByAssignee, ClaimsOK, PreparedOK, ClaimAnswer, rows,
          runner, Claims
  <2> QED
    BY <2>1, <2>2, <2>3, <2>4, <2>5, <2>6, <2>7, <2>8 DEF IInv
<1>13. ASSUME NEW c \in claims, ClaimFails(c)
      PROVE  IInv'
  <2> DEFINE d == [c EXCEPT !.at = "poll", !.run = 0]
  <2>0. /\ d \in Claims /\ d.by = c.by /\ d.at = "poll" /\ d.live = c.live
        /\ c.by \in Runners /\ c.run \in Runs
        /\ c.at = "prepare"
        /\ \/ claims' = (claims \ {c}) \cup {d} /\ cli' = cli
           \/ /\ claims' = claims \ {c}
              /\ cli' = IF c.live THEN [cli EXCEPT ![c.by] = "idle"] ELSE cli
        /\ \/ status' = [status EXCEPT ![c.run] = "cancelled"]
           \/ status' = [status EXCEPT ![c.run] = "failure"]
           \/ status' = status
        /\ recorders' \in {recorders \ {c.run}, recorders \cup {c.run}}
        /\ UNCHANGED <<assignee, cancelled, registered, seen, finishes, cancels, job, exit>>
    BY <1>13 DEF IInv, TypeOK, ClaimsOK, Claims, ClaimFails
  <2> HIDE DEF d
  <2>1. TypeOK'
    BY <2>0 DEF IInv, TypeOK, Doing, Finished
  <2>2. ClaimsOK'
    BY <2>0 DEF IInv, TypeOK, ClaimsOK, Claims
  <2>3. LockedOK'
    BY <2>0 DEF IInv, TypeOK, ClaimsOK, LockedOK, UnclaimedOK
  <2>4. PreparedOK'
    BY <2>0 DEF IInv, PreparedOK
  <2>5. UnclaimedOK'
    BY <2>0 DEF IInv, TypeOK, UnclaimedOK
  <2>6. JobsOK'
    BY <1>13, <2>0 DEF IInv, TypeOK, JobsOK, ClaimFails, rows, runner,
          Claims, Finishes, Busy
  <2>7. ReportsOK'
    BY <1>13, <2>0, NamesAssumption DEF IInv, TypeOK, ReportsOK, ClaimsOK,
          ClaimFails, rows, runner, Claims, Finishes
  <2>8. ExecutedByAssignee'
    BY <1>13 DEF IInv, ExecutedByAssignee, ClaimFails, rows, runner
  <2> QED
    BY <2>1, <2>2, <2>3, <2>4, <2>5, <2>6, <2>7, <2>8 DEF IInv
<1>14. ASSUME NEW f \in finishes, FinishResume(f)
      PROVE  IInv'
  <2>1. TypeOK'
    BY <1>14, NamesAssumption DEF IInv, TypeOK, FinishResume, Reported,
          Done, rows, runner, Claims, Finishes, Doing, Finished
  <2>2. ClaimsOK'
    BY <1>14 DEF IInv, TypeOK, ClaimsOK, ReportsOK, FinishResume, Reported,
          Done, rows, runner, Claims
  <2>3. PreparedOK'
    BY <1>14, NoRunZero DEF IInv, TypeOK, ClaimsOK, PreparedOK,
          FinishResume, Reported, Done, rows, runner, Claims
  <2>4. UnclaimedOK'
    BY <1>14, NoRunZero DEF IInv, TypeOK, ClaimsOK, UnclaimedOK,
          FinishResume, Reported, Done, rows, runner, Claims, Finishes,
          Finished
  <2>5. JobsOK'
    BY <1>14 DEF IInv, TypeOK, JobsOK, FinishResume, Reported, Done, rows,
          runner, Claims, Finishes, Busy
  <2>6. ReportsOK'
    BY <1>14, NamesAssumption DEF IInv, TypeOK, ReportsOK, FinishResume,
          Reported, Done, rows, runner, Claims, Finishes
  <2>7. ExecutedByAssignee'
    BY <1>14, NoRunZero, NamesAssumption DEF IInv, TypeOK,
          ExecutedByAssignee, FinishResume, Reported, Done, rows, runner,
          Claims
  <2>8. LockedOK'
    BY <1>14 DEF IInv, LockedOK, FinishResume, rows, runner
  <2> QED
    BY <2>1, <2>2, <2>3, <2>4, <2>5, <2>6, <2>7, <2>8 DEF IInv
<1>15. ASSUME NEW f \in finishes, FinishWrite(f)
      PROVE  IInv'
  <2>1. TypeOK'
    BY <1>15, NamesAssumption DEF IInv, TypeOK, FinishWrite, Reported, Done,
          rows, runner, Claims, Finishes, Doing, Finished
  <2>2. ClaimsOK'
    BY <1>15 DEF IInv, TypeOK, ClaimsOK, ReportsOK, FinishWrite, Reported,
          Done, rows, runner, Claims
  <2>3. LockedOK'
    BY <1>15 DEF IInv, TypeOK, ClaimsOK, LockedOK, UnclaimedOK, FinishWrite,
          Reported, Done, rows, runner, Claims, Finished
  <2>4. PreparedOK'
    BY <1>15, NoRunZero DEF IInv, TypeOK, ClaimsOK, PreparedOK, FinishWrite,
          Reported, Done, rows, runner, Claims
  <2>5. UnclaimedOK'
    BY <1>15, NoRunZero DEF IInv, TypeOK, ClaimsOK, UnclaimedOK,
          FinishWrite, Reported, Done, rows, runner, Claims, Finishes,
          Finished
  <2>6. JobsOK'
    BY <1>15 DEF IInv, TypeOK, JobsOK, FinishWrite, Reported, Done, rows,
          runner, Claims, Finishes, Busy
  <2>7. ReportsOK'
    BY <1>15, NamesAssumption DEF IInv, TypeOK, ReportsOK, FinishWrite,
          Reported, Done, rows, runner, Claims, Finishes
  <2>8. ExecutedByAssignee'
    BY <1>15, NoRunZero, NamesAssumption DEF IInv, TypeOK,
          ExecutedByAssignee, FinishWrite, Reported, Done, rows, runner,
          Claims
  <2> QED
    BY <2>1, <2>2, <2>3, <2>4, <2>5, <2>6, <2>7, <2>8 DEF IInv
<1>16. CASE StaleCheck
  <2>1. TypeOK'
    BY <1>16, NamesAssumption DEF IInv, TypeOK, StaleCheck, rows, runner,
          Claims, Finishes, Doing, Finished
  <2>2. UnclaimedOK'
    BY <1>16 DEF IInv, TypeOK, ClaimsOK, UnclaimedOK, StaleCheck, rows,
          runner, Claims, Finishes, Finished
  <2>3. ReportsOK'
    BY <1>16, NamesAssumption DEF IInv, TypeOK, ReportsOK, StaleCheck, rows,
          runner, Claims, Finishes
  <2>4. ClaimsOK' /\ LockedOK' /\ PreparedOK' /\ JobsOK' /\ ExecutedByAssignee'
    BY <1>16 DEF IInv, ClaimsOK, LockedOK, PreparedOK, JobsOK,
          ExecutedByAssignee, StaleCheck, rows, runner
  <2> QED
    BY <2>1, <2>2, <2>3, <2>4 DEF IInv
<1>17. ASSUME NEW k \in Runners, Silence(k)
      PROVE  IInv'
  <2>1. TypeOK'
    BY <1>17, NamesAssumption DEF IInv, TypeOK, Silence, rows, runner,
          Claims, Finishes, Doing, Finished
  <2>2. /\ ClaimsOK' /\ LockedOK' /\ PreparedOK' /\ UnclaimedOK'
       /\ JobsOK' /\ ReportsOK' /\ ExecutedByAssignee'
    BY <1>17 DEF IInv, ClaimsOK, LockedOK, PreparedOK, UnclaimedOK, JobsOK,
          ReportsOK, ExecutedByAssignee, Silence, rows, runner
  <2> QED
    BY <2>1, <2>2 DEF IInv
<1>18. ASSUME NEW k \in Runners, TimeOut(k)
      PROVE  IInv'
  <2>0. /\ \A x \in claims' : \E c \in claims :
             x = [c EXCEPT !.live = (c.by # k /\ c.live)]
        /\ claims' \in SUBSET Claims
    <3>1. \A c \in claims : [c EXCEPT !.live = (c.by # k /\ c.live)] \in Claims
      BY DEF IInv, TypeOK, Claims
    <3> QED
      BY <1>18, <3>1 DEF TimeOut, Orphaned
  <2>1. TypeOK'
    BY <1>18, <2>0, NamesAssumption DEF IInv, TypeOK, TimeOut, Orphaned,
          Unattended, Retry, rows, runner, Claims, Finishes, Doing, Finished
  <2>2. ClaimsOK'
    BY <1>18, <2>0 DEF IInv, TypeOK, ClaimsOK, TimeOut, Orphaned,
          Unattended, Retry, rows, runner, Claims
  <2>3. LockedOK'
    BY <1>18, <2>0 DEF IInv, TypeOK, ClaimsOK, LockedOK, TimeOut, Orphaned,
          Unattended, Retry, rows, runner, Claims, Finished
  <2>4. PreparedOK'
    BY <1>18, <2>0 DEF IInv, TypeOK, ClaimsOK, PreparedOK, TimeOut,
          Orphaned, Unattended, Retry, rows, runner, Claims
  <2>5. UnclaimedOK'
    BY <1>18, <2>0 DEF IInv, TypeOK, ClaimsOK, UnclaimedOK, TimeOut,
          Orphaned, Unattended, Retry, rows, runner, Claims, Finishes,
          Finished
  <2>6. JobsOK'
    BY <1>18, <2>0 DEF IInv, TypeOK, JobsOK, TimeOut, Orphaned, Unattended,
          Retry, rows, runner, Claims, Finishes, Busy
  <2>7. ReportsOK'
    BY <1>18, <2>0, NamesAssumption DEF IInv, TypeOK, ReportsOK, TimeOut,
          Orphaned, Unattended, Retry, rows, runner, Claims, Finishes
  <2>8. ExecutedByAssignee'
    BY <1>18 DEF IInv, ExecutedByAssignee, TimeOut, rows, runner
  <2> QED
    BY <2>1, <2>2, <2>3, <2>4, <2>5, <2>6, <2>7, <2>8 DEF IInv
<1>19. ASSUME NEW k \in Runners, Crash(k)
      PROVE  IInv'
  <2>0. /\ \A x \in claims' : \E c \in claims :
             x = [c EXCEPT !.live = (c.by # k /\ c.live)]
        /\ claims' \in SUBSET Claims
    <3>1. \A c \in claims : [c EXCEPT !.live = (c.by # k /\ c.live)] \in Claims
      BY DEF IInv, TypeOK, Claims
    <3> QED
      BY <1>19, <3>1 DEF Crash, Orphaned
  <2>1. TypeOK'
    BY <1>19, <2>0, NamesAssumption DEF IInv, TypeOK, Crash, Orphaned,
          Unattended, rows, runner, Claims, Finishes, Doing, Finished
  <2>2. ClaimsOK'
    BY <1>19, <2>0 DEF IInv, TypeOK, ClaimsOK, Crash, Orphaned, Unattended,
          rows, runner, Claims
  <2>3. LockedOK'
    BY <1>19, <2>0 DEF IInv, TypeOK, ClaimsOK, LockedOK, Crash, Orphaned,
          Unattended, rows, runner, Claims, Finished
  <2>4. PreparedOK'
    BY <1>19, <2>0, NoRunZero DEF IInv, TypeOK, ClaimsOK, PreparedOK, Crash,
          Orphaned, Unattended, rows, runner, Claims
  <2>5. UnclaimedOK'
    BY <1>19, <2>0, NoRunZero DEF IInv, TypeOK, ClaimsOK, UnclaimedOK,
          Crash, Orphaned, Unattended, rows, runner, Claims, Finishes,
          Finished
  <2>6. JobsOK'
    BY <1>19, <2>0 DEF IInv, TypeOK, JobsOK, Crash, Orphaned, Unattended,
          rows, runner, Claims, Finishes, Busy
  <2>7. ReportsOK'
    BY <1>19, <2>0, NamesAssumption DEF IInv, TypeOK, ReportsOK, Crash,
          Orphaned, Unattended, rows, runner, Claims, Finishes
  <2>8. ExecutedByAssignee'
    BY <1>19, <2>0, NoRunZero, NamesAssumption DEF IInv, TypeOK,
          ExecutedByAssignee, Crash, Orphaned, Unattended, rows, runner,
          Claims
  <2> QED
    BY <2>1, <2>2, <2>3, <2>4, <2>5, <2>6, <2>7, <2>8 DEF IInv
<1>20. ASSUME NEW k \in Runners, Start(k)
      PROVE  IInv'
  <2>1. TypeOK'
    BY <1>20, NamesAssumption DEF IInv, TypeOK, Start, rows, runner, Claims,
          Finishes, Doing, Finished
  <2>2. ClaimsOK'
    BY <1>20 DEF IInv, TypeOK, ClaimsOK, Start, rows, runner, Claims
  <2>3. JobsOK'
    BY <1>20 DEF IInv, TypeOK, JobsOK, Start, rows, runner, Claims,
          Finishes, Busy
  <2>4. ReportsOK'
    BY <1>20, NamesAssumption DEF IInv, TypeOK, ReportsOK, Start, rows,
          runner, Claims, Finishes
  <2>5. LockedOK' /\ PreparedOK' /\ UnclaimedOK' /\ ExecutedByAssignee'
    BY <1>20 DEF IInv, LockedOK, PreparedOK, UnclaimedOK,
          ExecutedByAssignee, Start, rows, runner
  <2> QED
    BY <2>1, <2>2, <2>3, <2>4, <2>5 DEF IInv
<1>21. CASE Restart
  <2>1. TypeOK'
    BY <1>21, NamesAssumption DEF IInv, TypeOK, Restart, Retry, rows,
          runner, Claims, Finishes, Doing, Finished
  <2>2. ClaimsOK'
    BY <1>21 DEF IInv, TypeOK, ClaimsOK, Restart, Retry, rows, runner,
          Claims
  <2>3. LockedOK'
    BY <1>21 DEF IInv, TypeOK, ClaimsOK, LockedOK, Restart, Retry, rows,
          runner, Claims, Finished
  <2>4. PreparedOK'
    BY <1>21 DEF IInv, TypeOK, ClaimsOK, PreparedOK, Restart, Retry, rows,
          runner, Claims
  <2>5. UnclaimedOK'
    BY <1>21 DEF IInv, TypeOK, ClaimsOK, UnclaimedOK, Restart, Retry, rows,
          runner, Claims, Finishes, Finished
  <2>6. JobsOK'
    BY <1>21 DEF IInv, TypeOK, JobsOK, Restart, Retry, rows, runner, Claims,
          Finishes, Busy
  <2>7. ReportsOK'
    BY <1>21, NamesAssumption DEF IInv, TypeOK, ReportsOK, Restart, Retry,
          rows, runner, Claims, Finishes
  <2>8. ExecutedByAssignee'
    BY <1>21 DEF IInv, ExecutedByAssignee, Restart, rows, runner
  <2> QED
    BY <2>1, <2>2, <2>3, <2>4, <2>5, <2>6, <2>7, <2>8 DEF IInv
<1>22. ASSUME NEW k \in Runners, Remove(k)
      PROVE  IInv'
  <2>1. TypeOK'
    BY <1>22, NamesAssumption DEF IInv, TypeOK, Remove, rows, runner,
          Claims, Finishes, Doing, Finished
  <2>2. PreparedOK'
    BY <1>22 DEF IInv, TypeOK, ClaimsOK, PreparedOK, Remove, rows, runner,
          Claims
  <2>3. ExecutedByAssignee'
    BY <1>22, NamesAssumption DEF IInv, TypeOK, ExecutedByAssignee, Remove,
          rows, runner, Claims
  <2>4. ClaimsOK' /\ LockedOK' /\ UnclaimedOK' /\ JobsOK' /\ ReportsOK'
    BY <1>22 DEF IInv, ClaimsOK, LockedOK, UnclaimedOK, JobsOK, ReportsOK,
          Remove, rows, runner
  <2> QED
    BY <2>1, <2>2, <2>3, <2>4 DEF IInv
<1>23. CASE UNCHANGED vars
  BY <1>23 DEF vars, IInv, TypeOK, ClaimsOK, LockedOK, PreparedOK,
        UnclaimedOK, JobsOK, ReportsOK, ExecutedByAssignee
<1> QED
  BY <1>1, <1>2, <1>3, <1>4, <1>5, <1>6, <1>7, <1>8, <1>9, <1>10, <1>11,
        <1>12, <1>13, <1>14, <1>15, <1>16, <1>17, <1>18, <1>19, <1>20,
        <1>21, <1>22, <1>23
     DEF Next, Claiming, Finishing

(* It holds in every reachable state.                                      *)
THEOREM Invariance == Spec => []IInv
<1>1. Init => IInv
  BY NoRunZero, NamesAssumption
     DEF Init, IInv, TypeOK, ClaimsOK, LockedOK, PreparedOK, UnclaimedOK, JobsOK,
         ReportsOK, ExecutedByAssignee, Busy, Doing, Claims, Finishes
<1> QED
  BY <1>1, IInvStep, PTL DEF Spec

(* The rows, requests and runners keep their types.                        *)
THEOREM TypeCorrect == Spec => []TypeOK
<1>1. IInv => TypeOK
  BY DEF IInv
<1> QED
  BY <1>1, Invariance, PTL

(* No run is executed twice at the same time, nor by a runner its row does *)
(* not name, through repeated, lost and concurrent claims, crashes and     *)
(* removals (workflow-runner.ts, claimRunForRunner).                       *)
THEOREM OneExecution == Spec => []ExecutedByAssignee
<1>1. IInv => ExecutedByAssignee
  BY DEF IInv
<1> QED
  BY <1>1, Invariance, PTL

(* A run that is over is not taken up again, by a claim that commits, a    *)
(* late report or a cancellation.                                          *)
THEOREM NotTakenUpAgain == Spec => OverForGood
<1>1. IInv /\ [Next]_vars =>
        [\A r \in Runs : status[r] \in Finished => status'[r] \in Finished]_vars
  <2> SUFFICES ASSUME IInv, Next,
                      NEW r \in Runs, status[r] \in Finished
               PROVE  status'[r] \in Finished
    BY DEF vars
  <2>1. TypeOK /\ LockedOK /\ ClaimsOK
    BY DEF IInv
  <2>2. ASSUME NEW q \in Runs, Create(q) \/ Cancel(q) \/ CancelWrite(q)
        PROVE  status'[r] \in Finished
    BY <2>1, <2>2 DEF TypeOK, Create, Cancel, CancelWrite, rows, Finished
  <2>3. ASSUME NEW c \in claims, ClaimCommit(c)
        PROVE  status'[r] \in Finished
    BY <2>1, <2>3 DEF TypeOK, LockedOK, ClaimCommit, Finished
  <2>4. ASSUME NEW c \in claims, ClaimFails(c)
        PROVE  status'[r] \in Finished
    BY <2>1, <2>4 DEF TypeOK, ClaimsOK, ClaimFails, Finished
  <2>5. ASSUME NEW c \in claims, ClaimLock(c) \/ ClaimNothing(c) \/ ClaimAnswer(c)
        PROVE  status'[r] \in Finished
    BY <2>5 DEF ClaimLock, ClaimNothing, ClaimAnswer, rows
  <2>6. ASSUME NEW f \in finishes, Finishing(f)
        PROVE  status'[r] \in Finished
    BY <2>1, <2>6 DEF TypeOK, Finishing, FinishResume, FinishWrite, Finishes, rows
  <2>7. ASSUME NEW k \in Runners,
               \/ Poll(k) \/ Heartbeat(k) \/ ScriptEnds(k) \/ Flush(k) \/ Complete(k)
               \/ Silence(k) \/ TimeOut(k) \/ Crash(k) \/ Start(k) \/ Remove(k)
        PROVE  status'[r] \in Finished
    BY <2>7 DEF Poll, Heartbeat, ScriptEnds, Flush, Complete, Silence, TimeOut, Crash,
                Start, Remove, rows
  <2>8. CASE StaleCheck \/ Restart
    BY <2>8 DEF StaleCheck, Restart, rows
  <2> QED
    BY <2>2, <2>3, <2>4, <2>5, <2>6, <2>7, <2>8 DEF Next, Claiming
<1> QED
  BY <1>1, Invariance, PTL DEF Spec, OverForGood

(* A registered runner gives up a result only when the run is down as      *)
(* over: the answer it waits for is the answer to its own report           *)
(* (runner.ts, executeRun; workflow-runner.ts, completeRunnerRun).         *)
THEOREM ResultsArrive == Spec => ResultNotDropped
<1>1. IInv /\ [Next]_vars =>
        [\A k \in registered :
           cli[k] \in {"flushing", "posting"} /\ cli'[k] = "idle"
             => status'[job[k]] \in Finished]_vars
  <2> SUFFICES ASSUME IInv, Next, NEW k \in registered,
                      cli[k] \in {"flushing", "posting"}, cli'[k] = "idle"
               PROVE  status'[job[k]] \in Finished
    BY DEF vars
  <2>1. /\ TypeOK /\ ClaimsOK /\ UnclaimedOK /\ ReportsOK /\ ExecutedByAssignee
        /\ k \in Runners /\ job[k] \in Runs /\ job[k] # 0
    BY NoRunZero DEF IInv, TypeOK, JobsOK, Busy
  <2>2. status[job[k]] # "in_progress" => status[job[k]] \in Finished
    BY <2>1 DEF TypeOK, UnclaimedOK
  <2>3. ASSUME NEW m \in Runners, Flush(m) \/ Complete(m)
        PROVE  status'[job[k]] \in Finished
    BY <2>1, <2>2, <2>3 DEF TypeOK, ExecutedByAssignee, Flush, Complete, Done, rows, runner
  <2>4. ASSUME NEW c \in claims, Claiming(c)
        PROVE  FALSE
    <3>1. c.by \in Runners /\ (c.live => cli[c.by] = "claiming")
      BY <2>1 DEF TypeOK, ClaimsOK, Claims
    <3>2. cli'[k] = cli[k] \/ (c.live /\ c.by = k) \/ cli'[k] = "running"
      BY <2>1, <2>4, <3>1 DEF TypeOK, Claiming, ClaimLock, ClaimNothing, ClaimCommit,
                              ClaimAnswer, ClaimFails, runner
    <3> QED
      BY <3>1, <3>2
  <2>5. ASSUME NEW f \in finishes, Finishing(f)
        PROVE  status'[job[k]] \in Finished
    <3>1. f.run \in Runs /\ f.outcome \in Finished /\ (f.by \in Runners => job[f.by] = f.run)
      BY <2>1 DEF TypeOK, ReportsOK, Finishes
    <3>2. f.by = k
      BY <2>1, <2>5 DEF TypeOK, Finishing, FinishResume, FinishWrite, Reported, Done, runner
    <3> QED
      BY <2>1, <2>2, <2>5, <3>1, <3>2
         DEF TypeOK, Finishing, FinishResume, FinishWrite, rows, runner
  <2>6. ASSUME NEW m \in Runners, \/ Poll(m) \/ Heartbeat(m) \/ ScriptEnds(m) \/ Silence(m)
                                  \/ TimeOut(m) \/ Crash(m) \/ Start(m) \/ Remove(m)
        PROVE  FALSE
    BY <2>1, <2>6 DEF TypeOK, Poll, Heartbeat, ScriptEnds, Silence, TimeOut, Crash, Start,
                      Remove, Retry, runner
  <2>7. CASE StaleCheck \/ Restart \/ \E r \in Runs : Create(r) \/ Cancel(r) \/ CancelWrite(r)
    BY <2>1, <2>7 DEF TypeOK, StaleCheck, Restart, Create, Cancel, CancelWrite, Retry, runner
  <2> QED
    BY <2>3, <2>4, <2>5, <2>6, <2>7 DEF Next
<1> QED
  BY <1>1, Invariance, PTL DEF Spec, ResultNotDropped
=============================================================================
