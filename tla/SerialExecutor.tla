--------------------------- MODULE SerialExecutor ---------------------------
(***************************************************************************)
(* What the deployment queue promises, without saying how: every lane (a   *)
(* server) executes at most Capacity jobs at a time, a service never has   *)
(* two executions at once in a lane, and the jobs of a service begin in    *)
(* the order they were submitted.  DeployQueue implements this.            *)
(***************************************************************************)
EXTENDS Integers, FiniteSets

CONSTANTS Lanes,        \* one lane per server
          Services,     \* applications and composes
          Capacity      \* the most jobs a lane ever executes at once

VARIABLES pending,      \* [Lanes -> set of jobs not begun]
          executing     \* [Lanes -> set of jobs begun and not complete]

xvars == <<pending, executing>>

Jobs == [id : Nat, group : Services]

XInit == /\ pending = [l \in Lanes |-> {}]
         /\ executing = [l \in Lanes |-> {}]

(* The pending jobs of lane l that may begin now: the oldest of each       *)
(* service that executes nothing in l.                                     *)
Oldest(l) ==
  { j \in pending[l] :
      /\ \A k \in executing[l] : k.group # j.group
      /\ \A k \in pending[l] : k.group = j.group => j.id <= k.id }

(* A new job, submitted after all others that are still known.             *)
Submit(l) == \E j \in pending'[l] \ pending[l] :
  /\ j \in Jobs
  /\ \A m \in Lanes : \A k \in pending[m] \cup executing[m] : k.id < j.id
  /\ pending' = [pending EXCEPT ![l] = @ \cup {j}]
  /\ UNCHANGED executing

Withdraw ==
  /\ \A l \in Lanes : pending'[l] \subseteq pending[l]
  /\ pending' = [l \in Lanes |-> pending'[l]]
  /\ UNCHANGED executing

Begin(l) ==
  \E S \in SUBSET Oldest(l) :
    /\ pending' = [pending EXCEPT ![l] = @ \ S]
    /\ executing' = [executing EXCEPT ![l] = @ \cup S]
    /\ S # {} => Cardinality(executing'[l]) <= Capacity

Complete(l, j) ==
  /\ j \in executing[l]
  /\ executing' = [executing EXCEPT ![l] = @ \ {j}]
  /\ UNCHANGED pending

(* The process hosting the queue dies: everything it held is gone.         *)
Crash == pending' = [l \in Lanes |-> {}] /\ executing' = [l \in Lanes |-> {}]

XNext == \/ \E l \in Lanes : Submit(l)
         \/ Withdraw
         \/ \E l \in Lanes : Begin(l)
         \/ \E l \in Lanes : \E j \in executing[l] : Complete(l, j)
         \/ Crash

XSpec == XInit /\ [][XNext]_xvars
=============================================================================
