-------------------------- MODULE DeployQueueProofs -------------------------
(***************************************************************************)
(* TLAPS proofs of the safety of DeployQueue and of its refinement of      *)
(* SerialExecutor, for every value of the constants.                       *)
(***************************************************************************)
EXTENDS DeployQueue, NatSets, TLAPS

(* Job ids are never reused while the process lives, and both sets of a    *)
(* partition are finite.                                                   *)
IdsOK ==
  \A p \in Partitions :
    /\ IsFiniteSet(waiting[p])
    /\ IsFiniteSet(active[p])
    /\ \A j \in waiting[p] \cup active[p] : j.id \in 1..seq
    /\ \A j, k \in waiting[p] : j.id = k.id => j = k
    /\ \A j, k \in active[p] : j.id = k.id => j = k
    /\ \A j \in waiting[p], k \in active[p] : j.id # k.id

(* schedule() reaches every partition that has jobs waiting.               *)
KeysOK == \A p \in Partitions : waiting[p] # {} => p \in keys

(* The inductive invariant.                                                *)
IInv == /\ TypeOK
        /\ IdsOK
        /\ KeysOK
        /\ GroupsSerialized
        /\ OldestRunsFirst
        /\ WithinCapacity
        /\ WorkConserving

-----------------------------------------------------------------------------
(* A nonempty set of jobs has an oldest one.                               *)
LEMMA OldestExists ==
  ASSUME NEW S \in SUBSET Jobs, S # {}, NEW m \in Nat,
         \A j \in S : j.id \in 1..m
  PROVE  \E j \in S : \A k \in S : j.id <= k.id
<1> DEFINE T == {j.id : j \in S}
<1>1. T \in SUBSET Nat /\ T # {} /\ \A t \in T : t <= m
  BY DEF Jobs
<1>2. IsFiniteSet(T)
  <2> HIDE DEF T
  <2> QED
    BY <1>1, FS_BoundedSetOfNaturals
<1>3. PICK x \in T : \A y \in T : x <= y
  BY <1>1, <1>2, SmallestOfNat
<1> QED
  BY <1>3

(* And a nonempty finite set of jobs has a youngest one.                   *)
LEMMA YoungestExists ==
  ASSUME NEW S \in SUBSET Jobs, S # {}, NEW m \in Nat,
         \A j \in S : j.id \in 1..m
  PROVE  \E j \in S : \A k \in S : k.id <= j.id
<1> DEFINE T == {m - j.id : j \in S}
<1>1. T \in SUBSET Nat /\ T # {} /\ \A t \in T : t <= m
  BY DEF Jobs
<1>2. IsFiniteSet(T)
  <2> HIDE DEF T
  <2> QED
    BY <1>1, FS_BoundedSetOfNaturals
<1>3. PICK x \in T : \A y \in T : x <= y
  BY <1>1, <1>2, SmallestOfNat
<1>4. PICK j \in S : x = m - j.id
  BY <1>3
<1>5. \A k \in S : m - j.id <= m - k.id
  BY <1>3, <1>4
<1> QED
  BY <1>4, <1>5 DEF Jobs

-----------------------------------------------------------------------------
(* The limits in use lie between 1 and Capacity.                           *)
LEMMA LimitsBounded == Limits \subseteq 1..Capacity
BY SettingsAssumption, CapacityAssumption DEF Limits, Normalize

(* Whatever value is stored, the limit read from it is one of Limits.      *)
LEMMA SettingIsLimit == \A s \in Settings : Normalize(s) \in Limits
BY DEF Limits

(* A waiting job of an idle group makes some job of that group startable.  *)
LEMMA IdleGroupHasHead ==
  ASSUME IInv, NEW p \in Partitions, NEW j \in waiting[p],
         j.group \notin activeGroups[p]
  PROVE  \E h \in Startable(p) : h.group = j.group
<1> DEFINE S == {k \in waiting[p] : k.group = j.group}
<1>1. /\ S \in SUBSET Jobs /\ S # {} /\ seq \in Nat
      /\ \A k \in S : k.id \in 1..seq
  BY DEF IInv, TypeOK, IdsOK
<1>2. PICK h \in S : \A k \in S : h.id <= k.id
  BY <1>1, OldestExists
<1> QED
  BY <1>2 DEF Startable

(* The loop never takes two jobs of one group.                             *)
LEMMA OneHeadPerGroup ==
  ASSUME IInv, NEW p \in Partitions, NEW j \in Startable(p),
         NEW k \in Startable(p), j.group = k.group
  PROVE  j = k
<1>1. j \in waiting[p] /\ k \in waiting[p] /\ j.id <= k.id /\ k.id <= j.id
  BY DEF Startable
<1>2. j.id \in Nat /\ k.id \in Nat
  BY <1>1 DEF IInv, TypeOK, Jobs
<1> QED
  BY <1>1, <1>2 DEF IInv, IdsOK

(* What the loop of drainPartition does to the number of running jobs: it  *)
(* stops at the limit (if it starts anything), and not before it while     *)
(* something could be started.                                             *)
LEMMA LoopFillsToLimit ==
  ASSUME IInv, NEW p \in Partitions, NEW n \in Limits
  PROVE  /\ IsFiniteSet(active[p] \cup Starts(p, n))
         /\ Cardinality(active[p] \cup Starts(p, n)) <= Capacity
         /\ Startable(p) \ Starts(p, n) # {} =>
              Cardinality(active[p] \cup Starts(p, n)) >= n
<1> DEFINE H == Startable(p)
           S == Starts(p, n)
           A == active[p]
           Before(j) == {k \in H : k.id < j.id}
<1>1. /\ H \subseteq waiting[p] /\ S \subseteq H /\ seq \in Nat
      /\ H \in SUBSET Jobs /\ S \in SUBSET Jobs /\ A \in SUBSET Jobs
      /\ \A j \in H : j.id \in 1..seq
  BY DEF IInv, TypeOK, IdsOK, Startable, Starts
<1>2. /\ IsFiniteSet(H) /\ IsFiniteSet(S) /\ IsFiniteSet(A)
      /\ \A j \in H : IsFiniteSet(Before(j))
  BY <1>1, FS_Subset DEF IInv, IdsOK
<1>3. A \cap S = {}
  BY <1>1 DEF IInv, IdsOK
<1>4. /\ IsFiniteSet(A \cup S)
      /\ Cardinality(A \cup S) = Cardinality(A) + Cardinality(S)
  <2>1. Cardinality(A \cap S) = 0
    BY <1>3, FS_EmptySet
  <2>2. Cardinality(A) \in Nat /\ Cardinality(S) \in Nat
    BY <1>2, FS_CardinalityType
  <2>3. IsFiniteSet(S) /\ IsFiniteSet(A)
    BY <1>2
  <2> HIDE DEF S, A, H
  <2>4. /\ IsFiniteSet(A \cup S)
        /\ Cardinality(A \cup S)
             = Cardinality(A) + Cardinality(S) - Cardinality(A \cap S)
    BY <2>3, FS_Union
  <2> QED
    BY <2>1, <2>2, <2>4
<1>5. /\ Cardinality(A) \in Nat /\ Cardinality(S) \in Nat
      /\ \A j \in H : Cardinality(Before(j)) \in Nat
      /\ Cardinality(A) <= Capacity
  BY <1>2, FS_CardinalityType DEF IInv, WithinCapacity
<1>6. n \in Nat /\ n <= Capacity /\ Capacity \in Nat
  BY LimitsBounded, CapacityAssumption
<1>7. \A j \in H : j \in S <=> Cardinality(A) + Cardinality(Before(j)) < n
  BY DEF Starts
<1>8. \A j, k \in H : j.id = k.id => j = k
  BY <1>1 DEF IInv, IdsOK
<1> HIDE DEF H, S, A
<1>9. Cardinality(A \cup S) <= Capacity
  <2>1. CASE S = {}
    BY <2>1, <1>4, <1>5, FS_EmptySet
  <2>2. CASE S # {}
    <3>1. PICK j \in S : \A k \in S : k.id <= j.id
      BY <2>2, <1>1, YoungestExists
    <3>2. S \ {j} \subseteq Before(j)
      BY <3>1, <1>1, <1>8 DEF Jobs
    <3>3. Cardinality(S) - 1 <= Cardinality(Before(j))
      <4>1. Cardinality(S \ {j}) = Cardinality(S) - 1
        BY <3>1, <1>2, FS_RemoveElement
      <4>2. Cardinality(S \ {j}) <= Cardinality(Before(j))
        <5>1. IsFiniteSet(Before(j))
          BY <3>1, <1>1, <1>2
        <5> HIDE DEF Before
        <5> QED
          BY <5>1, <3>2, FS_Subset
      <4> QED
        BY <4>1, <4>2
    <3>4. Cardinality(A) + Cardinality(Before(j)) < n
      BY <3>1, <1>1, <1>7
    <3>5. j \in H
      BY <3>1, <1>1
    <3> HIDE DEF Before
    <3> QED
      BY <3>3, <3>4, <3>5, <1>4, <1>5, <1>6
  <2> QED
    BY <2>1, <2>2
<1>10. ASSUME H \ S # {}
       PROVE  Cardinality(A \cup S) >= n
  <2>1. PICK j \in H \ S : \A k \in H \ S : j.id <= k.id
    BY <1>10, <1>1, OldestExists
  <2>2. Before(j) \subseteq S
    BY <2>1, <1>1 DEF Jobs
  <2>3. Cardinality(Before(j)) <= Cardinality(S)
    BY <2>2, <1>2, FS_Subset
  <2>4. ~ (Cardinality(A) + Cardinality(Before(j)) < n)
    BY <2>1, <1>7
  <2> HIDE DEF Before
  <2> QED
    BY <2>1, <2>3, <2>4, <1>4, <1>5, <1>6
<1> QED
  BY <1>4, <1>9, <1>10 DEF H, S, A

-----------------------------------------------------------------------------
(* A freshly constructed queue satisfies the inductive invariant.          *)
THEOREM InitIInv == Init => IInv
<1> SUFFICES ASSUME Init
             PROVE  IInv
  OBVIOUS
<1>1. TypeOK
  BY DEF Init, TypeOK, Empty
<1>2. IdsOK /\ WithinCapacity
  BY FS_EmptySet, CapacityAssumption DEF Init, IdsOK, WithinCapacity, Empty
<1>3. KeysOK /\ GroupsSerialized /\ OldestRunsFirst /\ WorkConserving
  BY DEF Init, KeysOK, GroupsSerialized, OldestRunsFirst, WorkConserving, Empty
<1> QED
  BY <1>1, <1>2, <1>3 DEF IInv

(* The four conjuncts that speak only of the jobs and the groups.          *)
JobsOK == IdsOK /\ GroupsSerialized /\ OldestRunsFirst /\ WithinCapacity

(* Steps of the queue that move no job keep them.                          *)
LEMMA JobsUntouched ==
  ASSUME IInv, UNCHANGED <<seq, waiting, active, activeGroups>>
  PROVE  JobsOK'
BY DEF IInv, JobsOK, IdsOK, GroupsSerialized, OldestRunsFirst, WithinCapacity

(* remove, removeWaiting and clearWaiting in one: jobs leave `waiting`.    *)
LEMMA FilterSteps ==
  ASSUME TypeOK,
         \/ \E i \in 1..MaxJobs : Remove(i)
         \/ \E g \in Groups : RemoveWaiting(g)
         \/ ClearWaiting
  PROVE  /\ waiting' \in [Partitions -> SUBSET Jobs]
         /\ \A p \in Partitions : waiting'[p] \subseteq waiting[p]
         /\ UNCHANGED <<processor, running, seq, keys, active, activeGroups,
                        reading, granted, setting>>
BY DEF TypeOK, Remove, RemoveWaiting, ClearWaiting, Filter

-----------------------------------------------------------------------------
(* Every step keeps the types: no drain is resumed that did not wait.      *)
THEOREM TypeStep == TypeOK /\ [Next]_vars => TypeOK'
<1> SUFFICES ASSUME TypeOK, [Next]_vars
             PROVE  TypeOK'
  OBVIOUS
<1>1. CASE Process
  BY <1>1 DEF TypeOK, Process, Schedule
<1>2. CASE Run
  BY <1>2 DEF TypeOK, Run, Schedule
<1>3. ASSUME NEW p \in Partitions, NEW g \in Groups, Add(p, g)
      PROVE  TypeOK'
  BY <1>3 DEF TypeOK, Add, Schedule, Jobs
<1>4. CASE \/ \E i \in 1..MaxJobs : Remove(i)
           \/ \E g \in Groups : RemoveWaiting(g)
           \/ ClearWaiting
  BY <1>4, FilterSteps DEF TypeOK
<1>5. CASE Close
  BY <1>5 DEF TypeOK, Close
<1>6. ASSUME NEW p \in Partitions, ReadLimit(p)
      PROVE  TypeOK'
  <2>1. reading' \in [Partitions -> Nat]
    BY <1>6 DEF TypeOK, ReadLimit
  <2>2. granted' \in [Partitions -> [Limits -> Nat]]
    <3>1. PICK n \in Limits : granted' = [granted EXCEPT ![p][n] = @ + 1]
      BY <1>6, SettingIsLimit DEF ReadLimit, TypeOK, Limits
    <3>2. granted[p] \in [Limits -> Nat]
      BY DEF TypeOK
    <3>3. [granted[p] EXCEPT ![n] = @ + 1] \in [Limits -> Nat]
      BY <3>2
    <3> QED
      BY <3>1, <3>3 DEF TypeOK
  <2> QED
    BY <2>1, <2>2, <1>6 DEF TypeOK, ReadLimit
<1>7. ASSUME NEW p \in Partitions, NEW n \in Limits, Drain(p, n)
      PROVE  TypeOK'
  <2>1. Starts(p, n) \subseteq waiting[p]
    BY DEF Starts, Startable
  <2>2. granted' \in [Partitions -> [Limits -> Nat]]
    BY <1>7 DEF TypeOK, Drain
  <2>3. /\ waiting' \in [Partitions -> SUBSET Jobs]
        /\ active' \in [Partitions -> SUBSET Jobs]
    BY <2>1, <1>7 DEF TypeOK, Drain
  <2>4. activeGroups' \in [Partitions -> SUBSET Groups]
    BY <2>1, <1>7 DEF TypeOK, Drain, Jobs
  <2> QED
    BY <2>2, <2>3, <2>4, <1>7 DEF TypeOK, Drain
<1>8. ASSUME NEW p \in Partitions, NEW j \in active[p], Finish(p, j)
      PROVE  TypeOK'
  BY <1>8 DEF TypeOK, Finish
<1>9. ASSUME NEW p \in Partitions, NEW s \in Settings, Configure(p, s)
      PROVE  TypeOK'
  BY <1>9 DEF TypeOK, Configure
<1>10. CASE Restart
  BY <1>10 DEF TypeOK, Restart, Empty
<1>11. CASE UNCHANGED vars
  BY <1>11 DEF TypeOK, vars
<1> QED
  BY <1>1, <1>2, <1>3, <1>4, <1>5, <1>6, <1>7, <1>8, <1>9, <1>10, <1>11
  DEF Next

-----------------------------------------------------------------------------
(* add() gives the new job the largest id, so the order of ids is kept.    *)
LEMMA AddJobs ==
  ASSUME IInv, NEW p \in Partitions, NEW g \in Groups, Add(p, g)
  PROVE  JobsOK'
<1> DEFINE new == [id |-> seq + 1, group |-> g]
<1>1. /\ waiting'[p] = waiting[p] \cup {new} /\ seq' = seq + 1 /\ seq \in Nat
      /\ \A q \in Partitions : q # p => waiting'[q] = waiting[q]
      /\ UNCHANGED <<active, activeGroups>>
      /\ new.id = seq + 1 /\ new.group = g
  BY DEF Add, IInv, TypeOK
<1> HIDE DEF new
<1>2. IdsOK'
  <2> SUFFICES ASSUME NEW q \in Partitions
               PROVE  IdsOK!(q)'
    BY DEF IdsOK
  <2>1. IsFiniteSet(waiting'[q]) /\ IsFiniteSet(active'[q])
    BY <1>1, FS_AddElement DEF IInv, IdsOK
  <2>2. \A j \in waiting[q] \cup active[q] : j.id \in 1..seq /\ j.id # new.id
    BY <1>1 DEF IInv, IdsOK
  <2> QED
    BY <1>1, <2>1, <2>2 DEF IInv, IdsOK
<1>3. OldestRunsFirst'
  <2> SUFFICES ASSUME NEW q \in Partitions, NEW j \in active'[q],
                      NEW k \in waiting'[q], j.group = k.group
               PROVE  j.id < k.id
    BY DEF OldestRunsFirst
  <2>1. j \in active[q] /\ j.id \in 1..seq
    BY <1>1 DEF IInv, IdsOK
  <2> QED
    BY <1>1, <2>1 DEF IInv, OldestRunsFirst
<1>4. GroupsSerialized' /\ WithinCapacity'
  BY <1>1 DEF IInv, GroupsSerialized, WithinCapacity
<1> QED
  BY <1>2, <1>3, <1>4 DEF JobsOK

(* Taking jobs out of the waiting arrays keeps order and exclusion.        *)
LEMMA FilterJobs ==
  ASSUME IInv,
         \A p \in Partitions : waiting'[p] \subseteq waiting[p],
         UNCHANGED <<seq, active, activeGroups>>
  PROVE  JobsOK'
<1>1. \A p \in Partitions : IsFiniteSet(waiting'[p])
  BY FS_Subset DEF IInv, IdsOK
<1>2. IdsOK'
  BY <1>1 DEF IInv, IdsOK
<1>3. OldestRunsFirst'
  BY DEF IInv, OldestRunsFirst
<1>4. GroupsSerialized' /\ WithinCapacity'
  BY DEF IInv, GroupsSerialized, WithinCapacity
<1> QED
  BY <1>2, <1>3, <1>4 DEF JobsOK

(* runJob's finally block frees the group of the finished job only.        *)
LEMMA FinishJobs ==
  ASSUME IInv, NEW p \in Partitions, NEW j \in active[p], Finish(p, j)
  PROVE  /\ active' = [active EXCEPT ![p] = @ \ {j}]
         /\ JobsOK'
<1>1. {k \in active[p] : k.id # j.id} = active[p] \ {j}
  BY DEF IInv, IdsOK
<1>2. active' = [active EXCEPT ![p] = @ \ {j}]
  BY <1>1 DEF Finish
<1>3. /\ active'[p] = active[p] \ {j}
      /\ activeGroups'[p] = activeGroups[p] \ {j.group}
      /\ \A q \in Partitions : q # p => /\ active'[q] = active[q]
                                      /\ activeGroups'[q] = activeGroups[q]
      /\ UNCHANGED <<seq, waiting>>
  BY <1>2 DEF Finish, IInv, TypeOK
<1>4. /\ \A q \in Partitions : active'[q] \subseteq active[q]
      /\ \A q \in Partitions : IsFiniteSet(active'[q])
  BY <1>3, FS_Subset DEF IInv, IdsOK
<1>5. IdsOK'
  BY <1>3, <1>4 DEF IInv, IdsOK
<1>6. OldestRunsFirst'
  BY <1>3, <1>4 DEF IInv, OldestRunsFirst
<1>7. GroupsSerialized'
  <2> SUFFICES ASSUME NEW q \in Partitions
               PROVE  GroupsSerialized!(q)'
    BY DEF GroupsSerialized
  <2>1. CASE q # p
    BY <2>1, <1>3 DEF IInv, GroupsSerialized
  <2>2. CASE q = p
    BY <2>2, <1>3 DEF IInv, GroupsSerialized
  <2> QED
    BY <2>1, <2>2
<1>8. WithinCapacity'
  <2> SUFFICES ASSUME NEW q \in Partitions
               PROVE  Cardinality(active'[q]) <= Capacity
    BY DEF WithinCapacity
  <2>1. /\ IsFiniteSet(active[q])
        /\ Cardinality(active'[q]) <= Cardinality(active[q])
    BY <1>4, FS_Subset DEF IInv, IdsOK
  <2>2. Cardinality(active[q]) \in Nat /\ Cardinality(active'[q]) \in Nat
    BY <2>1, <1>4, FS_CardinalityType
  <2> QED
    BY <2>1, <2>2, CapacityAssumption DEF IInv, WithinCapacity
<1> QED
  BY <1>2, <1>5, <1>6, <1>7, <1>8 DEF JobsOK

(* The loop of drainPartition keeps order, exclusion and capacity.         *)
LEMMA DrainJobs ==
  ASSUME IInv, NEW p \in Partitions, NEW n \in Limits, Drain(p, n)
  PROVE  JobsOK'
<1> DEFINE S == Starts(p, n)
<1>1. /\ waiting'[p] = waiting[p] \ S /\ active'[p] = active[p] \cup S
      /\ activeGroups'[p] = activeGroups[p] \cup {j.group : j \in S}
      /\ \A q \in Partitions : q # p => /\ active'[q] = active[q]
                                      /\ waiting'[q] = waiting[q]
                                      /\ activeGroups'[q] = activeGroups[q]
      /\ seq' = seq
  BY DEF Drain, IInv, TypeOK
<1>2. S \subseteq Startable(p) /\ Startable(p) \subseteq waiting[p]
  BY DEF Starts, Startable
<1>3. IsFiniteSet(active'[p]) /\ Cardinality(active'[p]) <= Capacity
  BY <1>1, LoopFillsToLimit
<1>4. \A j, k \in S : j.group = k.group => j = k
  BY <1>2, OneHeadPerGroup
<1>5. \A j \in S : \A k \in active[p] : j.group # k.group
  BY <1>2 DEF Startable, IInv, GroupsSerialized
<1>6. \A j \in S : \A k \in waiting[p] : j.group = k.group => j.id <= k.id
  BY <1>2 DEF Startable
<1> HIDE DEF S
<1>7. IdsOK'
  <2> SUFFICES ASSUME NEW q \in Partitions
               PROVE  IdsOK!(q)'
    BY DEF IdsOK
  <2>1. CASE q # p
    BY <2>1, <1>1 DEF IInv, IdsOK
  <2>2. CASE q = p
    <3>1. IsFiniteSet(waiting'[p])
      BY <1>1, FS_Subset DEF IInv, IdsOK
    <3> QED
      BY <3>1, <2>2, <1>1, <1>2, <1>3 DEF IInv, IdsOK
  <2> QED
    BY <2>1, <2>2
<1>8. GroupsSerialized'
  <2> SUFFICES ASSUME NEW q \in Partitions
               PROVE  GroupsSerialized!(q)'
    BY DEF GroupsSerialized
  <2>1. CASE q # p
    BY <2>1, <1>1 DEF IInv, GroupsSerialized
  <2>2. CASE q = p
    BY <2>2, <1>1, <1>4, <1>5 DEF IInv, GroupsSerialized
  <2> QED
    BY <2>1, <2>2
<1>9. OldestRunsFirst'
  <2> SUFFICES ASSUME NEW q \in Partitions, NEW j \in active'[q],
                      NEW k \in waiting'[q], j.group = k.group
               PROVE  j.id < k.id
    BY DEF OldestRunsFirst
  <2>1. CASE q # p \/ j \in active[q]
    BY <2>1, <1>1 DEF IInv, OldestRunsFirst
  <2>2. CASE q = p /\ j \in S
    <3>1. j \in waiting[p] /\ k \in waiting[p] /\ k # j /\ j.id <= k.id
      BY <2>2, <1>1, <1>2, <1>6
    <3>2. j.id # k.id /\ j.id \in Nat /\ k.id \in Nat
      BY <3>1 DEF IInv, IdsOK, TypeOK, Jobs
    <3> QED
      BY <3>1, <3>2
  <2> QED
    BY <2>1, <2>2, <1>1
<1>10. WithinCapacity'
  BY <1>1, <1>3 DEF IInv, WithinCapacity
<1> QED
  BY <1>7, <1>8, <1>9, <1>10 DEF JobsOK

(* So every step keeps what the invariant says of the jobs.                *)
THEOREM JobsStep == IInv /\ [Next]_vars => JobsOK'
<1> SUFFICES ASSUME IInv, [Next]_vars
             PROVE  JobsOK'
  OBVIOUS
<1>1. ASSUME NEW p \in Partitions, NEW g \in Groups, Add(p, g)
      PROVE  JobsOK'
  BY <1>1, AddJobs
<1>2. CASE \/ \E i \in 1..MaxJobs : Remove(i)
           \/ \E g \in Groups : RemoveWaiting(g)
           \/ ClearWaiting
  BY <1>2, FilterSteps, FilterJobs DEF IInv
<1>3. ASSUME NEW p \in Partitions, NEW n \in Limits, Drain(p, n)
      PROVE  JobsOK'
  BY <1>3, DrainJobs
<1>4. ASSUME NEW p \in Partitions, NEW j \in active[p], Finish(p, j)
      PROVE  JobsOK'
  BY <1>4, FinishJobs
<1>5. CASE Restart
  BY <1>5, FS_EmptySet, CapacityAssumption
  DEF Restart, Empty, JobsOK, IdsOK, GroupsSerialized, OldestRunsFirst,
      WithinCapacity
<1>6. CASE \/ Process \/ Run \/ Close \/ UNCHANGED vars
           \/ \E p \in Partitions : ReadLimit(p)
           \/ \E p \in Partitions, s \in Settings : Configure(p, s)
  BY <1>6, JobsUntouched DEF Process, Run, Close, ReadLimit, Configure, vars
<1> QED
  BY <1>1, <1>2, <1>3, <1>4, <1>5, <1>6 DEF Next

-----------------------------------------------------------------------------
(* If nothing is startable without new jobs, nothing becomes startable when *)
(* jobs are only taken away from a partition whose groups do not change.    *)
LEMMA FilterWork ==
  ASSUME IInv, KeysOK', TypeOK',
         \A p \in Partitions : waiting'[p] \subseteq waiting[p],
         UNCHANGED <<processor, running, active, activeGroups, reading, granted>>
  PROVE  WorkConserving'
<1> SUFFICES ASSUME NEW p \in Partitions, running', processor',
                    ~DrainsUnderWay(p)', Startable(p)' # {}
             PROVE  \E n \in Limits : Cardinality(active'[p]) >= n
  BY DEF WorkConserving
<1>1. PICK j \in waiting[p] : j.group \notin activeGroups[p]
  BY DEF Startable
<1>2. Startable(p) # {}
  BY <1>1, IdleGroupHasHead
<1> QED
  BY <1>2 DEF IInv, WorkConserving, DrainsUnderWay

(* When no other drain is under way, a drain leaves nothing to start below *)
(* its limit.                                                              *)
LEMMA DrainWork ==
  ASSUME IInv, NEW p \in Partitions, NEW n \in Limits, Drain(p, n)
  PROVE  WorkConserving'
<1> SUFFICES ASSUME NEW q \in Partitions, running', processor',
                    ~DrainsUnderWay(q)', Startable(q)' # {}
             PROVE  \E m \in Limits : Cardinality(active'[q]) >= m
  BY DEF WorkConserving
<1>1. CASE q # p
  <2>1. /\ waiting'[q] = waiting[q] /\ active'[q] = active[q]
        /\ activeGroups'[q] = activeGroups[q] /\ reading'[q] = reading[q]
        /\ granted'[q] = granted[q] /\ UNCHANGED <<running, processor>>
    BY <1>1 DEF Drain, IInv, TypeOK
  <2>2. Startable(q)' = Startable(q)
    BY <2>1 DEF Startable
  <2> QED
    BY <2>1, <2>2 DEF IInv, WorkConserving, DrainsUnderWay
<1>2. CASE q = p
  <2>1. /\ waiting'[p] = waiting[p] \ Starts(p, n)
        /\ active'[p] = active[p] \cup Starts(p, n)
        /\ activeGroups'[p]
             = activeGroups[p] \cup {j.group : j \in Starts(p, n)}
    BY DEF Drain, IInv, TypeOK
  <2>2. PICK j \in waiting'[p] : j.group \notin activeGroups'[p]
    BY <1>2 DEF Startable
  <2>3. PICK h \in Startable(p) : h.group = j.group
    BY <2>1, <2>2, IdleGroupHasHead
  <2>4. h \notin Starts(p, n)
    BY <2>1, <2>2, <2>3
  <2> QED
    BY <1>2, <2>1, <2>3, <2>4, LoopFillsToLimit
<1> QED
  BY <1>1, <1>2

(* After a step that leaves a drain under way wherever jobs wait, no        *)
(* wake-up is missing.                                                      *)
LEMMA DrainsEverywhere ==
  ASSUME \A p \in Partitions :
           running' /\ processor' /\ waiting'[p] # {} => reading'[p] > 0
  PROVE  WorkConserving'
BY DEF WorkConserving, Startable, DrainsUnderWay

(* So no step loses a wake-up, and every partition with jobs is known.     *)
THEOREM WorkStep == IInv /\ [Next]_vars => KeysOK' /\ WorkConserving'
<1> SUFFICES ASSUME IInv, [Next]_vars
             PROVE  KeysOK' /\ WorkConserving'
  OBVIOUS
<1>0. TypeOK'
  BY TypeStep DEF IInv
<1>1. CASE Process \/ Run
  <2>1. KeysOK'
    BY <1>1 DEF Process, Run, IInv, KeysOK
  <2>2. \A p \in Partitions :
          running' /\ processor' /\ waiting'[p] # {} => reading'[p] > 0
    <3> SUFFICES ASSUME NEW p \in Partitions, processor', waiting'[p] # {}
                 PROVE  reading'[p] > 0
      OBVIOUS
    <3>1. p \in keys /\ reading[p] \in Nat
      BY <1>1 DEF Process, Run, IInv, TypeOK, KeysOK
    <3>2. reading'[p] = reading[p] + 1
      <4>1. CASE Process
        BY <4>1, <3>1 DEF Process, Schedule
      <4>2. CASE Run
        <5>1. processor
          BY <4>2 DEF Run
        <5> QED
          BY <4>2, <5>1, <3>1 DEF Run, Schedule
      <4> QED
        BY <1>1, <4>1, <4>2
    <3> QED
      BY <3>1, <3>2
  <2> QED
    BY <2>1, <2>2, DrainsEverywhere
<1>2. ASSUME NEW p \in Partitions, NEW g \in Groups, Add(p, g)
      PROVE  KeysOK' /\ WorkConserving'
  <2>1. KeysOK'
    BY <1>2 DEF Add, IInv, TypeOK, KeysOK
  <2>2. \A q \in Partitions :
          running' /\ processor' /\ waiting'[q] # {} => reading'[q] > 0
    BY <1>2, <2>1 DEF Add, Schedule, IInv, TypeOK, KeysOK
  <2> QED
    BY <2>1, <2>2, DrainsEverywhere
<1>3. CASE \/ \E i \in 1..MaxJobs : Remove(i)
           \/ \E g \in Groups : RemoveWaiting(g)
           \/ ClearWaiting
  <2>1. /\ \A p \in Partitions : waiting'[p] \subseteq waiting[p]
        /\ UNCHANGED <<processor, running, keys, active, activeGroups,
                       reading, granted>>
    BY <1>3, FilterSteps DEF IInv
  <2>2. KeysOK'
    BY <2>1 DEF IInv, KeysOK
  <2> QED
    BY <1>0, <2>1, <2>2, FilterWork
<1>4. CASE Close
  BY <1>4 DEF Close, IInv, KeysOK, WorkConserving
<1>5. ASSUME NEW p \in Partitions, ReadLimit(p)
      PROVE  KeysOK' /\ WorkConserving'
  <2>1. KeysOK'
    BY <1>5 DEF ReadLimit, IInv, KeysOK
  <2>2. PICK n \in Limits : granted' = [granted EXCEPT ![p][n] = @ + 1]
    BY <1>5, SettingIsLimit DEF ReadLimit, IInv, TypeOK, Limits
  <2>3. granted'[p][n] > 0
    <3>1. granted[p] \in [Limits -> Nat] /\ granted \in [Partitions -> [Limits -> Nat]]
      BY DEF IInv, TypeOK
    <3>2. granted'[p][n] = granted[p][n] + 1
      BY <2>2, <3>1
    <3> QED
      BY <3>1, <3>2
  <2>4. \A q \in Partitions : q # p => /\ granted'[q] = granted[q]
                                     /\ reading'[q] = reading[q]
    BY <1>5, <2>2 DEF ReadLimit, IInv, TypeOK
  <2>5. \A q \in Partitions :
          /\ ~DrainsUnderWay(q)' => ~DrainsUnderWay(q)
          /\ Startable(q)' = Startable(q)
    BY <1>5, <2>3, <2>4 DEF DrainsUnderWay, Startable, ReadLimit
  <2>6. WorkConserving'
    BY <1>5, <2>5 DEF IInv, WorkConserving, ReadLimit
  <2> QED
    BY <2>1, <2>6
<1>6. ASSUME NEW p \in Partitions, NEW n \in Limits, Drain(p, n)
      PROVE  KeysOK' /\ WorkConserving'
  <2>1. KeysOK'
    BY <1>6 DEF Drain, IInv, TypeOK, KeysOK
  <2> QED
    BY <1>6, <2>1, DrainWork
<1>7. ASSUME NEW p \in Partitions, NEW j \in active[p], Finish(p, j)
      PROVE  KeysOK' /\ WorkConserving'
  <2>1. KeysOK'
    BY <1>7 DEF Finish, IInv, KeysOK
  <2>2. reading'[p] > 0
    BY <1>7 DEF Finish, IInv, TypeOK
  <2>3. \A q \in Partitions : q # p =>
          /\ active'[q] = active[q] /\ activeGroups'[q] = activeGroups[q]
          /\ reading'[q] = reading[q]
    BY <1>7 DEF Finish, IInv, TypeOK
  <2>4. UNCHANGED <<running, processor, waiting, granted>>
    BY <1>7 DEF Finish
  <2>5. WorkConserving'
    BY <2>2, <2>3, <2>4 DEF IInv, WorkConserving, DrainsUnderWay, Startable
  <2> QED
    BY <2>1, <2>5
<1>8. CASE UNCHANGED vars \/ \E p \in Partitions, s \in Settings : Configure(p, s)
  BY <1>8
  DEF vars, Configure, IInv, KeysOK, WorkConserving, DrainsUnderWay, Startable
<1>9. CASE Restart
  BY <1>9 DEF Restart, Empty, KeysOK, WorkConserving
<1> QED
  BY <1>1, <1>2, <1>3, <1>4, <1>5, <1>6, <1>7, <1>8, <1>9 DEF Next

-----------------------------------------------------------------------------
(* The inductive invariant holds in every reachable state.                 *)
THEOREM Invariance == Spec => []IInv
<1>1. Init => IInv
  BY InitIInv
<1>2. IInv /\ [Next]_vars => IInv'
  <2> SUFFICES ASSUME IInv, [Next]_vars
               PROVE  IInv'
    OBVIOUS
  <2>1. TypeOK'
    BY TypeStep DEF IInv
  <2> QED
    BY <2>1, JobsStep, WorkStep DEF IInv, JobsOK
<1> QED
  BY <1>1, <1>2, PTL DEF Spec

(* Every reachable state of the queue is well typed.                       *)
THEOREM TypeCorrect == Spec => []TypeOK
<1>1. IInv => TypeOK
  BY DEF IInv
<1> QED
  BY <1>1, Invariance, PTL

(* Two jobs of one service never run in parallel in a partition.           *)
THEOREM SerializedGroups == Spec => []GroupsSerialized
<1>1. IInv => GroupsSerialized
  BY DEF IInv
<1> QED
  BY <1>1, Invariance, PTL

(* A running job is older than the waiting jobs of its service.            *)
THEOREM FifoWithinGroup == Spec => []OldestRunsFirst
<1>1. IInv => OldestRunsFirst
  BY DEF IInv
<1> QED
  BY <1>1, Invariance, PTL

(* Overlapping drains with stale limits never exceed the largest limit.    *)
THEOREM CapacityRespected == Spec => []WithinCapacity
<1>1. IInv => WithinCapacity
  BY DEF IInv
<1> QED
  BY <1>1, Invariance, PTL

(* No wake-up is ever lost.                                                *)
THEOREM NoLostWakeup == Spec => []WorkConserving
<1>1. IInv => WorkConserving
  BY DEF IInv
<1> QED
  BY <1>1, Invariance, PTL

-----------------------------------------------------------------------------
(* add() is a submission: its job is new and the youngest.                 *)
LEMMA AddSubmits ==
  ASSUME IInv, NEW p \in Partitions, NEW g \in Groups, Add(p, g)
  PROVE  Executor!Submit(p)
<1> DEFINE new == [id |-> seq + 1, group |-> g]
<1>1. /\ seq \in Nat /\ new \in Jobs /\ new.id = seq + 1
      /\ waiting' = [waiting EXCEPT ![p] = @ \cup {new}]
      /\ active' = active
  BY DEF Add, IInv, TypeOK, Jobs
<1>2. \A q \in Partitions : \A k \in waiting[q] \cup active[q] : k.id \in 1..seq
  BY DEF IInv, IdsOK
<1> HIDE DEF new
<1>3. \A q \in Partitions : \A k \in waiting[q] \cup active[q] : k.id < new.id
  BY <1>1, <1>2
<1>4. new \in waiting'[p] \ waiting[p]
  BY <1>1, <1>3 DEF IInv, TypeOK
<1> QED
  BY <1>1, <1>3, <1>4 DEF Executor!Submit, Executor!Jobs, Jobs

(* A drain begins oldest jobs of idle services, within the capacity. (The  *)
(* instance has a copy of Cardinality of its own: both are expanded.)      *)
LEMMA DrainBegins ==
  ASSUME IInv, NEW p \in Partitions, NEW n \in Limits, Drain(p, n)
  PROVE  Executor!Begin(p)
<1> DEFINE S == Starts(p, n)
<1>1. S \in SUBSET Executor!Oldest(p)
  BY DEF Starts, Startable, Executor!Oldest, IInv, GroupsSerialized
<1>2. /\ waiting' = [waiting EXCEPT ![p] = @ \ S]
      /\ active' = [active EXCEPT ![p] = @ \cup S]
  BY DEF Drain
<1>3. Cardinality(active'[p]) <= Capacity
  BY <1>2, LoopFillsToLimit DEF IInv, TypeOK
<1> HIDE DEF S
<1> QED
  BY <1>1, <1>2, <1>3 DEF Executor!Begin, Executor!Cardinality, Cardinality

(* Every step of the queue is a step of the executor, or a stutter.        *)
THEOREM StepRefines == IInv /\ [Next]_vars => [Executor!XNext]_(Executor!xvars)
<1> SUFFICES ASSUME IInv, [Next]_vars
             PROVE  [Executor!XNext]_(Executor!xvars)
  OBVIOUS
<1>1. ASSUME NEW p \in Partitions, NEW g \in Groups, Add(p, g)
      PROVE  Executor!XNext
  BY <1>1, AddSubmits DEF Executor!XNext
<1>2. CASE \/ \E i \in 1..MaxJobs : Remove(i)
           \/ \E g \in Groups : RemoveWaiting(g)
           \/ ClearWaiting
  BY <1>2, FilterSteps DEF Executor!XNext, Executor!Withdraw, IInv
<1>3. ASSUME NEW p \in Partitions, NEW n \in Limits, Drain(p, n)
      PROVE  Executor!XNext
  BY <1>3, DrainBegins DEF Executor!XNext
<1>4. ASSUME NEW p \in Partitions, NEW j \in active[p], Finish(p, j)
      PROVE  Executor!XNext
  BY <1>4, FinishJobs DEF Finish, Executor!XNext, Executor!Complete
<1>5. CASE Restart
  BY <1>5 DEF Restart, Empty, Executor!XNext, Executor!Crash
<1>6. CASE \/ Process \/ Run \/ Close \/ UNCHANGED vars
           \/ \E p \in Partitions : ReadLimit(p)
           \/ \E p \in Partitions, s \in Settings : Configure(p, s)
  BY <1>6
  DEF Process, Run, Close, ReadLimit, Configure, vars, Executor!xvars
<1> QED
  BY <1>1, <1>2, <1>3, <1>4, <1>5, <1>6 DEF Next

(* The deployment queue is a serial executor: at most Capacity executions  *)
(* per server, one per service, begun in the order of submission.          *)
THEOREM Refinement == Spec => ImplementsExecutor
<1>1. Init => Executor!XInit
  BY DEF Init, Empty, Executor!XInit
<1> QED
  BY <1>1, StepRefines, Invariance, PTL
  DEF Spec, ImplementsExecutor, Executor!XSpec
=============================================================================
