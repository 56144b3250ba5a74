------------------------- MODULE WorkflowRunsProofs -------------------------
(***************************************************************************)
(* TLAPS proofs about WorkflowRuns: the run queue never executes two runs  *)
(* that conflict and strands none, and no row is without somebody who will *)
(* act on it, for any finite set of runs and any faults and restarts.      *)
(***************************************************************************)
EXTENDS WorkflowRuns, NatSets, TLAPS

Entries == [run : Runs, place : Nat \ {0}]

(* The runs that have been created.                                        *)
Known == {r \in Runs : created[r] > 0}

(* createdAt numbers the created runs without repetition.                  *)
RowsOK ==
  /\ \A r \in Runs : created[r] <= Cardinality(Known)
  /\ \A r, q \in Known : created[r] = created[q] => r = q

(* Whatever is at work concerns runs that have been created.               *)
KnownOK ==
  /\ \A r \in Runs : r \in Known <=> status[r] # "none"
  /\ \A r \in Runs : creating[r] # "no" => r \in Known
  /\ \A r \in Runs : others[r] \subseteq Known
  /\ \A c \in cancels : c.run \in Known /\ c.by \in Known \cup {User}
  /\ \A w \in waiting : w.run \in Known
  /\ active \subseteq Known
  /\ snapshot \subseteq Known

(* The waiting array has every run once, at a place of its own.            *)
Distinct(W) == \A v, w \in W : v # w => v.run # w.run /\ v.place # w.place

PlacesOK ==
  /\ \E m \in Nat : \A w \in waiting : w.place <= m
  /\ Distinct(waiting)

(* The inductive invariant behind the queue's properties.                  *)
IInv == /\ TypeOK
        /\ RowsOK
        /\ KnownOK
        /\ PlacesOK
        /\ ActiveRunsCompatible
        /\ WaitingIsBlocked

-----------------------------------------------------------------------------
(* The state of the queue.                                                 *)
QueueOK ==
  /\ waiting \in SUBSET Entries
  /\ active \in SUBSET Runs
  /\ exec \in [Runs -> Places]
  /\ \A r \in Runs : r \in active <=> exec[r] # "no"
  /\ PlacesOK
  /\ ActiveRunsCompatible
  /\ WaitingIsBlocked

(* What pump() is given: no conflict among the active runs.                *)
PumpInput(W, A, E) ==
  /\ W \in SUBSET Entries /\ A \in SUBSET Runs /\ E \in [Runs -> Places]
  /\ Distinct(W)
  /\ \E m \in Nat : \A w \in W : w.place <= m
  /\ \A r, q \in A : ~Conflict(r, q)
  /\ \A r \in Runs : r \in A <=> E[r] # "no"

(* What it leaves behind: the queue in order, nobody lost, nobody added    *)
(* and no executor disturbed.                                              *)
Pumped(W, A, E) ==
  /\ QueueOK'
  /\ \A w \in waiting' : w \in W
  /\ \A r \in active' : r \in A \/ \E w \in W : r = w.run
  /\ A \subseteq active'
  /\ \A w \in W : w \in waiting' \/ w.run \in active'
  /\ \A r \in Runs : exec'[r] = E[r] \/ (E[r] = "no" /\ exec'[r] = "load")
  /\ aborted' \subseteq aborted /\ timedOut' \subseteq timedOut
  /\ killed' \subseteq killed

(* pump() does so whatever it is given (queue.ts, pump).                   *)
LEMMA PumpCorrect ==
  ASSUME NEW W, NEW A, NEW E, PumpInput(W, A, E), Pump(W, A, E)
  PROVE  Pumped(W, A, E)
<1>0. /\ W \in SUBSET Entries /\ A \in SUBSET Runs /\ E \in [Runs -> Places]
      /\ Distinct(W)
      /\ \E m \in Nat : \A w \in W : w.place <= m
      /\ \A r, q \in A : ~Conflict(r, q)
      /\ \A r \in Runs : r \in A <=> E[r] # "no"
  BY DEF PumpInput
<1>1. PICK P \in SUBSET W :
        /\ \A w \in W :
             w \in P <=>
               ~Blocked(w.run, A \cup {v.run : v \in {u \in P : u.place < w.place}})
        /\ waiting' = W \ P
        /\ active' = A \cup {w.run : w \in P}
        /\ exec' = [r \in Runs |-> IF r \in {w.run : w \in P} THEN "load" ELSE E[r]]
  BY DEF Pump
<1>2. \A w \in W : w.run \in Runs /\ w.place \in Nat
  BY <1>0 DEF Entries
<1>3. /\ active' \in SUBSET Runs /\ A \subseteq active'
      /\ exec' \in [Runs -> Places]
      /\ \A r \in Runs : r \in active' <=> exec'[r] # "no"
      /\ \A r \in Runs : exec'[r] = E[r] \/ (exec'[r] = "load" /\ r \in {w.run : w \in P})
  BY <1>0, <1>1, <1>2 DEF Places
<1>4. ASSUME NEW w \in P, NEW r \in A
      PROVE  ~Conflict(r, w.run) /\ ~Conflict(w.run, r)
  BY <1>0, <1>1, <1>4 DEF Blocked, Conflict
<1>5. ASSUME NEW v \in P, NEW w \in P, v.place < w.place
      PROVE  ~Conflict(v.run, w.run) /\ ~Conflict(w.run, v.run)
  <2>1. v.run \in A \cup {x.run : x \in {u \in P : u.place < w.place}}
    BY <1>5
  <2> QED
    BY <1>1, <2>1 DEF Blocked, Conflict
<1>6. ASSUME NEW v \in P, NEW w \in P
      PROVE  ~Conflict(v.run, w.run)
  <2>1. CASE v = w
    BY <2>1 DEF Conflict
  <2>2. CASE v # w
    <3>1. v.place < w.place \/ w.place < v.place
      BY <1>0, <1>2, <2>2 DEF Distinct
    <3> QED
      BY <3>1, <1>5
  <2> QED
    BY <2>1, <2>2
<1>7. ActiveRunsCompatible'
  <2> SUFFICES ASSUME NEW r \in active', NEW q \in active'
               PROVE  ~Conflict(r, q)
    BY DEF ActiveRunsCompatible, Conflict
  <2>1. r \in A \/ \E v \in P : r = v.run
    BY <1>1
  <2>2. q \in A \/ \E w \in P : q = w.run
    BY <1>1
  <2> QED
    BY <2>1, <2>2, <1>0, <1>4, <1>6
<1>8. WaitingIsBlocked'
  <2> SUFFICES ASSUME NEW w \in W \ P
               PROVE  Blocked(w.run, active')
    BY <1>1 DEF WaitingIsBlocked, Blocked
  <2>1. Blocked(w.run, A \cup {v.run : v \in {u \in P : u.place < w.place}})
    BY <1>1
  <2> QED
    BY <1>1, <2>1 DEF Blocked
<1>9. PlacesOK'
  <2>1. PICK m \in Nat : \A w \in W : w.place <= m
    BY <1>0
  <2> QED
    BY <1>0, <1>1, <2>1 DEF PlacesOK, Distinct
<1>10. ASSUME NEW r \in Runs, exec'[r] # E[r]
       PROVE  E[r] = "no" /\ exec'[r] = "load"
  <2>1. PICK w \in P : r = w.run
    BY <1>3, <1>10
  <2>2. r \notin A
    BY <1>1, <2>1 DEF Blocked
  <2> QED
    BY <1>0, <1>3, <1>10, <2>2
<1>11. waiting' \in SUBSET Entries
  BY <1>0, <1>1
<1>12. QueueOK'
  BY <1>3, <1>7, <1>8, <1>9, <1>11 DEF QueueOK
<1>13. /\ \A w \in waiting' : w \in W
       /\ \A w \in W : w \in waiting' \/ w.run \in active'
       /\ \A r \in active' : r \in A \/ \E w \in W : r = w.run
  BY <1>1
<1>14. /\ aborted' \subseteq aborted /\ timedOut' \subseteq timedOut
       /\ killed' \subseteq killed
  BY DEF Pump
<1> QED
  BY <1>3, <1>10, <1>12, <1>13, <1>14 DEF Pumped

-----------------------------------------------------------------------------
(* The next free place is beyond all others.                               *)
LEMMA PlaceBeyond ==
  ASSUME TypeOK, PlacesOK
  PROVE  /\ NextPlace \in Nat \ {0}
         /\ \A w \in waiting : w.place < NextPlace
<1>1. CASE waiting = {}
  BY <1>1 DEF NextPlace
<1>2. CASE waiting # {}
  <2> DEFINE T == {w.place : w \in waiting}
  <2>1. PICK m \in Nat : \A w \in waiting : w.place <= m
    BY DEF PlacesOK
  <2>2. T \in SUBSET Nat /\ T # {} /\ \A t \in T : t <= m
    BY <1>2, <2>1 DEF TypeOK
  <2>3. \E x \in T : \A y \in T : x >= y
    <3> HIDE DEF T
    <3>1. PICK x \in T : \A y \in T : y <= x
      BY <2>2, LargestOfNat
    <3> QED
      BY <2>2, <3>1
  <2>4. Max(T) \in T /\ \A y \in T : Max(T) >= y
    BY <2>3 DEF Max
  <2>5. PICK x \in T : x = Max(T)
    BY <2>4
  <2>6. NextPlace = x + 1
    BY <1>2, <2>5 DEF NextPlace
  <2>7. \A y \in T : x >= y
    BY <2>4, <2>5
  <2>8. x \in Nat /\ \A w \in waiting : w.place \in Nat /\ x >= w.place
    BY <2>2, <2>7
  <2> QED
    BY <2>6, <2>8
<1> QED
  BY <1>1, <1>2

(* How many of the runs of N were created before r.                        *)
Older(N, r) == {y \in N : created[y] < created[r]}
Order(N, r) == Cardinality(Older(N, r))

(* Counting the new runs created before gives each a place of its own.     *)
LEMMA OrderIsInjective ==
  ASSUME TypeOK, RowsOK, NEW N \in SUBSET Known
  PROVE  /\ \A r \in N : Order(N, r) \in 0..Cardinality(N)
         /\ \A r, q \in N : r # q => Order(N, r) # Order(N, q)
<1>1. N \subseteq Runs /\ \A r \in N : created[r] \in Nat
  BY DEF Known, TypeOK
<1>2. IsFiniteSet(N) /\ Cardinality(N) \in Nat
  BY <1>1, RunsAssumption, FS_Subset, FS_CardinalityType
<1>3. ASSUME NEW r \in N
      PROVE  /\ IsFiniteSet(Older(N, r)) /\ Order(N, r) \in Nat
             /\ Order(N, r) <= Cardinality(N)
  <2>1. Older(N, r) \in SUBSET N
    BY DEF Older
  <2> QED
    BY <1>2, <2>1, FS_Subset, FS_CardinalityType DEF Order
<1>4. ASSUME NEW r \in N, NEW q \in N, created[r] < created[q]
      PROVE  Order(N, r) # Order(N, q)
  <2>1. Older(N, r) \in SUBSET Older(N, q) /\ r \in Older(N, q) /\ r \notin Older(N, r)
    BY <1>1, <1>4 DEF Older
  <2>2. IsFiniteSet(Older(N, q))
    BY <1>3
  <2> QED
    BY <2>1, <2>2, FS_Subset DEF Order
<1>5. ASSUME NEW r \in N, NEW q \in N, r # q
      PROVE  created[r] < created[q] \/ created[q] < created[r]
  BY <1>1, <1>5 DEF RowsOK
<1>6. ASSUME NEW r \in N, NEW q \in N, r # q
      PROVE  Order(N, r) # Order(N, q)
  BY <1>4, <1>5, <1>6
<1> QED
  BY <1>2, <1>3, <1>6

(* Enqueueing known runs and pumping keeps all that concerns the queue.    *)
LEMMA EnqueueCorrect ==
  ASSUME IInv, NEW R \in SUBSET Known, Enqueue(R)
  PROVE  /\ QueueOK'
         /\ \A w \in waiting' : w.run \in Known
         /\ active' \subseteq Known
         /\ \A r \in R : r \in active' \/ \E w \in waiting' : w.run = r
         /\ \A w \in waiting : w \in waiting' \/ w.run \in active'
         /\ \A r \in Runs : exec'[r] = exec[r] \/ (exec[r] = "no" /\ exec'[r] = "load")
         /\ aborted' \subseteq aborted /\ timedOut' \subseteq timedOut
         /\ killed' \subseteq killed
<1> DEFINE N == {r \in R : r \notin active /\ \A w \in waiting : w.run # r}
           place(x) == NextPlace + Order(N, x)
           New == {[run |-> r, place |-> place(r)] : r \in N}
           W == waiting \cup New
<1>1. Pump(W, active, exec)
  BY DEF Enqueue, Order, Older
<1>2. N \in SUBSET Known /\ N \subseteq Runs
  BY DEF Known
<1>3. /\ \A r \in N : Order(N, r) \in 0..Cardinality(N)
      /\ \A r, q \in N : r # q => Order(N, r) # Order(N, q)
  <2> HIDE DEF N
  <2> QED
    BY <1>2, OrderIsInjective DEF IInv
<1>4. /\ NextPlace \in Nat \ {0}
      /\ \A w \in waiting : w.place < NextPlace
  BY PlaceBeyond DEF IInv
<1>5. Cardinality(N) \in Nat
  BY <1>2, RunsAssumption, FS_Subset, FS_CardinalityType
<1> HIDE DEF N
<1>6. \A r \in N : /\ place(r) \in Nat \ {0}
                   /\ NextPlace <= place(r)
                   /\ place(r) <= NextPlace + Cardinality(N)
                   /\ \A q \in N : r # q => place(r) # place(q)
  <2> TAKE r \in N
  <2>1. Order(N, r) \in 0..Cardinality(N)
    BY <1>3
  <2>2. ASSUME NEW q \in N, r # q
        PROVE  place(r) # place(q)
    <3>1. Order(N, q) \in 0..Cardinality(N)
      BY <1>3
    <3>2. Order(N, r) # Order(N, q)
      BY <1>3, <2>2
    <3> QED
      BY <1>4, <1>5, <2>1, <3>1, <3>2
  <2>3. /\ place(r) \in Nat \ {0}
        /\ NextPlace <= place(r)
        /\ place(r) <= NextPlace + Cardinality(N)
    <3> QED
      BY <1>4, <1>5, <2>1
  <2> QED
    BY <2>2, <2>3
<1>7. waiting \in SUBSET Entries /\ \A w \in waiting : w.place \in Nat
  BY DEF IInv, TypeOK, Entries
<1> HIDE DEF place
<1>8. W \in SUBSET Entries
  <2>1. \A r \in N : [run |-> r, place |-> place(r)] \in Entries
    BY <1>2, <1>6 DEF Entries
  <2> QED
    BY <2>1, <1>7
<1>9. Distinct(W)
  <2> SUFFICES ASSUME NEW v \in W, NEW w \in W, v # w
               PROVE  v.run # w.run /\ v.place # w.place
    BY DEF Distinct
  <2>1. CASE v \in waiting /\ w \in waiting
    BY <2>1 DEF IInv, PlacesOK, Distinct
  <2>2. CASE v \in New /\ w \in New
    <3>1. PICK r \in N : v = [run |-> r, place |-> place(r)]
      BY <2>2
    <3>2. PICK q \in N : w = [run |-> q, place |-> place(q)]
      BY <2>2
    <3>3. r # q
      BY <3>1, <3>2
    <3> QED
      BY <3>1, <3>2, <3>3, <1>6
  <2>3. ASSUME NEW x \in waiting, NEW y \in New
        PROVE  x.run # y.run /\ x.place # y.place
    <3>1. PICK r \in N : y = [run |-> r, place |-> place(r)]
      OBVIOUS
    <3>2. x.place < NextPlace /\ NextPlace <= place(r) /\ place(r) \in Nat
      BY <1>4, <1>6
    <3> QED
      BY <3>1, <3>2, <1>4, <1>7 DEF N
  <2> QED
    BY <2>1, <2>2, <2>3
<1>10. \E m \in Nat : \A w \in W : w.place <= m
  <2>1. NextPlace + Cardinality(N) \in Nat
    BY <1>4, <1>5
  <2>2. ASSUME NEW w \in W
        PROVE  w.place <= NextPlace + Cardinality(N)
    <3>1. CASE w \in waiting
      <4>1. w.place < NextPlace
        BY <3>1, <1>4
      <4> QED
        BY <1>4, <1>5, <4>1, <3>1, <1>7
    <3>2. CASE w \in New
      BY <3>2, <1>6
    <3> QED
      BY <3>1, <3>2
  <2> QED
    BY <2>1, <2>2
<1>11. /\ active \in SUBSET Runs /\ exec \in [Runs -> Places]
       /\ \A r \in Runs : r \in active <=> exec[r] # "no"
       /\ \A r, q \in active : ~Conflict(r, q)
  BY DEF IInv, TypeOK, ActiveRunsCompatible
<1>12. \A w \in W : w.run \in Known
  BY <1>2 DEF IInv, KnownOK
<1>13. \A r \in R : r \in active \/ \E w \in W : w.run = r
  <2> TAKE r \in R
  <2>1. CASE r \in N
    <3>1. [run |-> r, place |-> place(r)] \in W
      BY <2>1
    <3> QED
      BY <3>1
  <2>2. CASE r \notin N
    BY <2>2 DEF N
  <2> QED
    BY <2>1, <2>2
<1>14. waiting \subseteq W
  OBVIOUS
<1> HIDE DEF W, New
<1>15. PumpInput(W, active, exec)
  BY <1>8, <1>9, <1>10, <1>11 DEF PumpInput
<1>16. Pumped(W, active, exec)
  BY <1>1, <1>15, PumpCorrect
<1>17. active \subseteq Known
  BY DEF IInv, KnownOK
<1> QED
  BY <1>12, <1>13, <1>14, <1>17, <1>16 DEF Pumped

(* The end of a run keeps all that concerns the queue as well.             *)
LEMMA LeaveCorrect ==
  ASSUME IInv, NEW r \in Runs, Leave(r)
  PROVE  /\ QueueOK'
         /\ \A w \in waiting' : w.run \in Known
         /\ active' \subseteq Known
         /\ \A w \in waiting : w \in waiting' \/ w.run \in active'
         /\ exec[r] = "leave" /\ exec'[r] \in {"no", "load"}
         /\ \A q \in Runs \ {r} :
              exec'[q] = exec[q] \/ (exec[q] = "no" /\ exec'[q] = "load")
         /\ aborted' \subseteq aborted /\ timedOut' \subseteq timedOut
         /\ killed' \subseteq killed
<1> DEFINE A == active \ {r}
           E == [exec EXCEPT ![r] = "no"]
<1>1. Pump(waiting, A, E)
  BY DEF Leave
<1>2. /\ waiting \in SUBSET Entries /\ A \in SUBSET Runs /\ E \in [Runs -> Places]
      /\ \A q \in Runs : q \in A <=> E[q] # "no"
  BY DEF IInv, TypeOK, Entries, Places
<1>3. Distinct(waiting) /\ \E m \in Nat : \A w \in waiting : w.place <= m
  BY DEF IInv, PlacesOK
<1>4. \A p, q \in A : ~Conflict(p, q)
  BY DEF IInv, ActiveRunsCompatible
<1>5. A \subseteq Known /\ \A w \in waiting : w.run \in Known
  BY DEF IInv, KnownOK
<1>6. E[r] = "no" /\ \A q \in Runs \ {r} : E[q] = exec[q]
  BY DEF IInv, TypeOK
<1>7. exec[r] = "leave"
  BY DEF Leave
<1> HIDE DEF A, E
<1>8. PumpInput(waiting, A, E)
  BY <1>2, <1>3, <1>4 DEF PumpInput
<1>9. Pumped(waiting, A, E)
  BY <1>1, <1>8, PumpCorrect
<1> QED
  BY <1>5, <1>6, <1>7, <1>9 DEF Pumped

-----------------------------------------------------------------------------
(* Nothing has been created or queued at first.                            *)
THEOREM InitIInv == Init => IInv
<1> SUFFICES ASSUME Init
             PROVE  IInv
  OBVIOUS
<1>1. TypeOK
  BY BoundAssumption DEF Init, TypeOK, Statuses, Finished, Calls, Places
<1>2. RowsOK
  <2>1. Known = {}
    BY DEF Init, Known
  <2>2. Cardinality(Known) = 0
    BY <2>1, FS_EmptySet
  <2> QED
    BY <2>1, <2>2 DEF Init, RowsOK
<1>3. KnownOK
  <2>1. Known = {}
    BY DEF Init, Known
  <2> QED
    BY <2>1 DEF Init, KnownOK
<1>4. PlacesOK /\ ActiveRunsCompatible /\ WaitingIsBlocked
  BY DEF Init, PlacesOK, Distinct, ActiveRunsCompatible, WaitingIsBlocked
<1> QED
  BY <1>1, <1>2, <1>3, <1>4 DEF IInv

(* Steps that start and end no run, and let nobody into the queue, leave   *)
(* it in order.                                                            *)
LEMMA QueueUntouched ==
  ASSUME IInv, waiting' \subseteq waiting, active' = active,
         exec' \in [Runs -> Places],
         \A r \in Runs : exec'[r] = "no" <=> exec[r] = "no"
  PROVE  QueueOK'
<1>1. /\ waiting' \in SUBSET Entries /\ active' \in SUBSET Runs
      /\ \A r \in Runs : r \in active' <=> exec'[r] # "no"
  BY DEF IInv, TypeOK, Entries
<1>2. PlacesOK'
  BY DEF IInv, PlacesOK, Distinct
<1>3. ActiveRunsCompatible' /\ WaitingIsBlocked'
  BY DEF IInv, ActiveRunsCompatible, WaitingIsBlocked, Blocked, Conflict
<1> QED
  BY <1>1, <1>2, <1>3 DEF QueueOK

(* Every step keeps the queue in order.                                    *)
THEOREM QueueStep == IInv /\ [Next]_vars => QueueOK'
<1> SUFFICES ASSUME IInv, [Next]_vars
             PROVE  QueueOK'
  OBVIOUS
<1>0. exec \in [Runs -> Places]
  BY DEF IInv, TypeOK
<1>1. CASE UNCHANGED <<waiting, active, exec>>
  BY <1>0, <1>1, QueueUntouched
<1>2. ASSUME NEW c \in cancels, CancelDecide(c)
      PROVE  QueueOK'
  <2>1. waiting' \subseteq waiting /\ UNCHANGED <<active, exec>>
    BY <1>2 DEF CancelDecide
  <2> QED
    BY <1>0, <2>1, QueueUntouched
<1>3. ASSUME NEW r \in Runs, NEW e \in Places \ {"no"}, exec[r] # "no",
             exec' = [exec EXCEPT ![r] = e], UNCHANGED <<waiting, active>>
      PROVE  QueueOK'
  <2>1. /\ exec' \in [Runs -> Places]
        /\ \A q \in Runs : exec'[q] = "no" <=> exec[q] = "no"
    BY <1>0, <1>3
  <2> QED
    BY <1>3, <2>1, QueueUntouched
<1>4. ASSUME NEW r \in Runs, EnqueueCreated(r)
      PROVE  QueueOK'
  <2>1. {r} \in SUBSET Known
    BY <1>4 DEF EnqueueCreated, IInv, KnownOK
  <2>2. Enqueue({r})
    BY <1>4 DEF EnqueueCreated
  <2> QED
    BY <2>1, <2>2, EnqueueCorrect
<1>5. CASE Requeue
  <2>1. Batch \in SUBSET Known
    BY DEF Batch, IInv, KnownOK
  <2>2. Enqueue(Batch)
    BY <1>5 DEF Requeue
  <2> QED
    BY <2>1, <2>2, EnqueueCorrect
<1>6. ASSUME NEW r \in Runs, Leave(r)
      PROVE  QueueOK'
  BY <1>6, LeaveCorrect
<1>7. CASE Restart
  <2>1. waiting' = {} /\ active' = {} /\ exec' = [r \in Runs |-> "no"]
    BY <1>7 DEF Restart
  <2> QED
    BY <2>1 DEF QueueOK, PlacesOK, Distinct, ActiveRunsCompatible, WaitingIsBlocked,
                Entries, Places
<1>8. ASSUME NEW r \in Runs, Executing(r) \/ ScriptEnds(r) \/ LinkDrops(r)
      PROVE  QueueOK'
  <2>1. CASE Leave(r)
    BY <2>1, <1>6
  <2>2. CASE Load(r)
    BY <2>2, <1>3 DEF Load, Places
  <2>3. CASE Mark(r)
    BY <2>3, <1>3 DEF Mark, Places
  <2>4. CASE Prepare(r)
    BY <2>4, <1>3 DEF Prepare, Places
  <2>5. CASE Conclude(r)
    BY <2>5, <1>3 DEF Conclude, Places
  <2>6. CASE Record(r)
    BY <2>6, <1>3 DEF Record, Places
  <2>7. CASE LinkDrops(r)
    BY <2>7, <1>3 DEF LinkDrops, Places
  <2>8. CASE ScriptEnds(r)
    <3>1. CASE exec[r] = "remote"
      BY <2>8, <3>1, <1>3 DEF ScriptEnds, Places
    <3>2. CASE exec[r] # "remote"
      BY <2>8, <3>2, <1>1 DEF ScriptEnds
    <3> QED
      BY <3>1, <3>2
  <2> QED
    BY <1>8, <2>1, <2>2, <2>3, <2>4, <2>5, <2>6, <2>7, <2>8 DEF Executing
<1> QED
  BY <1>1, <1>2, <1>4, <1>5, <1>7, <1>8
     DEF Next, vars, Create, Creating, FindOthers, CancelOther, UserCancel,
         Cancelling, CancelWrite, ActStarts, Timeout, Recover, FailInterrupted,
         ReadQueued, FailRemoved, BootFails, RemoveServer

-----------------------------------------------------------------------------
(* createdAt: a new run comes after all others, and rows are never deleted. *)
THEOREM RowsStep == IInv /\ [Next]_vars => RowsOK' /\ Known \subseteq Known'
<1> SUFFICES ASSUME IInv, [Next]_vars
             PROVE  RowsOK' /\ Known \subseteq Known'
  OBVIOUS
<1>1. CASE UNCHANGED created
  BY <1>1 DEF IInv, RowsOK, Known
<1>2. ASSUME NEW r \in Runs, Create(r)
      PROVE  RowsOK' /\ Known \subseteq Known'
  <2>1. IsFiniteSet(Known) /\ Cardinality(Known) \in Nat
    <3>1. Known \in SUBSET Runs
      BY DEF Known
    <3> QED
      BY <3>1, RunsAssumption, FS_Subset, FS_CardinalityType
  <2>2. created \in [Runs -> Nat] /\ r \notin Known
    BY <1>2 DEF IInv, TypeOK, KnownOK, Known, Create
  <2>3. created' = [created EXCEPT ![r] = 1 + Cardinality(Known)]
    BY <1>2 DEF Create, Known
  <2>4. Known' = Known \cup {r}
    BY <2>1, <2>2, <2>3 DEF Known
  <2>5. Cardinality(Known') = Cardinality(Known) + 1
    BY <2>1, <2>2, <2>4, FS_AddElement
  <2>6. \A q \in Runs : created[q] <= Cardinality(Known)
    BY DEF IInv, RowsOK
  <2>7. \A q \in Runs : created'[q] <= Cardinality(Known')
    BY <2>1, <2>2, <2>3, <2>5, <2>6
  <2>8. \A p, q \in Known' : created'[p] = created'[q] => p = q
    BY <2>1, <2>2, <2>3, <2>4, <2>6 DEF IInv, RowsOK, Known
  <2> QED
    BY <2>4, <2>7, <2>8 DEF RowsOK
<1> QED
  BY <1>1, <1>2
     DEF Next, vars, db, Creating, FindOthers, CancelOther, EnqueueCreated,
         UserCancel, Cancelling, CancelDecide, CancelWrite, Executing, Load, Mark,
         Prepare, Conclude, Record, Leave, ActStarts, ScriptEnds, LinkDrops,
         Timeout, Restart, RemoveServer, Recover, FailInterrupted, ReadQueued,
         Requeue, FailRemoved, BootFails

(* A call that breaks off leaves what other calls do alone.                *)
LEMMA BreaksOffCorrect ==
  ASSUME TypeOK, NEW b, NEW R \in SUBSET Runs, BreaksOff(b, R)
  PROVE  /\ creating' \in [Runs -> {"no", "find", "cancel", "done", "before"}]
         /\ others' \in [Runs -> SUBSET Runs]
         /\ struck' \in SUBSET Runs /\ mishaps' \in Nat
         /\ struck \cup R \cup ({b} \cap Runs) \subseteq struck'
         /\ \A q \in Runs : \/ creating'[q] = creating[q] /\ others'[q] = others[q]
                            \/ q = b /\ others'[q] = {}
BY DEF BreaksOff, Throws, Fault, TypeOK

(* Every step keeps the types of the variables.                            *)
THEOREM TypeStep == IInv /\ [Next]_vars => TypeOK'
<1> SUFFICES ASSUME IInv, [Next]_vars
             PROVE  TypeOK'
  OBVIOUS
<1> USE DEF db, requests, executor, startup, faults
<1>0. TypeOK /\ QueueOK'
  BY QueueStep DEF IInv
<1>1. CASE UNCHANGED vars
  BY <1>0, <1>1 DEF TypeOK, vars
<1>2. ASSUME NEW r \in Runs, Create(r)
      PROVE  TypeOK'
  <2>1. Cardinality({q \in Runs : created[q] > 0}) \in Nat
    BY RunsAssumption, FS_Subset, FS_CardinalityType
  <2> QED
    BY <1>0, <1>2, <2>1 DEF TypeOK, Create, Statuses, Finished
<1>3. ASSUME NEW r \in Runs, Creating(r)
      PROVE  TypeOK'
  <2>1. CASE FindOthers(r)
    BY <1>0, <2>1 DEF TypeOK, FindOthers, Throws, Fault
  <2>2. CASE CancelOther(r)
    <3>1. CASE UNCHANGED <<creating, struck, mishaps>>
      BY <1>0, <2>2, <3>1 DEF TypeOK, CancelOther, BreaksOff, Call, Calls
    <3>2. CASE BreaksOff(r, {}) /\ UNCHANGED cancels
      <4>1. /\ creating' \in [Runs -> {"no", "find", "cancel", "done", "before"}]
            /\ others' \in [Runs -> SUBSET Runs]
            /\ struck' \in SUBSET Runs /\ mishaps' \in Nat
        BY <1>0, <3>2, BreaksOffCorrect
      <4> QED
        BY <1>0, <2>2, <3>2, <4>1 DEF TypeOK, CancelOther
    <3> QED
      BY <2>2, <3>1, <3>2 DEF CancelOther
  <2>3. CASE EnqueueCreated(r)
    <3>1. Enqueue({r}) /\ {r} \in SUBSET Known
      BY <2>3 DEF EnqueueCreated, IInv, KnownOK
    <3>2. /\ aborted' \subseteq aborted /\ timedOut' \subseteq timedOut
          /\ killed' \subseteq killed
      BY <3>1, EnqueueCorrect
    <3> QED
      BY <1>0, <2>3, <3>2 DEF TypeOK, QueueOK, EnqueueCreated, Entries
  <2> QED
    BY <1>3, <2>1, <2>2, <2>3 DEF Creating
<1>4. ASSUME NEW r \in Runs, UserCancel(r)
      PROVE  TypeOK'
  BY <1>0, <1>4 DEF TypeOK, UserCancel, Call, Calls
<1>5. ASSUME NEW c \in cancels, Cancelling(c)
      PROVE  TypeOK'
  <2>1. c \in Calls /\ c.run \in Runs
    BY <1>0 DEF TypeOK, Calls
  <2>2. CASE CancelDecide(c)
    <3>1. [c EXCEPT !.at = "write"] \in Calls
      BY <2>1 DEF Calls
    <3>2. cancels' \in SUBSET Calls
      BY <1>0, <2>2, <3>1 DEF TypeOK, CancelDecide
    <3>3. /\ aborted' \in SUBSET Runs /\ killed' \in SUBSET Runs
      BY <1>0, <2>1, <2>2 DEF TypeOK, CancelDecide, Signalled
    <3>4. /\ creating' \in [Runs -> {"no", "find", "cancel", "done", "before"}]
          /\ others' \in [Runs -> SUBSET Runs]
          /\ struck' \in SUBSET Runs /\ mishaps' \in Nat
      <4>1. CASE UNCHANGED <<creating, others, struck, mishaps>>
        BY <1>0, <4>1 DEF TypeOK
      <4>2. CASE BreaksOff(c.by, {})
        BY <1>0, <4>2, BreaksOffCorrect
      <4> QED
        BY <2>2, <4>1, <4>2 DEF CancelDecide
    <3> QED
      BY <1>0, <2>2, <3>2, <3>3, <3>4 DEF TypeOK, QueueOK, CancelDecide, Entries
  <2>3. CASE CancelWrite(c)
    <3>1. CASE UNCHANGED <<creating, others, struck, mishaps>>
      BY <1>0, <2>1, <2>3, <3>1 DEF TypeOK, CancelWrite, Statuses, Finished
    <3>2. CASE BreaksOff(c.by, {c.run}) /\ UNCHANGED status
      <4>1. /\ creating' \in [Runs -> {"no", "find", "cancel", "done", "before"}]
            /\ others' \in [Runs -> SUBSET Runs]
            /\ struck' \in SUBSET Runs /\ mishaps' \in Nat
        BY <1>0, <2>1, <3>2, BreaksOffCorrect
      <4> QED
        BY <1>0, <2>1, <2>3, <3>2, <4>1 DEF TypeOK, CancelWrite
    <3> QED
      BY <2>3, <3>1, <3>2 DEF CancelWrite
  <2> QED
    BY <1>5, <2>2, <2>3 DEF Cancelling
<1>6. ASSUME NEW r \in Runs, Executing(r)
      PROVE  TypeOK'
  <2>1. CASE Load(r)
    BY <1>0, <2>1 DEF TypeOK, QueueOK, Load, Throws, Fault
  <2>2. CASE Mark(r)
    BY <1>0, <2>2 DEF TypeOK, QueueOK, Mark, Statuses, Throws, Fault
  <2>3. CASE Prepare(r)
    BY <1>0, <2>3 DEF TypeOK, QueueOK, Prepare, Finished
  <2>4. CASE Conclude(r)
    BY <1>0, <2>4 DEF TypeOK, QueueOK, Conclude, Finished
  <2>5. CASE Record(r)
    BY <1>0, <2>5 DEF TypeOK, QueueOK, Record, Statuses, Finished, Throws, Fault
  <2>6. CASE Leave(r)
    <3>1. /\ aborted' \subseteq aborted /\ timedOut' \subseteq timedOut
          /\ killed' \subseteq killed
      BY <2>6, LeaveCorrect
    <3> QED
      BY <1>0, <2>6, <3>1 DEF TypeOK, QueueOK, Leave, Entries
  <2> QED
    BY <1>6, <2>1, <2>2, <2>3, <2>4, <2>5, <2>6 DEF Executing
<1>7. ASSUME NEW r \in Runs,
             ActStarts(r) \/ ScriptEnds(r) \/ LinkDrops(r) \/ Timeout(r)
      PROVE  TypeOK'
  <2>1. CASE ActStarts(r)
    BY <1>0, <2>1 DEF TypeOK, ActStarts
  <2>2. CASE ScriptEnds(r)
    BY <1>0, <2>2 DEF TypeOK, QueueOK, ScriptEnds, Finished
  <2>3. CASE LinkDrops(r)
    BY <1>0, <2>3 DEF TypeOK, QueueOK, LinkDrops, Finished, Fault
  <2>4. CASE Timeout(r)
    BY <1>0, <2>4 DEF TypeOK, Timeout, Signalled, Fault
  <2> QED
    BY <1>7, <2>1, <2>2, <2>3, <2>4
<1>8. CASE Restart
  BY <1>0, <1>8 DEF TypeOK, QueueOK, Restart, Finished, Places
<1>9. CASE Recover
  <2>1. CASE FailInterrupted
    BY <1>0, <2>1 DEF TypeOK, FailInterrupted, Statuses, Finished
  <2>2. CASE ReadQueued
    BY <1>0, <2>2 DEF TypeOK, ReadQueued
  <2>3. CASE Requeue
    <3>1. Enqueue(Batch) /\ Batch \in SUBSET Known
      BY <2>3 DEF Requeue, Batch, IInv, KnownOK
    <3>2. /\ aborted' \subseteq aborted /\ timedOut' \subseteq timedOut
          /\ killed' \subseteq killed
      BY <3>1, EnqueueCorrect
    <3> QED
      BY <1>0, <2>3, <3>2 DEF TypeOK, QueueOK, Requeue, Batch, Entries
  <2>4. CASE FailRemoved
    BY <1>0, <2>4 DEF TypeOK, FailRemoved, Statuses, Finished
  <2>5. CASE BootFails
    BY <1>0, <2>5 DEF TypeOK, BootFails, Throws, Fault
  <2> QED
    BY <1>9, <2>1, <2>2, <2>3, <2>4, <2>5 DEF Recover
<1>10. ASSUME NEW s \in Servers, RemoveServer(s)
       PROVE  TypeOK'
  BY <1>0, <1>10 DEF TypeOK, RemoveServer, Fault
<1> QED
  BY <1>1, <1>2, <1>3, <1>4, <1>5, <1>6, <1>7, <1>8, <1>9, <1>10 DEF Next

-----------------------------------------------------------------------------
(* Nothing is ever done for a run that has not been created.               *)
THEOREM KnownStep == IInv /\ [Next]_vars => KnownOK'
<1> SUFFICES ASSUME IInv, [Next]_vars
             PROVE  KnownOK'
  OBVIOUS
<1> USE DEF db, requests, executor, startup, faults
<1>0. TypeOK /\ KnownOK /\ Known \subseteq Known'
  BY RowsStep DEF IInv
<1>1. CASE UNCHANGED vars
  BY <1>0, <1>1 DEF KnownOK, Known, vars
<1>2. ASSUME NEW r \in Runs, Create(r)
      PROVE  KnownOK'
  <2>1. Cardinality(Known) \in Nat
    <3>1. Known \in SUBSET Runs
      BY DEF Known
    <3> QED
      BY <3>1, RunsAssumption, FS_Subset, FS_CardinalityType
  <2>2. PICK n \in Nat : created' = [created EXCEPT ![r] = 1 + n]
    BY <1>2, <2>1 DEF Create, Known
  <2>3. Known' = Known \cup {r}
    BY <1>0, <2>2 DEF TypeOK, Known
  <2> HIDE DEF Known
  <2>4. \A q \in Runs : q \in Known' <=> status'[q] # "none"
    BY <1>0, <1>2, <2>3 DEF TypeOK, KnownOK, Create
  <2> QED
    BY <1>0, <1>2, <2>3, <2>4 DEF TypeOK, KnownOK, Create
<1>3. ASSUME UNCHANGED created,
             \A r \in Runs : status'[r] = "none" <=> status[r] = "none",
             \A r \in Runs : creating'[r] # "no" => r \in Known,
             \A r \in Runs : others'[r] \subseteq Known,
             \A c \in cancels' : c.run \in Known /\ c.by \in Known \cup {User},
             \A w \in waiting' : w.run \in Known,
             active' \subseteq Known, snapshot' \subseteq Known
      PROVE  KnownOK'
  <2>1. Known' = Known
    BY <1>3 DEF Known
  <2> QED
    BY <1>0, <1>3, <2>1 DEF KnownOK
<1>4. ASSUME NEW r \in Runs, Creating(r)
      PROVE  KnownOK'
  <2>0. r \in Known
    BY <1>0, <1>4 DEF KnownOK, Creating, FindOthers, CancelOther, EnqueueCreated
  <2>1. CASE FindOthers(r)
    <3>1. \A o \in others'[r] : o \in Known
      BY <1>0, <2>1 DEF TypeOK, KnownOK, FindOthers
    <3>2. \A q \in Runs \ {r} : others'[q] = others[q] /\ creating'[q] = creating[q]
      BY <1>0, <2>1 DEF TypeOK, FindOthers
    <3> QED
      BY <1>0, <1>3, <2>0, <2>1, <3>1, <3>2 DEF KnownOK, FindOthers
  <2>2. CASE CancelOther(r)
    <3>1. CASE UNCHANGED <<creating, struck, mishaps>>
      <4>1. \A q \in Runs : others'[q] \subseteq Known
        BY <1>0, <2>2, <3>1 DEF TypeOK, KnownOK, CancelOther, BreaksOff
      <4>2. \A c \in cancels' : c.run \in Known /\ c.by \in Known \cup {User}
        BY <1>0, <2>0, <2>2, <3>1 DEF KnownOK, CancelOther, Call
      <4> QED
        BY <1>0, <1>3, <2>2, <3>1, <4>1, <4>2 DEF KnownOK, CancelOther
    <3>2. CASE BreaksOff(r, {}) /\ UNCHANGED cancels
      <4>1. \A q \in Runs : \/ creating'[q] = creating[q] /\ others'[q] = others[q]
                            \/ q = r /\ others'[q] = {}
        BY <1>0, <3>2, BreaksOffCorrect
      <4>2. /\ \A q \in Runs : creating'[q] # "no" => q \in Known
            /\ \A q \in Runs : others'[q] \subseteq Known
        BY <1>0, <2>0, <4>1 DEF KnownOK
      <4> QED
        BY <1>0, <1>3, <2>2, <3>2, <4>2 DEF KnownOK, CancelOther
    <3> QED
      BY <2>2, <3>1, <3>2 DEF CancelOther
  <2>3. CASE EnqueueCreated(r)
    <3>1. Enqueue({r}) /\ {r} \in SUBSET Known
      BY <2>3 DEF EnqueueCreated, IInv, KnownOK
    <3>2. active' \subseteq Known /\ \A w \in waiting' : w.run \in Known
      BY <3>1, EnqueueCorrect
    <3>3. \A q \in Runs : creating'[q] # "no" => creating[q] # "no"
      BY <1>0, <2>3 DEF TypeOK, EnqueueCreated
    <3> QED
      BY <1>0, <1>3, <2>3, <3>2, <3>3 DEF KnownOK, EnqueueCreated
  <2> QED
    BY <1>4, <2>1, <2>2, <2>3 DEF Creating
<1>5. ASSUME NEW r \in Runs, UserCancel(r)
      PROVE  KnownOK'
  <2>1. \A c \in cancels' : c.run \in Known /\ c.by \in Known \cup {User}
    BY <1>0, <1>5 DEF TypeOK, KnownOK, UserCancel, Call
  <2> QED
    BY <1>0, <1>3, <1>5, <2>1 DEF KnownOK, UserCancel
<1>6. ASSUME NEW c \in cancels, Cancelling(c)
      PROVE  KnownOK'
  <2>1. /\ c \in Calls /\ c.run \in Known /\ c.run \in Runs
        /\ c.by \in Known \cup {User}
    BY <1>0 DEF TypeOK, KnownOK, Calls
  <2>2. \A d \in cancels' : d.run \in Known /\ d.by \in Known \cup {User}
    <3>1. /\ [c EXCEPT !.at = "write"].run = c.run
          /\ [c EXCEPT !.at = "write"].by = c.by
      BY <2>1 DEF Calls
    <3> QED
      BY <1>0, <1>6, <2>1, <3>1 DEF KnownOK, Cancelling, CancelDecide, CancelWrite
  <2>3. /\ \A q \in Runs : creating'[q] # "no" => q \in Known
        /\ \A q \in Runs : others'[q] \subseteq Known
    <3>1. CASE UNCHANGED <<creating, others>>
      BY <1>0, <3>1 DEF KnownOK
    <3>2. ASSUME NEW R \in SUBSET Runs, BreaksOff(c.by, R)
          PROVE  /\ \A q \in Runs : creating'[q] # "no" => q \in Known
                 /\ \A q \in Runs : others'[q] \subseteq Known
      <4>1. \A q \in Runs : \/ creating'[q] = creating[q] /\ others'[q] = others[q]
                            \/ q = c.by /\ others'[q] = {}
        BY <1>0, <3>2, BreaksOffCorrect
      <4>2. \A q \in Runs : q = c.by => q \in Known
        BY <2>1, RoutingAssumption
      <4> QED
        BY <1>0, <4>1, <4>2 DEF KnownOK
    <3> QED
      BY <1>6, <2>1, <3>1, <3>2 DEF Cancelling, CancelDecide, CancelWrite
  <2>4. CASE CancelDecide(c)
    BY <1>0, <1>3, <2>2, <2>3, <2>4 DEF KnownOK, CancelDecide
  <2>5. CASE CancelWrite(c)
    <3>1. \A q \in Runs : status'[q] = "none" <=> status[q] = "none"
      BY <1>0, <2>1, <2>5 DEF TypeOK, KnownOK, CancelWrite
    <3> QED
      BY <1>0, <1>3, <2>2, <2>3, <2>5, <3>1 DEF KnownOK, CancelWrite
  <2> QED
    BY <1>6, <2>4, <2>5 DEF Cancelling
<1>7. ASSUME NEW r \in Runs, Executing(r)
      PROVE  KnownOK'
  <2>1. exec[r] # "no" => status[r] # "none"
    BY <1>0 DEF TypeOK, KnownOK
  <2>2. CASE Leave(r)
    <3>1. active' \subseteq Known /\ \A w \in waiting' : w.run \in Known
      BY <2>2, LeaveCorrect
    <3> QED
      BY <1>0, <1>3, <2>2, <3>1 DEF KnownOK, Leave
  <2>3. CASE Mark(r) \/ Record(r)
    <3>1. outcome[r] # "none"
      BY <1>0 DEF TypeOK, Finished
    <3>2. \A q \in Runs : status'[q] = "none" <=> status[q] = "none"
      BY <1>0, <2>1, <2>3, <3>1 DEF TypeOK, Mark, Record
    <3> QED
      BY <1>0, <1>3, <2>3, <3>2 DEF KnownOK, Mark, Record
  <2>4. CASE Load(r) \/ Prepare(r) \/ Conclude(r)
    BY <1>0, <1>3, <2>4 DEF KnownOK, Load, Prepare, Conclude
  <2> QED
    BY <1>7, <2>2, <2>3, <2>4 DEF Executing
<1>8. ASSUME NEW r \in Runs,
             ActStarts(r) \/ ScriptEnds(r) \/ LinkDrops(r) \/ Timeout(r)
      PROVE  KnownOK'
  BY <1>0, <1>3, <1>8 DEF KnownOK, ActStarts, ScriptEnds, LinkDrops, Timeout
<1>9. CASE Restart
  BY <1>0, <1>3, <1>9 DEF KnownOK, Restart
<1>10. CASE Recover
  <2>1. CASE FailInterrupted
    <3>1. \A q \in Runs : status'[q] = "none" <=> status[q] = "none"
      BY <2>1 DEF FailInterrupted
    <3> QED
      BY <1>0, <1>3, <2>1, <3>1 DEF KnownOK, FailInterrupted
  <2>2. CASE ReadQueued
    BY <1>0, <1>3, <2>2 DEF KnownOK, ReadQueued
  <2>3. CASE Requeue
    <3>1. Enqueue(Batch) /\ Batch \in SUBSET Known
      BY <2>3 DEF Requeue, Batch, IInv, KnownOK
    <3>2. active' \subseteq Known /\ \A w \in waiting' : w.run \in Known
      BY <3>1, EnqueueCorrect
    <3> QED
      BY <1>0, <1>3, <2>3, <3>2 DEF KnownOK, Requeue
  <2>4. CASE FailRemoved
    <3>1. \A q \in Runs : status'[q] = "none" <=> status[q] = "none"
      BY <1>0, <2>4 DEF TypeOK, KnownOK, FailRemoved
    <3> QED
      BY <1>0, <1>3, <2>4, <3>1 DEF KnownOK, FailRemoved
  <2>5. CASE BootFails
    BY <1>0, <1>3, <2>5 DEF KnownOK, BootFails
  <2> QED
    BY <1>10, <2>1, <2>2, <2>3, <2>4, <2>5 DEF Recover
<1>11. ASSUME NEW s \in Servers, RemoveServer(s)
       PROVE  KnownOK'
  BY <1>0, <1>3, <1>11 DEF KnownOK, RemoveServer
<1> QED
  BY <1>1, <1>2, <1>4, <1>5, <1>6, <1>7, <1>8, <1>9, <1>10, <1>11 DEF Next

(* The inductive invariant holds in every reachable state.                 *)
THEOREM Invariance == Spec => []IInv
<1>1. IInv /\ [Next]_vars => IInv'
  BY TypeStep, RowsStep, KnownStep, QueueStep DEF IInv, QueueOK
<1> QED
  BY InitIInv, <1>1, PTL DEF Spec

(* Every variable keeps its type.                                          *)
THEOREM TypeCorrect == Spec => []TypeOK
<1>1. IInv => TypeOK
  BY DEF IInv
<1> QED
  BY Invariance, <1>1, PTL

(* No two runs that share a server or a concurrency group are ever active  *)
(* together, in whatever order runs are created, cancelled, requeued and   *)
(* finished (queue.ts, pump).                                              *)
THEOREM NoConflict == Spec => []ActiveRunsCompatible
<1>1. IInv => ActiveRunsCompatible
  BY DEF IInv
<1> QED
  BY Invariance, <1>1, PTL

(* A waiting run is always held up by an active one, whose end will pump   *)
(* the queue: none is stranded (queue.ts, pump's finally block).           *)
THEOREM NoneStranded == Spec => []WaitingIsBlocked
<1>1. IInv => WaitingIsBlocked
  BY DEF IInv
<1> QED
  BY Invariance, <1>1, PTL

-----------------------------------------------------------------------------
(* An executor past its update of the row.                                 *)
Past(r) == exec[r] \in {"prepare", "remote", "finish", "record"}

(* Somebody will act on the queued run r.                                  *)
Held(r) == \/ \E w \in waiting : w.run = r
           \/ exec[r] \in {"load", "mark"}
           \/ creating[r] \in {"find", "cancel"}
           \/ \E c \in cancels : c.run = r /\ c.at = "write"

(* What the two properties of the rows need to be inductive: an executor   *)
(* past "mark" or leaving has no queued row, startup has yet to read the   *)
(* rows of the earlier process or put them into the queue.                 *)
RowsHeld ==
  /\ \A r \in Runs \ struck : Past(r) \/ exec[r] = "leave" => status[r] # "queued"
  /\ \A r \in Runs \ struck : status[r] = "queued" =>
        \/ Held(r)
        \/ creating[r] = "before" /\ (boot \in {"failing", "reading"} \/ r \in snapshot)
  /\ \A r \in Runs \ struck : status[r] = "in_progress" /\ ServerOf[r] \notin gone =>
        Past(r) \/ (creating[r] = "before" /\ boot = "failing")
  /\ boot # "requeueing" => snapshot = {}

(* A step that disturbs no holder and no executor keeps it.                *)
LEMMA RowsUndisturbed ==
  ASSUME RowsHeld, UNCHANGED <<status, gone>>,
         struck \subseteq struck',
         boot' = boot,
         boot # "requeueing" => snapshot' = snapshot,
         \A r \in Runs \ struck' : creating[r] = "before" => creating'[r] = "before",
         \A r \in Runs \ struck' : Past(r) => Past(r)',
         \A r \in Runs \ struck' : Past(r)' => Past(r) \/ status[r] # "queued",
         \A r \in Runs \ struck' : exec'[r] = "leave" =>
                            exec[r] = "leave" \/ status[r] # "queued",
         \A r \in Runs \ struck' : status[r] = "queued" /\ Held(r) => Held(r)',
         \A r \in (Runs \ struck') \cap snapshot :
             status[r] = "queued" => Held(r)' \/ r \in snapshot'
  PROVE  RowsHeld'
BY DEF RowsHeld

(* Starting executors from the waiting list disturbs nobody.               *)
LEMMA HeldWhenActive ==
  ASSUME RowsHeld, QueueOK', NEW q \in Runs \ struck, status[q] = "queued",
         q \in active', exec'[q] = exec[q] \/ exec'[q] = "load"
  PROVE  Held(q)'
<1>1. exec'[q] \in Places /\ exec'[q] # "no"
  BY DEF QueueOK
<1> QED
  BY <1>1 DEF RowsHeld, Held, Past, Places

(* Every step keeps it.                                                    *)
THEOREM RowsHeldStep == IInv /\ RowsHeld /\ [Next]_vars => RowsHeld'
<1> SUFFICES ASSUME IInv, RowsHeld, [Next]_vars
             PROVE  RowsHeld'
  OBVIOUS
<1> USE DEF db, requests, executor, startup, faults
<1>0. TypeOK /\ KnownOK
  BY DEF IInv
<1>1. CASE UNCHANGED <<status, exec, boot, snapshot, waiting, cancels, creating, gone,
                       struck>>
  BY <1>1 DEF RowsHeld, Held, Past
<1>2. ASSUME NEW r \in Runs, Create(r)
      PROVE  RowsHeld'
  <2>1. exec[r] = "no"
    BY <1>0, <1>2 DEF TypeOK, KnownOK, Create
  <2>2. /\ \A q \in Runs \ {r} : status'[q] = status[q] /\ creating'[q] = creating[q]
        /\ status'[r] \in {"queued", "skipped", "failure"}
        /\ status'[r] = "queued" => creating'[r] = "find"
        /\ UNCHANGED <<exec, boot, snapshot, waiting, cancels, gone, struck>>
    BY <1>0, <1>2 DEF TypeOK, Create
  <2> QED
    BY <2>1, <2>2 DEF RowsHeld, Held, Past
<1>3. ASSUME NEW b, NEW R \in SUBSET Runs, BreaksOff(b, R),
             UNCHANGED <<status, exec, boot, snapshot, waiting, gone>>,
             \A c \in cancels : c.at = "write" /\ c.run \notin R => c \in cancels'
      PROVE  RowsHeld'
  <2>1. /\ struck \cup R \cup ({b} \cap Runs) \subseteq struck'
        /\ \A q \in Runs : q # b => creating'[q] = creating[q]
    BY <1>0, <1>3, BreaksOffCorrect
  <2> QED
    BY <1>3, <2>1 DEF RowsHeld, Held, Past
<1>4. ASSUME NEW r \in Runs, Creating(r)
      PROVE  RowsHeld'
  <2>1. CASE FindOthers(r)
    <3>1. /\ \A q \in Runs \ {r} : creating'[q] = creating[q]
          /\ creating[r] = "find"
          /\ creating'[r] = "cancel" \/ r \in struck'
          /\ struck \subseteq struck'
          /\ UNCHANGED <<status, exec, boot, snapshot, waiting, cancels, gone>>
      BY <1>0, <2>1 DEF TypeOK, FindOthers, Throws
    <3> QED
      BY <3>1 DEF RowsHeld, Held, Past
  <2>2. CASE CancelOther(r)
    <3>1. CASE BreaksOff(r, {})
      <4>1. /\ cancels \subseteq cancels'
            /\ UNCHANGED <<status, exec, boot, snapshot, waiting, gone>>
        BY <2>2 DEF CancelOther
      <4> QED
        BY <1>3, <3>1, <4>1
    <3>2. CASE ~BreaksOff(r, {})
      <4>1. /\ cancels \subseteq cancels'
            /\ UNCHANGED <<status, exec, boot, snapshot, waiting, creating, gone, struck>>
        BY <2>2, <3>2 DEF CancelOther
      <4> QED
        BY <4>1 DEF RowsHeld, Held, Past
    <3> QED
      BY <3>1, <3>2
  <2>3. CASE EnqueueCreated(r)
    <3>1. Enqueue({r}) /\ {r} \in SUBSET Known
      BY <2>3 DEF EnqueueCreated, IInv, KnownOK
    <3>2. /\ QueueOK'
          /\ r \in active' \/ \E w \in waiting' : w.run = r
          /\ \A w \in waiting : w \in waiting' \/ w.run \in active'
          /\ \A q \in Runs : exec'[q] = exec[q] \/ (exec[q] = "no" /\ exec'[q] = "load")
      BY <3>1, EnqueueCorrect
    <3>3. /\ UNCHANGED <<status, boot, snapshot, cancels, gone, struck>>
          /\ creating[r] = "cancel"
          /\ \A q \in Runs \ {r} : creating'[q] = creating[q]
      BY <1>0, <2>3 DEF TypeOK, EnqueueCreated
    <3>4. \A q \in Runs : /\ Past(q)' <=> Past(q)
                          /\ exec'[q] = "leave" <=> exec[q] = "leave"
      BY <3>2 DEF Past
    <3>5. ASSUME NEW q \in Runs \ struck, status[q] = "queued", Held(q)
          PROVE  Held(q)'
      <4>1. CASE q \in active'
        BY <3>2, <3>5, <4>1, HeldWhenActive
      <4>2. CASE q \notin active'
        <5>1. exec'[q] = "no" /\ exec[q] = "no"
          BY <3>2, <4>2 DEF QueueOK
        <5> QED
          BY <3>2, <3>3, <3>5, <4>2, <5>1 DEF Held
      <4> QED
        BY <4>1, <4>2
    <3> QED
      BY <3>3, <3>4, <3>5, RowsUndisturbed
  <2> QED
    BY <1>4, <2>1, <2>2, <2>3 DEF Creating
<1>5. ASSUME NEW r \in Runs, UserCancel(r)
      PROVE  RowsHeld'
  <2>1. /\ cancels \subseteq cancels'
        /\ UNCHANGED <<status, exec, boot, snapshot, waiting, creating, gone, struck>>
    BY <1>5 DEF UserCancel
  <2> QED
    BY <2>1 DEF RowsHeld, Held, Past
<1>6. ASSUME NEW c \in cancels, Cancelling(c)
      PROVE  RowsHeld'
  <2>1. c \in Calls /\ c.run \in Runs
    BY <1>0 DEF TypeOK, Calls
  <2>2. CASE CancelDecide(c) /\ BreaksOff(c.by, {})
    <3>1. UNCHANGED <<status, exec, boot, snapshot, gone>> /\ c.at = "decide"
      BY <2>2 DEF CancelDecide
    <3>2. UNCHANGED creating \/ UNCHANGED waiting
      BY <2>2 DEF CancelDecide
    <3>3. mishaps' # mishaps
      BY <1>0, <2>2 DEF BreaksOff, Throws, Fault, TypeOK
    <3>4. UNCHANGED waiting /\ cancels' = cancels \ {c}
      BY <2>2, <3>3 DEF CancelDecide
    <3> QED
      BY <1>3, <2>2, <3>1, <3>4
  <2>3. CASE CancelDecide(c) /\ ~BreaksOff(c.by, {})
    <3> DEFINE d == [c EXCEPT !.at = "write"]
    <3>1. d.run = c.run /\ d.at = "write"
      BY <2>1 DEF Calls
    <3> HIDE DEF d
    <3>2. UNCHANGED <<status, exec, boot, snapshot, creating, gone, struck>>
      BY <2>3 DEF CancelDecide
    <3>3. /\ \A x \in cancels : x.at = "write" => x \in cancels'
          /\ \A w \in waiting : w \in waiting' \/ (w.run = c.run /\ d \in cancels')
      BY <2>3 DEF CancelDecide, d
    <3> QED
      BY <3>1, <3>2, <3>3 DEF RowsHeld, Held, Past
  <2>4. CASE CancelWrite(c) /\ BreaksOff(c.by, {c.run})
    <3>1. mishaps' # mishaps
      BY <1>0, <2>4 DEF BreaksOff, Throws, Fault, TypeOK
    <3>2. /\ UNCHANGED <<status, exec, boot, snapshot, waiting, gone>>
          /\ cancels' = cancels \ {c}
      BY <2>4, <3>1 DEF CancelWrite
    <3> QED
      BY <1>3, <2>1, <2>4, <3>2
  <2>5. CASE CancelWrite(c) /\ ~BreaksOff(c.by, {c.run})
    <3>1. /\ status'[c.run] = "cancelled"
          /\ \A q \in Runs \ {c.run} : status'[q] = status[q]
          /\ \A x \in cancels : x.run # c.run => x \in cancels'
          /\ UNCHANGED <<exec, boot, snapshot, waiting, creating, gone, struck>>
      BY <1>0, <2>1, <2>5 DEF TypeOK, CancelWrite
    <3> QED
      BY <3>1 DEF RowsHeld, Held, Past
  <2> QED
    BY <1>6, <2>2, <2>3, <2>4, <2>5 DEF Cancelling
<1>7. ASSUME NEW r \in Runs, Executing(r)
      PROVE  RowsHeld'
  <2>1. CASE Load(r)
    <3>1. /\ exec[r] = "load" /\ struck \subseteq struck'
          /\ \/ exec'[r] = "mark" /\ status[r] = "queued"
             \/ exec'[r] = "leave" /\ (status[r] # "queued" \/ r \in struck')
          /\ \A q \in Runs \ {r} : exec'[q] = exec[q]
          /\ UNCHANGED <<status, boot, snapshot, waiting, cancels, creating, gone>>
      BY <1>0, <2>1 DEF TypeOK, Load, Throws
    <3> QED
      BY <3>1 DEF RowsHeld, Held, Past
  <2>2. CASE Mark(r)
    <3>1. /\ \/ /\ status'[r] = "in_progress"
                /\ exec'[r] = "prepare" \/ (exec'[r] = "leave" /\ ServerOf[r] \in gone)
             \/ r \in struck'
          /\ struck \subseteq struck'
          /\ \A q \in Runs \ {r} : exec'[q] = exec[q] /\ status'[q] = status[q]
          /\ UNCHANGED <<boot, snapshot, waiting, cancels, creating, gone>>
      BY <1>0, <2>2 DEF TypeOK, Mark, Throws
    <3> QED
      BY <3>1 DEF RowsHeld, Held, Past
  <2>3. CASE Prepare(r) \/ Conclude(r)
    <3>1. /\ Past(r) /\ Past(r)'
          /\ \A q \in Runs \ {r} : exec'[q] = exec[q]
          /\ UNCHANGED <<status, boot, snapshot, waiting, cancels, creating, gone, struck>>
      BY <1>0, <2>3 DEF TypeOK, Prepare, Conclude, Past
    <3> QED
      BY <3>1 DEF RowsHeld, Held, Past
  <2>4. CASE Record(r)
    <3>1. /\ status'[r] \in Finished \/ r \in struck'
          /\ exec'[r] = "leave" /\ struck \subseteq struck'
          /\ \A q \in Runs \ {r} : exec'[q] = exec[q] /\ status'[q] = status[q]
          /\ UNCHANGED <<boot, snapshot, waiting, cancels, creating, gone>>
      BY <1>0, <2>4 DEF TypeOK, Record, Throws
    <3> QED
      BY <3>1 DEF RowsHeld, Held, Past, Finished
  <2>5. CASE Leave(r)
    <3>1. /\ QueueOK'
          /\ \A w \in waiting : w \in waiting' \/ w.run \in active'
          /\ exec[r] = "leave" /\ exec'[r] \in {"no", "load"}
          /\ \A q \in Runs \ {r} :
               exec'[q] = exec[q] \/ (exec[q] = "no" /\ exec'[q] = "load")
      BY <2>5, LeaveCorrect
    <3>2. UNCHANGED <<status, boot, snapshot, cancels, creating, gone, struck>>
      BY <2>5 DEF Leave
    <3>3. status[r] # "queued" \/ r \in struck
      BY <3>1 DEF RowsHeld
    <3>4. \A q \in Runs : /\ Past(q)' <=> Past(q)
                          /\ exec'[q] = "leave" => exec[q] = "leave"
      BY <3>1 DEF Past
    <3>5. ASSUME NEW q \in Runs \ struck, status[q] = "queued", Held(q)
          PROVE  Held(q)'
      <4>1. q # r
        BY <3>3, <3>5
      <4>2. CASE q \in active'
        BY <3>1, <3>5, <4>1, <4>2, HeldWhenActive
      <4>3. CASE q \notin active'
        <5>1. exec[q] \notin {"load", "mark"}
          BY <3>1, <4>1, <4>3 DEF QueueOK
        <5> QED
          BY <3>1, <3>2, <3>5, <4>3, <5>1 DEF Held
      <4> QED
        BY <4>2, <4>3
    <3> QED
      BY <3>2, <3>4, <3>5, RowsUndisturbed
  <2> QED
    BY <1>7, <2>1, <2>2, <2>3, <2>4, <2>5 DEF Executing
<1>8. ASSUME NEW r \in Runs, ScriptEnds(r) \/ LinkDrops(r)
      PROVE  RowsHeld'
  <2>1. /\ exec'[r] = exec[r] \/ (Past(r) /\ Past(r)')
        /\ \A q \in Runs \ {r} : exec'[q] = exec[q]
        /\ UNCHANGED <<status, boot, snapshot, waiting, cancels, creating, gone, struck>>
    BY <1>0, <1>8 DEF TypeOK, ScriptEnds, LinkDrops, Past
  <2> QED
    BY <2>1 DEF RowsHeld, Held, Past
<1>9. CASE Restart
  <2>1. /\ \A q \in Runs : status[q] = "none" \/ creating'[q] = "before"
        /\ \A q \in Runs : exec'[q] = "no"
        /\ boot' = "failing" /\ snapshot' = {} /\ UNCHANGED status
    BY <1>9 DEF Restart
  <2> QED
    BY <2>1 DEF RowsHeld, Past
<1>10. CASE Recover
  <2>1. CASE FailInterrupted
    BY <2>1 DEF FailInterrupted, RowsHeld, Held, Past
  <2>2. CASE ReadQueued
    BY <2>2 DEF ReadQueued, RowsHeld, Held, Past
  <2>3. CASE Requeue
    <3>1. Enqueue(Batch) /\ Batch \in SUBSET Known
      BY <2>3 DEF Requeue, Batch, IInv, KnownOK
    <3>2. /\ QueueOK'
          /\ \A q \in Batch : q \in active' \/ \E w \in waiting' : w.run = q
          /\ \A w \in waiting : w \in waiting' \/ w.run \in active'
          /\ \A q \in Runs : exec'[q] = exec[q] \/ (exec[q] = "no" /\ exec'[q] = "load")
      BY <3>1, EnqueueCorrect
    <3>3. /\ UNCHANGED <<status, cancels, creating, gone, struck>>
          /\ boot = "requeueing" /\ snapshot' = snapshot \ Batch
          /\ boot' = "requeueing" \/ (boot' = "done" /\ serverless = {})
      BY <2>3 DEF Requeue
    <3>4. \A q \in Runs : /\ Past(q)' <=> Past(q)
                          /\ exec'[q] = "leave" <=> exec[q] = "leave"
      BY <3>2 DEF Past
    <3>5. ASSUME NEW q \in Runs \ struck, status[q] = "queued"
          PROVE  Held(q)' \/ (creating[q] = "before" /\ q \in snapshot')
      <4>1. \/ Held(q) \/ q \in Batch
            \/ creating[q] = "before" /\ q \in snapshot'
        BY <3>3, <3>5 DEF RowsHeld
      <4>2. CASE q \in active'
        BY <3>2, <3>5, <4>2, HeldWhenActive
      <4>3. CASE q \notin active'
        <5>1. exec[q] = "no"
          BY <3>2, <4>3 DEF QueueOK
        <5> QED
          BY <3>2, <3>3, <4>1, <4>3, <5>1 DEF Held
      <4> QED
        BY <4>2, <4>3
    <3>6. boot' # "requeueing" => snapshot' = {}
      BY <3>3, <1>0 DEF Batch, TypeOK
    <3> QED
      BY <3>3, <3>4, <3>5, <3>6 DEF RowsHeld
  <2>4. CASE FailRemoved
    <3>1. PICK r \in serverless : /\ status' = [status EXCEPT ![r] = "failure"]
                                  /\ snapshot' = snapshot \ {r}
      BY <2>4 DEF FailRemoved
    <3>2. /\ UNCHANGED <<exec, boot, waiting, cancels, creating, gone, struck>>
          /\ boot = "requeueing"
      BY <2>4 DEF FailRemoved
    <3>3. r \in Runs /\ status'[r] = "failure"
          /\ \A q \in Runs \ {r} : status'[q] = status[q]
      BY <1>0, <3>1 DEF TypeOK
    <3> QED
      BY <3>1, <3>2, <3>3 DEF RowsHeld, Held, Past
  <2>5. CASE BootFails
    BY <2>5 DEF BootFails, Throws, RowsHeld, Held, Past
  <2> QED
    BY <1>10, <2>1, <2>2, <2>3, <2>4, <2>5 DEF Recover
<1>11. ASSUME NEW s \in Servers, RemoveServer(s)
       PROVE  RowsHeld'
  BY <1>11 DEF RemoveServer, RowsHeld, Held, Past
<1> QED
  BY <1>1, <1>2, <1>4, <1>5, <1>6, <1>7, <1>8, <1>9, <1>10, <1>11
     DEF Next, vars, ActStarts, Timeout

(* It holds in every reachable state.                                      *)
THEOREM RowsAreHeld == Spec => []RowsHeld
<1>1. Init => RowsHeld
  BY DEF Init, RowsHeld, Past
<1> QED
  BY Invariance, <1>1, RowsHeldStep, PTL DEF Spec

(* After startup, finished or failed, no queued row is forgotten, whatever *)
(* cancellations, removed servers and restarts cross it, but for the runs  *)
(* a statement threw for (workflow-run.ts, initWorkflowRuns; queue.ts).    *)
THEOREM NoneForgotten == Spec => []QueuedIsTracked
<1>1. RowsHeld => QueuedIsTracked
  BY DEF RowsHeld, QueuedIsTracked, Held
<1> QED
  BY RowsAreHeld, <1>1, PTL

(* After startup, finished or failed, every row in progress has an         *)
(* executor that will record its outcome, but for the runs a statement     *)
(* threw for and those of removed servers (executor.ts).                   *)
THEOREM NoneOrphaned == Spec => []InProgressIsExecuted
<1>1. RowsHeld => InProgressIsExecuted
  BY DEF RowsHeld, InProgressIsExecuted, Past
<1> QED
  BY RowsAreHeld, <1>1, PTL

-----------------------------------------------------------------------------
(* Every script that has not been left behind has an executor that listens *)
(* to it.                                                                  *)
ScriptsHeld ==
  \A r \in Runs : script[r] # "none" => exec[r] = "remote" \/ r \in orphans

(* An executor that listens is left alone by the queue.                    *)
LEMMA RemoteStays ==
  ASSUME script' = script, orphans' = orphans,
         \A r \in Runs : exec'[r] = exec[r] \/ exec[r] # "remote",
         ScriptsHeld
  PROVE  ScriptsHeld'
BY DEF ScriptsHeld

THEOREM ScriptsHeldStep == IInv /\ ScriptsHeld /\ [Next]_vars => ScriptsHeld'
<1> SUFFICES ASSUME IInv, ScriptsHeld, [Next]_vars
             PROVE  ScriptsHeld'
  OBVIOUS
<1>0. TypeOK
  BY DEF IInv
<1>1. ASSUME NEW r \in Runs, Create(r)
      PROVE  ScriptsHeld'
  BY <1>1, RemoteStays DEF Create, executor
<1>2. ASSUME NEW r \in Runs, Creating(r)
      PROVE  ScriptsHeld'
  <2>1. CASE FindOthers(r) \/ CancelOther(r)
    BY <2>1, RemoteStays DEF FindOthers, CancelOther, executor
  <2>2. CASE EnqueueCreated(r)
    <3>1. Enqueue({r}) /\ UNCHANGED <<script, orphans>> /\ creating[r] = "cancel"
      BY <2>2 DEF EnqueueCreated
    <3>2. {r} \in SUBSET Known
      BY <3>1 DEF IInv, KnownOK
    <3>3. \A q \in Runs : exec'[q] = exec[q] \/ (exec[q] = "no" /\ exec'[q] = "load")
      BY <3>1, <3>2, EnqueueCorrect
    <3> QED
      BY <3>1, <3>3, RemoteStays
  <2> QED
    BY <1>2, <2>1, <2>2 DEF Creating
<1>3. ASSUME NEW r \in Runs, UserCancel(r)
      PROVE  ScriptsHeld'
  BY <1>3, RemoteStays DEF UserCancel, executor
<1>4. ASSUME NEW c \in cancels, Cancelling(c)
      PROVE  ScriptsHeld'
  BY <1>4, RemoteStays DEF Cancelling, CancelDecide, CancelWrite, executor
<1>5. ASSUME NEW r \in Runs, Executing(r)
      PROVE  ScriptsHeld'
  <2>1. CASE Load(r) \/ Mark(r) \/ Conclude(r) \/ Record(r)
    BY <1>0, <2>1, RemoteStays DEF Load, Mark, Conclude, Record, executor, TypeOK
  <2>2. CASE Prepare(r)
    BY <1>0, <2>2 DEF Prepare, TypeOK, ScriptsHeld
  <2>3. CASE Leave(r)
    <3>1. UNCHANGED <<script, orphans>>
      BY <2>3 DEF Leave
    <3>2. \A q \in Runs : exec'[q] = exec[q] \/ exec[q] # "remote"
      BY <2>3, LeaveCorrect
    <3> QED
      BY <3>1, <3>2, RemoteStays
  <2> QED
    BY <1>5, <2>1, <2>2, <2>3 DEF Executing
<1>6. ASSUME NEW r \in Runs, ActStarts(r) \/ ScriptEnds(r) \/ LinkDrops(r) \/ Timeout(r)
      PROVE  ScriptsHeld'
  <2>1. CASE ActStarts(r)
    BY <1>0, <2>1 DEF ActStarts, TypeOK, ScriptsHeld
  <2>2. CASE ScriptEnds(r)
    BY <1>0, <2>2 DEF ScriptEnds, TypeOK, ScriptsHeld
  <2>3. CASE LinkDrops(r)
    BY <1>0, <2>3 DEF LinkDrops, TypeOK, ScriptsHeld
  <2>4. CASE Timeout(r)
    BY <2>4, RemoteStays DEF Timeout
  <2> QED
    BY <1>6, <2>1, <2>2, <2>3, <2>4
<1>7. CASE Restart
  BY <1>0, <1>7 DEF Restart, ScriptsHeld, TypeOK
<1>8. CASE Recover
  <2>1. CASE FailInterrupted \/ ReadQueued \/ FailRemoved \/ BootFails
    BY <2>1, RemoteStays DEF FailInterrupted, ReadQueued, FailRemoved, BootFails, executor
  <2>2. CASE Requeue
    <3>1. Enqueue(Batch) /\ UNCHANGED <<script, orphans>>
      BY <2>2 DEF Requeue
    <3>2. Batch \in SUBSET Known
      BY DEF Batch, IInv, KnownOK
    <3>3. \A q \in Runs : exec'[q] = exec[q] \/ (exec[q] = "no" /\ exec'[q] = "load")
      BY <3>1, <3>2, EnqueueCorrect
    <3> QED
      BY <3>1, <3>3, RemoteStays
  <2> QED
    BY <1>8, <2>1, <2>2 DEF Recover
<1>9. CASE UNCHANGED vars
  BY <1>9, RemoteStays DEF vars
<1>10. ASSUME NEW s \in Servers, RemoveServer(s)
       PROVE  ScriptsHeld'
  BY <1>10, RemoteStays DEF RemoveServer, executor
<1> QED
  BY <1>1, <1>2, <1>3, <1>4, <1>5, <1>6, <1>7, <1>8, <1>9, <1>10 DEF Next

(* Scripts that conflict are never on the workflow servers at one time,    *)
(* but for those that a restart or a dropped connection has left behind    *)
(* (queue.ts, executor.ts).                                                *)
THEOREM ScriptsApart == Spec => []OneScriptPerServer
<1>1. Init => ScriptsHeld
  BY DEF Init, ScriptsHeld
<1>2. Spec => []ScriptsHeld
  BY <1>1, Invariance, ScriptsHeldStep, PTL DEF Spec
<1>3. IInv /\ ScriptsHeld => OneScriptPerServer
  <2> SUFFICES ASSUME IInv, ScriptsHeld, NEW r \in Runs \ orphans, NEW q \in Runs \ orphans,
                      script[r] # "none", script[q] # "none"
               PROVE  ~Conflict(r, q)
    BY DEF OneScriptPerServer
  <2>1. r \in active /\ q \in active
    BY DEF ScriptsHeld, IInv, TypeOK
  <2> QED
    BY <2>1 DEF IInv, ActiveRunsCompatible
<1> QED
  BY <1>2, <1>3, Invariance, PTL
=============================================================================
