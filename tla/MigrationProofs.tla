-------------------------- MODULE MigrationProofs ---------------------------
(***************************************************************************)
(* TLAPS proofs about Migration: the lock of the servers keeps the         *)
(* transfers of different migrations apart, the services of an environment *)
(* and its records switch together, and visitors are served meanwhile, for *)
(* any servers, services, environments, records and migrations, and with   *)
(* every fault that the property allows.                                   *)
(***************************************************************************)
EXTENDS Migration, TransferProofs, NatSets

(* The locals of a call of migrateServer.                                  *)
Changes == UNION { [S -> Servers \cup {Deleted}] : S \in SUBSET Records }
Locals == [at : Phases, updateDns : BOOLEAN, chosen : SUBSET Services, group : Nat,
           staged : Seq(Sagas), committed : Seq(Sagas), change : Changes,
           manual : SUBSET Domains, doing : SUBSET Records, reverts : SUBSET Records,
           moved : SUBSET Records, migrated : SUBSET Nat, manualDns : SUBSET Domains]

MTypeOK ==
  /\ TypeOK
  /\ mig \in [Migrations -> Locals]
  /\ points \in [Records -> Servers \cup {Deleted}]
  /\ visits \in [Domains -> SUBSET Servers]
  /\ activeServers \subseteq Servers

(* A migration has locked its servers, against every other one.            *)
Pair(m) == {From[m], To[m]}

LocksOK ==
  /\ \A m \in Migrations : Underway(m) => Pair(m) \subseteq activeServers
  /\ \A m, n \in Migrations : Underway(m) /\ Underway(n) /\ m # n => Pair(m) \cap Pair(n) = {}

(* A transfer that goes on belongs to a migration that is under way: it is *)
(* to be committed, or one of the environment in hand.                     *)
Early == {"prepare", "stage", "revert", "rollback"}

InHand(m, t) ==
  \/ t \in Range(mig[m].committed)
  \/ /\ mig[m].at \notin {"drain", "commit"}
     /\ t[2] \in Group(m)
     /\ \/ t \in Range(mig[m].staged)
        \/ saga[t].at = "prepared" /\ mig[m].at \in Early

Held(t) ==
  saga[t].at # "new" =>
    /\ mig[t[1]].at \notin {"new", "selected", "refused"}
    /\ t[2] \in mig[t[1]].chosen /\ EnvOf[t[2]] <= mig[t[1]].group
    /\ Active(t) => Underway(t[1]) /\ InHand(t[1], t)

SagasOK == \A t \in Sagas : Held(t)

(* As long as services are where they were selected, they stay between the *)
(* servers that their migration has locked.                                *)
RecordsOK ==
  SelectionHolds => \A t \in Sagas : Active(t) => record[t[2]] \in Pair(t[1])

MInv == MTypeOK /\ OneTransfer /\ LocksOK /\ SagasOK /\ RecordsOK /\ NoOverlap

-----------------------------------------------------------------------------
(* A transfer is one of a migration and a service.                         *)
LEMMA SagaOf ==
  ASSUME NEW t \in Sagas
  PROVE  /\ t[1] \in Migrations /\ t[2] \in Services /\ t = <<t[1], t[2]>>
         /\ Subject[t] = t[2] /\ Target[t] = To[t[1]]
BY MigrationAssumption

(* And every pair of the two is a transfer.                                *)
LEMMA SagaBy ==
  ASSUME NEW m \in Migrations, NEW x \in Services
  PROVE  <<m, x>> \in Sagas /\ Subject[<<m, x>>] = x /\ Target[<<m, x>>] = To[m]
<1>1. <<m, x>> \in Sagas
  BY MigrationAssumption
<1> QED
  BY <1>1, SagaOf

(* The locals of a call, one by one.                                       *)
LEMMA LocalsType ==
  ASSUME MTypeOK, NEW m \in Migrations
  PROVE  /\ mig[m] \in Locals
         /\ mig[m].at \in Phases /\ mig[m].chosen \subseteq Services /\ mig[m].group \in Nat
         /\ mig[m].staged \in Seq(Sagas) /\ mig[m].committed \in Seq(Sagas)
         /\ mig[m].change \in Changes /\ DOMAIN mig[m].change \subseteq Records
         /\ mig[m].doing \subseteq Records /\ mig[m].reverts \subseteq Records
         /\ mig[m].moved \subseteq Records /\ mig[m].migrated \subseteq Nat
         /\ mig[m].manual \subseteq Domains /\ mig[m].manualDns \subseteq Domains
         /\ \A r \in DOMAIN mig[m].change : mig[m].change[r] \in Servers \cup {Deleted}
<1>1. mig[m] \in Locals
  BY DEF MTypeOK
<1>2. mig[m].change \in Changes
  BY <1>1 DEF Locals
<1>3. PICK S \in SUBSET Records : mig[m].change \in [S -> Servers \cup {Deleted}]
  BY <1>2 DEF Changes
<1> QED
  BY <1>1, <1>2, <1>3 DEF Locals

(* No record need be changed.                                              *)
LEMMA NoChange == <<>> \in Changes
<1>1. <<>> \in [{} -> Servers \cup {Deleted}]
  OBVIOUS
<1> QED
  BY <1>1 DEF Changes

(* NextGroup goes to a later environment, or to the drain.                 *)
LEMMA NextGroupOf ==
  ASSUME MTypeOK, NEW m \in Migrations, NEW r \in Locals, r.chosen = mig[m].chosen
  PROVE  LET n == NextGroup(m, r)
         IN  /\ n \in Locals /\ n.chosen = r.chosen /\ n.committed = r.committed
             /\ \/ n.at = "prepare" /\ n.group > r.group
                \/ n.at = "drain" /\ n.group = r.group
             /\ n.staged = <<>>
<1> DEFINE later == LaterGroups(m, r.group)
<1>1. later \subseteq Nat /\ IsFiniteSet(later)
  <2>1. mig[m].chosen \subseteq Services /\ IsFiniteSet(mig[m].chosen)
    BY LocalsType, MigrationAssumption, FS_Subset
  <2> DEFINE envs == { EnvOf[x] : x \in mig[m].chosen }
  <2>2. IsFiniteSet(envs)
    <3> DEFINE f == [x \in mig[m].chosen |-> EnvOf[x]]
    <3>1. f \in Surjection(mig[m].chosen, envs)
      BY DEF Surjection
    <3> QED
      BY <2>1, <3>1, FS_Surjection
  <2>3. envs \subseteq Nat
    BY <2>1, MigrationAssumption
  <2>4. later \subseteq envs
    BY DEF LaterGroups
  <2> QED
    BY <2>2, <2>3, <2>4, FS_Subset
<1>2. ASSUME later # {}
      PROVE  FirstOf(later) \in later /\ FirstOf(later) \in Nat /\ FirstOf(later) > r.group
  <2>1. FirstOf(later) \in later
    BY <1>1, <1>2, SmallestOfNat DEF FirstOf
  <2> QED
    BY <1>1, <2>1 DEF LaterGroups
<1>3. <<>> \in Changes /\ <<>> \in Seq(Sagas)
  BY NoChange
<1>4. CASE later # {}
  <2> DEFINE n == [r EXCEPT !.at = "prepare", !.group = FirstOf(later), !.staged = <<>>,
                            !.change = <<>>, !.manual = {}, !.doing = {}, !.reverts = {}]
  <2>1. NextGroup(m, r) = n
    BY <1>4 DEF NextGroup
  <2>2. n \in Locals /\ n.at = "prepare" /\ n.group = FirstOf(later) /\ n.staged = <<>>
        /\ n.chosen = r.chosen /\ n.committed = r.committed
    BY <1>2, <1>3, <1>4 DEF Locals, Phases
  <2> QED
    BY <1>2, <1>4, <2>1, <2>2
<1>5. CASE later = {}
  <2> DEFINE n == [r EXCEPT !.at = "drain", !.staged = <<>>, !.change = <<>>, !.manual = {},
                            !.doing = {}, !.reverts = {}]
  <2>1. NextGroup(m, r) = n
    BY <1>5 DEF NextGroup
  <2>2. n \in Locals /\ n.at = "drain" /\ n.group = r.group /\ n.staged = <<>>
        /\ n.chosen = r.chosen /\ n.committed = r.committed
    BY <1>3 DEF Locals, Phases
  <2> QED
    BY <2>1, <2>2
<1> QED
  BY <1>4, <1>5

-----------------------------------------------------------------------------
(* Steps that leave the sagas alone, or send one of them to its next step. *)
LEMMA Quiet ==
  ASSUME TypeOK, UNCHANGED <<shape, world, saga, building>>,
         struck' = struck \/ \E k : Strike(k)
  PROVE  TypeOK'
BY TransferAssumption DEF TypeOK, world, Strike

(* A transfer that is advanced by its migration keeps its source.          *)
LEMMA Moves ==
  ASSUME TypeOK, NEW t \in Sagas, NEW v \in Steps \cup Ended, Go(t, v),
         UNCHANGED <<shape, world, building, struck>>
  PROVE  /\ TypeOK'
         /\ saga'[t].at = v /\ saga'[t].source = saga[t].source
         /\ \A u \in Sagas \ {t} : saga'[u] = saga[u]
<1>1. saga \in [Sagas -> StagedTransfer]
  BY DEF TypeOK, StagedTransfer
<1>2. saga' \in [Sagas -> StagedTransfer]
  BY <1>1, GoTypes DEF Goes
<1>3. TypeOK'
  BY <1>2 DEF TypeOK, StagedTransfer, world
<1> QED
  BY <1>1, <1>3, SagaFields DEF Go

(* A migration prepares a transfer as transferService does.                *)
LEMMA Prepared ==
  ASSUME TypeOK, NEW t \in Sagas, Prepare(t, "prepared")
  PROVE  /\ TypeOK' /\ UNCHANGED <<shape, world, building>>
         /\ saga[t].at = "new" /\ saga'[t].source = record[Subject[t]]
         /\ saga'[t].at = IF record[Subject[t]] = Target[t] THEN "rejected" ELSE "prepared"
         /\ \A u \in Sagas \ {t} : saga'[u] = saga[u]
         /\ IF \E u \in Sagas \ {t} : Subject[u] = Subject[t] /\ Active(u)
              THEN Strike("overlap") ELSE struck' = struck
<1>1. /\ record[Subject[t]] \in Servers /\ status[Subject[t]] \in Statuses
      /\ running[Subject[t]] \in SUBSET Servers
  BY TransferAssumption DEF TypeOK
<1> DEFINE n == [NoSaga EXCEPT !.at = IF record[Subject[t]] = Target[t] THEN "rejected" ELSE "prepared",
                               !.source = record[Subject[t]], !.was = status[Subject[t]],
                               !.ran = running[Subject[t]]]
<1>2. saga' = [saga EXCEPT ![t] = n]
  BY DEF Prepare
<1>3. /\ n \in StagedTransfer /\ n.source = record[Subject[t]]
      /\ n.at = IF record[Subject[t]] = Target[t] THEN "rejected" ELSE "prepared"
  BY <1>1, TransferAssumption DEF NoSaga, Steps, Ended, Statuses, StagedTransfer
<1>4. saga \in [Sagas -> StagedTransfer]
  BY DEF TypeOK, StagedTransfer
<1>5. saga' \in [Sagas -> StagedTransfer]
  BY <1>2, <1>3, <1>4
<1>6. UNCHANGED <<shape, world, building>> /\ saga[t].at = "new"
  BY DEF Prepare, Keep
<1>7. IF \E u \in Sagas \ {t} : Subject[u] = Subject[t] /\ Active(u)
        THEN Strike("overlap") ELSE struck' = struck
  BY DEF Prepare
<1>8. TypeOK'
  BY <1>5, <1>6, <1>7, TransferAssumption DEF TypeOK, StagedTransfer, world, Strike
<1> QED
  BY <1>2, <1>3, <1>4, <1>6, <1>7, <1>8

(* Only this migration's locals change, and its phase only.                *)
Same(m) == /\ mig'[m].chosen = mig[m].chosen /\ mig'[m].group = mig[m].group
           /\ mig'[m].staged = mig[m].staged /\ mig'[m].committed = mig[m].committed
Others(m) == \A n \in Migrations \ {m} : mig'[n] = mig[n]

(* A migration that turns to another phase keeps its other locals.         *)
LEMMA Turns ==
  ASSUME MTypeOK, NEW m \in Migrations, NEW v \in Phases, Turn(m, v)
  PROVE  mig' \in [Migrations -> Locals] /\ mig'[m].at = v /\ Same(m) /\ Others(m)
<1>1. mig[m] \in Locals /\ mig \in [Migrations -> Locals] /\ mig' = [mig EXCEPT ![m].at = v]
  BY DEF MTypeOK, Turn
<1>2. mig'[m] = [mig[m] EXCEPT !.at = v] /\ Others(m)
  BY <1>1 DEF Others
<1>3. mig'[m].at = v /\ Same(m)
  BY <1>1, <1>2 DEF Locals, Same
<1>4. [mig[m] EXCEPT !.at = v] \in Locals
  BY <1>1 DEF Locals
<1>5. mig' = [mig EXCEPT ![m] = [mig[m] EXCEPT !.at = v]]
  BY <1>1
<1> QED
  BY <1>1, <1>2, <1>3, <1>4, <1>5

(* The domain of a record is switched, and resolvers learn of it.          *)
LEMMA SetsRecord ==
  ASSUME MTypeOK, NEW r \in Records, NEW c \in Servers \cup {Deleted}, SetRecord(r, c)
  PROVE  points' \in [Records -> Servers \cup {Deleted}] /\ visits' \in [Domains -> SUBSET Servers]
<1>1. points' \in [Records -> Servers \cup {Deleted}]
  BY DEF MTypeOK, SetRecord, Set
<1>2. DomainOf[r] \in Domains
  BY DEF Domains
<1>3. { points'[q] : q \in RecordsOf(DomainOf[r]) } \ {Deleted} \subseteq Servers
  BY <1>1 DEF RecordsOf
<1> QED
  BY <1>1, <1>2, <1>3 DEF MTypeOK, SetRecord, Set

(* What a step of a transfer may change.                                   *)
LEMMA TransferSteps ==
  ASSUME TypeOK, NEW t \in Sagas, Step(t)
  PROVE  /\ TypeOK' /\ Active(t) /\ saga[t].at # "prepared"
         /\ saga'[t].at \notin {"new", "prepared"} /\ saga'[t].source = saga[t].source
         /\ \A u \in Sagas \ {t} : saga'[u] = saga[u]
         /\ \A x \in Services \ {Subject[t]} : record'[x] = record[x]
         /\ record'[Subject[t]] \in {record[Subject[t]], Target[t], saga[t].source}
         /\ "overlap" \in struck' => "overlap" \in struck
<1>1. saga \in [Sagas -> StagedTransfer] /\ saga[t] \in StagedTransfer
  BY DEF TypeOK, StagedTransfer
<1>2. Saga(t) /\ Next
  BY DEF Saga, Next
<1>3. TypeOK' /\ Active(t) /\ \A u \in Sagas \ {t} : saga'[u] = saga[u]
  BY <1>2, TypeStep, ActiveStep, Frame
<1>4. \A x \in Services \ {Subject[t]} : record'[x] = record[x]
  BY <1>2, Frame
<1>5. /\ saga[t].at # "prepared" /\ saga'[t].at \notin {"new", "prepared"}
      /\ saga'[t].source = saga[t].source
  <2> USE <1>1 DEF StagedTransfer, Go, DbFails
  <2>1. CASE Begin(t) \/ Stop(t) \/ Copy(t) \/ Switch(t) \/ Deploy(t)
    BY <2>1 DEF Begin, Stop, Copy, Switch, Deploy
  <2>2. CASE Deployed(t) \/ Check(t) \/ Remove(t) \/ Restore(t) \/ Restart(t)
    BY <2>2 DEF Deployed, Check, Remove, Restore, Restart
  <2>3. CASE Reset(t) \/ MoveLogs(t) \/ CleanUp(t) \/ Finish(t)
    BY <2>3 DEF Reset, MoveLogs, CleanUp, Finish
  <2> QED
    BY <2>1, <2>2, <2>3 DEF Step
<1>6. record'[Subject[t]] \in {record[Subject[t]], Target[t], saga[t].source}
  <2>1. record \in [Services -> Servers] /\ Subject[t] \in Services
    BY TransferAssumption DEF TypeOK
  <2>2. \/ record' = record
        \/ record' = Set(record, Subject[t], Target[t])
        \/ record' = Set(record, Subject[t], saga[t].source)
    BY DEF Step, Begin, Stop, Copy, Switch, Deploy, Deployed, Check, Remove, Restore, Restart,
           Reset, MoveLogs, CleanUp, Finish, DbFails, Keep, world
  <2> QED
    BY <2>1, <2>2 DEF Set
<1>7. "overlap" \in struck' => "overlap" \in struck
  <2>1. CASE Begin(t) \/ Stop(t) \/ Copy(t) \/ Switch(t) \/ Deploy(t)
    BY <2>1 DEF Begin, Stop, Copy, Switch, Deploy, Strike, DbFails, Keep
  <2>2. CASE Deployed(t) \/ Check(t) \/ Remove(t) \/ Restore(t) \/ Restart(t)
    BY <2>2 DEF Deployed, Check, Remove, Restore, Restart, Strike, DbFails, Keep
  <2>3. CASE Reset(t) \/ MoveLogs(t) \/ CleanUp(t) \/ Finish(t)
    BY <2>3 DEF Reset, MoveLogs, CleanUp, Finish, Strike, DbFails, Keep
  <2> QED
    BY <2>1, <2>2, <2>3 DEF Step
<1> QED
  BY <1>3, <1>4, <1>5, <1>6, <1>7

-----------------------------------------------------------------------------
(* What the analysis of the domains comes to: changes of records at the    *)
(* source, and a user to be told of the domains of the other ones.         *)
LEMMA PlanOf ==
  ASSUME NEW m \in Migrations, NEW unknown \in SUBSET DomainsOf(m)
  PROVE  LET c == Plan(m, unknown)
         IN  /\ c \in Changes /\ DOMAIN c \subseteq OnSource(m)
             /\ \A r \in DOMAIN c : c[r] = NewContent(m, r)
             /\ Manual(m, unknown) \subseteq Domains
             /\ \A r \in OnSource(m) : r \in DOMAIN c \/ DomainOf[r] \in Manual(m, unknown)
<1> DEFINE known == { q \in OnSource(m) : DomainOf[q] \notin unknown }
           c == [r \in known |-> NewContent(m, r)]
<1>1. known \in SUBSET Records /\ To[m] \in Servers
  BY MigrationAssumption DEF OnSource
<1>2. c \in [known -> Servers \cup {Deleted}]
  BY <1>1 DEF NewContent
<1>3. c \in Changes
  BY <1>1, <1>2 DEF Changes
<1>4. Manual(m, unknown) \subseteq Domains
  BY DEF Manual, DomainsOf
<1>5. ASSUME NEW r \in OnSource(m), ~mig[m].updateDns \/ DomainOf[r] \in unknown
      PROVE  DomainOf[r] \in Manual(m, unknown)
  <2>1. DomainOf[r] \in DomainsOf(m) /\ PointsTo(DomainOf[r], From[m])
    BY DEF OnSource, PointsTo, RecordsOf
  <2> QED
    BY <1>5, <2>1 DEF Manual
<1>6. CASE mig[m].updateDns
  <2>1. Plan(m, unknown) = c
    BY <1>6 DEF Plan
  <2>2. DOMAIN c = known /\ \A r \in known : c[r] = NewContent(m, r)
    OBVIOUS
  <2> HIDE DEF c
  <2> QED
    BY <1>3, <1>4, <1>5, <2>1, <2>2
<1>7. CASE ~mig[m].updateDns
  <2>1. Plan(m, unknown) = <<>>
    BY <1>7 DEF Plan
  <2>2. DOMAIN <<>> = {}
    OBVIOUS
  <2> QED
    BY <1>4, <1>5, <1>7, <2>1, <2>2, NoChange
<1> QED
  BY <1>6, <1>7

LEMMA Analyzed ==
  ASSUME MTypeOK, NEW m \in Migrations, Analyze(m)
  PROVE  \E c \in Changes, h \in SUBSET Domains :
           /\ mig' = [mig EXCEPT ![m] = [mig[m] EXCEPT !.at = "stage", !.change = c, !.manual = h]]
           /\ DOMAIN c \subseteq OnSource(m) /\ \A r \in DOMAIN c : c[r] = NewContent(m, r)
           /\ \A r \in OnSource(m) : r \in DOMAIN c \/ DomainOf[r] \in h
<1>1. PICK unknown \in SUBSET DomainsOf(m) :
        mig' = [mig EXCEPT ![m].at = "stage", ![m].change = Plan(m, unknown),
                           ![m].manual = Manual(m, unknown)]
  BY DEF Analyze
<1>2. mig' = [mig EXCEPT ![m] = [mig[m] EXCEPT !.at = "stage", !.change = Plan(m, unknown),
                                               !.manual = Manual(m, unknown)]]
  BY <1>1 DEF MTypeOK
<1> DEFINE c == Plan(m, unknown)
           h == Manual(m, unknown)
<1>3. /\ c \in Changes /\ DOMAIN c \subseteq OnSource(m) /\ h \in SUBSET Domains
      /\ \A r \in DOMAIN c : c[r] = NewContent(m, r)
      /\ \A r \in OnSource(m) : r \in DOMAIN c \/ DomainOf[r] \in h
  BY PlanOf
<1>4. mig' = [mig EXCEPT ![m] = [mig[m] EXCEPT !.at = "stage", !.change = c, !.manual = h]]
  BY <1>2
<1> HIDE DEF c, h
<1> QED
  BY <1>3, <1>4

-----------------------------------------------------------------------------
(* A migration and its transfers keep their types.                         *)
LEMMA AdvanceTypes ==
  ASSUME MTypeOK, NEW m \in Migrations, Select(m) \/ Advance(m)
  PROVE  MTypeOK'
<1> USE DEF Still, vars, dns
<1>1. ASSUME TypeOK', mig' \in [Migrations -> Locals], UNCHANGED <<dns, activeServers>>
      PROVE  MTypeOK'
  BY <1>1 DEF MTypeOK
<1>2. CASE Select(m)
  <2> DEFINE found == { x \in Asked[m] : record[x] = From[m] }
  <2>1. found \in SUBSET Services /\ mig[m] \in Locals
    BY LocalsType, MigrationAssumption
  <2>2. mig' \in [Migrations -> Locals]
    <3>1. PICK u \in BOOLEAN, p \in {"refused", "selected"} :
            mig' = [mig EXCEPT ![m].at = p, ![m].chosen = found, ![m].updateDns = u]
      BY <1>2 DEF Select
    <3>2. mig' = [mig EXCEPT ![m] = [mig[m] EXCEPT !.at = p, !.chosen = found, !.updateDns = u]]
      BY <3>1 DEF MTypeOK
    <3>3. [mig[m] EXCEPT !.at = p, !.chosen = found, !.updateDns = u] \in Locals
      BY <2>1 DEF Locals, Phases
    <3> QED
      BY <3>2, <3>3 DEF MTypeOK
  <2>3. TypeOK'
    BY <1>2, Quiet DEF Select, MTypeOK
  <2> QED
    BY <1>1, <1>2, <2>2, <2>3 DEF Select
<1>3. CASE Lock(m)
  <2>1. TypeOK'
    BY <1>3, Quiet DEF Lock, MTypeOK
  <2>2. activeServers' \subseteq Servers
    BY <1>3, MigrationAssumption DEF Lock, MTypeOK
  <2>3. NextGroup(m, mig[m]) \in Locals
    BY NextGroupOf, LocalsType
  <2>4. mig' \in [Migrations -> Locals]
    BY <1>3, <2>3, Turns DEF Lock, MTypeOK, Phases
  <2> QED
    BY <1>3, <2>1, <2>2, <2>4 DEF Lock, MTypeOK
<1>4. CASE PrepareService(m)
  <2>1. TypeOK'
    BY <1>4, SagaBy, Prepared DEF PrepareService, MTypeOK
  <2>2. mig' \in [Migrations -> Locals]
    BY <1>4, Turns DEF PrepareService, MTypeOK, Phases
  <2> QED
    BY <1>1, <1>4, <2>1, <2>2 DEF PrepareService
<1>5. CASE Analyze(m)
  <2>1. TypeOK'
    BY <1>5, Quiet DEF Analyze, MTypeOK
  <2>2. \A c \in Changes, h \in SUBSET Domains :
          [mig[m] EXCEPT !.at = "stage", !.change = c, !.manual = h] \in Locals
    <3> mig[m] \in Locals
      BY DEF MTypeOK
    <3> QED
      BY DEF Locals, Phases
  <2>3. PICK c \in Changes, h \in SUBSET Domains :
          mig' = [mig EXCEPT ![m] = [mig[m] EXCEPT !.at = "stage", !.change = c, !.manual = h]]
    BY <1>5, Analyzed
  <2>4. mig' \in [Migrations -> Locals]
    BY <2>2, <2>3 DEF MTypeOK
  <2> QED
    BY <1>1, <1>5, <2>1, <2>4 DEF Analyze
<1>6. CASE StageNext(m)
  <2>1. PICK x \in Services : /\ Go(<<m, x>>, "begin")
                              /\ mig' = [mig EXCEPT ![m].staged = Append(@, <<m, x>>)]
    BY <1>6 DEF StageNext
  <2>2. TypeOK'
    BY <1>6, <2>1, SagaBy, Moves DEF StageNext, MTypeOK, Steps
  <2>3. [mig[m] EXCEPT !.staged = Append(@, <<m, x>>)] \in Locals
    <3>1. mig[m] \in Locals /\ Append(mig[m].staged, <<m, x>>) \in Seq(Sagas)
      BY SagaBy, LocalsType
    <3> QED
      BY <3>1 DEF Locals
  <2> QED
    BY <1>1, <1>6, <2>1, <2>2, <2>3 DEF StageNext, MTypeOK
<1>7. CASE AllStaged(m) \/ AllHealthy(m) \/ TransferFails(m) \/ AllApplied(m) \/ AllReverted(m)
  <2>1. TypeOK'
    BY <1>7, Quiet DEF AllStaged, AllHealthy, TransferFails, AllApplied, AllReverted, MTypeOK
  <2>2. mig' \in [Migrations -> Locals]
    BY <1>7, Turns DEF AllStaged, AllHealthy, TransferFails, AllApplied, AllReverted, Phases
  <2> QED
    BY <1>1, <1>7, <2>1, <2>2 DEF AllStaged, AllHealthy, TransferFails, AllApplied, AllReverted
<1>8. CASE HealthNext(m)
  <2>1. \A i \in DOMAIN mig[m].staged : mig[m].staged[i] \in Sagas
    BY LocalsType
  <2>2. TypeOK'
    BY <1>8, <2>1, Moves DEF HealthNext, MTypeOK, Steps
  <2> QED
    BY <1>1, <1>8, <2>2 DEF HealthNext, MTypeOK
<1>9. CASE TransferStep(m)
  <2>1. TypeOK'
    BY <1>9, SagaBy, TransferSteps DEF TransferStep, MTypeOK
  <2> QED
    BY <1>1, <1>9, <2>1 DEF TransferStep, MTypeOK
<1>10. CASE Probe(m)
  <2>1. TypeOK'
    BY <1>10, Quiet DEF Probe, MTypeOK
  <2>2. mig' \in [Migrations -> Locals]
    BY <1>10, Turns DEF Probe, Phases
  <2> QED
    BY <1>1, <1>10, <2>1, <2>2 DEF Probe
<1>11. CASE Apply(m)
  <2>1. TypeOK'
    BY <1>11, Quiet DEF Apply, MTypeOK
  <2>2. PICK r \in Left(m) :
          LET doing == mig[m].doing \cup {r}
          IN  /\ \/ mig' = [mig EXCEPT ![m].doing = {}, ![m].reverts = @ \cup doing]
                 \/ mig' = [mig EXCEPT ![m].doing = doing]
                 \/ mig' = [mig EXCEPT ![m].at = "revert", ![m].doing = {}]
              /\ UNCHANGED dns \/ SetRecord(r, mig[m].change[r])
    BY <1>11 DEF Apply
  <2>3. r \in Records /\ mig[m].change[r] \in Servers \cup {Deleted}
    BY LocalsType DEF Left
  <2>4. \A d, e \in SUBSET Records :
          /\ [mig[m] EXCEPT !.doing = d, !.reverts = e] \in Locals
          /\ [mig[m] EXCEPT !.doing = d] \in Locals
          /\ [mig[m] EXCEPT !.at = "revert", !.doing = d] \in Locals
    <3> TAKE d, e \in SUBSET Records
    <3>1. mig[m] \in Locals
      BY LocalsType
    <3>2. [mig[m] EXCEPT !.doing = d, !.reverts = e] \in Locals
      BY <3>1 DEF Locals
    <3>3. [mig[m] EXCEPT !.doing = d] \in Locals
      BY <3>1 DEF Locals
    <3>4. [mig[m] EXCEPT !.at = "revert", !.doing = d] \in Locals
      BY <3>1 DEF Locals, Phases
    <3> QED
      BY <3>2, <3>3, <3>4
  <2>5. mig' \in [Migrations -> Locals]
    <3> DEFINE doing == mig[m].doing \cup {r}
    <3>1. {} \in SUBSET Records /\ mig[m].doing \cup {r} \in SUBSET Records
          /\ mig[m].reverts \cup (mig[m].doing \cup {r}) \in SUBSET Records
      BY <2>3, LocalsType
    <3>2. CASE mig' = [mig EXCEPT ![m].doing = {}, ![m].reverts = @ \cup doing]
      <4>1. mig' = [mig EXCEPT ![m] = [mig[m] EXCEPT !.doing = {}, !.reverts = @ \cup doing]]
        BY <3>2 DEF MTypeOK
      <4> QED
        BY <2>4, <3>1, <4>1 DEF MTypeOK
    <3>3. CASE mig' = [mig EXCEPT ![m].doing = doing]
      BY <2>4, <3>1, <3>3 DEF MTypeOK
    <3>4. CASE mig' = [mig EXCEPT ![m].at = "revert", ![m].doing = {}]
      <4>1. mig' = [mig EXCEPT ![m] = [mig[m] EXCEPT !.at = "revert", !.doing = {}]]
        BY <3>4 DEF MTypeOK
      <4> QED
        BY <2>4, <3>1, <4>1 DEF MTypeOK
    <3> QED
      BY <2>2, <3>2, <3>3, <3>4
  <2>6. points' \in [Records -> Servers \cup {Deleted}] /\ visits' \in [Domains -> SUBSET Servers]
    BY <2>2, <2>3, SetsRecord DEF MTypeOK
  <2> QED
    BY <1>11, <2>1, <2>5, <2>6 DEF Apply, MTypeOK
<1>12. CASE PublicCheck(m)
  <2>1. TypeOK'
    BY <1>12, Quiet DEF PublicCheck, MTypeOK
  <2>2. Through(m) \in Locals /\ Through(m).chosen = mig[m].chosen
    <3>1. /\ mig[m] \in Locals /\ mig[m].committed \o mig[m].staged \in Seq(Sagas)
          /\ mig[m].moved \cup DOMAIN mig[m].change \in SUBSET Records
          /\ mig[m].migrated \cup {mig[m].group} \in SUBSET Nat
          /\ mig[m].manualDns \cup mig[m].manual \in SUBSET Domains
      BY LocalsType
    <3> QED
      BY <3>1 DEF Locals, Through
  <2>3. NextGroup(m, Through(m)) \in Locals
    BY <2>2, NextGroupOf
  <2>4. mig' = [mig EXCEPT ![m] = NextGroup(m, Through(m))] \/ Turn(m, "revert")
    BY <1>12 DEF PublicCheck, MTypeOK
  <2>5. mig' \in [Migrations -> Locals]
    BY <2>3, <2>4, Turns DEF MTypeOK, Phases
  <2> QED
    BY <1>1, <1>12, <2>1, <2>5 DEF PublicCheck
<1>13. CASE RevertRecord(m)
  <2>1. TypeOK'
    BY <1>13, Quiet DEF RevertRecord, MTypeOK
  <2>2. PICK r \in mig[m].reverts : /\ UNCHANGED dns \/ SetRecord(r, From[m])
                                    /\ mig' = [mig EXCEPT ![m].reverts = @ \ {r}]
    BY <1>13 DEF RevertRecord
  <2>3. r \in Records /\ From[m] \in Servers
    BY LocalsType, MigrationAssumption
  <2>4. [mig[m] EXCEPT !.reverts = @ \ {r}] \in Locals
    BY LocalsType DEF Locals
  <2>5. points' \in [Records -> Servers \cup {Deleted}] /\ visits' \in [Domains -> SUBSET Servers]
    BY <2>2, <2>3, SetsRecord DEF MTypeOK
  <2> QED
    BY <1>13, <2>1, <2>2, <2>4, <2>5 DEF RevertRecord, MTypeOK
<1>14. CASE RollbackNext(m)
  <2>1. PICK t \in Sagas : \E v \in {"remove", "restart", "reset", "stuck"} : Go(t, v)
    BY <1>14 DEF RollbackNext, Rollback
  <2>2. TypeOK'
    BY <1>14, <2>1, Moves DEF RollbackNext, MTypeOK, Steps, Ended
  <2> QED
    BY <1>1, <1>14, <2>2 DEF RollbackNext, MTypeOK
<1>15. CASE AllRolledBack(m)
  <2>1. saga \in [Sagas -> StagedTransfer]
    BY DEF MTypeOK, TypeOK, StagedTransfer
  <2>2. \A r \in StagedTransfer : [r EXCEPT !.at = "rejected"] \in StagedTransfer
    BY DEF StagedTransfer, Ended
  <2>3. saga' \in [Sagas -> StagedTransfer]
    BY <1>15, <2>1, <2>2 DEF AllRolledBack
  <2>4. TypeOK'
    BY <1>15, <2>3 DEF AllRolledBack, MTypeOK, TypeOK, StagedTransfer, world
  <2>5. NextGroup(m, mig[m]) \in Locals
    BY NextGroupOf, LocalsType
  <2> QED
    BY <1>1, <1>15, <2>4, <2>5 DEF AllRolledBack, MTypeOK
<1>16. CASE Drain(m)
  <2>1. TypeOK'
    BY <1>16, Quiet DEF Drain, MTypeOK
  <2>2. mig' \in [Migrations -> Locals]
    BY <1>16, Turns DEF Drain, Phases
  <2>3. \A d \in Domains : { points[r] : r \in RecordsOf(d) } \ {Deleted} \subseteq Servers
    BY DEF MTypeOK, RecordsOf
  <2>4. visits' \in [Domains -> SUBSET Servers]
    BY <1>16, <2>3 DEF Drain, MTypeOK
  <2> QED
    BY <1>16, <2>1, <2>2, <2>4 DEF Drain, MTypeOK
<1>17. CASE CommitNext(m)
  <2>1. \A i \in DOMAIN mig[m].committed : mig[m].committed[i] \in Sagas
    BY LocalsType
  <2>2. TypeOK'
    BY <1>17, <2>1, Moves DEF CommitNext, MTypeOK, Steps
  <2> QED
    BY <1>1, <1>17, <2>2 DEF CommitNext, MTypeOK
<1>18. CASE Unlock(m)
  <2>1. TypeOK'
    BY <1>18, Quiet DEF Unlock, MTypeOK
  <2>2. mig' \in [Migrations -> Locals]
    BY <1>18, Turns DEF Unlock, Phases
  <2> QED
    BY <1>18, <2>1, <2>2 DEF Unlock, MTypeOK
<1> QED
  BY <1>2, <1>3, <1>4, <1>5, <1>6, <1>7, <1>8, <1>9, <1>10, <1>11, <1>12, <1>13, <1>14, <1>15,
     <1>16, <1>17, <1>18 DEF Advance

(* Expiring caches and a crash keep the types, too.                        *)
LEMMA AroundTypes ==
  ASSUME MTypeOK, Around
  PROVE  MTypeOK'
<1>1. CASE MCrash
  <2>1. TypeOK'
    BY <1>1, TypeStep DEF MCrash, MTypeOK, Next, Outside
  <2>2. mig' \in [Migrations -> Locals]
    <3>1. \A m \in Migrations : [mig[m] EXCEPT !.at = "dead"] \in Locals
      <4> TAKE m \in Migrations
      <4> mig[m] \in Locals
        BY DEF MTypeOK
      <4> QED
        BY DEF Locals, Phases
    <3> QED
      BY <1>1, <3>1 DEF MCrash, MTypeOK
  <2> QED
    BY <1>1, <2>1, <2>2 DEF MCrash, MTypeOK, dns
<1>2. ASSUME NEW d \in Domains, Expire(d)
      PROVE  MTypeOK'
  <2>1. TypeOK'
    BY <1>2, Quiet DEF Expire, MTypeOK, vars
  <2>2. { points[r] : r \in RecordsOf(d) } \ {Deleted} \subseteq Servers
    BY DEF MTypeOK, RecordsOf
  <2> QED
    BY <1>2, <2>1, <2>2 DEF Expire, MTypeOK, Set
<1> QED
  BY <1>1, <1>2 DEF Around

-----------------------------------------------------------------------------
(* In most steps the transfers that change were staged before.             *)
Calm(t) == \/ saga'[t] = saga[t]
           \/ /\ Active(t) /\ saga[t].at # "prepared" /\ saga'[t].at \notin {"new", "prepared"}
              /\ saga'[t].source = saga[t].source

(* Taking a transfer on to its next part begins none.                      *)
LEMMA CalmMove ==
  ASSUME TypeOK, NEW t \in Sagas, NEW v \in Steps \cup Ended, Go(t, v), v \notin {"new", "prepared"},
         saga[t].at \in {"staged", "check", "healthy", "failed", "broken"},
         UNCHANGED <<shape, world, building, struck>>
  PROVE  \A u \in Sagas : Calm(u)
BY Moves DEF Calm, Active, Ended

(* All actions but three leave every transfer calm.                        *)
LEMMA CalmSteps ==
  ASSUME MTypeOK, NEW m \in Migrations, Select(m) \/ Advance(m),
         ~PrepareService(m), ~StageNext(m), ~AllRolledBack(m)
  PROVE  \A t \in Sagas : Calm(t)
<1> USE DEF MTypeOK
<1>1. CASE Select(m) \/ Lock(m) \/ Analyze(m) \/ AllStaged(m) \/ AllHealthy(m) \/ TransferFails(m)
           \/ Probe(m) \/ Apply(m) \/ AllApplied(m) \/ PublicCheck(m) \/ RevertRecord(m)
           \/ AllReverted(m) \/ Drain(m) \/ Unlock(m)
  <2>1. saga' = saga
    BY <1>1 DEF Select, Lock, Analyze, AllStaged, AllHealthy, TransferFails, Probe, Apply,
                AllApplied, PublicCheck, RevertRecord, AllReverted, Drain, Unlock, Still, vars
  <2> QED
    BY <2>1 DEF Calm
<1>2. CASE HealthNext(m)
  <2>1. PICK i \in DOMAIN mig[m].staged :
          saga[mig[m].staged[i]].at = "staged" /\ Go(mig[m].staged[i], "check")
    BY <1>2 DEF HealthNext
  <2>2. mig[m].staged[i] \in Sagas
    BY LocalsType
  <2> QED
    BY <1>2, <2>1, <2>2, CalmMove DEF HealthNext, Steps
<1>3. CASE CommitNext(m)
  <2>1. PICK i \in DOMAIN mig[m].committed :
          saga[mig[m].committed[i]].at = "healthy" /\ Go(mig[m].committed[i], "logs")
    BY <1>3 DEF CommitNext
  <2>2. mig[m].committed[i] \in Sagas
    BY LocalsType
  <2> QED
    BY <1>3, <2>1, <2>2, CalmMove DEF CommitNext, Steps
<1>4. CASE RollbackNext(m)
  <2>1. PICK t \in Sagas : /\ \E v \in {"remove", "restart", "reset", "stuck"} : Go(t, v)
                           /\ saga[t].at \in {"failed", "staged", "check", "healthy", "broken"}
    BY <1>4 DEF RollbackNext, Rollback
  <2> QED
    BY <1>4, <2>1, CalmMove DEF RollbackNext, Steps, Ended
<1>5. CASE TransferStep(m)
  BY <1>5, SagaBy, TransferSteps DEF TransferStep, Calm
<1> QED
  BY <1>1, <1>2, <1>3, <1>4, <1>5 DEF Advance

(* What the three others do.                                               *)
LEMMA PrepareSteps ==
  ASSUME MTypeOK, NEW m \in Migrations, PrepareService(m)
  PROVE  \E x \in Group(m) :
           LET t == <<m, x>>
           IN  /\ t \in Sagas /\ saga[t].at = "new" /\ saga'[t].at \in {"rejected", "prepared"}
               /\ Subject[t] = x /\ saga'[t].source = record[x]
               /\ \A u \in Sagas \ {t} : saga'[u] = saga[u]
               /\ UNCHANGED world
               /\ IF \E u \in Sagas \ {t} : Subject[u] = x /\ Active(u)
                    THEN Strike("overlap") ELSE struck' = struck
<1>1. PICK x \in Services : FirstIn(x, Waiting(m, "new")) /\ Prepare(<<m, x>>, "prepared")
  BY DEF PrepareService
<1>2. x \in Group(m)
  BY <1>1 DEF FirstIn, Waiting
<1>3. <<m, x>> \in Sagas /\ Subject[<<m, x>>] = x
  BY SagaBy
<1> QED
  BY <1>1, <1>2, <1>3, Prepared DEF MTypeOK

(* What staging does: one prepared transfer begins.                        *)
LEMMA StageSteps ==
  ASSUME MTypeOK, NEW m \in Migrations, StageNext(m)
  PROVE  \E x \in Group(m) :
           LET t == <<m, x>>
           IN  /\ t \in Sagas /\ saga[t].at = "prepared" /\ saga'[t].at = "begin"
               /\ saga'[t].source = saga[t].source
               /\ \A u \in Sagas \ {t} : saga'[u] = saga[u]
               /\ mig'[m].staged = Append(mig[m].staged, t)
               /\ mig'[m].at = mig[m].at /\ mig'[m].chosen = mig[m].chosen
               /\ mig'[m].group = mig[m].group /\ mig'[m].committed = mig[m].committed
               /\ Others(m)
<1>1. PICK x \in Services :
        /\ FirstIn(x, LET left == Waiting(m, "prepared")
                          stateless == { y \in left : ~shape[y].stateful }
                      IN  IF stateless # {} THEN stateless ELSE left)
        /\ Go(<<m, x>>, "begin")
        /\ mig' = [mig EXCEPT ![m].staged = Append(@, <<m, x>>)]
  BY DEF StageNext
<1>2. x \in Waiting(m, "prepared")
  BY <1>1 DEF FirstIn
<1>3. x \in Group(m) /\ saga[<<m, x>>].at = "prepared"
  BY <1>2 DEF Waiting
<1>4. <<m, x>> \in Sagas
  BY SagaBy
<1>5. /\ saga'[<<m, x>>].at = "begin" /\ saga'[<<m, x>>].source = saga[<<m, x>>].source
      /\ \A u \in Sagas \ {<<m, x>>} : saga'[u] = saga[u]
  BY <1>1, <1>4, Moves DEF StageNext, MTypeOK, Steps
<1>6. /\ mig'[m].staged = Append(mig[m].staged, <<m, x>>)
      /\ mig'[m].at = mig[m].at /\ mig'[m].chosen = mig[m].chosen
      /\ mig'[m].group = mig[m].group /\ mig'[m].committed = mig[m].committed
      /\ Others(m)
  BY <1>1 DEF MTypeOK, Locals, Others
<1> QED
  BY <1>3, <1>4, <1>5, <1>6

(* What the end of a roll-back does: the prepared are rejected.            *)
LEMMA RollbackSteps ==
  ASSUME MTypeOK, NEW m \in Migrations, AllRolledBack(m)
  PROVE  \A t \in Sagas :
           IF t[1] = m /\ t[2] \in Group(m) /\ saga[t].at = "prepared"
             THEN saga'[t].at = "rejected" /\ saga'[t].source = saga[t].source
             ELSE saga'[t] = saga[t]
BY DEF AllRolledBack, MTypeOK, TypeOK

-----------------------------------------------------------------------------
(* A migration that goes on stays under way.                               *)
LEMMA StaysUnderway ==
  ASSUME MTypeOK, NEW m \in Migrations, Advance(m), ~Lock(m), ~Unlock(m)
  PROVE  /\ Underway(m) /\ Underway(m)' /\ Others(m) /\ activeServers' = activeServers
<1>1. CASE PrepareService(m) \/ Analyze(m) \/ AllStaged(m) \/ AllHealthy(m) \/ TransferFails(m)
           \/ Probe(m) \/ AllApplied(m) \/ AllReverted(m) \/ Drain(m)
  <2>1. mig[m].at \in Phases \ (Over \cup {"new", "selected"})
    BY <1>1 DEF PrepareService, Analyze, AllStaged, AllHealthy, TransferFails, Probe, AllApplied,
                AllReverted, Drain, At, Phases, Over
  <2>2. mig'[m].at \notin Over \cup {"new", "selected"} /\ Others(m)
    <3>1. CASE Analyze(m)
      <4>1. PICK c, h : mig' = [mig EXCEPT ![m] = [mig[m] EXCEPT !.at = "stage", !.change = c, !.manual = h]]
        BY <3>1, Analyzed
      <4> QED
        BY <4>1 DEF MTypeOK, Locals, Others, Over
    <3>2. CASE mig' = mig
      BY <2>1, <3>2 DEF Others
    <3>3. CASE \E v \in Phases \ (Over \cup {"new", "selected"}) : Turn(m, v)
      BY <3>3, Turns
    <3>4. CASE ~Analyze(m)
      <4>1. mig' = mig \/ \E v \in Phases \ (Over \cup {"new", "selected"}) : Turn(m, v)
        BY <1>1, <3>4 DEF PrepareService, AllStaged, AllHealthy, TransferFails, Probe, AllApplied,
                          AllReverted, Drain, Phases, Over
      <4> QED
        BY <3>2, <3>3, <4>1
    <3> QED
      BY <3>1, <3>4
  <2>3. Underway(m) /\ Underway(m)' /\ Others(m)
    BY <2>1, <2>2 DEF Underway
  <2> QED
    BY <1>1, <2>3 DEF PrepareService, Analyze, AllStaged, AllHealthy, TransferFails, Probe,
                      AllApplied, AllReverted, Drain, Still
<1>2. CASE HealthNext(m) \/ TransferStep(m) \/ RollbackNext(m) \/ CommitNext(m)
  BY <1>2 DEF HealthNext, TransferStep, RollbackNext, CommitNext, At, Underway, Over, Others
<1>3. CASE StageNext(m)
  BY <1>3, StageSteps DEF StageNext, At, Underway, Over
<1>4. CASE Apply(m)
  <2>1. mig[m].at = "dns" /\ mig'[m].at \in {"dns", "revert"} /\ Others(m)
    BY <1>4 DEF Apply, At, MTypeOK, Locals, Others
  <2> QED
    BY <1>4, <2>1 DEF Apply, Underway, Over
<1>5. CASE RevertRecord(m)
  <2>1. mig[m].at = "revert" /\ mig'[m].at = "revert" /\ Others(m)
    BY <1>5 DEF RevertRecord, At, MTypeOK, Locals, Others
  <2> QED
    BY <1>5, <2>1 DEF RevertRecord, Underway, Over
<1>6. CASE PublicCheck(m) \/ AllRolledBack(m)
  <2>1. Through(m) \in Locals /\ Through(m).chosen = mig[m].chosen
    <3>1. /\ mig[m] \in Locals /\ mig[m].committed \o mig[m].staged \in Seq(Sagas)
          /\ mig[m].moved \cup DOMAIN mig[m].change \in SUBSET Records
          /\ mig[m].migrated \cup {mig[m].group} \in SUBSET Nat
          /\ mig[m].manualDns \cup mig[m].manual \in SUBSET Domains
      BY LocalsType
    <3> QED
      BY <3>1 DEF Locals, Through
  <2>2. \A r \in {mig[m], Through(m)} : NextGroup(m, r).at \in {"prepare", "drain"}
    BY <2>1, NextGroupOf, LocalsType
  <2>3. mig[m].at \in {"public", "rollback"}
    BY <1>6 DEF PublicCheck, AllRolledBack, At
  <2>4. mig'[m].at \in {"prepare", "drain", "revert"} /\ Others(m)
    BY <1>6, <2>2 DEF PublicCheck, AllRolledBack, Turn, MTypeOK, Locals, Others
  <2> QED
    BY <1>6, <2>3, <2>4 DEF PublicCheck, AllRolledBack, Underway, Over
<1> QED
  BY <1>1, <1>2, <1>3, <1>4, <1>5, <1>6 DEF Advance

(* The locks are kept.                                                     *)
LEMMA LocksStep ==
  ASSUME MTypeOK, LocksOK, MNext
  PROVE  LocksOK'
<1>1. ASSUME NEW m \in Migrations, Select(m)
      PROVE  LocksOK'
  <2>1. mig'[m].at \in {"refused", "selected"} /\ Others(m) /\ activeServers' = activeServers
    <3>1. PICK p \in {"refused", "selected"}, f \in SUBSET Services, u \in BOOLEAN :
            mig' = [mig EXCEPT ![m] = [mig[m] EXCEPT !.at = p, !.chosen = f, !.updateDns = u]]
      <4> DEFINE found == { x \in Asked[m] : record[x] = From[m] }
      <4>1. found \in SUBSET Services
        BY MigrationAssumption
      <4>2. PICK u \in BOOLEAN, p \in {"refused", "selected"} :
              mig' = [mig EXCEPT ![m].at = p, ![m].chosen = found, ![m].updateDns = u]
        BY <1>1 DEF Select
      <4>3. mig' = [mig EXCEPT ![m] = [mig[m] EXCEPT !.at = p, !.chosen = found, !.updateDns = u]]
        BY <4>2 DEF MTypeOK
      <4> QED
        BY <4>1, <4>3
    <3> QED
      <4>1. mig'[m].at = p /\ Others(m)
        BY <3>1 DEF MTypeOK, Locals, Others
      <4> QED
        BY <1>1, <4>1 DEF Select, Still
  <2>2. \A n \in Migrations : Underway(n)' => Underway(n)
    BY <2>1 DEF Underway, Over, Others
  <2> QED
    BY <2>1, <2>2 DEF LocksOK, Pair
<1>2. ASSUME NEW m \in Migrations, Lock(m)
      PROVE  LocksOK'
  <2>1. CASE Pair(m) \cap activeServers = {}
    <3>1. activeServers' = activeServers \cup Pair(m) /\ Others(m)
      BY <1>2, <2>1 DEF Lock, Pair, MTypeOK, Others
    <3>2. \A n \in Migrations : Underway(n)' => n = m \/ Underway(n)
      BY <3>1 DEF Underway, Others
    <3> QED
      BY <2>1, <3>1, <3>2 DEF LocksOK, Pair
  <2>2. CASE Pair(m) \cap activeServers # {}
    <3>1. activeServers' = activeServers /\ mig'[m].at = "refused" /\ Others(m)
      BY <1>2, <2>2, Turns DEF Lock, Pair, Phases
    <3>2. \A n \in Migrations : Underway(n)' => Underway(n)
      BY <3>1 DEF Underway, Over, Others
    <3> QED
      BY <3>1, <3>2 DEF LocksOK, Pair
  <2> QED
    BY <2>1, <2>2
<1>3. ASSUME NEW m \in Migrations, Unlock(m)
      PROVE  LocksOK'
  <2>1. activeServers' = activeServers \ Pair(m) /\ mig'[m].at = "done" /\ Others(m) /\ Underway(m)
    BY <1>3, Turns DEF Unlock, Pair, Phases, At, Underway, Over
  <2>2. \A n \in Migrations : Underway(n)' => n # m /\ Underway(n)
    BY <2>1 DEF Underway, Over, Others
  <2> QED
    BY <2>1, <2>2 DEF LocksOK, Pair
<1>4. ASSUME NEW m \in Migrations, Advance(m), ~Lock(m), ~Unlock(m)
      PROVE  LocksOK'
  <2>1. Underway(m) /\ Others(m) /\ activeServers' = activeServers
    BY <1>4, StaysUnderway
  <2>2. \A n \in Migrations : Underway(n)' => Underway(n)
    BY <2>1 DEF Underway, Others
  <2> QED
    BY <2>1, <2>2 DEF LocksOK, Pair
<1>5. CASE Around
  <2>1. CASE MCrash
    <3>1. \A n \in Migrations : ~Underway(n)'
      BY <2>1 DEF MCrash, Underway, Over, MTypeOK, Locals
    <3> QED
      BY <3>1 DEF LocksOK
  <2>2. CASE \E d \in Domains : Expire(d)
    BY <2>2 DEF Expire, LocksOK, Pair, Underway
  <2> QED
    BY <1>5, <2>1, <2>2 DEF Around
<1> QED
  BY <1>1, <1>2, <1>3, <1>4, <1>5 DEF MNext

-----------------------------------------------------------------------------
(* What makes a transfer that is under way stay in the hands of its        *)
(* migration, when the migration goes on in the same environment.          *)
LEMMA Onward ==
  ASSUME MTypeOK, SagasOK, NEW t \in Sagas, Calm(t), Same(t[1]),
         mig'[t[1]].at \notin {"new", "selected", "refused"},
         Underway(t[1]) => Underway(t[1])',
         \/ mig'[t[1]].at = mig[t[1]].at
         \/ mig'[t[1]].at = "commit" /\ mig[t[1]].at = "drain"
         \/ /\ mig'[t[1]].at \notin {"drain", "commit"}
            /\ mig[t[1]].at \in Early => mig'[t[1]].at \in Early
  PROVE  Held(t)'
<1>1. saga'[t].at # "new" => saga[t].at # "new"
  BY DEF Calm, Active
<1>2. Active(t)' => Active(t)
  BY DEF Calm, Active
<1>3. Group(t[1])' = Group(t[1])
  BY DEF Same, Group
<1>4. InHand(t[1], t) => InHand(t[1], t)'
  BY <1>3 DEF InHand, Same, Calm, Early
<1> QED
  BY <1>1, <1>2, <1>4 DEF SagasOK, Held, Same

(* The transfers of other migrations are not concerned.                    *)
LEMMA Elsewhere ==
  ASSUME MTypeOK, SagasOK, NEW t \in Sagas, Calm(t), mig'[t[1]] = mig[t[1]]
  PROVE  Held(t)'
<1>1. CASE saga[t].at = "new"
  BY <1>1 DEF Calm, Active, Held
<1>2. CASE saga[t].at # "new"
  <2>1. mig[t[1]].at \notin {"new", "selected", "refused"}
    BY <1>2 DEF SagasOK, Held
  <2> QED
    BY <2>1, Onward DEF Same, Underway
<1> QED
  BY <1>1, <1>2

(* What sequences have in common with those they are put together from.    *)
LEMMA RangeConcat ==
  ASSUME NEW S, NEW p \in Seq(S), NEW q \in Seq(S)
  PROVE  Range(p) \cup Range(q) \subseteq Range(p \o q)
<1>1. /\ Len(p) \in Nat /\ Len(q) \in Nat /\ DOMAIN p = 1..Len(p) /\ DOMAIN q = 1..Len(q)
      /\ DOMAIN (p \o q) = 1..(Len(p) + Len(q))
  OBVIOUS
<1>2. ASSUME NEW i \in DOMAIN p
      PROVE  p[i] \in Range(p \o q)
  <2>1. i \in DOMAIN (p \o q) /\ (p \o q)[i] = p[i]
    BY <1>1
  <2> QED
    BY <2>1 DEF Range
<1>3. ASSUME NEW i \in DOMAIN q
      PROVE  q[i] \in Range(p \o q)
  <2>1. Len(p) + i \in DOMAIN (p \o q) /\ (p \o q)[Len(p) + i] = q[i]
    BY <1>1
  <2> QED
    BY <2>1 DEF Range
<1> QED
  BY <1>2, <1>3 DEF Range

(* Likewise for a sequence that grows by an element.                       *)
LEMMA RangeAppend ==
  ASSUME NEW S, NEW p \in Seq(S), NEW e \in S
  PROVE  Range(p) \cup {e} \subseteq Range(Append(p, e))
<1>1. /\ Len(p) \in Nat /\ DOMAIN p = 1..Len(p) /\ DOMAIN Append(p, e) = 1..(Len(p) + 1)
      /\ Append(p, e)[Len(p) + 1] = e /\ \A i \in DOMAIN p : Append(p, e)[i] = p[i]
  OBVIOUS
<1> QED
  BY <1>1 DEF Range

(* Every transfer that goes on is in the hands of its migration.           *)
LEMMA SagasStep ==
  ASSUME MTypeOK, SagasOK, MNext
  PROVE  SagasOK'
<1>1. ASSUME NEW m \in Migrations, Select(m) \/ Advance(m), NEW t \in Sagas
      PROVE  Held(t)'
  <2>0. /\ t[1] \in Migrations /\ t[2] \in Services /\ t = <<t[1], t[2]>>
        /\ Held(t)
    BY SagaOf DEF SagasOK
  <2>1. CASE PrepareService(m)
    <3>1. PICK x \in Group(m) :
            /\ saga[<<m, x>>].at = "new" /\ saga'[<<m, x>>].at \in {"rejected", "prepared"}
            /\ \A u \in Sagas \ {<<m, x>>} : saga'[u] = saga[u]
      BY <2>1, PrepareSteps
    <3>2. /\ mig[m].at = "prepare" /\ mig'[m].at \in {"prepare", "revert"} /\ Same(m) /\ Others(m)
      BY <2>1, Turns DEF PrepareService, At, Phases, Same, Others
    <3>3. CASE t = <<m, x>>
      <4>1. t[1] = m /\ t[2] = x /\ x \in Group(m)' /\ x \in mig[m].chosen /\ EnvOf[x] = mig[m].group
        BY <3>2, <3>3 DEF Group, Same
      <4>2. saga'[t].at = "prepared" => InHand(m, t)'
        BY <3>2, <4>1 DEF InHand, Early
      <4>3. Active(t)' => saga'[t].at = "prepared"
        BY <3>1, <3>3 DEF Active, Ended
      <4>4. EnvOf[x] <= mig'[m].group /\ x \in mig'[m].chosen
        BY <3>2, <4>1, LocalsType DEF Same
      <4> QED
        BY <3>2, <4>1, <4>2, <4>3, <4>4 DEF Held, Underway, Over
    <3>4. CASE t # <<m, x>> /\ t[1] = m
      <4>1. Calm(t) /\ Same(t[1])
        BY <3>1, <3>2, <3>4 DEF Calm
      <4> QED
        BY <3>2, <3>4, <4>1, Onward DEF Underway, Over, Early
    <3>5. CASE t[1] # m
      BY <2>0, <3>1, <3>2, <3>5, Elsewhere DEF Calm, Others
    <3> QED
      BY <3>3, <3>4, <3>5
  <2>2. CASE StageNext(m)
    <3>1. PICK x \in Group(m) :
            LET s == <<m, x>>
            IN  /\ s \in Sagas /\ saga[s].at = "prepared" /\ saga'[s].at = "begin"
                /\ \A u \in Sagas \ {s} : saga'[u] = saga[u]
                /\ mig'[m].staged = Append(mig[m].staged, s)
                /\ mig'[m].at = mig[m].at /\ mig'[m].chosen = mig[m].chosen
                /\ mig'[m].group = mig[m].group /\ mig'[m].committed = mig[m].committed
                /\ Others(m)
      BY <2>2, StageSteps
    <3>2. mig[m].at = "stage"
      BY <2>2 DEF StageNext, At
    <3>3. /\ <<m, x>> \in Range(mig'[m].staged)
          /\ Range(mig[m].staged) \subseteq Range(mig'[m].staged)
      <4>1. mig[m].staged \in Seq(Sagas)
        BY LocalsType
      <4> QED
        BY <3>1, <4>1, RangeAppend
    <3>4. CASE t = <<m, x>>
      <4>1. t[1] = m /\ t[2] = x /\ x \in Group(m)' /\ InHand(m, t)'
        BY <3>1, <3>2, <3>3, <3>4 DEF Group, InHand
      <4> QED
        BY <2>0, <3>1, <3>2, <3>4, <4>1 DEF Held, Underway, Over
    <3>5. CASE t # <<m, x>> /\ t[1] = m
      <4>1. saga'[t] = saga[t] /\ Group(m)' = Group(m)
        BY <3>1, <3>5 DEF Group
      <4>2. InHand(m, t) => InHand(m, t)'
        BY <3>1, <3>2, <3>3, <4>1 DEF InHand
      <4> QED
        BY <2>0, <3>1, <3>5, <4>1, <4>2 DEF Held, Underway, Active
    <3>6. CASE t[1] # m
      BY <2>0, <3>1, <3>6, Elsewhere DEF Calm, Others
    <3> QED
      BY <3>4, <3>5, <3>6
  <2>3. CASE AllRolledBack(m)
    <3>1. /\ saga'[t].at \in {"rejected", saga[t].at}
          /\ saga[t].at = "new" => saga'[t].at = "new"
          /\ t[1] # m => saga'[t] = saga[t]
          /\ t[1] = m /\ t[2] \in Group(m) => ~(saga'[t].at = "prepared")
      BY <2>3, RollbackSteps
    <3>2. LET n == NextGroup(m, mig[m])
          IN  /\ n.chosen = mig[m].chosen /\ n.committed = mig[m].committed
              /\ \/ n.at = "prepare" /\ n.group > mig[m].group
                 \/ n.at = "drain" /\ n.group = mig[m].group
      BY LocalsType, NextGroupOf
    <3>3. mig'[m] = NextGroup(m, mig[m]) /\ Others(m) /\ mig[m].at = "rollback"
      BY <2>3 DEF AllRolledBack, MTypeOK, Others, At
    <3>4. CASE t[1] = m
      <4>1. t \in Range(mig[m].staged) => ~Active(t)
        BY <2>3 DEF AllRolledBack, RolledBack, Active, Ended
      <4>2. Active(t)' => t \in Range(mig[m].committed)
        BY <2>0, <3>1, <3>4, <4>1 DEF Held, InHand, Active, Ended
      <4>3. EnvOf[t[2]] \in Nat
        BY <2>0, MigrationAssumption
      <4>4. mig'[m].group \in Nat /\ mig[m].group \in Nat
        BY <3>2, <3>3, LocalsType, NextGroupOf DEF Locals
      <4>5. EnvOf[t[2]] <= mig[m].group => EnvOf[t[2]] <= mig'[m].group
        BY <3>2, <3>3, <4>3, <4>4
      <4>6. mig'[m].chosen = mig[m].chosen /\ Range(mig'[m].committed) = Range(mig[m].committed)
            /\ mig'[m].at \in {"prepare", "drain"}
        BY <3>2, <3>3
      <4>7. saga'[t].at # "new" => saga[t].at # "new"
        BY <3>1
      <4> QED
        BY <2>0, <3>4, <4>2, <4>5, <4>6, <4>7 DEF Held, InHand, Underway, Over
    <3>5. CASE t[1] # m
      BY <2>0, <3>1, <3>3, <3>5, Elsewhere DEF Calm, Others
    <3> QED
      BY <3>4, <3>5
  <2>4. ASSUME ~PrepareService(m), ~StageNext(m), ~AllRolledBack(m)
        PROVE  Held(t)'
    <3>0. Calm(t)
      BY <1>1, <2>4, CalmSteps
    <3>1. CASE t[1] # m
      <4>1. Others(m)
        <5>1. CASE Select(m)
          BY <5>1 DEF Select, Others, MTypeOK
        <5>2. CASE Lock(m) \/ Unlock(m)
          BY <5>2 DEF Lock, Unlock, Others, MTypeOK, Turn
        <5> QED
          BY <1>1, <5>1, <5>2, StaysUnderway
      <4> QED
        BY <2>0, <3>0, <3>1, <4>1, Elsewhere DEF Others
    <3>2. CASE t[1] = m /\ (Select(m) \/ Lock(m))
      <4>1. saga'[t] = saga[t] /\ mig[m].at \in {"new", "selected"}
        BY <3>2 DEF Select, Lock, At, Still, vars
      <4> QED
        BY <2>0, <3>2, <4>1 DEF Held
    <3>3. CASE t[1] = m /\ Unlock(m)
      <4>1. mig[m].at = "commit" /\ mig'[m].at = "done" /\ Same(m) /\ saga' = saga
        BY <3>3, Turns DEF Unlock, At, Phases, vars
      <4>2. t \in Range(mig[m].committed) => ~Active(t)
        BY <3>3 DEF Unlock, Committed, Active, Ended
      <4>3. ~Active(t)
        BY <2>0, <3>3, <4>1, <4>2 DEF Held, InHand, Active
      <4> QED
        BY <2>0, <3>3, <4>1, <4>3 DEF Held, Same, Active
    <3>4. CASE t[1] = m /\ AllStaged(m)
      <4>1. mig[m].at = "stage" /\ mig'[m].at = "health" /\ Same(m) /\ saga' = saga
        BY <3>4, Turns DEF AllStaged, At, Phases, Still, vars
      <4>2. ~(t[2] \in Group(m) /\ saga[t].at = "prepared")
        BY <2>0, <3>4 DEF AllStaged, Waiting
      <4>3. Group(m)' = Group(m)
        BY <4>1 DEF Group, Same
      <4>4. InHand(m, t) => InHand(m, t)'
        BY <4>1, <4>2, <4>3 DEF InHand, Same
      <4> QED
        BY <2>0, <3>4, <4>1, <4>4 DEF Held, Same, Active, Underway, Over
    <3>5. CASE t[1] = m /\ PublicCheck(m)
      <4>1. CASE Turn(m, "revert")
        <5>1. mig[m].at = "public" /\ mig'[m].at = "revert" /\ Same(m)
          BY <3>5, <4>1, Turns DEF PublicCheck, At, Phases
        <5> QED
          BY <3>0, <3>5, <5>1, Onward DEF Underway, Over, Early
      <4>2. CASE mig' = [mig EXCEPT ![m] = NextGroup(m, Through(m))]
        <5>1. /\ Through(m) \in Locals /\ Through(m).chosen = mig[m].chosen
              /\ Through(m).group = mig[m].group
              /\ Through(m).committed = mig[m].committed \o mig[m].staged
          <6>1. /\ mig[m] \in Locals /\ mig[m].committed \o mig[m].staged \in Seq(Sagas)
                /\ mig[m].moved \cup DOMAIN mig[m].change \in SUBSET Records
                /\ mig[m].migrated \cup {mig[m].group} \in SUBSET Nat
                /\ mig[m].manualDns \cup mig[m].manual \in SUBSET Domains
            BY LocalsType
          <6> QED
            BY <6>1 DEF Locals, Through
        <5>2. LET n == NextGroup(m, Through(m))
              IN  /\ n \in Locals /\ n.chosen = mig[m].chosen
                  /\ n.committed = mig[m].committed \o mig[m].staged
                  /\ \/ n.at = "prepare" /\ n.group > mig[m].group
                     \/ n.at = "drain" /\ n.group = mig[m].group
          BY <5>1, NextGroupOf
        <5>3. mig'[m] = NextGroup(m, Through(m)) /\ mig[m].at = "public" /\ saga' = saga
          BY <3>5, <4>2 DEF PublicCheck, MTypeOK, At
        <5>4. /\ mig'[m].committed = mig[m].committed \o mig[m].staged
              /\ mig[m].committed \in Seq(Sagas) /\ mig[m].staged \in Seq(Sagas)
          BY <5>2, <5>3, LocalsType
        <5>5. Range(mig[m].committed) \cup Range(mig[m].staged) \subseteq Range(mig'[m].committed)
          BY <5>4, RangeConcat
        <5>6. Active(t) => t \in Range(mig'[m].committed)
          BY <2>0, <3>5, <5>3, <5>5 DEF Held, InHand, Early, Active
        <5>7. EnvOf[t[2]] \in Nat /\ mig[m].group \in Nat /\ mig'[m].group \in Nat
          BY <2>0, <5>2, <5>3, MigrationAssumption, LocalsType DEF Locals
        <5>8. EnvOf[t[2]] <= mig[m].group => EnvOf[t[2]] <= mig'[m].group
          BY <5>2, <5>3, <5>7
        <5> QED
          BY <2>0, <3>5, <5>2, <5>3, <5>6, <5>8 DEF Held, InHand, Underway, Over, Active
      <4> QED
        BY <3>5, <4>1, <4>2 DEF PublicCheck
    <3>6. CASE t[1] = m /\ (Analyze(m) \/ AllHealthy(m) \/ TransferFails(m) \/ Probe(m)
                            \/ AllApplied(m) \/ AllReverted(m) \/ Drain(m))
      <4>1. /\ Same(m)
            /\ \/ mig[m].at = "drain" /\ mig'[m].at = "commit"
               \/ /\ mig'[m].at \in {"stage", "probe", "revert", "dns", "public", "rollback"}
                  /\ mig[m].at \in Early => mig'[m].at \in Early
        <5>1. CASE Analyze(m)
          <6>1. PICK c, h :
                  mig' = [mig EXCEPT ![m] = [mig[m] EXCEPT !.at = "stage", !.change = c, !.manual = h]]
            BY <5>1, Analyzed
          <6> QED
            BY <6>1 DEF MTypeOK, Locals, Same, Early
        <5>2. CASE Drain(m)
          BY <5>2, Turns DEF Drain, At, Phases
        <5>3. CASE AllHealthy(m) \/ TransferFails(m) \/ Probe(m) \/ AllApplied(m) \/ AllReverted(m)
          BY <5>3, Turns DEF AllHealthy, TransferFails, Probe, AllApplied, AllReverted, At, Phases,
                            Early
        <5> QED
          BY <3>6, <5>1, <5>2, <5>3
      <4> QED
        BY <3>0, <3>6, <4>1, Onward DEF Underway, Over
    <3>7. CASE t[1] = m /\ (HealthNext(m) \/ TransferStep(m) \/ Apply(m) \/ RevertRecord(m)
                            \/ RollbackNext(m) \/ CommitNext(m))
      <4>1. /\ Same(m)
            /\ \/ mig'[m].at = mig[m].at
               \/ mig[m].at = "dns" /\ mig'[m].at = "revert"
        <5>1. CASE HealthNext(m) \/ TransferStep(m) \/ RollbackNext(m) \/ CommitNext(m)
          BY <5>1 DEF HealthNext, TransferStep, RollbackNext, CommitNext, Same
        <5>2. CASE Apply(m)
          BY <5>2 DEF Apply, At, MTypeOK, Locals, Same
        <5>3. CASE RevertRecord(m)
          BY <5>3 DEF RevertRecord, MTypeOK, Locals, Same
        <5> QED
          BY <3>7, <5>1, <5>2, <5>3
      <4>2. Underway(m) /\ Underway(m)'
        BY <2>4, <3>7, StaysUnderway DEF Advance, Lock, Unlock, At, HealthNext, TransferStep, Apply,
           RevertRecord, RollbackNext, CommitNext, Underway, Over
      <4> QED
        BY <3>0, <3>7, <4>1, <4>2, Onward DEF Underway, Over, Early
    <3> QED
      BY <1>1, <2>4, <3>1, <3>2, <3>3, <3>4, <3>5, <3>6, <3>7 DEF Advance
  <2> QED
    BY <2>1, <2>2, <2>3, <2>4
<1>2. ASSUME Around, NEW t \in Sagas
      PROVE  Held(t)'
  <2>0. t[1] \in Migrations /\ Held(t)
    BY SagaOf DEF SagasOK
  <2>1. CASE MCrash
    <3>1. ~Active(t)' /\ (saga'[t].at # "new" => saga[t].at # "new")
      BY <2>1 DEF MCrash, Crash, Active, Ended, MTypeOK, TypeOK
    <3>2. /\ mig'[t[1]].chosen = mig[t[1]].chosen /\ mig'[t[1]].group = mig[t[1]].group
          /\ mig'[t[1]].at \in {"dead", mig[t[1]].at}
      BY <2>0, <2>1 DEF MCrash, MTypeOK, Locals
    <3> QED
      BY <2>0, <3>1, <3>2 DEF Held
  <2>2. CASE \E d \in Domains : Expire(d)
    <3>1. saga' = saga /\ mig' = mig
      BY <2>2 DEF Expire, vars
    <3> QED
      BY <3>1, Elsewhere DEF Calm
  <2> QED
    BY <1>2, <2>1, <2>2 DEF Around
<1> QED
  BY <1>1, <1>2 DEF MNext, SagasOK

-----------------------------------------------------------------------------
(* Where a transfer began is known for good once it is prepared.           *)
LEMMA Holds ==
  ASSUME MTypeOK, MNext, SelectionHolds'
  PROVE  SelectionHolds
<1> SUFFICES ASSUME NEW t \in Sagas, saga[t].at # "new"
             PROVE  saga[t].source \in {From[t[1]], To[t[1]]}
  BY DEF SelectionHolds
<1>1. saga'[t].at # "new" /\ saga'[t].source = saga[t].source
  <2>1. CASE MCrash
    BY <2>1 DEF MCrash, Crash, MTypeOK, TypeOK
  <2>2. CASE \E d \in Domains : Expire(d)
    BY <2>2 DEF Expire, vars
  <2>3. ASSUME NEW m \in Migrations, Select(m) \/ Advance(m)
        PROVE  saga'[t].at # "new" /\ saga'[t].source = saga[t].source
    <3>1. CASE PrepareService(m)
      BY <3>1, PrepareSteps
    <3>2. CASE StageNext(m)
      BY <3>2, StageSteps
    <3>3. CASE AllRolledBack(m)
      BY <3>3, RollbackSteps
    <3> QED
      BY <2>3, <3>1, <3>2, <3>3, CalmSteps DEF Calm
  <2> QED
    BY <2>1, <2>2, <2>3 DEF MNext, Around
<1> QED
  BY <1>1 DEF SelectionHolds

(* Only a preparation can meet another transfer of its service.            *)
LEMMA OverlapBy ==
  ASSUME MTypeOK, MNext, "overlap" \notin struck, "overlap" \in struck'
  PROVE  \E m \in Migrations : PrepareService(m)
<1>1. ASSUME NEW m \in Migrations, Select(m) \/ Advance(m), ~PrepareService(m)
      PROVE  FALSE
  <2>1. CASE TransferStep(m)
    BY <2>1, SagaBy, TransferSteps DEF TransferStep, MTypeOK
  <2>2. CASE Probe(m) \/ Apply(m) \/ PublicCheck(m) \/ RevertRecord(m) \/ Drain(m)
    BY <2>2 DEF Probe, Apply, PublicCheck, RevertRecord, Drain, Strike
  <2>3. CASE Select(m) \/ Lock(m) \/ Analyze(m) \/ StageNext(m) \/ AllStaged(m) \/ HealthNext(m)
             \/ AllHealthy(m) \/ TransferFails(m) \/ AllApplied(m) \/ AllReverted(m)
             \/ RollbackNext(m) \/ AllRolledBack(m) \/ CommitNext(m) \/ Unlock(m)
    BY <2>3 DEF Select, Lock, Analyze, StageNext, AllStaged, HealthNext, AllHealthy, TransferFails,
                AllApplied, AllReverted, RollbackNext, AllRolledBack, CommitNext, Unlock, Still, vars
  <2> QED
    BY <1>1, <2>1, <2>2, <2>3 DEF Advance
<1>2. ASSUME Around
      PROVE  FALSE
  <2>1. CASE MCrash
    <3>1. struck' = struck \cup {"crash"}
      BY <2>1 DEF MCrash, Crash, Strike
    <3> QED
      BY <3>1
  <2>2. CASE \E d \in Domains : Expire(d)
    BY <2>2 DEF Expire, vars
  <2> QED
    BY <1>2, <2>1, <2>2 DEF Around
<1> QED
  BY <1>1, <1>2 DEF MNext, Advance

(* The lock keeps it from doing so.                                        *)
LEMMA NoOverlapStep ==
  ASSUME MInv, MNext
  PROVE  NoOverlap'
<1> SUFFICES ASSUME SelectionHolds', "overlap" \in struck'
             PROVE  FALSE
  BY DEF NoOverlap
<1>1. MTypeOK /\ SelectionHolds /\ "overlap" \notin struck
  BY Holds DEF MInv, NoOverlap
<1>2. PICK m \in Migrations : PrepareService(m)
  BY <1>1, OverlapBy
<1>3. PICK x \in Group(m) :
        LET t == <<m, x>>
        IN  /\ t \in Sagas /\ saga[t].at = "new" /\ saga'[t].at \in {"rejected", "prepared"}
            /\ Subject[t] = x /\ saga'[t].source = record[x]
            /\ \A u \in Sagas \ {t} : saga'[u] = saga[u]
            /\ UNCHANGED world
            /\ IF \E u \in Sagas \ {t} : Subject[u] = x /\ Active(u)
                 THEN Strike("overlap") ELSE struck' = struck
  BY <1>1, <1>2, PrepareSteps
<1>4. PICK u \in Sagas \ {<<m, x>>} : Subject[u] = x /\ Active(u)
  BY <1>1, <1>3
<1>5. u[1] \in Migrations /\ u[1] # m /\ u[2] = x
  BY <1>3, <1>4, SagaOf
<1>6. Underway(m) /\ Underway(u[1])
  <2>1. Underway(m)
    BY <1>2 DEF PrepareService, At, Underway, Over
  <2>2. Held(u)
    BY DEF MInv, SagasOK
  <2> QED
    BY <1>4, <2>1, <2>2 DEF Held, Active
<1>7. record[x] \in Pair(u[1])
  BY <1>1, <1>4, <1>5 DEF MInv, RecordsOK
<1>8. record[x] \in Pair(m)
  <2>1. saga'[<<m, x>>].source \in {From[m], To[m]}
    BY <1>3, SagaOf DEF SelectionHolds
  <2> QED
    BY <1>3, <2>1 DEF Pair
<1> QED
  BY <1>5, <1>6, <1>7, <1>8 DEF MInv, LocksOK

(* So a service is in one transfer at a time.                              *)
LEMMA OneTransferMStep ==
  ASSUME MTypeOK, OneTransfer, MNext
  PROVE  OneTransfer'
<1> SUFFICES ASSUME Safe({"overlap"})', NEW u \in Sagas, NEW v \in Sagas, Active(u)', Active(v)',
                    Subject[u] = Subject[v], u # v
             PROVE  FALSE
  BY DEF OneTransfer
<1>1. "overlap" \notin struck' /\ ("overlap" \in struck => "overlap" \in struck')
  <2>1. "overlap" \in struck => "overlap" \in struck'
    <3>1. CASE Around
      BY <3>1 DEF Around, MCrash, Crash, Expire, Strike, vars
    <3>2. ASSUME NEW m \in Migrations, PrepareService(m)
          PROVE  "overlap" \in struck => "overlap" \in struck'
      BY <3>2, PrepareSteps DEF Strike
    <3>3. ASSUME NEW m \in Migrations, TransferStep(m)
          PROVE  "overlap" \in struck => "overlap" \in struck'
      <4>1. struck' = struck \/ \E k : Strike(k)
        BY <3>3, SagaBy, SafeBefore DEF TransferStep, Next
      <4> QED
        BY <4>1 DEF Strike
    <3>4. ASSUME NEW m \in Migrations,
                 Probe(m) \/ Apply(m) \/ PublicCheck(m) \/ RevertRecord(m) \/ Drain(m)
          PROVE  "overlap" \in struck => "overlap" \in struck'
      BY <3>4 DEF Probe, Apply, PublicCheck, RevertRecord, Drain, Strike
    <3>5. ASSUME NEW m \in Migrations,
                 Select(m) \/ Lock(m) \/ Analyze(m) \/ StageNext(m) \/ AllStaged(m) \/ HealthNext(m)
                 \/ AllHealthy(m) \/ TransferFails(m) \/ AllApplied(m) \/ AllReverted(m)
                 \/ RollbackNext(m) \/ AllRolledBack(m) \/ CommitNext(m) \/ Unlock(m)
          PROVE  "overlap" \in struck => "overlap" \in struck'
      BY <3>5 DEF Select, Lock, Analyze, StageNext, AllStaged, HealthNext, AllHealthy, TransferFails,
                  AllApplied, AllReverted, RollbackNext, AllRolledBack, CommitNext, Unlock, Still, vars
    <3> QED
      BY <3>1, <3>2, <3>3, <3>4, <3>5 DEF MNext, Advance
  <2> QED
    BY <2>1 DEF Safe
<1>2. Safe({"overlap"})
  BY <1>1 DEF Safe
<1>3. ASSUME \A t \in Sagas : Active(t)' => Active(t)
      PROVE  FALSE
  BY <1>2, <1>3 DEF OneTransfer
<1>4. CASE Around
  <2>1. CASE MCrash
    BY <1>3, <2>1 DEF MCrash, Crash, MTypeOK, TypeOK, Active, Ended
  <2>2. CASE \E d \in Domains : Expire(d)
    BY <1>3, <2>2 DEF Expire, vars, Active
  <2> QED
    BY <1>4, <2>1, <2>2 DEF Around
<1>5. ASSUME NEW m \in Migrations, PrepareService(m)
      PROVE  FALSE
  <2>1. PICK x \in Group(m) :
          LET t == <<m, x>>
          IN  /\ t \in Sagas /\ saga[t].at = "new" /\ Subject[t] = x
              /\ \A w \in Sagas \ {t} : saga'[w] = saga[w]
              /\ IF \E w \in Sagas \ {t} : Subject[w] = x /\ Active(w)
                   THEN Strike("overlap") ELSE struck' = struck
    BY <1>5, PrepareSteps
  <2>2. \A w \in Sagas \ {<<m, x>>} : ~(Subject[w] = x /\ Active(w))
    BY <1>1, <2>1 DEF Strike
  <2>3. \A w \in Sagas \ {<<m, x>>} : Active(w)' => Active(w)
    BY <2>1 DEF Active
  <2>4. u # <<m, x>> /\ v # <<m, x>>
    BY <2>1, <2>2, <2>3
  <2> QED
    BY <1>2, <2>3, <2>4 DEF OneTransfer
<1>6. ASSUME NEW m \in Migrations, StageNext(m)
      PROVE  FALSE
  <2>1. \A t \in Sagas : Active(t)' => Active(t)
    BY <1>6, StageSteps DEF Active, Ended
  <2> QED
    BY <1>3, <2>1
<1>7. ASSUME NEW m \in Migrations, AllRolledBack(m)
      PROVE  FALSE
  <2>1. \A t \in Sagas : Active(t)' => Active(t)
    BY <1>7, RollbackSteps DEF Active, Ended
  <2> QED
    BY <1>3, <2>1
<1>8. ASSUME NEW m \in Migrations, Select(m) \/ Advance(m), ~PrepareService(m), ~StageNext(m),
             ~AllRolledBack(m)
      PROVE  FALSE
  BY <1>3, <1>8, CalmSteps DEF Calm, Active
<1> QED
  BY <1>4, <1>5, <1>6, <1>7, <1>8 DEF MNext, Advance

(* Records are written by transfers only.                                  *)
LEMMA RecordsStep ==
  ASSUME MInv, MNext
  PROVE  RecordsOK'
<1> SUFFICES ASSUME SelectionHolds', NEW t \in Sagas, Active(t)'
             PROVE  record'[t[2]] \in Pair(t[1])
  BY DEF RecordsOK, Pair
<1>1. MTypeOK /\ SelectionHolds /\ Safe({"overlap"})
  BY Holds DEF MInv, NoOverlap, Safe
<1>2. Active(t) => record[t[2]] \in Pair(t[1])
  BY <1>1 DEF MInv, RecordsOK
<1>3. t[1] \in Migrations /\ t[2] \in Services /\ Subject[t] = t[2] /\ Target[t] = To[t[1]]
  BY SagaOf
<1>4. CASE Around
  <2>1. CASE MCrash
    BY <2>1 DEF MCrash, Crash, MTypeOK, TypeOK, Active, Ended, MInv
  <2>2. CASE \E d \in Domains : Expire(d)
    BY <1>2, <2>2 DEF Expire, vars, world, Active
  <2> QED
    BY <1>4, <1>1, <2>1, <2>2 DEF Around
<1>5. ASSUME NEW m \in Migrations, PrepareService(m)
      PROVE  record'[t[2]] \in Pair(t[1])
  <2>1. PICK x \in Group(m) :
          LET s == <<m, x>>
          IN  /\ s \in Sagas /\ saga[s].at = "new" /\ saga'[s].at \in {"rejected", "prepared"}
              /\ Subject[s] = x /\ saga'[s].source = record[x]
              /\ \A u \in Sagas \ {s} : saga'[u] = saga[u]
              /\ UNCHANGED world
    BY <1>1, <1>5, PrepareSteps
  <2>2. record' = record
    BY <2>1 DEF world
  <2>3. CASE t = <<m, x>>
    BY <1>3, <2>1, <2>2, <2>3 DEF SelectionHolds, Pair
  <2>4. CASE t # <<m, x>>
    BY <1>2, <2>1, <2>2, <2>4 DEF Active
  <2> QED
    BY <2>3, <2>4
<1>6. ASSUME NEW m \in Migrations, TransferStep(m)
      PROVE  record'[t[2]] \in Pair(t[1])
  <2>1. PICK x \in Services : Step(<<m, x>>)
    BY <1>6 DEF TransferStep
  <2> DEFINE s == <<m, x>>
  <2>2. s \in Sagas /\ Subject[s] = x /\ Target[s] = To[m]
    BY SagaBy
  <2>3. /\ Active(s) /\ \A u \in Sagas \ {s} : saga'[u] = saga[u]
        /\ \A y \in Services \ {x} : record'[y] = record[y]
        /\ record'[x] \in {record[x], To[m], saga[s].source}
    BY <1>1, <2>1, <2>2, TransferSteps DEF MTypeOK
  <2>4. CASE t = s
    <3>1. saga[s].source \in {From[m], To[m]}
      BY <1>1, <2>2, <2>3 DEF SelectionHolds, Active
    <3> QED
      BY <1>2, <2>3, <2>4, <3>1 DEF Pair
  <2>5. CASE t # s
    <3>1. Active(t)
      BY <2>3, <2>5 DEF Active
    <3>2. t[2] # x
      BY <1>1, <1>3, <2>2, <2>3, <2>5, <3>1 DEF MInv, OneTransfer
    <3> QED
      BY <1>2, <1>3, <2>3, <3>1, <3>2
  <2> QED
    BY <2>4, <2>5
<1>7. ASSUME NEW m \in Migrations, Select(m) \/ Advance(m), ~PrepareService(m), ~TransferStep(m)
      PROVE  record'[t[2]] \in Pair(t[1])
  <2>1. record' = record
    BY <1>7 DEF Advance, Select, Lock, Analyze, StageNext, AllStaged, HealthNext, AllHealthy,
                TransferFails, Probe, Apply, AllApplied, PublicCheck, RevertRecord, AllReverted,
                RollbackNext, AllRolledBack, Drain, CommitNext, Unlock, Still, vars, world
  <2>2. Active(t)
    <3>1. CASE StageNext(m)
      BY <1>1, <3>1, StageSteps DEF Active, Ended
    <3>2. CASE AllRolledBack(m)
      BY <1>1, <3>2, RollbackSteps DEF Active, Ended
    <3>3. CASE ~StageNext(m) /\ ~AllRolledBack(m)
      BY <1>1, <1>7, <3>3, CalmSteps DEF Calm, Active
    <3> QED
      BY <3>1, <3>2, <3>3
  <2> QED
    BY <1>2, <2>1, <2>2
<1> QED
  BY <1>4, <1>5, <1>6, <1>7 DEF MNext, Advance

-----------------------------------------------------------------------------
(* A migration, its locks and its transfers agree in every reachable state.*)
THEOREM MInvariance == MSpec => []MInv
<1>1. MInit => MInv
  <2> SUFFICES ASSUME MInit
               PROVE  MInv
    OBVIOUS
  <2>1. TypeOK
    <3>1. NoSaga \in StagedTransfer
      BY TransferAssumption DEF NoSaga, StagedTransfer, Steps, Statuses
    <3> QED
      BY <3>1, TransferAssumption DEF MInit, Init, TypeOK, Statuses, StagedTransfer
  <2>2. NoMigration \in Locals
    BY NoChange DEF NoMigration, Locals, Phases
  <2>3. visits \in [Domains -> SUBSET Servers]
    BY MigrationAssumption DEF MInit
  <2>4. MTypeOK
    BY <2>1, <2>2, <2>3, MigrationAssumption DEF MInit, MTypeOK
  <2>5. \A t \in Sagas : saga[t].at = "new"
    BY DEF MInit, Init, NoSaga
  <2>6. \A m \in Migrations : ~Underway(m)
    BY DEF MInit, NoMigration, Underway
  <2> QED
    BY <2>4, <2>5, <2>6 DEF MInv, OneTransfer, LocksOK, SagasOK, Held, RecordsOK, NoOverlap, Active,
                            MInit, Init
<1>2. MInv /\ [MNext]_mvars => MInv'
  <2> SUFFICES ASSUME MInv, [MNext]_mvars
               PROVE  MInv'
    OBVIOUS
  <2>1. CASE MNext
    BY <2>1, AdvanceTypes, AroundTypes, OneTransferMStep, LocksStep, SagasStep, RecordsStep,
       NoOverlapStep DEF MInv, MNext
  <2>2. CASE UNCHANGED mvars
    <3>1. UNCHANGED <<shape, record, status, present, running, fresh, saga, building, struck, mig,
                      points, visits, activeServers>>
      BY <2>2 DEF mvars, vars, world, dns
    <3> QED
      BY <3>1 DEF MInv, MTypeOK, TypeOK, OneTransfer, Safe, LocksOK, Pair, SagasOK, Held, InHand, Group,
                  Underway, Active, RecordsOK, NoOverlap, SelectionHolds
  <2> QED
    BY <2>1, <2>2
<1> QED
  BY <1>1, <1>2, PTL DEF MSpec

(* As long as services are where they were selected, two migrations never  *)
(* transfer one service at once (server-migration.ts, lockServers).        *)
THEOREM TransfersApart == MSpec => []NoOverlap
<1>1. MInv => NoOverlap
  BY DEF MInv
<1> QED
  BY <1>1, MInvariance, PTL

-----------------------------------------------------------------------------
(* What an environment has in common, and what is left of it.              *)
Forward == {"prepared", "begin", "stop", "copy", "switch", "deploy", "deploying", "staged", "check",
            "healthy", "failed"}
Closing == {"logs", "clean", "finish", "moved", "unclean"}
Kept == {"healthy"} \cup Closing
Unlocked == {"new", "selected", "refused"}

Where(m, x) == saga[<<m, x>>].at
Owner(r) == ServiceOf[DomainOf[r]]
Passed(m, x) == EnvOf[x] < mig[m].group \/ mig[m].at \in {"drain", "commit"}
Settled(m, x) == EnvOf[x] \in mig[m].migrated

(* The locals of a call say which transfers and environments it has.       *)
GroupsOK(m) ==
  /\ \A t \in Range(mig[m].staged) : t[1] = m /\ t[2] \in Group(m)
  /\ \A t \in Range(mig[m].committed) : t[1] = m /\ t[2] \in mig[m].chosen /\ Settled(m, t[2])
  /\ \A e \in mig[m].migrated : e <= mig[m].group
  /\ Underway(m) /\ mig[m].group \in mig[m].migrated => mig[m].at \in {"drain", "commit"}
  /\ mig[m].at \in Unlocked =>
       mig[m].staged = <<>> /\ mig[m].committed = <<>> /\ mig[m].migrated = {} /\ mig[m].change = <<>>

(* Records are changed for the environment in hand, and changed back       *)
(* before its transfers are rolled back.                                   *)
ChangesOK(m) ==
  /\ \A r \in DOMAIN mig[m].change : Owner(r) \in Group(m)
  /\ mig[m].reverts \cup mig[m].doing \subseteq DOMAIN mig[m].change
  /\ mig[m].at \in {"prepare", "stage", "health", "probe"} => mig[m].reverts = {} /\ mig[m].doing = {}
  /\ mig[m].at \in {"rollback", "drain", "commit"} => mig[m].reverts = {}
  /\ mig[m].at = "public" => Left(m) = {}

(* The transfers of an environment are as far as the migration is with it. *)
Switching(m) == mig[m].at \in {"probe", "dns", "public"} \/ (mig[m].at = "revert" /\ mig[m].reverts # {})

Stands(m, x) ==
  /\ Where(m, x) # "dead"
  /\ IF Settled(m, x) THEN Where(m, x) \in Kept
     ELSE Where(m, x) \notin Closing /\ (Passed(m, x) => ~Active(<<m, x>>))
  /\ x \in Group(m) =>
       /\ mig[m].at = "prepare" => Where(m, x) \in {"new", "prepared"}
       /\ mig[m].at \in {"stage", "health"} => Where(m, x) \in Forward
       /\ Switching(m) => Where(m, x) = "healthy"

StandsOK(m) == Underway(m) => \A x \in mig[m].chosen : Stands(m, x)

Together(m) == GroupsOK(m) /\ ChangesOK(m) /\ StandsOK(m)

(* The locals that a migration keeps when it turns to another phase.       *)
SameLocals(m) ==
  /\ Same(m) /\ mig'[m].change = mig[m].change /\ mig'[m].doing = mig[m].doing
  /\ mig'[m].reverts = mig[m].reverts /\ mig'[m].migrated = mig[m].migrated
  /\ mig'[m].manual = mig[m].manual /\ mig'[m].manualDns = mig[m].manualDns

LEMMA TurnsAll ==
  ASSUME MTypeOK, NEW m \in Migrations, NEW v, Turn(m, v)
  PROVE  mig'[m].at = v /\ SameLocals(m) /\ Others(m)
BY DEF MTypeOK, Turn, Locals, Same, SameLocals, Others

(* What NextGroup starts afresh.                                           *)
LEMMA NextGroupRest ==
  ASSUME NEW m, NEW r \in Locals
  PROVE  LET n == NextGroup(m, r)
         IN  /\ n.migrated = r.migrated /\ n.manualDns = r.manualDns /\ n.chosen = r.chosen
             /\ n.change = <<>> /\ n.doing = {} /\ n.reverts = {} /\ n.staged = <<>>
             /\ n.committed = r.committed
BY DEF NextGroup, Locals

(* What is in a sequence put together from two.                            *)
LEMMA RangeOfConcat ==
  ASSUME NEW S, NEW p \in Seq(S), NEW q \in Seq(S)
  PROVE  Range(p \o q) \subseteq Range(p) \cup Range(q)
<1>1. /\ Len(p) \in Nat /\ Len(q) \in Nat /\ DOMAIN p = 1..Len(p) /\ DOMAIN q = 1..Len(q)
      /\ DOMAIN (p \o q) = 1..(Len(p) + Len(q))
  OBVIOUS
<1>2. ASSUME NEW i \in DOMAIN (p \o q)
      PROVE  (p \o q)[i] \in Range(p) \cup Range(q)
  <2>1. CASE i <= Len(p)
    <3>1. i \in DOMAIN p /\ (p \o q)[i] = p[i]
      BY <1>1, <2>1
    <3> QED
      BY <3>1 DEF Range
  <2>2. CASE ~(i <= Len(p))
    <3>1. i - Len(p) \in DOMAIN q /\ (p \o q)[i] = q[i - Len(p)]
      BY <1>1, <2>2
    <3> QED
      BY <3>1 DEF Range
  <2> QED
    BY <2>1, <2>2
<1> QED
  BY <1>2 DEF Range

LEMMA RangeOfAppend ==
  ASSUME NEW S, NEW p \in Seq(S), NEW e \in S
  PROVE  Range(Append(p, e)) \subseteq Range(p) \cup {e}
<1>1. /\ Len(p) \in Nat /\ DOMAIN p = 1..Len(p) /\ DOMAIN Append(p, e) = 1..(Len(p) + 1)
      /\ Append(p, e)[Len(p) + 1] = e /\ \A i \in DOMAIN p : Append(p, e)[i] = p[i]
  OBVIOUS
<1> QED
  BY <1>1 DEF Range

LEMMA RangeOfNone == Range(<<>>) = {}
BY DEF Range

(* The steps of a transfer that are not taken by its migration.            *)
LEMMA StepWhere ==
  ASSUME TypeOK, NEW t \in Sagas, Step(t)
  PROVE  /\ saga[t].at \in Forward => saga'[t].at \in Forward
         /\ saga[t].at \in Kept => saga'[t].at \in Kept
         /\ saga[t].at \notin Closing => saga'[t].at \notin Closing
         /\ saga'[t].at # "dead"
<1>1. saga \in [Sagas -> StagedTransfer] /\ saga[t] \in StagedTransfer
  BY DEF TypeOK, StagedTransfer
<1> USE <1>1 DEF StagedTransfer, Go, DbFails, Forward, Kept, Closing
<1>2. CASE Begin(t) \/ Stop(t) \/ Copy(t) \/ Switch(t) \/ Deploy(t)
  BY <1>2 DEF Begin, Stop, Copy, Switch, Deploy
<1>3. CASE Deployed(t) \/ Check(t)
  BY <1>3 DEF Deployed, Check
<1>4. CASE Remove(t) \/ Restore(t) \/ Restart(t) \/ Reset(t)
  BY <1>4 DEF Remove, Restore, Restart, Reset
<1>5. CASE MoveLogs(t) \/ CleanUp(t) \/ Finish(t)
  BY <1>5 DEF MoveLogs, CleanUp, Finish
<1> QED
  BY <1>2, <1>3, <1>4, <1>5 DEF Step

(* A migration has nothing to do with the transfers of another one.        *)
Bystander(m) == mig'[m] = mig[m] /\ \A x \in Services : saga'[<<m, x>>] = saga[<<m, x>>]

LEMMA Aside ==
  ASSUME MTypeOK, NEW m \in Migrations, Together(m), Bystander(m)
  PROVE  Together(m)'
<1>1. /\ Group(m)' = Group(m) /\ Left(m)' = Left(m) /\ (Underway(m)' <=> Underway(m))
      /\ (Switching(m)' <=> Switching(m))
  BY DEF Bystander, Group, Left, Underway, Switching
<1>2. GroupsOK(m)' /\ ChangesOK(m)'
  BY <1>1 DEF Together, GroupsOK, ChangesOK, Bystander, Settled
<1>3. ASSUME NEW x \in mig[m].chosen, Stands(m, x)
      PROVE  Stands(m, x)'
  <2>1. x \in Services /\ Where(m, x)' = Where(m, x) /\ (Active(<<m, x>>)' <=> Active(<<m, x>>))
    BY LocalsType DEF Bystander, Where, Active
  <2>2. (Settled(m, x)' <=> Settled(m, x)) /\ (Passed(m, x)' <=> Passed(m, x))
    BY DEF Bystander, Settled, Passed
  <2>3. mig'[m] = mig[m]
    BY DEF Bystander
  <2> QED
    BY <1>1, <1>3, <2>1, <2>2, <2>3 DEF Stands
<1>4. StandsOK(m)'
  BY <1>1, <1>3 DEF Together, StandsOK, Bystander
<1> QED
  BY <1>2, <1>4 DEF Together

LEMMA OthersApart ==
  ASSUME MTypeOK, NEW m \in Migrations, Select(m) \/ Advance(m), NEW n \in Migrations \ {m},
         GroupsOK(m)
  PROVE  Bystander(n)
<1>1. mig'[n] = mig[n]
  <2>1. CASE Select(m)
    BY <2>1 DEF Select, MTypeOK
  <2>2. CASE Lock(m) \/ Unlock(m)
    BY <2>2 DEF Lock, Unlock, MTypeOK, Turn
  <2>3. CASE Advance(m) /\ ~Lock(m) /\ ~Unlock(m)
    BY <2>3, StaysUnderway DEF Others
  <2> QED
    BY <2>1, <2>2, <2>3
<1>2. ASSUME NEW x \in Services
      PROVE  saga'[<<n, x>>] = saga[<<n, x>>]
  <2>1. <<n, x>> \in Sagas
    BY SagaBy
  <2>2. CASE PrepareService(m)
    BY <2>1, <2>2, PrepareSteps
  <2>3. CASE StageNext(m)
    <3>1. PICK y \in Group(m) : \A u \in Sagas \ {<<m, y>>} : saga'[u] = saga[u]
      BY <2>3, StageSteps
    <3> QED
      BY <2>1, <3>1
  <2>4. CASE AllRolledBack(m)
    <3>1. <<n, x>>[1] # m
      OBVIOUS
    <3> QED
      BY <2>1, <2>4, <3>1, RollbackSteps
  <2>5. CASE TransferStep(m)
    <3>1. PICK y \in Services : Step(<<m, y>>)
      BY <2>5 DEF TransferStep
    <3> QED
      BY <2>1, <3>1, SagaBy, TransferSteps DEF MTypeOK
  <2>6. CASE HealthNext(m)
    <3>1. PICK i \in DOMAIN mig[m].staged : Go(mig[m].staged[i], "check")
      BY <2>6 DEF HealthNext
    <3>2. mig[m].staged[i][1] = m
      BY DEF GroupsOK, Range
    <3> QED
      BY <2>1, <3>1, <3>2 DEF Go, MTypeOK, TypeOK
  <2>7. CASE CommitNext(m)
    <3>1. PICK i \in DOMAIN mig[m].committed : Go(mig[m].committed[i], "logs")
      BY <2>7 DEF CommitNext
    <3>2. mig[m].committed[i][1] = m
      BY DEF GroupsOK, Range
    <3> QED
      BY <2>1, <3>1, <3>2 DEF Go, MTypeOK, TypeOK
  <2>8. CASE RollbackNext(m)
    <3>1. PICK t \in Sagas : LastStaged(m, t) /\ (Rollback(t) \/ Go(t, "stuck"))
      BY <2>8 DEF RollbackNext
    <3>2. t[1] = m
      BY <3>1 DEF GroupsOK, Range, LastStaged
    <3>3. \E v : Go(t, v)
      BY <3>1 DEF Rollback
    <3> QED
      BY <2>1, <3>2, <3>3 DEF Go, MTypeOK, TypeOK
  <2>9. CASE Select(m) \/ Lock(m) \/ Analyze(m) \/ AllStaged(m) \/ AllHealthy(m) \/ TransferFails(m)
    <3>1. UNCHANGED saga
      BY <2>9 DEF Select, Lock, Analyze, AllStaged, AllHealthy, TransferFails, Still, vars
    <3> QED
      BY <3>1
  <2>10. CASE Probe(m) \/ Apply(m) \/ AllApplied(m) \/ PublicCheck(m)
    <3>1. UNCHANGED saga
      BY <2>10 DEF Probe, Apply, AllApplied, PublicCheck, Still, vars
    <3> QED
      BY <3>1
  <2>11. CASE RevertRecord(m) \/ AllReverted(m) \/ Drain(m) \/ Unlock(m)
    <3>1. UNCHANGED saga
      BY <2>11 DEF RevertRecord, AllReverted, Drain, Unlock, Still, vars
    <3> QED
      BY <3>1
  <2> QED
    BY <2>2, <2>3, <2>4, <2>5, <2>6, <2>7, <2>8, <2>9, <2>10, <2>11 DEF Advance
<1> QED
  BY <1>1, <1>2 DEF Bystander

(* A migration begins with its next environment, or it has none left, with *)
(* everything in order in the environments before.                         *)
LEMMA NextTogether ==
  ASSUME MTypeOK, NEW m \in Migrations, NEW r \in Locals, r.chosen = mig[m].chosen,
         mig'[m] = NextGroup(m, r),
         \A t \in Range(r.committed) : t[1] = m /\ t[2] \in r.chosen /\ EnvOf[t[2]] \in r.migrated,
         \A e \in r.migrated : e <= r.group,
         \A x \in r.chosen :
           /\ Where(m, x)' # "dead" /\ (EnvOf[x] > r.group => Where(m, x)' = "new")
           /\ IF EnvOf[x] \in r.migrated THEN Where(m, x)' \in Kept
              ELSE Where(m, x)' \notin Closing /\ ~Active(<<m, x>>)'
  PROVE  Together(m)'
<1> DEFINE n == NextGroup(m, r)
<1>1. /\ n \in Locals /\ n.chosen = r.chosen /\ n.committed = r.committed /\ n.staged = <<>>
      /\ \/ n.at = "prepare" /\ n.group > r.group
         \/ n.at = "drain" /\ n.group = r.group
  BY NextGroupOf
<1>2. n.migrated = r.migrated /\ n.change = <<>> /\ n.doing = {} /\ n.reverts = {}
  BY NextGroupRest
<1>3. n.group \in Nat /\ r.group \in Nat /\ r.migrated \subseteq Nat
  BY <1>1 DEF Locals
<1>4. mig'[m] = n
  OBVIOUS
<1> HIDE DEF n
<1>5. GroupsOK(m)'
  <2>1. \A e \in n.migrated : e <= n.group
    BY <1>1, <1>2, <1>3
  <2>2. n.group \in n.migrated => n.at = "drain"
    BY <1>1, <1>2, <1>3
  <2>3. \A t \in Range(n.committed) : t[1] = m /\ t[2] \in n.chosen /\ EnvOf[t[2]] \in n.migrated
    BY <1>1, <1>2
  <2> QED
    BY <1>1, <1>4, <2>1, <2>2, <2>3, RangeOfNone DEF GroupsOK, Settled, Unlocked
<1>6. ChangesOK(m)'
  BY <1>1, <1>2, <1>4 DEF ChangesOK
<1>7. ASSUME NEW x \in r.chosen
      PROVE  Stands(m, x)'
  <2>1. Settled(m, x)' <=> EnvOf[x] \in r.migrated
    BY <1>2, <1>4 DEF Settled
  <2>2. x \in Group(m)' /\ mig'[m].at = "prepare" => Where(m, x)' = "new"
    BY <1>1, <1>4 DEF Group
  <2>3. mig'[m].at \in {"prepare", "drain"} /\ ~Switching(m)'
    BY <1>1, <1>4 DEF Switching
  <2> QED
    BY <2>1, <2>2, <2>3 DEF Stands
<1>8. StandsOK(m)'
  BY <1>1, <1>4, <1>7 DEF StandsOK
<1> QED
  BY <1>5, <1>6, <1>8 DEF Together

-----------------------------------------------------------------------------
(* Which transfers a migration may find in its environment.                *)
LEMMA Ahead ==
  ASSUME MTypeOK, SagasOK, NEW m \in Migrations, NEW x \in mig[m].chosen
  PROVE  /\ <<m, x>> \in Sagas /\ x \in Services /\ EnvOf[x] \in Nat /\ mig[m].group \in Nat
         /\ EnvOf[x] > mig[m].group \/ mig[m].at \in Unlocked => Where(m, x) = "new"
<1>1. x \in Services /\ mig[m].group \in Nat
  BY LocalsType
<1>2. <<m, x>> \in Sagas /\ EnvOf[x] \in Nat
  BY <1>1, SagaBy, MigrationAssumption
<1>3. Held(<<m, x>>)
  BY <1>2 DEF SagasOK
<1>4. Where(m, x) # "new" => EnvOf[x] <= mig[m].group /\ mig[m].at \notin Unlocked
  BY <1>3 DEF Held, Where, Unlocked
<1> QED
  BY <1>1, <1>2, <1>4

LEMMA HandsOn ==
  ASSUME MTypeOK, SagasOK, NEW m \in Migrations, GroupsOK(m), NEW x \in Group(m), Active(<<m, x>>),
         mig[m].at \notin {"drain", "commit"}
  PROVE  \/ <<m, x>> \in Range(mig[m].staged)
         \/ Where(m, x) = "prepared" /\ mig[m].at \in Early
<1>1. x \in mig[m].chosen /\ EnvOf[x] = mig[m].group
  BY DEF Group
<1>2. <<m, x>> \in Sagas
  BY <1>1, Ahead
<1>3. Underway(m) /\ InHand(m, <<m, x>>)
  BY <1>2 DEF SagasOK, Held, Active
<1>4. <<m, x>> \notin Range(mig[m].committed)
  BY <1>1, <1>3 DEF GroupsOK, Settled
<1> QED
  BY <1>3, <1>4 DEF InHand, Where

(* What a selection sets.                                                  *)
LEMMA SelectSteps ==
  ASSUME MTypeOK, NEW m \in Migrations, Select(m)
  PROVE  /\ mig[m].at = "new" /\ mig'[m].at \in {"refused", "selected"} /\ Others(m)
         /\ mig'[m].staged = mig[m].staged /\ mig'[m].committed = mig[m].committed
         /\ mig'[m].migrated = mig[m].migrated /\ mig'[m].change = mig[m].change
         /\ mig'[m].doing = mig[m].doing /\ mig'[m].reverts = mig[m].reverts
         /\ mig'[m].manualDns = mig[m].manualDns
         /\ UNCHANGED <<vars, dns, activeServers>>
<1> DEFINE found == { x \in Asked[m] : record[x] = From[m] }
<1>1. PICK u \in BOOLEAN, p \in {"refused", "selected"} :
        mig' = [mig EXCEPT ![m].at = p, ![m].chosen = found, ![m].updateDns = u]
  BY DEF Select
<1>2. mig' = [mig EXCEPT ![m] = [mig[m] EXCEPT !.at = p, !.chosen = found, !.updateDns = u]]
  BY <1>1 DEF MTypeOK
<1>3. mig'[m] = [mig[m] EXCEPT !.at = p, !.chosen = found, !.updateDns = u] /\ Others(m)
  BY <1>2 DEF MTypeOK, Others
<1> HIDE DEF found
<1>4. UNCHANGED <<vars, dns, activeServers>> /\ mig[m].at = "new"
  BY DEF Select, At, Still
<1> QED
  BY <1>3, <1>4 DEF MTypeOK, Locals

(* The migration selects, and locks.                                       *)
LEMMA BeginTogether ==
  ASSUME MTypeOK, SagasOK, NEW m \in Migrations, Together(m), Select(m) \/ Lock(m)
  PROVE  Together(m)'
<1>1. CASE Select(m)
  <2>2. /\ mig'[m].at \in {"refused", "selected"} /\ mig'[m].staged = mig[m].staged
        /\ mig'[m].committed = mig[m].committed /\ mig'[m].migrated = mig[m].migrated
        /\ mig'[m].change = mig[m].change /\ mig'[m].doing = mig[m].doing
        /\ mig'[m].reverts = mig[m].reverts
    BY <1>1, SelectSteps
  <2>3. /\ mig[m].staged = <<>> /\ mig[m].committed = <<>> /\ mig[m].migrated = {}
        /\ mig[m].change = <<>>
    BY <1>1 DEF Select, At, Together, GroupsOK, Unlocked
  <2>4. GroupsOK(m)'
    BY <2>2, <2>3, RangeOfNone DEF GroupsOK, Underway, Over
  <2>5. ChangesOK(m)'
    BY <2>2, <2>3 DEF Together, ChangesOK
  <2>6. ~Underway(m)'
    BY <2>2 DEF Underway, Over
  <2> QED
    BY <2>4, <2>5, <2>6 DEF Together, StandsOK
<1>2. CASE Lock(m)
  <2>0. mig[m].at = "selected" /\ saga' = saga
    BY <1>2 DEF Lock, At, vars
  <2>1. CASE mig' = [mig EXCEPT ![m] = NextGroup(m, @)]
    <3>1. /\ mig[m].committed = <<>> /\ mig[m].migrated = {}
      BY <2>0 DEF Together, GroupsOK, Unlocked
    <3>2. \A x \in mig[m].chosen : Where(m, x)' = "new" /\ ~Active(<<m, x>>)'
      BY <2>0, Ahead DEF Unlocked, Where, Active
    <3>3. mig'[m] = NextGroup(m, mig[m]) /\ mig[m] \in Locals
      BY <2>1 DEF MTypeOK
    <3> QED
      BY <3>1, <3>2, <3>3, NextTogether, RangeOfNone DEF Closing
  <2>2. CASE Turn(m, "refused")
    <3>1. mig'[m].at = "refused" /\ SameLocals(m)
      BY <2>2, TurnsAll
    <3>2. GroupsOK(m)' /\ ChangesOK(m)' /\ ~Underway(m)'
      <4>1. ~Underway(m)' /\ Group(m)' = Group(m)
        BY <3>1 DEF Underway, Over, Group, SameLocals, Same
      <4>2. mig[m].at \in Unlocked
        BY <2>0 DEF Unlocked
      <4> QED
        BY <3>1, <4>1, <4>2, RangeOfNone DEF Together, GroupsOK, ChangesOK, SameLocals, Same, Settled
    <3> QED
      BY <3>2 DEF Together, StandsOK
  <2> QED
    BY <1>2, <2>1, <2>2 DEF Lock
<1> QED
  BY <1>1, <1>2

-----------------------------------------------------------------------------
(* A migration turns to another phase, and its transfers stay.             *)
Waits(m) == \A x \in Services : saga'[<<m, x>>] = saga[<<m, x>>]

LEMMA WaitsWhere ==
  ASSUME MTypeOK, NEW m \in Migrations, Waits(m), NEW x \in mig[m].chosen
  PROVE  Where(m, x)' = Where(m, x) /\ (Active(<<m, x>>)' <=> Active(<<m, x>>))
BY LocalsType DEF Waits, Where, Active

LEMMA TurnTogether ==
  ASSUME MTypeOK, NEW m \in Migrations, Together(m), Underway(m), SameLocals(m), Waits(m),
         mig'[m].at \notin {"prepare"} \cup Unlocked,
         mig'[m].at \in {"stage", "health"} => mig[m].at = "stage",
         mig'[m].at = "probe" => mig[m].at = "health",
         mig'[m].at \in {"drain", "commit"} => mig[m].at \in {"drain", "commit"},
         mig[m].at \in {"drain", "commit"} => mig'[m].at \in {"drain", "commit"} \cup Over,
         mig'[m].at \in {"rollback", "drain", "commit"} => mig[m].reverts = {},
         mig'[m].at = "public" => Left(m) = {},
         Switching(m)' => Switching(m) \/ \A x \in Group(m) : Where(m, x) = "healthy"
  PROVE  Together(m)'
<1>1. Group(m)' = Group(m) /\ Left(m)' = Left(m)
  BY DEF SameLocals, Same, Group, Left
<1>2. \A x : Settled(m, x)' <=> Settled(m, x)
  BY DEF SameLocals, Settled
<1>3. GroupsOK(m)'
  <2>1. \A t \in Range(mig'[m].staged) : t[1] = m /\ t[2] \in Group(m)'
    BY <1>1 DEF Together, GroupsOK, SameLocals, Same
  <2>2. \A t \in Range(mig'[m].committed) : t[1] = m /\ t[2] \in mig'[m].chosen /\ Settled(m, t[2])'
    BY <1>2 DEF Together, GroupsOK, SameLocals, Same
  <2>3. \A e \in mig'[m].migrated : e <= mig'[m].group
    BY DEF Together, GroupsOK, SameLocals, Same
  <2>4. Underway(m)' /\ mig'[m].group \in mig'[m].migrated => mig'[m].at \in {"drain", "commit"}
    BY DEF Together, GroupsOK, SameLocals, Same, Underway
  <2> QED
    BY <2>1, <2>2, <2>3, <2>4 DEF GroupsOK, Unlocked
<1>4. ChangesOK(m)'
  BY <1>1 DEF Together, ChangesOK, SameLocals
<1>5. ASSUME Underway(m)', NEW x \in mig[m].chosen
      PROVE  Stands(m, x)'
  <2>1. Stands(m, x)
    BY DEF Together, StandsOK
  <2>2. Where(m, x)' = Where(m, x) /\ (Active(<<m, x>>)' <=> Active(<<m, x>>))
    BY WaitsWhere
  <2>3. (Settled(m, x)' <=> Settled(m, x)) /\ (Passed(m, x)' => Passed(m, x))
    BY <1>2 DEF Passed, SameLocals, Same
  <2>4. x \in Group(m)' /\ mig'[m].at \in {"stage", "health"} => Where(m, x) \in Forward
    BY <1>1, <2>1 DEF Stands
  <2>5. x \in Group(m)' /\ Switching(m)' => Where(m, x) = "healthy"
    BY <1>1, <2>1 DEF Stands
  <2> QED
    BY <2>1, <2>2, <2>3, <2>4, <2>5 DEF Stands
<1>6. StandsOK(m)'
  BY <1>5 DEF StandsOK, SameLocals, Same
<1> QED
  BY <1>3, <1>4, <1>6 DEF Together

(* It turns to the next phase, or to the revert.                           *)
LEMMA PhaseTogether ==
  ASSUME MTypeOK, SagasOK, NEW m \in Migrations, Together(m),
         \/ AllStaged(m) \/ AllHealthy(m) \/ TransferFails(m) \/ Probe(m) \/ AllApplied(m)
         \/ AllReverted(m) \/ Drain(m) \/ Unlock(m)
         \/ (PublicCheck(m) /\ Turn(m, "revert"))
  PROVE  Together(m)'
<1>1. Waits(m)
  BY DEF AllStaged, AllHealthy, TransferFails, Probe, AllApplied, AllReverted, Drain, Unlock,
         PublicCheck, Still, vars, Waits
<1>2. \E v : Turn(m, v)
  BY DEF AllStaged, AllHealthy, TransferFails, Probe, AllApplied, AllReverted, Drain, Unlock
<1>3. SameLocals(m)
  BY <1>2, TurnsAll
<1>4. Underway(m)
  BY DEF AllStaged, AllHealthy, TransferFails, Probe, AllApplied, AllReverted, Drain, Unlock,
         PublicCheck, At, Underway, Over
<1> USE <1>1, <1>3, <1>4
<1>5. CASE AllStaged(m)
  <2>1. mig[m].at = "stage" /\ mig'[m].at = "health"
    BY <1>5, TurnsAll DEF AllStaged, At
  <2> QED
    BY <2>1, TurnTogether DEF Unlocked, Switching
<1>6. CASE AllHealthy(m)
  <2>1. mig[m].at = "health" /\ mig'[m].at = "probe"
    BY <1>6, TurnsAll DEF AllHealthy, At
  <2>2. ASSUME NEW x \in Group(m)
        PROVE  Where(m, x) = "healthy"
    <3>1. x \in mig[m].chosen
      BY DEF Group
    <3>2. Where(m, x) \in Forward
      BY <2>1, <3>1 DEF Together, StandsOK, Stands
    <3>3. Active(<<m, x>>)
      BY <3>2 DEF Forward, Where, Active, Ended
    <3>4. <<m, x>> \in Range(mig[m].staged)
      BY <2>1, <3>3, HandsOn DEF Together, Early
    <3> QED
      BY <1>6, <3>4 DEF AllHealthy, Where
  <2> QED
    BY <2>1, <2>2, TurnTogether DEF Unlocked
<1>7. CASE TransferFails(m)
  <2>1. mig[m].at \in {"stage", "health"} /\ mig'[m].at = "revert"
    BY <1>7, TurnsAll DEF TransferFails
  <2>2. ~Switching(m)'
    BY <2>1 DEF Together, ChangesOK, Switching, SameLocals
  <2> QED
    BY <2>1, <2>2, TurnTogether DEF Unlocked
<1>8. CASE Probe(m)
  <2>1. mig[m].at = "probe" /\ mig'[m].at \in {"dns", "revert"}
    BY <1>8, TurnsAll DEF Probe, At
  <2> QED
    BY <2>1, TurnTogether DEF Unlocked, Switching
<1>9. CASE AllApplied(m)
  <2>1. mig[m].at = "dns" /\ mig'[m].at = "public" /\ Left(m) = {}
    BY <1>9, TurnsAll DEF AllApplied, At
  <2> QED
    BY <2>1, TurnTogether DEF Unlocked, Switching
<1>10. CASE AllReverted(m)
  <2>1. mig[m].at = "revert" /\ mig'[m].at = "rollback" /\ mig[m].reverts = {}
    BY <1>10, TurnsAll DEF AllReverted, At
  <2> QED
    BY <2>1, TurnTogether DEF Unlocked, Switching
<1>11. CASE Drain(m)
  <2>1. mig[m].at = "drain" /\ mig'[m].at = "commit"
    BY <1>11, TurnsAll DEF Drain, At
  <2>2. mig[m].reverts = {}
    BY <2>1 DEF Together, ChangesOK
  <2> QED
    BY <2>1, <2>2, TurnTogether DEF Unlocked, Switching
<1>12. CASE Unlock(m)
  <2>1. mig[m].at = "commit" /\ mig'[m].at = "done"
    BY <1>12, TurnsAll DEF Unlock, At
  <2> QED
    BY <2>1, TurnTogether DEF Unlocked, Switching, Over
<1>13. CASE PublicCheck(m) /\ Turn(m, "revert")
  <2>1. mig[m].at = "public" /\ mig'[m].at = "revert"
    BY <1>13, TurnsAll DEF PublicCheck, At
  <2> QED
    BY <2>1, TurnTogether DEF Unlocked, Switching
<1> QED
  BY <1>5, <1>6, <1>7, <1>8, <1>9, <1>10, <1>11, <1>12, <1>13

(* Records are found, changed and changed back.                            *)
LEMMA ChangeTogether ==
  ASSUME MTypeOK, NEW m \in Migrations, Together(m), Analyze(m) \/ Apply(m) \/ RevertRecord(m)
  PROVE  Together(m)'
<1>1. Waits(m)
  BY DEF Analyze, Apply, RevertRecord, Still, vars, Waits
<1>2. Underway(m)
  BY DEF Analyze, Apply, RevertRecord, At, Underway, Over
<1>3. /\ Same(m) /\ mig'[m].migrated = mig[m].migrated
      /\ \/ mig[m].at = "prepare" /\ mig'[m].at = "stage" /\ Waiting(m, "new") = {}
         \/ mig[m].at = "dns" /\ mig'[m].at \in {"dns", "revert"}
         \/ mig[m].at = "revert" /\ mig'[m].at = "revert" /\ mig[m].reverts # {}
  <2>1. CASE Analyze(m)
    <3>1. PICK c, h : mig' = [mig EXCEPT ![m] = [mig[m] EXCEPT !.at = "stage", !.change = c, !.manual = h]]
      BY <2>1, Analyzed
    <3>2. /\ mig'[m].at = "stage" /\ mig'[m].chosen = mig[m].chosen /\ mig'[m].group = mig[m].group
          /\ mig'[m].staged = mig[m].staged /\ mig'[m].committed = mig[m].committed
          /\ mig'[m].migrated = mig[m].migrated
      BY <3>1 DEF MTypeOK, Locals
    <3> QED
      BY <2>1, <3>2 DEF Analyze, At, Same
  <2>2. CASE Apply(m)
    BY <2>2 DEF Apply, At, MTypeOK, Locals, Same
  <2>3. CASE RevertRecord(m)
    BY <2>3 DEF RevertRecord, At, MTypeOK, Locals, Same
  <2> QED
    BY <2>1, <2>2, <2>3
<1>4. Group(m)' = Group(m)
  BY <1>3 DEF Same, Group
<1>5. \A x : Settled(m, x)' <=> Settled(m, x)
  BY <1>3 DEF Settled
<1>6. GroupsOK(m)'
  BY <1>2, <1>3, <1>4, <1>5 DEF Together, GroupsOK, Same, Unlocked, Underway
<1>7. ASSUME NEW x \in mig[m].chosen
      PROVE  Stands(m, x)'
  <2>1. Stands(m, x)
    BY <1>2 DEF Together, StandsOK
  <2>2. Where(m, x)' = Where(m, x) /\ (Active(<<m, x>>)' <=> Active(<<m, x>>))
    BY <1>1, WaitsWhere
  <2>3. (Settled(m, x)' <=> Settled(m, x)) /\ (Passed(m, x)' => Passed(m, x))
    BY <1>3, <1>5 DEF Passed, Same
  <2>4. mig'[m].at # "prepare" /\ mig'[m].at # "health"
    BY <1>3
  <2>5. x \in Group(m)' /\ mig'[m].at = "stage" => Where(m, x) \in Forward
    <3>1. x \in Group(m)' /\ mig'[m].at = "stage" => Where(m, x) \in {"new", "prepared"}
      BY <1>3, <1>4, <2>1 DEF Stands
    <3>2. x \in Group(m)' /\ mig'[m].at = "stage" => Where(m, x) # "new"
      BY <1>3, <1>4 DEF Waiting, Where
    <3> QED
      BY <3>1, <3>2 DEF Forward
  <2>6. x \in Group(m)' /\ Switching(m)' => Where(m, x) = "healthy"
    <3>1. Switching(m)' => Switching(m)
      BY <1>3 DEF Switching
    <3> QED
      BY <1>4, <2>1, <3>1 DEF Stands
  <2> QED
    BY <2>1, <2>2, <2>3, <2>4, <2>5, <2>6 DEF Stands
<1>8. StandsOK(m)'
  BY <1>3, <1>7 DEF StandsOK, Same
<1>9. ChangesOK(m)'
  <2>1. CASE Analyze(m)
    <3>1. PICK c \in Changes, h \in SUBSET Domains :
            /\ mig' = [mig EXCEPT ![m] = [mig[m] EXCEPT !.at = "stage", !.change = c, !.manual = h]]
            /\ DOMAIN c \subseteq OnSource(m)
      BY <2>1, Analyzed
    <3>5. /\ mig'[m].at = "stage" /\ mig'[m].reverts = mig[m].reverts /\ mig'[m].doing = mig[m].doing
          /\ mig'[m].change = c
      BY <3>1 DEF MTypeOK, Locals
    <3>2. mig[m].reverts = {} /\ mig[m].doing = {}
      BY <2>1 DEF Analyze, At, Together, ChangesOK
    <3>3. DOMAIN mig'[m].change \subseteq OnSource(m)
      BY <3>1, <3>5
    <3>4. \A r \in DOMAIN mig'[m].change : Owner(r) \in Group(m)'
      BY <1>4, <3>3 DEF OnSource, Owner, DomainsOf
    <3> QED
      BY <3>2, <3>4, <3>5 DEF ChangesOK
  <2>2. CASE Apply(m)
    <3>1. PICK r \in Left(m) :
            \/ mig' = [mig EXCEPT ![m].doing = {}, ![m].reverts = @ \cup (mig[m].doing \cup {r})]
            \/ mig' = [mig EXCEPT ![m].doing = mig[m].doing \cup {r}]
            \/ mig' = [mig EXCEPT ![m].at = "revert", ![m].doing = {}]
      BY <2>2 DEF Apply
    <3>0. mig[m].at = "dns"
      BY <2>2 DEF Apply, At
    <3>2. /\ mig'[m].change = mig[m].change /\ mig'[m].at \in {"dns", "revert"}
          /\ mig'[m].reverts \cup mig'[m].doing \subseteq mig[m].reverts \cup mig[m].doing \cup {r}
      <4> mig \in [Migrations -> Locals] /\ mig[m] \in Locals
        BY DEF MTypeOK
      <4>1. CASE mig' = [mig EXCEPT ![m].doing = {}, ![m].reverts = @ \cup (mig[m].doing \cup {r})]
        <5>1. mig'[m] = [mig[m] EXCEPT !.doing = {}, !.reverts = mig[m].reverts \cup (mig[m].doing \cup {r})]
          BY <4>1 DEF Locals
        <5> QED
          BY <3>0, <5>1 DEF Locals
      <4>2. CASE mig' = [mig EXCEPT ![m].doing = mig[m].doing \cup {r}]
        BY <3>0, <4>2 DEF Locals
      <4>3. CASE mig' = [mig EXCEPT ![m].at = "revert", ![m].doing = {}]
        BY <4>3 DEF Locals
      <4> QED
        BY <3>1, <4>1, <4>2, <4>3
    <3>3. r \in DOMAIN mig[m].change
      BY DEF Left
    <3> QED
      BY <1>4, <3>2, <3>3 DEF Together, ChangesOK
  <2>3. CASE RevertRecord(m)
    <3>1. /\ mig'[m].change = mig[m].change /\ mig'[m].at = "revert"
          /\ mig'[m].reverts \subseteq mig[m].reverts /\ mig'[m].doing = mig[m].doing
      BY <2>3 DEF RevertRecord, At, MTypeOK, Locals
    <3> QED
      BY <1>4, <3>1 DEF Together, ChangesOK
  <2> QED
    BY <2>1, <2>2, <2>3
<1> QED
  BY <1>6, <1>8, <1>9 DEF Together

(* A migration takes a step of one of its transfers.                       *)
Moving(m, y) ==
  /\ y \in mig[m].chosen /\ Underway(m)
  /\ \/ mig'[m].at = mig[m].at
     \/ mig[m].at = "prepare" /\ mig'[m].at = "revert"
  /\ mig'[m].chosen = mig[m].chosen /\ mig'[m].group = mig[m].group
  /\ mig'[m].committed = mig[m].committed /\ mig'[m].change = mig[m].change
  /\ mig'[m].doing = mig[m].doing /\ mig'[m].reverts = mig[m].reverts
  /\ mig'[m].migrated = mig[m].migrated
  /\ Range(mig'[m].staged) \subseteq Range(mig[m].staged) \cup ({<<m, y>>} \cap {<<m, x>> : x \in Group(m)})
  /\ \A x \in Services \ {y} : saga'[<<m, x>>] = saga[<<m, x>>]

LEMMA MoveTogether ==
  ASSUME MTypeOK, NEW m \in Migrations, Together(m), NEW y, Moving(m, y), Stands(m, y)'
  PROVE  Together(m)'
<1>1. Group(m)' = Group(m) /\ Left(m)' = Left(m)
  BY DEF Moving, Group, Left
<1>2. \A x : (Settled(m, x)' <=> Settled(m, x)) /\ (Passed(m, x)' <=> Passed(m, x))
  BY DEF Moving, Settled, Passed
<1>3. Underway(m) /\ Underway(m)'
  BY DEF Moving, Underway, Over
<1>4. GroupsOK(m)'
  <2>1. \A t \in Range(mig'[m].staged) : t[1] = m /\ t[2] \in Group(m)'
    BY <1>1 DEF Together, GroupsOK, Moving
  <2>2. \A t \in Range(mig'[m].committed) : t[1] = m /\ t[2] \in mig'[m].chosen /\ Settled(m, t[2])'
    BY <1>2 DEF Together, GroupsOK, Moving
  <2>3. \A e \in mig'[m].migrated : e <= mig'[m].group
    BY DEF Together, GroupsOK, Moving
  <2>4. mig'[m].group \in mig'[m].migrated => mig'[m].at \in {"drain", "commit"}
    BY <1>3 DEF Together, GroupsOK, Moving
  <2>5. mig'[m].at \notin Unlocked
    BY <1>3 DEF Underway, Over, Unlocked
  <2> QED
    BY <2>1, <2>2, <2>3, <2>4, <2>5 DEF GroupsOK
<1>5. ChangesOK(m)'
  BY <1>1 DEF Together, ChangesOK, Moving
<1>6. ASSUME NEW x \in mig[m].chosen \ {y}
      PROVE  Stands(m, x)'
  <2>1. Stands(m, x)
    BY <1>3 DEF Together, StandsOK
  <2>2. Where(m, x)' = Where(m, x) /\ (Active(<<m, x>>)' <=> Active(<<m, x>>))
    BY LocalsType DEF Moving, Where, Active
  <2>3. Switching(m)' => Switching(m)
    BY DEF Moving, Switching, Together, ChangesOK
  <2> QED
    BY <1>1, <1>2, <2>1, <2>2, <2>3 DEF Stands, Moving
<1>7. StandsOK(m)'
  BY <1>6 DEF StandsOK, Moving
<1> QED
  BY <1>4, <1>5, <1>7 DEF Together

LEMMA SagaTogether ==
  ASSUME MTypeOK, SagasOK, NEW m \in Migrations, Together(m),
         \/ PrepareService(m) \/ StageNext(m) \/ HealthNext(m) \/ TransferStep(m)
         \/ RollbackNext(m) \/ CommitNext(m)
  PROVE  Together(m)'
<1>0. /\ Underway(m) /\ TypeOK /\ mig[m] \in Locals /\ saga \in [Sagas -> StagedTransfer]
      /\ ~Switching(m)
  BY DEF PrepareService, StageNext, HealthNext, TransferStep, RollbackNext, CommitNext, At, Underway,
         Over, Switching, MTypeOK, TypeOK, StagedTransfer
<1>01. \A x \in mig[m].chosen : x \in Services /\ <<m, x>> \in Sagas /\ Stands(m, x)
  BY <1>0, Ahead DEF Together, StandsOK
<1>02. \A x \in Group(m) : /\ x \in mig[m].chosen /\ EnvOf[x] = mig[m].group
                           /\ mig[m].at \notin {"drain", "commit"} => ~Settled(m, x) /\ ~Passed(m, x)
  <2> TAKE x \in Group(m)
  <2>1. x \in mig[m].chosen /\ EnvOf[x] = mig[m].group
    BY DEF Group
  <2>2. ~(EnvOf[x] < mig[m].group)
    BY <2>1, LocalsType
  <2>3. mig[m].at \notin {"drain", "commit"} => mig[m].group \notin mig[m].migrated
    BY <1>0 DEF Together, GroupsOK
  <2> QED
    BY <2>1, <2>2, <2>3 DEF Settled, Passed
<1>1. CASE PrepareService(m)
  <2>1. mig[m].at = "prepare"
    BY <1>1 DEF PrepareService, At
  <2>2. PICK y \in Group(m) :
          LET t == <<m, y>>
          IN  /\ t \in Sagas /\ saga[t].at = "new" /\ saga'[t].at \in {"rejected", "prepared"}
              /\ \A u \in Sagas \ {t} : saga'[u] = saga[u]
    BY <1>0, <1>1, PrepareSteps
  <2>3. \/ Turn(m, "revert")
        \/ mig' = mig /\ \A x \in Group(m) : saga'[<<m, x>>].at # "rejected"
    BY <1>1 DEF PrepareService
  <2>4. Moving(m, y)
    <3>1. \/ mig'[m] = mig[m]
          \/ SameLocals(m) /\ mig'[m].at = "revert"
      BY <2>3, TurnsAll
    <3>2. \A x \in Services \ {y} : saga'[<<m, x>>] = saga[<<m, x>>]
      BY <2>2, SagaBy
    <3> QED
      BY <1>0, <1>02, <2>1, <3>1, <3>2 DEF Moving, SameLocals, Same
  <2>5. Stands(m, y)'
    <3>1. Where(m, y)' \in {"rejected", "prepared"}
      BY <2>2 DEF Where
    <3>2. ~Settled(m, y)' /\ ~Passed(m, y)' /\ Group(m)' = Group(m) /\ ~Switching(m)'
      BY <1>02, <2>1, <2>4 DEF Moving, Settled, Passed, Group, Switching, Together, ChangesOK
    <3>3. mig'[m].at = "prepare" => Where(m, y)' = "prepared"
      BY <2>1, <2>3, <3>1, TurnsAll DEF Where
    <3>4. mig'[m].at \notin {"stage", "health"}
      BY <2>1, <2>4 DEF Moving
    <3> QED
      BY <3>1, <3>2, <3>3, <3>4 DEF Stands, Closing
  <2> QED
    BY <2>4, <2>5, MoveTogether
<1>2. CASE StageNext(m)
  <2>1. mig[m].at = "stage"
    BY <1>2 DEF StageNext, At
  <2>2. PICK y \in Group(m) :
           LET t == <<m, y>>
           IN  /\ t \in Sagas /\ saga[t].at = "prepared" /\ saga'[t].at = "begin"
               /\ \A u \in Sagas \ {t} : saga'[u] = saga[u]
               /\ mig'[m].staged = Append(mig[m].staged, t)
    BY <1>0, <1>2, StageSteps
  <2>3. mig'[m] = [mig[m] EXCEPT !.staged = Append(mig[m].staged, <<m, y>>)]
    <3>1. PICK x : mig' = [mig EXCEPT ![m].staged = Append(@, <<m, x>>)]
      BY <1>2 DEF StageNext
    <3>2. mig'[m] = [mig[m] EXCEPT !.staged = Append(mig[m].staged, <<m, x>>)]
      BY <3>1 DEF MTypeOK, Locals
    <3> QED
      BY <1>0, <2>2, <3>2 DEF Locals
  <2>4. Range(mig'[m].staged) \subseteq Range(mig[m].staged) \cup {<<m, y>>}
    BY <2>2, RangeOfAppend, LocalsType
  <2>5. Moving(m, y)
    <3>1. \A x \in Services \ {y} : saga'[<<m, x>>] = saga[<<m, x>>]
      BY <2>2, SagaBy
    <3>2. <<m, y>> \in {<<m, x>> : x \in Group(m)}
      OBVIOUS
    <3> QED
      BY <1>0, <1>02, <2>3, <2>4, <3>1, <3>2 DEF Moving, Locals
  <2>6. Stands(m, y)'
    <3>1. Where(m, y)' = "begin" /\ mig'[m].at = "stage"
      BY <2>1, <2>2, <2>5 DEF Where, Moving
    <3>2. ~Settled(m, y)' /\ ~Passed(m, y)'
      BY <1>02, <2>1, <2>5 DEF Moving, Settled, Passed
    <3> QED
      BY <3>1, <3>2 DEF Stands, Closing, Forward, Switching
  <2> QED
    BY <2>5, <2>6, MoveTogether
<1>3. ASSUME NEW y \in mig[m].chosen, mig' = mig, Stands(m, y)',
             \A u \in Sagas \ {<<m, y>>} : saga'[u] = saga[u]
      PROVE  Together(m)'
  <2>1. \A x \in Services \ {y} : saga'[<<m, x>>] = saga[<<m, x>>]
    BY <1>3, SagaBy
  <2>2. Moving(m, y)
    BY <1>0, <1>3, <2>1 DEF Moving
  <2> QED
    BY <1>3, <2>2, MoveTogether
<1>4. ASSUME NEW y \in mig[m].chosen, NEW v, Go(<<m, y>>, v)
      PROVE  Where(m, y)' = v /\ \A u \in Sagas \ {<<m, y>>} : saga'[u] = saga[u]
  BY <1>0, <1>01, <1>4 DEF Go, Where, StagedTransfer
<1>5. CASE HealthNext(m)
  <2>1. mig[m].at = "health" /\ mig' = mig
    BY <1>5 DEF HealthNext, At
  <2>2. PICK t \in Range(mig[m].staged) : Go(t, "check")
    BY <1>5 DEF HealthNext, Range
  <2>3. t[1] = m /\ t[2] \in Group(m) /\ t \in Sagas
    <3>1. t \in Sagas
      BY LocalsType DEF Range
    <3> QED
      BY <3>1 DEF Together, GroupsOK
  <2> DEFINE y == t[2]
  <2>4. t = <<m, y>> /\ y \in mig[m].chosen
    BY <1>02, <2>3, SagaOf
  <2>5. Where(m, y)' = "check" /\ \A u \in Sagas \ {<<m, y>>} : saga'[u] = saga[u]
    BY <1>4, <2>2, <2>4
  <2>6. ~Settled(m, y)' /\ ~Passed(m, y)'
    BY <1>02, <2>1, <2>3 DEF Settled, Passed
  <2>7. Stands(m, y)'
    BY <2>1, <2>5, <2>6 DEF Stands, Closing, Forward, Switching
  <2> QED
    BY <1>3, <2>1, <2>4, <2>5, <2>7
<1>6. CASE RollbackNext(m)
  <2>1. mig[m].at = "rollback" /\ mig' = mig
    BY <1>6 DEF RollbackNext, At
  <2>2. PICK t \in Range(mig[m].staged), v \in {"remove", "restart", "reset", "stuck"} : Go(t, v)
    BY <1>6 DEF RollbackNext, LastStaged, Range, Rollback
  <2>3. t[1] = m /\ t[2] \in Group(m) /\ t \in Sagas
    <3>1. t \in Sagas
      BY LocalsType DEF Range
    <3> QED
      BY <3>1 DEF Together, GroupsOK
  <2> DEFINE y == t[2]
  <2>4. t = <<m, y>> /\ y \in mig[m].chosen
    BY <1>02, <2>3, SagaOf
  <2>5. Where(m, y)' = v /\ \A u \in Sagas \ {<<m, y>>} : saga'[u] = saga[u]
    BY <1>4, <2>2, <2>4
  <2>6. ~Settled(m, y)' /\ ~Passed(m, y)'
    BY <1>02, <2>1, <2>3 DEF Settled, Passed
  <2>7. Stands(m, y)'
    BY <2>1, <2>5, <2>6 DEF Stands, Closing, Switching
  <2> QED
    BY <1>3, <2>1, <2>4, <2>5, <2>7
<1>7. CASE CommitNext(m)
  <2>1. mig[m].at = "commit" /\ mig' = mig
    BY <1>7 DEF CommitNext, At
  <2>2. PICK t \in Range(mig[m].committed) : Go(t, "logs")
    BY <1>7 DEF CommitNext, Range
  <2>3. t[1] = m /\ t[2] \in mig[m].chosen /\ Settled(m, t[2]) /\ t \in Sagas
    <3>1. t \in Sagas
      BY LocalsType DEF Range
    <3> QED
      BY <3>1 DEF Together, GroupsOK
  <2> DEFINE y == t[2]
  <2>4. t = <<m, y>>
    BY <2>3, SagaOf
  <2>5. Where(m, y)' = "logs" /\ \A u \in Sagas \ {<<m, y>>} : saga'[u] = saga[u]
    BY <1>4, <2>2, <2>3, <2>4
  <2>6. Settled(m, y)'
    BY <2>1, <2>3 DEF Settled
  <2>7. Stands(m, y)'
    BY <2>1, <2>5, <2>6 DEF Stands, Closing, Kept, Switching
  <2> QED
    BY <1>3, <2>1, <2>3, <2>5, <2>7
<1>8. CASE TransferStep(m)
  <2>1. mig[m].at \in {"stage", "health", "rollback", "commit"} /\ mig' = mig
    BY <1>8 DEF TransferStep
  <2>2. PICK y \in Services : Step(<<m, y>>)
    BY <1>8 DEF TransferStep
  <2>3. <<m, y>> \in Sagas
    BY SagaBy
  <2>4. Active(<<m, y>>) /\ \A u \in Sagas \ {<<m, y>>} : saga'[u] = saga[u]
    BY <1>0, <2>2, <2>3, TransferSteps
  <2>5. y \in mig[m].chosen
    BY <2>3, <2>4 DEF SagasOK, Held, Active
  <2>6. Stands(m, y)
    BY <1>01, <2>5
  <2>7. /\ Where(m, y) \in Forward => Where(m, y)' \in Forward
        /\ Where(m, y) \in Kept => Where(m, y)' \in Kept
        /\ Where(m, y) \notin Closing => Where(m, y)' \notin Closing
        /\ Where(m, y)' # "dead"
    BY <1>0, <2>2, <2>3, StepWhere DEF Where
  <2>8. /\ Settled(m, y)' <=> Settled(m, y)
        /\ Passed(m, y)' <=> Passed(m, y)
        /\ Group(m)' = Group(m) /\ ~Switching(m)'
    BY <1>0, <2>1 DEF Settled, Passed, Group, Switching
  <2>9. Stands(m, y)'
    BY <2>1, <2>4, <2>6, <2>7, <2>8 DEF Stands
  <2> QED
    BY <1>3, <2>1, <2>4, <2>5, <2>9
<1> QED
  BY <1>1, <1>2, <1>5, <1>6, <1>7, <1>8

(* The environment is through, or it is rolled back.                       *)
LEMMA EndTogether ==
  ASSUME MTypeOK, SagasOK, NEW m \in Migrations, Together(m),
         AllRolledBack(m) \/ (PublicCheck(m) /\ mig' = [mig EXCEPT ![m] = NextGroup(m, Through(m))])
  PROVE  Together(m)'
<1>0. /\ mig[m].at \in {"rollback", "public"} /\ Underway(m) /\ mig[m] \in Locals
      /\ mig[m].group \notin mig[m].migrated /\ mig[m].group \in Nat
  <2>1. mig[m].at \in {"rollback", "public"}
    BY DEF AllRolledBack, PublicCheck, At
  <2>2. Underway(m)
    BY <2>1 DEF Underway, Over
  <2> QED
    BY <2>1, <2>2, LocalsType DEF Together, GroupsOK
<1>1. \A x \in mig[m].chosen :
        /\ x \in Services /\ <<m, x>> \in Sagas /\ Stands(m, x) /\ EnvOf[x] \in Nat
        /\ EnvOf[x] > mig[m].group => Where(m, x) = "new"
  BY <1>0, Ahead DEF Together, StandsOK
<1>2. \A x \in mig[m].chosen : EnvOf[x] = mig[m].group => x \in Group(m)
  BY DEF Group
<1>3. \A x \in mig[m].chosen : EnvOf[x] < mig[m].group => Passed(m, x)
  BY DEF Passed
<1>4. \A x \in mig[m].chosen :
        EnvOf[x] > mig[m].group \/ EnvOf[x] < mig[m].group \/ EnvOf[x] = mig[m].group
  <2> TAKE x \in mig[m].chosen
  <2>1. EnvOf[x] \in Nat /\ mig[m].group \in Nat
    BY <1>0, <1>1
  <2> QED
    BY <2>1
<1>5. CASE PublicCheck(m) /\ mig' = [mig EXCEPT ![m] = NextGroup(m, Through(m))]
  <2> DEFINE r == Through(m)
  <2>1. mig[m].at = "public" /\ saga' = saga
    BY <1>5 DEF PublicCheck, At
  <2>2. /\ r \in Locals /\ r.chosen = mig[m].chosen /\ r.group = mig[m].group
        /\ r.migrated = mig[m].migrated \cup {mig[m].group}
        /\ r.committed = mig[m].committed \o mig[m].staged
    <3>1. /\ mig[m].committed \o mig[m].staged \in Seq(Sagas) /\ DOMAIN mig[m].change \subseteq Records
          /\ mig[m].manualDns \cup mig[m].manual \in SUBSET Domains
      BY LocalsType
    <3> QED
      BY <1>0, <3>1 DEF Through, Locals
  <2>3. mig'[m] = NextGroup(m, r)
    BY <1>5 DEF MTypeOK
  <2> HIDE DEF r
  <2>4. \A t \in Range(r.committed) : t[1] = m /\ t[2] \in r.chosen /\ EnvOf[t[2]] \in r.migrated
    <3>1. Range(r.committed) \subseteq Range(mig[m].committed) \cup Range(mig[m].staged)
      BY <2>2, LocalsType, RangeOfConcat
    <3>2. \A t \in Range(mig[m].staged) : t[1] = m /\ t[2] \in r.chosen /\ EnvOf[t[2]] \in r.migrated
      BY <2>2 DEF Together, GroupsOK, Group
    <3>3. \A t \in Range(mig[m].committed) : t[1] = m /\ t[2] \in r.chosen /\ EnvOf[t[2]] \in r.migrated
      BY <2>2 DEF Together, GroupsOK, Settled
    <3> QED
      BY <3>1, <3>2, <3>3
  <2>5. \A e \in r.migrated : e <= r.group
    <3>1. \A e \in mig[m].migrated : e <= mig[m].group
      BY DEF Together, GroupsOK
    <3>2. mig[m].group <= mig[m].group
      BY <1>0
    <3> QED
      BY <2>2, <3>1, <3>2
  <2>6. ASSUME NEW x \in r.chosen
        PROVE  /\ Where(m, x)' # "dead" /\ (EnvOf[x] > r.group => Where(m, x)' = "new")
               /\ IF EnvOf[x] \in r.migrated THEN Where(m, x)' \in Kept
                  ELSE Where(m, x)' \notin Closing /\ ~Active(<<m, x>>)'
    <3>1. Where(m, x)' = Where(m, x) /\ (Active(<<m, x>>)' <=> Active(<<m, x>>))
      BY <2>1 DEF Where, Active
    <3>2. x \in mig[m].chosen /\ Stands(m, x)
      BY <1>1, <2>2
    <3>3. CASE EnvOf[x] = mig[m].group
      <4>1. Where(m, x) = "healthy"
        BY <1>2, <2>1, <3>2, <3>3 DEF Stands, Switching
      <4>2. ~(EnvOf[x] > r.group)
        BY <1>0, <2>2, <3>3
      <4> QED
        BY <2>2, <3>1, <3>3, <4>1, <4>2 DEF Kept
    <3>4. CASE EnvOf[x] # mig[m].group
      <4>1. EnvOf[x] \in r.migrated <=> Settled(m, x)
        BY <2>2, <3>4 DEF Settled
      <4>2. Where(m, x) # "dead" /\ (EnvOf[x] > r.group => Where(m, x) = "new")
        BY <1>1, <2>2, <3>2 DEF Stands
      <4>3. ~Settled(m, x) => Where(m, x) \notin Closing /\ ~Active(<<m, x>>)
        <5>1. Where(m, x) = "new" => ~Active(<<m, x>>)
          BY DEF Where, Active
        <5> QED
          BY <1>1, <1>3, <1>4, <3>2, <3>4, <5>1 DEF Stands
      <4>4. Settled(m, x) => Where(m, x) \in Kept
        BY <3>2 DEF Stands
      <4> QED
        BY <3>1, <4>1, <4>2, <4>3, <4>4
    <3> QED
      BY <3>3, <3>4
  <2> QED
    BY <2>2, <2>3, <2>4, <2>5, <2>6, NextTogether
<1>6. CASE AllRolledBack(m)
  <2>1. mig[m].at = "rollback" /\ mig'[m] = NextGroup(m, mig[m])
    BY <1>6 DEF AllRolledBack, At, MTypeOK
  <2>2. \A t \in Range(mig[m].committed) : t[1] = m /\ t[2] \in mig[m].chosen
                                             /\ EnvOf[t[2]] \in mig[m].migrated
    BY DEF Together, GroupsOK, Settled
  <2>3. \A e \in mig[m].migrated : e <= mig[m].group
    BY DEF Together, GroupsOK
  <2>4. ASSUME NEW x \in mig[m].chosen
        PROVE  /\ Where(m, x)' # "dead" /\ (EnvOf[x] > mig[m].group => Where(m, x)' = "new")
               /\ IF EnvOf[x] \in mig[m].migrated THEN Where(m, x)' \in Kept
                  ELSE Where(m, x)' \notin Closing /\ ~Active(<<m, x>>)'
    <3>1. IF x \in Group(m) /\ Where(m, x) = "prepared"
            THEN Where(m, x)' = "rejected"
            ELSE saga'[<<m, x>>] = saga[<<m, x>>]
      <4>1. <<m, x>> \in Sagas /\ <<m, x>>[1] = m /\ <<m, x>>[2] = x
        BY <1>1
      <4> QED
        BY <1>6, <4>1, RollbackSteps DEF Where
    <3>2. Stands(m, x)
      BY <1>1
    <3>3. CASE EnvOf[x] = mig[m].group
      <4>1. x \in Group(m) /\ ~Settled(m, x) /\ ~(EnvOf[x] > mig[m].group)
        BY <1>0, <1>2, <3>3 DEF Settled
      <4>2. Active(<<m, x>>) /\ Where(m, x) # "prepared" => FALSE
        <5> SUFFICES ASSUME Active(<<m, x>>), Where(m, x) # "prepared"
                     PROVE  FALSE
          OBVIOUS
        <5>1. <<m, x>> \in Range(mig[m].staged)
          BY <2>1, <4>1, HandsOn DEF Together
        <5>2. Where(m, x) \in RolledBack
          BY <1>6, <5>1 DEF AllRolledBack, Where
        <5> QED
          BY <5>2 DEF RolledBack, Active, Where, Ended
      <4>3. Where(m, x)' # "dead" /\ Where(m, x)' \notin Closing
        BY <3>1, <3>2, <4>1 DEF Stands, Where, Closing
      <4>4. ~Active(<<m, x>>)'
        BY <3>1, <4>1, <4>2 DEF Active, Where, Ended
      <4> QED
        BY <4>1, <4>3, <4>4 DEF Settled
    <3>4. CASE EnvOf[x] # mig[m].group
      <4>1. Where(m, x)' = Where(m, x) /\ (Active(<<m, x>>)' <=> Active(<<m, x>>))
        BY <3>1, <3>4 DEF Group, Where, Active
      <4>2. Where(m, x) # "dead" /\ (EnvOf[x] > mig[m].group => Where(m, x) = "new")
        BY <1>1, <3>2 DEF Stands
      <4>3. ~Settled(m, x) => Where(m, x) \notin Closing /\ ~Active(<<m, x>>)
        <5>1. Where(m, x) = "new" => ~Active(<<m, x>>)
          BY DEF Where, Active
        <5> QED
          BY <1>1, <1>3, <1>4, <3>2, <3>4, <5>1 DEF Stands
      <4>4. Settled(m, x) => Where(m, x) \in Kept
        BY <3>2 DEF Stands
      <4> QED
        BY <4>1, <4>2, <4>3, <4>4 DEF Settled
    <3> QED
      BY <3>3, <3>4
  <2> QED
    BY <1>0, <2>1, <2>2, <2>3, <2>4, NextTogether
<1> QED
  BY <1>5, <1>6

(* A crash ends the migrations that are under way.                         *)
LEMMA AroundTogether ==
  ASSUME MTypeOK, NEW m \in Migrations, Together(m), Around
  PROVE  Together(m)'
<1>1. CASE \E d \in Domains : Expire(d)
  BY <1>1, Aside DEF Expire, vars, Bystander
<1>2. CASE MCrash
  <2>1. /\ ~Underway(m)' /\ (mig'[m] = mig[m] \/ mig'[m] = [mig[m] EXCEPT !.at = "dead"])
    BY <1>2 DEF MCrash, Underway, Over, MTypeOK, Locals
  <2>2. CASE mig'[m] = mig[m]
    <3>1. Group(m)' = Group(m) /\ Left(m)' = Left(m) /\ ~Underway(m)'
      BY <2>1, <2>2 DEF Group, Left
    <3>2. GroupsOK(m)' /\ ChangesOK(m)'
      BY <2>2, <3>1 DEF Together, GroupsOK, ChangesOK, Settled
    <3> QED
      BY <3>1, <3>2 DEF Together, StandsOK
  <2>3. CASE mig'[m] = [mig[m] EXCEPT !.at = "dead"]
    <3>1. SameLocals(m) /\ mig'[m].at = "dead"
      BY <2>3 DEF MTypeOK, Locals, SameLocals, Same
    <3>2. Group(m)' = Group(m)
      BY <3>1 DEF SameLocals, Same, Group
    <3>3. GroupsOK(m)' /\ ChangesOK(m)'
      BY <2>1, <3>1, <3>2 DEF Together, GroupsOK, ChangesOK, Settled, SameLocals, Same, Unlocked
    <3> QED
      BY <2>1, <3>3 DEF Together, StandsOK
  <2> QED
    BY <2>1, <2>2, <2>3
<1> QED
  BY <1>1, <1>2 DEF Around

LEMMA TogetherStep ==
  ASSUME MTypeOK, SagasOK, MNext, \A m \in Migrations : Together(m)
  PROVE  \A m \in Migrations : Together(m)'
<1>1. CASE Around
  BY <1>1, AroundTogether
<1>2. ASSUME NEW m \in Migrations, Select(m) \/ Advance(m)
      PROVE  \A n \in Migrations : Together(n)'
  <2>1. Together(m)'
    <3>1. CASE Select(m) \/ Lock(m)
      BY <3>1, BeginTogether
    <3>2. CASE PrepareService(m) \/ StageNext(m) \/ HealthNext(m) \/ TransferStep(m) \/ RollbackNext(m)
               \/ CommitNext(m)
      BY <3>2, SagaTogether
    <3>3. CASE Analyze(m) \/ Apply(m) \/ RevertRecord(m)
      BY <3>3, ChangeTogether
    <3>4. CASE AllStaged(m) \/ AllHealthy(m) \/ TransferFails(m) \/ Probe(m) \/ AllApplied(m)
               \/ AllReverted(m) \/ Drain(m) \/ Unlock(m)
      BY <3>4, PhaseTogether
    <3>5. CASE PublicCheck(m)
      <4>1. Turn(m, "revert") \/ mig' = [mig EXCEPT ![m] = NextGroup(m, Through(m))]
        BY <3>5 DEF PublicCheck
      <4> QED
        BY <3>5, <4>1, PhaseTogether, EndTogether
    <3>6. CASE AllRolledBack(m)
      BY <3>6, EndTogether
    <3> QED
      BY <1>2, <3>1, <3>2, <3>3, <3>4, <3>5, <3>6 DEF Advance
  <2>2. ASSUME NEW n \in Migrations \ {m}
        PROVE  Together(n)'
    <3>1. GroupsOK(m)
      BY DEF Together
    <3>2. Bystander(n)
      BY <1>2, <3>1, OthersApart
    <3> QED
      BY <3>2, Aside
  <2> QED
    BY <2>1, <2>2
<1> QED
  BY <1>1, <1>2 DEF MNext

-----------------------------------------------------------------------------
(* The transfers of migrations are as those of transferService: their      *)
(* steps are the same, and between them nothing moves.                     *)
Proceeds(m) == Select(m) \/ Lock(m) \/ Analyze(m) \/ AllStaged(m) \/ AllHealthy(m) \/ TransferFails(m)
              \/ Probe(m) \/ Apply(m) \/ AllApplied(m) \/ PublicCheck(m) \/ RevertRecord(m)
              \/ AllReverted(m) \/ Drain(m) \/ Unlock(m)
Directs(m) == PrepareService(m) \/ StageNext(m) \/ RollbackNext(m) \/ AllRolledBack(m)

LEMMA StepKinds ==
  ASSUME MTypeOK, MNext
  PROVE  \/ Next
         \/ \E m \in Migrations : Directs(m) /\ UNCHANGED <<shape, world>>
         \/ UNCHANGED <<shape, world, saga>>
<1>1. CASE Around
  BY <1>1 DEF Around, Expire, MCrash, Next, Outside, vars
<1>2. ASSUME NEW m \in Migrations, Proceeds(m)
      PROVE  UNCHANGED <<shape, world, saga>>
  BY <1>2 DEF Proceeds, Select, Lock, Analyze, AllStaged, AllHealthy, TransferFails, Probe, Apply,
              AllApplied, PublicCheck, RevertRecord, AllReverted, Drain, Unlock, Still, vars
<1>3. ASSUME NEW m \in Migrations, Directs(m)
      PROVE  UNCHANGED <<shape, world>>
  <2>1. CASE PrepareService(m)
    BY <2>1 DEF PrepareService, Prepare, Keep
  <2>2. CASE StageNext(m) \/ RollbackNext(m) \/ AllRolledBack(m)
    BY <2>2 DEF StageNext, RollbackNext, AllRolledBack
  <2> QED
    BY <1>3, <2>1, <2>2 DEF Directs
<1>4. ASSUME NEW m \in Migrations, TransferStep(m)
      PROVE  Next
  BY <1>4, SagaBy DEF TransferStep, Next
<1>5. ASSUME NEW m \in Migrations, HealthNext(m)
      PROVE  Next
  <2>1. PICK i \in DOMAIN mig[m].staged : saga[mig[m].staged[i]].at = "staged" /\ Go(mig[m].staged[i], "check")
    BY <1>5 DEF HealthNext
  <2>2. mig[m].staged[i] \in Sagas
    BY LocalsType
  <2>3. Drive(mig[m].staged[i])
    BY <1>5, <2>1 DEF HealthNext, Drive, Keep, world
  <2> QED
    BY <2>2, <2>3 DEF Next
<1>6. ASSUME NEW m \in Migrations, CommitNext(m)
      PROVE  Next
  <2>1. PICK i \in DOMAIN mig[m].committed :
          saga[mig[m].committed[i]].at = "healthy" /\ Go(mig[m].committed[i], "logs")
    BY <1>6 DEF CommitNext
  <2>2. mig[m].committed[i] \in Sagas
    BY LocalsType
  <2>3. Drive(mig[m].committed[i])
    BY <1>6, <2>1 DEF CommitNext, Drive, Keep, world
  <2> QED
    BY <2>2, <2>3 DEF Next
<1> QED
  BY <1>1, <1>2, <1>3, <1>4, <1>5, <1>6 DEF MNext, Advance, Proceeds, Directs

(* Faults that have struck stay.                                           *)
LEMMA StruckStays ==
  ASSUME MTypeOK, MNext
  PROVE  struck \subseteq struck'
<1>1. CASE Next
  BY <1>1, SafeBefore DEF Strike
<1>2. CASE Around
  BY <1>2 DEF Around, Expire, MCrash, Crash, Strike, vars
<1>3. ASSUME NEW m \in Migrations, PrepareService(m)
      PROVE  struck \subseteq struck'
  BY <1>3, PrepareSteps DEF Strike
<1>4. ASSUME NEW m \in Migrations, Proceeds(m)
      PROVE  struck \subseteq struck'
  BY <1>4 DEF Proceeds, Select, Lock, Analyze, AllStaged, AllHealthy, TransferFails, Probe, Apply,
              AllApplied, PublicCheck, RevertRecord, AllReverted, Drain, Unlock, Still, vars, Strike
<1>5. ASSUME NEW m \in Migrations,
             StageNext(m) \/ HealthNext(m) \/ RollbackNext(m) \/ AllRolledBack(m) \/ CommitNext(m)
      PROVE  struck \subseteq struck'
  BY <1>5 DEF StageNext, HealthNext, RollbackNext, AllRolledBack, CommitNext
<1>6. ASSUME NEW m \in Migrations, TransferStep(m)
      PROVE  Next
  BY <1>6, SagaBy DEF TransferStep, Next
<1> QED
  BY <1>1, <1>2, <1>3, <1>4, <1>5, <1>6 DEF MNext, Advance, Proceeds

LEMMA SafeStays ==
  ASSUME MTypeOK, MNext, NEW K, Safe(K)'
  PROVE  Safe(K)
BY StruckStays DEF Safe

(* What a transfer that its migration moves becomes.                       *)
LEMMA DirectsSteps ==
  ASSUME MTypeOK, NEW m \in Migrations, Directs(m), NEW t \in Sagas, saga'[t] # saga[t]
  PROVE  \/ /\ PrepareService(m) /\ saga[t].at = "new" /\ saga'[t].source = Record(t)
            /\ IF Record(t) = Target[t] THEN saga'[t].at = "rejected"
               ELSE saga'[t].at = "prepared" /\ ~saga'[t].stopped /\ ~saga'[t].switched
         \/ /\ saga'[t].source = saga[t].source /\ saga'[t].stopped = saga[t].stopped
            /\ saga'[t].switched = saga[t].switched /\ saga'[t].on = saga[t].on
            /\ \/ StageNext(m) /\ saga[t].at = "prepared" /\ saga'[t].at = "begin"
               \/ AllRolledBack(m) /\ saga[t].at = "prepared" /\ saga'[t].at = "rejected"
               \/ RollbackNext(m) /\ saga[t].at = "broken" /\ saga'[t].at = "stuck"
               \/ /\ RollbackNext(m) /\ saga[t].at \in {"failed", "staged", "check", "healthy"}
                  /\ saga'[t].at = IF saga[t].switched THEN "remove"
                                   ELSE IF saga[t].stopped THEN "restart" ELSE "reset"
<1>1. saga \in [Sagas -> StagedTransfer] /\ saga[t] \in StagedTransfer
  BY DEF MTypeOK, TypeOK, StagedTransfer
<1>2. CASE PrepareService(m)
  <2>1. PICK x \in Services : Prepare(<<m, x>>, "prepared")
    BY <1>2 DEF PrepareService
  <2>2. t = <<m, x>>
    BY <1>1, <2>1 DEF Prepare
  <2>3. saga[t].at = "new"
    BY <2>1, <2>2 DEF Prepare
  <2>4. saga'[t] = [NoSaga EXCEPT !.at = IF Record(t) = Target[t] THEN "rejected" ELSE "prepared",
                                  !.source = Record(t), !.was = status[Subject[t]],
                                  !.ran = running[Subject[t]]]
    BY <1>1, <2>1, <2>2 DEF Prepare, Record
  <2> QED
    BY <1>2, <2>3, <2>4 DEF NoSaga
<1>3. ASSUME NEW u \in Sagas, NEW v, Go(u, v)
      PROVE  t = u /\ saga'[t] = [saga[t] EXCEPT !.at = v]
  BY <1>1, <1>3 DEF Go
<1>4. CASE StageNext(m)
  <2>1. PICK x \in Services : Go(<<m, x>>, "begin")
    BY <1>4 DEF StageNext
  <2>2. t = <<m, x>> /\ saga'[t] = [saga[t] EXCEPT !.at = "begin"]
    BY <1>3, <2>1, SagaBy
  <2>3. saga[t].at = "prepared"
    <3>1. PICK y \in Group(m) : saga[<<m, y>>].at = "prepared" /\ \A u \in Sagas \ {<<m, y>>} : saga'[u] = saga[u]
      BY <1>4, StageSteps DEF MTypeOK
    <3> QED
      BY <3>1
  <2> QED
    BY <1>1, <1>4, <2>2, <2>3 DEF StagedTransfer
<1>5. CASE RollbackNext(m)
  <2>1. PICK u \in Sagas :
          \/ saga[u].at \in {"failed", "staged", "check", "healthy"} /\ Rollback(u)
          \/ saga[u].at = "broken" /\ Go(u, "stuck")
    BY <1>5 DEF RollbackNext
  <2>2. CASE saga[u].at = "broken" /\ Go(u, "stuck")
    <3>1. t = u /\ saga'[t] = [saga[t] EXCEPT !.at = "stuck"]
      BY <1>3, <2>2
    <3> QED
      BY <1>1, <1>5, <2>2, <3>1 DEF StagedTransfer
  <2>3. CASE saga[u].at \in {"failed", "staged", "check", "healthy"} /\ Rollback(u)
    <3>1. t = u /\ saga'[t] = [saga[t] EXCEPT !.at = IF saga[t].switched THEN "remove"
                                   ELSE IF saga[t].stopped THEN "restart" ELSE "reset"]
      BY <1>3, <2>3 DEF Rollback
    <3> QED
      BY <1>1, <1>5, <2>3, <3>1 DEF StagedTransfer
  <2> QED
    BY <2>1, <2>2, <2>3
<1>6. CASE AllRolledBack(m)
  <2>1. saga[t].at = "prepared" /\ saga'[t] = [saga[t] EXCEPT !.at = "rejected"]
    BY <1>6 DEF AllRolledBack
  <2> QED
    BY <1>1, <1>6, <2>1 DEF StagedTransfer
<1> QED
  BY <1>2, <1>4, <1>5, <1>6 DEF Directs

LEMMA StagedMStep ==
  ASSUME MTypeOK, OneTransfer, StagedOK, MNext
  PROVE  StagedOK'
<1>1. CASE Next
  BY <1>1, StagedStep DEF MTypeOK
<1>2. ASSUME UNCHANGED <<shape, world>>, ~Next, NEW t \in Sagas, Staged(t), saga'[t] = saga[t]
      PROVE  Staged(t)'
  <2>1. Safe({"db"})' => Safe({"db"})
    BY SafeStays
  <2> QED
    BY <1>2, <2>1 DEF Staged, Source, Record, Stateful, Run, world
<1>3. ASSUME Safe({"overlap"})', UNCHANGED <<shape, world>>, ~Next, NEW t \in Sagas, Active(t)',
             saga'[t] # saga[t], NEW m \in Migrations, Directs(m)
      PROVE  Staged(t)'
  <2>1. (Safe({"db"})' => Safe({"db"})) /\ Safe({"overlap"})
    BY <1>3, SafeStays
  <2>2. Subject[t] \in Services /\ Stateful(t) \in BOOLEAN /\ Record(t)' = Record(t) /\ Run(t)' = Run(t)
        /\ Stateful(t)' = Stateful(t)
    BY <1>3, SagaOf DEF MTypeOK, TypeOK, Shapes, Stateful, Record, Run, world
  <2>3. Active(t) => Staged(t)
    BY <2>1 DEF StagedOK
  <2> USE DEF Staged, Source, Before, Moved, Up, Back, Active, Ended
  <2>4. CASE saga[t].at = "new"
    BY <1>3, <2>2, <2>4, DirectsSteps
  <2>5. CASE saga[t].at # "new"
    BY <1>3, <2>1, <2>2, <2>3, <2>5, DirectsSteps
  <2> QED
    BY <2>4, <2>5
<1>4. CASE ~Next
  <2> SUFFICES ASSUME Safe({"overlap"})', NEW t \in Sagas, Active(t)'
               PROVE  Staged(t)'
    BY DEF StagedOK
  <2>1. UNCHANGED <<shape, world>> /\ (saga' = saga \/ \E m \in Migrations : Directs(m))
    BY <1>4, StepKinds
  <2>2. CASE saga'[t] = saga[t]
    <3>1. Staged(t)
      BY <2>2, SafeStays DEF StagedOK, Active
    <3> QED
      BY <1>2, <1>4, <2>1, <2>2, <3>1
  <2>3. CASE saga'[t] # saga[t]
    BY <1>3, <1>4, <2>1, <2>3
  <2> QED
    BY <2>2, <2>3
<1> QED
  BY <1>1, <1>4

-----------------------------------------------------------------------------
(* Where a transfer that is over has left its service, as long as the      *)
(* migration goes on: no other one can have moved it since.                *)
Rest(t) ==
  /\ saga[t].at \in {"moved", "unclean"} => Record(t) = Target[t] /\ Target[t] \in Run(t)
  /\ saga[t].at \in {"undone", "rejected"} => Record(t) = Source(t)
  /\ saga[t].at = "stuck" /\ Safe({"db"}) => Record(t) = Source(t)

RestOK == SelectionHolds => \A t \in Sagas : Underway(t[1]) => Rest(t)

AtRest(t) == saga[t].at \in {"moved", "unclean", "undone", "rejected"}
             \/ (saga[t].at = "stuck" /\ Safe({"db"}))

LEMMA NobodyElse ==
  ASSUME MInv, SelectionHolds, NEW t \in Sagas, Underway(t[1]), Rest(t), AtRest(t),
         NEW u \in Sagas \ {t}, Subject[u] = Subject[t]
  PROVE  ~Active(u)
<1> SUFFICES ASSUME Active(u)
             PROVE  FALSE
  OBVIOUS
<1>1. u[1] # t[1] /\ u[1] \in Migrations /\ t[1] \in Migrations /\ u[2] = t[2]
  BY SagaOf
<1>2. Underway(u[1])
  <2>1. Held(u)
    BY DEF MInv, SagasOK
  <2> QED
    BY <2>1 DEF Held, Active
<1>3. record[t[2]] \in Pair(u[1])
  BY <1>1 DEF MInv, RecordsOK
<1>4. record[t[2]] \in Pair(t[1])
  <2>1. saga[t].source \in Pair(t[1])
    BY DEF SelectionHolds, AtRest, Pair
  <2> QED
    BY <2>1, SagaOf DEF Rest, AtRest, Record, Source, Pair
<1> QED
  BY <1>1, <1>2, <1>3, <1>4 DEF MInv, LocksOK

(* How a transfer comes to rest.                                           *)
LEMMA RestSelf ==
  ASSUME TypeOK, Next, NEW t \in Sagas, Saga(t), Active(t) => Staged(t), ~Active(t) => Rest(t)
  PROVE  Rest(t)'
<1> USE DEF Rest, Staged, Source, Before, Moved, Up, Back, Call, Place
<1>1. (Safe({"db"})' => Safe({"db"}) /\ ~Strike("db")) /\ saga[t].switched \in BOOLEAN
  BY SafeBefore DEF Kinds, TypeOK
<1>2. CASE Prepare(t, "begin")
  <2>1. saga'[t].source = Record(t) /\ saga'[t].at \in {"begin", "rejected"} /\ Record(t)' = Record(t)
    BY <1>2 DEF Prepare, Keep, world, NoSaga, Record, TypeOK
  <2> QED
    BY <2>1
<1>3. ASSUME Active(t), Step(t) \/ Drive(t)
      PROVE  Rest(t)'
  <2>0. Staged(t) /\ saga'[t].source = saga[t].source
    BY <1>3, SameRead
  <2>1. CASE Begin(t) \/ Copy(t) \/ Check(t)
    BY <1>1, <2>0, <2>1, StageEffects
  <2>2. CASE Stop(t) \/ Switch(t)
    BY <1>1, <2>0, <2>2, StopEffect, SwitchEffect
  <2>3. CASE Deploy(t) \/ Deployed(t)
    BY <1>1, <2>0, <2>3, DeployEffects
  <2>4. CASE Remove(t) \/ Restore(t)
    BY <1>1, <2>0, <2>4, RemoveEffect, RestoreEffect
  <2>5. CASE Restart(t)
    BY <1>1, <2>0, <2>5, RestartEffect
  <2>6. CASE Reset(t) \/ MoveLogs(t) \/ Finish(t)
    BY <1>1, <2>0, <2>6, ResetEffects
  <2>7. CASE CleanUp(t)
    BY <1>1, <2>0, <2>7, CleanUpEffect
  <2>8. CASE Drive(t)
    BY <1>1, <2>0, <2>8, DriveEffect
  <2> QED
    BY <1>3, <2>1, <2>2, <2>3, <2>4, <2>5, <2>6, <2>7, <2>8 DEF Step
<1> QED
  BY <1>2, <1>3, ActiveStep DEF Saga

LEMMA RestNext ==
  ASSUME TypeOK, Next, NEW t \in Sagas, Active(t) => Staged(t), Rest(t),
         AtRest(t) => \A u \in Sagas \ {t} : Subject[u] = Subject[t] => ~Active(u)
  PROVE  Rest(t)'
<1>0. (Safe({"db"})' => Safe({"db"})) /\ Subject[t] \in Services
  BY SafeBefore, TransferAssumption DEF Kinds
<1>1. CASE Saga(t)
  BY <1>1, RestSelf
<1>2. ASSUME NEW u \in Sagas \ {t}, Saga(u)
      PROVE  Rest(t)'
  <2>1. saga'[t] = saga[t]
    BY <1>2, Frame
  <2>2. CASE Subject[u] # Subject[t]
    <3>1. Record(t)' = Record(t) /\ Run(t)' = Run(t)
      BY <1>0, <1>2, <2>2, Frame DEF Record, Run
    <3> QED
      BY <1>0, <2>1, <3>1 DEF Rest, Source
  <2>3. CASE Prepare(u, "begin")
    <3>1. Record(t)' = Record(t) /\ Run(t)' = Run(t)
      BY <2>3 DEF Prepare, Keep, world, Record, Run
    <3> QED
      BY <1>0, <2>1, <3>1 DEF Rest, Source
  <2>4. CASE Subject[u] = Subject[t] /\ ~Prepare(u, "begin")
    <3>1. ~AtRest(t)
      BY <1>2, <2>4, ActiveStep DEF Saga
    <3> QED
      BY <1>0, <2>1, <3>1 DEF Rest, AtRest
  <2> QED
    BY <2>2, <2>3, <2>4
<1>3. CASE Outside
  <2>1. /\ record' = record /\ \A x \in Services : running[x] \subseteq running'[x]
        /\ saga'[t] = saga[t] \/ saga'[t].at = "dead"
    BY <1>3 DEF TypeOK, Outside, StartBuild, EndBuild, Write, Crash, Active, Ended, Runs, Set, world
  <2> QED
    BY <1>0, <2>1 DEF Rest, Source, Record, Run
<1> QED
  BY <1>1, <1>2, <1>3 DEF Next, Saga

(* Only a lock lets a migration begin.                                     *)
LEMMA UnderwayBefore ==
  ASSUME MTypeOK, MNext, NEW m \in Migrations, Underway(m)', ~Underway(m)
  PROVE  Lock(m)
<1>1. ~Around
  BY DEF Around, Expire, MCrash, Underway, Over, vars, MTypeOK, Locals
<1>2. ASSUME NEW n \in Migrations, Select(n) \/ Advance(n)
      PROVE  Lock(m)
  <2>1. CASE Select(n)
    BY <2>1, SelectSteps DEF Underway, Over, Others
  <2>2. CASE Lock(n)
    BY <2>2 DEF Lock, At, Turn, Underway, Over, MTypeOK
  <2>3. CASE Unlock(n)
    BY <2>3 DEF Unlock, At, Turn, Underway, Over, MTypeOK, Locals
  <2>4. CASE Advance(n) /\ ~Lock(n) /\ ~Unlock(n)
    BY <2>4, StaysUnderway DEF Others, Underway
  <2> QED
    BY <1>2, <2>1, <2>2, <2>3, <2>4
<1> QED
  BY <1>1, <1>2 DEF MNext

LEMMA RestStep ==
  ASSUME MInv, StagedOK, RestOK, MNext, NoOverlap'
  PROVE  RestOK'
<1> SUFFICES ASSUME SelectionHolds', NEW t \in Sagas, Underway(t[1])'
             PROVE  Rest(t)'
  BY DEF RestOK
<1>1. SelectionHolds /\ Safe({"overlap"})' /\ MTypeOK /\ TypeOK
  BY Holds DEF NoOverlap, Safe, MInv, MTypeOK
<1>2. Safe({"overlap"}) /\ (Safe({"db"})' => Safe({"db"}))
  BY <1>1, SafeStays
<1>3. Active(t) => Staged(t)
  BY <1>2 DEF StagedOK
<1>4. Rest(t) /\ (AtRest(t) => Underway(t[1]))
  <2>1. CASE Underway(t[1])
    BY <1>1, <2>1 DEF RestOK
  <2>2. CASE ~Underway(t[1])
    <3>1. mig[t[1]].at = "selected"
      BY <1>1, <2>2, SagaOf, UnderwayBefore DEF Lock, At
    <3>2. saga[t].at = "new"
      BY <3>1 DEF MInv, SagasOK, Held
    <3> QED
      BY <3>2 DEF Rest, AtRest
  <2> QED
    BY <2>1, <2>2
<1>5. CASE Next
  BY <1>1, <1>3, <1>4, <1>5, NobodyElse, RestNext
<1>6. CASE ~Next
  <2>1. UNCHANGED <<shape, world>> /\ (saga' = saga \/ \E m \in Migrations : Directs(m))
    BY <1>1, <1>6, StepKinds
  <2>2. Record(t)' = Record(t) /\ Run(t)' = Run(t)
    BY <2>1 DEF Record, Run, world
  <2>3. CASE saga'[t] = saga[t]
    BY <1>2, <1>4, <2>2, <2>3 DEF Rest, Source
  <2>4. CASE saga'[t] # saga[t]
    BY <1>1, <1>2, <1>3, <2>1, <2>2, <2>4, DirectsSteps
       DEF Rest, Source, Staged, Before, Active, Ended
  <2> QED
    BY <2>3, <2>4
<1> QED
  BY <1>5, <1>6

-----------------------------------------------------------------------------
(* What a step does with the records, and with the locals about them.      *)
Towards == {"stage", "health", "probe", "dns", "public"}

Keeps(m) ==
  /\ mig'[m].chosen = mig[m].chosen /\ mig'[m].group = mig[m].group
  /\ mig'[m].change = mig[m].change /\ mig'[m].doing = mig[m].doing
  /\ mig'[m].reverts = mig[m].reverts /\ mig'[m].migrated = mig[m].migrated
  /\ mig'[m].manual = mig[m].manual /\ mig'[m].manualDns = mig[m].manualDns

LEMMA KeepsStep ==
  ASSUME MTypeOK, NEW m \in Migrations,
         \/ Around
         \/ /\ Advance(m) /\ ~Lock(m) /\ ~Analyze(m) /\ ~Apply(m) /\ ~RevertRecord(m) /\ ~AllRolledBack(m)
            /\ ~(PublicCheck(m) /\ mig' = [mig EXCEPT ![m] = NextGroup(m, Through(m))])
  PROVE  /\ Keeps(m) /\ points' = points
         /\ mig'[m].at \in Towards => mig[m].at \in Towards
<1>1. CASE Around
  <2>1. points' = points
    BY <1>1 DEF Around, Expire, MCrash, dns
  <2>2. mig'[m] = mig[m] \/ mig'[m] = [mig[m] EXCEPT !.at = "dead"]
    BY <1>1 DEF Around, Expire, MCrash
  <2>3. mig'[m] = [mig[m] EXCEPT !.at = "dead"] => Keeps(m) /\ mig'[m].at = "dead"
    BY DEF MTypeOK, Locals, Keeps
  <2>4. mig'[m] = mig[m] => Keeps(m)
    BY DEF Keeps
  <2> QED
    BY <2>1, <2>2, <2>3, <2>4 DEF Towards
<1>2. ASSUME NEW v, Turn(m, v), v \in Towards => mig[m].at \in Towards, points' = points
      PROVE  /\ Keeps(m) /\ points' = points
             /\ mig'[m].at \in Towards => mig[m].at \in Towards
  BY <1>2, TurnsAll DEF SameLocals, Same, Keeps
<1>3. ASSUME mig' = mig, points' = points
      PROVE  /\ Keeps(m) /\ points' = points
             /\ mig'[m].at \in Towards => mig[m].at \in Towards
  BY <1>3 DEF Keeps
<1>4. CASE PrepareService(m)
  BY <1>2, <1>3, <1>4 DEF PrepareService, dns, Towards
<1>5. CASE StageNext(m)
  <2>1. PICK x : mig' = [mig EXCEPT ![m].staged = Append(@, <<m, x>>)]
    BY <1>5 DEF StageNext
  <2> QED
    BY <1>5, <2>1 DEF StageNext, dns, MTypeOK, Locals, Keeps
<1>6. CASE HealthNext(m) \/ TransferStep(m) \/ RollbackNext(m) \/ CommitNext(m)
  BY <1>3, <1>6 DEF HealthNext, TransferStep, RollbackNext, CommitNext, dns
<1>7. CASE AllStaged(m)
  BY <1>2, <1>7 DEF AllStaged, Still, dns, Towards, At
<1>8. CASE AllHealthy(m)
  BY <1>2, <1>8 DEF AllHealthy, Still, dns, Towards, At
<1>9. CASE TransferFails(m)
  BY <1>2, <1>9 DEF TransferFails, Still, dns, Towards
<1>10. CASE Probe(m)
  BY <1>2, <1>10 DEF Probe, dns, Towards, At
<1>11. CASE AllApplied(m)
  BY <1>2, <1>11 DEF AllApplied, Still, dns, Towards, At
<1>12. CASE PublicCheck(m) /\ Turn(m, "revert")
  BY <1>2, <1>12 DEF PublicCheck, dns, Towards
<1>13. CASE AllReverted(m)
  BY <1>2, <1>13 DEF AllReverted, Still, dns, Towards
<1>14. CASE Drain(m)
  BY <1>2, <1>14 DEF Drain, Towards
<1>15. CASE Unlock(m)
  BY <1>2, <1>15 DEF Unlock, dns, Towards
<1>16. PublicCheck(m) => Turn(m, "revert") \/ mig' = [mig EXCEPT ![m] = NextGroup(m, Through(m))]
  BY DEF PublicCheck
<1> QED
  BY <1>1, <1>4, <1>5, <1>6, <1>7, <1>8, <1>9, <1>10, <1>11, <1>12, <1>13, <1>14, <1>15, <1>16 DEF Advance

(* A migration changes a record of its environment.                        *)
Fixed(m) ==
  /\ mig'[m].chosen = mig[m].chosen /\ mig'[m].group = mig[m].group
  /\ mig'[m].change = mig[m].change /\ mig'[m].migrated = mig[m].migrated
  /\ mig'[m].manual = mig[m].manual /\ mig'[m].manualDns = mig[m].manualDns

Points(r, c) == points' = [points EXCEPT ![r] = c]

LEMMA ApplySteps ==
  ASSUME MTypeOK, NEW m \in Migrations, Apply(m)
  PROVE  /\ mig[m].at = "dns" /\ Fixed(m) /\ Others(m) /\ saga' = saga
         /\ \E r \in Left(m) :
              \/ /\ Points(r, mig[m].change[r]) /\ mig'[m].at = "dns"
                 /\ IF RecordsOf(DomainOf[r]) \cap Left(m) = {r}
                      THEN mig'[m].reverts = mig[m].reverts \cup mig[m].doing \cup {r} /\ mig'[m].doing = {}
                      ELSE mig'[m].reverts = mig[m].reverts /\ mig'[m].doing = mig[m].doing \cup {r}
              \/ /\ points' = points /\ mig'[m].at = "revert" /\ mig'[m].reverts = mig[m].reverts
              \/ /\ Points(r, mig[m].change[r]) /\ Strike("lost")
                 /\ mig'[m].at = "revert" /\ mig'[m].reverts = mig[m].reverts
<1>1. mig[m].at = "dns" /\ saga' = saga /\ mig \in [Migrations -> Locals] /\ mig[m] \in Locals
  BY DEF Apply, At, MTypeOK
<1>2. PICK r \in Left(m) :
        \/ /\ SetRecord(r, mig[m].change[r])
           /\ mig' = IF RecordsOf(DomainOf[r]) \cap Left(m) = {r}
                       THEN [mig EXCEPT ![m].doing = {}, ![m].reverts = @ \cup (mig[m].doing \cup {r})]
                       ELSE [mig EXCEPT ![m].doing = mig[m].doing \cup {r}]
        \/ mig' = [mig EXCEPT ![m].at = "revert", ![m].doing = {}] /\ UNCHANGED dns
        \/ mig' = [mig EXCEPT ![m].at = "revert", ![m].doing = {}] /\ Strike("lost")
             /\ SetRecord(r, mig[m].change[r])
  BY DEF Apply
<1>3. SetRecord(r, mig[m].change[r]) => Points(r, mig[m].change[r])
  BY DEF SetRecord, Set, Points
<1>4. CASE /\ mig' = [mig EXCEPT ![m].at = "revert", ![m].doing = {}]
           /\ UNCHANGED dns \/ (Strike("lost") /\ SetRecord(r, mig[m].change[r]))
  <2>1. mig'[m] = [mig[m] EXCEPT !.at = "revert", !.doing = {}] /\ Others(m)
    BY <1>1, <1>4 DEF Locals, Others
  <2>2. mig'[m].at = "revert" /\ mig'[m].reverts = mig[m].reverts /\ Fixed(m)
    BY <1>1, <2>1 DEF Locals, Fixed
  <2> QED
    BY <1>1, <1>3, <1>4, <2>1, <2>2 DEF dns
<1>5. CASE /\ SetRecord(r, mig[m].change[r])
           /\ RecordsOf(DomainOf[r]) \cap Left(m) = {r}
           /\ mig' = [mig EXCEPT ![m].doing = {}, ![m].reverts = @ \cup (mig[m].doing \cup {r})]
  <2>1. mig'[m] = [mig[m] EXCEPT !.doing = {}, !.reverts = mig[m].reverts \cup (mig[m].doing \cup {r})] /\ Others(m)
    BY <1>1, <1>5 DEF Locals, Others
  <2>2. /\ mig'[m].at = "dns" /\ mig'[m].reverts = mig[m].reverts \cup mig[m].doing \cup {r}
        /\ mig'[m].doing = {} /\ Fixed(m)
    BY <1>1, <2>1 DEF Locals, Fixed
  <2> QED
    BY <1>1, <1>3, <1>5, <2>1, <2>2
<1>6. CASE /\ SetRecord(r, mig[m].change[r])
           /\ RecordsOf(DomainOf[r]) \cap Left(m) # {r}
           /\ mig' = [mig EXCEPT ![m].doing = mig[m].doing \cup {r}]
  <2>1. mig'[m] = [mig[m] EXCEPT !.doing = mig[m].doing \cup {r}] /\ Others(m)
    BY <1>1, <1>6 DEF Locals, Others
  <2>2. /\ mig'[m].at = "dns" /\ mig'[m].reverts = mig[m].reverts
        /\ mig'[m].doing = mig[m].doing \cup {r} /\ Fixed(m)
    BY <1>1, <2>1 DEF Locals, Fixed
  <2> QED
    BY <1>1, <1>3, <1>6, <2>1, <2>2
<1> QED
  BY <1>2, <1>4, <1>5, <1>6

LEMMA RevertSteps ==
  ASSUME MTypeOK, NEW m \in Migrations, RevertRecord(m)
  PROVE  /\ mig[m].at = "revert" /\ mig'[m].at = "revert" /\ Fixed(m) /\ Others(m) /\ saga' = saga
         /\ \E r \in mig[m].reverts :
              /\ Points(r, From[m]) \/ (points' = points /\ Strike("revert"))
              /\ mig'[m].reverts = mig[m].reverts \ {r}
<1>1. mig[m].at = "revert" /\ saga' = saga /\ mig \in [Migrations -> Locals] /\ mig[m] \in Locals
  BY DEF RevertRecord, At, MTypeOK
<1>2. PICK r \in mig[m].reverts :
        /\ SetRecord(r, From[m]) \/ (Strike("revert") /\ UNCHANGED dns)
        /\ mig' = [mig EXCEPT ![m].reverts = @ \ {r}]
  BY DEF RevertRecord
<1>3. SetRecord(r, From[m]) => Points(r, From[m])
  BY DEF SetRecord, Set, Points
<1>4. mig'[m] = [mig[m] EXCEPT !.reverts = mig[m].reverts \ {r}] /\ Others(m)
  BY <1>1, <1>2 DEF Locals, Others
<1>5. mig'[m].at = "revert" /\ Fixed(m) /\ mig'[m].reverts = mig[m].reverts \ {r}
  BY <1>1, <1>4 DEF Locals, Fixed
<1> QED
  BY <1>1, <1>2, <1>3, <1>4, <1>5 DEF dns

LEMMA AnalyzeSteps ==
  ASSUME MTypeOK, NEW m \in Migrations, Analyze(m)
  PROVE  /\ mig[m].at = "prepare" /\ mig'[m].at = "stage" /\ points' = points
         /\ mig'[m].chosen = mig[m].chosen /\ mig'[m].group = mig[m].group
         /\ mig'[m].migrated = mig[m].migrated /\ mig'[m].manualDns = mig[m].manualDns
         /\ mig'[m].reverts = mig[m].reverts /\ mig'[m].doing = mig[m].doing
         /\ DOMAIN mig'[m].change \subseteq OnSource(m)
         /\ \A r \in DOMAIN mig'[m].change : mig'[m].change[r] = NewContent(m, r)
         /\ \A r \in OnSource(m) : r \in DOMAIN mig'[m].change \/ DomainOf[r] \in mig'[m].manual
<1>1. PICK c \in Changes, h \in SUBSET Domains :
        /\ mig' = [mig EXCEPT ![m] = [mig[m] EXCEPT !.at = "stage", !.change = c, !.manual = h]]
        /\ DOMAIN c \subseteq OnSource(m) /\ \A r \in DOMAIN c : c[r] = NewContent(m, r)
        /\ \A r \in OnSource(m) : r \in DOMAIN c \/ DomainOf[r] \in h
  BY Analyzed
<1>2. mig[m] \in Locals /\ mig'[m] = [mig[m] EXCEPT !.at = "stage", !.change = c, !.manual = h]
  BY <1>1 DEF MTypeOK
<1>3. /\ mig'[m].at = "stage" /\ mig'[m].change = c /\ mig'[m].manual = h
      /\ mig'[m].chosen = mig[m].chosen /\ mig'[m].group = mig[m].group
      /\ mig'[m].migrated = mig[m].migrated /\ mig'[m].manualDns = mig[m].manualDns
      /\ mig'[m].reverts = mig[m].reverts /\ mig'[m].doing = mig[m].doing
  BY <1>2 DEF Locals
<1>4. mig[m].at = "prepare" /\ points' = points
  BY DEF Analyze, At, Still, dns
<1> QED
  BY <1>1, <1>3, <1>4

(* It begins with an environment, with nothing changed yet.                *)
LEMMA AfreshSteps ==
  ASSUME MTypeOK, NEW m \in Migrations, Together(m),
         \/ Lock(m) \/ AllRolledBack(m)
         \/ (PublicCheck(m) /\ mig' = [mig EXCEPT ![m] = NextGroup(m, Through(m))])
  PROVE  /\ points' = points /\ mig'[m].at \notin Towards
         /\ mig'[m].chosen = mig[m].chosen /\ mig'[m].change = <<>> /\ mig'[m].reverts \subseteq {}
         /\ mig[m].manualDns \subseteq mig'[m].manualDns
         /\ IF PublicCheck(m) /\ mig' = [mig EXCEPT ![m] = NextGroup(m, Through(m))]
              THEN /\ mig[m].at = "public" /\ mig'[m].migrated = mig[m].migrated \cup {mig[m].group}
                   /\ mig[m].manual \subseteq mig'[m].manualDns
              ELSE mig'[m].migrated = mig[m].migrated /\ mig[m].reverts = {}
<1>0. mig[m] \in Locals /\ mig \in [Migrations -> Locals]
  BY DEF MTypeOK
<1>1. ASSUME NEW r \in Locals, r.chosen = mig[m].chosen, mig'[m] = NextGroup(m, r)
      PROVE  /\ mig'[m].at \notin Towards /\ mig'[m].chosen = r.chosen /\ mig'[m].manualDns = r.manualDns
             /\ mig'[m].change = <<>> /\ mig'[m].reverts = {} /\ mig'[m].migrated = r.migrated
  BY <1>1, NextGroupOf, NextGroupRest DEF Towards
<1>2. CASE PublicCheck(m) /\ mig' = [mig EXCEPT ![m] = NextGroup(m, Through(m))]
  <2> DEFINE r == Through(m)
  <2>1. /\ r \in Locals /\ r.chosen = mig[m].chosen /\ r.manualDns = mig[m].manualDns \cup mig[m].manual
        /\ r.migrated = mig[m].migrated \cup {mig[m].group}
    <3>1. /\ mig[m].committed \o mig[m].staged \in Seq(Sagas) /\ DOMAIN mig[m].change \subseteq Records
          /\ mig[m].group \in Nat /\ mig[m].manualDns \cup mig[m].manual \in SUBSET Domains
      BY LocalsType
    <3> QED
      BY <1>0, <3>1 DEF Through, Locals
  <2>2. mig'[m] = NextGroup(m, r)
    BY <1>0, <1>2
  <2>3. points' = points /\ mig[m].at = "public"
    BY <1>2 DEF PublicCheck, dns, At
  <2> HIDE DEF r
  <2> QED
    BY <1>1, <1>2, <2>1, <2>2, <2>3
<1>3. CASE AllRolledBack(m)
  <2>1. mig'[m] = NextGroup(m, mig[m]) /\ points' = points /\ mig[m].at = "rollback"
    BY <1>0, <1>3 DEF AllRolledBack, dns, At
  <2>2. mig[m].reverts = {} /\ ~PublicCheck(m)
    BY <2>1 DEF Together, ChangesOK, PublicCheck, At
  <2> QED
    BY <1>0, <1>1, <2>1, <2>2
<1>4. CASE Lock(m)
  <2>1. points' = points /\ mig[m].at = "selected" /\ ~PublicCheck(m)
    BY <1>4 DEF Lock, dns, At, PublicCheck
  <2>2. mig[m].change = <<>> /\ mig[m].reverts = {}
    BY <2>1 DEF Together, GroupsOK, ChangesOK, Unlocked
  <2>3. CASE mig' = [mig EXCEPT ![m] = NextGroup(m, @)]
    <3>1. mig'[m] = NextGroup(m, mig[m])
      BY <1>0, <2>3
    <3> QED
      BY <1>0, <1>1, <2>1, <2>2, <3>1
  <2>4. CASE Turn(m, "refused")
    <3>1. mig'[m].at = "refused" /\ SameLocals(m)
      BY <2>4, TurnsAll
    <3> QED
      BY <2>1, <2>2, <3>1 DEF SameLocals, Same, Towards
  <2> QED
    BY <1>4, <2>3, <2>4 DEF Lock
<1> QED
  BY <1>2, <1>3, <1>4

-----------------------------------------------------------------------------
(* A migration knows the records of its environment that are still at the  *)
(* source, or the user will be told of their domain; when all are changed  *)
(* the others have left it.                                                *)
Off(m) ==
  \A r \in Records : Owner(r) \in mig[m].chosen /\ Settled(m, Owner(r)) =>
    points[r] # From[m] \/ DomainOf[r] \in mig[m].manualDns
Known(m) ==
  mig[m].at \in Towards =>
    \A r \in Records : Owner(r) \in Group(m) /\ points[r] = From[m] =>
      r \in Left(m) \/ DomainOf[r] \in mig[m].manual

Switched(m) == Underway(m) => Off(m) /\ Known(m)
SwitchedOK == SelectionHolds => \A m \in Migrations : Switched(m)

(* Records are changed to the target's address, or deleted.                *)
ToTarget(m) == \A r \in DOMAIN mig[m].change : mig[m].change[r] \in {To[m], Deleted}

LEMMA ToTargetStep ==
  ASSUME MTypeOK, MNext, NEW m \in Migrations, ToTarget(m), Together(m)
  PROVE  ToTarget(m)'
<1>1. ASSUME mig'[m].change = mig[m].change
      PROVE  ToTarget(m)'
  BY <1>1 DEF ToTarget
<1>2. ASSUME mig'[m].change = <<>>
      PROVE  ToTarget(m)'
  BY <1>2 DEF ToTarget
<1>3. CASE Around
  BY <1>1, <1>3, KeepsStep DEF Keeps
<1>4. ASSUME NEW n \in Migrations \ {m}, Select(n) \/ Advance(n)
      PROVE  ToTarget(m)'
  <2>1. mig'[m] = mig[m]
    <3>1. CASE Select(n) \/ Lock(n) \/ Unlock(n)
      BY <3>1 DEF Select, Lock, Unlock, MTypeOK, Turn
    <3>2. CASE Advance(n) /\ ~Lock(n) /\ ~Unlock(n)
      BY <3>2, StaysUnderway DEF Others
    <3> QED
      BY <1>4, <3>1, <3>2
  <2> QED
    BY <1>1, <2>1
<1>5. CASE Select(m)
  <2>1. mig'[m].change = mig[m].change
    BY <1>5, SelectSteps
  <2> QED
    BY <1>1, <2>1
<1>6. CASE \/ Lock(m) \/ AllRolledBack(m)
           \/ (PublicCheck(m) /\ mig' = [mig EXCEPT ![m] = NextGroup(m, Through(m))])
  BY <1>2, <1>6, AfreshSteps
<1>7. CASE Analyze(m)
  <2>1. \A r \in DOMAIN mig'[m].change : mig'[m].change[r] = NewContent(m, r)
    BY <1>7, AnalyzeSteps
  <2> QED
    BY <2>1 DEF ToTarget, NewContent
<1>8. CASE Apply(m)
  BY <1>1, <1>8, ApplySteps DEF Fixed
<1>9. CASE RevertRecord(m)
  BY <1>1, <1>9, RevertSteps DEF Fixed
<1>10. CASE /\ Advance(m) /\ ~Lock(m) /\ ~Analyze(m) /\ ~Apply(m) /\ ~RevertRecord(m) /\ ~AllRolledBack(m)
            /\ ~(PublicCheck(m) /\ mig' = [mig EXCEPT ![m] = NextGroup(m, Through(m))])
  BY <1>1, <1>10, KeepsStep DEF Keeps
<1> QED
  BY <1>3, <1>4, <1>5, <1>6, <1>7, <1>8, <1>9, <1>10 DEF MNext

(* An environment that is switched moves to another server.                *)
LEMMA FromNotTo ==
  ASSUME MTypeOK, StagedOK, SelectionHolds, Safe({"overlap"}), NEW m \in Migrations, NEW x \in Services,
         Where(m, x) = "healthy"
  PROVE  From[m] # To[m]
<1>1. <<m, x>> \in Sagas /\ Target[<<m, x>>] = To[m]
  BY SagaBy
<1>2. Active(<<m, x>>) /\ saga[<<m, x>>].at # "new"
  BY DEF Where, Active, Ended
<1>3. Staged(<<m, x>>)
  BY <1>1, <1>2 DEF StagedOK
<1>4. saga[<<m, x>>].source \in {From[m], To[m]}
  BY <1>1, <1>2 DEF SelectionHolds
<1> QED
  BY <1>1, <1>3, <1>4 DEF Staged, Source

(* The migration that changes a record has its service in hand.            *)
LEMMA Changed ==
  ASSUME MTypeOK, NEW m \in Migrations, Together(m), Apply(m) \/ RevertRecord(m), NEW r \in Records,
         r \in DOMAIN mig[m].change
  PROVE  /\ Underway(m) /\ Owner(r) \in Group(m) /\ Owner(r) \in Services
         /\ Where(m, Owner(r)) = "healthy" /\ ~Settled(m, Owner(r))
<1>1. Underway(m) /\ mig[m].at \in {"dns", "revert"}
  BY DEF Apply, RevertRecord, At, Underway, Over
<1>2. Switching(m)
  BY DEF Apply, RevertRecord, At, Switching
<1>3. Owner(r) \in Group(m)
  BY DEF Together, ChangesOK
<1>4. Owner(r) \in mig[m].chosen /\ Owner(r) \in Services
  BY <1>3, LocalsType DEF Group
<1>5. Stands(m, Owner(r))
  BY <1>1, <1>4 DEF Together, StandsOK
<1>6. mig[m].group \notin mig[m].migrated
  BY <1>1 DEF Together, GroupsOK
<1> QED
  BY <1>1, <1>2, <1>3, <1>4, <1>5, <1>6 DEF Stands, Group, Settled

LEMMA SwitchedStep ==
  ASSUME MInv, StagedOK, \A m \in Migrations : Together(m) /\ ToTarget(m), SwitchedOK, MNext, NoOverlap'
  PROVE  SwitchedOK'
<1> SUFFICES ASSUME SelectionHolds', NEW m \in Migrations, Underway(m)'
             PROVE  Off(m)' /\ Known(m)'
  BY DEF SwitchedOK, Switched
<1>1. SelectionHolds /\ Safe({"overlap"}) /\ MTypeOK /\ Together(m) /\ ToTarget(m)
  BY Holds, SafeStays DEF NoOverlap, Safe, MInv
<1>2. Switched(m) /\ Deleted # From[m] /\ From[m] \in Servers
  BY <1>1, MigrationAssumption DEF SwitchedOK
<1>3. ASSUME Keeps(m), Underway(m), mig'[m].at \in Towards => mig[m].at \in Towards,
             \A r \in Records : points'[r] = From[m] => points[r] = From[m]
      PROVE  Off(m)' /\ Known(m)'
  <2>1. Off(m) /\ Known(m)
    BY <1>2, <1>3 DEF Switched, Keeps
  <2>2. Group(m)' = Group(m) /\ Left(m)' = Left(m) /\ \A x : Settled(m, x)' <=> Settled(m, x)
    BY <1>3 DEF Keeps, Group, Left, Settled
  <2>3. Off(m)'
    BY <1>3, <2>1, <2>2 DEF Off, Keeps
  <2>4. Known(m)'
    BY <1>3, <2>1, <2>2 DEF Known, Keeps
  <2> QED
    BY <2>3, <2>4
<1>4. CASE Around
  <2>1. Underway(m)
    BY <1>1, <1>4, UnderwayBefore DEF Around, MCrash, Expire, Lock, At, vars, Underway, Over, MTypeOK, Locals
  <2>2. Keeps(m) /\ points' = points /\ (mig'[m].at \in Towards => mig[m].at \in Towards)
    BY <1>1, <1>4, KeepsStep
  <2> QED
    BY <1>3, <2>1, <2>2
<1>5. ASSUME NEW n \in Migrations \ {m}, Select(n) \/ Advance(n)
      PROVE  Off(m)' /\ Known(m)'
  <2>1. mig'[m] = mig[m] /\ Together(n) /\ ToTarget(n)
    BY <1>1, <1>5, OthersApart DEF Together, Bystander
  <2>2. Keeps(m) /\ Underway(m)
    BY <2>1 DEF Keeps, Underway
  <2>3. \A r \in Records : points'[r] = From[m] => points[r] = From[m]
    <3>1. ASSUME NEW r \in Records, NEW c, Points(r, c), c # From[m]
          PROVE  \A q \in Records : points'[q] = From[m] => points[q] = From[m]
      BY <1>1, <3>1 DEF MTypeOK, Points
    <3>2. Underway(n) => From[m] # To[n] /\ From[m] # From[n]
      BY <2>2 DEF MInv, LocksOK, Pair
    <3>3. CASE Apply(n)
      <4>1. PICK r \in Left(n) : points' = points \/ Points(r, mig[n].change[r])
        BY <1>1, <3>3, ApplySteps
      <4>2. r \in DOMAIN mig[n].change /\ r \in Records
        BY <1>1, LocalsType DEF Left
      <4>3. Underway(n)
        BY <3>3 DEF Apply, At, Underway, Over
      <4>4. mig[n].change[r] # From[m]
        BY <1>2, <2>1, <3>2, <4>2, <4>3 DEF ToTarget
      <4> QED
        BY <3>1, <4>1, <4>2, <4>4
    <3>4. CASE RevertRecord(n)
      <4>1. PICK r \in mig[n].reverts : points' = points \/ Points(r, From[n])
        BY <1>1, <3>4, RevertSteps
      <4>2. r \in Records
        BY <1>1, LocalsType
      <4>3. Underway(n)
        BY <3>4 DEF RevertRecord, At, Underway, Over
      <4> QED
        BY <3>1, <3>2, <4>1, <4>2, <4>3
    <3>5. CASE Select(n)
      BY <3>5 DEF Select, Still, dns
    <3>6. CASE Advance(n) /\ ~Apply(n) /\ ~RevertRecord(n)
      BY <1>1, <2>1, <3>6, KeepsStep, AfreshSteps, AnalyzeSteps
    <3> QED
      BY <1>5, <3>3, <3>4, <3>5, <3>6
  <2> QED
    BY <1>3, <2>1, <2>2, <2>3
<1>6. CASE Select(m)
  BY <1>1, <1>6, SelectSteps DEF Underway, Over
<1>7. CASE Lock(m)
  <2>1. mig[m].migrated = {}
    BY <1>1, <1>7 DEF Lock, At, Together, GroupsOK, Unlocked
  <2>2. mig'[m].at \notin Towards /\ mig'[m].migrated = mig[m].migrated
    BY <1>1, <1>7, AfreshSteps DEF Lock, PublicCheck, At
  <2> QED
    BY <2>1, <2>2 DEF Off, Known, Settled
<1>8. ASSUME Advance(m), ~Lock(m)
      PROVE  Underway(m)
  BY <1>1, <1>8, UnderwayBefore, StaysUnderway DEF Unlock, At, Underway, Over
<1>9. CASE AllRolledBack(m)
  <2>1. /\ points' = points /\ mig'[m].at \notin Towards /\ mig'[m].chosen = mig[m].chosen
        /\ mig'[m].migrated = mig[m].migrated /\ mig[m].manualDns \subseteq mig'[m].manualDns
    BY <1>1, <1>9, AfreshSteps DEF AllRolledBack, PublicCheck, At
  <2>2. Off(m)
    BY <1>2, <1>8, <1>9, <2>1 DEF Switched, AllRolledBack, Lock, At, Advance
  <2> QED
    BY <2>1, <2>2 DEF Off, Known, Settled
<1>10. CASE PublicCheck(m) /\ mig' = [mig EXCEPT ![m] = NextGroup(m, Through(m))]
  <2>1. /\ points' = points /\ mig'[m].at \notin Towards /\ mig'[m].chosen = mig[m].chosen
        /\ mig'[m].migrated = mig[m].migrated \cup {mig[m].group}
        /\ mig[m].manualDns \cup mig[m].manual \subseteq mig'[m].manualDns
        /\ mig[m].at = "public"
    BY <1>1, <1>10, AfreshSteps
  <2>2. Off(m) /\ Known(m) /\ Left(m) = {}
    BY <1>1, <1>2, <2>1 DEF Switched, Underway, Over, Together, ChangesOK
  <2>3. \A r \in Records :
          Owner(r) \in Group(m) => points[r] # From[m] \/ DomainOf[r] \in mig'[m].manualDns
    BY <2>1, <2>2 DEF Known, Towards
  <2> QED
    BY <2>1, <2>2, <2>3 DEF Off, Known, Settled, Group
<1>11. CASE Analyze(m)
  <2>1. /\ mig[m].at = "prepare" /\ points' = points /\ mig'[m].chosen = mig[m].chosen
        /\ mig'[m].group = mig[m].group /\ mig'[m].migrated = mig[m].migrated
        /\ mig'[m].manualDns = mig[m].manualDns /\ mig'[m].reverts = mig[m].reverts
        /\ mig'[m].doing = mig[m].doing
        /\ \A r \in OnSource(m) : r \in DOMAIN mig'[m].change \/ DomainOf[r] \in mig'[m].manual
    BY <1>1, <1>11, AnalyzeSteps
  <2>2. Off(m)
    BY <1>2, <2>1 DEF Switched, Underway, Over
  <2>3. mig[m].reverts = {} /\ mig[m].doing = {}
    BY <1>1, <2>1 DEF Together, ChangesOK
  <2>4. Left(m)' = DOMAIN mig'[m].change /\ Group(m)' = Group(m)
    BY <2>1, <2>3 DEF Left, Group
  <2>5. \A r \in Records : Owner(r) \in Group(m) /\ points[r] = From[m] => r \in OnSource(m)
    BY DEF OnSource, DomainsOf, Domains, Owner
  <2>6. Known(m)'
    BY <2>1, <2>4, <2>5 DEF Known, Owner
  <2> QED
    BY <2>1, <2>2, <2>6 DEF Off, Settled
<1>12. CASE Apply(m)
  <2>1. mig[m].at = "dns" /\ Fixed(m)
    BY <1>1, <1>12, ApplySteps
  <2>2. PICK r \in Left(m) :
          /\ points' = points \/ Points(r, mig[m].change[r])
          /\ \/ mig'[m].at = "revert"
             \/ /\ Points(r, mig[m].change[r])
                /\ mig'[m].reverts \cup mig'[m].doing = mig[m].reverts \cup mig[m].doing \cup {r}
    BY <1>1, <1>12, ApplySteps
  <2>3. Off(m) /\ Known(m)
    BY <1>2, <2>1 DEF Switched, Underway, Over, Fixed
  <2>4. r \in DOMAIN mig[m].change /\ r \in Records
    BY <1>1, LocalsType DEF Left
  <2>5. Where(m, Owner(r)) = "healthy" /\ Owner(r) \in Services
    BY <1>1, <1>12, <2>4, Changed
  <2>6. mig[m].change[r] # From[m]
    BY <1>1, <1>2, <2>4, <2>5, FromNotTo DEF ToTarget
  <2>7. /\ \A q \in Records : points'[q] = From[m] => points[q] = From[m]
        /\ Points(r, mig[m].change[r]) => \A q \in Records : points'[q] = From[m] => q # r
    BY <1>1, <2>2, <2>4, <2>6 DEF MTypeOK, Points
  <2>8. Off(m)'
    BY <2>1, <2>3, <2>7 DEF Off, Fixed, Settled
  <2>9. Known(m)'
    <3>1. CASE mig'[m].at = "revert"
      BY <3>1 DEF Known, Towards
    <3>2. CASE /\ Points(r, mig[m].change[r])
               /\ mig'[m].reverts \cup mig'[m].doing = mig[m].reverts \cup mig[m].doing \cup {r}
      <4>1. Left(m)' = Left(m) \ {r} /\ Group(m)' = Group(m)
        BY <2>1, <3>2 DEF Left, Fixed, Group
      <4>2. \A q \in Records : Owner(q) \in Group(m) /\ points[q] = From[m] =>
                                q \in Left(m) \/ DomainOf[q] \in mig[m].manual
        BY <2>1, <2>3 DEF Known, Towards
      <4> QED
        BY <2>1, <2>7, <3>2, <4>1, <4>2 DEF Known, Fixed
    <3> QED
      BY <2>2, <3>1, <3>2
  <2> QED
    BY <2>8, <2>9
<1>13. CASE RevertRecord(m)
  <2>1. mig[m].at = "revert" /\ mig'[m].at = "revert" /\ Fixed(m)
    BY <1>1, <1>13, RevertSteps
  <2>2. PICK r \in mig[m].reverts : points' = points \/ Points(r, From[m])
    BY <1>1, <1>13, RevertSteps
  <2>3. Off(m)
    BY <1>2, <2>1 DEF Switched, Underway, Over, Fixed
  <2>4. r \in DOMAIN mig[m].change /\ r \in Records
    BY <1>1, LocalsType DEF Together, ChangesOK
  <2>5. ~Settled(m, Owner(r))
    BY <1>1, <1>13, <2>4, Changed
  <2>6. \A q \in Records : q # r => points'[q] = points[q]
    BY <1>1, <2>2, <2>4 DEF MTypeOK, Points
  <2>7. Off(m)'
    BY <2>1, <2>3, <2>5, <2>6 DEF Off, Fixed, Settled
  <2> QED
    BY <2>1, <2>7 DEF Known, Towards
<1>14. CASE /\ Advance(m) /\ ~Lock(m) /\ ~Analyze(m) /\ ~Apply(m) /\ ~RevertRecord(m) /\ ~AllRolledBack(m)
            /\ ~(PublicCheck(m) /\ mig' = [mig EXCEPT ![m] = NextGroup(m, Through(m))])
  BY <1>1, <1>3, <1>8, <1>14, KeepsStep
<1> QED
  BY <1>4, <1>5, <1>6, <1>7, <1>9, <1>10, <1>11, <1>12, <1>13, <1>14 DEF MNext

-----------------------------------------------------------------------------
(* A record that was alone at the source in its domain stays there until   *)
(* its environment is through, or is to be changed back.                   *)
Untouched(m, x) == \A n \in Migrations \ {m} : Where(n, x) = "new"

Aloof(m, r) == \A q \in RecordsOf(DomainOf[r]) \ {r} : points[q] = Zone[q] /\ q \notin DOMAIN mig[m].change
There(m, r) == points[r] = From[m] \/ r \in mig[m].reverts \/ Settled(m, Owner(r))

KeptOK ==
  Safe({"lost", "revert"}) =>
    \A m \in Migrations : \A r \in Records :
      Untouched(m, Owner(r)) /\ Zone[r] = From[m] /\ Lone(r) => Aloof(m, r) /\ There(m, r)

(* A transfer does not become new again.                                   *)
LEMMA NewBefore ==
  ASSUME MTypeOK, MNext, NEW t \in Sagas, saga'[t].at = "new"
  PROVE  saga[t].at = "new"
<1>0. TypeOK
  BY DEF MTypeOK
<1>1. ASSUME NEW u \in Sagas, Saga(u)
      PROVE  saga[t].at = "new"
  <2>1. CASE u # t
    BY <1>0, <1>1, <2>1, Frame
  <2>2. CASE u = t
    BY <1>0, <1>1, <2>2, TransferSteps, DriveEffect DEF Saga, Prepare
  <2> QED
    BY <2>1, <2>2
<1>2. CASE Outside
  BY <1>0, <1>2 DEF Outside, StartBuild, EndBuild, Write, Crash, TypeOK
<1>3. ASSUME NEW m \in Migrations, Directs(m)
      PROVE  saga[t].at = "new"
  BY <1>3, DirectsSteps
<1> QED
  BY <1>1, <1>2, <1>3, StepKinds DEF Next, Saga

LEMMA KeptStep ==
  ASSUME MTypeOK, \A m \in Migrations : Together(m), KeptOK, MNext
  PROVE  KeptOK'
<1> SUFFICES ASSUME Safe({"lost", "revert"})', NEW m \in Migrations, NEW r \in Records,
                    Untouched(m, Owner(r))', Zone[r] = From[m], Lone(r)
             PROVE  Aloof(m, r)' /\ There(m, r)'
  <2>1. \A p : Owner(p)' = Owner(p) /\ (Lone(p)' <=> Lone(p))
    BY DEF Owner, Lone, RecordsOf
  <2> QED
    BY <2>1 DEF KeptOK
<1>1. DomainOf[r] \in Domains /\ Owner(r) \in Services
  BY MigrationAssumption DEF Domains, Owner
<1>2. Untouched(m, Owner(r))
  <2> SUFFICES ASSUME NEW n \in Migrations \ {m}
               PROVE  Where(n, Owner(r)) = "new"
    BY DEF Untouched
  <2>1. <<n, Owner(r)>> \in Sagas /\ saga'[<<n, Owner(r)>>].at = "new"
    BY <1>1, SagaBy DEF Untouched, Where, Owner
  <2> QED
    BY <2>1, NewBefore DEF Where
<1>3. Aloof(m, r) /\ There(m, r) /\ Together(m)
  BY <1>2, SafeStays DEF KeptOK
<1>4. ~Strike("lost") /\ ~Strike("revert")
  BY DEF Safe, Strike
<1>5. ASSUME mig'[m].change = mig[m].change, mig[m].reverts \subseteq mig'[m].reverts,
             mig'[m].migrated = mig[m].migrated,
             \A q \in RecordsOf(DomainOf[r]) : points'[q] = points[q]
      PROVE  Aloof(m, r)' /\ There(m, r)'
  <2>1. r \in RecordsOf(DomainOf[r]) /\ RecordsOf(DomainOf[r])' = RecordsOf(DomainOf[r])
    BY DEF RecordsOf
  <2> QED
    BY <1>3, <1>5, <2>1 DEF Aloof, There, Settled, Owner
<1>6. CASE Around
  BY <1>5, <1>6, KeepsStep DEF Keeps
<1>7. ASSUME NEW n \in Migrations \ {m}, Select(n) \/ Advance(n)
      PROVE  Aloof(m, r)' /\ There(m, r)'
  <2>1. mig'[m] = mig[m] /\ Together(n)
    BY <1>7, OthersApart DEF Together, Bystander
  <2>2. ASSUME Apply(n) \/ RevertRecord(n), NEW w \in DOMAIN mig[n].change, NEW c,
               Points(w, c)
        PROVE  \A q \in RecordsOf(DomainOf[r]) : points'[q] = points[q]
    <3>1. w \in Records
      BY LocalsType
    <3>2. Where(n, Owner(w)) = "healthy"
      BY <2>1, <2>2, <3>1, Changed
    <3>3. Owner(w) # Owner(r)
      BY <1>2, <3>2 DEF Untouched
    <3>4. w \notin RecordsOf(DomainOf[r])
      BY <3>3 DEF RecordsOf, Owner
    <3> QED
      BY <2>2, <3>1, <3>4 DEF Points, MTypeOK, RecordsOf
  <2>3. \A q \in RecordsOf(DomainOf[r]) : points'[q] = points[q]
    <3>1. CASE Apply(n)
      <4>1. PICK w \in Left(n) : points' = points \/ Points(w, mig[n].change[w])
        BY <3>1, ApplySteps
      <4> QED
        BY <2>2, <3>1, <4>1 DEF Left
    <3>2. CASE RevertRecord(n)
      <4>1. PICK w \in mig[n].reverts : points' = points \/ Points(w, From[n])
        BY <3>2, RevertSteps
      <4>2. w \in DOMAIN mig[n].change
        BY <2>1 DEF Together, ChangesOK
      <4> QED
        BY <2>2, <3>2, <4>1, <4>2
    <3>3. CASE Select(n)
      BY <3>3, SelectSteps DEF dns
    <3>4. CASE Advance(n) /\ ~Apply(n) /\ ~RevertRecord(n)
      BY <2>1, <3>4, KeepsStep, AfreshSteps, AnalyzeSteps
    <3> QED
      BY <1>7, <3>1, <3>2, <3>3, <3>4
  <2> QED
    BY <1>5, <2>1, <2>3
<1>8. CASE Select(m)
  BY <1>5, <1>8, SelectSteps DEF dns
<1>9. CASE \/ Lock(m) \/ AllRolledBack(m)
           \/ (PublicCheck(m) /\ mig' = [mig EXCEPT ![m] = NextGroup(m, Through(m))])
  <2>1. /\ points' = points /\ mig'[m].change = <<>>
        /\ IF PublicCheck(m) /\ mig' = [mig EXCEPT ![m] = NextGroup(m, Through(m))]
             THEN mig'[m].migrated = mig[m].migrated \cup {mig[m].group}
             ELSE mig'[m].migrated = mig[m].migrated /\ mig[m].reverts = {}
    BY <1>3, <1>9, AfreshSteps
  <2>2. Aloof(m, r)'
    BY <1>3, <2>1 DEF Aloof, RecordsOf
  <2>3. There(m, r)'
    <3>1. CASE r \in mig[m].reverts
      <4>1. EnvOf[Owner(r)] = mig[m].group
        BY <1>3, <3>1 DEF Together, ChangesOK, Group
      <4> QED
        BY <2>1, <3>1, <4>1 DEF There, Settled, Owner
    <3>2. CASE r \notin mig[m].reverts
      BY <1>3, <2>1, <3>2 DEF There, Settled, Owner
    <3> QED
      BY <3>1, <3>2
  <2> QED
    BY <2>2, <2>3
<1>10. CASE Analyze(m)
  <2>1. /\ points' = points /\ mig'[m].migrated = mig[m].migrated /\ mig'[m].reverts = mig[m].reverts
        /\ DOMAIN mig'[m].change \subseteq OnSource(m)
    BY <1>10, AnalyzeSteps
  <2>2. \A q \in RecordsOf(DomainOf[r]) \ {r} : q \notin OnSource(m)
    BY <1>3 DEF Aloof, Lone, OnSource
  <2>3. Aloof(m, r)'
    BY <1>3, <2>1, <2>2 DEF Aloof, RecordsOf
  <2>4. There(m, r)'
    BY <1>3, <2>1 DEF There, Settled, Owner
  <2> QED
    BY <2>3, <2>4
<1>11. ASSUME NEW w \in DOMAIN mig[m].change
       PROVE  w \in RecordsOf(DomainOf[r]) => w = r
  BY <1>3 DEF Aloof
<1>12. ASSUME NEW w \in DOMAIN mig[m].change, NEW c, points' = points \/ Points(w, c)
       PROVE  \A q \in RecordsOf(DomainOf[r]) : q # w => points'[q] = points[q]
  BY <1>12 DEF Points, MTypeOK, RecordsOf
<1>13. CASE Apply(m)
  <2>0. Fixed(m)
    BY <1>13, ApplySteps
  <2>1. PICK w \in Left(m) :
          \/ /\ Points(w, mig[m].change[w])
             /\ IF RecordsOf(DomainOf[w]) \cap Left(m) = {w}
                  THEN mig'[m].reverts = mig[m].reverts \cup mig[m].doing \cup {w}
                  ELSE mig'[m].reverts = mig[m].reverts
          \/ points' = points /\ mig'[m].reverts = mig[m].reverts
    BY <1>4, <1>13, ApplySteps
  <2>2. w \in DOMAIN mig[m].change /\ mig[m].reverts \subseteq mig'[m].reverts
    BY <2>1 DEF Left
  <2>3. CASE w # r \/ points' = points
    <3>1. w \notin RecordsOf(DomainOf[r]) \/ points' = points
      BY <1>11, <2>2, <2>3
    <3>2. \A q \in RecordsOf(DomainOf[r]) : points'[q] = points[q]
      BY <1>12, <2>1, <2>2, <3>1
    <3> QED
      BY <1>5, <2>0, <2>2, <3>2 DEF Fixed
  <2>4. CASE w = r /\ points' # points
    <3>1. RecordsOf(DomainOf[r]) \cap Left(m) = {r}
      BY <1>11, <2>4 DEF Left, RecordsOf
    <3>2. r \in mig'[m].reverts
      BY <2>1, <2>4, <3>1
    <3>3. \A q \in RecordsOf(DomainOf[r]) \ {r} : points'[q] = points[q]
      BY <1>12, <2>1, <2>2, <2>4
    <3>4. Aloof(m, r)'
      BY <1>3, <2>0, <3>3 DEF Aloof, Fixed, RecordsOf
    <3> QED
      BY <3>2, <3>4 DEF There
  <2> QED
    BY <2>3, <2>4
<1>14. CASE RevertRecord(m)
  <2>1. Fixed(m)
    BY <1>14, RevertSteps
  <2>2. PICK w \in mig[m].reverts : Points(w, From[m]) /\ mig'[m].reverts = mig[m].reverts \ {w}
    BY <1>4, <1>14, RevertSteps
  <2>3. w \in DOMAIN mig[m].change /\ w \in Records
    BY <1>3, LocalsType DEF Together, ChangesOK
  <2>4. \A q \in RecordsOf(DomainOf[r]) \ {r} : points'[q] = points[q]
    BY <1>11, <1>12, <2>2, <2>3
  <2>5. Aloof(m, r)'
    BY <1>3, <2>1, <2>4 DEF Aloof, Fixed, RecordsOf
  <2>6. There(m, r)'
    <3>1. CASE w = r
      BY <2>2, <2>3, <3>1 DEF There, Points, MTypeOK
    <3>2. CASE w # r
      <4>1. points'[r] = points[r]
        BY <2>2, <2>3, <3>2 DEF Points, MTypeOK
      <4> QED
        BY <1>3, <2>1, <2>2, <3>2, <4>1 DEF There, Fixed, Settled, Owner
    <3> QED
      BY <3>1, <3>2
  <2> QED
    BY <2>5, <2>6
<1>15. CASE /\ Advance(m) /\ ~Lock(m) /\ ~Analyze(m) /\ ~Apply(m) /\ ~RevertRecord(m) /\ ~AllRolledBack(m)
            /\ ~(PublicCheck(m) /\ mig' = [mig EXCEPT ![m] = NextGroup(m, Through(m))])
  BY <1>5, <1>15, KeepsStep DEF Keeps
<1> QED
  BY <1>6, <1>7, <1>8, <1>9, <1>10, <1>13, <1>14, <1>15 DEF MNext

-----------------------------------------------------------------------------
(* The whole invariant, and what it says of the environments.              *)
TInv ==
  /\ MInv /\ StagedOK /\ RestOK /\ SwitchedOK /\ KeptOK
  /\ \A m \in Migrations : Together(m) /\ ToTarget(m)

LEMMA TInvStep ==
  ASSUME TInv, MNext
  PROVE  TInv'
<1>1. MInv'
  BY AdvanceTypes, AroundTypes, OneTransferMStep, LocksStep, SagasStep, RecordsStep, NoOverlapStep
     DEF TInv, MInv, MNext
<1>2. \A m \in Migrations : Together(m)' /\ ToTarget(m)'
  BY TogetherStep, ToTargetStep DEF TInv, MInv
<1>3. StagedOK' /\ RestOK'
  BY <1>1, StagedMStep, RestStep DEF TInv, MInv
<1>4. SwitchedOK' /\ KeptOK'
  BY <1>1, SwitchedStep, KeptStep DEF TInv, MInv
<1> QED
  BY <1>1, <1>2, <1>3, <1>4 DEF TInv

LEMMA TInvStutters ==
  ASSUME TInv, UNCHANGED mvars
  PROVE  TInv'
<1>1. UNCHANGED <<shape, record, status, present, running, fresh, saga, building, struck, mig,
                  points, visits, activeServers>>
  BY DEF mvars, vars, world, dns
<1>2. MInv'
  BY <1>1 DEF TInv, MInv, MTypeOK, TypeOK, OneTransfer, Safe, LocksOK, Pair, SagasOK, Held, InHand, Group,
              Underway, Active, RecordsOK, NoOverlap, SelectionHolds
<1>3. \A m \in Migrations : Together(m)' /\ ToTarget(m)'
  BY <1>1, Aside DEF TInv, MInv, Bystander, ToTarget
<1>4. StagedOK' /\ RestOK'
  BY <1>1 DEF TInv, StagedOK, Staged, RestOK, Rest, Safe, Active, Underway, SelectionHolds, Source,
              Record, Run, Stateful
<1>5. SwitchedOK'
  BY <1>1 DEF TInv, SwitchedOK, SelectionHolds, Switched, Underway, Off, Known, Settled, Group, Left
<1>6. KeptOK'
  BY <1>1 DEF TInv, KeptOK, Safe, Untouched, Where, Aloof, There, Settled, RecordsOf, Lone, Owner
<1> QED
  BY <1>2, <1>3, <1>4, <1>5, <1>6 DEF TInv

LEMMA TInvInit ==
  ASSUME MInit, MInv
  PROVE  TInv
<1>1. \A m \in Migrations : mig[m] = NoMigration
  BY DEF MInit
<1>2. \A t \in Sagas : saga[t].at = "new"
  BY DEF MInit, Init, NoSaga
<1>3. ASSUME NEW m \in Migrations
      PROVE  Together(m) /\ ToTarget(m) /\ ~Underway(m)
  <2>1. /\ mig[m].at = "new" /\ mig[m].staged = <<>> /\ mig[m].committed = <<>> /\ mig[m].migrated = {}
        /\ mig[m].change = <<>> /\ mig[m].reverts = {} /\ mig[m].doing = {}
    BY <1>1 DEF NoMigration
  <2>2. ~Underway(m)
    BY <2>1 DEF Underway
  <2> QED
    BY <2>1, <2>2, RangeOfNone DEF Together, GroupsOK, ChangesOK, StandsOK, ToTarget
<1>4. StagedOK
  BY <1>2 DEF StagedOK, Active
<1>5. RestOK /\ SwitchedOK
  BY <1>3, SagaOf DEF RestOK, SwitchedOK, Switched
<1>6. KeptOK
  <2>1. points = Zone /\ \A m \in Migrations : mig[m].change = <<>>
    BY <1>1 DEF MInit, NoMigration
  <2> QED
    BY <2>1 DEF KeptOK, Aloof, There
<1> QED
  BY <1>3, <1>4, <1>5, <1>6 DEF TInv

LEMMA TogetherFollows ==
  ASSUME TInv
  PROVE  EnvironmentTogether
<1> SUFFICES ASSUME NEW m \in Migrations, Underway(m), SelectionHolds, NEW x \in mig[m].chosen
             PROVE  /\ Settled(m, x) =>
                         /\ record[x] = To[m] /\ To[m] \in running[x]
                         /\ \A r \in Records : Owner(r) = x /\ points[r] = From[m] =>
                              DomainOf[r] \in mig[m].manualDns
                    /\ Passed(m, x) /\ ~Settled(m, x) =>
                         /\ Where(m, x) # "new" /\ saga[<<m, x>>].source = From[m] /\ Safe({"db"})
                              => record[x] = From[m]
                         /\ Untouched(m, x) /\ Safe({"lost", "revert"}) =>
                              \A r \in Records : Owner(r) = x /\ Zone[r] = From[m] /\ Lone(r)
                                => points[r] = From[m]
  BY DEF EnvironmentTogether, Settled, Passed, Where, Untouched, Owner
<1> DEFINE t == <<m, x>>
<1>1. /\ t \in Sagas /\ x \in Services /\ Subject[t] = x /\ Target[t] = To[m] /\ t[1] = m
      /\ saga[t] \in StagedTransfer
  BY LocalsType, SagaBy DEF TInv, MInv, MTypeOK, TypeOK, StagedTransfer
<1>2. Stands(m, x) /\ Rest(t) /\ Switched(m) /\ (Active(t) => Staged(t))
  <2>1. Safe({"overlap"})
    BY DEF TInv, MInv, NoOverlap, Safe
  <2> QED
    BY <1>1, <2>1 DEF TInv, Together, StandsOK, RestOK, SwitchedOK, StagedOK
<1>3. ASSUME Settled(m, x)
      PROVE  record[x] = To[m] /\ To[m] \in running[x]
  <2>1. saga[t].at \in Kept
    BY <1>2, <1>3 DEF Stands, Where
  <2> QED
    BY <1>1, <1>2, <2>1
       DEF Kept, Closing, Rest, Staged, Moved, Up, Record, Run, Active, Ended
<1>4. ASSUME Settled(m, x), NEW r \in Records, Owner(r) = x, points[r] = From[m]
      PROVE  DomainOf[r] \in mig[m].manualDns
  BY <1>2, <1>4 DEF Switched, Off
<1>5. ASSUME Passed(m, x), ~Settled(m, x), Where(m, x) # "new", saga[t].source = From[m], Safe({"db"})
      PROVE  record[x] = From[m]
  <2>1. saga[t].at \in {"undone", "stuck", "rejected"}
    BY <1>1, <1>2, <1>5 DEF Stands, Where, Closing, Active, Ended, StagedTransfer
  <2> QED
    BY <1>1, <1>2, <1>5, <2>1 DEF Rest, Record, Source
<1>6. ASSUME Passed(m, x), ~Settled(m, x), Untouched(m, x), Safe({"lost", "revert"}),
             NEW r \in Records, Owner(r) = x, Zone[r] = From[m], Lone(r)
      PROVE  points[r] = From[m]
  <2>1. There(m, r)
    BY <1>6 DEF TInv, KeptOK
  <2>2. r \notin mig[m].reverts
    <3>1. ChangesOK(m) /\ EnvOf[x] \in Nat /\ mig[m].group \in Nat
      BY <1>1, LocalsType, MigrationAssumption DEF TInv, MInv, Together
    <3>2. CASE mig[m].at \in {"drain", "commit"}
      BY <3>1, <3>2 DEF ChangesOK
    <3>3. CASE EnvOf[x] < mig[m].group
      <4>1. x \notin Group(m)
        BY <3>1, <3>3 DEF Group
      <4> QED
        BY <1>6, <3>1, <4>1 DEF ChangesOK
    <3> QED
      BY <1>6, <3>2, <3>3 DEF Passed
  <2> QED
    BY <1>6, <2>1, <2>2 DEF There
<1> QED
  BY <1>3, <1>4, <1>5, <1>6

(* While a migration goes on, an environment that is through is on the     *)
(* target with all its services and none of its records at the source, but *)
(* those of domains that the user is told to update; one that failed is on *)
(* the source again with every service that was found there, and so is its *)
(* record (server-migration.ts, migrateServer).                            *)
THEOREM EnvironmentsSwitch == MSpec => []EnvironmentTogether
<1>1. MInit /\ MInv => TInv
  BY TInvInit
<1>2. TInv /\ [MNext]_mvars => TInv'
  BY TInvStep, TInvStutters
<1>3. TInv => EnvironmentTogether
  BY TogetherFollows
<1> QED
  BY <1>1, <1>2, <1>3, MInvariance, PTL DEF MSpec

-----------------------------------------------------------------------------
(* The behaviours in which visitors are promised to be served.             *)
Cuts == {"crash", "db", "dns", "partly", "lost", "public", "revert", "ttl"}

Ordinary ==
  SelectionHolds /\ Safe(Cuts) /\ \A r \in Records : Lone(r)

(* Resolvers give out what the records say.                                *)
VisitsOK == \A r \in Records : points[r] # Deleted => points[r] \in visits[DomainOf[r]]

(* The records of a domain point to different servers, every planned       *)
(* change can be made, and none has to be changed back.                    *)
Spread ==
  \A q, r \in Records :
    DomainOf[q] = DomainOf[r] /\ q # r /\ points[q] = points[r] => points[r] = Deleted

Planned(m) ==
  mig[m].at \in Towards =>
    \A r \in Left(m) :
      /\ points[r] = From[m] /\ ~Duplicates(r, mig[m].change[r])
      /\ RecordsOf(DomainOf[r]) = {r} => mig[m].change[r] # Deleted

Unreverted(m) == mig[m].at = "revert" => mig[m].reverts = {}

PlansOK == Ordinary => Spread /\ \A m \in Migrations : Planned(m) /\ Unreverted(m)

(* A stateless service whose domain pointed to its first server only is    *)
(* visited where its record is, or on its way through a migration, where   *)
(* that has brought the record of its domain, and at the source as well    *)
(* until the drain is over.                                                *)
Single(r) == Zone[r] = Home /\ RecordsOf(DomainOf[r]) = {r} /\ ~shape[Owner(r)].stateful
Idle(x) == \A t \in Sagas : Subject[t] = x => ~Active(t)
Visits(r) == visits[DomainOf[r]]

Routed(m, r) ==
  /\ r \notin mig[m].doing
  /\ Where(m, Owner(r)) \in Closing => mig[m].at = "commit"
  /\ IF r \in mig[m].reverts \/ Settled(m, Owner(r))
       THEN /\ points[r] = To[m] /\ Visits(r) \subseteq {From[m], To[m]}
            /\ mig[m].at = "commit" => Visits(r) \subseteq {To[m]}
            /\ Settled(m, Owner(r)) => r \in mig[m].moved
       ELSE points[r] = From[m] /\ Visits(r) \subseteq {From[m]}

Addressed(r) ==
  /\ Idle(Owner(r)) => points[r] = record[Owner(r)] /\ Visits(r) \subseteq {record[Owner(r)]}
  /\ \A m \in Migrations : Active(<<m, Owner(r)>>) => Routed(m, r)

(* No user was told to update the domain.                                  *)
Unasked(r) == \A m \in Migrations : DomainOf[r] \notin mig[m].manualDns

AddressOK == Ordinary => \A r \in Records : Single(r) /\ Unasked(r) => Addressed(r)

(* A migration does not become new again.                                  *)
LEMMA NewStays ==
  ASSUME MTypeOK, \A m \in Migrations : Together(m), MNext,
         NEW m \in Migrations, mig'[m].at = "new"
  PROVE  mig'[m] = mig[m]
<1>1. CASE Around
  <2>1. CASE \E d \in Domains : Expire(d)
    BY <2>1 DEF Expire
  <2>2. CASE MCrash
    <3>1. mig'[m] = IF mig[m].at \in Over \cup {"new"} THEN mig[m] ELSE [mig[m] EXCEPT !.at = "dead"]
      BY <2>2 DEF MCrash
    <3>2. mig[m] \in Locals
      BY DEF MTypeOK
    <3>3. [mig[m] EXCEPT !.at = "dead"].at = "dead"
      BY <3>2 DEF Locals
    <3> QED
      BY <3>1, <3>3
  <2> QED
    BY <1>1, <2>1, <2>2 DEF Around
<1>2. ASSUME NEW n \in Migrations \ {m}, Select(n) \/ Advance(n)
      PROVE  mig'[m] = mig[m]
  BY <1>2, OthersApart DEF Together, Bystander
<1>3. CASE Select(m)
  BY <1>3, SelectSteps
<1>4. CASE Lock(m)
  <2>1. CASE Turn(m, "refused")
    BY <2>1, TurnsAll
  <2>2. CASE mig' = [mig EXCEPT ![m] = NextGroup(m, @)]
    <3>1. mig'[m] = NextGroup(m, mig[m]) /\ mig[m] \in Locals
      BY <2>2 DEF MTypeOK
    <3> QED
      BY <3>1, NextGroupOf
  <2> QED
    BY <1>4, <2>1, <2>2 DEF Lock
<1>5. CASE Unlock(m)
  BY <1>5, TurnsAll DEF Unlock
<1>6. CASE Advance(m) /\ ~Lock(m) /\ ~Unlock(m)
  BY <1>6, StaysUnderway DEF Underway
<1> QED
  BY <1>1, <1>2, <1>3, <1>4, <1>5, <1>6 DEF MNext

(* What the premises were before.                                          *)
LEMMA OrdinaryBefore ==
  ASSUME MTypeOK, \A m \in Migrations : Together(m), MNext, Ordinary'
  PROVE  Ordinary
<1>1. SelectionHolds
  BY Holds DEF Ordinary
<1>2. Safe(Cuts)
  <2>1. Safe(Cuts)'
    BY DEF Ordinary, Cuts
  <2> QED
    BY <2>1, SafeStays DEF Cuts
<1>3. \A r \in Records : Lone(r)
  BY DEF Ordinary, Lone, RecordsOf
<1> QED
  BY <1>1, <1>2, <1>3 DEF Ordinary

(* What a user was told stays told.                                        *)
LEMMA UnaskedBefore ==
  ASSUME MTypeOK, \A m \in Migrations : Together(m), MNext, NEW r \in Records, Unasked(r)'
  PROVE  Unasked(r)
<1> SUFFICES ASSUME NEW m \in Migrations
             PROVE  mig[m].manualDns \subseteq mig'[m].manualDns
  BY DEF Unasked
<1>1. CASE Around
  BY <1>1, KeepsStep DEF Keeps
<1>2. ASSUME NEW n \in Migrations \ {m}, Select(n) \/ Advance(n)
      PROVE  mig[m].manualDns \subseteq mig'[m].manualDns
  BY <1>2, OthersApart DEF Together, Bystander
<1>3. CASE Select(m)
  BY <1>3, SelectSteps
<1>4. CASE \/ Lock(m) \/ AllRolledBack(m)
           \/ (PublicCheck(m) /\ mig' = [mig EXCEPT ![m] = NextGroup(m, Through(m))])
  BY <1>4, AfreshSteps
<1>5. CASE Analyze(m)
  BY <1>5, AnalyzeSteps
<1>6. CASE Apply(m)
  BY <1>6, ApplySteps DEF Fixed
<1>7. CASE RevertRecord(m)
  BY <1>7, RevertSteps DEF Fixed
<1>8. CASE /\ Advance(m) /\ ~Lock(m) /\ ~Analyze(m) /\ ~Apply(m) /\ ~RevertRecord(m) /\ ~AllRolledBack(m)
           /\ ~(PublicCheck(m) /\ mig' = [mig EXCEPT ![m] = NextGroup(m, Through(m))])
  BY <1>8, KeepsStep DEF Keeps
<1> QED
  BY <1>1, <1>2, <1>3, <1>4, <1>5, <1>6, <1>7, <1>8 DEF MNext

-----------------------------------------------------------------------------
(* A record is set, and resolvers learn it.                                *)
LEMMA Learned ==
  ASSUME MTypeOK, NEW r \in Records, NEW c \in Servers \cup {Deleted}, SetRecord(r, c), NEW q \in Records
  PROVE  /\ points'[q] = IF q = r THEN c ELSE points[q]
         /\ IF DomainOf[q] = DomainOf[r]
              THEN visits'[DomainOf[q]] = visits[DomainOf[q]]
                                            \cup ({ points'[p] : p \in RecordsOf(DomainOf[r]) } \ {Deleted})
              ELSE visits'[DomainOf[q]] = visits[DomainOf[q]]
<1>1. DomainOf[q] \in Domains /\ DomainOf[r] \in Domains
  BY DEF Domains
<1>2. points'[q] = IF q = r THEN c ELSE points[q]
  BY DEF SetRecord, Set, MTypeOK
<1>3. visits' = [visits EXCEPT ![DomainOf[r]] =
                   visits[DomainOf[r]] \cup ({ points'[p] : p \in RecordsOf(DomainOf[r]) } \ {Deleted})]
  BY DEF SetRecord, Set
<1>4. visits \in [Domains -> SUBSET Servers]
  BY DEF MTypeOK
<1> QED
  BY <1>1, <1>2, <1>3, <1>4

LEMMA LeftRecords ==
  ASSUME MTypeOK, NEW m \in Migrations, NEW r \in Left(m)
  PROVE  /\ r \in Records /\ r \in DOMAIN mig[m].change
         /\ mig[m].change[r] \in Servers \cup {Deleted}
         /\ r \notin mig[m].reverts /\ r \notin mig[m].doing
BY LocalsType DEF Left

(* The steps that change records or what resolvers know.                   *)
LEMMA DnsKept ==
  ASSUME MTypeOK, NEW m \in Migrations, Select(m) \/ Advance(m), ~Apply(m), ~RevertRecord(m)
  PROVE  points' = points /\ (visits' = visits \/ Drain(m))
<1>1. CASE Select(m) \/ Lock(m) \/ PrepareService(m) \/ Analyze(m) \/ StageNext(m) \/ AllStaged(m)
  BY <1>1 DEF Select, Lock, PrepareService, Analyze, StageNext, AllStaged, Still, dns
<1>2. CASE HealthNext(m) \/ AllHealthy(m) \/ TransferStep(m) \/ TransferFails(m) \/ Probe(m)
  BY <1>2 DEF HealthNext, AllHealthy, TransferStep, TransferFails, Probe, Still, dns
<1>3. CASE AllApplied(m) \/ PublicCheck(m) \/ AllReverted(m) \/ RollbackNext(m) \/ AllRolledBack(m)
  BY <1>3 DEF AllApplied, PublicCheck, AllReverted, RollbackNext, AllRolledBack, Still, dns
<1>4. CASE CommitNext(m) \/ Unlock(m)
  BY <1>4 DEF CommitNext, Unlock, dns
<1>5. CASE Drain(m)
  BY <1>5 DEF Drain
<1> QED
  BY <1>1, <1>2, <1>3, <1>4, <1>5 DEF Advance

(* What is left of a domain's addresses when resolvers have forgotten.     *)
Forgotten(d) == visits'[d] = visits[d] \/ visits'[d] = { points[r] : r \in RecordsOf(d) } \ {Deleted}

LEMMA DrainForgets ==
  ASSUME MTypeOK, NEW m \in Migrations, Drain(m), NEW d \in Domains
  PROVE  Forgotten(d) /\ points' = points
<1>1. points' = points
  BY DEF Drain
<1>2. CASE UNCHANGED visits
  BY <1>1, <1>2 DEF Forgotten
<1>3. CASE visits' = [e \in Domains |-> IF RecordsOf(e) \cap mig[m].moved # {}
                                          THEN { points[r] : r \in RecordsOf(e) } \ {Deleted}
                                          ELSE visits[e]]
  BY <1>1, <1>3 DEF Forgotten
<1> QED
  BY <1>2, <1>3 DEF Drain

LEMMA ExpireForgets ==
  ASSUME MTypeOK, NEW e \in Domains, Expire(e), NEW d \in Domains
  PROVE  Forgotten(d) /\ points' = points
<1>1. visits' = [visits EXCEPT ![e] = { points[r] : r \in RecordsOf(e) } \ {Deleted}] /\ points' = points
  BY DEF Expire, Set
<1>2. visits \in [Domains -> SUBSET Servers]
  BY DEF MTypeOK
<1> QED
  BY <1>1, <1>2 DEF Forgotten

LEMMA DnsSteps ==
  ASSUME MTypeOK, MNext
  PROVE  \/ points' = points /\ \A d \in Domains : Forgotten(d)
         \/ \E m \in Migrations, r \in Records, c \in Servers \cup {Deleted} :
              /\ Apply(m) \/ RevertRecord(m)
              /\ r \in DOMAIN mig[m].change \cup mig[m].reverts
              /\ SetRecord(r, c)
<1>1. CASE Around
  <2>1. CASE MCrash
    BY <2>1 DEF MCrash, dns, Forgotten
  <2> QED
    BY <1>1, <2>1, ExpireForgets DEF Around
<1>2. ASSUME NEW m \in Migrations, Select(m) \/ Advance(m), ~Apply(m), ~RevertRecord(m)
      PROVE  points' = points /\ \A d \in Domains : Forgotten(d)
  BY <1>2, DnsKept, DrainForgets DEF Forgotten
<1>3. ASSUME NEW m \in Migrations, Apply(m)
      PROVE  \/ points' = points /\ \A d \in Domains : Forgotten(d)
             \/ \E r \in Left(m) : SetRecord(r, mig[m].change[r])
  BY <1>3 DEF Apply, dns, Forgotten
<1>4. ASSUME NEW m \in Migrations, RevertRecord(m)
      PROVE  \/ points' = points /\ \A d \in Domains : Forgotten(d)
             \/ \E r \in mig[m].reverts : SetRecord(r, From[m])
  BY <1>4 DEF RevertRecord, dns, Forgotten
<1>5. ASSUME NEW m \in Migrations
      PROVE  From[m] \in Servers \cup {Deleted} /\ mig[m].reverts \subseteq Records
  BY LocalsType, MigrationAssumption
<1> QED
  BY <1>1, <1>2, <1>3, <1>4, <1>5, LeftRecords DEF MNext

(* Resolvers never miss a new address.                                     *)
LEMMA VisitsStep ==
  ASSUME MTypeOK, VisitsOK, MNext
  PROVE  VisitsOK'
<1> SUFFICES ASSUME NEW q \in Records, points'[q] # Deleted
             PROVE  points'[q] \in visits'[DomainOf[q]]
  BY DEF VisitsOK
<1>1. DomainOf[q] \in Domains /\ q \in RecordsOf(DomainOf[q])
  BY DEF Domains, RecordsOf
<1>2. CASE points' = points /\ Forgotten(DomainOf[q])
  BY <1>1, <1>2 DEF Forgotten, VisitsOK
<1>3. ASSUME NEW r \in Records, NEW c \in Servers \cup {Deleted}, SetRecord(r, c)
      PROVE  points'[q] \in visits'[DomainOf[q]]
  <2>1. /\ points'[q] = IF q = r THEN c ELSE points[q]
        /\ IF DomainOf[q] = DomainOf[r]
             THEN visits'[DomainOf[q]] = visits[DomainOf[q]]
                                           \cup ({ points'[p] : p \in RecordsOf(DomainOf[r]) } \ {Deleted})
             ELSE visits'[DomainOf[q]] = visits[DomainOf[q]]
    BY <1>3, Learned
  <2> QED
    BY <1>1, <2>1 DEF VisitsOK
<1> QED
  BY <1>1, <1>2, <1>3, DnsSteps

-----------------------------------------------------------------------------
(* As long as every change can be made, it is made.                        *)
Made(m, r) ==
  /\ SetRecord(r, mig[m].change[r])
  /\ IF RecordsOf(DomainOf[r]) \cap Left(m) = {r}
       THEN mig'[m].reverts = mig[m].reverts \cup mig[m].doing \cup {r} /\ mig'[m].doing = {}
       ELSE mig'[m].reverts = mig[m].reverts /\ mig'[m].doing = mig[m].doing \cup {r}

LEMMA ApplyMakes ==
  ASSUME MTypeOK, NEW m \in Migrations, Apply(m), Planned(m), Safe(Cuts)'
  PROVE  /\ mig[m].at = "dns" /\ mig'[m].at = "dns" /\ mig'[m].moved = mig[m].moved
         /\ Fixed(m) /\ Others(m) /\ UNCHANGED <<saga, world, shape>>
         /\ \E r \in Left(m) : Made(m, r)
<1>1. /\ mig[m].at = "dns" /\ UNCHANGED <<saga, world, shape>> /\ mig \in [Migrations -> Locals]
      /\ mig[m] \in Locals
  BY DEF Apply, At, MTypeOK
<1>2. \A r \in Left(m) : ~Duplicates(r, mig[m].change[r])
  BY <1>1 DEF Planned, Towards
<1>3. ~Strike("dns") /\ ~Strike("partly") /\ ~Strike("lost")
  BY DEF Strike, Safe, Cuts
<1>4. PICK r \in Left(m) :
        /\ SetRecord(r, mig[m].change[r])
        /\ mig' = IF RecordsOf(DomainOf[r]) \cap Left(m) = {r}
                    THEN [mig EXCEPT ![m].doing = {}, ![m].reverts = @ \cup (mig[m].doing \cup {r})]
                    ELSE [mig EXCEPT ![m].doing = mig[m].doing \cup {r}]
  BY <1>2, <1>3 DEF Apply
<1>5. CASE RecordsOf(DomainOf[r]) \cap Left(m) = {r}
  <2>1. mig'[m] = [mig[m] EXCEPT !.doing = {}, !.reverts = mig[m].reverts \cup (mig[m].doing \cup {r})]
        /\ Others(m)
    BY <1>1, <1>4, <1>5 DEF Locals, Others
  <2>2. /\ mig'[m].at = "dns" /\ mig'[m].reverts = mig[m].reverts \cup mig[m].doing \cup {r}
        /\ mig'[m].doing = {} /\ mig'[m].moved = mig[m].moved /\ Fixed(m)
    BY <1>1, <2>1 DEF Locals, Fixed
  <2> QED
    BY <1>1, <1>4, <1>5, <2>1, <2>2 DEF Made
<1>6. CASE RecordsOf(DomainOf[r]) \cap Left(m) # {r}
  <2>1. mig'[m] = [mig[m] EXCEPT !.doing = mig[m].doing \cup {r}] /\ Others(m)
    BY <1>1, <1>4, <1>6 DEF Locals, Others
  <2>2. /\ mig'[m].at = "dns" /\ mig'[m].reverts = mig[m].reverts
        /\ mig'[m].doing = mig[m].doing \cup {r} /\ mig'[m].moved = mig[m].moved /\ Fixed(m)
    BY <1>1, <2>1 DEF Locals, Fixed
  <2> QED
    BY <1>1, <1>4, <1>6, <2>1, <2>2 DEF Made
<1> QED
  BY <1>5, <1>6

(* What was done is no longer left.                                        *)
LEMMA MadeLeaves ==
  ASSUME NEW m \in Migrations, NEW r \in Left(m), Made(m, r), Fixed(m)
  PROVE  Left(m)' \subseteq Left(m) \ {r}
BY DEF Made, Left, Fixed

(* The domain of a record is changed by the migration that has its service *)
(* in hand.                                                                *)
LEMMA ChangedBy ==
  ASSUME TInv, Ordinary, NEW m \in Migrations, NEW n \in Migrations, NEW x \in Services,
         Active(<<m, x>>), Active(<<n, x>>)
  PROVE  m = n
<1>1. Safe({"overlap"})
  BY DEF TInv, MInv, NoOverlap, Ordinary, Safe
<1>2. /\ <<m, x>> \in Sagas /\ Subject[<<m, x>>] = x
      /\ <<n, x>> \in Sagas /\ Subject[<<n, x>>] = x
  BY SagaBy
<1>3. <<m, x>> = <<n, x>>
  BY <1>1, <1>2 DEF TInv, MInv, OneTransfer
<1> QED
  BY <1>3

(* While a migration is on its way to the target its services are in its   *)
(* hands.                                                                  *)
LEMMA TowardsActive ==
  ASSUME TInv, NEW m \in Migrations, mig[m].at \in Towards, NEW x \in Group(m)
  PROVE  x \in Services /\ Active(<<m, x>>)
<1>1. MTypeOK /\ Together(m)
  BY DEF TInv, MInv
<1>2. x \in mig[m].chosen /\ x \in Services
  BY <1>1, LocalsType DEF Group
<1>3. Underway(m)
  BY DEF Towards, Underway, Over
<1>4. Stands(m, x)
  BY <1>1, <1>2, <1>3 DEF Together, StandsOK
<1>5. Where(m, x) \in Forward
  BY <1>4 DEF Stands, Towards, Switching, Forward
<1> QED
  BY <1>2, <1>5 DEF Where, Forward, Active, Ended

(* Where a transfer that goes on comes from.                               *)
LEMMA Leaves ==
  ASSUME TInv, Ordinary, NEW m \in Migrations, NEW x \in Services, Active(<<m, x>>)
  PROVE  /\ Staged(<<m, x>>) /\ saga[<<m, x>>].source = From[m] /\ From[m] # To[m]
         /\ Underway(m) /\ x \in mig[m].chosen /\ Stands(m, x)
<1>1. Safe({"overlap"})
  BY DEF TInv, MInv, NoOverlap, Ordinary, Safe
<1>2. <<m, x>> \in Sagas /\ Target[<<m, x>>] = To[m]
  BY SagaBy
<1>3. Staged(<<m, x>>)
  BY <1>1, <1>2 DEF TInv, StagedOK
<1>4. saga[<<m, x>>].source \in {From[m], To[m]}
  BY <1>2 DEF Ordinary, SelectionHolds, Active
<1>5. Underway(m) /\ x \in mig[m].chosen
  BY <1>2 DEF TInv, MInv, SagasOK, Held, Active
<1>6. Stands(m, x)
  BY <1>5 DEF TInv, Together, StandsOK
<1> QED
  BY <1>2, <1>3, <1>4, <1>5, <1>6 DEF Staged, Source

-----------------------------------------------------------------------------
(* No change has to be undone.                                             *)
LEMMA NoCrash ==
  ASSUME Safe(Cuts)', Around
  PROVE  \E d \in Domains : Expire(d)
BY DEF Around, MCrash, Crash, Strike, Safe, Cuts

LEMMA NoRevert ==
  ASSUME MTypeOK, NEW m \in Migrations, Unreverted(m)
  PROVE  ~RevertRecord(m)
BY DEF Unreverted, RevertRecord, At

LEMMA UnrevertedStep ==
  ASSUME TInv, Ordinary, PlansOK, MNext, Safe(Cuts)', NEW m \in Migrations
  PROVE  Unreverted(m)'
<1>0. MTypeOK /\ Together(m) /\ Planned(m) /\ Unreverted(m)
  BY DEF TInv, MInv, PlansOK
<1> SUFFICES ASSUME mig'[m].at = "revert"
             PROVE  mig'[m].reverts = {}
  BY DEF Unreverted
<1>1. CASE mig'[m] = mig[m]
  BY <1>0, <1>1 DEF Unreverted
<1>2. CASE Around
  BY <1>1, <1>2, NoCrash DEF Expire
<1>3. ASSUME NEW n \in Migrations \ {m}, Select(n) \/ Advance(n)
      PROVE  mig'[m].reverts = {}
  <2>1. MTypeOK /\ GroupsOK(n)
    BY DEF TInv, MInv, Together
  <2>2. Bystander(m)
    BY <1>3, <2>1, OthersApart
  <2> QED
    BY <1>1, <2>2 DEF Bystander
<1>4. CASE Select(m)
  BY <1>0, <1>4, SelectSteps
<1>5. CASE \/ Lock(m) \/ AllRolledBack(m)
           \/ (PublicCheck(m) /\ mig' = [mig EXCEPT ![m] = NextGroup(m, Through(m))])
  BY <1>0, <1>5, AfreshSteps
<1>6. CASE Analyze(m)
  BY <1>0, <1>6, AnalyzeSteps
<1>7. CASE Apply(m)
  BY <1>0, <1>7, ApplyMakes
<1>8. ~RevertRecord(m)
  BY <1>0, NoRevert
<1>9. CASE /\ Advance(m) /\ ~Lock(m) /\ ~Analyze(m) /\ ~Apply(m) /\ ~RevertRecord(m) /\ ~AllRolledBack(m)
           /\ ~(PublicCheck(m) /\ mig' = [mig EXCEPT ![m] = NextGroup(m, Through(m))])
  <2>1. mig'[m].reverts = mig[m].reverts
    BY <1>0, <1>9, KeepsStep DEF Keeps
  <2>2. CASE mig[m].at \in {"prepare", "stage", "health", "probe", "rollback", "drain", "commit"}
    BY <1>0, <2>1, <2>2 DEF Together, ChangesOK
  <2>3. CASE PublicCheck(m)
    BY <1>9, <2>3 DEF PublicCheck, Strike, Safe, Cuts
  <2>4. ~AllApplied(m) /\ ~AllReverted(m)
    BY <1>0, TurnsAll DEF AllApplied, AllReverted
  <2>5. PrepareService(m) \/ StageNext(m) \/ AllStaged(m) \/ AllHealthy(m) => <2>2!1
    BY DEF PrepareService, StageNext, AllStaged, AllHealthy, At
  <2>6. HealthNext(m) \/ TransferStep(m) \/ TransferFails(m) \/ Probe(m) => <2>2!1
    BY DEF HealthNext, TransferStep, TransferFails, Probe, At
  <2>7. RollbackNext(m) \/ Drain(m) \/ CommitNext(m) \/ Unlock(m) => <2>2!1
    BY DEF RollbackNext, Drain, CommitNext, Unlock, At
  <2> QED
    BY <1>9, <2>2, <2>3, <2>4, <2>5, <2>6, <2>7 DEF Advance
<1> QED
  BY <1>2, <1>3, <1>4, <1>5, <1>6, <1>7, <1>8, <1>9 DEF MNext

(* Records of a domain stay apart.                                         *)
LEMMA SpreadStep ==
  ASSUME TInv, Ordinary, PlansOK, MNext, Safe(Cuts)'
  PROVE  Spread'
<1>0. MTypeOK /\ Spread
  BY DEF TInv, MInv, PlansOK
<1>1. CASE points' = points
  BY <1>0, <1>1 DEF Spread
<1>2. ASSUME NEW m \in Migrations, Apply(m)
      PROVE  Spread'
  <2>1. Planned(m)
    BY DEF PlansOK
  <2>2. PICK r \in Left(m) : Made(m, r)
    BY <1>0, <1>2, <2>1, ApplyMakes
  <2>3. mig[m].at \in Towards
    BY <1>2 DEF Apply, At, Towards
  <2>4. ~Duplicates(r, mig[m].change[r])
    BY <2>1, <2>3 DEF Planned
  <2>5. \A q \in Records : points'[q] = IF q = r THEN mig[m].change[r] ELSE points[q]
    BY <1>0, <2>2, Learned, LeftRecords DEF Made
  <2>6. \A q \in Records : q # r /\ DomainOf[q] = DomainOf[r] /\ points[q] = mig[m].change[r]
          => mig[m].change[r] = Deleted
    BY <2>4 DEF Duplicates, RecordsOf
  <2> QED
    BY <1>0, <2>5, <2>6 DEF Spread
<1>3. \A m \in Migrations : ~RevertRecord(m)
  BY <1>0, NoRevert DEF PlansOK
<1> QED
  BY <1>0, <1>1, <1>2, <1>3, DnsSteps

(* Plans remain feasible: nobody else changes the records of their         *)
(* domains.                                                                *)
LEMMA OthersRecords ==
  ASSUME TInv, Ordinary, NEW m \in Migrations, NEW n \in Migrations \ {m}, mig[m].at \in Towards,
         NEW r \in Left(m), Apply(n), NEW q \in Left(n)
  PROVE  DomainOf[q] # DomainOf[r]
<1>0. MTypeOK /\ Together(m) /\ Together(n)
  BY DEF TInv, MInv
<1> SUFFICES ASSUME DomainOf[q] = DomainOf[r]
             PROVE  FALSE
  OBVIOUS
<1>1. Owner(q) = Owner(r)
  BY DEF Owner
<1>2. Owner(r) \in Services /\ Active(<<m, Owner(r)>>)
  <2>1. Owner(r) \in Group(m)
    BY <1>0, LeftRecords DEF Together, ChangesOK
  <2> QED
    BY <2>1, TowardsActive
<1>3. Owner(q) \in Services /\ Where(n, Owner(q)) = "healthy"
  BY <1>0, Changed, LeftRecords
<1>4. Active(<<n, Owner(r)>>)
  BY <1>1, <1>3 DEF Active, Where, Ended
<1> QED
  BY <1>2, <1>4, ChangedBy

(* A record that is not touched is as it was planned.                      *)
Untold(m, r) ==
  /\ points'[r] = points[r] /\ mig'[m].change[r] = mig[m].change[r]
  /\ \A q \in RecordsOf(DomainOf[r]) : points'[q] = points[q]

PlannedOf(m, r) ==
  /\ points[r] = From[m] /\ ~Duplicates(r, mig[m].change[r])
  /\ RecordsOf(DomainOf[r]) = {r} => mig[m].change[r] # Deleted

LEMMA UntoldStays ==
  ASSUME NEW m \in Migrations, NEW r \in Records, PlannedOf(m, r), Untold(m, r)
  PROVE  PlannedOf(m, r)'
<1>1. Duplicates(r, mig[m].change[r])' => Duplicates(r, mig[m].change[r])
  BY DEF Untold, Duplicates, RecordsOf
<1>2. RecordsOf(DomainOf[r])' = RecordsOf(DomainOf[r])
  BY DEF RecordsOf
<1> QED
  BY <1>1, <1>2 DEF PlannedOf, Untold

LEMMA PlannedStep ==
  ASSUME TInv, Ordinary, PlansOK, MNext, Safe(Cuts)', NEW m \in Migrations
  PROVE  Planned(m)'
<1>0. MTypeOK /\ Together(m) /\ Planned(m) /\ Spread
  BY DEF TInv, MInv, PlansOK
<1> SUFFICES ASSUME mig'[m].at \in Towards, NEW r \in Left(m)'
             PROVE  PlannedOf(m, r)'
  <2>1. \A q \in Left(m)' : PlannedOf(m, q)' =>
          /\ points'[q] = From[m] /\ ~Duplicates(q, mig[m].change[q])'
          /\ RecordsOf(DomainOf[q])' = {q} => mig'[m].change[q] # Deleted
    BY DEF PlannedOf
  <2> QED
    BY <2>1 DEF Planned
<1>1. ASSUME mig[m].at \in Towards, r \in Left(m), Untold(m, r)
      PROVE  PlannedOf(m, r)'
  <2>1. PlannedOf(m, r)
    BY <1>0, <1>1 DEF Planned, PlannedOf
  <2>2. r \in Records
    BY <1>0, <1>1, LeftRecords
  <2> QED
    BY <1>1, <2>1, <2>2, UntoldStays
<1>2. ASSUME mig[m].at \in Towards, mig'[m].change = mig[m].change,
             mig'[m].reverts = mig[m].reverts, mig'[m].doing = mig[m].doing, points' = points
      PROVE  PlannedOf(m, r)'
  BY <1>1, <1>2 DEF Left, Untold
<1>3. CASE Around
  BY <1>0, <1>2, <1>3, KeepsStep DEF Keeps
<1>4. ASSUME NEW n \in Migrations \ {m}, Select(n) \/ Advance(n)
      PROVE  PlannedOf(m, r)'
  <2>1. MTypeOK /\ GroupsOK(n) /\ Planned(n) /\ Unreverted(n)
    BY DEF TInv, MInv, Together, PlansOK
  <2>2. mig'[m] = mig[m]
    BY <1>4, <2>1, OthersApart DEF Bystander
  <2>3. CASE ~Apply(n)
    BY <1>2, <1>4, <2>1, <2>2, <2>3, DnsKept, NoRevert
  <2>4. CASE Apply(n)
    <3>1. PICK q \in Left(n) : Made(n, q)
      BY <2>1, <2>4, ApplyMakes
    <3>2. r \in Left(m)
      BY <2>2 DEF Left
    <3>3. DomainOf[q] # DomainOf[r]
      BY <2>2, <2>4, <3>2, OthersRecords
    <3>4. \A p \in Records : p # q => points'[p] = points[p]
      BY <2>1, <3>1, Learned, LeftRecords DEF Made
    <3>5. r \in Records
      BY <2>1, <3>2, LeftRecords
    <3>6. Untold(m, r)
      BY <2>2, <3>3, <3>4, <3>5 DEF Untold, RecordsOf
    <3> QED
      BY <1>1, <2>2, <3>2, <3>6
  <2> QED
    BY <2>3, <2>4
<1>5. CASE Select(m)
  BY <1>0, <1>5, SelectSteps DEF Towards
<1>6. CASE \/ Lock(m) \/ AllRolledBack(m)
           \/ (PublicCheck(m) /\ mig' = [mig EXCEPT ![m] = NextGroup(m, Through(m))])
  BY <1>0, <1>6, AfreshSteps
<1>7. CASE Analyze(m)
  <2>1. /\ mig[m].at = "prepare" /\ points' = points
        /\ DOMAIN mig'[m].change \subseteq OnSource(m)
        /\ \A q \in DOMAIN mig'[m].change : mig'[m].change[q] = NewContent(m, q)
        /\ Waiting(m, "new") = {}
    BY <1>0, <1>7, AnalyzeSteps DEF Analyze
  <2>2. r \in DOMAIN mig'[m].change
    BY DEF Left
  <2>3. r \in OnSource(m) /\ mig'[m].change[r] = NewContent(m, r)
    BY <2>1, <2>2
  <2>4. r \in Records /\ points[r] = From[m] /\ Owner(r) \in Group(m)
    BY <2>3 DEF OnSource, DomainsOf, Owner
  <2>5. From[m] # To[m]
    <3>1. Owner(r) \in mig[m].chosen /\ Owner(r) \in Services /\ Underway(m)
      BY <1>0, <2>1, <2>4, LocalsType DEF Group, Underway, Over
    <3>2. Where(m, Owner(r)) \in {"new", "prepared"}
      BY <1>0, <2>1, <2>4, <3>1 DEF Together, StandsOK, Stands
    <3>3. Where(m, Owner(r)) # "new"
      BY <2>1, <2>4 DEF Waiting, Where
    <3>4. Active(<<m, Owner(r)>>)
      BY <3>2, <3>3 DEF Where, Active, Ended
    <3> QED
      BY <3>1, <3>4, Leaves
  <2>6. NewContent(m, r) # Deleted => \A q \in RecordsOf(DomainOf[r]) : points[q] # To[m]
    BY DEF NewContent, PointsTo
  <2>7. NewContent(m, r) \in {To[m], Deleted}
    BY DEF NewContent
  <2>8. ~Duplicates(r, NewContent(m, r))
    BY <2>6, <2>7 DEF Duplicates
  <2>9. RecordsOf(DomainOf[r]) = {r} => NewContent(m, r) # Deleted
    <3>1. To[m] # Deleted
      BY MigrationAssumption
    <3> QED
      BY <2>4, <2>5, <3>1 DEF NewContent, PointsTo
  <2>10. Duplicates(r, mig[m].change[r])' => Duplicates(r, NewContent(m, r))
    BY <2>1, <2>3 DEF Duplicates, RecordsOf
  <2>11. RecordsOf(DomainOf[r])' = RecordsOf(DomainOf[r])
    BY DEF RecordsOf
  <2> QED
    BY <2>1, <2>3, <2>4, <2>8, <2>9, <2>10, <2>11 DEF PlannedOf
<1>8. CASE Apply(m)
  <2>1. Fixed(m) /\ mig[m].at = "dns"
    BY <1>0, <1>8, ApplyMakes
  <2>2. PICK q \in Left(m) : Made(m, q)
    BY <1>0, <1>8, ApplyMakes
  <2>3. r \in Left(m) \ {q}
    BY <2>1, <2>2, MadeLeaves
  <2>4. r \in Records /\ q \in Records
    BY <1>0, <2>3, LeftRecords
  <2>5. points[r] = From[m] /\ points[q] = From[m]
    BY <1>0, <2>1, <2>3 DEF Planned, Towards
  <2>6. DomainOf[q] # DomainOf[r]
    BY <1>0, <2>3, <2>4, <2>5, MigrationAssumption DEF Spread
  <2>7. \A p \in Records : p # q => points'[p] = points[p]
    BY <1>0, <2>2, Learned, LeftRecords DEF Made
  <2>8. Untold(m, r)
    BY <2>1, <2>4, <2>6, <2>7 DEF Untold, RecordsOf, Fixed
  <2> QED
    BY <1>1, <2>1, <2>3, <2>8 DEF Towards
<1>9. ~RevertRecord(m)
  BY <1>0, NoRevert DEF PlansOK
<1>10. CASE /\ Advance(m) /\ ~Lock(m) /\ ~Analyze(m) /\ ~Apply(m) /\ ~RevertRecord(m) /\ ~AllRolledBack(m)
            /\ ~(PublicCheck(m) /\ mig' = [mig EXCEPT ![m] = NextGroup(m, Through(m))])
  BY <1>0, <1>2, <1>10, KeepsStep DEF Keeps
<1> QED
  BY <1>3, <1>4, <1>5, <1>6, <1>7, <1>8, <1>9, <1>10 DEF MNext

LEMMA PlansStep ==
  ASSUME TInv, PlansOK, MNext
  PROVE  PlansOK'
<1> SUFFICES ASSUME Ordinary'
             PROVE  Spread' /\ \A m \in Migrations : Planned(m)' /\ Unreverted(m)'
  BY DEF PlansOK
<1>1. Ordinary /\ Safe(Cuts)'
  <2>1. Safe(Cuts)'
    BY DEF Ordinary, Cuts
  <2>2. MTypeOK /\ \A m \in Migrations : Together(m)
    BY DEF TInv, MInv
  <2> QED
    BY <2>1, <2>2, OrdinaryBefore
<1> QED
  BY <1>1, SpreadStep, PlannedStep, UnrevertedStep

-----------------------------------------------------------------------------
(* What a step leaves alone of a service that its migration does not       *)
(* transfer.                                                               *)
LEMMA ShapeStays ==
  ASSUME MTypeOK, MNext
  PROVE  shape' = shape
<1>1. CASE Next
  <2>1. CASE Outside
    BY <2>1 DEF Outside, StartBuild, EndBuild, Write, Crash
  <2>2. ASSUME NEW t \in Sagas, Saga(t)
        PROVE  shape' = shape
    BY <2>2, Frame DEF MTypeOK
  <2> QED
    BY <1>1, <2>1, <2>2 DEF Next, Saga
<1>2. CASE ~Next
  BY <1>2, StepKinds
<1> QED
  BY <1>1, <1>2

LEMMA SettledSaga ==
  ASSUME NEW m \in Migrations, Proceeds(m)
  PROVE  UNCHANGED <<world, saga>>
BY DEF Proceeds, Select, Lock, Analyze, AllStaged, AllHealthy, TransferFails, Probe, Apply,
       AllApplied, PublicCheck, RevertRecord, AllReverted, Drain, Unlock, Still, vars

LEMMA RecordStays ==
  ASSUME MTypeOK, NEW m \in Migrations, Select(m) \/ Advance(m), NEW x \in Services,
         ~Active(<<m, x>>) \/ ~TransferStep(m)
  PROVE  record'[x] = record[x]
<1>1. CASE Proceeds(m)
  BY <1>1, SettledSaga DEF world
<1>2. CASE PrepareService(m)
  BY <1>2, PrepareSteps DEF world
<1>3. CASE StageNext(m) \/ HealthNext(m) \/ RollbackNext(m) \/ AllRolledBack(m) \/ CommitNext(m)
  BY <1>3 DEF StageNext, HealthNext, RollbackNext, AllRolledBack, CommitNext, world
<1>4. CASE TransferStep(m)
  <2>1. PICK y \in Services : Step(<<m, y>>)
    BY <1>4 DEF TransferStep
  <2>2. /\ <<m, y>> \in Sagas /\ Subject[<<m, y>>] = y
        /\ Active(<<m, y>>) /\ \A z \in Services \ {Subject[<<m, y>>]} : record'[z] = record[z]
    BY <2>1, SagaBy, TransferSteps DEF MTypeOK
  <2> QED
    BY <1>4, <2>2
<1> QED
  BY <1>1, <1>2, <1>3, <1>4 DEF Advance, Proceeds

(* The record of a domain is set for its service, or stays; resolvers may  *)
(* forget.                                                                 *)
Undisturbed(r) == points'[r] = points[r] /\ Visits(r)' \subseteq Visits(r) \cup {points[r]}
Touched(m, r) == Apply(m) /\ r \in Left(m) /\ Made(m, r)

LEMMA ForgottenStays ==
  ASSUME NEW r \in Records, RecordsOf(DomainOf[r]) = {r}, points' = points, Forgotten(DomainOf[r])
  PROVE  Undisturbed(r)
BY DEF Undisturbed, Visits, Forgotten

LEMMA DnsOf ==
  ASSUME TInv, PlansOK, Ordinary, Safe(Cuts)', NEW m \in Migrations, Select(m) \/ Advance(m),
         NEW r \in Records, RecordsOf(DomainOf[r]) = {r}
  PROVE  Undisturbed(r) \/ Touched(m, r)
<1>0. MTypeOK /\ Planned(m) /\ Unreverted(m) /\ DomainOf[r] \in Domains
  BY DEF TInv, MInv, PlansOK, Domains
<1>1. CASE ~Apply(m)
  <2>1. points' = points /\ (visits' = visits \/ Drain(m))
    BY <1>0, <1>1, DnsKept, NoRevert
  <2>2. Forgotten(DomainOf[r])
    BY <1>0, <2>1, DrainForgets DEF Forgotten
  <2> QED
    BY <2>1, <2>2, ForgottenStays
<1>2. CASE Apply(m)
  <2>1. PICK q \in Left(m) : Made(m, q)
    BY <1>0, <1>2, ApplyMakes
  <2>2. CASE q = r
    BY <1>2, <2>1, <2>2 DEF Touched
  <2>3. CASE q # r
    <3>1. q \in Records /\ mig[m].change[q] \in Servers \cup {Deleted}
      BY <1>0, LeftRecords
    <3>2. DomainOf[q] # DomainOf[r]
      BY <2>3, <3>1 DEF RecordsOf
    <3>3. points'[r] = points[r] /\ visits'[DomainOf[r]] = visits[DomainOf[r]]
      BY <1>0, <2>1, <2>3, <3>1, <3>2, Learned DEF Made
    <3> QED
      BY <3>3 DEF Undisturbed, Visits
  <2> QED
    BY <2>2, <2>3
<1> QED
  BY <1>1, <1>2

(* A migration that has nothing to do with it leaves the way as it is.     *)
LEMMA RoutedAside ==
  ASSUME NEW m \in Migrations, NEW r \in Records, Owner(r) \in Services, Undisturbed(r), Routed(m, r),
         mig'[m] = mig[m], saga'[<<m, Owner(r)>>] = saga[<<m, Owner(r)>>]
  PROVE  Routed(m, r)'
<1>1. (Settled(m, Owner(r))' <=> Settled(m, Owner(r))) /\ Where(m, Owner(r))' = Where(m, Owner(r))
  BY DEF Settled, Where, Owner
<1> QED
  BY <1>1 DEF Routed, Undisturbed, Owner

(* What most steps of a migration keep.                                    *)
Steady(m) ==
  /\ mig'[m].reverts = mig[m].reverts /\ mig'[m].doing = mig[m].doing
  /\ mig'[m].migrated = mig[m].migrated /\ mig'[m].moved = mig[m].moved
  /\ mig'[m].at = "commit" <=> mig[m].at = "commit"

LEMMA SteadyTurn ==
  ASSUME MTypeOK, NEW m \in Migrations, NEW v, Turn(m, v), v # "commit", mig[m].at # "commit"
  PROVE  Steady(m)
BY DEF MTypeOK, Turn, Locals, Steady

LEMMA SteadySteps ==
  ASSUME MTypeOK, NEW m \in Migrations, Advance(m), ~Lock(m), ~Apply(m), ~RevertRecord(m),
         ~AllRolledBack(m), ~Drain(m), ~Unlock(m),
         ~(PublicCheck(m) /\ mig' = [mig EXCEPT ![m] = NextGroup(m, Through(m))])
  PROVE  Steady(m)
<1>1. CASE mig' = mig
  BY <1>1 DEF Steady
<1>2. CASE PrepareService(m)
  BY <1>1, <1>2, SteadyTurn DEF PrepareService, At
<1>3. CASE Analyze(m)
  <2>1. PICK c, h : mig' = [mig EXCEPT ![m] = [mig[m] EXCEPT !.at = "stage", !.change = c, !.manual = h]]
    BY <1>3, Analyzed
  <2>2. mig[m].at = "prepare"
    BY <1>3 DEF Analyze, At
  <2> QED
    BY <2>1, <2>2 DEF MTypeOK, Locals, Steady
<1>4. CASE StageNext(m)
  <2>1. PICK x : mig' = [mig EXCEPT ![m].staged = Append(@, <<m, x>>)]
    BY <1>4 DEF StageNext
  <2> QED
    BY <2>1 DEF MTypeOK, Locals, Steady
<1>5. CASE AllStaged(m) \/ AllHealthy(m) \/ TransferFails(m)
  BY <1>5, SteadyTurn DEF AllStaged, AllHealthy, TransferFails, At
<1>6. CASE Probe(m) \/ AllApplied(m) \/ AllReverted(m)
  BY <1>6, SteadyTurn DEF Probe, AllApplied, AllReverted, At
<1>7. CASE HealthNext(m) \/ TransferStep(m) \/ RollbackNext(m) \/ CommitNext(m)
  BY <1>1, <1>7 DEF HealthNext, TransferStep, RollbackNext, CommitNext
<1>8. CASE PublicCheck(m)
  <2>1. mig[m].at # "commit" /\ Turn(m, "revert")
    BY <1>8 DEF PublicCheck, At
  <2> QED
    BY <2>1, SteadyTurn
<1> QED
  BY <1>2, <1>3, <1>4, <1>5, <1>6, <1>7, <1>8 DEF Advance

(* Old copies are cleaned up in the commit only.                           *)
LEMMA ClosingBy ==
  ASSUME MTypeOK, NEW m \in Migrations, GroupsOK(m), Select(m) \/ Advance(m), NEW x \in Services,
         Where(m, x)' \in Closing, Where(m, x) \notin Closing
  PROVE  mig[m].at = "commit" /\ mig' = mig
<1>0. <<m, x>> \in Sagas
  BY SagaBy
<1>1. CASE Proceeds(m)
  BY <1>1, SettledSaga DEF Where
<1>2. CASE Directs(m)
  <2>1. saga'[<<m, x>>] # saga[<<m, x>>]
    BY DEF Where
  <2>2. saga'[<<m, x>>].at \notin Closing
    BY <1>0, <1>2, <2>1, DirectsSteps DEF Closing
  <2> QED
    BY <2>2 DEF Where
<1>3. CASE TransferStep(m)
  <2>1. PICK y \in Services : Step(<<m, y>>)
    BY <1>3 DEF TransferStep
  <2>2. <<m, y>> \in Sagas /\ \A u \in Sagas \ {<<m, y>>} : saga'[u] = saga[u]
    BY <2>1, SagaBy, TransferSteps DEF MTypeOK
  <2>3. saga[<<m, y>>].at \notin Closing => saga'[<<m, y>>].at \notin Closing
    BY <2>1, <2>2, StepWhere DEF MTypeOK
  <2> QED
    BY <1>0, <2>2, <2>3 DEF Where
<1>4. CASE HealthNext(m)
  <2>1. PICK i \in DOMAIN mig[m].staged : Go(mig[m].staged[i], "check")
    BY <1>4 DEF HealthNext
  <2>2. saga'[<<m, x>>] = saga[<<m, x>>] \/ saga'[<<m, x>>].at = "check"
    BY <1>0, <2>1 DEF Go, MTypeOK, TypeOK
  <2> QED
    BY <2>2 DEF Where, Closing
<1>5. CASE CommitNext(m)
  BY <1>5 DEF CommitNext, At
<1> QED
  BY <1>1, <1>2, <1>3, <1>4, <1>5 DEF Advance, Proceeds, Directs

-----------------------------------------------------------------------------
(* A service on its way stays on the way: what holds of its record.        *)
LEMMA SteadyRoute ==
  ASSUME TInv, NEW m \in Migrations, Select(m) \/ Advance(m), NEW r \in Records, Undisturbed(r),
         Routed(m, r), Steady(m)
  PROVE  Routed(m, r)'
<1>0. MTypeOK /\ GroupsOK(m) /\ Owner(r) \in Services
  BY MigrationAssumption DEF TInv, MInv, Together, Owner, Domains
<1>1. Settled(m, Owner(r))' <=> Settled(m, Owner(r))
  BY DEF Settled, Steady, Owner
<1>2. Where(m, Owner(r))' \in Closing => mig'[m].at = "commit"
  BY <1>0, ClosingBy DEF Steady, Routed, Where, Owner
<1> QED
  BY <1>1, <1>2 DEF Routed, Undisturbed, Steady, Owner

(* The record is changed, and resolvers know both addresses.               *)
LEMMA TouchedRoute ==
  ASSUME TInv, PlansOK, Ordinary, Safe(Cuts)', NEW m \in Migrations, NEW r \in Records,
         RecordsOf(DomainOf[r]) = {r}, Touched(m, r), Routed(m, r)
  PROVE  Routed(m, r)'
<1>0. MTypeOK /\ Together(m) /\ Planned(m) /\ ToTarget(m)
  BY DEF TInv, MInv, PlansOK
<1>1. /\ mig[m].at = "dns" /\ mig'[m].at = "dns" /\ mig'[m].moved = mig[m].moved
      /\ Fixed(m) /\ saga' = saga
  BY <1>0, ApplyMakes DEF Touched
<1>2. /\ r \in DOMAIN mig[m].change /\ mig[m].change[r] \in Servers \cup {Deleted}
      /\ r \notin mig[m].reverts
  BY <1>0, LeftRecords DEF Touched
<1>3. mig[m].change[r] = To[m] /\ To[m] # Deleted
  BY <1>0, <1>1, <1>2, MigrationAssumption DEF Touched, Planned, Towards, ToTarget
<1>4. Owner(r) \in Services /\ Where(m, Owner(r)) = "healthy" /\ ~Settled(m, Owner(r))
  BY <1>0, <1>2, Changed DEF Touched
<1>5. mig'[m].doing = {} /\ r \in mig'[m].reverts
  BY DEF Touched, Made
<1>6. points'[r] = To[m] /\ Visits(r)' = Visits(r) \cup {To[m]}
  <2>1. SetRecord(r, mig[m].change[r])
    BY DEF Touched, Made
  <2>2. /\ points'[r] = To[m]
        /\ visits'[DomainOf[r]] = visits[DomainOf[r]] \cup ({ points'[p] : p \in RecordsOf(DomainOf[r]) } \ {Deleted})
    BY <1>0, <1>2, <1>3, <2>1, Learned
  <2>3. { points'[p] : p \in RecordsOf(DomainOf[r]) } = {To[m]}
    BY <2>2
  <2> QED
    BY <1>3, <2>2, <2>3 DEF Visits
<1>7. Visits(r) \subseteq {From[m]}
  BY <1>2, <1>4 DEF Routed
<1>8. ~Settled(m, Owner(r))' /\ Where(m, Owner(r))' = "healthy"
  BY <1>1, <1>4 DEF Settled, Where, Fixed, Owner
<1> QED
  BY <1>1, <1>5, <1>6, <1>7, <1>8 DEF Routed, Closing

(* Another record is changed.                                              *)
LEMMA ApplyRoute ==
  ASSUME TInv, PlansOK, Ordinary, Safe(Cuts)', NEW m \in Migrations, Apply(m), NEW r \in Records,
         RecordsOf(DomainOf[r]) = {r}, Undisturbed(r), ~Touched(m, r), Routed(m, r)
  PROVE  Routed(m, r)'
<1>0. MTypeOK /\ Planned(m)
  BY DEF TInv, MInv, PlansOK
<1>1. /\ mig[m].at = "dns" /\ mig'[m].at = "dns" /\ mig'[m].moved = mig[m].moved
      /\ Fixed(m) /\ saga' = saga
  BY <1>0, ApplyMakes
<1>2. PICK q \in Left(m) : Made(m, q)
  BY <1>0, ApplyMakes
<1>3. q # r
  BY <1>2 DEF Touched
<1>4. r \notin mig'[m].doing /\ (r \in mig'[m].reverts <=> r \in mig[m].reverts)
  BY <1>2, <1>3 DEF Made, Routed
<1>5. (Settled(m, Owner(r))' <=> Settled(m, Owner(r))) /\ Where(m, Owner(r))' = Where(m, Owner(r))
  BY <1>1 DEF Settled, Where, Fixed, Owner
<1> QED
  BY <1>1, <1>4, <1>5 DEF Routed, Undisturbed, Owner

(* What a transfer that goes on is, by its migration's phase.              *)
LEMMA GoesOn ==
  ASSUME TInv, Ordinary, NEW m \in Migrations, NEW x \in Services, Active(<<m, x>>)
  PROVE  /\ x \in mig[m].chosen /\ <<m, x>> \in Sagas
         /\ mig[m].at \in {"drain", "commit"} => <<m, x>> \in Range(mig[m].committed)
         /\ x \in Group(m) \/ Settled(m, x)
         /\ mig[m].at \in {"drain", "commit"} => Settled(m, x)
         /\ mig[m].at \in Phases \ (Over \cup {"new", "selected"})
<1>0. MTypeOK /\ GroupsOK(m) /\ <<m, x>> \in Sagas
  BY SagaBy DEF TInv, MInv, Together
<1>1. Underway(m) /\ x \in mig[m].chosen
  BY Leaves
<1>2. InHand(m, <<m, x>>)
  BY <1>0 DEF TInv, MInv, SagasOK, Held, Active
<1>3. <<m, x>> \in Range(mig[m].committed) => Settled(m, x)
  BY <1>0 DEF GroupsOK
<1> QED
  BY <1>0, <1>1, <1>2, <1>3, LocalsType DEF InHand, Underway

LEMMA NextGroupMoved ==
  ASSUME NEW m, NEW r \in Locals
  PROVE  NextGroup(m, r).moved = r.moved
BY DEF NextGroup, Locals

(* The environment is through, with the record of the service.             *)
LEMMA ThroughRoute ==
  ASSUME TInv, Ordinary, NEW m \in Migrations, PublicCheck(m),
         mig' = [mig EXCEPT ![m] = NextGroup(m, Through(m))],
         NEW r \in Records, Owner(r) \in Services, Active(<<m, Owner(r)>>), Undisturbed(r), Routed(m, r),
         Unasked(r)'
  PROVE  Routed(m, r)'
<1> DEFINE x == Owner(r)
           n == Through(m)
<1>0. MTypeOK /\ Together(m) /\ mig[m] \in Locals /\ mig \in [Migrations -> Locals]
  BY DEF TInv, MInv, MTypeOK
<1>1. mig[m].at = "public" /\ saga' = saga
  BY DEF PublicCheck, At
<1>2. /\ n \in Locals /\ n.chosen = mig[m].chosen
      /\ n.migrated = mig[m].migrated \cup {mig[m].group}
      /\ n.moved = mig[m].moved \cup DOMAIN mig[m].change
  <2>1. /\ mig[m].committed \o mig[m].staged \in Seq(Sagas) /\ DOMAIN mig[m].change \subseteq Records
        /\ mig[m].group \in Nat /\ mig[m].manualDns \cup mig[m].manual \in SUBSET Domains
    BY <1>0, LocalsType
  <2> QED
    BY <1>0, <2>1 DEF Through, Locals
<1>3. mig'[m] = NextGroup(m, n)
  BY <1>0
<1> HIDE DEF n
<1>4. /\ mig'[m].at \in {"prepare", "drain"} /\ mig'[m].migrated = n.migrated
      /\ mig'[m].doing = {} /\ mig'[m].reverts = {}
  BY <1>0, <1>2, <1>3, NextGroupOf, NextGroupRest
<1>5. mig'[m].moved = n.moved
  BY <1>2, <1>3, NextGroupMoved
<1>6. x \in Group(m) \/ Settled(m, x)
  BY GoesOn
<1>7. Settled(m, x)'
  BY <1>2, <1>4, <1>6 DEF Settled, Group, Owner
<1>8. r \in mig[m].reverts \/ Settled(m, x)
  <2> SUFFICES ASSUME ~Settled(m, x), r \notin mig[m].reverts
               PROVE  FALSE
    OBVIOUS
  <2>1. points[r] = From[m] /\ x \in Group(m)
    BY <1>6 DEF Routed
  <2>2. Known(m)
    BY <1>1 DEF TInv, SwitchedOK, Switched, Ordinary, Underway, Over
  <2>5. DomainOf[r] \notin mig[m].manual
    BY <1>0, AfreshSteps DEF Unasked
  <2>3. r \in Left(m)
    BY <1>1, <2>1, <2>2, <2>5 DEF Known, Towards
  <2>4. Left(m) = {}
    BY <1>0, <1>1 DEF Together, ChangesOK
  <2> QED
    BY <2>3, <2>4
<1>9. r \in mig'[m].moved
  BY <1>0, <1>2, <1>5, <1>8 DEF Together, ChangesOK, Routed
<1>10. Where(m, x)' = Where(m, x) /\ Where(m, x) \notin Closing
  BY <1>1 DEF Where, Routed, Owner
<1> QED
  BY <1>4, <1>7, <1>8, <1>9, <1>10 DEF Routed, Undisturbed, Owner

(* A later failure does not concern it.                                    *)
LEMMA RolledBackRoute ==
  ASSUME TInv, NEW m \in Migrations, AllRolledBack(m), NEW r \in Records, Owner(r) \in Services,
         Active(<<m, Owner(r)>>)', Undisturbed(r), Routed(m, r)
  PROVE  Routed(m, r)'
<1> DEFINE x == Owner(r)
<1>0. MTypeOK /\ Together(m) /\ mig[m] \in Locals /\ mig \in [Migrations -> Locals] /\ <<m, x>> \in Sagas
  BY SagaBy DEF TInv, MInv, MTypeOK
<1>1. mig[m].at = "rollback" /\ mig'[m] = NextGroup(m, mig[m])
  BY <1>0 DEF AllRolledBack, At
<1>2. /\ mig'[m].at \in {"prepare", "drain"} /\ mig'[m].migrated = mig[m].migrated
      /\ mig'[m].doing = {} /\ mig'[m].reverts = {} /\ mig[m].reverts = {}
  BY <1>0, <1>1, NextGroupOf, NextGroupRest DEF Together, ChangesOK
<1>3. mig'[m].moved = mig[m].moved
  BY <1>0, <1>1, NextGroupMoved
<1>4. saga'[<<m, x>>] = saga[<<m, x>>]
  <2>1. saga'[<<m, x>>].at # "rejected"
    BY DEF Active, Ended, Owner
  <2> QED
    BY <1>0, <2>1, RollbackSteps
<1>5. Settled(m, x)' <=> Settled(m, x)
  BY <1>2 DEF Settled, Owner
<1>6. Where(m, x)' = Where(m, x) /\ Where(m, x) \notin Closing
  BY <1>1, <1>4 DEF Where, Routed, Owner
<1> QED
  BY <1>1, <1>2, <1>3, <1>5, <1>6 DEF Routed, Undisturbed, Owner

(* After the drain resolvers know the new address only.                    *)
LEMMA DrainRoute ==
  ASSUME TInv, Ordinary, Safe(Cuts)', NEW m \in Migrations, Drain(m), NEW r \in Records, Single(r),
         Owner(r) \in Services, Active(<<m, Owner(r)>>), Routed(m, r)
  PROVE  Routed(m, r)'
<1> DEFINE x == Owner(r)
<1>0. MTypeOK /\ mig[m].at = "drain" /\ DomainOf[r] \in Domains /\ saga' = saga /\ points' = points
  BY DEF TInv, MInv, Domains, Drain, At
<1>1. <<m, x>> \in Range(mig[m].committed) /\ Settled(m, x) /\ Subject[<<m, x>>] = x
  BY <1>0, GoesOn, SagaBy
<1>2. points[r] = To[m] /\ r \in mig[m].moved /\ To[m] # Deleted
  BY <1>1, MigrationAssumption DEF Routed
<1>3. KeptRunning(m)
  BY <1>1 DEF KeptRunning, Single
<1>4. ~Strike("ttl")
  BY DEF Strike, Safe, Cuts
<1>5. visits' = [d \in Domains |-> IF RecordsOf(d) \cap mig[m].moved # {}
                                     THEN { points[q] : q \in RecordsOf(d) } \ {Deleted}
                                     ELSE visits[d]]
  BY <1>3, <1>4 DEF Drain
<1>6. RecordsOf(DomainOf[r]) = {r}
  BY DEF Single
<1>7. visits'[DomainOf[r]] = {To[m]}
  BY <1>0, <1>2, <1>5, <1>6
<1>8. SameLocals(m) /\ mig'[m].moved = mig[m].moved /\ mig'[m].at = "commit"
  <2>1. Turn(m, "commit") /\ mig[m] \in Locals /\ mig \in [Migrations -> Locals]
    BY <1>0 DEF Drain, MTypeOK
  <2>2. mig'[m] = [mig[m] EXCEPT !.at = "commit"]
    BY <2>1 DEF Turn
  <2>3. mig'[m].moved = mig[m].moved
    BY <2>1, <2>2 DEF Locals
  <2> QED
    BY <1>0, <2>1, <2>3, TurnsAll
<1>9. Settled(m, x)'
  BY <1>1, <1>8 DEF Settled, SameLocals, Owner
<1>10. r \notin mig'[m].doing
  BY <1>8 DEF SameLocals, Routed
<1> QED
  BY <1>0, <1>2, <1>7, <1>8, <1>9, <1>10 DEF Routed, Visits, Owner

(* A transfer that goes on, and goes on after the step.                    *)
LEMMA RouteGoesOn ==
  ASSUME TInv, PlansOK, Ordinary, Safe(Cuts)', NEW m \in Migrations, Select(m) \/ Advance(m),
         NEW r \in Records, Single(r), Owner(r) \in Services,
         Active(<<m, Owner(r)>>), Active(<<m, Owner(r)>>)', Routed(m, r), Unasked(r)'
  PROVE  Routed(m, r)'
<1>0. MTypeOK /\ Unreverted(m) /\ RecordsOf(DomainOf[r]) = {r}
  BY DEF TInv, MInv, PlansOK, Single
<1>1. /\ mig[m].at \notin {"new", "selected"}
      /\ mig[m].at = "commit" => <<m, Owner(r)>> \in Range(mig[m].committed)
  BY GoesOn
<1>2. ~Select(m) /\ ~Lock(m) /\ ~Unlock(m) /\ ~RevertRecord(m)
  BY <1>0, <1>1, NoRevert DEF Select, Lock, Unlock, At, Active, Committed, Ended
<1>3. CASE Drain(m)
  BY <1>3, DrainRoute
<1>4. CASE Touched(m, r)
  BY <1>0, <1>4, TouchedRoute
<1>5. CASE Undisturbed(r) /\ ~Drain(m) /\ ~Touched(m, r)
  <2>1. CASE Apply(m)
    BY <1>0, <1>5, <2>1, ApplyRoute
  <2>2. CASE AllRolledBack(m)
    BY <1>5, <2>2, RolledBackRoute
  <2>3. CASE PublicCheck(m) /\ mig' = [mig EXCEPT ![m] = NextGroup(m, Through(m))]
    BY <1>5, <2>3, ThroughRoute
  <2>4. CASE ~Apply(m) /\ ~AllRolledBack(m) /\ ~(PublicCheck(m) /\ mig' = [mig EXCEPT ![m] = NextGroup(m, Through(m))])
    BY <1>0, <1>2, <1>5, <2>4, SteadySteps, SteadyRoute
  <2> QED
    BY <2>1, <2>2, <2>3, <2>4
<1> QED
  BY <1>0, <1>3, <1>4, <1>5, DnsOf

-----------------------------------------------------------------------------
(* How a transfer ends.                                                    *)
LEMMA EndsBy ==
  ASSUME MTypeOK, NEW m \in Migrations, GroupsOK(m), Select(m) \/ Advance(m), NEW x \in Services,
         Active(<<m, x>>), ~Active(<<m, x>>)'
  PROVE  /\ TransferStep(m) \/ RollbackNext(m) \/ AllRolledBack(m)
         /\ saga'[<<m, x>>].source = saga[<<m, x>>].source
         /\ Where(m, x)' \in {"moved", "unclean", "undone", "stuck", "rejected"}
<1>0. <<m, x>> \in Sagas /\ saga'[<<m, x>>] # saga[<<m, x>>]
  BY SagaBy DEF Active
<1>1. CASE Proceeds(m)
  BY <1>0, <1>1, SettledSaga
<1>2. CASE Directs(m)
  <2>1. /\ StageNext(m) => saga'[<<m, x>>].at = "begin" \/ ~StageNext(m) \/ AllRolledBack(m) \/ RollbackNext(m)
        /\ saga[<<m, x>>].at # "new"
    BY <1>0, <1>2, DirectsSteps DEF Active
  <2>2. /\ saga'[<<m, x>>].source = saga[<<m, x>>].source
        /\ \/ saga'[<<m, x>>].at = "begin"
           \/ AllRolledBack(m) /\ saga'[<<m, x>>].at = "rejected"
           \/ RollbackNext(m) /\ saga'[<<m, x>>].at \in {"stuck", "remove", "restart", "reset"}
    BY <1>0, <1>2, <2>1, DirectsSteps
  <2> QED
    BY <2>2 DEF Active, Ended, Where
<1>3. CASE TransferStep(m)
  <2>1. PICK y \in Services : Step(<<m, y>>)
    BY <1>3 DEF TransferStep
  <2>2. <<m, y>> \in Sagas /\ \A u \in Sagas \ {<<m, y>>} : saga'[u] = saga[u]
    BY <2>1, SagaBy, TransferSteps DEF MTypeOK
  <2>3. <<m, y>> = <<m, x>>
    BY <1>0, <2>2
  <2>4. saga'[<<m, x>>].source = saga[<<m, x>>].source /\ saga'[<<m, x>>].at # "new"
    BY <1>0, <2>1, <2>3, TransferSteps DEF MTypeOK
  <2>5. saga'[<<m, x>>].at # "dead"
    BY <1>0, <2>1, <2>3, StepWhere DEF MTypeOK
  <2> QED
    BY <1>3, <2>4, <2>5 DEF Active, Ended, Where
<1>4. CASE HealthNext(m)
  <2>1. PICK i \in DOMAIN mig[m].staged : Go(mig[m].staged[i], "check")
    BY <1>4 DEF HealthNext
  <2>2. saga'[<<m, x>>].at = "check"
    BY <1>0, <2>1 DEF Go, MTypeOK, TypeOK
  <2> QED
    BY <2>2 DEF Active, Ended
<1>5. CASE CommitNext(m)
  <2>1. PICK i \in DOMAIN mig[m].committed : Go(mig[m].committed[i], "logs")
    BY <1>5 DEF CommitNext
  <2>2. saga'[<<m, x>>].at = "logs"
    BY <1>0, <2>1 DEF Go, MTypeOK, TypeOK
  <2> QED
    BY <2>2 DEF Active, Ended
<1> QED
  BY <1>1, <1>2, <1>3, <1>4, <1>5 DEF Advance, Proceeds, Directs

(* Where it has left the service when it ends, resolvers know only that.   *)
LEMMA RouteEnds ==
  ASSUME TInv, TInv', Ordinary, Ordinary', NEW m \in Migrations, Select(m) \/ Advance(m),
         NEW r \in Records, Owner(r) \in Services, Undisturbed(r), Routed(m, r),
         Active(<<m, Owner(r)>>), ~Active(<<m, Owner(r)>>)'
  PROVE  LET s == record'[Owner(r)]
         IN  points'[r] = s /\ Visits(r)' \subseteq {s}
<1> DEFINE x == Owner(r)
           t == <<m, x>>
<1>0. /\ MTypeOK /\ Together(m) /\ t \in Sagas /\ Subject[t] = x /\ Target[t] = To[m] /\ t[1] = m
      /\ x \in mig[m].chosen
  BY GoesOn, SagaBy DEF TInv, MInv
<1>1. /\ TransferStep(m) \/ RollbackNext(m) \/ AllRolledBack(m)
      /\ saga'[t].source = From[m]
      /\ Where(m, x)' \in {"moved", "unclean", "undone", "stuck", "rejected"}
  BY <1>0, EndsBy, Leaves DEF Together, Owner
<1>2. Underway(m)'
  <2>1. CASE AllRolledBack(m)
    <3>1. Advance(m) /\ ~Lock(m) /\ ~Unlock(m)
      BY <2>1 DEF AllRolledBack, Lock, Unlock, At, Advance
    <3> QED
      BY <1>0, <3>1, StaysUnderway
  <2>2. CASE TransferStep(m) \/ RollbackNext(m)
    BY <2>2, Leaves DEF TransferStep, RollbackNext, Underway
  <2> QED
    BY <1>1, <2>1, <2>2
<1>3. Rest(t)'
  <2>1. SelectionHolds' /\ RestOK'
    BY DEF TInv, Ordinary
  <2> QED
    BY <1>0, <1>2, <2>1 DEF RestOK
<1>4. CASE Where(m, x)' \in {"moved", "unclean"}
  <2>1. mig[m].at = "commit"
    <3>1. CASE Where(m, x) \in Closing
      BY <3>1 DEF Routed
    <3>2. CASE Where(m, x) \notin Closing
      BY <1>0, <1>4, <3>2, ClosingBy DEF Together, Closing, Owner
    <3> QED
      BY <3>1, <3>2
  <2>2. Settled(m, x)
    BY <2>1, GoesOn
  <2>3. points[r] = To[m] /\ Visits(r) \subseteq {To[m]}
    BY <2>1, <2>2 DEF Routed
  <2>4. record'[x] = To[m]
    BY <1>0, <1>3, <1>4 DEF Rest, Record, Where, Owner
  <2> QED
    BY <2>3, <2>4 DEF Undisturbed
<1>5. CASE Where(m, x)' \in {"undone", "stuck", "rejected"}
  <2>1. mig[m].at \in {"stage", "health", "rollback", "commit"}
    BY <1>1 DEF TransferStep, RollbackNext, AllRolledBack, At
  <2>2. mig[m].reverts = {}
    BY <1>0, <2>1 DEF Together, ChangesOK
  <2>3. ~Settled(m, x)
    <3>1. mig'[m].chosen = mig[m].chosen /\ mig'[m].migrated = mig[m].migrated
      <4>1. CASE AllRolledBack(m)
        BY <1>0, <4>1, AfreshSteps DEF PublicCheck, AllRolledBack, At
      <4>2. CASE TransferStep(m) \/ RollbackNext(m)
        BY <4>2 DEF TransferStep, RollbackNext
      <4> QED
        BY <1>1, <4>1, <4>2
    <3>2. Stands(m, x)'
      <4>1. StandsOK(m)'
        BY DEF TInv, Together
      <4> QED
        BY <1>0, <1>2, <3>1, <4>1 DEF StandsOK, Owner
    <3>3. Where(m, x)' \notin Kept
      BY <1>5 DEF Kept, Closing
    <3>4. ~Settled(m, x)'
      BY <3>2, <3>3 DEF Stands
    <3> QED
      BY <3>1, <3>4 DEF Settled, Owner
  <2>4. points[r] = From[m] /\ Visits(r) \subseteq {From[m]}
    BY <2>2, <2>3 DEF Routed
  <2>5. record'[x] = From[m]
    <3>1. Safe({"db"})'
      BY DEF Ordinary, Safe, Cuts
    <3>2. saga'[t].at \in {"undone", "stuck", "rejected"}
      BY <1>5 DEF Where, Owner
    <3>3. Record(t)' = Source(t)'
      BY <1>3, <3>1, <3>2 DEF Rest
    <3> QED
      BY <1>0, <1>1, <3>3 DEF Record, Source
  <2> QED
    BY <2>4, <2>5 DEF Undisturbed
<1> QED
  BY <1>1, <1>4, <1>5

(* Where it finds the service when it begins.                              *)
LEMMA BeginsBy ==
  ASSUME MTypeOK, NEW m \in Migrations, Select(m) \/ Advance(m), NEW x \in Services,
         ~Active(<<m, x>>), Active(<<m, x>>)'
  PROVE  /\ PrepareService(m) /\ saga'[<<m, x>>].source = record[x]
         /\ Where(m, x)' = "prepared" /\ record[x] # To[m]
<1>0. <<m, x>> \in Sagas /\ saga'[<<m, x>>] # saga[<<m, x>>] /\ Target[<<m, x>>] = To[m]
      /\ Subject[<<m, x>>] = x
  BY SagaBy DEF Active
<1>1. CASE Directs(m)
  <2>1. saga[<<m, x>>].at \notin {"prepared", "failed", "staged", "check", "healthy", "broken"}
    BY DEF Active, Ended
  <2>2. saga'[<<m, x>>].at # "rejected"
    BY DEF Active, Ended
  <2> QED
    BY <1>0, <1>1, <2>1, <2>2, DirectsSteps DEF Record, Where
<1>2. CASE ~Directs(m)
  BY <1>0, <1>2, CalmSteps DEF Directs, Calm
<1> QED
  BY <1>1, <1>2

LEMMA RouteBegins ==
  ASSUME TInv, TInv', Ordinary, Ordinary', NEW m \in Migrations, Select(m) \/ Advance(m),
         NEW r \in Records, Owner(r) \in Services, Undisturbed(r), Addressed(r),
         ~Active(<<m, Owner(r)>>), Active(<<m, Owner(r)>>)'
  PROVE  Routed(m, r)'
<1> DEFINE x == Owner(r)
           t == <<m, x>>
<1>0. MTypeOK /\ Together(m) /\ GroupsOK(m) /\ t \in Sagas /\ Subject[t] = x
  BY SagaBy DEF TInv, MInv, Together
<1>1. /\ PrepareService(m) /\ saga'[t].source = record[x]
      /\ Where(m, x)' = "prepared" /\ record[x] # To[m]
  BY <1>0, BeginsBy DEF Owner
<1>2. record[x] = From[m]
  <2>1. SelectionHolds' /\ saga'[t].at # "new"
    BY <1>1 DEF Ordinary, Where, Owner
  <2>2. saga'[t].source \in {From[t[1]], To[t[1]]}
    BY <1>0, <2>1 DEF SelectionHolds
  <2> QED
    BY <1>1, <2>2
<1>3. Idle(x)
  <2> SUFFICES ASSUME NEW u \in Sagas, Subject[u] = x, Active(u)
               PROVE  FALSE
    BY DEF Idle
  <2>1. u[1] \in Migrations /\ u = <<u[1], x>>
    BY SagaOf
  <2>2. u # t /\ u[1] # m
    BY <2>1 DEF Owner
  <2>3. saga'[u] = saga[u]
    BY <1>0, <2>1, <2>2, OthersApart DEF Bystander
  <2>4. Active(u)'
    BY <2>3 DEF Active
  <2>5. OneTransfer' /\ Safe({"overlap"})'
    BY DEF TInv, MInv, NoOverlap, Ordinary, Safe
  <2> QED
    BY <1>0, <2>2, <2>4, <2>5 DEF OneTransfer, Owner
<1>4. points[r] = From[m] /\ Visits(r) \subseteq {From[m]}
  BY <1>2, <1>3 DEF Addressed
<1>5. mig[m].at = "prepare" /\ mig[m].reverts = {} /\ mig[m].doing = {}
  BY <1>0, <1>1 DEF PrepareService, At, Together, ChangesOK
<1>6. Steady(m)
  BY <1>0, <1>1, <1>5, SteadyTurn DEF PrepareService, Steady
<1>7. ~Settled(m, x)'
  <2>1. Underway(m)' /\ x \in mig'[m].chosen
    <3>1. Held(t)'
      BY <1>0 DEF TInv, MInv, SagasOK
    <3> QED
      BY <3>1 DEF Held, Active
  <2>2. Stands(m, x)'
    <3>1. StandsOK(m)'
      BY DEF TInv, Together
    <3> QED
      BY <2>1, <3>1 DEF StandsOK, Owner
  <2>3. Where(m, x)' \notin Kept
    BY <1>1 DEF Kept, Closing
  <2> QED
    BY <2>2, <2>3 DEF Stands
<1>8. Where(m, x)' \notin Closing
  BY <1>1 DEF Closing
<1> QED
  BY <1>4, <1>5, <1>6, <1>7, <1>8 DEF Routed, Steady, Undisturbed, Owner

-----------------------------------------------------------------------------
(* A step of a migration.                                                  *)
LEMMA AddressedBy ==
  ASSUME TInv, TInv', PlansOK, Ordinary, Ordinary', NEW m \in Migrations, Select(m) \/ Advance(m),
         NEW r \in Records, Single(r), Addressed(r), Unasked(r)'
  PROVE  Addressed(r)'
<1> DEFINE x == Owner(r)
<1>0. /\ MTypeOK /\ Together(m) /\ GroupsOK(m) /\ Safe(Cuts)' /\ RecordsOf(DomainOf[r]) = {r}
      /\ x \in Services /\ <<m, x>> \in Sagas /\ Subject[<<m, x>>] = x
  BY MigrationAssumption, SagaBy DEF TInv, MInv, Together, Ordinary, Owner, Domains, Single
<1>1. \A n \in Migrations \ {m} : Bystander(n)
  BY <1>0, OthersApart
<1>2. \A n \in Migrations \ {m} : Active(<<n, x>>)' <=> Active(<<n, x>>)
  BY <1>0, <1>1 DEF Bystander, Active, Owner
<1>3. \A y : (\A n \in Migrations : ~Active(<<n, y>>)) => Idle(y)
  BY SagaOf DEF Idle
<1>4. ASSUME NEW n \in Migrations \ {m}, Active(<<n, x>>)', Undisturbed(r)
      PROVE  Routed(n, r)'
  <2>1. Routed(n, r)
    BY <1>2, <1>4 DEF Addressed
  <2>2. mig'[n] = mig[n] /\ saga'[<<n, Owner(r)>>] = saga[<<n, Owner(r)>>]
    BY <1>0, <1>1 DEF Bystander
  <2> QED
    BY <1>0, <1>4, <2>1, <2>2, RoutedAside
<1>5. CASE Active(<<m, x>>)
  <2>1. Routed(m, r)
    BY <1>5 DEF Addressed
  <2>2. \A n \in Migrations \ {m} : ~Active(<<n, x>>)'
    BY <1>0, <1>2, <1>5, ChangedBy
  <2>3. CASE Active(<<m, x>>)'
    <3>1. Routed(m, r)'
      BY <1>0, <1>5, <2>1, <2>3, RouteGoesOn
    <3>2. ~Idle(x)'
      BY <1>0, <2>3 DEF Idle, Owner
    <3> QED
      BY <2>2, <3>1, <3>2 DEF Addressed, Owner
  <2>4. CASE ~Active(<<m, x>>)'
    <3>1. Undisturbed(r)
      <4>1. saga' # saga
        BY <1>5, <2>4 DEF Active, Owner
      <4>2. ~Touched(m, r)
        BY <1>0, <4>1, SettledSaga DEF Touched, Proceeds
      <4> QED
        BY <1>0, <4>2, DnsOf
    <3>2. points'[r] = record'[x] /\ Visits(r)' \subseteq {record'[x]}
      BY <1>0, <1>5, <2>1, <2>4, <3>1, RouteEnds
    <3>3. \A n \in Migrations : ~Active(<<n, x>>)'
      BY <2>2, <2>4
    <3> QED
      BY <3>2, <3>3 DEF Addressed, Owner
  <2> QED
    BY <2>3, <2>4
<1>6. CASE ~Active(<<m, x>>)
  <2>1. Undisturbed(r)
    <3>1. ~Touched(m, r)
      <4> SUFFICES ASSUME Touched(m, r)
                   PROVE  FALSE
        OBVIOUS
      <4>1. r \in DOMAIN mig[m].change
        BY <1>0, LeftRecords DEF Touched
      <4>2. Where(m, x) = "healthy"
        BY <1>0, <4>1, Changed DEF Touched
      <4> QED
        BY <1>6, <4>2 DEF Where, Active, Ended
    <3> QED
      BY <1>0, <3>1, DnsOf
  <2>2. CASE Active(<<m, x>>)'
    <3>1. Routed(m, r)'
      BY <1>0, <1>6, <2>1, <2>2, RouteBegins
    <3>2. ~Idle(x)'
      BY <1>0, <2>2 DEF Idle, Owner
    <3> QED
      BY <1>4, <2>1, <3>1, <3>2 DEF Addressed, Owner
  <2>3. CASE ~Active(<<m, x>>)'
    <3>1. record'[x] = record[x]
      BY <1>0, <1>6, RecordStays
    <3>2. Idle(x)' => Idle(x)
      <4> SUFFICES ASSUME Idle(x)'
                   PROVE  \A n \in Migrations : ~Active(<<n, x>>)
        BY <1>3
      <4>1. ASSUME NEW n \in Migrations \ {m}
            PROVE  ~Active(<<n, x>>)
        <5>1. <<n, x>> \in Sagas /\ Subject[<<n, x>>] = x
          BY <1>0, SagaBy
        <5>2. ~Active(<<n, x>>)'
          BY <5>1 DEF Idle, Owner
        <5> QED
          BY <1>2, <5>2
      <4> QED
        BY <1>6, <4>1
    <3>3. Idle(x)' => points'[r] = record'[x] /\ Visits(r)' \subseteq {record'[x]}
      BY <2>1, <3>1, <3>2 DEF Addressed, Undisturbed
    <3> QED
      BY <1>4, <2>1, <2>3, <3>3 DEF Addressed, Owner
  <2> QED
    BY <2>2, <2>3
<1> QED
  BY <1>5, <1>6

(* Resolvers forget by themselves.                                         *)
LEMMA AddressedAround ==
  ASSUME TInv, Ordinary', Around, NEW r \in Records, Single(r), Addressed(r)
  PROVE  Addressed(r)'
<1>1. PICK d \in Domains : Expire(d)
  BY NoCrash DEF Ordinary, Cuts
<1>2. MTypeOK /\ DomainOf[r] \in Domains /\ RecordsOf(DomainOf[r]) = {r}
  BY DEF TInv, MInv, Domains, Single
<1>3. Undisturbed(r)
  BY <1>1, <1>2, ExpireForgets, ForgottenStays
<1>4. mig' = mig /\ saga' = saga /\ record' = record
  BY <1>1 DEF Expire, vars, world
<1>5. Idle(Owner(r))' => Idle(Owner(r))
  BY <1>4 DEF Idle, Active, Owner
<1>6. ASSUME NEW m \in Migrations, Active(<<m, Owner(r)>>)'
      PROVE  Routed(m, r)'
  <2>1. Active(<<m, Owner(r)>>)
    BY <1>4, <1>6 DEF Active, Owner
  <2>2. Routed(m, r)
    BY <2>1 DEF Addressed
  <2>3. Owner(r) \in Services
    BY <1>2, MigrationAssumption DEF Owner
  <2> QED
    BY <1>3, <1>4, <2>2, <2>3, RoutedAside
<1>7. Idle(Owner(r))' => points'[r] = record'[Owner(r)] /\ Visits(r)' \subseteq {record'[Owner(r)]}
  BY <1>3, <1>4, <1>5 DEF Addressed, Undisturbed
<1> QED
  BY <1>6, <1>7 DEF Addressed, Owner

LEMMA AddressStep ==
  ASSUME TInv, TInv', PlansOK, AddressOK, MNext
  PROVE  AddressOK'
<1> SUFFICES ASSUME Ordinary', NEW r \in Records, Single(r)', Unasked(r)'
             PROVE  Addressed(r)'
  BY DEF AddressOK
<1>1. Ordinary
  BY OrdinaryBefore DEF TInv, MInv
<1>2. Single(r)
  <2>1. shape' = shape
    BY ShapeStays DEF TInv, MInv
  <2> QED
    BY <2>1 DEF Single, RecordsOf, Owner
<1>3. Addressed(r)
  BY <1>1, <1>2, UnaskedBefore DEF AddressOK, TInv, MInv
<1>4. CASE Around
  BY <1>2, <1>3, <1>4, AddressedAround
<1>5. ASSUME NEW m \in Migrations, Select(m) \/ Advance(m)
      PROVE  Addressed(r)'
  BY <1>1, <1>2, <1>3, <1>5, AddressedBy
<1> QED
  BY <1>4, <1>5 DEF MNext

-----------------------------------------------------------------------------
(* Where a service runs, when its migration does not take its transfer on. *)
LEMMA RunningStays ==
  ASSUME MTypeOK, NEW m \in Migrations, Select(m) \/ Advance(m), NEW x \in Services,
         ~TransferStep(m) \/ ~Step(<<m, x>>)
  PROVE  running'[x] = running[x]
<1>1. CASE Proceeds(m)
  BY <1>1, SettledSaga DEF world
<1>2. CASE PrepareService(m)
  BY <1>2, PrepareSteps DEF world
<1>3. CASE StageNext(m) \/ HealthNext(m) \/ RollbackNext(m) \/ AllRolledBack(m) \/ CommitNext(m)
  BY <1>3 DEF StageNext, HealthNext, RollbackNext, AllRolledBack, CommitNext, world
<1>4. CASE TransferStep(m)
  <2>1. PICK y \in Services : Step(<<m, y>>)
    BY <1>4 DEF TransferStep
  <2>2. y # x /\ <<m, y>> \in Sagas /\ Subject[<<m, y>>] = y
    BY <1>4, <2>1, SagaBy
  <2>3. \A z \in Services : z # Subject[<<m, y>>] => running'[z] = running[z]
    BY <2>1, <2>2, Frame DEF Saga, MTypeOK
  <2> QED
    BY <2>2, <2>3
<1> QED
  BY <1>1, <1>2, <1>3, <1>4 DEF Advance, Proceeds

(* A step of the transfer does not cut off visitors: it removes the copy   *)
(* on the target before the record is changed, and the one at the source   *)
(* when resolvers have forgotten it.                                       *)
LEMMA StepServes ==
  ASSUME TInv, Ordinary, NEW m \in Migrations, TransferStep(m), NEW r \in Records, Single(r),
         Owner(r) \in Services, Step(<<m, Owner(r)>>), Addressed(r),
         Visits(r) \subseteq running[Owner(r)]
  PROVE  Visits(r) \subseteq running'[Owner(r)]
<1> DEFINE x == Owner(r)
           t == <<m, x>>
<1>0. /\ MTypeOK /\ TypeOK /\ Together(m) /\ t \in Sagas /\ Subject[t] = x /\ Target[t] = To[m]
      /\ Active(t) /\ ~Stateful(t)
  <2>1. MTypeOK /\ TypeOK /\ Together(m) /\ t \in Sagas /\ Subject[t] = x /\ Target[t] = To[m]
    BY SagaBy DEF TInv, MInv, MTypeOK
  <2> QED
    BY <2>1, TransferSteps DEF Stateful, Single, Owner
<1>1. /\ Staged(t) /\ saga[t].source = From[m] /\ From[m] # To[m] /\ Stands(m, x) /\ Routed(m, r)
  BY <1>0, Leaves DEF Addressed
<1>2. CASE Begin(t) \/ Copy(t) \/ Check(t)
  <2>1. Run(t)' = Run(t)
    BY <1>0, <1>2, StageEffects DEF Place
  <2> QED
    BY <1>0, <2>1 DEF Run, Owner
<1>3. CASE Stop(t) \/ Restart(t)
  BY <1>0, <1>1, <1>3 DEF Stop, Restart, Staged
<1>4. CASE Switch(t) \/ Restore(t)
  BY <1>0, <1>4, SwitchEffect, RestoreEffect DEF Run, Owner
<1>5. CASE Deploy(t) \/ Deployed(t)
  <2>1. Run(t) \subseteq Run(t)'
    BY <1>0, <1>5, DeployEffects DEF Place
  <2> QED
    BY <1>0, <2>1 DEF Run, Owner
<1>6. CASE Remove(t)
  <2>1. saga[t].at = "remove"
    BY <1>6 DEF Remove
  <2>2. Record(t) = Target[t]
    BY <1>1, <2>1 DEF Staged, Ordinary, Safe, Cuts
  <2>3. Run(t)' = Run(t) \ {To[m]} \/ Run(t)' = Run(t)
    BY <1>0, <1>6, <2>2, RemoveEffect
  <2>4. mig[m].reverts = {}
    BY <1>0 DEF TransferStep, Together, ChangesOK
  <2>5. ~Settled(m, x)
    BY <1>1, <2>1 DEF Stands, Where, Kept, Closing
  <2>6. Visits(r) \subseteq {From[m]}
    BY <1>1, <2>4, <2>5 DEF Routed
  <2> QED
    BY <1>0, <1>1, <2>3, <2>6 DEF Run, Owner
<1>7. CASE Reset(t) \/ MoveLogs(t) \/ Finish(t)
  <2>1. Run(t)' = Run(t)
    BY <1>0, <1>7, ResetEffects DEF Place
  <2> QED
    BY <1>0, <2>1 DEF Run, Owner
<1>8. CASE CleanUp(t)
  <2>1. Where(m, x) \in Closing
    BY <1>8 DEF CleanUp, Where, Closing
  <2>2. mig[m].at = "commit"
    BY <1>1, <2>1 DEF Routed
  <2>3. Settled(m, x)
    BY <1>0, <2>2, GoesOn
  <2>4. Visits(r) \subseteq {To[m]}
    BY <1>1, <2>2, <2>3 DEF Routed
  <2>5. Run(t)' = Run(t) \ {From[m]} \/ Run(t)' = Run(t)
    BY <1>0, <1>1, <1>8, CleanUpEffect DEF Source
  <2> QED
    BY <1>0, <1>1, <2>4, <2>5 DEF Run, Owner
<1> QED
  BY <1>2, <1>3, <1>4, <1>5, <1>6, <1>7, <1>8 DEF Step

(* A change of the record sends visitors to a copy that runs.              *)
LEMMA ChangeServes ==
  ASSUME TInv, PlansOK, Ordinary, Safe(Cuts)', NEW m \in Migrations, NEW r \in Records,
         RecordsOf(DomainOf[r]) = {r}, Touched(m, r), Visits(r) \subseteq running[Owner(r)]
  PROVE  Visits(r)' \subseteq running'[Owner(r)]
<1> DEFINE x == Owner(r)
           t == <<m, x>>
<1>0. MTypeOK /\ Together(m) /\ Planned(m) /\ ToTarget(m)
  BY DEF TInv, MInv, PlansOK
<1>1. mig[m].at = "dns" /\ UNCHANGED world
  BY <1>0, ApplyMakes DEF Touched
<1>2. r \in DOMAIN mig[m].change /\ mig[m].change[r] \in Servers \cup {Deleted}
  BY <1>0, LeftRecords DEF Touched
<1>3. mig[m].change[r] = To[m]
  BY <1>0, <1>1, <1>2 DEF Touched, Planned, Towards, ToTarget
<1>4. Visits(r)' \subseteq Visits(r) \cup {To[m]}
  <2>1. SetRecord(r, mig[m].change[r])
    BY DEF Touched, Made
  <2>2. /\ points'[r] = To[m]
        /\ visits'[DomainOf[r]] = visits[DomainOf[r]] \cup ({ points'[p] : p \in RecordsOf(DomainOf[r]) } \ {Deleted})
    BY <1>0, <1>2, <1>3, <2>1, Learned
  <2> QED
    BY <2>2 DEF Visits
<1>5. x \in Services /\ Where(m, x) = "healthy"
  BY <1>0, <1>2, Changed DEF Touched
<1>6. t \in Sagas /\ Subject[t] = x /\ Target[t] = To[m] /\ Active(t)
  BY <1>5, SagaBy DEF Where, Active, Ended
<1>7. Staged(t)
  BY <1>5, <1>6, Leaves
<1>8. To[m] \in running[x]
  BY <1>5, <1>6, <1>7 DEF Staged, Up, Where, Run
<1> QED
  BY <1>1, <1>4, <1>8 DEF world

(* No step cuts off visitors.                                              *)
LEMMA StepsServe ==
  ASSUME TInv, TInv', VisitsOK, PlansOK, AddressOK, MNext, Ordinary, Safe(Cuts)',
         NEW r \in Records, Single(r), Unasked(r), Visits(r) \subseteq running[Owner(r)]
  PROVE  Visits(r)' \subseteq running'[Owner(r)]
<1>0. /\ MTypeOK /\ Owner(r) \in Services /\ RecordsOf(DomainOf[r]) = {r} /\ Addressed(r)
      /\ DomainOf[r] \in Domains /\ Visits(r)' \subseteq Servers /\ Deleted \notin Servers
  BY MigrationAssumption DEF TInv, MInv, MTypeOK, Owner, Domains, Single, AddressOK, Visits
<1>1. Undisturbed(r) => Visits(r)' \subseteq Visits(r)
  BY <1>0 DEF Undisturbed, VisitsOK, Visits
<1>2. CASE Around
  <2>1. PICK d \in Domains : Expire(d)
    BY <1>2, NoCrash
  <2>2. Undisturbed(r)
    BY <1>0, <2>1, ExpireForgets, ForgottenStays
  <2>3. running' = running
    BY <2>1 DEF Expire, vars, world
  <2> QED
    BY <1>1, <2>2, <2>3
<1>3. ASSUME NEW m \in Migrations, Select(m) \/ Advance(m)
      PROVE  Visits(r)' \subseteq running'[Owner(r)]
  <2>1. CASE Touched(m, r)
    BY <1>0, <2>1, ChangeServes
  <2>2. CASE Undisturbed(r)
    <3>1. CASE TransferStep(m) /\ Step(<<m, Owner(r)>>)
      BY <1>0, <1>1, <2>2, <3>1, StepServes
    <3>2. CASE ~(TransferStep(m) /\ Step(<<m, Owner(r)>>))
      BY <1>0, <1>1, <1>3, <2>2, <3>2, RunningStays
    <3> QED
      BY <3>1, <3>2
  <2> QED
    BY <1>0, <1>3, <2>1, <2>2, DnsOf
<1> QED
  BY <1>2, <1>3 DEF MNext

-----------------------------------------------------------------------------
(* The whole invariant of the records, and what it says of visitors.       *)
VInv == TInv /\ VisitsOK /\ PlansOK /\ AddressOK

LEMMA VInvInit ==
  ASSUME MInit, TInv
  PROVE  VInv
<1>1. /\ points = Zone /\ record = [x \in Services |-> Home] /\ \A t \in Sagas : saga[t].at = "new"
      /\ visits = [d \in Domains |-> { Zone[r] : r \in { q \in Records : DomainOf[q] = d } }]
  BY DEF MInit, Init, NoSaga
<1>2. \A m \in Migrations : mig[m].at = "new"
  BY DEF MInit, NoMigration
<1>3. VisitsOK
  BY <1>1 DEF VisitsOK, Domains
<1>4. PlansOK
  <2> SUFFICES ASSUME Ordinary
               PROVE  Spread /\ \A m \in Migrations : Planned(m) /\ Unreverted(m)
    BY DEF PlansOK
  <2>1. Spread
    BY <1>1 DEF Ordinary, Lone, RecordsOf, Spread
  <2> QED
    BY <1>2, <2>1 DEF Planned, Unreverted, Towards
<1>5. ASSUME NEW r \in Records, Single(r)
      PROVE  Addressed(r)
  <2>1. Owner(r) \in Services /\ DomainOf[r] \in Domains
    BY MigrationAssumption DEF Owner, Domains
  <2>2. points[r] = Home /\ record[Owner(r)] = Home /\ Visits(r) \subseteq {Home}
    BY <1>1, <1>5, <2>1 DEF Single, Visits, RecordsOf
  <2>3. \A m \in Migrations : ~Active(<<m, Owner(r)>>)
    BY <1>1, <2>1, SagaBy DEF Active
  <2> QED
    BY <2>2, <2>3 DEF Addressed
<1> QED
  BY <1>3, <1>4, <1>5 DEF VInv, AddressOK

LEMMA VInvStep ==
  ASSUME VInv, MNext
  PROVE  VInv'
<1>1. TInv'
  BY TInvStep DEF VInv
<1>2. VisitsOK'
  BY VisitsStep DEF VInv, TInv, MInv
<1>3. PlansOK'
  BY PlansStep DEF VInv
<1>4. AddressOK'
  BY <1>1, AddressStep DEF VInv
<1> QED
  BY <1>1, <1>2, <1>3, <1>4 DEF VInv

LEMMA VInvStutters ==
  ASSUME VInv, UNCHANGED mvars
  PROVE  VInv'
<1>1. UNCHANGED <<shape, record, status, present, running, fresh, saga, building, struck, mig,
                  points, visits, activeServers>>
  BY DEF mvars, vars, world, dns
<1>2. TInv'
  BY TInvStutters DEF VInv
<1>3. VisitsOK'
  BY <1>1 DEF VInv, VisitsOK
<1>4. Ordinary' <=> Ordinary
  BY <1>1 DEF Ordinary, SelectionHolds, Safe, Lone, RecordsOf
<1>5. PlansOK'
  BY <1>1, <1>4 DEF VInv, PlansOK, Spread, Planned, Unreverted, Left, Duplicates, RecordsOf
<1>6. AddressOK'
  BY <1>1, <1>4 DEF VInv, AddressOK, Single, Unasked, Addressed, Idle, Active, Routed, Visits, Where, Settled, RecordsOf, Owner
<1> QED
  BY <1>2, <1>3, <1>5, <1>6 DEF VInv

(* No step cuts off the visitors of a stateless service, those with an old *)
(* address included, if nothing fails from the DNS on and resolvers forget *)
(* in time; whatever fails before (migrateServer in server-migration.ts).  *)
THEOREM VisitorsKept == MSpec => VisitorsServed
<1>1. MInit /\ MInv => VInv
  BY TInvInit, VInvInit
<1>2. VInv /\ [MNext]_mvars => VInv'
  BY VInvStep, VInvStutters
<1> DEFINE Uncut(d) ==
             LET x == ServiceOf[d]
             IN  /\ SelectionHolds /\ ~shape[x].stateful /\ visits[d] \subseteq running[x]
                 /\ \A r \in RecordsOf(d) : Zone[r] = Home
                 /\ \A m \in Migrations : d \notin mig[m].manualDns
                 /\ \A r \in Records : Lone(r)
                 /\ struck' \cap {"crash", "db", "dns", "partly", "lost", "public", "revert", "ttl"} = {}
                 => visits'[d] \subseteq running'[x]
<1>3. VInv /\ VInv' /\ [MNext]_mvars => [\A d \in Domains : Uncut(d)]_mvars
  <2> SUFFICES ASSUME VInv, VInv', MNext, NEW d \in Domains,
                      SelectionHolds, ~shape[ServiceOf[d]].stateful, visits[d] \subseteq running[ServiceOf[d]],
                      \A r \in RecordsOf(d) : Zone[r] = Home,
                      \A m \in Migrations : d \notin mig[m].manualDns,
                      \A r \in Records : Lone(r),
                      struck' \cap {"crash", "db", "dns", "partly", "lost", "public", "revert", "ttl"} = {}
               PROVE  visits'[d] \subseteq running'[ServiceOf[d]]
    OBVIOUS
  <2>1. Safe(Cuts)' /\ Safe(Cuts)
    <3>1. Safe(Cuts)'
      BY DEF Safe, Cuts
    <3> QED
      BY <3>1, SafeStays DEF VInv, TInv, MInv
  <2>2. Ordinary
    BY <2>1 DEF Ordinary
  <2>3. PICK r \in Records : d = DomainOf[r]
    BY DEF Domains
  <2>4. RecordsOf(d) = {r} /\ Zone[r] = Home
    BY <2>3 DEF RecordsOf, Lone
  <2>5. Single(r) /\ Owner(r) = ServiceOf[d]
    BY <2>3, <2>4 DEF Single, Owner
  <2>6. Visits(r) \subseteq running[Owner(r)] /\ Unasked(r)
    BY <2>3, <2>5 DEF Visits, Unasked
  <2>7. Visits(r)' \subseteq running'[Owner(r)]
    BY <2>1, <2>2, <2>5, <2>6, StepsServe DEF VInv
  <2> QED
    BY <2>3, <2>5, <2>7 DEF Visits
<1> QED
  BY <1>1, <1>2, <1>3, MInvariance, PTL DEF MSpec, VisitorsServed
=============================================================================
