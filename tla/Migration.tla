------------------------------ MODULE Migration ------------------------------
(***************************************************************************)
(* Moving the services of a server to another one, environment by          *)
(* environment (packages/server/src/services/server-migration.ts): the     *)
(* transfers of an environment are staged and checked, then its domains'   *)
(* records are switched; if anything fails they are switched back and the  *)
(* transfers rolled back.  When all environments are through, and          *)
(* resolvers have had time to forget the old addresses, the transfers are  *)
(* committed.  The transfers are the sagas of module Transfer.             *)
(***************************************************************************)
EXTENDS Transfer, Sequences, Functions

CONSTANTS
  Migrations,   \* calls of migrateServer
  From, To,     \* [Migrations -> Servers]: sourceServerId, targetServerId
  Asked,        \* [Migrations -> SUBSET Services]: the services selected
  EnvOf,        \* [Services -> Nat \ {0}]: environments, in the order of their labels
  Records,      \* A records of the domains that have a Cloudflare provider
  DomainOf,     \* [Records -> domains]
  ServiceOf,    \* [domains -> Services]
  Zone          \* [Records -> Servers]: where they point at first

Domains == { DomainOf[r] : r \in Records }
Deleted == "deleted"

ASSUME MigrationAssumption ==
  /\ IsFiniteSet(Services) /\ Deleted \notin Servers
  /\ From \in [Migrations -> Servers] /\ To \in [Migrations -> Servers]
  /\ Asked \in [Migrations -> SUBSET Services] /\ EnvOf \in [Services -> Nat \ {0}]
  /\ Zone \in [Records -> Servers] /\ ServiceOf \in [Domains -> Services]
  /\ Sagas = Migrations \X Services
  /\ \A t \in Sagas : Subject[t] = t[2] /\ Target[t] = To[t[1]]

VARIABLES
  mig,            \* the state of each call
  points,         \* the server each record points to, or Deleted
  visits,         \* servers that resolvers send a domain's visitors to
  activeServers   \* locked servers

dns == <<points, visits>>
mvars == <<vars, mig, dns, activeServers>>

Phases == {"new", "selected", "prepare", "stage", "health", "probe", "dns", "public",
           "revert", "rollback", "drain", "commit", "done", "refused", "dead"}
Over == {"done", "refused", "dead"}

NoMigration == [at |-> "new", updateDns |-> TRUE, chosen |-> {}, group |-> 0, staged |-> <<>>,
                committed |-> <<>>, change |-> <<>>, manual |-> {}, doing |-> {}, reverts |-> {},
                moved |-> {}, migrated |-> {}, manualDns |-> {}]

MInit ==
  /\ Init
  /\ mig = [m \in Migrations |-> NoMigration]
  /\ points = Zone
  /\ visits = [d \in Domains |-> { Zone[r] : r \in { q \in Records : DomainOf[q] = d } }]
  /\ activeServers = {}

RecordsOf(d) == { r \in Records : DomainOf[r] = d }
Group(m) == { x \in mig[m].chosen : EnvOf[x] = mig[m].group }
At(m, phase) == mig[m].at = phase
Turn(m, phase) == mig' = [mig EXCEPT ![m].at = phase]
Still == UNCHANGED <<vars, dns, activeServers>>

-----------------------------------------------------------------------------
(* getServerServices: the services of the source server, read before the   *)
(* servers are locked.                                                     *)
Select(m) ==
  LET found == { x \in Asked[m] : record[x] = From[m] }
  IN  /\ At(m, "new")
      /\ \E update \in BOOLEAN :
           mig' = [mig EXCEPT ![m].at = IF found = {} THEN "refused" ELSE "selected",
                              ![m].chosen = found, ![m].updateDns = update]
      /\ Still

LaterGroups(m, g) == { e \in { EnvOf[x] : x \in mig[m].chosen } : e > g }
FirstOf(S) == CHOOSE e \in S : \A f \in S : e <= f

(* groupByEnvironment: the next environment with a selected service; after *)
(* the last one the old copies go, if any environment was migrated.        *)
NextGroup(m, r) ==
  LET later == LaterGroups(m, r.group)
  IN  IF later # {} THEN [r EXCEPT !.at = "prepare", !.group = FirstOf(later), !.staged = <<>>,
                                   !.change = <<>>, !.manual = {}, !.doing = {}, !.reverts = {}]
      ELSE [r EXCEPT !.at = "drain", !.staged = <<>>, !.change = <<>>, !.manual = {},
                     !.doing = {}, !.reverts = {}]

(* A mutant: a server may be locked twice.                                 *)
LockTwice(m) ==
  /\ At(m, "selected")
  /\ mig' = [mig EXCEPT ![m] = NextGroup(m, @)]
  /\ activeServers' = activeServers \cup {From[m], To[m]}
  /\ UNCHANGED <<vars, dns>>

(* lockServers.                                                            *)
Lock(m) ==
  /\ At(m, "selected")
  /\ IF {From[m], To[m]} \cap activeServers = {}
       THEN /\ mig' = [mig EXCEPT ![m] = NextGroup(m, @)]
            /\ activeServers' = activeServers \cup {From[m], To[m]}
       ELSE Turn(m, "refused") /\ UNCHANGED activeServers
  /\ UNCHANGED <<vars, dns>>

-----------------------------------------------------------------------------
(* MIGRATION_ORDER: data stores first.                                     *)
Order(x) == IF shape[x].kind = "database" THEN 0 ELSE IF Compose(x) THEN 1 ELSE 2
FirstIn(x, S) == x \in S /\ \A y \in S : Order(x) <= Order(y)

Waiting(m, step) == { x \in Group(m) : saga[<<m, x>>].at = step }

PrepareService(m) ==
  /\ At(m, "prepare")
  /\ \E x \in Services : FirstIn(x, Waiting(m, "new")) /\ Prepare(<<m, x>>, "prepared")
  /\ IF \E x \in Group(m) : saga'[<<m, x>>].at = "rejected" THEN Turn(m, "revert") ELSE UNCHANGED mig
  /\ UNCHANGED <<dns, activeServers>>

DomainsOf(m) == { d \in Domains : ServiceOf[d] \in Group(m) }
PointsTo(d, s) == \E r \in RecordsOf(d) : points[r] = s

(* analyzeDomain: the records of a domain that point to the source are     *)
(* updated; deleted if another one points to the target already.           *)
OnSource(m) == { r \in Records : DomainOf[r] \in DomainsOf(m) /\ points[r] = From[m] }
NewContent(m, r) == IF PointsTo(DomainOf[r], To[m]) THEN Deleted ELSE To[m]

(* It cannot always tell: Cloudflare lists no records, the target's        *)
(* address is unknown.  No change is planned for such a domain, and the    *)
(* environment goes on to migrate.                                         *)
Plan(m, unknown) ==
  IF mig[m].updateDns
    THEN [r \in { q \in OnSource(m) : DomainOf[q] \notin unknown } |-> NewContent(m, r)]
    ELSE <<>>

(* A mutant: only what was analyzed is told to the user.                   *)
ManualSilent(m, unknown) ==
  { d \in DomainsOf(m) \ unknown :
      IF PointsTo(d, From[m]) THEN ~mig[m].updateDns ELSE ~PointsTo(d, To[m]) }

(* The domains that the user has to see to: those that point to the source *)
(* without a change, and those that do not point to the target.            *)
Manual(m, unknown) ==
  unknown \cup { d \in DomainsOf(m) :
                   IF PointsTo(d, From[m]) THEN ~mig[m].updateDns ELSE ~PointsTo(d, To[m]) }

Analyze(m) ==
  /\ At(m, "prepare") /\ Waiting(m, "new") = {}
  /\ \E unknown \in SUBSET DomainsOf(m) :
       mig' = [mig EXCEPT ![m].at = "stage", ![m].change = Plan(m, unknown),
                          ![m].manual = Manual(m, unknown)]
  /\ Still

(* Stateless services first, while the source still serves.                *)
StageNext(m) ==
  LET left == Waiting(m, "prepared")
      stateless == { x \in left : ~shape[x].stateful }
  IN  /\ At(m, "stage")
      /\ \A t \in Range(mig[m].staged) : saga[t].at = "staged"
      /\ \E x \in Services :
           /\ FirstIn(x, IF stateless # {} THEN stateless ELSE left)
           /\ Go(<<m, x>>, "begin")
           /\ mig' = [mig EXCEPT ![m].staged = Append(@, <<m, x>>)]
      /\ UNCHANGED <<shape, world, building, struck, dns, activeServers>>

AllStaged(m) ==
  /\ At(m, "stage") /\ Waiting(m, "prepared") = {}
  /\ \A t \in Range(mig[m].staged) : saga[t].at = "staged"
  /\ Turn(m, "health") /\ Still

(* waitUntilHealthy, of one service after the other.                       *)
HealthNext(m) ==
  /\ At(m, "health")
  /\ \E i \in DOMAIN mig[m].staged :
       /\ saga[mig[m].staged[i]].at = "staged"
       /\ \A j \in 1..(i - 1) : saga[mig[m].staged[j]].at = "healthy"
       /\ Go(mig[m].staged[i], "check")
  /\ UNCHANGED <<mig, shape, world, building, struck, dns, activeServers>>

AllHealthy(m) ==
  /\ At(m, "health") /\ \A t \in Range(mig[m].staged) : saga[t].at = "healthy"
  /\ Turn(m, "probe") /\ Still

(* A step of the transfer in hand.                                         *)
TransferStep(m) ==
  /\ mig[m].at \in {"stage", "health", "rollback", "commit"}
  /\ \E x \in Services : Step(<<m, x>>)
  /\ UNCHANGED <<mig, dns, activeServers>>

(* stageTransfer or waitUntilHealthy throws.                               *)
TransferFails(m) ==
  /\ mig[m].at \in {"stage", "health"}
  /\ \E t \in Range(mig[m].staged) : saga[t].at = "failed"
  /\ Turn(m, "revert") /\ Still

Served(m) == \A d \in Domains : ServiceOf[d] \in Group(m) => To[m] \in running[ServiceOf[d]]

(* probeOnTarget: the target's Traefik serves the domains.                 *)
Probe(m) ==
  /\ At(m, "probe")
  /\ \/ Served(m) /\ Turn(m, "dns") /\ UNCHANGED struck
     \/ ~Served(m) /\ Turn(m, "revert") /\ UNCHANGED struck
     \/ Strike("probe") /\ Turn(m, "revert")
  /\ UNCHANGED <<shape, world, saga, building, dns, activeServers>>

-----------------------------------------------------------------------------
(* What Cloudflare does: it rejects an update that would duplicate another *)
(* record.  Resolvers learn the new content and keep the old one for a     *)
(* while.                                                                  *)
Duplicates(r, content) ==
  content # Deleted /\ \E q \in RecordsOf(DomainOf[r]) \ {r} : points[q] = content

SetRecord(r, content) ==
  LET d == DomainOf[r]
  IN  /\ points' = Set(points, r, content)
      /\ visits' = Set(visits, d, visits[d] \cup ({ points'[q] : q \in RecordsOf(d) } \ {Deleted}))

Left(m) == DOMAIN mig[m].change \ (mig[m].reverts \cup mig[m].doing)

(* A mutant: what was changed is forgotten when a later domain fails.      *)
ApplyForgetting(m) ==
  /\ At(m, "dns")
  /\ \E r \in Left(m) :
       LET d == DomainOf[r] doing == mig[m].doing \cup {r}
       IN  /\ \/ /\ SetRecord(r, mig[m].change[r])
                 /\ mig' = IF RecordsOf(d) \cap Left(m) = {r}
                             THEN [mig EXCEPT ![m].doing = {}, ![m].reverts = @ \cup doing]
                             ELSE [mig EXCEPT ![m].doing = doing]
                 /\ UNCHANGED struck
              \/ /\ Strike("dns") /\ UNCHANGED dns
                 /\ mig' = [mig EXCEPT ![m].at = "revert", ![m].reverts = {}]
  /\ UNCHANGED <<shape, world, saga, building, activeServers>>

(* applyDnsChange, domain by domain, a record at a time.  The reverts of a *)
(* domain are known when all its records are changed: an error drops them. *)
Apply(m) ==
  /\ At(m, "dns")
  /\ \E r \in Left(m) :
       LET d == DomainOf[r]
           doing == mig[m].doing \cup {r}
           changes == SetRecord(r, mig[m].change[r])
           fails == mig' = [mig EXCEPT ![m].at = "revert", ![m].doing = {}]
       IN  /\ \A q \in mig[m].doing : DomainOf[q] = d
           /\ \/ /\ ~Duplicates(r, mig[m].change[r]) /\ changes
                 /\ mig' = IF RecordsOf(d) \cap Left(m) = {r}
                             THEN [mig EXCEPT ![m].doing = {}, ![m].reverts = @ \cup doing]
                             ELSE [mig EXCEPT ![m].doing = doing]
                 /\ UNCHANGED struck
              \/ Duplicates(r, mig[m].change[r]) /\ fails /\ UNCHANGED <<dns, struck>>
              \/ Strike(IF mig[m].doing = {} THEN "dns" ELSE "partly") /\ fails /\ UNCHANGED dns
              \/ ~Duplicates(r, mig[m].change[r]) /\ Strike("lost") /\ fails /\ changes
  /\ UNCHANGED <<shape, world, saga, building, activeServers>>

AllApplied(m) == At(m, "dns") /\ Left(m) = {} /\ Turn(m, "public") /\ Still

(* The environment is migrated, to be committed.                           *)
Through(m) == [mig[m] EXCEPT !.committed = @ \o mig[m].staged,
                             !.moved = @ \cup DOMAIN mig[m].change,
                             !.migrated = @ \cup {mig[m].group},
                             !.manualDns = @ \cup mig[m].manual]

(* probePublic: visitors are served.                                       *)
PublicCheck(m) ==
  /\ At(m, "public")
  /\ \/ /\ mig' = [mig EXCEPT ![m] = NextGroup(m, Through(m))]
        /\ UNCHANGED struck
     \/ DOMAIN mig[m].change # {} /\ Strike("public") /\ Turn(m, "revert")
  /\ UNCHANGED <<shape, world, saga, building, dns, activeServers>>

-----------------------------------------------------------------------------
(* Something failed: the records first, then the transfers in the reverse  *)
(* order.  Errors are logged only.                                         *)
RevertRecord(m) ==
  /\ At(m, "revert")
  /\ \E r \in mig[m].reverts :
       /\ \/ SetRecord(r, From[m]) /\ UNCHANGED struck
          \/ Strike("revert") /\ UNCHANGED dns
       /\ mig' = [mig EXCEPT ![m].reverts = @ \ {r}]
  /\ UNCHANGED <<shape, world, saga, building, activeServers>>

AllReverted(m) == At(m, "revert") /\ mig[m].reverts = {} /\ Turn(m, "rollback") /\ Still

RolledBack == {"undone", "stuck"}
LastStaged(m, t) ==
  \E i \in DOMAIN mig[m].staged :
    /\ mig[m].staged[i] = t /\ saga[t].at \notin RolledBack
    /\ \A j \in DOMAIN mig[m].staged : j > i => saga[mig[m].staged[j]].at \in RolledBack

(* A mutant: an error of a rollback is not caught.                         *)
RollbackUncaught(m) ==
  /\ At(m, "rollback")
  /\ \E t \in Sagas :
       /\ LastStaged(m, t)
       /\ saga[t].at \in {"failed", "staged", "check", "healthy"} /\ Rollback(t)
  /\ UNCHANGED <<mig, shape, world, building, struck, dns, activeServers>>

RollbackNext(m) ==
  /\ At(m, "rollback")
  /\ \E t \in Sagas :
       /\ LastStaged(m, t)
       /\ \/ saga[t].at \in {"failed", "staged", "check", "healthy"} /\ Rollback(t)
          \/ saga[t].at = "broken" /\ Go(t, "stuck")
  /\ UNCHANGED <<mig, shape, world, building, struck, dns, activeServers>>

(* What was prepared only is forgotten.                                    *)
AllRolledBack(m) ==
  /\ At(m, "rollback") /\ \A t \in Range(mig[m].staged) : saga[t].at \in RolledBack
  /\ saga' = [t \in Sagas |-> IF t[1] = m /\ t[2] \in Group(m) /\ saga[t].at = "prepared"
                                THEN [saga[t] EXCEPT !.at = "rejected"] ELSE saga[t]]
  /\ mig' = [mig EXCEPT ![m] = NextGroup(m, @)]
  /\ UNCHANGED <<shape, world, building, struck, dns, activeServers>>

-----------------------------------------------------------------------------
KeptRunning(m) == \E t \in Range(mig[m].committed) : ~shape[Subject[t]].stateful

(* A mutant: nobody waits for the resolvers.                               *)
DrainNot(m) == At(m, "drain") /\ Turn(m, "commit") /\ Still

(* The old copies run on until caches have expired, if any of them runs.   *)
Drain(m) ==
  /\ At(m, "drain") /\ Turn(m, "commit")
  /\ \/ /\ KeptRunning(m)
        /\ visits' = [d \in Domains |-> IF RecordsOf(d) \cap mig[m].moved # {}
                                          THEN { points[r] : r \in RecordsOf(d) } \ {Deleted}
                                          ELSE visits[d]]
        /\ UNCHANGED struck
     \/ ~KeptRunning(m) /\ UNCHANGED <<visits, struck>>
     \/ Strike("ttl") /\ UNCHANGED visits
  /\ UNCHANGED <<shape, world, saga, building, points, activeServers>>

Committed == {"moved", "unclean"}

CommitNext(m) ==
  /\ At(m, "commit")
  /\ \E i \in DOMAIN mig[m].committed :
       /\ saga[mig[m].committed[i]].at = "healthy"
       /\ \A j \in 1..(i - 1) : saga[mig[m].committed[j]].at \in Committed
       /\ Go(mig[m].committed[i], "logs")
  /\ UNCHANGED <<mig, shape, world, building, struck, dns, activeServers>>

Unlock(m) ==
  /\ At(m, "commit") /\ \A t \in Range(mig[m].committed) : saga[t].at \in Committed
  /\ Turn(m, "done")
  /\ activeServers' = activeServers \ {From[m], To[m]}
  /\ UNCHANGED <<vars, dns>>

-----------------------------------------------------------------------------
(* A resolver drops an old address by itself; Dokploy stops.  (Builds of   *)
(* the queue and the users' writes are left to Transfer.)                  *)
Expire(d) ==
  /\ visits' = Set(visits, d, { points[r] : r \in RecordsOf(d) } \ {Deleted})
  /\ UNCHANGED <<vars, mig, points, activeServers>>

MCrash ==
  /\ Crash
  /\ mig' = [m \in Migrations |-> IF mig[m].at \in Over \cup {"new"} THEN mig[m]
                                  ELSE [mig[m] EXCEPT !.at = "dead"]]
  /\ activeServers' = {}
  /\ UNCHANGED dns

Advance(m) ==
  \/ Lock(m)
  \/ PrepareService(m) \/ Analyze(m) \/ StageNext(m) \/ AllStaged(m)
  \/ HealthNext(m) \/ AllHealthy(m) \/ TransferStep(m) \/ TransferFails(m)
  \/ Probe(m) \/ Apply(m) \/ AllApplied(m) \/ PublicCheck(m)
  \/ RevertRecord(m) \/ AllReverted(m) \/ RollbackNext(m) \/ AllRolledBack(m)
  \/ Drain(m) \/ CommitNext(m) \/ Unlock(m)

Around ==
  \/ \E d \in Domains : Expire(d)
  \/ MCrash

MNext == Around \/ \E m \in Migrations : Select(m) \/ Advance(m)

MSpec == MInit /\ [][MNext]_mvars

(* Commands, statements and requests return, and the waits have deadlines. *)
MFairness == \A m \in Migrations : WF_mvars(Advance(m))

MFairSpec == MSpec /\ MFairness

-----------------------------------------------------------------------------
Underway(m) == mig[m].at \notin Over \cup {"new", "selected"}

(* The services are selected before the servers are locked, and read again *)
(* when they are prepared.  A service may have moved in between, to or     *)
(* from a server that this migration has not locked.                       *)
SelectionHolds ==
  \A t \in Sagas : saga[t].at # "new" => saga[t].source \in {From[t[1]], To[t[1]]}

(* The lock of the servers keeps two transfers of one service apart, as    *)
(* long as services are still where they were selected.                    *)
NoOverlap == SelectionHolds => "overlap" \notin struck

(* The only record of its domain that pointed where it did.                *)
Lone(r) == \A q \in RecordsOf(DomainOf[r]) : Zone[q] = Zone[r] => q = r

(* "Stateless services are deployed on the target while the source keeps   *)
(* serving": no step cuts off the visitors of a stateless service, those   *)
(* with an old address included, whatever fails before the DNS is touched  *)
(* and if resolvers forget in time.  (When something fails later, the new  *)
(* copy is removed while resolvers know its address, and with two records  *)
(* of a domain on one server something does: Cloudflare rejects the second *)
(* change.)  The domain pointed to no other server before, and no user was *)
(* told to update it: one that could not be analyzed points to the old     *)
(* copy until somebody does.                                               *)
VisitorsServed ==
  [][ \A d \in Domains :
        LET x == ServiceOf[d]
        IN  /\ SelectionHolds /\ ~shape[x].stateful /\ visits[d] \subseteq running[x]
            /\ \A r \in RecordsOf(d) : Zone[r] = Home
            /\ \A m \in Migrations : d \notin mig[m].manualDns
            /\ \A r \in Records : Lone(r)
            /\ struck' \cap {"crash", "db", "dns", "partly", "lost", "public", "revert", "ttl"} = {}
            => visits'[d] \subseteq running'[x] ]_mvars

(* "An app and the database it uses switch together": while a migration    *)
(* goes on, an environment that is through is on the target with all its   *)
(* services and none of their records on the source, but those of domains  *)
(* that the user is told to update.  One that failed is on the source with *)
(* every service that was found there, unless a statement of a roll-back   *)
(* fails, and so is every record that was alone there in its domain, if    *)
(* the service was in no other migration, unless the answer to a change is *)
(* lost or it cannot be changed back.                                      *)
EnvironmentTogether ==
  \A m \in Migrations : Underway(m) /\ SelectionHolds =>
    \A x \in mig[m].chosen :
      LET own == { r \in Records : ServiceOf[DomainOf[r]] = x }
          over == EnvOf[x] < mig[m].group \/ mig[m].at \in {"drain", "commit"}
          found == saga[<<m, x>>].at # "new" /\ saga[<<m, x>>].source = From[m]
          alone == \A n \in Migrations \ {m} : saga[<<n, x>>].at = "new"
      IN  /\ EnvOf[x] \in mig[m].migrated =>
               /\ record[x] = To[m] /\ To[m] \in running[x]
               /\ \A r \in own : points[r] = From[m] => DomainOf[r] \in mig[m].manualDns
          /\ over /\ EnvOf[x] \notin mig[m].migrated =>
               /\ found /\ Safe({"db"}) => record[x] = From[m]
               /\ alone /\ Safe({"lost", "revert"}) =>
                    \A r \in own : Zone[r] = From[m] /\ Lone(r) => points[r] = From[m]

(* Every migration ends, and releases its servers.                         *)
MigrationEnds ==
  \A m \in Migrations :
    (mig[m].at # "new") ~> (mig[m].at \in Over /\ {From[m], To[m]} \cap activeServers = {})

(* "Any failure up to that point rolls the whole environment back, DNS     *)
(* included."                                                              *)
DnsIncluded ==
  [][ \A m \in Migrations :
        mig[m].at = "rollback" /\ mig'[m].at \notin {"rollback", "dead"} =>
          \A r \in DOMAIN mig[m].change : points[r] = From[m] ]_mvars
=============================================================================
