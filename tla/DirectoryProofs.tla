--------------------------- MODULE DirectoryProofs ----------------------------
(***************************************************************************)
(* Theorems about FeishuSync, for every number of executions, every length *)
(* of the lease and every course of the clock, about OrgDirectory, for any *)
(* units, departments, members and requests at once, about                 *)
(* AgentConfiguration, for any staff and editors, and about FeishuClient,  *)
(* for any departments and users at Feishu.                                *)
(***************************************************************************)
EXTENDS FeishuSync, FeishuClient, OrgDirectory, AgentConfiguration, FiniteSetTheorems, WellFoundedInduction, TLAPS

-----------------------------------------------------------------------------
(* Synchronizations with Feishu.                                           *)

Places == {"idle", "claiming", "claimed", "fetching", "renewed", "waiting", "applying", "failing"}
Statuses == {"none", "IDLE", "RUNNING", "SUCCEEDED", "FAILED"}

Row == [status : Statuses, owner : Syncs \cup {NoSync}, expires : Nat, version : Nat,
        app : Apps \cup {NoApp}, synced : BOOLEAN]
Entry == [at : Places, time : Nat, version : Nat, seen : Nat]

SyncTypeOK ==
  /\ integration \in Row /\ syncs \in [Syncs -> Entry]
  /\ moment \in Nat /\ applications \in Nat
  /\ binding \in Apps \cup {NoApp} /\ applyingSync \in Syncs \cup {NoSync}

\* The directory lock is held by the execution that applies, and by no other.
LockIsHeld == \A s \in Syncs : syncs[s].at = "applying" <=> applyingSync = s

\* While the row names an execution, nothing is applied behind its back: who
\* applies ends its own lease, and a lease passes to an execution that has not
\* fetched yet.
NothingBehind ==
  \A s \in Syncs :
    integration.owner = s /\ syncs[s].at \in {"fetching", "renewed", "waiting", "applying"} =>
      syncs[s].seen = applications

SyncInv == SyncTypeOK /\ LockIsHeld /\ NothingBehind

-----------------------------------------------------------------------------

\* One column of the row, or one part of an entry, replaced at a time.
LEMMA RowReplaced ==
  \A row \in Row :
    /\ \A status \in Statuses :
         [row EXCEPT !.status = status] \in Row /\ [row EXCEPT !.status = status].owner = row.owner
    /\ \A owner \in Syncs \cup {NoSync} :
         [row EXCEPT !.owner = owner] \in Row /\ [row EXCEPT !.owner = owner].owner = owner
    /\ \A n \in Nat :
         /\ [row EXCEPT !.expires = n] \in Row /\ [row EXCEPT !.expires = n].owner = row.owner
         /\ [row EXCEPT !.version = n] \in Row /\ [row EXCEPT !.version = n].owner = row.owner
    /\ \A app \in Apps \cup {NoApp} :
         [row EXCEPT !.app = app] \in Row /\ [row EXCEPT !.app = app].owner = row.owner
    /\ [row EXCEPT !.synced = TRUE] \in Row /\ [row EXCEPT !.synced = TRUE].owner = row.owner
BY DEF Row

LEMMA EndedIsRow ==
  ASSUME SyncTypeOK, NEW status \in Statuses
  PROVE  Ended(status) \in Row /\ Ended(status).owner = NoSync
<1> DEFINE r1 == [integration EXCEPT !.status = status]
           r2 == [r1 EXCEPT !.owner = NoSync]
           r3 == [r2 EXCEPT !.expires = 0]
           r4 == [r3 EXCEPT !.version = integration.version + 1]
<1>1. r1 \in Row
  BY RowReplaced DEF SyncTypeOK
<1>2. r2 \in Row /\ r2.owner = NoSync
  <2> HIDE DEF r1
  <2> QED BY <1>1, RowReplaced
<1>3. r3 \in Row /\ r3.owner = NoSync
  <2> HIDE DEF r2
  <2> QED BY <1>2, RowReplaced
<1>4. r4 \in Row /\ r4.owner = NoSync
  <2> HIDE DEF r3
  <2>1. integration.version + 1 \in Nat
    BY DEF SyncTypeOK, Row
  <2> QED BY <1>3, <2>1, RowReplaced
<1> QED BY <1>4 DEF Ended

LEMMA BoundIsRow ==
  ASSUME SyncTypeOK, BindWrites
  PROVE  integration' \in Row /\ integration'.owner = integration.owner
<1> DEFINE r1 == [integration EXCEPT !.app = binding]
           r2 == [r1 EXCEPT !.version = integration.version + 1]
           r3 == [r2 EXCEPT !.status = IF integration.status = "none" THEN "IDLE" ELSE integration.status]
<1>1. r1 \in Row /\ r1.owner = integration.owner
  BY RowReplaced DEF SyncTypeOK
<1>2. r2 \in Row /\ r2.owner = integration.owner
  <2> HIDE DEF r1
  <2>1. integration.version + 1 \in Nat
    BY DEF SyncTypeOK, Row
  <2> QED BY <1>1, <2>1, RowReplaced
<1>3. r3 \in Row /\ r3.owner = integration.owner
  <2> HIDE DEF r2
  <2>1. (IF integration.status = "none" THEN "IDLE" ELSE integration.status) \in Statuses
    BY DEF SyncTypeOK, Row, Statuses
  <2> QED BY <1>2, <2>1, RowReplaced
<1> QED BY <1>3 DEF BindWrites

LEMMA ClaimedIsRow ==
  ASSUME SyncTypeOK, NEW s \in Syncs, ClaimWrites(s)
  PROVE  integration' \in Row /\ integration'.owner = s
<1> DEFINE r1 == [integration EXCEPT !.status = "RUNNING"]
           r2 == [r1 EXCEPT !.owner = s]
           r3 == [r2 EXCEPT !.version = integration.version + 1]
           r4 == [r3 EXCEPT !.expires = syncs[s].time + LeaseLength]
           r5 == [r4 EXCEPT !.app = ResolveConnection(integration.app)]
<1>1. r1 \in Row
  BY RowReplaced DEF SyncTypeOK, Statuses
<1>2. r2 \in Row /\ r2.owner = s
  <2> HIDE DEF r1
  <2> QED BY <1>1, RowReplaced
<1>3. r3 \in Row /\ r3.owner = s
  <2> HIDE DEF r2
  <2>1. integration.version + 1 \in Nat
    BY DEF SyncTypeOK, Row
  <2> QED BY <1>2, <2>1, RowReplaced
<1>4. r4 \in Row /\ r4.owner = s
  <2> HIDE DEF r3
  <2>1. syncs[s].time + LeaseLength \in Nat
    BY FeishuAssumption DEF SyncTypeOK, Entry
  <2> QED BY <1>3, <2>1, RowReplaced
<1>5. r5 \in Row /\ r5.owner = s
  <2> HIDE DEF r4
  <2>1. ResolveConnection(integration.app) \in Apps \cup {NoApp}
    BY FeishuAssumption DEF SyncTypeOK, Row, ResolveConnection
  <2> QED BY <1>4, <2>1, RowReplaced
<1> QED BY <1>5 DEF ClaimWrites

LEMMA ClockIsRead ==
  ASSUME SyncTypeOK, NEW s \in Syncs, NEW now \in ReadClock(s)
  PROVE  now \in Nat
BY DEF SyncTypeOK, ReadClock, Row, Entry

LEMMA SyncInitHolds == SyncInit => SyncInv
BY FeishuAssumption
   DEF SyncInit, SyncInv, SyncTypeOK, LockIsHeld, NothingBehind, NoRow, Idle, Statuses, Places, Row, Entry

\* What an execution does to its own entry, whatever it does to the row.
LEMMA EntryMoves ==
  ASSUME SyncTypeOK, NEW s \in Syncs, NEW at \in Places, Goes(s, at)
  PROVE  /\ syncs' \in [Syncs -> Entry]
         /\ syncs'[s].at = at /\ syncs'[s].seen = syncs[s].seen
         /\ \A t \in Syncs \ {s} : syncs'[t] = syncs[t]
BY DEF SyncTypeOK, Goes, Entry

LEMMA EntryEnds ==
  ASSUME SyncTypeOK, NEW s \in Syncs, Ends(s)
  PROVE  /\ syncs' \in [Syncs -> Entry]
         /\ syncs'[s].at = "idle"
         /\ \A t \in Syncs \ {s} : syncs'[t] = syncs[t]
BY DEF SyncTypeOK, Ends, Idle, Places, Entry

-----------------------------------------------------------------------------
LEMMA SyncStep == SyncInv /\ [SyncNext]_syncVars => SyncInv'
<1> SUFFICES ASSUME SyncInv, [SyncNext]_syncVars PROVE SyncInv'
  OBVIOUS
<1> USE FeishuAssumption DEF SyncInv
<1>1. CASE UNCHANGED syncVars
  BY <1>1 DEF syncVars, SyncTypeOK, LockIsHeld, NothingBehind
<1>2. CASE (\E app \in Apps : BindReads(app)) \/ BindWrites \/ BindFails \/ MomentPasses
  <2>1. /\ UNCHANGED <<syncs, applyingSync, applications>>
        /\ integration'.owner = integration.owner
    BY <1>2, BoundIsRow DEF BindReads, BindWrites, BindFails, MomentPasses
  <2>2. integration' \in Row
    BY <1>2, BoundIsRow DEF BindReads, BindWrites, BindFails, MomentPasses, SyncTypeOK
  <2>3. SyncTypeOK'
    BY <1>2, <2>1, <2>2 DEF BindReads, BindWrites, BindFails, MomentPasses, SyncTypeOK
  <2> QED BY <2>1, <2>3 DEF LockIsHeld, NothingBehind
<1>3. ASSUME NEW s \in Syncs, ClaimReads(s) PROVE SyncInv'
  <2>1. PICK startedAt \in 0 .. moment :
          syncs' = [syncs EXCEPT ![s] = [Idle EXCEPT !.at = "claiming", !.time = startedAt,
                                                     !.version = integration.version]]
    BY <1>3 DEF ClaimReads
  <2>2. Idle \in Entry /\ "claiming" \in Places /\ startedAt \in Nat /\ integration.version \in Nat
    BY DEF SyncTypeOK, Row, Entry, Places, Idle
  <2> DEFINE e1 == [Idle EXCEPT !.at = "claiming"]
             e2 == [e1 EXCEPT !.time = startedAt]
             e3 == [e2 EXCEPT !.version = integration.version]
  <2>3. e1 \in Entry /\ e1.at = "claiming"
    BY <2>2 DEF Entry, Idle
  <2>4. e2 \in Entry /\ e2.at = "claiming"
    <3> HIDE DEF e1
    <3> QED BY <2>2, <2>3 DEF Entry
  <2>5. e3 \in Entry /\ e3.at = "claiming"
    <3> HIDE DEF e2
    <3> QED BY <2>2, <2>4 DEF Entry
  <2>6. syncs' = [syncs EXCEPT ![s] = e3]
    BY <2>1
  <2> HIDE DEF e3
  <2>7. SyncTypeOK'
    BY <1>3, <2>5, <2>6 DEF ClaimReads, SyncTypeOK
  <2>8. syncs'[s].at = "claiming" /\ \A t \in Syncs \ {s} : syncs'[t] = syncs[t]
    BY <2>5, <2>6 DEF SyncTypeOK
  <2> QED BY <1>3, <2>7, <2>8 DEF ClaimReads, LockIsHeld, NothingBehind
<1>4. ASSUME NEW s \in Syncs, ClaimWrites(s) PROVE SyncInv'
  <2>1. SyncTypeOK'
    BY <1>4, ClaimedIsRow DEF ClaimWrites, SyncTypeOK, Idle, Places, Entry
  <2>2. syncs'[s].at = "claimed" /\ (\A t \in Syncs \ {s} : syncs'[t] = syncs[t]) /\ integration'.owner = s
    BY <1>4, ClaimedIsRow DEF ClaimWrites, SyncTypeOK, Idle, Entry
  <2> QED BY <1>4, <2>1, <2>2 DEF ClaimWrites, LockIsHeld, NothingBehind
<1>5. ASSUME NEW s \in Syncs, FetchSnapshot(s) PROVE SyncInv'
  <2>1. SyncTypeOK'
    BY <1>5 DEF FetchSnapshot, SyncTypeOK, Idle, Places, Entry
  <2> QED BY <1>5, <2>1 DEF FetchSnapshot, SyncTypeOK, LockIsHeld, NothingBehind, Idle
<1>6. ASSUME NEW s \in Syncs, RenewLease(s) PROVE SyncInv'
  <2>1. PICK now \in ReadClock(s) :
          IF Holds(s, now)
          THEN integration' = [integration EXCEPT !.expires = now + LeaseLength] /\ Goes(s, "renewed")
          ELSE UNCHANGED integration /\ Goes(s, "failing")
    BY <1>6 DEF RenewLease
  <2>2. PICK at \in {"renewed", "failing"} : Goes(s, at)
    BY <2>1
  <2>3. now + LeaseLength \in Nat
    BY ClockIsRead
  <2>4. integration' \in Row /\ integration'.owner = integration.owner
    <3>1. integration' = integration \/ integration' = [integration EXCEPT !.expires = now + LeaseLength]
      BY <2>1
    <3>2. \A n \in Nat : [integration EXCEPT !.expires = n] \in Row
                       /\ [integration EXCEPT !.expires = n].owner = integration.owner
      BY RowReplaced DEF SyncTypeOK
    <3>3. /\ [integration EXCEPT !.expires = now + LeaseLength] \in Row
          /\ [integration EXCEPT !.expires = now + LeaseLength].owner = integration.owner
      BY <2>3, <3>2
    <3> QED BY <3>1, <3>3 DEF SyncTypeOK
  <2>5. SyncTypeOK'
    BY <1>6, <2>2, <2>4, EntryMoves DEF RenewLease, SyncTypeOK, Places
  <2> QED BY <1>6, <2>2, <2>4, <2>5, EntryMoves DEF RenewLease, LockIsHeld, NothingBehind, Places
<1>7. ASSUME NEW s \in Syncs, ApplyBegins(s) PROVE SyncInv'
  <2>1. PICK at \in {"waiting", "failing"} : Goes(s, at)
    BY <1>7 DEF ApplyBegins
  <2>2. SyncTypeOK'
    BY <1>7, <2>1, EntryMoves DEF ApplyBegins, SyncTypeOK, Places
  <2> QED BY <1>7, <2>1, <2>2, EntryMoves DEF ApplyBegins, LockIsHeld, NothingBehind, Places
<1>8. ASSUME NEW s \in Syncs, ApplyLocks(s) PROVE SyncInv'
  <2>1. SyncTypeOK'
    BY <1>8, EntryMoves DEF ApplyLocks, SyncTypeOK, Places
  <2> QED BY <1>8, <2>1, EntryMoves DEF ApplyLocks, SyncTypeOK, LockIsHeld, NothingBehind, Places
<1>9. ASSUME NEW s \in Syncs, ApplySnapshotCommits(s) PROVE SyncInv'
  <2>1. PICK now \in ReadClock(s) :
          IF Holds(s, now)
          THEN /\ integration' = [Ended("SUCCEEDED") EXCEPT !.synced = TRUE]
               /\ applications' = applications + 1 /\ Ends(s)
          ELSE UNCHANGED <<integration, applications>> /\ Goes(s, "failing")
    BY <1>9 DEF ApplySnapshotCommits
  <2>2. CASE Holds(s, now)
    <3>2. integration' \in Row /\ integration'.owner = NoSync
      <4>1. "SUCCEEDED" \in Statuses
        BY DEF Statuses
      <4>2. Ended("SUCCEEDED") \in Row /\ Ended("SUCCEEDED").owner = NoSync
        BY <4>1, EndedIsRow
      <4> QED BY <2>1, <2>2, <4>2, RowReplaced DEF Statuses
    <3>1. SyncTypeOK' /\ integration'.owner = NoSync
      BY <1>9, <2>1, <2>2, <3>2, EntryEnds DEF ApplySnapshotCommits, SyncTypeOK
    <3> QED BY <1>9, <2>1, <2>2, <3>1, EntryEnds DEF ApplySnapshotCommits, LockIsHeld, NothingBehind
  <2>3. CASE ~Holds(s, now)
    <3>1. SyncTypeOK'
      BY <1>9, <2>1, <2>3, EntryMoves DEF ApplySnapshotCommits, SyncTypeOK, Places
    <3> QED BY <1>9, <2>1, <2>3, <3>1, EntryMoves DEF ApplySnapshotCommits, LockIsHeld, NothingBehind, Places
  <2> QED BY <2>2, <2>3
<1>10. ASSUME NEW s \in Syncs, Fails(s) PROVE SyncInv'
  <2>1. SyncTypeOK'
    BY <1>10, EntryMoves DEF Fails, Frees, SyncTypeOK, Places
  <2> QED BY <1>10, <2>1, EntryMoves DEF Fails, Frees, SyncTypeOK, LockIsHeld, NothingBehind, Places
<1>11. ASSUME NEW s \in Syncs, RecordFailure(s) PROVE SyncInv'
  <2>1. integration' = integration \/ integration' = Ended("FAILED")
    BY <1>11 DEF RecordFailure
  <2>2. /\ integration'.owner \in {integration.owner, NoSync}
        /\ integration' \in Row
    BY <2>1, EndedIsRow DEF SyncTypeOK, Statuses
  <2>3. SyncTypeOK'
    BY <1>11, <2>2, EntryEnds DEF RecordFailure, SyncTypeOK
  <2> QED BY <1>11, <2>2, <2>3, EntryEnds DEF RecordFailure, LockIsHeld, NothingBehind
<1>12. ASSUME NEW s \in Syncs, Stops(s) PROVE SyncInv'
  <2>1. SyncTypeOK'
    BY <1>12, EntryEnds DEF Stops, Frees, SyncTypeOK
  <2>2. LockIsHeld'
    BY <1>12, <2>1, EntryEnds DEF Stops, Frees, SyncTypeOK, LockIsHeld
  <2>3. NothingBehind'
    BY <1>12, EntryEnds DEF Stops, NothingBehind
  <2> QED BY <2>1, <2>2, <2>3
<1> QED BY <1>1, <1>2, <1>3, <1>4, <1>5, <1>6, <1>7, <1>8, <1>9, <1>10, <1>11, <1>12 DEF SyncNext

(* The directory lock is held by the execution that applies, and while the row
   names an execution nothing is applied behind its back (claim, renewal and
   applySnapshot compare the owner): for any executions, lease and clock. *)
THEOREM SynchronizationInvariant == SyncSpec => []SyncInv
BY SyncInitHolds, SyncStep, PTL DEF SyncSpec

-----------------------------------------------------------------------------
\* A step that applies a snapshot is the commit of the execution with the lock,
\* which the row still names.
LEMMA ApplierHolds ==
  ASSUME SyncInv, SyncNext, applications' # applications
  PROVE  \E s \in Syncs : syncs[s].at = "applying" /\ integration.owner = s
<1>1. PICK s \in Syncs : ApplySnapshotCommits(s)
  BY DEF SyncNext, BindReads, BindWrites, BindFails, MomentPasses, ClaimReads, ClaimWrites, FetchSnapshot,
         RenewLease, ApplyBegins, ApplyLocks, Fails, RecordFailure, Stops
<1>2. syncs[s].at = "applying" /\ integration.owner = s
  BY <1>1 DEF ApplySnapshotCommits, Holds, Runs
<1> QED BY <1>2

(* Snapshots are applied in the order of their fetches, and none that was
   fetched before another was applied: applySnapshot's fenced commit, for
   leases of any length and any number of executions. *)
THEOREM SnapshotsInOrder == SyncSpec => AppliedInOrder
<1>1. SyncInv /\ [SyncNext]_syncVars =>
        [applications' # applications => syncs[applyingSync].seen = applications]_syncVars
  <2> SUFFICES ASSUME SyncInv, SyncNext, applications' # applications
               PROVE  syncs[applyingSync].seen = applications
    OBVIOUS
  <2>1. PICK s \in Syncs : syncs[s].at = "applying" /\ integration.owner = s
    BY ApplierHolds
  <2>2. applyingSync = s /\ syncs[s].seen = applications
    BY <2>1 DEF SyncInv, LockIsHeld, NothingBehind
  <2> QED BY <2>2
<1> QED BY <1>1, SynchronizationInvariant, PTL DEF SyncSpec, AppliedInOrder

-----------------------------------------------------------------------------
(* The organization.                                                       *)

UnitStatus == {"none", "ACTIVE", "ARCHIVED"}
Role == {"none", "OWNER", "ADMIN", "MEMBER"}
MemberStatus == {"none", "ACTIVE", "INACTIVE"}
Post == [unit : Units \cup {NoUnit}, status : {"none", "ACTIVE", "SUSPENDED", "TERMINATED"}]
AllDepts == Depts \cup {RootDept}

OrgTypes ==
  /\ unitStatus \in [Units -> UnitStatus] /\ parent \in [Units -> Units \cup {NoUnit}]
  /\ boundTo \in [AllDepts -> Units \cup {NoUnit}]
  /\ role \in [Members -> Role] /\ memberStatus \in [Members -> MemberStatus]
  /\ home \in [Locals -> Units \cup {NoUnit}]
  /\ posts \in [Remotes -> [AllDepts -> Post]]
  /\ directoryLock \in Admins \cup {NoAdmin} /\ orders \in [Admins -> Orders \cup {NoOrder}]

\* A unit that has not been made has nothing to do with the others.
UnusedAreApart ==
  \A u \in Unused : ~Bound(u) /\ \A v \in Units : parent[v] # u

\* Departments have units of their own, each under another unit.
DeptsHaveUnits ==
  /\ \A d \in Depts : boundTo[d] # NoUnit => parent[boundTo[d]] # NoUnit
  /\ \A d, e \in Depts : d # e /\ boundTo[d] # NoUnit => boundTo[d] # boundTo[e]

\* Who comes from Feishu owns nothing.
OwnersAreLocal == \A r \in Remotes : role[r] # "OWNER"

\* What a request has checked under the lock is still so, except that a
\* knowledge base may want a unit by now and an owner may have become active.
StillAllowed(o) ==
  CASE o.kind = "create unit" -> o.parent = NoUnit \/ Active(o.parent)
    [] o.kind = "move unit" -> Active(o.unit) /\ ~Bound(o.unit) /\ MayBeParent(o.parent, o.unit)
    [] o.kind = "archive unit" ->
         ~Staffed(o.unit) /\ \A u \in Units : ~(Active(u) /\ parent[u] = o.unit)
    [] o.kind = "add member" -> role[o.member] = "none" /\ Active(o.unit)
    [] o.kind = "update member" ->
         /\ role[o.member] = "OWNER" /\ (o.role \notin {"same", "OWNER"} \/ o.status = "INACTIVE") =>
              \E m \in ActiveOwners : m # o.member
         /\ o.unit = NoUnit \/ Active(o.unit)

UnderTheLock ==
  \A t \in Admins : orders[t] # NoOrder => directoryLock = t /\ StillAllowed(orders[t])

OrgInv ==
  /\ OrgTypes /\ UnusedAreApart /\ DeptsHaveUnits /\ OwnersAreLocal /\ UnderTheLock
  /\ ActiveOwnerRemains /\ DirectorySound

-----------------------------------------------------------------------------

USE DEF orgVars, unitVars, memberVars, postVars, scopeVars, requestVars

LEMMA UnitsAreNumbers == Units \subseteq Nat \ {0} /\ NoUnit \notin Units /\ RootDept \notin Depts
<1>1. Cardinality(Units) \in Nat /\ Cardinality(Depts) \in Nat
  BY OrgAssumption, FS_CardinalityType
<1> QED BY <1>1, OrgAssumption DEF NoUnit, RootDept

\* Departments get different units.
LEMMA FreshAreDifferent ==
  ASSUME NEW new \in SUBSET Depts, NEW unused \in SUBSET Units, Cardinality(new) <= Cardinality(unused)
  PROVE  /\ FreshUnits(new, unused) \in [new -> unused]
         /\ \A d, e \in new : d # e => FreshUnits(new, unused)[d] # FreshUnits(new, unused)[e]
<1>1. IsFiniteSet(new) /\ IsFiniteSet(unused)
  BY OrgAssumption, FS_Subset
<1>2. PICK g \in Bijection(1 .. Cardinality(new), new) : TRUE
  BY <1>1, FS_CardinalityType DEF ExistsBijection
<1>3. PICK h \in Bijection(1 .. Cardinality(unused), unused) : TRUE
  BY <1>1, FS_CardinalityType DEF ExistsBijection
<1>4. Cardinality(new) \in Nat /\ Cardinality(unused) \in Nat
  BY <1>1, FS_CardinalityType
<1> DEFINE place(d) == CHOOSE i \in 1 .. Cardinality(new) : g[i] = d
           fresh == [d \in new |-> h[place(d)]]
<1>5. \A d \in new : place(d) \in 1 .. Cardinality(new) /\ g[place(d)] = d
  <2> SUFFICES ASSUME NEW d \in new PROVE \E i \in 1 .. Cardinality(new) : g[i] = d
    OBVIOUS
  <2> QED BY <1>2 DEF Bijection, Surjection
<1> HIDE DEF place
<1>6. \A i \in 1 .. Cardinality(new) : i \in 1 .. Cardinality(unused)
  BY <1>4
<1>7. fresh \in [new -> unused] /\ \A d, e \in new : d # e => fresh[d] # fresh[e]
  <2>1. h \in [1 .. Cardinality(unused) -> unused]
        /\ \A i, k \in 1 .. Cardinality(unused) : h[i] = h[k] => i = k
    BY <1>3 DEF Bijection, Injection, IsInjective
  <2>2. \A d \in new : fresh[d] = h[place(d)] /\ place(d) \in 1 .. Cardinality(unused)
    BY <1>5, <1>6
  <2>3. \A d, e \in new : fresh[d] = fresh[e] => d = e
    BY <1>5, <2>1, <2>2
  <2> QED BY <2>1, <2>2, <2>3
<1> HIDE DEF fresh
<1> QED BY <1>7 DEF FreshUnits

OrderKinds == {"create unit", "move unit", "archive unit", "add member", "update member"}

\* What the parts of an order are.
LEMMA OrderParts ==
  ASSUME NEW o \in Orders \cup {NoOrder}
  PROVE  /\ o = NoOrder \/ o.kind \in OrderKinds
         /\ o.kind = "create unit" => o.parent \in Units \cup {NoUnit}
         /\ o.kind = "move unit" => o.unit \in Units /\ o.parent \in Units \cup {NoUnit}
         /\ o.kind = "archive unit" => o.unit \in Units
         /\ o.kind = "add member" =>
              o.member \in Locals /\ o.role \in {"OWNER", "MEMBER"} /\ o.status \in {"ACTIVE", "INACTIVE"} /\ o.unit \in Units
         /\ o.kind = "update member" =>
              /\ o.member \in Members /\ o.role \in {"same", "OWNER", "ADMIN", "MEMBER"}
              /\ o.status \in {"same", "ACTIVE", "INACTIVE"} /\ o.unit \in Units \cup {NoUnit}
              /\ o.member \in Remotes => o.role # "OWNER" /\ o.unit = NoUnit
<1> USE DEF NoOrder, Members, OrderKinds
<1>1. CASE o \in [kind : {"create unit"}, parent : Units \cup {NoUnit}]
  BY <1>1
<1>2. CASE o \in [kind : {"move unit"}, unit : Units, parent : Units \cup {NoUnit}]
  BY <1>2
<1>3. CASE o \in [kind : {"archive unit"}, unit : Units]
  BY <1>3
<1>4. CASE o \in [kind : {"add member"}, member : Locals, role : {"OWNER", "MEMBER"},
                  status : {"ACTIVE", "INACTIVE"}, unit : Units]
  BY <1>4
<1>5. CASE o \in [kind : {"update member"}, member : Locals, role : {"same", "OWNER", "MEMBER"},
                  status : {"same", "ACTIVE", "INACTIVE"}, unit : Units \cup {NoUnit}]
  BY <1>5, OrgAssumption
<1>6. CASE o \in [kind : {"update member"}, member : Remotes, role : {"ADMIN", "MEMBER"},
                  status : {"same"}, unit : {NoUnit}]
  BY <1>6
<1>7. CASE o = NoOrder
  BY <1>7
<1> QED BY <1>1, <1>2, <1>3, <1>4, <1>5, <1>6, <1>7 DEF Orders

\* Putting a unit under one that it is not above makes no circle.
LEMMA MovedForest ==
  ASSUME parent \in [Units -> Units \cup {NoUnit}],
         \A S \in SUBSET Units : S # {} => \E v \in S : parent[v] \notin S,
         NEW u \in Units, NEW p \in Units \cup {NoUnit}, p = NoUnit \/ u \notin Lineage(p),
         parent' = [parent EXCEPT ![u] = p]
  PROVE  \A S \in SUBSET Units : S # {} => \E v \in S : parent'[v] \notin S
<1> SUFFICES ASSUME NEW S \in SUBSET Units, S # {}, \A v \in S : parent'[v] \in S PROVE FALSE
  OBVIOUS
<1>1. u \in S
  OBVIOUS
<1>2. p \in S /\ p # NoUnit
  BY <1>1, UnitsAreNumbers
<1>3. PICK T \in SUBSET Units : p \in T /\ (\A x \in T : parent[x] \in T \cup {NoUnit}) /\ u \notin T
  BY <1>2 DEF Lineage
<1>4. ASSUME NEW x \in S \cap T PROVE parent[x] \in S \cap T
  <2>1. x \in Units /\ x # u
    BY <1>3
  <2>2. parent'[x] = parent[x] /\ parent'[x] \in S
    BY <2>1
  <2> QED BY <2>2, <1>3, UnitsAreNumbers
<1>5. p \in S \cap T /\ S \cap T \in SUBSET Units
  BY <1>2, <1>3
<1> QED BY <1>4, <1>5

LEMMA AnotherOne ==
  ASSUME NEW S, NEW m, Cardinality(S) > 1
  PROVE  \E x \in S : x # m
<1>1. Cardinality({}) = 0 /\ Cardinality({m}) = 1
  BY FS_EmptySet, FS_Singleton
<1>2. S # {} /\ S # {m}
  BY <1>1
<1> QED BY <1>2, Zenon

LEMMA OrgStarts == OrgInit => OrgInv
<1> SUFFICES ASSUME OrgInit PROVE OrgInv
  OBVIOUS
<1> USE OrgAssumption, UnitsAreNumbers
<1> PICK owner \in Locals :
      /\ role = [m \in Members |-> IF m = owner THEN "OWNER" ELSE "none"]
      /\ memberStatus = [m \in Members |-> IF m = owner THEN "ACTIVE" ELSE "none"]
      /\ home = [m \in Locals |-> IF m = owner THEN 1 ELSE NoUnit]
  BY DEF OrgInit
<1> owner \in Members /\ \A r \in Remotes : r # owner /\ r \in Members
  BY DEF Members
<1>1. OrgTypes
  BY DEF OrgInit, OrgTypes, UnitStatus, Role, MemberStatus, Post, AllDepts, NoPost, NoOrder
<1>2. UnusedAreApart /\ DeptsHaveUnits
  BY DEF OrgInit, UnusedAreApart, DeptsHaveUnits, Bound, Unused
<1>3. OwnersAreLocal /\ UnderTheLock
  BY DEF OrgInit, OwnersAreLocal, UnderTheLock
<1>4. ActiveOwnerRemains
  BY DEF ActiveOwnerRemains, ActiveOwners
<1>5. DirectorySound
  BY DEF OrgInit, DirectorySound, Active, Staffed, NoPost
<1> QED BY <1>1, <1>2, <1>3, <1>4, <1>5 DEF OrgInv

\* Where the organization itself stays as it is, so does what was said of it.
LEMMA NothingMoves ==
  ASSUME OrgInv, UNCHANGED <<unitStatus, parent, boundTo, role, home, posts>>, ActiveOwners \subseteq ActiveOwners'
  PROVE  /\ UnusedAreApart' /\ DeptsHaveUnits' /\ OwnersAreLocal' /\ ActiveOwnerRemains' /\ DirectorySound'
         /\ \A o \in Orders : StillAllowed(o) => StillAllowed(o)'
<1>1. /\ \A u \in Units \cup {NoUnit} : (Active(u) <=> Active(u)') /\ Lineage(u)' = Lineage(u)
      /\ \A u \in Units : (Bound(u) <=> Bound(u)') /\ (Staffed(u) <=> Staffed(u)')
      /\ Unused' = Unused
  BY DEF Active, Lineage, Bound, Staffed, Unused
<1>2. UnusedAreApart' /\ DeptsHaveUnits' /\ OwnersAreLocal' /\ ActiveOwnerRemains' /\ DirectorySound'
  <2>1. UnusedAreApart'
    BY <1>1 DEF OrgInv, UnusedAreApart, Bound
  <2>2. DeptsHaveUnits' /\ OwnersAreLocal' /\ ActiveOwnerRemains'
    BY DEF OrgInv, DeptsHaveUnits, OwnersAreLocal, ActiveOwnerRemains
  <2>3. DirectorySound'
    BY DEF OrgInv, DirectorySound, Active, Staffed
  <2> QED BY <2>1, <2>2, <2>3
<1>3. ASSUME NEW o \in Orders, StillAllowed(o) PROVE StillAllowed(o)'
  <2> USE OrderParts, <1>1, <1>3
  <2>0. o.kind \in OrderKinds /\ o.kind # "none"
    <3>1. o.kind # "none"
      BY DEF Orders
    <3>2. o = NoOrder \/ o.kind \in OrderKinds
      OBVIOUS
    <3>3. NoOrder.kind = "none"
      BY DEF NoOrder
    <3> QED BY <3>1, <3>2, <3>3
  <2>1. CASE o.kind = "create unit"
    BY <2>1 DEF StillAllowed
  <2>2. CASE o.kind = "move unit"
    BY <2>2 DEF StillAllowed, MayBeParent
  <2>3. CASE o.kind = "archive unit"
    BY <2>3 DEF StillAllowed
  <2>4. CASE o.kind = "add member"
    BY <2>4 DEF StillAllowed
  <2>5. CASE o.kind = "update member"
    BY <2>5 DEF StillAllowed
  <2> QED BY <2>0, <2>1, <2>2, <2>3, <2>4, <2>5 DEF OrderKinds
<1> QED BY <1>2, <1>3

LEMMA LockFreed ==
  ASSUME OrgInv, NEW t \in Admins, orders[t] # NoOrder, Done(t)
  PROVE  UnderTheLock'
BY DEF OrgInv, OrgTypes, UnderTheLock, Done

\* The writes find what the check has found.
LEMMA OrderInHand ==
  ASSUME OrgInv, NEW t \in Admins, orders[t].kind \in OrderKinds
  PROVE  orders[t] # NoOrder /\ orders[t] \in Orders /\ StillAllowed(orders[t])
<1>1. orders[t] # NoOrder
  <2>1. NoOrder.kind = "none" /\ "none" \notin OrderKinds
    BY DEF NoOrder, OrderKinds
  <2> QED BY <2>1
<1> QED BY <1>1 DEF OrgInv, OrgTypes, UnderTheLock

LEMMA CheckedIsAllowed ==
  ASSUME OrgInv, NEW o \in Orders, Allowed(o)
  PROVE  StillAllowed(o)
<1>1. o.kind \in OrderKinds
  <2>1. o.kind # "none"
    BY DEF Orders
  <2>2. NoOrder.kind = "none"
    BY DEF NoOrder
  <2>3. o = NoOrder \/ o.kind \in OrderKinds
    BY OrderParts
  <2> QED BY <2>1, <2>2, <2>3
<1>2. CASE o.kind = "create unit"
  BY <1>2, OrderParts DEF Allowed, StillAllowed
<1>3. CASE o.kind = "move unit"
  BY <1>3, OrderParts DEF Allowed, StillAllowed
<1>4. CASE o.kind = "archive unit"
  BY <1>4, OrderParts DEF Allowed, StillAllowed
<1>5. CASE o.kind = "add member"
  BY <1>5, OrderParts DEF Allowed, StillAllowed
<1>6. CASE o.kind = "update member"
  <2>1. KeepsAnOwner(o.member, o.role, o.status) /\ (o.unit = NoUnit \/ Active(o.unit))
    BY <1>6 DEF Allowed
  <2>2. role[o.member] = "OWNER" /\ (o.role \notin {"same", "OWNER"} \/ o.status = "INACTIVE") =>
          \E m \in ActiveOwners : m # o.member
    <3>1. Cardinality(ActiveOwners) > 1 => \E m \in ActiveOwners : m # o.member
      BY AnotherOne
    <3> QED BY <2>1, <3>1 DEF KeepsAnOwner
  <2> QED BY <1>6, <2>1, <2>2 DEF StillAllowed
<1> QED BY <1>1, <1>2, <1>3, <1>4, <1>5, <1>6 DEF OrderKinds

\* Requests that have written nothing, members who come, and what the
\* knowledge bases and the hour do.
LEMMA QuietSteps ==
  ASSUME OrgInv
  PROVE  /\ \A t \in Admins : RequestChecks(t) => OrgInv'
         /\ \A t \in Admins : RollBack(t) => OrgInv'
         /\ \A m \in Locals : AcceptInvitation(m) => OrgInv'
         /\ \A S \in SUBSET Units : RequireOrgUnits(S) => OrgInv'
         /\ WriteScopes => OrgInv'
         /\ HourPasses => OrgInv'
         /\ UNCHANGED orgVars => OrgInv'
<1> USE OrgAssumption DEF OrgInv
<1>1. ASSUME NEW t \in Admins, RequestChecks(t) PROVE OrgInv'
  <2>1. PICK o \in Orders : Allowed(o) /\ orders' = [orders EXCEPT ![t] = o]
    BY <1>1 DEF RequestChecks
  <2>2. OrgTypes'
    BY <1>1, <2>1 DEF RequestChecks, OrgTypes
  <2>3. UNCHANGED <<unitStatus, parent, boundTo, role, home, posts>> /\ ActiveOwners \subseteq ActiveOwners'
    BY <1>1 DEF RequestChecks, ActiveOwners
  <2>4. StillAllowed(o)'
    BY <2>1, <2>3, CheckedIsAllowed, NothingMoves
  <2>5. UnderTheLock'
    BY <1>1, <2>1, <2>4 DEF RequestChecks, UnderTheLock, DirectoryFree, OrgTypes
  <2> QED BY <2>2, <2>3, <2>5, NothingMoves
<1>2. ASSUME NEW t \in Admins, RollBack(t) PROVE OrgInv'
  <2>1. OrgTypes'
    BY <1>2 DEF RollBack, Done, OrgTypes
  <2>2. UNCHANGED <<unitStatus, parent, boundTo, role, home, posts>> /\ ActiveOwners \subseteq ActiveOwners'
    BY <1>2 DEF RollBack, ActiveOwners
  <2>3. UnderTheLock'
    BY <1>2, LockFreed DEF RollBack
  <2> QED BY <2>1, <2>2, <2>3, NothingMoves
<1>3. ASSUME OrgTypes', UNCHANGED requestVars, UNCHANGED <<unitStatus, parent, boundTo, role, home, posts>>,
             ActiveOwners \subseteq ActiveOwners'
      PROVE  OrgInv'
  <2>1. UnderTheLock'
    <3> SUFFICES ASSUME NEW t \in Admins, orders'[t] # NoOrder PROVE (directoryLock = t /\ StillAllowed(orders[t]))'
      BY DEF UnderTheLock
    <3>1. orders'[t] = orders[t] /\ directoryLock' = directoryLock /\ orders[t] \in Orders
      BY <1>3 DEF OrgTypes
    <3>2. directoryLock = t /\ StillAllowed(orders[t])
      BY <3>1 DEF UnderTheLock
    <3>3. \A o \in Orders : StillAllowed(o) => StillAllowed(o)'
      BY <1>3, NothingMoves
    <3>4. StillAllowed(orders[t])'
      BY <3>1, <3>2, <3>3
    <3> QED BY <3>1, <3>2, <3>4
  <2> QED BY <1>3, <2>1, NothingMoves
<1>4. ASSUME NEW m \in Locals, AcceptInvitation(m) PROVE OrgInv'
  <2>1. OrgTypes'
    BY <1>4 DEF AcceptInvitation, OrgTypes, MemberStatus, Members
  <2>2. ActiveOwners \subseteq ActiveOwners'
    BY <1>4 DEF AcceptInvitation, ActiveOwners, OrgTypes
  <2> QED BY <1>3, <1>4, <2>1, <2>2 DEF AcceptInvitation
<1>5. ASSUME \/ \E S \in SUBSET Units : RequireOrgUnits(S)
             \/ WriteScopes \/ HourPasses \/ UNCHANGED orgVars
      PROVE  OrgInv'
  <2>1. /\ UNCHANGED <<unitStatus, parent, boundTo, role, memberStatus, home, posts>> /\ UNCHANGED requestVars
    BY <1>5 DEF RequireOrgUnits, WriteScopes, HourPasses
  <2>2. OrgTypes' /\ ActiveOwners' = ActiveOwners
    BY <2>1 DEF OrgTypes, ActiveOwners
  <2> QED BY <1>3, <2>1, <2>2
<1> QED BY <1>1, <1>2, <1>4, <1>5

LEMMA NatLeast ==
  ASSUME NEW S \in SUBSET Nat, S # {}
  PROVE  \E n \in S : \A m \in S : n <= m
<1>1. PICK n \in S : \A m \in S : <<m, n>> \notin OpToRel(<, Nat)
  BY NatLessThanWellFounded, WFMin
<1>2. ASSUME NEW m \in S, m < n PROVE <<m, n>> \in OpToRel(<, Nat)
  BY <1>2 DEF OpToRel
<1>3. \A m \in S : ~(m < n)
  BY <1>1, <1>2
<1> QED BY <1>3

\* A unit nobody stands below may go anywhere.
LEMMA ChildlessMayGo ==
  ASSUME OrgTypes, NEW u \in Units, \A v \in Units : parent[v] # u, NEW p \in Units \ {u}
  PROVE  u \notin Lineage(p)
<1> DEFINE others == Units \ {u}
<1>1. others \in SUBSET Units /\ p \in others /\ u \notin others
  OBVIOUS
<1>2. \A x \in others : parent[x] \in others \cup {NoUnit}
  BY DEF OrgTypes
<1> QED BY <1>1, <1>2 DEF Lineage

LEMMA CreateUnitKeeps == ASSUME OrgInv, NEW t \in Admins, CreateUnit(t) PROVE OrgInv'
<1> USE UnitsAreNumbers DEF OrgInv
<1> DEFINE p == orders[t].parent
<1>1. p \in Units \cup {NoUnit} /\ (p = NoUnit \/ Active(p)) /\ orders[t] # NoOrder
  <2>1. orders[t].kind = "create unit"
    BY DEF CreateUnit
  <2>2. orders[t] # NoOrder /\ orders[t] \in Orders /\ StillAllowed(orders[t])
    BY <2>1, OrderInHand DEF OrderKinds
  <2> QED BY <2>1, <2>2, OrderParts DEF StillAllowed
<1>2. PICK u \in Unused :
        unitStatus' = [unitStatus EXCEPT ![u] = "ACTIVE"] /\ parent' = [parent EXCEPT ![u] = p]
  <2> DEFINE first == CHOOSE v \in Unused : \A x \in Unused : v <= x
  <2>1. unitStatus' = [unitStatus EXCEPT ![first] = "ACTIVE"] /\ parent' = [parent EXCEPT ![first] = p]
    BY DEF CreateUnit
  <2>2. Unused \subseteq Nat /\ Unused # {}
    BY DEF CreateUnit, Unused
  <2>3. \E v \in Unused : \A x \in Unused : v <= x
    BY <2>2, NatLeast
  <2>4. first \in Unused
    BY <2>3
  <2> QED BY <2>1, <2>4
<1>3. u \in Units /\ unitStatus[u] = "none" /\ p # u /\ UNCHANGED <<boundTo, home, posts, role, memberStatus>>
  BY <1>1, <1>2 DEF CreateUnit, Unused, Active
<1>4. OrgTypes'
  BY <1>1, <1>2, <1>3 DEF CreateUnit, Done, OrgTypes, UnitStatus
<1>5. \A v \in Units : /\ unitStatus'[v] = (IF v = u THEN "ACTIVE" ELSE unitStatus[v])
                       /\ parent'[v] = (IF v = u THEN p ELSE parent[v])
  BY <1>2 DEF OrgTypes
<1>6. UnusedAreApart'
  BY <1>1, <1>3, <1>5 DEF UnusedAreApart, Unused, Bound, Active
<1>7. DeptsHaveUnits' /\ OwnersAreLocal' /\ ActiveOwnerRemains'
  BY <1>2, <1>3, <1>5 DEF UnusedAreApart, DeptsHaveUnits, Bound, OwnersAreLocal, ActiveOwnerRemains,
                          ActiveOwners, OrgTypes, AllDepts
<1>8. UnderTheLock'
  BY <1>1, LockFreed DEF CreateUnit
<1>9. DirectorySound'
  <2>1. p = NoUnit \/ u \notin Lineage(p)
    BY <1>1, <1>2, <1>3, ChildlessMayGo DEF UnusedAreApart
  <2>2. \A S \in SUBSET Units : S # {} => \E v \in S : parent'[v] \notin S
    BY <1>1, <1>2, <1>3, <2>1, MovedForest DEF OrgTypes, DirectorySound
  <2>3. \A v \in Units : Active(v)' => parent'[v] = NoUnit \/ Active(parent[v])'
    <3> HIDE DEF p
    <3> SUFFICES ASSUME NEW v \in Units, Active(v)', parent'[v] # NoUnit PROVE Active(parent[v])'
      OBVIOUS
    <3>1. CASE v = u
      BY <1>1, <1>3, <1>5, <3>1 DEF Active
    <3>2. CASE v # u
      <4>1. Active(v) /\ parent'[v] = parent[v] /\ parent[v] \in Units
        BY <1>5, <3>2 DEF Active, OrgTypes
      <4> QED BY <1>5, <4>1 DEF DirectorySound, Active
    <3> QED BY <3>1, <3>2
  <2>4. \A v \in Units : Staffed(v)' => Active(v)'
    BY <1>3, <1>5 DEF DirectorySound, Active, Staffed
  <2> QED BY <2>2, <2>3, <2>4 DEF DirectorySound
<1> QED BY <1>4, <1>6, <1>7, <1>8, <1>9

LEMMA MoveUnitKeeps == ASSUME OrgInv, NEW t \in Admins, MoveUnit(t) PROVE OrgInv'
<1> USE UnitsAreNumbers DEF OrgInv
<1> DEFINE p == orders[t].parent
           u == orders[t].unit
<1>1. /\ orders[t] # NoOrder /\ u \in Units /\ p \in Units \cup {NoUnit}
      /\ Active(u) /\ ~Bound(u) /\ MayBeParent(p, u)
  <2>1. orders[t].kind = "move unit"
    BY DEF MoveUnit
  <2>2. orders[t] # NoOrder /\ orders[t] \in Orders /\ StillAllowed(orders[t])
    BY <2>1, OrderInHand DEF OrderKinds
  <2> QED BY <2>1, <2>2, OrderParts DEF StillAllowed
<1>2. /\ UNCHANGED <<unitStatus, boundTo, home, posts, role, memberStatus>>
      /\ parent' = [parent EXCEPT ![u] = p]
  BY DEF MoveUnit
<1> HIDE DEF p, u
<1>3. OrgTypes'
  BY <1>1, <1>2 DEF MoveUnit, Done, OrgTypes
<1>4. \A v \in Units : parent'[v] = (IF v = u THEN p ELSE parent[v])
  BY <1>2 DEF OrgTypes
<1>5. p = NoUnit \/ (Active(p) /\ u \notin Lineage(p))
  BY <1>1 DEF MayBeParent
<1>6. UnusedAreApart'
  BY <1>1, <1>2, <1>4, <1>5 DEF UnusedAreApart, Unused, Bound, Active
<1>7. DeptsHaveUnits' /\ OwnersAreLocal' /\ ActiveOwnerRemains'
  <2>1. \A d \in Depts : boundTo[d] # u
    BY <1>1 DEF Bound
  <2> QED BY <1>2, <1>4, <2>1 DEF DeptsHaveUnits, OwnersAreLocal, ActiveOwnerRemains, ActiveOwners,
                                  OrgTypes, AllDepts
<1>8. UnderTheLock'
  BY <1>1, LockFreed DEF MoveUnit
<1>9. DirectorySound'
  <2>1. \A S \in SUBSET Units : S # {} => \E v \in S : parent'[v] \notin S
    BY <1>1, <1>2, <1>5, MovedForest DEF OrgTypes, DirectorySound
  <2>2. \A v \in Units : Active(v)' => parent'[v] = NoUnit \/ Active(parent[v])'
    <3> SUFFICES ASSUME NEW v \in Units, Active(v)', parent'[v] # NoUnit PROVE Active(parent[v])'
      OBVIOUS
    <3>1. CASE v = u
      BY <1>2, <1>4, <1>5, <3>1 DEF Active
    <3>2. CASE v # u
      BY <1>2, <1>4, <3>2 DEF DirectorySound, Active
    <3> QED BY <3>1, <3>2
  <2>3. \A v \in Units : Staffed(v)' => Active(v)'
    BY <1>2 DEF DirectorySound, Active, Staffed
  <2> QED BY <2>1, <2>2, <2>3 DEF DirectorySound
<1> QED BY <1>3, <1>6, <1>7, <1>8, <1>9

LEMMA ArchiveUnitKeeps == ASSUME OrgInv, NEW t \in Admins, ArchiveUnit(t) PROVE OrgInv'
<1> USE UnitsAreNumbers DEF OrgInv
<1> DEFINE u == orders[t].unit
<1>1. /\ orders[t] # NoOrder /\ u \in Units
      /\ ~Staffed(u) /\ \A v \in Units : ~(Active(v) /\ parent[v] = u)
  <2>1. orders[t].kind = "archive unit"
    BY DEF ArchiveUnit
  <2>2. orders[t] # NoOrder /\ orders[t] \in Orders /\ StillAllowed(orders[t])
    BY <2>1, OrderInHand DEF OrderKinds
  <2> QED BY <2>1, <2>2, OrderParts DEF StillAllowed
<1>2. /\ UNCHANGED <<parent, boundTo, home, posts, role, memberStatus>>
      /\ unitStatus' = [unitStatus EXCEPT ![u] = "ARCHIVED"]
  BY DEF ArchiveUnit
<1> HIDE DEF u
<1>3. OrgTypes'
  BY <1>1, <1>2 DEF ArchiveUnit, Done, OrgTypes, UnitStatus
<1>4. \A v \in Units : unitStatus'[v] = (IF v = u THEN "ARCHIVED" ELSE unitStatus[v])
  BY <1>2 DEF OrgTypes
<1>5. UnusedAreApart'
  BY <1>1, <1>2, <1>4 DEF UnusedAreApart, Unused, Bound
<1>6. DeptsHaveUnits' /\ OwnersAreLocal' /\ ActiveOwnerRemains'
  BY <1>2 DEF DeptsHaveUnits, OwnersAreLocal, ActiveOwnerRemains, ActiveOwners
<1>7. UnderTheLock'
  BY <1>1, LockFreed DEF ArchiveUnit
<1>8. DirectorySound'
  <2>1. \A v \in Units : Active(v)' => parent'[v] = NoUnit \/ Active(parent[v])'
    <3> SUFFICES ASSUME NEW v \in Units, Active(v)', parent'[v] # NoUnit PROVE Active(parent[v])'
      OBVIOUS
    <3>1. Active(v) /\ parent[v] # NoUnit /\ parent[v] # u
      BY <1>1, <1>2, <1>4 DEF Active
    <3>2. parent[v] \in Units /\ Active(parent[v])
      BY <1>2, <3>1 DEF DirectorySound, OrgTypes
    <3> QED BY <1>2, <1>4, <3>1, <3>2 DEF Active
  <2>2. \A v \in Units : Staffed(v)' => Active(v)'
    <3>1. \A v \in Units : Staffed(v)' <=> Staffed(v)
      BY <1>2 DEF Staffed
    <3> QED BY <1>1, <1>4, <3>1 DEF DirectorySound, Active
  <2> QED BY <1>2, <2>1, <2>2 DEF DirectorySound
<1> QED BY <1>3, <1>5, <1>6, <1>7, <1>8

LEMMA WriteMemberKeeps == ASSUME OrgInv, NEW t \in Admins, WriteMember(t) PROVE OrgInv'
<1> USE UnitsAreNumbers DEF OrgInv
<1> DEFINE o == orders[t]
<1>1. /\ o # NoOrder /\ o \in Orders /\ StillAllowed(o) /\ o.kind \in {"add member", "update member"}
      /\ UNCHANGED <<unitStatus, parent, boundTo, posts>>
      /\ role' = IF o.role = "same" THEN role ELSE [role EXCEPT ![o.member] = o.role]
      /\ memberStatus' = IF o.status = "same" THEN memberStatus ELSE [memberStatus EXCEPT ![o.member] = o.status]
      /\ home' = IF o.unit = NoUnit THEN home ELSE [home EXCEPT ![o.member] = o.unit]
  BY OrderInHand DEF WriteMember, OrderKinds
<1>2. UnderTheLock'
  BY <1>1, LockFreed DEF WriteMember
<1>3. directoryLock' = NoAdmin /\ orders' = [orders EXCEPT ![t] = NoOrder]
  BY DEF WriteMember, Done
<1> HIDE DEF o
<1>4. /\ o.member \in Members /\ o.role \in {"same", "OWNER", "ADMIN", "MEMBER"}
      /\ o.status \in {"same", "ACTIVE", "INACTIVE"} /\ o.unit \in Units \cup {NoUnit}
      /\ o.member \in Remotes => o.role # "OWNER" /\ o.unit = NoUnit
      /\ o.unit = NoUnit \/ Active(o.unit)
      /\ o.kind = "add member" => role[o.member] = "none"
      /\ o.kind = "update member" /\ role[o.member] = "OWNER"
             /\ (o.role \notin {"same", "OWNER"} \/ o.status = "INACTIVE") =>
           \E m \in ActiveOwners : m # o.member
  <2>1. CASE o.kind = "add member"
    BY <1>1, <2>1, OrderParts, OrgAssumption DEF StillAllowed, Members
  <2>2. CASE o.kind = "update member"
    BY <1>1, <2>2, OrderParts DEF StillAllowed
  <2> QED BY <1>1, <2>1, <2>2
<1>5. /\ role' \in [Members -> Role] /\ memberStatus' \in [Members -> MemberStatus]
      /\ home' \in [Locals -> Units \cup {NoUnit}]
  BY <1>1, <1>4 DEF OrgTypes, Role, MemberStatus
<1>6. OrgTypes'
  BY <1>1, <1>3, <1>5 DEF OrgTypes
<1>7. UnusedAreApart' /\ DeptsHaveUnits'
  BY <1>1 DEF UnusedAreApart, DeptsHaveUnits, Unused, Bound
<1>8. OwnersAreLocal'
  BY <1>1, <1>4 DEF OwnersAreLocal, OrgTypes, Members
<1>9. ActiveOwnerRemains'
  <2>1. ASSUME NEW m \in ActiveOwners, m # o.member PROVE m \in ActiveOwners'
    BY <1>1, <2>1 DEF ActiveOwners, OrgTypes
  <2>2. ASSUME o.member \in ActiveOwners, o.role \in {"same", "OWNER"}, o.status # "INACTIVE"
        PROVE  o.member \in ActiveOwners'
    BY <1>1, <1>4, <2>2 DEF ActiveOwners, OrgTypes
  <2>3. PICK m \in ActiveOwners : TRUE
    BY DEF ActiveOwnerRemains
  <2>4. CASE m = o.member /\ (o.role \notin {"same", "OWNER"} \/ o.status = "INACTIVE")
    <3>1. role[o.member] = "OWNER"
      BY <2>4 DEF ActiveOwners
    <3> QED BY <1>1, <1>4, <2>1, <2>4, <3>1 DEF ActiveOwnerRemains
  <2> QED BY <2>1, <2>2, <2>3, <2>4 DEF ActiveOwnerRemains
<1>10. DirectorySound'
  <2>1. \A u \in Units : Staffed(u)' => Active(u)'
    <3> SUFFICES ASSUME NEW u \in Units, Staffed(u)' PROVE Active(u)
      BY <1>1 DEF Active
    <3>1. CASE \E m \in Locals : home'[m] = u
      BY <1>1, <1>4, <3>1 DEF DirectorySound, Staffed, OrgTypes
    <3>2. CASE \E r \in Remotes, d \in Depts \cup {RootDept} :
                 posts[r][d].unit = u /\ posts[r][d].status \in {"ACTIVE", "SUSPENDED"}
      BY <3>2 DEF DirectorySound, Staffed
    <3> QED BY <1>1, <3>1, <3>2 DEF Staffed
  <2> QED BY <1>1, <2>1 DEF DirectorySound, Active
<1> QED BY <1>2, <1>6, <1>7, <1>8, <1>9, <1>10

\* A snapshot keeps what the organization is.
LEMMA SnapshotKeeps ==
  ASSUME OrgInv, NEW tree \in Trees, NEW people \in Peoples, ApplySnapshot(tree, people)
  PROVE  OrgInv'
<1> USE UnitsAreNumbers DEF OrgInv
<1>1. PICK root \in Roots :
       LET new == {d \in DOMAIN tree : boundTo[d] = NoUnit}
           fresh == FreshUnits(new, Unused)
           unitOf == [d \in DOMAIN tree \cup {RootDept} |->
                        IF d = RootDept THEN root ELSE IF d \in new THEN fresh[d] ELSE boundTo[d]]
           seen == {unitOf[d] : d \in DOMAIN unitOf}
           status == [u \in Units |-> IF u \in seen THEN "ACTIVE" ELSE unitStatus[u]]
           nextParent == [u \in Units |->
                            IF \E d \in DOMAIN tree : unitOf[d] = u
                            THEN unitOf[tree[CHOOSE d \in DOMAIN tree : unitOf[d] = u]]
                            ELSE parent[u]]
           nextPosts == [r \in Remotes |-> PostsOf(r, people, unitOf)]
       IN
          /\ Cardinality(new) <= Cardinality(Unused)
          /\ \E archived \in SUBSET Archivable(tree, status, nextParent, nextPosts) :
               /\ \A u \in Units \ archived : status[u] = "ACTIVE" => nextParent[u] \notin archived
               /\ unitStatus' = [u \in Units |-> IF u \in archived THEN "ARCHIVED" ELSE status[u]]
          /\ parent' = nextParent
          /\ boundTo' = [d \in Depts \cup {RootDept} |-> IF d \in DOMAIN unitOf THEN unitOf[d] ELSE boundTo[d]]
          /\ posts' = nextPosts
          /\ memberStatus' = [m \in Members |-> IF m \in Locals THEN memberStatus[m] ELSE StatusOf(m, people, nextPosts[m])]
  BY DEF ApplySnapshot
<1> DEFINE D == DOMAIN tree
           new == {d \in D : boundTo[d] = NoUnit}
           fresh == FreshUnits(new, Unused)
           unitOf == [d \in D \cup {RootDept} |->
                        IF d = RootDept THEN root ELSE IF d \in new THEN fresh[d] ELSE boundTo[d]]
           seen == {unitOf[d] : d \in DOMAIN unitOf}
           status == [u \in Units |-> IF u \in seen THEN "ACTIVE" ELSE unitStatus[u]]
           nextParent == [u \in Units |->
                            IF \E d \in D : unitOf[d] = u
                            THEN unitOf[tree[CHOOSE d \in D : unitOf[d] = u]]
                            ELSE parent[u]]
           nextPosts == [r \in Remotes |-> PostsOf(r, people, unitOf)]
<1>2. PICK archived \in SUBSET Archivable(tree, status, nextParent, nextPosts) :
        /\ \A u \in Units \ archived : status[u] = "ACTIVE" => nextParent[u] \notin archived
        /\ unitStatus' = [u \in Units |-> IF u \in archived THEN "ARCHIVED" ELSE status[u]]
  BY <1>1
<1>3. /\ Cardinality(new) <= Cardinality(Unused) /\ parent' = nextParent /\ posts' = nextPosts
      /\ boundTo' = [d \in Depts \cup {RootDept} |-> IF d \in D \cup {RootDept} THEN unitOf[d] ELSE boundTo[d]]
      /\ memberStatus' = [m \in Members |-> IF m \in Locals THEN memberStatus[m] ELSE StatusOf(m, people, nextPosts[m])]
  BY <1>1
<1>4. /\ D \in SUBSET Depts /\ tree \in [D -> D \cup {RootDept}]
      /\ \A S \in SUBSET D : S # {} => \E d \in S : tree[d] \notin S
      /\ DOMAIN people \in SUBSET Remotes
      /\ \A r \in DOMAIN people : people[r] \in Presences /\ people[r].in \subseteq D \cup {RootDept}
      /\ UNCHANGED <<home, scopeVars, requestVars>> /\ DirectoryFree
      /\ role' = [m \in Members |-> IF m \in DOMAIN people /\ role[m] = "none" THEN "MEMBER" ELSE role[m]]
  <2>1. D \in SUBSET Depts /\ tree \in [D -> D \cup {RootDept}]
    BY DEF Trees
  <2>2. DOMAIN people \in SUBSET Remotes /\ \A r \in DOMAIN people : people[r] \in Presences
    BY DEF Peoples
  <2>3. IsSnapshot(tree, people)
    BY DEF ApplySnapshot
  <2>4. /\ UNCHANGED <<home, scopeVars, requestVars>> /\ DirectoryFree
        /\ role' = [m \in Members |-> IF m \in DOMAIN people /\ role[m] = "none" THEN "MEMBER" ELSE role[m]]
    BY DEF ApplySnapshot
  <2> QED BY <2>1, <2>2, <2>3, <2>4 DEF IsSnapshot
<1>5. root \in Units /\ unitStatus[root] = "ACTIVE" /\ parent[root] = NoUnit
  BY DEF Roots, Active
<1>6. /\ fresh \in [new -> Unused] /\ \A d, e \in new : d # e => fresh[d] # fresh[e]
  BY <1>3, <1>4, FreshAreDifferent DEF Unused
<1> HIDE DEF fresh
<1>7. /\ \A d \in D : unitOf[d] = (IF d \in new THEN fresh[d] ELSE boundTo[d])
      /\ unitOf[RootDept] = root
      /\ \A d \in D \cup {RootDept} : unitOf[d] \in Units /\ unitOf[d] \in seen
  BY <1>4, <1>5, <1>6 DEF OrgTypes, AllDepts, Unused
<1>8. \A d, e \in D : d # e => unitOf[d] # unitOf[e]
  <2> HIDE DEF unitOf
  <2>1. \A d \in new, e \in D \ new : fresh[d] # boundTo[e]
    BY <1>4, <1>6 DEF UnusedAreApart, Bound
  <2>2. \A d, e \in D \ new : d # e => boundTo[d] # boundTo[e]
    BY <1>4 DEF DeptsHaveUnits
  <2> QED BY <1>6, <1>7, <2>1, <2>2
<1>9. \A d \in D : unitOf[d] # root
  <2> HIDE DEF unitOf
  <2>1. \A d \in new : fresh[d] # root
    BY <1>5, <1>6 DEF Unused
  <2>2. \A d \in D \ new : boundTo[d] # root
    BY <1>4, <1>5 DEF DeptsHaveUnits
  <2> QED BY <1>7, <2>1, <2>2
<1> HIDE DEF unitOf
<1>10. /\ \A d \in D : nextParent[unitOf[d]] = unitOf[tree[d]]
       /\ \A u \in Units : (\A d \in D : unitOf[d] # u) => nextParent[u] = parent[u]
  <2>1. ASSUME NEW d \in D PROVE nextParent[unitOf[d]] = unitOf[tree[d]]
    <3> DEFINE e == CHOOSE x \in D : unitOf[x] = unitOf[d]
    <3>1. e \in D /\ unitOf[e] = unitOf[d]
      OBVIOUS
    <3>2. e = d
      BY <1>8, <3>1
    <3> QED BY <1>7, <3>2
  <2> QED BY <2>1
<1>11. \A u \in Units : nextParent[u] \in Units \cup {NoUnit}
  <2> SUFFICES ASSUME NEW u \in Units PROVE nextParent[u] \in Units \cup {NoUnit}
    OBVIOUS
  <2>1. CASE \E d \in D : unitOf[d] = u
    <3>1. PICK d \in D : unitOf[d] = u
      BY <2>1
    <3> QED BY <1>4, <1>7, <1>10, <3>1
  <2>2. CASE \A d \in D : unitOf[d] # u
    BY <1>10, <2>2 DEF OrgTypes
  <2> QED BY <2>1, <2>2
<1>12. nextParent \in [Units -> Units \cup {NoUnit}]
  BY <1>11
<1> HIDE DEF nextParent
<1>13. ASSUME NEW u \in Units
       PROVE  unitStatus'[u] = (IF u \in archived THEN "ARCHIVED" ELSE IF u \in seen THEN "ACTIVE" ELSE unitStatus[u])
  BY <1>2
<1>14. /\ archived \in SUBSET Units
       /\ \A u \in archived : /\ status[u] = "ACTIVE" /\ \A m \in Locals : home[m] # u
                              /\ \A r \in Remotes, d \in Depts \cup {RootDept} :
                                   ~(nextPosts[r][d].unit = u /\ nextPosts[r][d].status \in {"ACTIVE", "SUSPENDED"})
  <2> HIDE DEF status, nextPosts
  <2> QED BY <1>2 DEF Archivable, OrgTypes, AllDepts
<1> HIDE DEF status
<1>15. ASSUME NEW r \in Remotes, NEW d \in Depts \cup {RootDept}
       PROVE  /\ nextPosts[r][d] \in Post
              /\ nextPosts[r][d].status \in {"ACTIVE", "SUSPENDED"} =>
                   nextPosts[r][d].unit \in seen \/ nextPosts[r][d] = posts[r][d]
  <2>1. posts[r][d] \in Post
    BY DEF OrgTypes, AllDepts
  <2>2. CASE r \in DOMAIN people /\ d \in people[r].in
    <3>1. nextPosts[r][d] = [unit |-> unitOf[d], status |-> IF people[r].active THEN "ACTIVE" ELSE "SUSPENDED"]
      BY <2>2 DEF PostsOf
    <3> QED BY <1>4, <1>7, <2>2, <3>1 DEF Post
  <2>3. CASE ~(r \in DOMAIN people /\ d \in people[r].in)
    <3>1. \/ nextPosts[r][d] = [posts[r][d] EXCEPT !.status = "TERMINATED"]
          \/ nextPosts[r][d] = posts[r][d]
      BY <2>3 DEF PostsOf
    <3> QED BY <2>1, <3>1 DEF Post
  <2> QED BY <2>2, <2>3
<1>16. nextPosts \in [Remotes -> [AllDepts -> Post]]
  <2>1. ASSUME NEW r \in Remotes PROVE nextPosts[r] \in [AllDepts -> Post]
    <3>1. nextPosts[r] = PostsOf(r, people, unitOf)
      OBVIOUS
    <3> QED BY <1>15, <3>1 DEF PostsOf, AllDepts
  <2> QED BY <2>1
<1> HIDE DEF nextPosts
<1>17. memberStatus' \in [Members -> MemberStatus] /\ \A m \in Locals : memberStatus'[m] = memberStatus[m]
  <2>1. ASSUME NEW r \in Remotes PROVE StatusOf(r, people, nextPosts[r]) \in MemberStatus
    BY DEF StatusOf, MemberStatus, OrgTypes, Members
  <2> QED BY <1>3, <2>1 DEF Members, OrgTypes
<1>18. OrgTypes'
  <2>1. unitStatus' \in [Units -> UnitStatus]
    BY <1>2, <1>13 DEF OrgTypes, UnitStatus
  <2>2. boundTo' \in [AllDepts -> Units \cup {NoUnit}]
    BY <1>3, <1>7 DEF OrgTypes, AllDepts
  <2>3. role' \in [Members -> Role]
    BY <1>4 DEF OrgTypes, Role
  <2> QED BY <1>3, <1>4, <1>12, <1>16, <1>17, <2>1, <2>2, <2>3 DEF OrgTypes
<1>19. \A d \in Depts : boundTo'[d] = (IF d \in D THEN unitOf[d] ELSE boundTo[d])
  BY <1>3
<1>20. \A d \in D, e \in Depts \ D : unitOf[d] # boundTo[e]
  <2>1. \A d \in new, e \in Depts \ D : fresh[d] # boundTo[e]
    BY <1>6 DEF UnusedAreApart, Bound
  <2>2. \A d \in D \ new, e \in Depts \ D : boundTo[d] # boundTo[e]
    BY <1>4 DEF DeptsHaveUnits
  <2> QED BY <1>7, <2>1, <2>2
<1>21. UnusedAreApart'
  <2> SUFFICES ASSUME NEW u \in Units, unitStatus'[u] = "none"
               PROVE  (~Bound(u) /\ \A v \in Units : parent[v] # u)'
    BY DEF UnusedAreApart, Unused
  <2>1. u \in Unused /\ u \notin seen
    BY <1>13 DEF Unused
  <2>2. ASSUME NEW d \in Depts \cup {RootDept} PROVE boundTo'[d] # u
    <3>1. boundTo[d] # u
      BY <2>1 DEF UnusedAreApart, Bound
    <3>2. d \in D \cup {RootDept} => unitOf[d] # u
      BY <1>7, <2>1
    <3>3. d \in Depts => boundTo'[d] = (IF d \in D THEN unitOf[d] ELSE boundTo[d])
      BY <1>19
    <3>4. d \notin Depts => boundTo'[d] = root
      <4>1. d \notin Depts => d = RootDept
        OBVIOUS
      <4> QED BY <1>3, <1>7, <4>1
    <3> QED BY <1>7, <3>1, <3>2, <3>3, <3>4
  <2>3. ASSUME NEW v \in Units PROVE nextParent[v] # u
    <3>1. CASE \E d \in D : unitOf[d] = v
      <4>1. PICK d \in D : unitOf[d] = v
        BY <3>1
      <4>2. tree[d] \in D \cup {RootDept}
        BY <1>4
      <4> QED BY <1>7, <1>10, <2>1, <4>1, <4>2
    <3>2. CASE \A d \in D : unitOf[d] # v
      BY <1>10, <2>1, <3>2 DEF UnusedAreApart
    <3> QED BY <3>1, <3>2
  <2> QED BY <1>3, <2>2, <2>3 DEF Bound
<1>22. DeptsHaveUnits'
  <2>1. ASSUME NEW d \in Depts, boundTo'[d] # NoUnit PROVE nextParent[boundTo'[d]] # NoUnit
    <3>1. CASE d \in D
      <4>1. tree[d] \in D \cup {RootDept}
        BY <1>4, <3>1
      <4> QED BY <1>7, <1>10, <1>19, <3>1, <4>1
    <3>2. CASE d \notin D
      <4>1. boundTo'[d] = boundTo[d] /\ boundTo[d] \in Units
        BY <1>19, <2>1, <3>2 DEF OrgTypes, AllDepts
      <4>2. nextParent[boundTo[d]] = parent[boundTo[d]]
        BY <1>10, <1>20, <3>2, <4>1
      <4> QED BY <2>1, <4>1, <4>2 DEF DeptsHaveUnits
    <3> QED BY <3>1, <3>2
  <2>2. \A d, e \in Depts : d # e /\ boundTo'[d] # NoUnit => boundTo'[d] # boundTo'[e]
    BY <1>8, <1>19, <1>20 DEF DeptsHaveUnits
  <2> QED BY <1>3, <2>1, <2>2 DEF DeptsHaveUnits
<1>23. OwnersAreLocal'
  BY <1>4 DEF OwnersAreLocal, Members
<1>24. ActiveOwnerRemains'
  <2>1. PICK m \in Members : role[m] = "OWNER" /\ memberStatus[m] = "ACTIVE"
    BY DEF ActiveOwnerRemains, ActiveOwners
  <2>2. m \in Locals
    BY <2>1 DEF OwnersAreLocal, Members
  <2>3. role'[m] = "OWNER" /\ memberStatus'[m] = "ACTIVE"
    BY <1>4, <1>17, <2>1, <2>2
  <2> QED BY <2>3 DEF ActiveOwnerRemains, ActiveOwners
<1>25. UnderTheLock'
  BY <1>4, OrgAssumption DEF UnderTheLock, DirectoryFree
<1>26. DirectorySound'
  <2>1. ASSUME NEW S \in SUBSET Units, S # {}, \A u \in S : nextParent[u] \in S PROVE FALSE
    <3>1. root \notin S
      BY <1>5, <1>9, <1>10, <2>1
    <3>2. \A d \in D : unitOf[d] \in S => tree[d] \in D /\ unitOf[tree[d]] \in S
      BY <1>4, <1>7, <1>10, <2>1, <3>1
    <3>3. {d \in D : unitOf[d] \in S} = {}
      <4> DEFINE T == {d \in D : unitOf[d] \in S}
      <4>1. \A d \in T : tree[d] \in T
        BY <3>2
      <4> QED BY <1>4, <4>1
    <3>4. \A u \in S : nextParent[u] = parent[u]
      BY <1>10, <3>3
    <3> QED BY <2>1, <3>4 DEF DirectorySound
  <2>2. ASSUME NEW u \in Units, unitStatus'[u] = "ACTIVE", nextParent[u] # NoUnit
        PROVE  nextParent[u] \in Units /\ unitStatus'[nextParent[u]] = "ACTIVE"
    <3>1. u \notin archived /\ (u \in seen \/ unitStatus[u] = "ACTIVE") /\ nextParent[u] \in Units
      BY <1>11, <1>13, <2>2
    <3>2. status[u] = "ACTIVE"
      BY <1>13, <3>1 DEF status
    <3>3. nextParent[u] \notin archived
      BY <1>2, <3>1, <3>2
    <3>4. nextParent[u] \in seen \/ unitStatus[nextParent[u]] = "ACTIVE"
      <4>1. CASE \E d \in D : unitOf[d] = u
        <5>1. PICK d \in D : unitOf[d] = u
          BY <4>1
        <5>2. tree[d] \in D \cup {RootDept}
          BY <1>4
        <5> QED BY <1>7, <1>10, <5>1, <5>2
      <4>2. CASE (\A d \in D : unitOf[d] # u) /\ u = root
        BY <1>5, <1>10, <2>2, <4>2
      <4>3. CASE (\A d \in D : unitOf[d] # u) /\ u # root
        <5>1. u \notin seen
          BY <1>7, <4>3 DEF unitOf
        <5>2. unitStatus[u] = "ACTIVE" /\ nextParent[u] = parent[u]
          BY <1>10, <3>1, <4>3, <5>1
        <5> QED BY <2>2, <5>2 DEF DirectorySound, Active
      <4> QED BY <4>1, <4>2, <4>3
    <3> QED BY <1>13, <3>1, <3>3, <3>4
  <2>3. ASSUME NEW u \in Units, Staffed(u)' PROVE unitStatus'[u] = "ACTIVE"
    <3>1. CASE \E m \in Locals : home[m] = u
      BY <1>13, <1>14, <3>1 DEF DirectorySound, Staffed, Active
    <3>2. CASE \E r \in Remotes, d \in Depts \cup {RootDept} :
                 nextPosts[r][d].unit = u /\ nextPosts[r][d].status \in {"ACTIVE", "SUSPENDED"}
      <4>1. PICK r \in Remotes, d \in Depts \cup {RootDept} :
                   nextPosts[r][d].unit = u /\ nextPosts[r][d].status \in {"ACTIVE", "SUSPENDED"}
        BY <3>2
      <4>2. u \notin archived
        BY <1>14, <4>1
      <4>3. u \in seen \/ nextPosts[r][d] = posts[r][d]
        BY <1>15, <4>1
      <4>4. u \in seen \/ unitStatus[u] = "ACTIVE"
        BY <4>1, <4>3 DEF DirectorySound, Staffed, Active
      <4> QED BY <1>13, <4>2, <4>4
    <3> QED BY <1>3, <1>4, <2>3, <3>1, <3>2 DEF Staffed
  <2> QED BY <1>3, <2>1, <2>2, <2>3 DEF DirectorySound, Active
<1> QED BY <1>18, <1>21, <1>22, <1>23, <1>24, <1>25, <1>26

\* Administrators, invitations, knowledge bases and Feishu together keep the
\* organization sound: for any numbers of units, departments and members.
THEOREM OrgInvariant == OrgSpec => []OrgInv
<1>1. OrgInv /\ [OrgNext]_orgVars => OrgInv'
  <2> SUFFICES ASSUME OrgInv, [OrgNext]_orgVars PROVE OrgInv'
    OBVIOUS
  <2>1. CASE UNCHANGED orgVars
    BY <2>1, QuietSteps
  <2>2. ASSUME NEW t \in Admins,
               \/ RequestChecks(t) \/ CreateUnit(t) \/ MoveUnit(t)
               \/ ArchiveUnit(t) \/ WriteMember(t) \/ RollBack(t)
        PROVE  OrgInv'
    BY <2>2, QuietSteps, CreateUnitKeeps, MoveUnitKeeps, ArchiveUnitKeeps, WriteMemberKeeps
  <2>3. CASE \/ \E m \in Locals : AcceptInvitation(m)
             \/ \E S \in SUBSET Units : RequireOrgUnits(S)
             \/ WriteScopes \/ HourPasses
    BY <2>3, QuietSteps
  <2>4. CASE \E tree \in Trees, people \in Peoples : ApplySnapshot(tree, people)
    BY <2>4, SnapshotKeeps
  <2> QED BY <2>1, <2>2, <2>3, <2>4 DEF OrgNext
<1> QED BY <1>1, OrgStarts, PTL DEF OrgSpec

\* A tenant always has an active owner (assertOwnerContinuity under the lock).
THEOREM OwnerRemains == OrgSpec => []ActiveOwnerRemains
<1> QED BY OrgInvariant, PTL DEF OrgInv

\* The units are a forest of active units and everybody works in one of them.
THEOREM DirectoryIsSound == OrgSpec => []DirectorySound
<1> QED BY OrgInvariant, PTL DEF OrgInv

-----------------------------------------------------------------------------
(* Assistants and their versions.                                          *)

Reaches == {"nobody", "owner", "tenant"}
Agent == [version : Nat, managed : BOOLEAN, reach : Reaches]
ConsolePlaces == {"idle", "agent", "limits", "numbering", "saving", "limiting"}
Console == [at : ConsolePlaces, member : Staff \cup {0}, seen : Nat, text : Texts, reach : Reaches, latest : Nat]

AgentTypes ==
  /\ lastVersion \in Nat /\ limits \in Nat
  /\ agents \in [Staff -> Agent] /\ console \in [Editors -> Console]
  /\ agentLock \in [Staff -> Editors \cup {"free"}]
  /\ sync.version \in Nat

\* Who numbers or saves holds the agent's lock, and the agent is as its console
\* showed it.
EditIsSafe(e) ==
  /\ console[e].at \in {"agent", "numbering", "saving"} =>
       console[e].member \in Staff /\ HasAgent(console[e].member)
  /\ console[e].at \in {"numbering", "saving"} =>
       agentLock[console[e].member] = e /\ agents[console[e].member].version = console[e].seen
SavesWhatItSaw == \A e \in Editors : EditIsSafe(e)

\* A synchronization knows who has an agent: only it gives anybody one.
PlanKnowsOwners == sync.at = "prepared" => \A m \in Staff : HasAgent(m) <=> m \in sync.owners

AgentInv == AgentTypes /\ SavesWhatItSaw /\ PlanKnowsOwners

USE DEF agentVars

\* A console moved, as a whole.
LEMMA ConsoleMoves ==
  ASSUME AgentTypes, NEW e \in Editors, NEW c \in Console, console' = [console EXCEPT ![e] = c]
  PROVE  /\ console' \in [Editors -> Console] /\ console'[e] = c
         /\ \A f \in Editors \ {e} : console'[f] = console[f]
BY DEF AgentTypes

LEMMA ConsoleParts ==
  /\ NoConsole \in Console
  /\ \A c \in Console, at \in ConsolePlaces : [c EXCEPT !.at = at] \in Console
  /\ \A c \in Console, n \in Nat : [c EXCEPT !.at = "saving", !.latest = n] \in Console
  /\ \A c \in Console, at \in ConsolePlaces, t \in Texts, reach \in Reaches :
       [c EXCEPT !.at = at, !.text = t, !.reach = reach] \in Console
  /\ \A m \in Staff, n \in Nat : [NoConsole EXCEPT !.at = "agent", !.member = m, !.seen = n] \in Console
  /\ \A n \in Nat : [NoConsole EXCEPT !.at = "limits", !.seen = n] \in Console
BY DEF Console, ConsolePlaces, NoConsole, Texts, Reaches

LEMMA AgentsStart == AgentsInit => AgentInv
<1> SUFFICES ASSUME AgentsInit PROVE AgentInv
  OBVIOUS
<1>1. AgentTypes
  <2>1. PICK seeded \in SUBSET Staff :
          /\ agents = [m \in Staff |-> IF m \in seeded THEN [version |-> 1, managed |-> FALSE, reach |-> "tenant"]
                                       ELSE NoAgent]
          /\ lastVersion = IF seeded = {} THEN 0 ELSE 1
    BY DEF AgentsInit
  <2>2. [version |-> 1, managed |-> FALSE, reach |-> "tenant"] \in Agent /\ NoAgent \in Agent
    BY DEF Agent, NoAgent, Reaches
  <2>3. agents \in [Staff -> Agent] /\ lastVersion \in Nat
    BY <2>1, <2>2
  <2> QED BY <2>3, ConsoleParts DEF AgentsInit, AgentTypes, NoPlan
<1>2. SavesWhatItSaw /\ PlanKnowsOwners
  BY DEF AgentsInit, SavesWhatItSaw, EditIsSafe, PlanKnowsOwners, NoConsole, NoPlan
<1> QED BY <1>1, <1>2 DEF AgentInv

LEMMA ConsoleStep ==
  ASSUME AgentInv, NEW e \in Editors,
         Shows(e) \/ UpdateBegins(e) \/ UpdateNumbers(e) \/ LimitsBegin(e) \/ LimitsSave(e)
  PROVE  AgentInv' /\ UNCHANGED agents
<1> USE DEF AgentInv
<1>1. UNCHANGED <<agents, lastVersion, sync>> /\ limits' \in Nat
  <2>1. UNCHANGED <<agents, lastVersion, sync>> /\ (limits' = limits \/ limits' = limits + 1)
    BY DEF Shows, UpdateBegins, UpdateNumbers, LimitsBegin, LimitsSave
  <2> QED BY <2>1 DEF AgentTypes
<1>2. ASSUME NEW c \in Console, console' = [console EXCEPT ![e] = c],
             \/ agentLock' = agentLock
             \/ /\ c.at \in {"numbering", "saving"} /\ AgentFree(c.member)
                /\ agentLock' = [agentLock EXCEPT ![c.member] = e],
             c.at \in {"agent", "numbering", "saving"} => c.member \in Staff /\ HasAgent(c.member),
             c.at \in {"numbering", "saving"} => agentLock'[c.member] = e /\ agents[c.member].version = c.seen
      PROVE  AgentInv'
  <2>1. /\ console' \in [Editors -> Console] /\ console'[e] = c
        /\ \A f \in Editors \ {e} : console'[f] = console[f]
    BY <1>2, ConsoleMoves
  <2>2. agentLock' \in [Staff -> Editors \cup {"free"}]
    BY <1>2 DEF AgentTypes
  <2>3. \A m \in Staff : agentLock[m] # "free" => agentLock'[m] = agentLock[m]
    BY <1>2 DEF AgentTypes, AgentFree
  <2>4. SavesWhatItSaw'
    BY <1>1, <1>2, <2>1, <2>3, ConfigurationAssumption DEF SavesWhatItSaw, EditIsSafe, HasAgent
  <2>5. AgentTypes'
    BY <1>1, <2>1, <2>2 DEF AgentTypes
  <2>6. PlanKnowsOwners'
    BY <1>1 DEF PlanKnowsOwners, HasAgent
  <2> QED BY <2>4, <2>5, <2>6
<1> console[e] \in Console
  BY DEF AgentTypes
<1>3. CASE Shows(e)
  <2>1. /\ agentLock' = agentLock
        /\ \/ \E m \in Staff : HasAgent(m) /\ console' =
                [console EXCEPT ![e] = [NoConsole EXCEPT !.at = "agent", !.member = m, !.seen = agents[m].version]]
           \/ console' = [console EXCEPT ![e] = [NoConsole EXCEPT !.at = "limits", !.seen = limits]]
    BY <1>3 DEF Shows
  <2>2. ASSUME NEW m \in Staff, HasAgent(m), console' =
                [console EXCEPT ![e] = [NoConsole EXCEPT !.at = "agent", !.member = m, !.seen = agents[m].version]]
        PROVE  AgentInv'
    <3> DEFINE c == [NoConsole EXCEPT !.at = "agent", !.member = m, !.seen = agents[m].version]
    <3>1. c \in Console /\ c.at = "agent" /\ c.member = m
      BY ConsoleParts DEF AgentTypes, Agent, NoConsole
    <3> HIDE DEF c
    <3> QED BY <1>2, <2>1, <2>2, <3>1 DEF c
  <2>3. ASSUME console' = [console EXCEPT ![e] = [NoConsole EXCEPT !.at = "limits", !.seen = limits]]
        PROVE  AgentInv'
    <3> DEFINE c == [NoConsole EXCEPT !.at = "limits", !.seen = limits]
    <3>1. c \in Console /\ c.at = "limits"
      BY ConsoleParts DEF AgentTypes, NoConsole
    <3> HIDE DEF c
    <3> QED BY <1>2, <2>1, <2>3, <3>1 DEF c
  <2> QED BY <1>1, <2>1, <2>2, <2>3
<1> DEFINE m == console[e].member
<1>4. ASSUME console' = [console EXCEPT ![e] = NoConsole], agentLock' = agentLock PROVE AgentInv'
  BY <1>2, <1>4, ConsoleParts DEF NoConsole
<1>5. CASE UpdateBegins(e)
  <2>1. CASE Closes(e) /\ UNCHANGED agentLock
    BY <1>1, <1>4, <2>1 DEF Closes
  <2>2. CASE ~(Closes(e) /\ UNCHANGED agentLock)
    <3>1. PICK t \in Texts, reach \in Reaches, at \in {"saving", "numbering"} :
            console' = [console EXCEPT ![e].at = at, ![e].text = t, ![e].reach = reach]
      BY <1>5, <2>2 DEF UpdateBegins, Reaches
    <3>2. /\ console[e].at = "agent" /\ AgentFree(m) /\ agents[m].version = console[e].seen
          /\ agentLock' = [agentLock EXCEPT ![m] = e]
      BY <1>5, <2>2 DEF UpdateBegins
    <3> DEFINE c == [console[e] EXCEPT !.at = at, !.text = t, !.reach = reach]
    <3>3. c \in Console /\ c.at = at /\ c.member = m /\ c.seen = console[e].seen
      <4>1. at \in ConsolePlaces
        BY DEF ConsolePlaces
      <4>2. c \in Console
        BY <4>1, ConsoleParts
      <4> QED BY <4>2 DEF Console
    <3>4. console' = [console EXCEPT ![e] = c]
      BY <3>1 DEF AgentTypes
    <3>5. m \in Staff /\ HasAgent(m)
      BY <3>2 DEF SavesWhatItSaw, EditIsSafe
    <3>6. agentLock'[m] = e
      BY <3>2, <3>5 DEF AgentTypes
    <3> HIDE DEF c, m
    <3> QED BY <1>1, <1>2, <3>2, <3>3, <3>4, <3>5, <3>6
  <2> QED BY <2>1, <2>2
<1>6. CASE UpdateNumbers(e)
  <2> DEFINE c == [console[e] EXCEPT !.at = "saving", !.latest = lastVersion + 1]
  <2>1. c \in Console /\ c.at = "saving" /\ c.member = m /\ c.seen = console[e].seen
    <3>1. lastVersion + 1 \in Nat
      BY DEF AgentTypes
    <3> QED BY <3>1, ConsoleParts DEF Console
  <2>2. console' = [console EXCEPT ![e] = c] /\ agentLock' = agentLock /\ console[e].at = "numbering"
    BY <1>6 DEF UpdateNumbers, AgentTypes
  <2>3. m \in Staff /\ HasAgent(m) /\ agentLock[m] = e /\ agents[m].version = console[e].seen
    BY <2>2 DEF SavesWhatItSaw, EditIsSafe
  <2> HIDE DEF c, m
  <2> QED BY <1>1, <1>2, <2>1, <2>2, <2>3
<1>7. CASE LimitsBegin(e)
  <2> DEFINE c == [console[e] EXCEPT !.at = "limiting"]
  <2>1. c \in Console /\ c.at = "limiting"
    <3>1. "limiting" \in ConsolePlaces
      BY DEF ConsolePlaces
    <3>2. c \in Console
      BY <3>1, ConsoleParts
    <3> QED BY <3>2 DEF Console
  <2>2. agentLock' = agentLock /\ (console' = [console EXCEPT ![e] = c] \/ console' = [console EXCEPT ![e] = NoConsole])
    BY <1>7 DEF LimitsBegin, At, Closes, AgentTypes
  <2> HIDE DEF c
  <2> QED BY <1>1, <1>2, <1>4, <2>1, <2>2
<1>8. CASE LimitsSave(e)
  BY <1>1, <1>4, <1>8 DEF LimitsSave, Closes
<1> QED BY <1>3, <1>5, <1>6, <1>7, <1>8

\* A save that succeeds changes only the agent whose lock it frees.
LEMMA SaveStep ==
  ASSUME AgentInv, NEW e \in Editors, UpdateSaves(e)
  PROVE  /\ AgentInv'
         /\ \A m \in Staff : agents'[m].version # agents[m].version => SavedBy(e, m) /\ console[e].seen = agents[m].version
<1> USE DEF AgentInv
<1> DEFINE m == console[e].member
           new == console[e].latest
<1>1. /\ console[e].at = "saving" /\ m \in Staff /\ HasAgent(m) /\ agentLock[m] = e
      /\ agents[m].version = console[e].seen
  BY DEF UpdateSaves, SavesWhatItSaw, EditIsSafe
<1>2. console[e] \in Console /\ agents[m] \in Agent
  BY <1>1 DEF AgentTypes
<1>3. /\ console' \in [Editors -> Console] /\ console'[e] = NoConsole
      /\ \A f \in Editors \ {e} : console'[f] = console[f]
  BY ConsoleMoves, ConsoleParts DEF UpdateSaves, Closes
<1>4. /\ agentLock' \in [Staff -> Editors \cup {"free"}]
      /\ \A n \in Staff \ {m} : agentLock'[n] = agentLock[n]
  BY <1>1 DEF UpdateSaves, Unlocks, AgentTypes
<1>5. \A f \in Editors \ {e} : console[f].at \in {"numbering", "saving"} => console[f].member # m
  BY <1>1 DEF SavesWhatItSaw, EditIsSafe
<1>6. /\ agents' \in [Staff -> Agent] /\ lastVersion' \in Nat
      /\ \A n \in Staff \ {m} : agents'[n] = agents[n]
      /\ agents'[m].version > 0
  <2>1. ASSUME NEW v \in Nat, v > 0, agents' = [agents EXCEPT ![m].version = v, ![m].reach = console[e].reach]
        PROVE  /\ agents' \in [Staff -> Agent] /\ \A n \in Staff \ {m} : agents'[n] = agents[n]
               /\ agents'[m].version > 0
    <3> DEFINE a == [agents[m] EXCEPT !.version = v, !.reach = console[e].reach]
    <3>1. a \in Agent /\ a.version = v
      BY <1>2 DEF Agent, Console
    <3>2. agents' = [agents EXCEPT ![m] = a]
      BY <1>1, <2>1 DEF AgentTypes
    <3> HIDE DEF a, m
    <3> QED BY <1>1, <2>1, <3>1, <3>2 DEF AgentTypes
  <2>2. CASE new = 0 /\ agents' = [agents EXCEPT ![m].version = console[e].seen, ![m].reach = console[e].reach]
                /\ UNCHANGED lastVersion
    <3>1. console[e].seen \in Nat /\ console[e].seen > 0
      BY <1>1, <1>2 DEF Console, HasAgent
    <3> QED BY <2>1, <2>2, <3>1 DEF AgentTypes
  <2>3. CASE new = lastVersion + 1 /\ lastVersion' = new
                /\ agents' = [agents EXCEPT ![m].version = new, ![m].reach = console[e].reach]
    <3>1. new \in Nat /\ new > 0
      BY <2>3 DEF AgentTypes
    <3> QED BY <2>1, <2>3, <3>1
  <2>4. CASE UNCHANGED <<lastVersion, agents>>
    BY <1>1, <2>4 DEF AgentTypes, HasAgent
  <2> QED BY <2>2, <2>3, <2>4 DEF UpdateSaves
<1>7. SavesWhatItSaw'
  <2> SUFFICES ASSUME NEW f \in Editors PROVE EditIsSafe(f)'
    BY DEF SavesWhatItSaw
  <2>1. CASE f = e
    BY <1>3, <2>1 DEF NoConsole, EditIsSafe
  <2>2. CASE f # e
    <3>1. console'[f] = console[f]
      BY <1>3, <2>2
    <3> HIDE DEF m
    <3> QED BY <1>1, <1>4, <1>5, <1>6, <2>2, <3>1 DEF SavesWhatItSaw, EditIsSafe, HasAgent
  <2> QED BY <2>1, <2>2
<1>8. PlanKnowsOwners'
  <2>1. sync' = sync
    BY DEF UpdateSaves
  <2> HIDE DEF m
  <2>2. \A n \in Staff : HasAgent(n)' <=> HasAgent(n)
    BY <1>1, <1>6 DEF HasAgent
  <2> QED BY <2>1, <2>2 DEF PlanKnowsOwners
<1>9. AgentTypes'
  <2>1. UNCHANGED <<limits, sync>>
    BY DEF UpdateSaves
  <2> QED BY <1>3, <1>4, <1>6, <2>1 DEF AgentTypes
<1>10. \A n \in Staff : agents'[n].version # agents[n].version => SavedBy(e, n) /\ console[e].seen = agents[n].version
  BY <1>1, <1>3, <1>6 DEF SavedBy, NoConsole
<1> HIDE DEF m, new
<1> QED BY <1>7, <1>8, <1>9, <1>10

LEMMA PrepareStep == ASSUME AgentInv, Prepare PROVE AgentInv'
<1> USE DEF AgentInv
<1>1. AgentTypes'
  BY DEF AgentTypes, Prepare, FirstOrLatest
<1>2. SavesWhatItSaw'
  BY DEF Prepare, SavesWhatItSaw, EditIsSafe, HasAgent
<1>3. PlanKnowsOwners'
  BY DEF Prepare, PlanKnowsOwners, HasAgent
<1> QED BY <1>1, <1>2, <1>3

\* A synchronization gives agents to those who have none, and nobody another
\* version.
LEMMA ReconcileStep ==
  ASSUME AgentInv, Reconcile
  PROVE  /\ AgentInv'
         /\ \A m \in Staff : HasAgent(m) => agents'[m].version = agents[m].version
<1> USE DEF AgentInv
<1>1. PICK active \in SUBSET Staff :
        agents' = [m \in Staff |->
          IF m \in sync.owners
          THEN IF agents[m].managed
               THEN [agents[m] EXCEPT !.reach = IF m \in active THEN "tenant" ELSE "nobody"]
               ELSE agents[m]
          ELSE IF m \in active THEN [version |-> sync.version, managed |-> TRUE, reach |-> "tenant"]
               ELSE agents[m]]
  BY DEF Reconcile
<1>2. /\ sync.at = "prepared" /\ sync' = NoPlan /\ lastVersion' = FirstOrLatest
      /\ UNCHANGED <<agentLock, limits, console>>
  BY DEF Reconcile
<1>3. sync.version \in Nat
  BY <1>2 DEF AgentTypes
<1>4. ASSUME NEW m \in Staff
      PROVE  agents'[m] \in Agent /\ (HasAgent(m) => agents'[m].version = agents[m].version)
  <2>1. agents[m] \in Agent
    BY DEF AgentTypes
  <2>2. ASSUME NEW r \in Reaches
        PROVE  /\ [agents[m] EXCEPT !.reach = r] \in Agent
               /\ [agents[m] EXCEPT !.reach = r].version = agents[m].version
    BY <2>1 DEF Agent
  <2>3. [version |-> sync.version, managed |-> TRUE, reach |-> "tenant"] \in Agent
    BY <1>3 DEF Agent, Reaches
  <2>4. HasAgent(m) <=> m \in sync.owners
    BY <1>2 DEF PlanKnowsOwners
  <2>5. "tenant" \in Reaches /\ "nobody" \in Reaches
    BY DEF Reaches
  <2> QED BY <1>1, <2>1, <2>2, <2>3, <2>4, <2>5
<1>5. agents' \in [Staff -> Agent] /\ lastVersion' \in Nat
  BY <1>1, <1>2, <1>4 DEF AgentTypes, FirstOrLatest
<1>6. SavesWhatItSaw'
  BY <1>2, <1>4 DEF SavesWhatItSaw, EditIsSafe, HasAgent
<1>7. PlanKnowsOwners'
  BY <1>2 DEF PlanKnowsOwners, NoPlan
<1>8. AgentTypes'
  BY <1>2, <1>5 DEF AgentTypes, NoPlan
<1> QED BY <1>4, <1>6, <1>7, <1>8

LEMMA RunStep ==
  ASSUME AgentInv, EnqueueInitialAgentRun \/ ValidateQueuedRun
  PROVE  AgentInv' /\ UNCHANGED <<agents, limits>>
BY DEF AgentInv, AgentTypes, SavesWhatItSaw, EditIsSafe, PlanKnowsOwners, HasAgent, EnqueueInitialAgentRun,
       ValidateQueuedRun

KeptStep ==
  /\ \A m \in Staff : agents'[m].version # agents[m].version /\ HasAgent(m) =>
       \E e \in Editors : SavedBy(e, m) /\ console[e].seen = agents[m].version
  /\ limits' # limits => \E e \in Editors : console[e].at = "limiting" /\ console[e].seen = limits

LEMMA AgentStep == AgentInv /\ [AgentsNext]_agentVars => AgentInv' /\ KeptStep
<1> SUFFICES ASSUME AgentInv, [AgentsNext]_agentVars PROVE AgentInv' /\ KeptStep
  OBVIOUS
<1>1. ASSUME NEW e \in Editors, Shows(e) \/ UpdateBegins(e) \/ UpdateNumbers(e) \/ LimitsBegin(e) \/ LimitsSave(e)
      PROVE  AgentInv' /\ KeptStep
  <2>1. AgentInv' /\ UNCHANGED agents
    BY <1>1, ConsoleStep
  <2>2. limits' # limits => console[e].at = "limiting" /\ console[e].seen = limits
    BY <1>1 DEF Shows, UpdateBegins, UpdateNumbers, LimitsBegin, LimitsSave
  <2> QED BY <2>1, <2>2 DEF KeptStep
<1>2. ASSUME NEW e \in Editors, UpdateSaves(e) PROVE AgentInv' /\ KeptStep
  <2>1. UNCHANGED limits
    BY <1>2 DEF UpdateSaves
  <2> QED BY <1>2, <2>1, SaveStep DEF KeptStep
<1>3. CASE Prepare
  <2>1. UNCHANGED <<agents, limits>>
    BY <1>3 DEF Prepare
  <2> QED BY <1>3, <2>1, PrepareStep DEF KeptStep
<1>4. CASE Reconcile
  <2>1. UNCHANGED limits
    BY <1>4 DEF Reconcile
  <2> QED BY <1>4, <2>1, ReconcileStep DEF KeptStep
<1>5. CASE EnqueueInitialAgentRun \/ ValidateQueuedRun
  BY <1>5, RunStep DEF KeptStep
<1>6. CASE UNCHANGED agentVars
  BY <1>6 DEF AgentInv, AgentTypes, SavesWhatItSaw, EditIsSafe, PlanKnowsOwners, HasAgent, KeptStep
<1> QED BY <1>1, <1>2, <1>3, <1>4, <1>5, <1>6 DEF AgentsNext

(* Whoever numbers or saves a configuration holds the agent's row, at the version
   its editor was opened with, whatever is saved and synchronized meanwhile
   (updateAgent locks and compares before it writes). *)
THEOREM AgentsInvariant == AgentsSpec => []AgentInv
<1>1. AgentInv /\ [AgentsNext]_agentVars => AgentInv'
  BY AgentStep
<1> QED BY AgentsStart, <1>1, PTL DEF AgentsSpec

(* A version or a limit is replaced only by an editor that was opened with
   the latest one: expectedVersion and the limits' stamp are compared under the
   lock that the save keeps. *)
THEOREM NothingUndoneUnseen == AgentsSpec => ConfigurationKept
<1>1. AgentInv /\ [AgentsNext]_agentVars => [KeptStep]_agentVars
  BY AgentStep
<1> QED BY AgentsInvariant, <1>1, PTL DEF AgentsSpec, ConfigurationKept, KeptStep

-----------------------------------------------------------------------------
(* What the client fetches, and how it is validated.                       *)

\* A recursion over 0 .. n within W has a solution.
Recursion(f, n, W, base, step) ==
  f \in [0 .. n -> W] /\ f[0] = base /\ \A k \in 1 .. n : f[k] = step[k][f[k - 1]]

LEMMA RecursionSolved ==
  ASSUME NEW n \in Nat, NEW W, NEW base \in W, NEW step \in [1 .. n -> [W -> W]]
  PROVE  \E f : Recursion(f, n, W, base, step)
<1> DEFINE Solves(f, m) == f[0] = base /\ \A k \in 1 .. m : f[k] = step[k][f[k - 1]]
           Bad == {m \in 0 .. n : \A f \in [0 .. m -> W] : ~Solves(f, m)}
<1> SUFFICES ASSUME Bad # {} PROVE FALSE
  BY DEF Recursion
<1>0. Bad \in SUBSET Nat
  OBVIOUS
<1>1. PICK m \in Bad : \A i \in Bad : m <= i
  <2> HIDE DEF Bad
  <2> QED BY <1>0, NatLeast
<1>4. m \in 0 .. n /\ \A f \in [0 .. m -> W] : ~Solves(f, m)
  BY <1>1
<1>2. CASE m = 0
  <2> DEFINE f == [k \in 0 .. 0 |-> base]
  <2>1. f \in [0 .. m -> W] /\ Solves(f, m)
    BY <1>2
  <2> QED BY <1>4, <2>1
<1>3. CASE m # 0
  <2>1. m - 1 \in 0 .. n /\ m - 1 \notin Bad /\ m \in 1 .. n
    <3>1. m - 1 \in 0 .. n /\ m \in 1 .. n /\ ~(m <= m - 1)
      BY <1>4, <1>3
    <3> QED BY <1>1, <3>1
  <2>2. PICK g \in [0 .. m - 1 -> W] : Solves(g, m - 1)
    BY <2>1
  <2> DEFINE f == [k \in 0 .. m |-> IF k = m THEN step[m][g[m - 1]] ELSE g[k]]
  <2>3. f \in [0 .. m -> W]
    <3>1. step[m][g[m - 1]] \in W
      BY <2>1, <2>2
    <3> QED BY <2>1, <2>2, <3>1
  <2>4. Solves(f, m)
    <3>1. f[0] = base
      BY <1>3, <2>1, <2>2
    <3>2. ASSUME NEW k \in 1 .. m, k # m PROVE f[k] = step[k][f[k - 1]]
      <4>1. k \in 1 .. m - 1 /\ k \in 0 .. m /\ k - 1 \in 0 .. m /\ k - 1 # m
        BY <2>1, <3>2
      <4>2. f[k] = g[k] /\ f[k - 1] = g[k - 1]
        BY <3>2, <4>1
      <4> QED BY <2>2, <4>1, <4>2
    <3>3. f[m] = step[m][f[m - 1]]
      <4>1. m - 1 \in 0 .. m /\ m \in 0 .. m /\ m - 1 # m
        BY <2>1
      <4> QED BY <4>1
    <3> QED BY <3>1, <3>2, <3>3
  <2> QED BY <1>4, <2>3, <2>4
<1> QED BY <1>2, <1>3

Department == [id : RemoteDepts, parent : RemoteDepts \cup {Root}]

\* A list of departments as the client keeps it, and as the validation takes it.
Listed(deps) ==
  /\ deps \in Seq(Department)
  /\ \A i, j \in DOMAIN deps : deps[i].id = deps[j].id => i = j
ListOf(deps) == {deps[i].id : i \in DOMAIN deps}

LEMMA IdsOf == ASSUME NEW deps, Listed(deps) PROVE ToSet(Ids(deps)) = ListOf(deps)
BY DEF Listed, Ids, ListOf, ToSet

LEMMA ParentOf ==
  ASSUME NEW deps, Listed(deps), NEW i \in DOMAIN deps
  PROVE  ParentIn(deps, deps[i].id) = deps[i].parent /\ deps[i].parent \in RemoteDepts \cup {Root}
<1>1. deps[i] \in Department
  BY DEF Listed
<1>2. (CHOOSE j \in DOMAIN deps : deps[j].id = deps[i].id) = i
  BY DEF Listed
<1> QED BY <1>1, <1>2 DEF ParentIn, Department

\* The way up stays among the departments until the root.
Climbs(deps, f) ==
  /\ f \in [0 .. Len(deps) -> ListOf(deps) \cup {Root}]
  /\ \A i \in 1 .. Len(deps) : f[i] = IF f[i - 1] = Root THEN Root ELSE ParentIn(deps, f[i - 1])

LEMMA UpwardsClimbs ==
  ASSUME NEW deps, Listed(deps), ParentsValid(deps), NEW d \in ListOf(deps)
  PROVE  Climbs(deps, Upwards(deps, d)) /\ Upwards(deps, d)[0] = d
<1> DEFINE n == Len(deps)
           W == ListOf(deps) \cup {Root}
           Up(x) == IF x = Root THEN Root ELSE ParentIn(deps, x)
           step == [i \in 1 .. n |-> [x \in W |-> Up(x)]]
           Solution(f) == f = [i \in 0 .. n |-> IF i = 0 THEN d ELSE Up(f[i - 1])]
           path == Upwards(deps, d)
<1>0. n \in Nat /\ d \in W
  BY DEF Listed
<1>1. \A x \in W : Up(x) \in W
  BY ParentOf, IdsOf DEF ParentsValid, ListOf
<1> HIDE DEF W
<1>2. \E f : Solution(f)
  <2>1. step \in [1 .. n -> [W -> W]]
    BY <1>1
  <2> HIDE DEF n, Up
  <2>2. PICK f : Recursion(f, n, W, d, step)
    <3>1. n \in Nat /\ d \in W
      BY <1>0
    <3> HIDE DEF step, n
    <3> QED BY <2>1, <3>1, RecursionSolved
  <2>3. ASSUME NEW k \in 0 .. n PROVE f[k] = IF k = 0 THEN d ELSE Up(f[k - 1])
    <3>1. CASE k = 0
      BY <2>2, <3>1 DEF Recursion
    <3>2. CASE k # 0
      <4>1. k \in 1 .. n /\ k - 1 \in 0 .. n
        BY <1>0, <3>2
      <4>2. f[k - 1] \in W /\ f[k] = step[k][f[k - 1]]
        BY <2>2, <3>2, <4>1 DEF Recursion
      <4> QED BY <3>2, <4>1, <4>2
    <3> QED BY <3>1, <3>2
  <2> QED BY <2>2, <2>3 DEF Recursion
<1>3. Solution(path)
  BY <1>2 DEF Upwards
<1> HIDE DEF path, Up
<1>4. DOMAIN path = 0 .. n /\ path[0] = d /\ \A i \in 1 .. n : path[i] = Up(path[i - 1])
  BY <1>0, <1>3
<1>5. \A i \in 0 .. n : path[i] \in W
  <2> DEFINE Bad == {i \in 0 .. n : path[i] \notin W}
  <2> SUFFICES ASSUME Bad # {} PROVE FALSE
    OBVIOUS
  <2>0. Bad \in SUBSET Nat
    OBVIOUS
  <2>1. PICK i \in Bad : \A j \in Bad : i <= j
    <3> HIDE DEF Bad
    <3> QED BY <2>0, NatLeast
  <2>2. i # 0
    BY <1>0, <1>4
  <2>3. i \in 1 .. n /\ i - 1 \in 0 .. n /\ i - 1 \notin Bad
    <3>1. i \in 1 .. n /\ i - 1 \in 0 .. n /\ ~(i <= i - 1)
      BY <1>0, <2>1, <2>2
    <3> QED BY <2>1, <3>1
  <2> QED BY <1>1, <1>4, <2>3
<1>6. path \in [0 .. n -> W]
  BY <1>3, <1>4, <1>5
<1> QED BY <1>4, <1>6 DEF Climbs, W, Up, path, n

\* There are no more departments than the list is long.
LEMMA ListIsFinite ==
  ASSUME NEW deps, Listed(deps)
  PROVE  IsFiniteSet(ListOf(deps)) /\ Cardinality(ListOf(deps)) \in Nat /\ Cardinality(ListOf(deps)) <= Len(deps)
<1> DEFINE n == Len(deps)
           f == [i \in 1 .. n |-> deps[i].id]
<1>1. n \in Nat /\ DOMAIN deps = 1 .. n
  BY DEF Listed
<1>2. f \in Surjection(1 .. n, ListOf(deps))
  BY <1>1 DEF Surjection, ListOf
<1>3. IsFiniteSet(1 .. n) /\ Cardinality(1 .. n) = n
  <2>1. 1 \in Int /\ n \in Int
    BY <1>1
  <2>2. IsFiniteSet(1 .. n) /\ Cardinality(1 .. n) = IF 1 > n THEN 0 ELSE n - 1 + 1
    <3> HIDE DEF n
    <3> QED BY <2>1, FS_Interval
  <2> QED BY <1>1, <2>2
<1> HIDE DEF n, f
<1>4. IsFiniteSet(ListOf(deps)) /\ Cardinality(ListOf(deps)) <= n
  BY <1>2, <1>3, FS_Surjection
<1> QED BY <1>4, FS_CardinalityType DEF n

\* Where a visit halts: at the root, at what was listed, or at what it passed.
Halts(path, order, i) ==
  path[i] = Root \/ path[i] \in ToSet(order) \/ \E j \in 0 .. i - 1 : path[j] = path[i]

LEMMA VisitHalts ==
  ASSUME NEW deps, Listed(deps), NEW path, Climbs(deps, path), NEW order
  PROVE  \E last \in 0 .. Len(deps) : Halts(path, order, last) /\ \A i \in 0 .. last - 1 : ~Halts(path, order, i)
<1> DEFINE n == Len(deps)
           stops == {i \in 0 .. n : Halts(path, order, i)}
<1>1. n \in Nat
  BY DEF Listed
<1>2. stops # {}
  <2> SUFFICES ASSUME \A i \in 0 .. n : ~Halts(path, order, i) PROVE FALSE
    OBVIOUS
  <2>1. path \in [0 .. n -> ListOf(deps)]
    BY DEF Climbs, Halts
  <2>2. IsFiniteSet(0 .. n) /\ Cardinality(0 .. n) = n + 1
    BY <1>1, FS_Interval
  <2>3. Cardinality(ListOf(deps)) < Cardinality(0 .. n) /\ IsFiniteSet(ListOf(deps))
    BY <1>1, <2>2, ListIsFinite
  <2>4. PICK x, y \in 0 .. n : x # y /\ path[x] = path[y]
    <3> HIDE DEF n
    <3> QED BY <2>1, <2>2, <2>3, FS_PigeonHole
  <2>5. x \in 0 .. y - 1 \/ y \in 0 .. x - 1
    BY <1>1, <2>4
  <2> QED BY <2>4, <2>5 DEF Halts
<1>3. stops \in SUBSET Nat
  BY <1>1
<1>4. PICK last \in stops : \A m \in stops : last <= m
  <2> HIDE DEF stops
  <2> QED BY <1>2, <1>3, NatLeast
<1>5. ASSUME NEW i \in 0 .. last - 1 PROVE ~Halts(path, order, i)
  <2>1. i \in 0 .. n /\ ~(last <= i)
    BY <1>1, <1>4
  <2> QED BY <1>4, <2>1
<1> QED BY <1>4, <1>5

\* Listed upwards: nothing twice, each after its parent.
Good(order, deps) ==
  /\ \A i, j \in DOMAIN order : order[i] = order[j] => i = j
  /\ \A i \in DOMAIN order : ParentIn(deps, order[i]) # Root => \E j \in 1 .. i - 1 : order[j] = ParentIn(deps, order[i])
Cyclic(deps) ==
  \E S \in SUBSET ListOf(deps) : S # {} /\ \A d \in S : ParentIn(deps, d) \in S

\* What a visit of departments has come to.
Visits(deps) ==
  {v \in [cycle : BOOLEAN, order : Seq(ListOf(deps))] : IF v.cycle THEN Cyclic(deps) ELSE Good(v.order, deps)}

LEMMA PassedIsListed ==
  ASSUME NEW deps, Listed(deps), NEW path, Climbs(deps, path),
         NEW order \in Seq(ListOf(deps)), Good(order, deps),
         NEW last \in 0 .. Len(deps), path[last] = Root \/ path[last] \in ToSet(order),
         \A i \in 0 .. last - 1 : ~Halts(path, order, i), path[0] # Root
  PROVE  LET new == order \o [i \in 1 .. last |-> path[last - i]]
         IN /\ new \in Seq(ListOf(deps)) /\ Good(new, deps)
            /\ ToSet(order) \subseteq ToSet(new) /\ path[0] \in ToSet(new)
<1> DEFINE back == [i \in 1 .. last |-> path[last - i]]
           new == order \o back
           k == Len(order)
<1>0. /\ Len(deps) \in Nat /\ last \in Nat /\ k \in Nat /\ DOMAIN order = 1 .. k
      /\ \A i \in 0 .. last : path[i] \in ListOf(deps) \cup {Root}
      /\ \A i \in 1 .. last : path[i] = IF path[i - 1] = Root THEN Root ELSE ParentIn(deps, path[i - 1])
  BY DEF Listed, Climbs
<1>1. ASSUME NEW i \in 0 .. last - 1
      PROVE  /\ path[i] # Root /\ path[i] \notin ToSet(order) /\ path[i] \in ListOf(deps)
             /\ path[i + 1] = ParentIn(deps, path[i])
  <2>1. path[i] # Root /\ path[i] \notin ToSet(order)
    BY <1>1 DEF Halts
  <2>2. i + 1 \in 1 .. last /\ (i + 1) - 1 = i /\ i \in 0 .. last
    BY <1>0
  <2> QED BY <1>0, <2>1, <2>2
<1>2. \A i, j \in 0 .. last - 1 : path[i] = path[j] => i = j
  <2> SUFFICES ASSUME NEW i \in 0 .. last - 1, NEW j \in 0 .. last - 1, i < j PROVE path[i] # path[j]
    BY <1>0
  <2>1. i \in 0 .. j - 1
    OBVIOUS
  <2> QED BY <2>1 DEF Halts
<1>3. back \in Seq(ListOf(deps)) /\ Len(back) = last
  <2>1. \A i \in 1 .. last : last - i \in 0 .. last - 1
    BY <1>0
  <2>2. back \in [1 .. last -> ListOf(deps)]
    BY <1>1, <2>1
  <2> HIDE DEF back
  <2> QED BY <1>0, <2>2
<1>4. /\ new \in Seq(ListOf(deps)) /\ Len(new) = k + last /\ DOMAIN new = 1 .. k + last
      /\ \A i \in 1 .. k : new[i] = order[i]
      /\ \A i \in k + 1 .. k + last : new[i] = back[i - k]
  <2> HIDE DEF back
  <2> QED BY <1>0, <1>3
<1>5. ASSUME NEW i \in k + 1 .. k + last
      PROVE  /\ last - (i - k) \in 0 .. last - 1 /\ new[i] = path[last - (i - k)]
  <2>1. i - k \in 1 .. last
    BY <1>0
  <2> QED BY <1>0, <1>4, <2>1
<1> HIDE DEF new, back, k
<1>6. ASSUME NEW i \in DOMAIN new, NEW j \in DOMAIN new, new[i] = new[j] PROVE i = j
  <2>1. \A x \in 1 .. k : new[x] \in ToSet(order)
    BY <1>0, <1>4 DEF ToSet
  <2>2. \A x \in k + 1 .. k + last : new[x] \notin ToSet(order)
    BY <1>1, <1>5
  <2>3. CASE i \in 1 .. k /\ j \in 1 .. k
    BY <1>0, <1>4, <1>6, <2>3 DEF Good
  <2>4. CASE i \in k + 1 .. k + last /\ j \in k + 1 .. k + last
    <3>1. last - (i - k) = last - (j - k)
      BY <1>2, <1>5, <1>6, <2>4
    <3> QED BY <1>0, <2>4, <3>1
  <2>5. (i \in 1 .. k \/ i \in k + 1 .. k + last) /\ (j \in 1 .. k \/ j \in k + 1 .. k + last)
    BY <1>0, <1>4
  <2> QED BY <1>6, <2>1, <2>2, <2>3, <2>4, <2>5
<1>7. ASSUME NEW i \in DOMAIN new, ParentIn(deps, new[i]) # Root
      PROVE  \E j \in 1 .. i - 1 : new[j] = ParentIn(deps, new[i])
  <2>1. CASE i \in 1 .. k
    <3>1. PICK j \in 1 .. i - 1 : order[j] = ParentIn(deps, order[i])
      BY <1>0, <1>4, <1>7, <2>1 DEF Good
    <3>2. j \in 1 .. k
      BY <1>0, <2>1
    <3> QED BY <1>4, <2>1, <3>1, <3>2
  <2>2. CASE i \in k + 1 .. k + last
    <3> DEFINE x == last - (i - k)
    <3>1. x \in 0 .. last - 1 /\ new[i] = path[x] /\ path[x + 1] = ParentIn(deps, path[x])
      BY <1>1, <1>5, <2>2
    <3>2. CASE i = k + 1
      <4>1. x + 1 = last
        BY <1>0, <3>2
      <4>2. PICK j \in DOMAIN order : order[j] = path[last]
        BY <1>7, <3>1, <4>1 DEF ToSet
      <4>3. j \in 1 .. k /\ j \in 1 .. i - 1
        BY <1>0, <3>2
      <4> QED BY <1>4, <3>1, <4>1, <4>2, <4>3
    <3>3. CASE i # k + 1
      <4>1. i - 1 \in k + 1 .. k + last /\ i - 1 \in 1 .. i - 1 /\ last - ((i - 1) - k) = x + 1
        BY <1>0, <2>2, <3>3
      <4>2. new[i - 1] = path[x + 1]
        BY <1>5, <4>1
      <4> QED BY <3>1, <4>1, <4>2
    <3> QED BY <3>2, <3>3
  <2> QED BY <1>0, <1>4, <2>1, <2>2
<1>8. ToSet(order) \subseteq ToSet(new)
  <2>1. \A i \in DOMAIN order : i \in DOMAIN new /\ new[i] = order[i]
    BY <1>0, <1>4
  <2> QED BY <2>1 DEF ToSet
<1>9. path[0] \in ToSet(new)
  <2>1. CASE last = 0
    BY <1>8, <2>1
  <2>2. CASE last # 0
    <3>1. k + last \in k + 1 .. k + last /\ last - ((k + last) - k) = 0 /\ k + last \in DOMAIN new
      BY <1>0, <1>4, <2>2
    <3>2. new[k + last] = path[0]
      BY <1>5, <3>1
    <3> QED BY <3>1, <3>2 DEF ToSet
  <2> QED BY <2>1, <2>2
<1> QED BY <1>4, <1>6, <1>7, <1>8, <1>9 DEF Good, new, back

\* What a visit returns to below itself is a cycle of the departments.
LEMMA ReturnIsCycle ==
  ASSUME NEW deps, Listed(deps), NEW path, Climbs(deps, path), NEW order,
         NEW last \in 0 .. Len(deps), path[last] # Root, path[last] \notin ToSet(order), Halts(path, order, last),
         \A i \in 0 .. last - 1 : ~Halts(path, order, i)
  PROVE  Cyclic(deps)
<1>1. PICK j \in 0 .. last - 1 : path[j] = path[last]
  BY DEF Halts
<1> DEFINE S == {path[i] : i \in j .. last - 1}
<1>2. Len(deps) \in Nat /\ last \in Nat /\ j \in Nat /\ j < last
  BY <1>1 DEF Listed
<1>3. ASSUME NEW i \in j .. last - 1 PROVE path[i] \in ListOf(deps) /\ path[i + 1] = ParentIn(deps, path[i])
  <2>1. i \in 0 .. last - 1 /\ i \in 0 .. Len(deps) /\ i + 1 \in 1 .. Len(deps) /\ (i + 1) - 1 = i
    BY <1>2
  <2>2. path[i] # Root
    BY <2>1 DEF Halts
  <2> QED BY <2>1, <2>2 DEF Climbs
<1>4. path[j] \in S
  BY <1>2
<1>5. ASSUME NEW i \in j .. last - 1 PROVE path[i + 1] \in S
  <2>1. CASE i + 1 = last
    BY <1>1, <1>4, <2>1
  <2>2. CASE i + 1 # last
    <3>1. i + 1 \in j .. last - 1
      BY <1>2, <2>2
    <3> QED BY <3>1
  <2> QED BY <2>1, <2>2
<1>6. S \in SUBSET ListOf(deps) /\ S # {} /\ \A d \in S : ParentIn(deps, d) \in S
  BY <1>3, <1>4, <1>5
<1> QED BY <1>6 DEF Cyclic

LEMMA VisitKeeps ==
  ASSUME NEW deps, Listed(deps), ParentsValid(deps), NEW v \in Visits(deps), NEW d \in ListOf(deps)
  PROVE  /\ Visit(deps, v, d) \in Visits(deps)
         /\ ~Visit(deps, v, d).cycle =>
              ~v.cycle /\ d \in ToSet(Visit(deps, v, d).order) /\ ToSet(v.order) \subseteq ToSet(Visit(deps, v, d).order)
<1> DEFINE path == Upwards(deps, d)
           Top(i) == path[i] = Root \/ path[i] \in ToSet(v.order)
           stops == {i \in DOMAIN path : Top(i) \/ \E j \in 0 .. i - 1 : path[j] = path[i]}
           last == Min(stops)
           new == v.order \o [i \in 1 .. last |-> path[last - i]]
<1>1. Climbs(deps, path) /\ path[0] = d /\ d # Root
  <2>1. d \in RemoteDepts
    <3>1. PICK i \in DOMAIN deps : d = deps[i].id
      BY DEF ListOf
    <3>2. deps[i] \in Department
      BY DEF Listed
    <3> QED BY <3>1, <3>2 DEF Department
  <2> QED BY <2>1, UpwardsClimbs, ClientAssumption DEF ClientAssumption
<1>2. DOMAIN path = 0 .. Len(deps) /\ Len(deps) \in Nat
  BY <1>1 DEF Climbs, Listed
<1>3. Visit(deps, v, d) = IF v.cycle \/ ~Top(last) THEN [v EXCEPT !.cycle = TRUE] ELSE [v EXCEPT !.order = new]
  BY DEF Visit
<1> HIDE DEF path
<1>4. last \in 0 .. Len(deps) /\ Halts(path, v.order, last) /\ \A i \in 0 .. last - 1 : ~Halts(path, v.order, i)
  <2>1. PICK m \in 0 .. Len(deps) : Halts(path, v.order, m) /\ \A i \in 0 .. m - 1 : ~Halts(path, v.order, i)
    BY <1>1, VisitHalts
  <2>2. stops = {i \in 0 .. Len(deps) : Halts(path, v.order, i)}
    BY <1>2 DEF Halts
  <2>3. m \in stops /\ \A i \in stops : m <= i
    <3>1. m \in stops
      BY <2>1, <2>2
    <3>2. ASSUME NEW i \in stops, i < m PROVE FALSE
      <4>1. i \in 0 .. m - 1
        BY <1>2, <2>2, <3>2
      <4> QED BY <2>1, <2>2, <4>1
    <3>3. stops \subseteq Nat /\ m \in Nat
      BY <1>2, <2>2
    <3> QED BY <3>1, <3>2, <3>3
  <2>4. stops \subseteq Nat
    BY <1>2
  <2>5. last = m
    <3> HIDE DEF stops
    <3>1. last \in stops /\ \A i \in stops : last <= i
      BY <2>3 DEF Min
    <3>2. last <= m /\ m <= last /\ last \in Nat /\ m \in Nat
      BY <2>3, <2>4, <3>1
    <3> HIDE DEF last
    <3> QED BY <3>2
  <2> HIDE DEF last
  <2> QED BY <2>1, <2>5
<1>5. v \in [cycle : BOOLEAN, order : Seq(ListOf(deps))] /\ IF v.cycle THEN Cyclic(deps) ELSE Good(v.order, deps)
  BY DEF Visits
<1> HIDE DEF last
<1>6. CASE v.cycle
  BY <1>3, <1>5, <1>6 DEF Visits
<1>7. CASE ~v.cycle /\ ~Top(last)
  <2>1. Cyclic(deps)
    BY <1>1, <1>4, <1>7, ReturnIsCycle
  <2> HIDE DEF new
  <2> QED BY <1>3, <1>5, <1>7, <2>1 DEF Visits
<1>8. CASE ~v.cycle /\ Top(last)
  <2>1. new \in Seq(ListOf(deps)) /\ Good(new, deps) /\ ToSet(v.order) \subseteq ToSet(new) /\ d \in ToSet(new)
    <3>1. v.order \in Seq(ListOf(deps)) /\ Good(v.order, deps)
      BY <1>5, <1>8
    <3> QED BY <1>1, <1>4, <1>8, <3>1, PassedIsListed
  <2> HIDE DEF new
  <2>2. Visit(deps, v, d) = [v EXCEPT !.order = new]
    BY <1>3, <1>8
  <2>3. Visit(deps, v, d).order = new /\ ~Visit(deps, v, d).cycle /\ Visit(deps, v, d) \in [cycle : BOOLEAN, order : Seq(ListOf(deps))]
    BY <1>5, <1>8, <2>1, <2>2
  <2> QED BY <1>8, <2>1, <2>3 DEF Visits
<1> QED BY <1>6, <1>7, <1>8

LEMMA VisitedIsSound ==
  ASSUME NEW deps, Listed(deps), ParentsValid(deps)
  PROVE  /\ Visited(deps) \in Visits(deps)
         /\ ~Visited(deps).cycle => ToSet(Visited(deps).order) = ListOf(deps)
<1> DEFINE n == Len(deps)
           W == Visits(deps)
           none == [cycle |-> FALSE, order |-> << >>]
           step == [k \in 1 .. n |-> [v \in W |-> Visit(deps, v, deps[k].id)]]
           Solution(f) == f = [k \in 0 .. n |-> IF k = 0 THEN none ELSE Visit(deps, f[k - 1], deps[k].id)]
           after == CHOOSE f : Solution(f)
<1>0. n \in Nat /\ DOMAIN deps = 1 .. n /\ none \in W
  BY DEF Listed, Visits, Good
<1>1. \A k \in 1 .. n : deps[k].id \in ListOf(deps)
  BY <1>0 DEF ListOf
<1>2. PICK f : Recursion(f, n, W, none, step)
  <2>1. step \in [1 .. n -> [W -> W]]
    BY <1>1, VisitKeeps
  <2> HIDE DEF step, n, W, none
  <2> QED BY <1>0, <2>1, RecursionSolved
<1>3. Solution(f)
  <2>1. ASSUME NEW k \in 0 .. n PROVE f[k] = IF k = 0 THEN none ELSE Visit(deps, f[k - 1], deps[k].id)
    <3>1. CASE k = 0
      BY <1>2, <3>1 DEF Recursion
    <3>2. CASE k # 0
      <4>1. k \in 1 .. n /\ k - 1 \in 0 .. n
        BY <1>0, <3>2
      <4>2. f[k - 1] \in W /\ f[k] = step[k][f[k - 1]]
        BY <1>2, <3>2, <4>1 DEF Recursion
      <4> QED BY <3>2, <4>1, <4>2
    <3> QED BY <3>1, <3>2
  <2> QED BY <1>2, <2>1 DEF Recursion
<1>4. Solution(after)
  BY <1>3
<1>5. Visited(deps) = after[n]
  BY DEF Visited
<1> HIDE DEF after, W
<1>6. DOMAIN after = 0 .. n /\ after[0] = none /\ \A k \in 1 .. n : after[k] = Visit(deps, after[k - 1], deps[k].id)
  <2>1. after = [k \in 0 .. n |-> IF k = 0 THEN none ELSE Visit(deps, after[k - 1], deps[k].id)]
    BY <1>4
  <2> HIDE DEF none
  <2>2. 0 \in 0 .. n /\ \A k \in 1 .. n : k \in 0 .. n /\ k # 0
    BY <1>0
  <2> QED BY <2>1, <2>2
<1> HIDE DEF none
<1> DEFINE Fine(k) == /\ after[k] \in W
                      /\ ~after[k].cycle => \A i \in 1 .. k : deps[i].id \in ToSet(after[k].order)
           Bad == {k \in 0 .. n : ~Fine(k)}
<1>7. Bad = {}
  <2> SUFFICES ASSUME Bad # {} PROVE FALSE
    OBVIOUS
  <2>0. Bad \in SUBSET Nat
    OBVIOUS
  <2>1. PICK k \in Bad : \A j \in Bad : k <= j
    <3> HIDE DEF Bad
    <3> QED BY <2>0, NatLeast
  <2>2. k # 0
    <3>1. none \in W /\ \A i \in 1 .. 0 : FALSE
      BY <1>0
    <3> QED BY <1>6, <2>1, <3>1
  <2>3. k \in 1 .. n /\ k - 1 \in 0 .. n /\ Fine(k - 1)
    <3>1. k \in 1 .. n /\ k - 1 \in 0 .. n /\ ~(k <= k - 1)
      BY <1>0, <2>1, <2>2
    <3> QED BY <2>1, <3>1
  <2>4. /\ after[k] \in W
        /\ ~after[k].cycle =>
             ~after[k - 1].cycle /\ deps[k].id \in ToSet(after[k].order) /\ ToSet(after[k - 1].order) \subseteq ToSet(after[k].order)
    <3>1. after[k] = Visit(deps, after[k - 1], deps[k].id) /\ after[k - 1] \in Visits(deps) /\ deps[k].id \in ListOf(deps)
      BY <1>1, <1>6, <2>3 DEF W
    <3> HIDE DEF n, Fine, Bad
    <3> QED BY <3>1, VisitKeeps DEF W
  <2>5. \A i \in 1 .. k : i \in 1 .. k - 1 \/ i = k
    BY <1>0, <2>3
  <2>6. Fine(k)
    BY <2>3, <2>4, <2>5
  <2> QED BY <2>1, <2>6
<1>8. Fine(n)
  BY <1>0, <1>7
<1>9. after[n].order \in Seq(ListOf(deps))
  BY <1>8 DEF W, Visits
<1>10. ToSet(after[n].order) \subseteq ListOf(deps)
  BY <1>9 DEF ToSet
<1> QED BY <1>0, <1>5, <1>8, <1>10 DEF W, ListOf

\* The departments of a list, as Feishu would keep them.
ParentsOf(deps) == [d \in RemoteDepts |-> IF d \in ListOf(deps) THEN ParentIn(deps, d) ELSE Deleted]

LEMMA ListIsPresent ==
  ASSUME NEW deps, Listed(deps)
  PROVE  /\ ListOf(deps) \subseteq RemoteDepts /\ Present(ParentsOf(deps)) = ListOf(deps)
         /\ \A d \in ListOf(deps) : ParentsOf(deps)[d] = ParentIn(deps, d)
<1>1. ASSUME NEW d \in ListOf(deps) PROVE d \in RemoteDepts /\ ParentIn(deps, d) \in RemoteDepts \cup {Root}
  <2>1. PICK i \in DOMAIN deps : d = deps[i].id
    BY DEF ListOf
  <2>2. deps[i] \in Department
    BY DEF Listed
  <2>3. ParentIn(deps, d) \in RemoteDepts \cup {Root}
    BY <2>1, ParentOf
  <2> QED BY <2>1, <2>2, <2>3 DEF Department
<1>2. \A d \in RemoteDepts : ParentsOf(deps)[d] = IF d \in ListOf(deps) THEN ParentIn(deps, d) ELSE Deleted
  BY DEF ParentsOf
<1>3. Deleted \notin RemoteDepts \cup {Root}
  BY ClientAssumption DEF ClientAssumption, Deleted, Root
<1> QED BY <1>1, <1>2, <1>3 DEF Present

LEMMA ListedUpwardsIsTree ==
  ASSUME NEW deps, Listed(deps), ParentsValid(deps), NEW order \in Seq(ListOf(deps)), Good(order, deps),
         ToSet(order) = ListOf(deps)
  PROVE  IsTree(ParentsOf(deps))
<1> DEFINE parents == ParentsOf(deps)
<1>1. ListOf(deps) \subseteq RemoteDepts /\ Present(parents) = ListOf(deps) /\ \A d \in ListOf(deps) : parents[d] = ParentIn(deps, d)
  BY ListIsPresent
<1> HIDE DEF parents
<1>2. ASSUME NEW d \in Present(parents) PROVE parents[d] \in Present(parents) \cup {Root}
  <2>1. PICK i \in DOMAIN deps : d = deps[i].id
    BY <1>1 DEF ListOf
  <2>2. ParentIn(deps, d) = deps[i].parent
    BY <2>1, ParentOf
  <2> QED BY <1>1, <2>1, <2>2, IdsOf DEF ParentsValid
<1>3. ASSUME NEW S \in SUBSET Present(parents), S # {} PROVE \E d \in S : parents[d] \notin S
  <2> DEFINE places == {i \in DOMAIN order : order[i] \in S}
  <2>1. places \in SUBSET Nat /\ places # {}
    BY <1>1, <1>3 DEF ToSet
  <2>2. PICK i \in places : \A j \in places : i <= j
    <3> HIDE DEF places
    <3> QED BY <2>1, NatLeast
  <2>3. order[i] \in S /\ i \in DOMAIN order /\ DOMAIN order = 1 .. Len(order) /\ Len(order) \in Nat
    BY <2>2
  <2>4. parents[order[i]] = ParentIn(deps, order[i])
    BY <1>1, <2>3
  <2>5. CASE parents[order[i]] = Root
    BY <1>1, <2>3, <2>5, ClientAssumption DEF ClientAssumption
  <2>6. CASE parents[order[i]] # Root
    <3>1. PICK j \in 1 .. i - 1 : order[j] = parents[order[i]]
      BY <2>3, <2>4, <2>6 DEF Good
    <3>2. j \in DOMAIN order /\ ~(i <= j)
      BY <2>3
    <3> QED BY <2>2, <2>3, <3>1, <3>2
  <2> QED BY <2>5, <2>6
<1> QED BY <1>2, <1>3 DEF IsTree, parents

LEMMA RefusedIsNoDirectory ==
  ASSUME NEW deps, Listed(deps), NEW users,
         ~(ParentsValid(deps) /\ ~Visited(deps).cycle /\ UsersValid(deps, users))
  PROVE  ~IsDirectory(ParentsOf(deps), users)
<1> DEFINE parents == ParentsOf(deps)
<1>1. ListOf(deps) \subseteq RemoteDepts /\ Present(parents) = ListOf(deps) /\ \A d \in ListOf(deps) : parents[d] = ParentIn(deps, d)
  BY ListIsPresent
<1> HIDE DEF parents
<1>2. CASE ~ParentsValid(deps)
  <2>1. PICK i \in DOMAIN deps : deps[i].parent \notin ListOf(deps) \cup {Root}
    BY <1>2, IdsOf DEF ParentsValid
  <2>2. deps[i].id \in ListOf(deps) /\ ParentIn(deps, deps[i].id) = deps[i].parent
    BY ParentOf DEF ListOf
  <2> QED BY <1>1, <2>1, <2>2 DEF IsDirectory, IsTree, parents
<1>3. CASE ParentsValid(deps) /\ Visited(deps).cycle
  <2>1. Cyclic(deps)
    BY <1>3, VisitedIsSound DEF Visits
  <2>2. PICK S \in SUBSET ListOf(deps) : S # {} /\ \A d \in S : ParentIn(deps, d) \in S
    BY <2>1 DEF Cyclic
  <2>3. \A d \in S : parents[d] \in S
    BY <1>1, <2>2
  <2> QED BY <1>1, <2>2, <2>3 DEF IsDirectory, IsTree, parents
<1>4. CASE ~UsersValid(deps, users)
  BY <1>1, <1>4, IdsOf DEF UsersValid, IsDirectory, parents
<1> QED BY <1>2, <1>3, <1>4

-----------------------------------------------------------------------------

FetchPlaces == {"idle", "departments", "users", "fetched", "valid", "refused", "failed"}
RemoteHomes == SUBSET (RemoteDepts \cup {Root})
Request == [attempt : Nat, renewed : BOOLEAN]
Fetch ==
  [at : FetchPlaces, breadthFirst : BOOLEAN, queue : Seq(RemoteDepts \cup {Root}),
   returned : SUBSET (RemoteDepts \cup RemoteUsers), departments : Seq(Department),
   users : [RemoteUsers -> RemoteHomes], request : Request]

ClientTypes ==
  /\ parentAtFeishu \in [RemoteDepts -> RemoteDepts \cup {Root, Deleted}]
  /\ homesAtFeishu \in [RemoteUsers -> RemoteHomes]
  /\ changes \in 0 .. MaxRemoteChanges /\ token \in {"none", "valid", "expired"} /\ fetch \in Fetch

\* While pages are asked for, there is a department they are asked of.
SomethingIsAsked == fetch.at \in {"departments", "users"} => fetch.queue # << >>

ClientInv ==
  ClientTypes /\ IsDirectory(parentAtFeishu, homesAtFeishu) /\ SomethingIsAsked /\ Listed(fetch.departments) /\ SnapshotSound

\* One part of a fetch replaced at a time.
LEMMA FetchReplaced ==
  \A f \in Fetch :
    /\ \A x \in FetchPlaces : [f EXCEPT !.at = x] \in Fetch
    /\ \A x \in Seq(RemoteDepts \cup {Root}) : [f EXCEPT !.queue = x] \in Fetch
    /\ \A x \in SUBSET (RemoteDepts \cup RemoteUsers) : [f EXCEPT !.returned = x] \in Fetch
    /\ \A x \in Seq(Department) : [f EXCEPT !.departments = x] \in Fetch
    /\ \A x \in [RemoteUsers -> RemoteHomes] : [f EXCEPT !.users = x] \in Fetch
    /\ \A x \in Request : [f EXCEPT !.request = x] \in Fetch
BY DEF Fetch

LEMMA NotFetchingIsFetch ==
  NotFetching \in Fetch /\ Listed(NotFetching.departments)
<1>1. [u \in RemoteUsers |-> {}] \in [RemoteUsers -> RemoteHomes]
  BY DEF RemoteHomes
<1>2. << >> \in Seq(RemoteDepts \cup {Root}) /\ << >> \in Seq(Department)
  OBVIOUS
<1> HIDE DEF Department, RemoteHomes
<1>3. NotFetching \in Fetch
  BY <1>1, <1>2 DEF NotFetching, Fetch, FetchPlaces, Request, FreshRequest
<1> QED BY <1>2, <1>3 DEF NotFetching, Listed

LEMMA InitHasClientInv == ClientInit => ClientInv
<1> SUFFICES ASSUME ClientInit PROVE ClientInv
  OBVIOUS
<1>1. fetch.at = "idle" /\ fetch \in Fetch /\ Listed(fetch.departments)
  BY NotFetchingIsFetch DEF ClientInit, NotFetching
<1>2. ClientTypes
  BY <1>1, ClientAssumption DEF ClientInit, ClientTypes, RemoteHomes, ClientAssumption
<1> QED BY <1>1, <1>2 DEF ClientInit, ClientInv, SomethingIsAsked, SnapshotSound

\* A snapshot stands or falls only when it is validated.
LEMMA NoVerdict ==
  ASSUME fetch'.at \notin {"valid", "refused"} PROVE SnapshotSound'
BY DEF SnapshotSound

\* What stands in a finite set, one after another.
LEMMA SetInSequence ==
  ASSUME NEW S, IsFiniteSet(S)
  PROVE  SetToSeq(S) \in Seq(S) /\ \A i, j \in DOMAIN SetToSeq(S) : SetToSeq(S)[i] = SetToSeq(S)[j] => i = j
<1> DEFINE n == Cardinality(S)
           seq == CHOOSE f \in [1 .. n -> S] : IsInjective(f)
<1>1. n \in Nat /\ ExistsBijection(1 .. n, S)
  BY FS_CardinalityType
<1>2. \E f \in [1 .. n -> S] : IsInjective(f)
  BY <1>1 DEF ExistsBijection, Bijection, Injection, IsInjective
<1>3. seq \in [1 .. n -> S] /\ IsInjective(seq)
  BY <1>2
<1>4. SetToSeq(S) = seq
  BY DEF SetToSeq
<1> HIDE DEF seq
<1> QED BY <1>1, <1>3, <1>4 DEF IsInjective

\* A page of departments adds what was not known.
LEMMA NewDepartments ==
  ASSUME NEW deps, Listed(deps), NEW new \in Seq(RemoteDepts \ ListOf(deps)),
         \A i, j \in DOMAIN new : new[i] = new[j] => i = j,
         NEW parents, \A i \in DOMAIN new : parents[new[i]] \in RemoteDepts \cup {Root}
  PROVE  Listed(deps \o [i \in DOMAIN new |-> [id |-> new[i], parent |-> parents[new[i]]]])
<1> DEFINE added == [i \in DOMAIN new |-> [id |-> new[i], parent |-> parents[new[i]]]]
           all == deps \o added
           k == Len(deps)
           m == Len(new)
<1>1. k \in Nat /\ m \in Nat /\ DOMAIN deps = 1 .. k /\ DOMAIN new = 1 .. m /\ deps \in Seq(Department)
  BY DEF Listed
<1>2. added \in Seq(Department) /\ Len(added) = m /\ \A i \in 1 .. m : added[i].id = new[i] /\ new[i] \notin ListOf(deps)
  <2>1. \A i \in 1 .. m : new[i] \in RemoteDepts \ ListOf(deps)
    BY <1>1
  <2>2. added \in [1 .. m -> Department]
    BY <1>1, <2>1 DEF Department
  <2>3. \A i \in 1 .. m : added[i].id = new[i]
    BY <1>1
  <2> HIDE DEF added
  <2> QED BY <1>1, <2>1, <2>2, <2>3
<1> HIDE DEF added, m, k
<1>3. /\ all \in Seq(Department) /\ DOMAIN all = 1 .. k + m
      /\ \A i \in 1 .. k : all[i] = deps[i]
      /\ \A i \in k + 1 .. k + m : all[i] = added[i - k] /\ i - k \in 1 .. m
  BY <1>1, <1>2 DEF k, m
<1> HIDE DEF all
<1>4. ASSUME NEW i \in DOMAIN all, NEW j \in DOMAIN all, all[i].id = all[j].id PROVE i = j
  <2>1. \A x \in 1 .. k : all[x].id \in ListOf(deps)
    BY <1>1, <1>3 DEF ListOf
  <2>2. \A x \in k + 1 .. k + m : all[x].id \notin ListOf(deps) /\ all[x].id = new[x - k]
    BY <1>2, <1>3
  <2>3. CASE i \in 1 .. k /\ j \in 1 .. k
    BY <1>1, <1>3, <1>4, <2>3 DEF Listed
  <2>4. CASE i \in k + 1 .. k + m /\ j \in k + 1 .. k + m
    <3>1. i - k = j - k
      <4>1. i - k \in DOMAIN new /\ j - k \in DOMAIN new /\ new[i - k] = new[j - k]
        BY <1>1, <1>3, <1>4, <2>2, <2>4
      <4> QED BY <4>1
    <3> QED BY <1>1, <2>4, <3>1
  <2>5. (i \in 1 .. k \/ i \in k + 1 .. k + m) /\ (j \in 1 .. k \/ j \in k + 1 .. k + m)
    BY <1>1, <1>3
  <2> QED BY <1>4, <2>1, <2>2, <2>3, <2>4, <2>5
<1> QED BY <1>3, <1>4 DEF Listed, all, added

\* What the requests and Feishu do between two pages disturbs nothing.
LEMMA BetweenPagesKeeps ==
  ASSUME ClientInv,
         \/ DirectoryChanges \/ TokenExpires \/ RequestTenantAccessToken \/ RetryRequest \/ RenewToken
         \/ FetchFails \/ FetchBegins \/ FetchDepartmentsBreadthFirst \/ UNCHANGED clientVars
  PROVE  ClientInv'
<1> USE DEF ClientInv
<1>1. fetch \in Fetch
  BY DEF ClientTypes
<1>2. CASE DirectoryChanges \/ TokenExpires \/ RequestTenantAccessToken \/ UNCHANGED clientVars
  <2>1. UNCHANGED fetch
    BY <1>2 DEF DirectoryChanges, TokenExpires, RequestTenantAccessToken, clientVars
  <2>2. IsDirectory(parentAtFeishu', homesAtFeishu')
    BY <1>2 DEF DirectoryChanges, TokenExpires, RequestTenantAccessToken, clientVars
  <2>3. ClientTypes'
    <3>1. /\ parentAtFeishu' \in [RemoteDepts -> RemoteDepts \cup {Root, Deleted}]
          /\ homesAtFeishu' \in [RemoteUsers -> RemoteHomes]
      BY <1>2 DEF ClientTypes, RemoteHomes, DirectoryChanges, TokenExpires, RequestTenantAccessToken, clientVars
    <3>2. changes' \in 0 .. MaxRemoteChanges /\ token' \in {"none", "valid", "expired"}
      BY <1>2, ClientAssumption
         DEF ClientTypes, DirectoryChanges, TokenExpires, RequestTenantAccessToken, clientVars, ClientAssumption
    <3> QED BY <2>1, <3>1, <3>2 DEF ClientTypes
  <2>4. SnapshotSound'
    BY <2>1 DEF SnapshotSound, Known
  <2> QED BY <2>1, <2>2, <2>3, <2>4 DEF SomethingIsAsked
<1>3. CASE RetryRequest \/ RenewToken
  <2>1. Working /\ UNCHANGED <<parentAtFeishu, homesAtFeishu, changes>> /\ token' \in {token, "none"}
    BY <1>3 DEF RetryRequest, RenewToken
  <2>2. \E q \in Request : fetch' = [fetch EXCEPT !.request = q]
    <3>1. CASE RetryRequest
      <4>1. fetch.request \in Request
        BY <1>1 DEF Fetch
      <4> DEFINE q == [fetch.request EXCEPT !.attempt = @ + 1]
      <4>2. q \in Request
        BY <4>1 DEF Request
      <4>3. fetch' = [fetch EXCEPT !.request = q]
        BY <3>1 DEF RetryRequest
      <4> QED BY <4>2, <4>3
    <3>2. CASE RenewToken
      BY <3>2 DEF RenewToken, Request
    <3> QED BY <1>3, <3>1, <3>2
  <2>3. fetch' \in Fetch
    BY <1>1, <2>2, FetchReplaced
  <2>4. fetch'.at = fetch.at /\ fetch'.queue = fetch.queue /\ fetch'.departments = fetch.departments
    BY <1>1, <2>2 DEF Fetch
  <2>5. SnapshotSound'
    BY <2>1, <2>4, NoVerdict DEF Working
  <2> QED BY <2>1, <2>3, <2>4, <2>5 DEF ClientTypes, SomethingIsAsked
<1>4. CASE FetchFails \/ FetchBegins \/ FetchDepartmentsBreadthFirst
  <2>1. UNCHANGED <<parentAtFeishu, homesAtFeishu, changes, token>>
    BY <1>4 DEF FetchFails, FetchBegins, FetchDepartmentsBreadthFirst
  <2>2. /\ fetch' \in Fetch /\ fetch'.departments = NotFetching.departments
        /\ \/ fetch'.at = "failed"
           \/ fetch'.at = "departments" /\ fetch'.queue = <<Root>>
    <3> DEFINE f1 == [NotFetching EXCEPT !.at = "departments"]
               f2 == [f1 EXCEPT !.queue = <<Root>>]
               f3 == [f2 EXCEPT !.breadthFirst = TRUE]
    <3>0. NotFetching \in Fetch /\ <<Root>> \in Seq(RemoteDepts \cup {Root})
      BY NotFetchingIsFetch
    <3>1. CASE FetchFails
      BY <3>0, <3>1 DEF FetchFails, Fetch, FetchPlaces
    <3>4. /\ f1 \in Fetch /\ f1.departments = NotFetching.departments /\ f1.at = "departments"
          /\ f2 \in Fetch /\ f2.departments = NotFetching.departments /\ f2.at = "departments" /\ f2.queue = <<Root>>
          /\ f3 \in Fetch /\ f3.departments = NotFetching.departments /\ f3.at = "departments" /\ f3.queue = <<Root>>
      <4>1. f1 \in Fetch /\ f1.departments = NotFetching.departments /\ f1.at = "departments"
        BY <3>0 DEF Fetch, FetchPlaces
      <4> HIDE DEF f1
      <4>2. f2 \in Fetch /\ f2.departments = NotFetching.departments /\ f2.at = "departments" /\ f2.queue = <<Root>>
        BY <3>0, <4>1 DEF Fetch
      <4> HIDE DEF f2
      <4> QED BY <4>1, <4>2 DEF Fetch
    <3>2. CASE FetchBegins
      BY <3>2, <3>4 DEF FetchBegins
    <3>3. CASE FetchDepartmentsBreadthFirst
      <4>1. fetch' = f3
        BY <3>3 DEF FetchDepartmentsBreadthFirst
      <4> QED BY <3>4, <4>1
    <3> QED BY <1>4, <3>1, <3>2, <3>3
  <2>3. SnapshotSound'
    BY <2>2, NoVerdict
  <2>4. Listed(fetch'.departments)
    BY <2>2, NotFetchingIsFetch
  <2>5. <<Root>> # << >>
    OBVIOUS
  <2> QED BY <2>1, <2>2, <2>3, <2>4, <2>5 DEF ClientTypes, SomethingIsAsked
<1> QED BY <1>2, <1>3, <1>4

LEMMA DepartmentPageKeeps == ASSUME ClientInv, DepartmentPage PROVE ClientInv'
<1> USE DEF ClientInv
<1>1. fetch \in Fetch /\ fetch.at = "departments" /\ fetch.queue # << >>
  BY DEF ClientTypes, DepartmentPage, SomethingIsAsked
<1>2. /\ fetch.queue \in Seq(RemoteDepts \cup {Root}) /\ fetch.returned \in SUBSET (RemoteDepts \cup RemoteUsers)
      /\ fetch.departments \in Seq(Department)
  BY <1>1 DEF Fetch
<1>3. PICK page \in Pages(Children) :
        LET new == SetToSeq(page.items \ Known)
            departments == fetch.departments \o [i \in DOMAIN new |-> [id |-> new[i], parent |-> parentAtFeishu[new[i]]]]
            queue == (IF page.more THEN fetch.queue ELSE Tail(fetch.queue)) \o (IF fetch.breadthFirst THEN new ELSE << >>)
        IN fetch' = [fetch EXCEPT
             !.departments = departments, !.request = FreshRequest,
             !.returned = IF page.more THEN @ \cup page.items ELSE {},
             !.at = IF queue = << >> THEN "users" ELSE @,
             !.queue = IF queue = << >> THEN <<Root>> \o Ids(departments) ELSE queue]
  BY DEF DepartmentPage
<1> DEFINE S == page.items \ Known
           new == SetToSeq(S)
           departments == fetch.departments \o [i \in DOMAIN new |-> [id |-> new[i], parent |-> parentAtFeishu[new[i]]]]
           rest == IF page.more THEN fetch.queue ELSE Tail(fetch.queue)
           queue == rest \o (IF fetch.breadthFirst THEN new ELSE << >>)
           returned == IF page.more THEN fetch.returned \cup page.items ELSE {}
           at == IF queue = << >> THEN "users" ELSE "departments"
           next == IF queue = << >> THEN <<Root>> \o Ids(departments) ELSE queue
<1>4. fetch' = [fetch EXCEPT !.departments = departments, !.request = FreshRequest, !.returned = returned, !.at = at, !.queue = next]
  BY <1>1, <1>3 DEF Fetch
<1>5. page.items \subseteq Present(parentAtFeishu) /\ page.items \subseteq RemoteDepts
  BY DEF Pages, Remaining, Children, Present
<1>6. Known = ListOf(fetch.departments)
  BY DEF Known, ListOf
<1>7. /\ new \in Seq(RemoteDepts \ ListOf(fetch.departments)) /\ new \in Seq(RemoteDepts \cup {Root})
      /\ \A i, j \in DOMAIN new : new[i] = new[j] => i = j
      /\ \A i \in DOMAIN new : new[i] \in Present(parentAtFeishu)
  <2>1. S \subseteq RemoteDepts \ ListOf(fetch.departments) /\ S \subseteq Present(parentAtFeishu)
    BY <1>5, <1>6
  <2>2. IsFiniteSet(S)
    BY <2>1, ClientAssumption, FS_Subset DEF ClientAssumption
  <2> HIDE DEF S
  <2>3. new \in Seq(S) /\ \A i, j \in DOMAIN new : new[i] = new[j] => i = j
    BY <2>2, SetInSequence
  <2> HIDE DEF new
  <2> QED BY <2>1, <2>3
<1>8. Listed(departments)
  <2>1. \A i \in DOMAIN new : parentAtFeishu[new[i]] \in RemoteDepts \cup {Root}
    <3>1. \A d \in Present(parentAtFeishu) : parentAtFeishu[d] \in RemoteDepts \cup {Root}
      BY DEF ClientTypes, Present
    <3> HIDE DEF new
    <3> QED BY <1>7, <3>1
  <2> HIDE DEF new
  <2> QED BY <1>7, <2>1, NewDepartments
<1>9. queue \in Seq(RemoteDepts \cup {Root})
  <2>1. rest \in Seq(RemoteDepts \cup {Root})
    BY <1>1, <1>2
  <2> HIDE DEF rest, new
  <2> QED BY <1>7, <2>1
<1> HIDE DEF new, queue
<1>10. departments \in Seq(Department)
  BY <1>8 DEF Listed
<1>11. next \in Seq(RemoteDepts \cup {Root}) /\ next # << >>
  <2> DEFINE ids == Ids(departments)
  <2> HIDE DEF departments
  <2>1. ids \in Seq(RemoteDepts \cup {Root})
    <3>1. \A i \in DOMAIN departments : departments[i].id \in RemoteDepts
      <4>1. \A i \in DOMAIN departments : departments[i] \in Department
        BY <1>10
      <4> QED BY <4>1 DEF Department
    <3> QED BY <1>10, <3>1 DEF Ids
  <2>2. next = IF queue = << >> THEN <<Root>> \o ids ELSE queue
    OBVIOUS
  <2> HIDE DEF ids, next
  <2>3. <<Root>> \o ids \in Seq(RemoteDepts \cup {Root}) /\ <<Root>> \o ids # << >>
    BY <2>1
  <2> QED BY <1>9, <2>2, <2>3
<1>12. returned \in SUBSET (RemoteDepts \cup RemoteUsers) /\ at \in {"departments", "users"} /\ FreshRequest \in Request
  BY <1>2, <1>5 DEF FreshRequest, Request
<1> HIDE DEF departments, returned, at, next
<1>13. fetch' \in Fetch
  BY <1>1, <1>4, <1>10, <1>11, <1>12 DEF Fetch, FetchPlaces
<1>14. fetch'.at = at /\ fetch'.queue = next /\ fetch'.departments = departments
  BY <1>1, <1>4 DEF Fetch
<1>15. SnapshotSound'
  BY <1>12, <1>14, NoVerdict
<1> QED BY <1>8, <1>11, <1>13, <1>14, <1>15 DEF ClientTypes, SomethingIsAsked, DepartmentPage

LEMMA UserPageKeeps == ASSUME ClientInv, UserPage PROVE ClientInv'
<1> USE DEF ClientInv
<1>1. fetch \in Fetch /\ fetch.at = "users" /\ fetch.queue # << >>
  BY DEF ClientTypes, UserPage, SomethingIsAsked
<1>2. /\ fetch.queue \in Seq(RemoteDepts \cup {Root}) /\ fetch.returned \in SUBSET (RemoteDepts \cup RemoteUsers)
      /\ fetch.users \in [RemoteUsers -> RemoteHomes]
  BY <1>1 DEF Fetch
<1>3. PICK page \in Pages(Users) :
        LET queue == IF page.more THEN fetch.queue ELSE Tail(fetch.queue)
        IN fetch' = [fetch EXCEPT
             !.users = [u \in RemoteUsers |-> IF u \in page.items THEN MergeUser(@[u], homesAtFeishu[u]) ELSE @[u]],
             !.request = FreshRequest,
             !.returned = IF page.more THEN @ \cup page.items ELSE {},
             !.at = IF queue = << >> THEN "fetched" ELSE @,
             !.queue = queue]
  BY DEF UserPage
<1> DEFINE queue == IF page.more THEN fetch.queue ELSE Tail(fetch.queue)
           users == [u \in RemoteUsers |-> IF u \in page.items THEN MergeUser(fetch.users[u], homesAtFeishu[u]) ELSE fetch.users[u]]
           returned == IF page.more THEN fetch.returned \cup page.items ELSE {}
           at == IF queue = << >> THEN "fetched" ELSE "users"
<1>4. fetch' = [fetch EXCEPT !.users = users, !.request = FreshRequest, !.returned = returned, !.at = at, !.queue = queue]
  BY <1>1, <1>3 DEF Fetch
<1>5. queue \in Seq(RemoteDepts \cup {Root})
  BY <1>1, <1>2
<1>6. users \in [RemoteUsers -> RemoteHomes]
  BY <1>2 DEF ClientTypes, RemoteHomes, MergeUser
<1>7. page.items \subseteq RemoteUsers
  BY DEF Pages, Remaining, Users
<1>8. returned \in SUBSET (RemoteDepts \cup RemoteUsers) /\ FreshRequest \in Request
  BY <1>2, <1>7 DEF FreshRequest, Request
<1>9. at \in {"fetched", "users"} /\ (at = "users" => queue # << >>)
  OBVIOUS
<1> HIDE DEF queue, users, returned, at
<1>10. fetch' \in Fetch
  BY <1>1, <1>4, <1>5, <1>6, <1>8, <1>9 DEF Fetch, FetchPlaces
<1>11. fetch'.at = at /\ fetch'.queue = queue /\ fetch'.departments = fetch.departments
  BY <1>1, <1>4 DEF Fetch
<1>12. SnapshotSound'
  BY <1>9, <1>11, NoVerdict
<1> QED BY <1>9, <1>10, <1>11, <1>12 DEF ClientTypes, SomethingIsAsked, UserPage

LEMMA ValidateKeeps == ASSUME ClientInv, Validate PROVE ClientInv'
<1> USE DEF ClientInv
<1> DEFINE deps == fetch.departments
           visited == Visited(deps)
           valid == ParentsValid(deps) /\ ~visited.cycle /\ UsersValid(deps, fetch.users)
           order == IF valid THEN visited.order ELSE << >>
           at == IF valid THEN "valid" ELSE "refused"
<1>1. fetch \in Fetch /\ Listed(deps) /\ UNCHANGED <<parentAtFeishu, homesAtFeishu, changes, token>>
  BY DEF ClientTypes, Validate
<1>2. fetch' = [fetch EXCEPT !.at = at, !.queue = order]
  BY DEF Validate
<1>3. valid => visited \in Visits(deps) /\ ToSet(visited.order) = ListOf(deps)
  BY <1>1, VisitedIsSound
<1>4. valid => visited.order \in Seq(ListOf(deps)) /\ Good(visited.order, deps)
  BY <1>3 DEF Visits
<1>5. order \in Seq(RemoteDepts \cup {Root})
  BY <1>1, <1>4, ListIsPresent
<1>6. at \in {"valid", "refused"} /\ (at = "valid" <=> valid) /\ (valid => order = visited.order)
  OBVIOUS
<1> HIDE DEF visited, order, at
<1>7. fetch' \in Fetch
  BY <1>1, <1>2, <1>5, <1>6 DEF Fetch, FetchPlaces
<1>8. fetch'.at = at /\ fetch'.queue = order /\ fetch'.departments = deps /\ fetch'.users = fetch.users
  BY <1>1, <1>2 DEF Fetch
<1> HIDE DEF valid, deps
<1>9. Known' = ListOf(deps) /\ ParentsOf(deps) = [d \in RemoteDepts |-> IF d \in Known' THEN ParentIn(deps, d) ELSE Deleted]
  BY <1>8 DEF Known, ListOf, ParentsOf
<1>10. ASSUME valid
       PROVE  /\ IsDirectory(ParentsOf(deps), fetch.users) /\ IsInjective(order) /\ ToSet(order) = ListOf(deps)
              /\ \A i \in DOMAIN order : ParentsOf(deps)[order[i]] # Root =>
                   \E j \in 1 .. i - 1 : order[j] = ParentsOf(deps)[order[i]]
  <2>1. order \in Seq(ListOf(deps)) /\ Good(order, deps) /\ ToSet(order) = ListOf(deps)
    BY <1>3, <1>4, <1>6, <1>10
  <2>2. /\ ListOf(deps) \subseteq RemoteDepts /\ Present(ParentsOf(deps)) = ListOf(deps)
        /\ \A d \in ListOf(deps) : ParentsOf(deps)[d] = ParentIn(deps, d)
    BY <1>1, ListIsPresent
  <2>3. ParentsValid(deps) /\ UsersValid(deps, fetch.users)
    BY <1>10 DEF valid
  <2>4. IsTree(ParentsOf(deps))
    BY <1>1, <2>1, <2>3, ListedUpwardsIsTree
  <2>5. IsDirectory(ParentsOf(deps), fetch.users)
    BY <1>1, <2>2, <2>3, <2>4, IdsOf DEF IsDirectory, UsersValid
  <2>6. IsInjective(order)
    BY <2>1 DEF Good, IsInjective
  <2>7. \A i \in DOMAIN order : ParentsOf(deps)[order[i]] = ParentIn(deps, order[i])
    BY <2>1, <2>2
  <2> QED BY <2>1, <2>5, <2>6, <2>7 DEF Good
<1>11. ASSUME ~valid PROVE ~IsDirectory(ParentsOf(deps), fetch.users)
  BY <1>1, <1>11, RefusedIsNoDirectory DEF valid, visited
<1>12. SnapshotSound'
  BY <1>6, <1>8, <1>9, <1>10, <1>11 DEF SnapshotSound
<1> QED BY <1>1, <1>6, <1>7, <1>8, <1>12 DEF ClientTypes, SomethingIsAsked, deps

(* Whatever departments and users Feishu has, and whatever happens to them
   between two pages: Feishu's own directory stays one, the client asks on only
   while there is a department left to ask of, and no department is kept twice. *)
THEOREM ClientInvariant == ClientSpec => []ClientInv
<1>1. ClientInv /\ [ClientNext]_clientVars => ClientInv'
  <2> SUFFICES ASSUME ClientInv, [ClientNext]_clientVars PROVE ClientInv'
    OBVIOUS
  <2> QED BY BetweenPagesKeeps, DepartmentPageKeeps, UserPageKeeps, ValidateKeeps DEF ClientNext
<1> QED BY InitHasClientInv, <1>1, PTL DEF ClientSpec

(* A snapshot that the validation lets through is a directory, its departments
   listed each after its parent, and the validation refuses nothing that is one:
   for any number of departments and users (feishu-directory-snapshot.validator.ts). *)
THEOREM SnapshotsAreSound == ClientSpec => []SnapshotSound
<1>1. ClientInv => SnapshotSound
  BY DEF ClientInv
<1> QED BY ClientInvariant, <1>1, PTL
===============================================================================
