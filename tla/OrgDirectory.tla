----------------------------- MODULE OrgDirectory -----------------------------
(***************************************************************************)
(* The organization: its units, its members and their posts, written by    *)
(* administrators (organization-admin.service.ts, member-invitation.       *)
(* service.ts), by the synchronization with Feishu (applySnapshot in       *)
(* feishu-directory-sync.service.ts) and used by knowledge bases           *)
(* (knowledge-admin.service.ts).                                           *)
(*                                                                         *)
(* Transactions that change the organization take its directory lock, then *)
(* check, then write; knowledge bases check and write without it.  A       *)
(* request that is refused or rolled back changes nothing.  Administrators *)
(* are owners: another role may do less.  INACTIVE stands for LOCKED too,   *)
(* MEMBER for the other roles of local members but OWNER;                   *)
(* posts stand for the positions that follow them; which root comes first  *)
(* in the sort order is left open.  FeishuSync says when a snapshot may be *)
(* applied.                                                                *)
(***************************************************************************)
EXTENDS Integers, FiniteSets

CONSTANTS Units,        \* 1 .. n: organization units, in the order they are made
          Depts,        \* 1 .. n: departments of Feishu
          Locals,       \* members with a local account
          Remotes,      \* members who come from Feishu
          Admins,       \* administrators' requests at once
          RemovesMissing  \* FEISHU_SYNC_RECONCILE_REMOVALS

NoUnit == 0
RootDept == 0
NoAdmin == "nobody"

ASSUME OrgAssumption ==
  /\ IsFiniteSet(Units) /\ Units = 1 .. Cardinality(Units) /\ 1 \in Units
  /\ IsFiniteSet(Depts) /\ Depts = 1 .. Cardinality(Depts)
  /\ Locals \cap Remotes = {} /\ NoAdmin \notin Admins /\ RemovesMissing \in BOOLEAN

VARIABLES unitStatus, parent,   \* org_units
          boundTo,              \* directory_org_unit_bindings: the unit of each department
          deptAbsence,          \* their missingSinceAt: seen, missing, or missing for an hour
          role, memberStatus,   \* users
          home,                 \* the unit of each local member's employment
          posts, postAbsence,   \* employments and bindings of remote members
          userAbsence,          \* directory_user_bindings.missingSinceAt
          scopes,               \* units some knowledge base is limited to
          asked,                \* those an update of a knowledge base has checked
          directoryLock, orders \* the lock's holder; what each request has checked

unitVars == <<unitStatus, parent, boundTo, deptAbsence>>
memberVars == <<role, memberStatus, home>>
postVars == <<posts, postAbsence, userAbsence>>
scopeVars == <<scopes, asked>>
requestVars == <<directoryLock, orders>>
orgVars == <<unitVars, memberVars, postVars, scopeVars, requestVars>>

Members == Locals \cup Remotes
Active(u) == u # NoUnit /\ unitStatus[u] = "ACTIVE"
Unused == {u \in Units : unitStatus[u] = "none"}
Bound(u) == \E d \in Depts \cup {RootDept} : boundTo[d] = u
Posted(r, d) == posts[r][d].status # "none"
NoPost == [unit |-> NoUnit, status |-> "none"]
NoOrder == [kind |-> "none"]
NotAsked == {NoUnit}

\* Employments that are not TERMINATED.
Staffed(u) ==
  \/ \E m \in Locals : home[m] = u
  \/ \E r \in Remotes, d \in Depts \cup {RootDept} :
       posts[r][d].unit = u /\ posts[r][d].status \in {"ACTIVE", "SUSPENDED"}

\* The units from u up to its root.
Lineage(u) ==
  {v \in Units : \A S \in SUBSET Units :
     (u \in S /\ \A x \in S : parent[x] \in S \cup {NoUnit}) => v \in S}

\* A tenant starts with one unit and one owner.
OrgInit ==
  /\ unitStatus = [u \in Units |-> IF u = 1 THEN "ACTIVE" ELSE "none"]
  /\ parent = [u \in Units |-> NoUnit]
  /\ boundTo = [d \in Depts \cup {RootDept} |-> NoUnit]
  /\ deptAbsence = [d \in Depts |-> "seen"]
  /\ \E owner \in Locals :
       /\ role = [m \in Members |-> IF m = owner THEN "OWNER" ELSE "none"]
       /\ memberStatus = [m \in Members |-> IF m = owner THEN "ACTIVE" ELSE "none"]
       /\ home = [m \in Locals |-> IF m = owner THEN 1 ELSE NoUnit]
  /\ posts = [r \in Remotes |-> [d \in Depts \cup {RootDept} |-> NoPost]]
  /\ postAbsence = [r \in Remotes |-> [d \in Depts \cup {RootDept} |-> "seen"]]
  /\ userAbsence = [r \in Remotes |-> "seen"]
  /\ scopes = {} /\ asked = NotAsked
  /\ directoryLock = NoAdmin /\ orders = [t \in Admins |-> NoOrder]

-----------------------------------------------------------------------------
(* Administrators' requests: the lock and the checks ...                   *)

\* Bug: the directory lock is not taken.
BugDirectoryFree == TRUE

DirectoryFree == directoryLock = NoAdmin

\* Bug: a unit is only kept from being its own parent.
BugMayBeParent(p, u) == p = NoUnit \/ (Active(p) /\ u # p)

\* assertOrgUnitParent
MayBeParent(p, u) == p = NoUnit \/ (Active(p) /\ u \notin Lineage(p))

\* assertOwnerContinuity
ActiveOwners == {m \in Members : role[m] = "OWNER" /\ memberStatus[m] = "ACTIVE"}
KeepsAnOwner(m, newRole, newStatus) ==
  role[m] = "OWNER" /\ (newRole \notin {"same", "OWNER"} \/ newStatus = "INACTIVE") => Cardinality(ActiveOwners) > 1

Orders ==
  [kind : {"create unit"}, parent : Units \cup {NoUnit}]
    \cup [kind : {"move unit"}, unit : Units, parent : Units \cup {NoUnit}]
    \cup [kind : {"archive unit"}, unit : Units]
    \cup [kind : {"add member"}, member : Locals, role : {"OWNER", "MEMBER"},
          status : {"ACTIVE", "INACTIVE"}, unit : Units]
    \cup [kind : {"update member"}, member : Locals, role : {"same", "OWNER", "MEMBER"},
          status : {"same", "ACTIVE", "INACTIVE"}, unit : Units \cup {NoUnit}]
    \cup [kind : {"update member"}, member : Remotes, role : {"ADMIN", "MEMBER"},
          status : {"same"}, unit : {NoUnit}]

\* Members who are added are ACTIVE, or INACTIVE until they accept an invitation.
Allowed(o) ==
  CASE o.kind = "create unit" -> Unused # {} /\ (o.parent = NoUnit \/ Active(o.parent))
    [] o.kind = "move unit" -> Active(o.unit) /\ ~Bound(o.unit) /\ MayBeParent(o.parent, o.unit)
    [] o.kind = "archive unit" ->
         /\ Active(o.unit) /\ ~Bound(o.unit) /\ ~Staffed(o.unit) /\ o.unit \notin scopes
         /\ \A u \in Units : ~(Active(u) /\ parent[u] = o.unit)
    [] o.kind = "add member" -> role[o.member] = "none" /\ Active(o.unit)
    [] o.kind = "update member" ->
         /\ role[o.member] # "none" /\ KeepsAnOwner(o.member, o.role, o.status)
         /\ o.unit = NoUnit \/ Active(o.unit)

RequestChecks(t) ==
  /\ orders[t] = NoOrder /\ DirectoryFree
  /\ \E o \in Orders : Allowed(o) /\ orders' = [orders EXCEPT ![t] = o]
  /\ directoryLock' = t
  /\ UNCHANGED <<unitVars, memberVars, postVars, scopeVars>>

Done(t) == directoryLock' = NoAdmin /\ orders' = [orders EXCEPT ![t] = NoOrder]

\* ... then the writes.
CreateUnit(t) ==
  /\ orders[t].kind = "create unit" /\ Unused # {}
  /\ LET u == CHOOSE v \in Unused : \A x \in Unused : v <= x
     IN /\ unitStatus' = [unitStatus EXCEPT ![u] = "ACTIVE"]
        /\ parent' = [parent EXCEPT ![u] = orders[t].parent]
  /\ Done(t)
  /\ UNCHANGED <<boundTo, deptAbsence, memberVars, postVars, scopeVars>>

MoveUnit(t) ==
  /\ orders[t].kind = "move unit"
  /\ parent' = [parent EXCEPT ![orders[t].unit] = orders[t].parent]
  /\ Done(t)
  /\ UNCHANGED <<unitStatus, boundTo, deptAbsence, memberVars, postVars, scopeVars>>

ArchiveUnit(t) ==
  /\ orders[t].kind = "archive unit"
  /\ unitStatus' = [unitStatus EXCEPT ![orders[t].unit] = "ARCHIVED"]
  /\ Done(t)
  /\ UNCHANGED <<parent, boundTo, deptAbsence, memberVars, postVars, scopeVars>>

\* createMember, invite, updateMember
WriteMember(t) ==
  /\ orders[t].kind \in {"add member", "update member"}
  /\ LET o == orders[t]
     IN /\ role' = IF o.role = "same" THEN role ELSE [role EXCEPT ![o.member] = o.role]
        /\ memberStatus' = IF o.status = "same" THEN memberStatus ELSE [memberStatus EXCEPT ![o.member] = o.status]
        /\ home' = IF o.unit = NoUnit THEN home ELSE [home EXCEPT ![o.member] = o.unit]
  /\ Done(t)
  /\ UNCHANGED <<unitVars, postVars, scopeVars>>

\* A version conflict, a unique constraint, a position in the way, or a crash.
RollBack(t) ==
  /\ orders[t] # NoOrder /\ Done(t)
  /\ UNCHANGED <<unitVars, memberVars, postVars, scopeVars>>

\* A local member accepts an invitation.
AcceptInvitation(m) ==
  /\ memberStatus[m] = "INACTIVE" /\ m \in Locals
  /\ memberStatus' = [memberStatus EXCEPT ![m] = "ACTIVE"]
  /\ UNCHANGED <<unitVars, role, home, postVars, scopeVars, requestVars>>

-----------------------------------------------------------------------------
(* Knowledge bases.                                                        *)

\* requireOrgUnits ...
RequireOrgUnits(S) ==
  /\ asked = NotAsked /\ (\A u \in S : Active(u)) /\ asked' = S
  /\ UNCHANGED <<unitVars, memberVars, postVars, scopes, requestVars>>

\* ... then deleteMany and createMany, or nothing.
WriteScopes ==
  /\ asked # NotAsked /\ asked' = NotAsked /\ scopes' \in {scopes, asked}
  /\ UNCHANGED <<unitVars, memberVars, postVars, requestVars>>

-----------------------------------------------------------------------------
(* applySnapshot.                                                          *)

\* What Feishu may answer: a tree of departments, and members in some of them.
\* validateFeishuDirectorySnapshot refuses anything else.
IsSnapshot(tree, people) ==
  /\ \A S \in SUBSET DOMAIN tree : S # {} => \E d \in S : tree[d] \notin S
  /\ \A r \in DOMAIN people : people[r].in \subseteq DOMAIN tree \cup {RootDept}

\* requireLocalRoot: an active root is bound.  There is one: the owner has a unit.
Roots == {u \in Units : Active(u) /\ parent[u] = NoUnit}

\* Every new department gets an unused unit of its own; which one does not matter.
FreshUnits(new, unused) ==
  CHOOSE fresh \in [new -> unused] : \A d, e \in new : d # e => fresh[d] # fresh[e]

\* An absence that meets the snapshot again; a second one after an hour removes.
Missed(absence) == IF absence = "seen" THEN "missing" ELSE absence
Removes(absence) == RemovesMissing /\ absence = "confirmed"

\* The posts of r: those of the snapshot, the others missing or terminated.
PostsOf(r, people, unitOf) ==
  [d \in Depts \cup {RootDept} |->
     IF r \in DOMAIN people /\ d \in people[r].in
     THEN [unit |-> unitOf[d], status |-> IF people[r].active THEN "ACTIVE" ELSE "SUSPENDED"]
     ELSE IF Posted(r, d) /\ Removes(postAbsence[r][d]) THEN [posts[r][d] EXCEPT !.status = "TERMINATED"]
     ELSE posts[r][d]]

AbsencesOf(r, people) ==
  [d \in Depts \cup {RootDept} |->
     IF r \in DOMAIN people /\ d \in people[r].in THEN "seen"
     ELSE IF Posted(r, d) THEN Missed(postAbsence[r][d]) ELSE "seen"]

\* potentiallyDeactivated, and nothing keeps the member: no active post, no role.
Deactivated(r, after) ==
  /\ role[r] = "MEMBER"
  /\ Removes(userAbsence[r]) \/ \E d \in Depts \cup {RootDept} : Posted(r, d) /\ Removes(postAbsence[r][d])
  /\ \A d \in Depts \cup {RootDept} : after[d].status # "ACTIVE"

\* A MEMBER follows Feishu; other roles are never deactivated.
StatusOf(r, people, after) ==
  IF r \in DOMAIN people
  THEN IF people[r].active THEN "ACTIVE"
       ELSE IF role[r] \in {"none", "MEMBER"} THEN "INACTIVE" ELSE memberStatus[r]
  ELSE IF Deactivated(r, after) THEN "INACTIVE" ELSE memberStatus[r]

\* reconcileMissingDepartments, deepest first: a unit in the way keeps those above it.
Archivable(tree, nextStatus, nextParent, nextPosts) ==
  LET staffed(u) == \/ \E m \in Locals : home[m] = u
                    \/ \E r \in Remotes, d \in Depts \cup {RootDept} :
                         nextPosts[r][d].unit = u /\ nextPosts[r][d].status \in {"ACTIVE", "SUSPENDED"}
      candidates == {boundTo[d] : d \in {e \in Depts \ DOMAIN tree : boundTo[e] # NoUnit /\ Removes(deptAbsence[e])}}
      free == {u \in candidates : nextStatus[u] = "ACTIVE" /\ ~staffed(u) /\ u \notin scopes}
  IN {u \in free : \E S \in SUBSET free :
        u \in S /\ \A v \in Units : nextStatus[v] = "ACTIVE" /\ nextParent[v] \in S => v \in S}

ApplySnapshot(tree, people) ==
  /\ DirectoryFree /\ IsSnapshot(tree, people)
  /\ \E root \in Roots :
       LET new == {d \in DOMAIN tree : boundTo[d] = NoUnit}
           fresh == FreshUnits(new, Unused)
           unitOf == [d \in DOMAIN tree \cup {RootDept} |->
                        IF d = RootDept THEN root ELSE IF d \in new THEN fresh[d] ELSE boundTo[d]]
           seen == {unitOf[d] : d \in DOMAIN unitOf}
           status == [u \in Units |-> IF u \in seen THEN "ACTIVE" ELSE unitStatus[u]]
           nextParent == [u \in Units |->
                            IF \E d \in DOMAIN tree : unitOf[d] = u
                            THEN unitOf[tree[CHOOSE d \in DOMAIN tree : unitOf[d] = u]]
                            ELSE parent[u]]
           nextPosts == [r \in Remotes |-> PostsOf(r, people, unitOf)]
       IN /\ Cardinality(new) <= Cardinality(Unused)
          /\ \A r \in Remotes, d, e \in Depts \cup {RootDept} :
               d # e /\ nextPosts[r][d].status # "none" => nextPosts[r][d].unit # nextPosts[r][e].unit
          /\ \E archived \in SUBSET Archivable(tree, status, nextParent, nextPosts) :
               /\ \A u \in Units \ archived : status[u] = "ACTIVE" => nextParent[u] \notin archived
               /\ unitStatus' = [u \in Units |-> IF u \in archived THEN "ARCHIVED" ELSE status[u]]
          /\ parent' = nextParent
          /\ boundTo' = [d \in Depts \cup {RootDept} |-> IF d \in DOMAIN unitOf THEN unitOf[d] ELSE boundTo[d]]
          /\ deptAbsence' = [d \in Depts |->
               IF d \in DOMAIN tree \/ boundTo[d] = NoUnit THEN "seen" ELSE Missed(deptAbsence[d])]
          /\ posts' = nextPosts
          /\ postAbsence' = [r \in Remotes |-> AbsencesOf(r, people)]
          /\ userAbsence' = [r \in Remotes |->
               IF r \in DOMAIN people \/ role[r] = "none" THEN "seen" ELSE Missed(userAbsence[r])]
          /\ role' = [m \in Members |-> IF m \in DOMAIN people /\ role[m] = "none" THEN "MEMBER" ELSE role[m]]
          /\ memberStatus' = [m \in Members |-> IF m \in Locals THEN memberStatus[m] ELSE StatusOf(m, people, nextPosts[m])]
  /\ UNCHANGED <<home, scopeVars, requestVars>>

\* REMOVAL_CONFIRMATION_DELAY_MS after the snapshot.
HourPasses ==
  LET later(a) == IF a = "missing" THEN "confirmed" ELSE a
  IN /\ deptAbsence' = [d \in Depts |-> later(deptAbsence[d])]
     /\ postAbsence' = [r \in Remotes |-> [d \in Depts \cup {RootDept} |-> later(postAbsence[r][d])]]
     /\ userAbsence' = [r \in Remotes |-> later(userAbsence[r])]
     /\ UNCHANGED <<unitStatus, parent, boundTo, memberVars, posts, scopeVars, requestVars>>

Trees == UNION {[S -> S \cup {RootDept}] : S \in SUBSET Depts}
Presences == [in : SUBSET (Depts \cup {RootDept}) \ {{}}, active : BOOLEAN]
Peoples == UNION {[S -> Presences] : S \in SUBSET Remotes}

OrgNext ==
  \/ \E t \in Admins :
       \/ RequestChecks(t)
       \/ CreateUnit(t)
       \/ MoveUnit(t)
       \/ ArchiveUnit(t)
       \/ WriteMember(t)
       \/ RollBack(t)
  \/ \E m \in Locals : AcceptInvitation(m)
  \/ \E S \in SUBSET Units : RequireOrgUnits(S)
  \/ WriteScopes
  \/ \E tree \in Trees, people \in Peoples : ApplySnapshot(tree, people)
  \/ HourPasses

OrgSpec == OrgInit /\ [][OrgNext]_orgVars

-----------------------------------------------------------------------------
(* A tenant always has an active owner, whatever administrators do to each
   other's accounts at the same time and whatever Feishu says of its members. *)
ActiveOwnerRemains == ActiveOwners # {}

(* The active units form a forest of active units, and everybody who is employed
   is employed in one of them: moving, archiving and hiring at the same time, or
   a snapshot that moves, drops and brings back departments, never leaves a unit
   or a member under something archived, nor makes the tree a circle. *)
DirectorySound ==
  /\ \A S \in SUBSET Units : S # {} => \E u \in S : parent[u] \notin S
  /\ \A u \in Units : Active(u) => parent[u] = NoUnit \/ Active(parent[u])
  /\ \A u \in Units : Staffed(u) => Active(u)
=============================================================================
