----------------------------- MODULE FeishuClient -----------------------------
(***************************************************************************)
(* How a snapshot of Feishu is fetched (feishu-directory.client.ts) and    *)
(* validated (feishu-directory-snapshot.validator.ts) before FeishuSync    *)
(* applies it.  Feishu is asked page by page, department by department,    *)
(* while its own administrators go on changing it: the pages belong to     *)
(* different moments, and only the validation makes them one directory.    *)
(*                                                                         *)
(* Left out: what is left of a department or a user beside ids, parents    *)
(* and memberships (names, orders, e-mail, whether active), the delays     *)
(* between retries, callers that share the token.                          *)
(***************************************************************************)
EXTENDS Naturals, Sequences, SequencesExt

CONSTANTS RemoteDepts,       \* open_department_id of Feishu's departments
          RemoteUsers,       \* user_id
          MaxRemoteChanges,  \* bound: changes at Feishu during one fetch
          MaxHttpRetries     \* maxRetries

Root == "0"   \* ROOT_DEPARTMENT_ID
Deleted == "deleted"

ASSUME ClientAssumption ==
  /\ {Root, Deleted} \cap RemoteDepts = {} /\ IsFiniteSet(RemoteDepts)
  /\ MaxRemoteChanges \in Nat /\ MaxHttpRetries \in Nat

VARIABLES parentAtFeishu,  \* external: the parent of each department, or Deleted
          homesAtFeishu,   \* external: the departments of each user
          changes, token, fetch

clientVars == <<parentAtFeishu, homesAtFeishu, changes, token, fetch>>

Present(parents) == {d \in RemoteDepts : parents[d] # Deleted}

\* Feishu keeps a tree of its own, with its users in it, at every moment.
IsTree(parents) ==
  /\ \A d \in Present(parents) : parents[d] \in Present(parents) \cup {Root}
  /\ \A S \in SUBSET Present(parents) : S # {} => \E d \in S : parents[d] \notin S
IsDirectory(parents, homes) ==
  IsTree(parents) /\ \A u \in RemoteUsers : homes[u] \subseteq Present(parents) \cup {Root}

FreshRequest == [attempt |-> 0, renewed |-> FALSE]
NotFetching == [at |-> "idle", breadthFirst |-> FALSE, queue |-> << >>, returned |-> {}, departments |-> << >>,
                users |-> [u \in RemoteUsers |-> {}], request |-> FreshRequest]

ClientInit ==
  /\ parentAtFeishu \in [RemoteDepts -> RemoteDepts \cup {Root, Deleted}]
  /\ homesAtFeishu \in [RemoteUsers -> (SUBSET (RemoteDepts \cup {Root})) \ {{}}]
  /\ IsDirectory(parentAtFeishu, homesAtFeishu)
  /\ changes = 0 /\ token = "none" /\ fetch = NotFetching

-----------------------------------------------------------------------------
(* Feishu.                                                                 *)

DirectoryChanges ==
  /\ changes < MaxRemoteChanges /\ changes' = changes + 1
  /\ \/ /\ \E d \in RemoteDepts, p \in RemoteDepts \cup {Root, Deleted} :
             parentAtFeishu' = [parentAtFeishu EXCEPT ![d] = p]
        /\ UNCHANGED homesAtFeishu
     \/ /\ \E u \in RemoteUsers, S \in (SUBSET (RemoteDepts \cup {Root})) \ {{}} :
             homesAtFeishu' = [homesAtFeishu EXCEPT ![u] = S]
        /\ UNCHANGED parentAtFeishu
  /\ IsDirectory(parentAtFeishu', homesAtFeishu')
  /\ UNCHANGED <<token, fetch>>

TokenExpires ==
  /\ token = "valid" /\ token' = "expired"
  /\ UNCHANGED <<parentAtFeishu, homesAtFeishu, changes, fetch>>

-----------------------------------------------------------------------------
(* authenticatedGet, tenantAccessToken, requestJson.                       *)

Working == fetch.at \in {"departments", "users"}

RequestTenantAccessToken ==
  /\ Working /\ token = "none" /\ token' = "valid"
  /\ UNCHANGED <<parentAtFeishu, homesAtFeishu, changes, fetch>>

\* 408, 429, 5xx, a transient code, a timeout or the network.
RetryRequest ==
  /\ Working /\ fetch.request.attempt < MaxHttpRetries
  /\ fetch' = [fetch EXCEPT !.request.attempt = @ + 1]
  /\ UNCHANGED <<parentAtFeishu, homesAtFeishu, changes, token>>

\* EXPIRED_TOKEN_CODE, once for each request.
RenewToken ==
  /\ Working /\ token = "expired" /\ ~fetch.request.renewed
  /\ token' = "none"
  /\ fetch' = [fetch EXCEPT !.request = [attempt |-> 0, renewed |-> TRUE]]
  /\ UNCHANGED <<parentAtFeishu, homesAtFeishu, changes>>

\* Retries used up, a refusal, a cursor that repeats, a field that is missing.
FetchFails ==
  /\ Working /\ fetch' = [NotFetching EXCEPT !.at = "failed"]
  /\ UNCHANGED <<parentAtFeishu, homesAtFeishu, changes, token>>

-----------------------------------------------------------------------------
(* fetchSnapshot.                                                          *)

FetchBegins ==
  /\ fetch.at = "idle"
  /\ fetch' = [NotFetching EXCEPT !.at = "departments", !.queue = <<Root>>]
  /\ UNCHANGED <<parentAtFeishu, homesAtFeishu, changes, token>>

\* Error 43010: what has been fetched is dropped, each department is asked
\* for its own children.
FetchDepartmentsBreadthFirst ==
  /\ fetch.at = "departments" /\ ~fetch.breadthFirst /\ token = "valid"
  /\ fetch' = [NotFetching EXCEPT !.at = "departments", !.queue = <<Root>>, !.breadthFirst = TRUE]
  /\ UNCHANGED <<parentAtFeishu, homesAtFeishu, changes, token>>

\* What a listing still has to return.  fetch_child lists every descendant.
Remaining(listing) == listing \ fetch.returned
Children ==
  {d \in Present(parentAtFeishu) : fetch.breadthFirst => parentAtFeishu[d] = Head(fetch.queue)}
Users == {u \in RemoteUsers : Head(fetch.queue) \in homesAtFeishu[u]}

\* One page: some of what remains with has_more, or all of it without.
Pages(listing) ==
  {[items |-> Remaining(listing), more |-> FALSE]} \cup
  {[items |-> {i}, more |-> TRUE] : i \in Remaining(listing)}

Known == {fetch.departments[i].id : i \in DOMAIN fetch.departments}
Ids(departments) == [i \in DOMAIN departments |-> departments[i].id]

\* Departments seen before are dropped: the first answer counts.
DepartmentPage ==
  /\ fetch.at = "departments" /\ token = "valid"
  /\ \E page \in Pages(Children) :
       LET new == SetToSeq(page.items \ Known)
           departments == fetch.departments \o [i \in DOMAIN new |-> [id |-> new[i], parent |-> parentAtFeishu[new[i]]]]
           queue == (IF page.more THEN fetch.queue ELSE Tail(fetch.queue)) \o (IF fetch.breadthFirst THEN new ELSE << >>)
       IN fetch' = [fetch EXCEPT
            !.departments = departments, !.request = FreshRequest,
            !.returned = IF page.more THEN @ \cup page.items ELSE {},
            !.at = IF queue = << >> THEN "users" ELSE @,
            !.queue = IF queue = << >> THEN <<Root>> \o Ids(departments) ELSE queue]
  /\ UNCHANGED <<parentAtFeishu, homesAtFeishu, changes, token>>

\* Somebody found in two departments is one user in both lists.
MergeUser(current, incoming) == current \cup incoming

UserPage ==
  /\ fetch.at = "users" /\ token = "valid"
  /\ \E page \in Pages(Users) :
       LET queue == IF page.more THEN fetch.queue ELSE Tail(fetch.queue)
       IN fetch' = [fetch EXCEPT
            !.users = [u \in RemoteUsers |-> IF u \in page.items THEN MergeUser(@[u], homesAtFeishu[u]) ELSE @[u]],
            !.request = FreshRequest,
            !.returned = IF page.more THEN @ \cup page.items ELSE {},
            !.at = IF queue = << >> THEN "fetched" ELSE @,
            !.queue = queue]
  /\ UNCHANGED <<parentAtFeishu, homesAtFeishu, changes, token>>

-----------------------------------------------------------------------------
(* validateFeishuDirectorySnapshot.                                        *)

ParentIn(departments, d) == departments[CHOOSE i \in DOMAIN departments : departments[i].id = d].parent

\* A department, its parent, the parent's parent and so on, then the root.
Upwards(departments, d) ==
  LET above[i \in 0 .. Len(departments)] ==
        IF i = 0 THEN d ELSE IF above[i - 1] = Root THEN Root ELSE ParentIn(departments, above[i - 1])
  IN above

\* visit: it goes up to the root or to what was visited before, and on the way
\* back lists what it has passed; to come to what it is visiting is a cycle.
Visit(departments, visited, d) ==
  LET path == Upwards(departments, d)
      Top(i) == path[i] = Root \/ path[i] \in ToSet(visited.order)
      last == Min({i \in DOMAIN path : Top(i) \/ \E j \in 0 .. i - 1 : path[j] = path[i]})
  IN IF visited.cycle \/ ~Top(last) THEN [visited EXCEPT !.cycle = TRUE]
     ELSE [visited EXCEPT !.order = @ \o [i \in 1 .. last |-> path[last - i]]]

Visited(departments) ==
  LET after[k \in 0 .. Len(departments)] ==
        IF k = 0 THEN [cycle |-> FALSE, order |-> << >>]
        ELSE Visit(departments, after[k - 1], departments[k].id)
  IN after[Len(departments)]

\* Bug: members of unknown departments are accepted.
BugUsersValid(departments, users) == TRUE

UsersValid(departments, users) ==
  \A u \in RemoteUsers : users[u] \subseteq ToSet(Ids(departments)) \cup {Root}

ParentsValid(departments) ==
  \A i \in DOMAIN departments : departments[i].parent \in ToSet(Ids(departments)) \cup {Root}

Validate ==
  /\ fetch.at = "fetched"
  /\ LET valid == /\ ParentsValid(fetch.departments) /\ ~Visited(fetch.departments).cycle
                  /\ UsersValid(fetch.departments, fetch.users)
     IN fetch' = [fetch EXCEPT !.at = IF valid THEN "valid" ELSE "refused",
                               !.queue = IF valid THEN Visited(fetch.departments).order ELSE << >>]
  /\ UNCHANGED <<parentAtFeishu, homesAtFeishu, changes, token>>

ClientNext ==
  \/ DirectoryChanges
  \/ TokenExpires
  \/ RequestTenantAccessToken
  \/ RetryRequest
  \/ RenewToken
  \/ FetchFails
  \/ FetchBegins
  \/ FetchDepartmentsBreadthFirst
  \/ DepartmentPage
  \/ UserPage
  \/ Validate

ClientSpec == ClientInit /\ [][ClientNext]_clientVars

-----------------------------------------------------------------------------
(* A snapshot that is applied is a directory, though its pages are of different
   moments: a tree of departments, each after its parent, and users in these
   departments only (what OrgDirectory's IsSnapshot takes for granted); and
   nothing that is one is refused. *)
SnapshotSound ==
  LET parents == [d \in RemoteDepts |-> IF d \in Known THEN ParentIn(fetch.departments, d) ELSE Deleted]
      order == fetch.queue
  IN /\ fetch.at = "valid" =>
          /\ IsDirectory(parents, fetch.users)
          /\ IsInjective(order) /\ ToSet(order) = Known
          /\ \A i \in DOMAIN order : parents[order[i]] # Root => \E j \in 1 .. i - 1 : order[j] = parents[order[i]]
     /\ fetch.at = "refused" => ~IsDirectory(parents, fetch.users)
===============================================================================
