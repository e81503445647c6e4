----------------------------- MODULE RateLimits -----------------------------
(***************************************************************************)
(* Throttling before a member is known: auth-rate-limit-bucket.ts,         *)
(* login-attempt-limiter.service.ts, recovery-request-limiter.service.ts   *)
(* and the login handler of auth.controller.ts.                            *)
(*                                                                         *)
(* An attempt reserves the bucket of its network, then the one of its      *)
(* account, in one READ COMMITTED transaction; a login that succeeds rolls *)
(* its reservations back in another, in the opposite order.  Statements    *)
(* are steps; one that waits for a row is evaluated when it has it, but    *)
(* for the choice of the stale rows, which comes before.  A transaction    *)
(* sees its own writes and the committed ones; it holds the rows it has    *)
(* written and the scopes it has locked until it ends; now() is the time   *)
(* it began.  PostgreSQL ends one transaction of a cycle that wait for     *)
(* each other.  Recovery requests reserve in the same way and never roll   *)
(* back.                                                                   *)
(***************************************************************************)
EXTENDS Integers, FiniteSets

CONSTANTS Clients,           \* requests under way at once
          Networks, Accounts,  \* bucket keys of the two scopes
          NetworkLimit, AccountLimit,
          BucketCapacity,    \* AUTH_RATE_LIMIT_BUCKET_CAPACITY_PER_SCOPE
          PruneLimit,        \* 500: stale rows deleted at a time
          WindowLength, BlockLength, Retention,
          LastTick           \* bound: when the clock stops

Buckets == Networks \cup Accounts
Unlocked == "nobody"
NoBucket == [count |-> 0, started |-> 0, blocked |-> 0, updated |-> -1]

ASSUME RateAssumption ==
  /\ Unlocked \notin Clients
  /\ Networks \cap Accounts = {} /\ IsFiniteSet(Buckets) /\ BucketCapacity \in Nat /\ PruneLimit \in Nat
  /\ NetworkLimit \in Nat \ {0} /\ AccountLimit \in Nat \ {0} /\ LastTick \in Nat
  /\ WindowLength \in Nat \ {0} /\ BlockLength \in Nat \ {0} /\ Retention \in Nat \ {0}

VARIABLES tick,
          bucket,      \* the committed rows of auth_login_rate_limits
          admission,   \* each request's transaction, and what it has left to reserve
          scopeLock    \* the transaction that holds a scope's advisory lock

rateVars == <<tick, bucket, admission, scopeLock>>

NoRequestYet == [at |-> "idle", now |-> 0, keys |-> {}, writes |-> [k \in {} |-> NoBucket],
                 missed |-> "none", stale |-> {}, refused |-> FALSE]

RateInit ==
  /\ tick = 0 /\ bucket = [k \in Buckets |-> NoBucket]
  /\ admission = [c \in Clients |-> NoRequestYet]
  /\ scopeLock = [n \in {"network", "account"} |-> Unlocked]

Scope(k) == IF k \in Networks THEN Networks ELSE Accounts
ScopeName(k) == IF k \in Networks THEN "network" ELSE "account"
Limit(k) == IF k \in Networks THEN NetworkLimit ELSE AccountLimit

Written(c) == DOMAIN admission[c].writes
Row(c, k) == IF k \in Written(c) THEN admission[c].writes[k] ELSE bucket[k]
Held(c, k) == \E d \in Clients \ {c} : k \in Written(d)
Write(r, k, row) == [r EXCEPT !.writes = [l \in DOMAIN @ \cup {k} |-> IF l = k THEN row ELSE @[l]]]

\* The bucket an attempt reserves next: the network's, then the account's.
NextKey(c) ==
  LET networks == admission[c].keys \cap Networks
  IN CHOOSE k \in (IF networks # {} THEN networks ELSE admission[c].keys) : TRUE

\* The columns of a bucket that is reserved once more at time now.
Reserved(row, now, limit) ==
  LET over == row.started <= now - WindowLength
      count == IF over THEN 1 ELSE (IF row.count < limit THEN row.count ELSE limit) + 1
  IN [count |-> count, started |-> IF over THEN now ELSE row.started, updated |-> now,
      blocked |-> IF row.blocked > now THEN row.blocked ELSE IF count > limit THEN now + BlockLength ELSE 0]

\* A reservation is made: a blocked bucket ends the attempt, refused.
Reserve(c, k, row) ==
  LET r == Write(admission[c], k, row)
      refused == row.blocked > admission[c].now
  IN admission' = [admission EXCEPT ![c] =
       [r EXCEPT !.keys = @ \ {k}, !.missed = "none", !.refused = refused,
                 !.at = IF refused \/ r.keys = {k} THEN "commit" ELSE "reserve"]]

-----------------------------------------------------------------------------
\* beginAttempt, beginRequest: the network limiter may be off.
BeginAttempt(c) ==
  /\ admission[c].at = "idle"
  /\ \E a \in Accounts, networks \in {{}} \cup {{n} : n \in Networks} :
       admission' = [admission EXCEPT ![c] = [NoRequestYet EXCEPT !.at = "reserve", !.now = tick, !.keys = {a} \cup networks]]
  /\ UNCHANGED <<tick, bucket, scopeLock>>

\* updateExistingBucket: waits for a row another transaction has written.
UpdateExisting(c) ==
  /\ admission[c].at = "reserve" /\ admission[c].missed = "none"
  /\ LET k == NextKey(c)
     IN \/ /\ Row(c, k) # NoBucket /\ ~Held(c, k)
           /\ Reserve(c, k, Reserved(Row(c, k), admission[c].now, Limit(k)))
        \/ /\ Row(c, k) = NoBucket
           /\ admission' = [admission EXCEPT ![c].missed = ScopeName(k)]
  /\ UNCHANGED <<tick, bucket, scopeLock>>

\* Bug: the scope is not locked for a new bucket.
BugTakeScope(c, n) == UNCHANGED scopeLock

\* pg_advisory_xact_lock
TakeScope(c, n) == scopeLock[n] \in {Unlocked, c} /\ scopeLock' = [scopeLock EXCEPT ![n] = c]

LockScope(c) ==
  /\ admission[c].at = "reserve" /\ admission[c].missed # "none"
  /\ TakeScope(c, admission[c].missed)
  /\ admission' = [admission EXCEPT ![c].at = "prune"]
  /\ UNCHANGED <<tick, bucket>>

Stale(c, k) == Row(c, k) # NoBucket /\ Row(c, k).updated < admission[c].now - Retention

\* pruneStaleScope: the oldest of the stale rows are chosen, so many at a time ...
PruneScope(c) ==
  /\ admission[c].at = "prune"
  /\ LET stale == {k \in Scope(NextKey(c)) : Stale(c, k)}
     IN \E chosen \in SUBSET stale :
          /\ Cardinality(chosen) <= PruneLimit /\ (chosen = stale \/ Cardinality(chosen) = PruneLimit)
          /\ \A k \in chosen, o \in stale \ chosen : Row(c, k).updated <= Row(c, o).updated
          /\ admission' = [admission EXCEPT ![c].at = "delete", ![c].stale = chosen]
  /\ UNCHANGED <<tick, bucket, scopeLock>>

\* ... and deleted, also one that was reserved while the deletion waited for it.
DeleteStale(c) ==
  /\ admission[c].at = "delete" /\ \A k \in admission[c].stale : ~Held(c, k)
  /\ LET gone == {k \in admission[c].stale : Row(c, k) # NoBucket}
     IN admission' = [admission EXCEPT ![c] = [@ EXCEPT !.at = "insert", !.stale = {},
          !.writes = [k \in Written(c) \cup gone |-> IF k \in gone THEN NoBucket ELSE Row(c, k)]]]
  /\ UNCHANGED <<tick, bucket, scopeLock>>

\* The bucket is inserted while the scope has room, or another transaction has
\* inserted it meanwhile; without room the attempt is refused.
InsertBucket(c) ==
  /\ admission[c].at = "insert"
  /\ LET k == NextKey(c)
         room == Cardinality({l \in Scope(k) : Row(c, l) # NoBucket}) < BucketCapacity
         first == [count |-> 1, started |-> admission[c].now, blocked |-> 0, updated |-> admission[c].now]
     IN \/ /\ room /\ ~Held(c, k)
           /\ Reserve(c, k, IF Row(c, k) = NoBucket THEN first ELSE Reserved(Row(c, k), admission[c].now, Limit(k)))
        \/ ~room /\ admission' = [admission EXCEPT ![c] = [@ EXCEPT !.refused = TRUE, !.at = "commit"]]
  /\ UNCHANGED <<tick, bucket, scopeLock>>

\* clearSuccessfulAttempt: the account's bucket is deleted ...
ClearAccount(c) ==
  /\ admission[c].at = "clear" /\ admission[c].keys \cap Accounts # {}
  /\ LET k == CHOOSE a \in admission[c].keys : a \in Accounts
     IN /\ ~Held(c, k)
        /\ admission' = [admission EXCEPT ![c] = [Write(admission[c], k, NoBucket) EXCEPT
             !.keys = @ \ {k}, !.at = IF admission[c].keys = {k} THEN "cleared" ELSE "clear"]]
  /\ UNCHANGED <<tick, bucket, scopeLock>>

\* ... then one reservation of the network's is taken back.
ClearNetwork(c) ==
  /\ admission[c].at = "clear" /\ admission[c].keys # {} /\ admission[c].keys \subseteq Networks
  /\ LET k == NextKey(c)
         row == Row(c, k)
         count == IF row.count > 0 THEN row.count - 1 ELSE 0
         left == IF row = NoBucket \/ (count = 0 /\ row.blocked <= admission[c].now) THEN NoBucket
                 ELSE [row EXCEPT !.count = count, !.updated = admission[c].now]
     IN /\ ~Held(c, k)
        /\ admission' = [admission EXCEPT ![c] = [Write(admission[c], k, left) EXCEPT !.keys = {}, !.at = "cleared"]]
  /\ UNCHANGED <<tick, bucket, scopeLock>>

-----------------------------------------------------------------------------
FreeScopes(c) == scopeLock' = [n \in DOMAIN scopeLock |-> IF scopeLock[n] = c THEN Unlocked ELSE scopeLock[n]]

\* An attempt that is let through goes on to the password, which is right or
\* wrong; a right one is cleared in a transaction of its own.
CommitRequest(c) ==
  /\ admission[c].at \in {"commit", "cleared"}
  /\ bucket' = [k \in Buckets |-> Row(c, k)]
  /\ FreeScopes(c)
  /\ \/ admission' = [admission EXCEPT ![c] = NoRequestYet]
     \/ /\ admission[c].at = "commit" /\ ~admission[c].refused
        /\ admission' = [admission EXCEPT ![c] = [NoRequestYet EXCEPT !.at = "verify", !.keys = Written(c)]]
  /\ UNCHANGED tick

PasswordRight(c) ==
  /\ admission[c].at = "verify"
  /\ admission' = [admission EXCEPT ![c].at = "clear", ![c].now = tick]
  /\ UNCHANGED <<tick, bucket, scopeLock>>

\* The transaction fails: the connection, a deadlock, a crash.
RequestAborts(c) ==
  /\ admission[c].at \in {"reserve", "prune", "delete", "insert", "clear", "commit", "cleared"}
  /\ admission' = [admission EXCEPT ![c] = NoRequestYet]
  /\ FreeScopes(c)
  /\ UNCHANGED <<tick, bucket>>

TimePasses == tick < LastTick /\ tick' = tick + 1 /\ UNCHANGED <<bucket, admission, scopeLock>>

RateNext ==
  \/ TimePasses
  \/ \E c \in Clients :
       \/ BeginAttempt(c)
       \/ UpdateExisting(c)
       \/ LockScope(c)
       \/ PruneScope(c)
       \/ DeleteStale(c)
       \/ InsertBucket(c)
       \/ ClearAccount(c)
       \/ ClearNetwork(c)
       \/ CommitRequest(c)
       \/ PasswordRight(c)
       \/ RequestAborts(c)

RateSpec == RateInit /\ [][RateNext]_rateVars

-----------------------------------------------------------------------------
(* A scope never holds more buckets than its capacity, whatever requests with
   new keys arrive together, and however stale ones are pruned and successful
   ones cleared meanwhile. *)
WithinBucketCapacity ==
  \A scope \in {Networks, Accounts} : Cardinality({k \in scope : bucket[k] # NoBucket}) <= BucketCapacity
=============================================================================
