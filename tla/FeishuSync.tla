------------------------------ MODULE FeishuSync ------------------------------
(***************************************************************************)
(* Synchronizations with Feishu (feishu-directory-sync.service.ts): the    *)
(* row directory_integrations, its lease, and the executions that fetch a  *)
(* snapshot and apply it.  OrgDirectory says what applying does.           *)
(*                                                                         *)
(* An execution reads the clock before the statement that uses the time:   *)
(* `now` is any tick since its previous step, and startedAt any tick at    *)
(* all.  The processes share a clock; the application of the environment   *)
(* stays the same one.                                                     *)
(***************************************************************************)
EXTENDS Integers, FiniteSets

CONSTANTS Syncs,        \* executions at once
          Apps,         \* Feishu applications an administrator may bind
          EnvironmentApp, \* the one the environment names
          LeaseLength,  \* FEISHU_SYNC_LEASE_MS
          LastMoment,   \* bound: ticks
          MaxVersion    \* bound: changes of the row

NoSync == "nobody"
NoApp == "none"

ASSUME FeishuAssumption ==
  /\ NoSync \notin Syncs /\ NoApp \notin Apps /\ EnvironmentApp \in Apps
  /\ LeaseLength \in Nat /\ LastMoment \in Nat /\ MaxVersion \in Nat

VARIABLES integration,   \* directory_integrations; version 0 stands for no row
          moment,
          syncs,         \* claim, execute
          binding,       \* bind: the application, between its two statements
          applyingSync,  \* the execution that holds the directory lock
          applications   \* history: how many snapshots were applied

syncVars == <<integration, moment, syncs, binding, applyingSync, applications>>

NoRow == [status |-> "none", owner |-> NoSync, expires |-> 0, version |-> 0, app |-> NoApp, synced |-> FALSE]
Idle == [at |-> "idle", time |-> 0, version |-> 0, seen |-> 0]

SyncInit ==
  /\ integration = NoRow /\ moment = 0
  /\ syncs = [s \in Syncs |-> Idle]
  /\ binding = NoApp /\ applyingSync = NoSync /\ applications = 0

Goes(s, at) == syncs' = [syncs EXCEPT ![s].at = at, ![s].time = moment]
Ends(s) == syncs' = [syncs EXCEPT ![s] = Idle]
ReadClock(s) == syncs[s].time .. moment

\* The clauses that tell an execution it still holds the lease.
Runs(s) == integration.status = "RUNNING" /\ integration.owner = s

Holds(s, now) == Runs(s) /\ integration.expires > now

Ended(status) == [integration EXCEPT !.status = status, !.owner = NoSync, !.expires = 0, !.version = @ + 1]

-----------------------------------------------------------------------------
(* bind: its checks, then an upsert that takes any row it meets.           *)

BindReads(app) ==
  /\ binding = NoApp /\ integration.version < MaxVersion
  /\ integration.status # "RUNNING"
  /\ integration.synced => integration.app \in {NoApp, app}
  /\ binding' = app
  /\ UNCHANGED <<integration, moment, syncs, applyingSync, applications>>

BindWrites ==
  /\ binding # NoApp /\ binding' = NoApp
  /\ integration' = [integration EXCEPT !.app = binding, !.version = @ + 1,
                                        !.status = IF @ = "none" THEN "IDLE" ELSE @]
  /\ UNCHANGED <<moment, syncs, applyingSync, applications>>

BindFails ==
  /\ binding # NoApp /\ binding' = NoApp
  /\ UNCHANGED <<integration, moment, syncs, applyingSync, applications>>

-----------------------------------------------------------------------------
(* claim: startedAt, a transaction that reads the row and replaces the     *)
(* version it has read.  A refused request changes nothing.                *)

ClaimReads(s) ==
  /\ syncs[s].at = "idle" /\ integration.version < MaxVersion
  /\ \E startedAt \in 0 .. moment :
       /\ integration.status = "RUNNING" => integration.expires <= startedAt
       /\ syncs' = [syncs EXCEPT ![s] = [Idle EXCEPT !.at = "claiming", !.time = startedAt,
                                                      !.version = integration.version]]
  /\ UNCHANGED <<integration, moment, binding, applyingSync, applications>>

\* The application that was bound, or else the one of the environment.
ResolveConnection(app) == IF app = NoApp THEN EnvironmentApp ELSE app

ClaimWrites(s) ==
  /\ syncs[s].at = "claiming" /\ syncs[s].version = integration.version
  /\ integration' = [integration EXCEPT !.status = "RUNNING", !.owner = s, !.version = @ + 1,
                                        !.expires = syncs[s].time + LeaseLength,
                                        !.app = ResolveConnection(@)]
  /\ syncs' = [syncs EXCEPT ![s] = [Idle EXCEPT !.at = "claimed"]]
  /\ UNCHANGED <<moment, binding, applyingSync, applications>>

-----------------------------------------------------------------------------
(* execute.                                                                *)

\* fetchSnapshot asks for its first page; what it returns is as of now or later.
FetchSnapshot(s) ==
  /\ syncs[s].at = "claimed"
  /\ syncs' = [syncs EXCEPT ![s] = [Idle EXCEPT !.at = "fetching", !.time = moment, !.seen = applications]]
  /\ UNCHANGED <<integration, moment, binding, applyingSync, applications>>

\* It has returned a valid snapshot.
RenewLease(s) ==
  /\ syncs[s].at = "fetching"
  /\ \E now \in ReadClock(s) :
       IF Holds(s, now)
       THEN integration' = [integration EXCEPT !.expires = now + LeaseLength] /\ Goes(s, "renewed")
       ELSE UNCHANGED integration /\ Goes(s, "failing")
  /\ UNCHANGED <<moment, binding, applyingSync, applications>>

\* applySnapshot: it looks at the row, then waits for the directory lock ...
ApplyBegins(s) ==
  /\ syncs[s].at = "renewed"
  /\ \E now \in ReadClock(s) : Goes(s, IF Holds(s, now) THEN "waiting" ELSE "failing")
  /\ UNCHANGED <<integration, moment, binding, applyingSync, applications>>

ApplyLocks(s) ==
  /\ syncs[s].at = "waiting" /\ applyingSync = NoSync
  /\ Goes(s, "applying") /\ applyingSync' = s
  /\ UNCHANGED <<integration, moment, binding, applications>>

\* Bug: it does not look at the row again before it commits.
BugApplySnapshotCommits(s) ==
  /\ syncs[s].at = "applying" /\ applyingSync' = NoSync
  /\ integration' = [Ended("SUCCEEDED") EXCEPT !.synced = TRUE]
  /\ applications' = applications + 1 /\ Ends(s)
  /\ UNCHANGED <<moment, binding>>

\* ... writes everything, and commits it if the lease is still its own.
ApplySnapshotCommits(s) ==
  /\ syncs[s].at = "applying"
  /\ \E finishedAt \in ReadClock(s) :
       IF Holds(s, finishedAt)
       THEN /\ integration' = [Ended("SUCCEEDED") EXCEPT !.synced = TRUE]
            /\ applications' = applications + 1 /\ Ends(s)
       ELSE UNCHANGED <<integration, applications>> /\ Goes(s, "failing")
  /\ applyingSync' = NoSync
  /\ UNCHANGED <<moment, binding>>

Frees(s) == applyingSync' = IF applyingSync = s THEN NoSync ELSE applyingSync

\* The API, the validation, the database or the time limit of the transaction.
Fails(s) ==
  /\ syncs[s].at \in {"fetching", "renewed", "waiting", "applying"}
  /\ Goes(s, "failing") /\ Frees(s)
  /\ UNCHANGED <<integration, moment, binding, applications>>

RecordFailure(s) ==
  /\ syncs[s].at = "failing" /\ Ends(s)
  /\ integration' = IF Runs(s) THEN Ended("FAILED") ELSE integration
  /\ UNCHANGED <<moment, binding, applyingSync, applications>>

\* A refused request, or the end of the process: its lease stays.
Stops(s) ==
  /\ syncs[s].at # "idle" /\ Ends(s) /\ Frees(s)
  /\ UNCHANGED <<integration, moment, binding, applications>>

MomentPasses ==
  /\ moment < LastMoment /\ moment' = moment + 1
  /\ UNCHANGED <<integration, syncs, binding, applyingSync, applications>>

SyncNext ==
  \/ \E app \in Apps : BindReads(app)
  \/ BindWrites
  \/ BindFails
  \/ \E s \in Syncs :
       \/ ClaimReads(s)
       \/ ClaimWrites(s)
       \/ FetchSnapshot(s)
       \/ RenewLease(s)
       \/ ApplyBegins(s)
       \/ ApplyLocks(s)
       \/ ApplySnapshotCommits(s)
       \/ Fails(s)
       \/ RecordFailure(s)
       \/ Stops(s)
  \/ MomentPasses

SyncSpec == SyncInit /\ [][SyncNext]_syncVars

-----------------------------------------------------------------------------
(* Nothing was applied between the fetch of a snapshot and its application: an
   execution that outlives its lease, and one that has taken over from it, never
   write an older state of Feishu over a newer one. *)
AppliedInOrder ==
  [][applications' # applications => syncs[applyingSync].seen = applications]_syncVars
=============================================================================
