---------------------------- MODULE KnowledgeQueue ----------------------------
(***************************************************************************)
(* knowledge_ingestion_jobs: the durable queue of document versions to be  *)
(* parsed, split and indexed, and the statements of                        *)
(* prisma-knowledge-ingestion-job.repository.ts that claim and release its *)
(* rows.                                                                   *)
(*                                                                         *)
(* A job <<v, k>> is the k-th job of version v.  available_at is the flag  *)
(* `due`; the lease deadline is the flag `leaseLive`, which a heartbeat    *)
(* prolongs (a renewal finds the lease live, and changes nothing here) and *)
(* which is never set again once it has passed.                            *)
(***************************************************************************)
EXTENDS Naturals

CONSTANTS MaxVersions,   \* bound: versions of the document
          MaxRetries,    \* bound: jobs of a version after its first
          Workers,       \* claims a fleet of workers handles at a time
          MaxAttempts    \* KNOWLEDGE_INGESTION_MAX_ATTEMPTS

ASSUME QueueAssumption ==
  MaxVersions \in Nat \ {0} /\ MaxRetries \in Nat /\ MaxAttempts \in Nat \ {0}

Versions == 1 .. MaxVersions
Jobs == Versions \X (0 .. MaxRetries)

NoWorker == "none"

ASSUME WorkersAssumption == NoWorker \notin Workers

VARIABLES jobStatus,   \* status, "ABSENT" before the insert
          claimedBy,   \* claimed_by
          leaseLive,   \* lease_expires_at > clock_timestamp()
          attempts,    \* attempts, which nothing tells apart past MaxAttempts + 1
          due          \* available_at <= clock_timestamp()

queueVars == <<jobStatus, claimedBy, leaseLive, attempts, due>>

JobStatus == {"PENDING", "RUNNING", "SUCCEEDED", "FAILED"}

\* The last two are the table's own constraints: lease_pair_check and
\* claim_state_check.
QueueTypeOK ==
  /\ jobStatus \in [Jobs -> JobStatus \cup {"ABSENT"}]
  /\ claimedBy \in [Jobs -> Workers \cup {NoWorker}]
  /\ leaseLive \in [Jobs -> BOOLEAN]
  /\ attempts \in [Jobs -> 0 .. MaxAttempts + 1]
  /\ due \in [Jobs -> BOOLEAN]
  /\ \A j \in Jobs : leaseLive[j] => claimedBy[j] # NoWorker
  /\ \A j \in Jobs : jobStatus[j] = "RUNNING" <=> claimedBy[j] # NoWorker

QueueInit ==
  /\ jobStatus = [j \in Jobs |-> "ABSENT"]
  /\ claimedBy = [j \in Jobs |-> NoWorker]
  /\ leaseLive = [j \in Jobs |-> FALSE]
  /\ attempts = [j \in Jobs |-> 0]
  /\ due = [j \in Jobs |-> FALSE]

Live(j) == jobStatus[j] \in {"PENDING", "RUNNING"}

\* pendingJob: the next job of version v.  The partial unique index
\* knowledge_ingestion_jobs_active_version_key refuses a second live one.
CanEnqueue(v) == \A k \in 0 .. MaxRetries : ~Live(<<v, k>>)

IsNextJob(j) ==
  /\ jobStatus[j] = "ABSENT"
  /\ \A k \in 0 .. MaxRetries : k < j[2] => jobStatus[<<j[1], k>>] # "ABSENT"

Enqueue(v, now) ==
  /\ CanEnqueue(v)
  /\ \E k \in 0 .. MaxRetries :
       /\ IsNextJob(<<v, k>>)
       /\ jobStatus' = [jobStatus EXCEPT ![<<v, k>>] = "PENDING"]
       /\ due' = [due EXCEPT ![<<v, k>>] = now]
  /\ UNCHANGED <<claimedBy, leaseLive, attempts>>

\* The job with the latest created_at.
IsLatest(j) == \A k \in 0 .. MaxRetries : k > j[2] => jobStatus[<<j[1], k>>] = "ABSENT"

\* Bug: only pending jobs are offered.
BugClaimsOnlyPending(j) == jobStatus[j] = "PENDING" /\ due[j]

Claimable(j) ==
  \/ jobStatus[j] = "PENDING" /\ due[j]
  \/ jobStatus[j] = "RUNNING" /\ ~leaseLive[j]

\* claim: the attempt is counted when the job is handed out.
NextAttempt(j) == IF attempts[j] > MaxAttempts THEN attempts[j] ELSE attempts[j] + 1

Claim(w, j) ==
  /\ Claimable(j)
  /\ jobStatus' = [jobStatus EXCEPT ![j] = "RUNNING"]
  /\ claimedBy' = [claimedBy EXCEPT ![j] = w]
  /\ leaseLive' = [leaseLive EXCEPT ![j] = TRUE]
  /\ attempts' = [attempts EXCEPT ![j] = NextAttempt(j)]
  /\ UNCHANGED due

\* Bug: whoever has ever claimed a job is believed.
BugOwnsAnything(w, j) == jobStatus[j] # "PENDING"

\* hasOwnedClaim, lockOwnedClaim and the guard of releaseForRetry and renewLease.
OwnsClaim(w, j) == jobStatus[j] = "RUNNING" /\ claimedBy[j] = w /\ leaseLive[j]

\* Bug: the claim columns are left behind.
BugKeepsClaim(j, s) ==
  /\ jobStatus' = [jobStatus EXCEPT ![j] = s]
  /\ UNCHANGED <<claimedBy, leaseLive>>

\* The row leaves RUNNING: the claim columns are cleared with it.
Unclaim(j, s) ==
  /\ jobStatus' = [jobStatus EXCEPT ![j] = s]
  /\ claimedBy' = [claimedBy EXCEPT ![j] = NoWorker]
  /\ leaseLive' = [leaseLive EXCEPT ![j] = FALSE]

releaseForRetry(w, j) ==
  IF OwnsClaim(w, j)
  THEN Unclaim(j, "PENDING") /\ due' = [due EXCEPT ![j] = FALSE] /\ UNCHANGED attempts
  ELSE UNCHANGED queueVars

\* Time passes available_at, or the lease deadline.
BecomesDue(j) ==
  /\ jobStatus[j] = "PENDING" /\ ~due[j]
  /\ due' = [due EXCEPT ![j] = TRUE]
  /\ UNCHANGED <<jobStatus, claimedBy, leaseLive, attempts>>

LeaseExpires(j) ==
  /\ leaseLive[j]
  /\ leaseLive' = [leaseLive EXCEPT ![j] = FALSE]
  /\ UNCHANGED <<jobStatus, claimedBy, attempts, due>>
=============================================================================
