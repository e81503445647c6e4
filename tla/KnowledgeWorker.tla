---------------------------- MODULE KnowledgeWorker ----------------------------
(***************************************************************************)
(* The ingestion worker: processClaim of knowledge-ingestion.worker.ts and *)
(* executeClaim, readSourceBytes, process and failClaim of                 *)
(* knowledge-ingestion.service.ts, cut at every await after which another  *)
(* worker, an upload or an administrator may have written.                 *)
(*                                                                         *)
(*   start   -> executeClaim's first transaction                           *)
(*   read    -> the object is fetched, its ledger being known              *)
(*   restore -> the same without a ledger; link writes the ledger          *)
(*   process -> scan, parse, split, embed, with a stage update before each *)
(*   publish -> the final transaction, commit its end                      *)
(*   release -> releaseForRetry; fail, failing -> failClaim                *)
(*                                                                         *)
(* heartbeat.lost() only suppresses a transition that the guard on the job *)
(* row refuses anyway, and is left out.                                    *)
(***************************************************************************)
EXTENDS KnowledgeDocuments

CONSTANTS MaxCrashes,           \* bound: handlers that die or cannot write their end
          LeaseCoversHandler    \* whether leases end only behind a handler that is gone

ASSUME WorkerAssumption == MaxCrashes \in Nat /\ LeaseCoversHandler \in BOOLEAN

NoJob == <<0, 0>>

Places == {"idle", "start", "read", "restore", "link", "process", "publish",
           "commit", "release", "fail", "failing"}

VARIABLES pc,       \* where the handler of a claim stands
          job,      \* the claimed job
          stored,   \* the object of a version exists in the object store
          crashes

workerVars == <<pc, job, stored, crashes>>
tableVars == <<docVars, queueVars>>

WorkerTypeOK ==
  /\ pc \in [Workers -> Places]
  /\ job \in [Workers -> Jobs \cup {NoJob}]
  /\ stored \in [Versions -> BOOLEAN]
  /\ crashes \in 0 .. MaxCrashes

WorkerInit ==
  /\ pc = [w \in Workers |-> "idle"]
  /\ job = [w \in Workers |-> NoJob]
  /\ stored = [v \in Versions |-> FALSE]
  /\ crashes = 0

Version(w) == job[w][1]
Owns(w) == OwnsClaim(w, job[w])

Goto(w, p) == pc' = [pc EXCEPT ![w] = p] /\ UNCHANGED <<job, stored, crashes>>

Leave(w) ==
  /\ pc' = [pc EXCEPT ![w] = "idle"]
  /\ job' = [job EXCEPT ![w] = NoJob]
  /\ UNCHANGED <<stored, crashes>>

\* Rows a two-step transaction has locked: claim skips them.
RowLocked(j) == \E w \in Workers : HoldsLock(ByWorker(w)) /\ job[w] = j

\* runOnce and the first test of processClaim.
ClaimJob(w, j) ==
  /\ pc[w] = "idle" /\ ~RowLocked(j)
  /\ Claim(w, j)
  /\ job' = [job EXCEPT ![w] = j]
  /\ pc' = [pc EXCEPT ![w] = IF attempts'[j] > MaxAttempts THEN "fail" ELSE "start"]
  /\ UNCHANGED <<docVars, stored, crashes>>

\* failOrRetry: where a failure leads.
AfterFailure(w, retryable) ==
  IF retryable /\ attempts[job[w]] < MaxAttempts THEN "release" ELSE "fail"

\* executeClaim's transaction.
ReadVersion(w) ==
  /\ pc[w] = "start"
  /\ UNCHANGED tableVars
  /\ IF ~Owns(w) THEN Leave(w)
     ELSE IF versionStatus[Version(w)] # "PROCESSING" THEN Goto(w, AfterFailure(w, FALSE))
     ELSE Goto(w, IF Kind = "TEXT" THEN "process"
                  ELSE IF linked[Version(w)] THEN "read" ELSE "restore")

\* readSourceBytes: the object arrives.
ReadObject(w) ==
  /\ pc[w] \in {"read", "restore"} /\ stored[Version(w)]
  /\ UNCHANGED tableVars
  /\ Goto(w, IF pc[w] = "read" THEN "process" ELSE "link")

\* readSourceBytes: a missing ledger is written, unless the upload was faster;
\* either way to lose the row is to lose the lease.
RestoreLedger(w) ==
  /\ pc[w] = "link"
  /\ UNCHANGED <<textVars, versionStatus, chunks, baseOpen, edits, docLock, seen, queueVars>>
  /\ IF Owns(w) /\ Linkable(Version(w))
     THEN LinkObject(Version(w)) /\ Goto(w, "process")
     ELSE UNCHANGED linked /\ Leave(w)

\* The four calls of advance and what lies between them.
Process(w) ==
  /\ pc[w] = "process"
  /\ UNCHANGED tableVars
  /\ IF Owns(w) THEN Goto(w, "publish") ELSE Leave(w)

\* The object store, scanner, parser or embedding provider fails, with an error
\* that describeKnowledgeIngestionError takes for passing or for final; or the
\* database does, which passes.  An open transaction is rolled back.
Severities(p) == IF p \in {"read", "restore", "process"} THEN BOOLEAN ELSE {TRUE}

Trouble(w) ==
  /\ pc[w] \in {"start", "read", "restore", "link", "process", "publish", "commit"}
  /\ \E retryable \in Severities(pc[w]) : Goto(w, AfterFailure(w, retryable))
  /\ IF HoldsLock(ByWorker(w)) THEN Unlock ELSE UNCHANGED <<docLock, seen>>
  /\ UNCHANGED <<textVars, versionStatus, chunks, linked, baseOpen, edits, queueVars>>

\* The final transaction up to its checks.
MayPublish(w) == Owns(w) /\ IsLatest(job[w])

PublishLock(w) ==
  /\ pc[w] = "publish" /\ Free
  /\ UNCHANGED <<textVars, versionStatus, chunks, linked, baseOpen, edits, queueVars>>
  /\ IF MayPublish(w) /\ Active
     THEN LockAndRead(ByWorker(w)) /\ Goto(w, "commit")
     ELSE /\ UNCHANGED <<docLock, seen>>
          /\ IF MayPublish(w) THEN Goto(w, AfterFailure(w, FALSE)) ELSE Leave(w)

\* ... and its writes.
PublishCommit(w) ==
  /\ pc[w] = "commit"
  /\ PublishVersion(Version(w))
  /\ Unclaim(job[w], "SUCCEEDED") /\ UNCHANGED <<attempts, due>>
  /\ Unlock
  /\ Leave(w)

ReleaseJob(w) ==
  /\ pc[w] = "release"
  /\ releaseForRetry(w, job[w])
  /\ Leave(w)
  /\ UNCHANGED docVars

\* failClaim up to its reading of the document.
FailLock(w) ==
  /\ pc[w] = "fail" /\ Free
  /\ UNCHANGED <<textVars, versionStatus, chunks, linked, baseOpen, edits, queueVars>>
  /\ IF Owns(w)
     THEN LockAndRead(ByWorker(w)) /\ Goto(w, "failing")
     ELSE UNCHANGED <<docLock, seen>> /\ Leave(w)

\* ... and its writes.  Only the latest job fails its version.
FailCommit(w) ==
  /\ pc[w] = "failing"
  /\ IF IsLatest(job[w])
     THEN FailVersion(Version(w)) /\ FailDocument
     ELSE UNCHANGED <<textVars, versionStatus, chunks, linked, baseOpen, edits>>
  /\ Unclaim(job[w], "FAILED") /\ UNCHANGED <<attempts, due>>
  /\ Unlock
  /\ Leave(w)

\* The process dies, or the statement that ends the handler cannot be run; an
\* open transaction is rolled back.
Crash(w) ==
  /\ pc[w] # "idle" /\ crashes < MaxCrashes
  /\ crashes' = crashes + 1
  /\ pc' = [pc EXCEPT ![w] = "idle"]
  /\ job' = [job EXCEPT ![w] = NoJob]
  /\ IF HoldsLock(ByWorker(w)) THEN Unlock ELSE UNCHANGED <<docLock, seen>>
  /\ UNCHANGED <<textVars, versionStatus, chunks, linked, baseOpen, edits, stored, queueVars>>

\* The clock.
DueComes(j) == BecomesDue(j) /\ UNCHANGED <<docVars, workerVars>>

LeaseEnds(j) ==
  /\ LeaseCoversHandler => ~ \E w \in Workers : job[w] = j
  /\ LeaseExpires(j)
  /\ UNCHANGED <<docVars, workerVars>>
=============================================================================
