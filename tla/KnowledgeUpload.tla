---------------------------- MODULE KnowledgeUpload ----------------------------
(***************************************************************************)
(* uploadFile: the HTTP handler that stores a new file version.  It writes *)
(* the version with a job that becomes due only after                      *)
(* FILE_UPLOAD_RECOVERY_DELAY_MS, puts the object, then links it and makes *)
(* the job due at once.  The put has no deadline of its own, so a worker   *)
(* may take the job up meanwhile; that job is also what is left when the   *)
(* process dies on the way.                                                *)
(***************************************************************************)
EXTENDS KnowledgeWorker

UploadPlaces == {"none", "put", "link", "failed", "failing"}

VARIABLES upload,    \* where the upload handler of a version stands
          holdsJob   \* its failing transaction has taken a pending job

uploadVars == <<upload, holdsJob>>

UploadTypeOK ==
  /\ upload \in [Versions -> UploadPlaces]
  /\ holdsJob \in BOOLEAN

UploadInit == upload = [v \in Versions |-> "none"] /\ holdsJob = FALSE

UploadGoto(v, p) == upload' = [upload EXCEPT ![v] = p]

\* The job the handler created, the first of its version.
OwnJob(v) == <<v, 0>>

\* Its failing transaction holds the row of its job, if the job was pending.
JobHeld(j) == \E v \in Versions : HoldsLock(ByUpload(v)) /\ holdsJob /\ j = OwnJob(v)

StartUpload(v) ==
  /\ Kind = "FILE"
  /\ CreateProcessing(v, FALSE)
  /\ UploadGoto(v, "put")
  /\ UNCHANGED <<edits, workerVars, holdsJob>>

\* putObject returns, or throws with the object stored or not.
PutReturns(v) ==
  /\ upload[v] = "put"
  /\ stored' = [stored EXCEPT ![v] = TRUE]
  /\ UploadGoto(v, "link")
  /\ UNCHANGED <<tableVars, pc, job, crashes, holdsJob>>

PutThrows(v) ==
  /\ upload[v] = "put"
  /\ \E s \in BOOLEAN : stored' = [stored EXCEPT ![v] = s]
  /\ UploadGoto(v, "failed")
  /\ UNCHANGED <<tableVars, pc, job, crashes, holdsJob>>

\* The ledger and the job in one transaction; when either write finds nothing
\* the transaction is rolled back and the request still succeeds.
LinkUpload(v) ==
  /\ upload[v] = "link" /\ Free
  /\ UploadGoto(v, "none")
  /\ IF Linkable(v) /\ jobStatus[OwnJob(v)] = "PENDING"
     THEN LinkObject(v) /\ due' = [due EXCEPT ![OwnJob(v)] = TRUE]
     ELSE UNCHANGED <<linked, due>>
  /\ UNCHANGED <<textVars, versionStatus, chunks, baseOpen, edits, docLock, seen>>
  /\ UNCHANGED <<jobStatus, claimedBy, leaseLive, attempts, workerVars, holdsJob>>

\* failBeforeEnqueue up to its reading of the document: by then the job has been
\* failed if it was pending.
UploadFailLock(v) ==
  /\ upload[v] = "failed"
  /\ LockAndRead(ByUpload(v))
  /\ holdsJob' = (jobStatus[OwnJob(v)] = "PENDING")
  /\ UploadGoto(v, "failing")
  /\ UNCHANGED <<textVars, versionStatus, chunks, linked, baseOpen, edits, queueVars, workerVars>>

\* ... and its writes.
UploadFailCommit(v) ==
  /\ upload[v] = "failing"
  /\ jobStatus' = IF holdsJob THEN [jobStatus EXCEPT ![OwnJob(v)] = "FAILED"] ELSE jobStatus
  /\ IF versionStatus[v] = "PROCESSING" THEN FailVersion(v) ELSE UNCHANGED versionStatus
  /\ FailDocument
  /\ Unlock /\ holdsJob' = FALSE
  /\ UploadGoto(v, "none")
  /\ UNCHANGED <<claimedBy, leaseLive, attempts, due, workerVars>>

\* The process dies, or its last transaction cannot be run.
UploadCrash(v) ==
  /\ upload[v] # "none" /\ crashes < MaxCrashes
  /\ crashes' = crashes + 1
  /\ \E s \in (IF upload[v] = "put" THEN BOOLEAN ELSE {stored[v]}) : stored' = [stored EXCEPT ![v] = s]
  /\ UploadGoto(v, "none")
  /\ IF HoldsLock(ByUpload(v)) THEN Unlock /\ holdsJob' = FALSE ELSE UNCHANGED <<docLock, seen, holdsJob>>
  /\ UNCHANGED <<textVars, versionStatus, chunks, linked, baseOpen, edits, queueVars, pc, job>>
=============================================================================
