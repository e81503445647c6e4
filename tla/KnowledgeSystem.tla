---------------------------- MODULE KnowledgeSystem ----------------------------
(***************************************************************************)
(* A knowledge document as a whole: the administrators, the upload         *)
(* handlers, the queue and the ingestion workers, and the properties that  *)
(* must hold of them together.                                             *)
(***************************************************************************)
EXTENDS KnowledgeUpload

vars == <<tableVars, workerVars, uploadVars>>

Init == QueueInit /\ DocInit /\ WorkerInit /\ UploadInit

AdminStep ==
  \/ CreateDocument
  \/ UpdateCheck
  \/ \E e \in edits : UpdateCreate(e)
  \/ DraftCommit
  \/ \E v \in Versions : Retry(v)
  \/ \E v \in Versions : PublishDraft(v)
  \/ \E v \in Versions : Rollback(v)
  \/ ArchiveDocument
  \/ MoveBase

WorkerStep(w) ==
  \/ \E j \in Jobs : ~JobHeld(j) /\ ClaimJob(w, j)
  \/ ReadVersion(w)
  \/ ReadObject(w)
  \/ RestoreLedger(w)
  \/ Process(w)
  \/ Trouble(w)
  \/ PublishLock(w)
  \/ PublishCommit(w)
  \/ ReleaseJob(w)
  \/ FailLock(w)
  \/ FailCommit(w)
  \/ Crash(w)

UploadStep(v) ==
  \/ StartUpload(v)
  \/ PutReturns(v)
  \/ PutThrows(v)
  \/ LinkUpload(v)
  \/ UploadFailLock(v)
  \/ UploadFailCommit(v)
  \/ UploadCrash(v)

Next ==
  \/ AdminStep /\ UNCHANGED <<workerVars, uploadVars>>
  \/ \E w \in Workers : WorkerStep(w) /\ UNCHANGED uploadVars
  \/ \E v \in Versions : UploadStep(v)
  \/ \E j \in Jobs : (DueComes(j) \/ LeaseEnds(j)) /\ UNCHANGED uploadVars

Spec == Init /\ [][Next]_vars

\* What the deployment is relied on for: polling goes on, external calls return,
\* clocks advance, and PostgreSQL grants an advisory lock in the order it is
\* asked for, so whoever waits for the document's lock gets it.
Handling(A) == A /\ UNCHANGED uploadVars

Advances(w) ==
  ReadVersion(w) \/ ReadObject(w) \/ RestoreLedger(w) \/ Process(w) \/ ReleaseJob(w)
    \/ PublishCommit(w) \/ FailCommit(w) \/ (pc[w] \in {"read", "restore"} /\ Trouble(w))

Fairness ==
  /\ \A w \in Workers :
       /\ WF_vars(Handling(Advances(w)))
       /\ SF_vars(Handling(PublishLock(w))) /\ SF_vars(Handling(FailLock(w)))
  /\ \A j \in Jobs :
       /\ SF_vars(Handling(\E w \in Workers : ~JobHeld(j) /\ ClaimJob(w, j)))
       /\ WF_vars(Handling(DueComes(j))) /\ WF_vars(Handling(LeaseEnds(j)))
  /\ \A v \in Versions : WF_vars(UploadFailCommit(v))
  /\ WF_vars(DraftCommit /\ UNCHANGED <<workerVars, uploadVars>>)

FairSpec == Spec /\ Fairness

-----------------------------------------------------------------------------
(* Type correctness of all tables and handlers. *)
TypeOK == QueueTypeOK /\ DocTypeOK /\ WorkerTypeOK /\ UploadTypeOK

(* Readers are given a finished document: when a version is current it is READY
   and indexed, the document's own number and text are that version's, and the
   document counts as published exactly then (readiness, retrieval read both). *)
PublishedIsReadable ==
  /\ current # NoVersion =>
       /\ versionStatus[current] = "READY"
       /\ chunks[current] # NoVersion
       /\ docVersion = current /\ docText = chunks[current]
       /\ docStatus \in {"READY", "ARCHIVED"}
  /\ docStatus = "READY" => current # NoVersion

(* No accepted version is forgotten: while it is PROCESSING it has a job that is
   pending or running, whatever upload, worker or transaction died on the way. *)
ProcessingHasJob ==
  \A v \in Versions : versionStatus[v] = "PROCESSING" => \E k \in 0 .. MaxRetries : Live(<<v, k>>)

(* A document that shows PROCESSING has a version that is being processed. *)
ProcessingIsTrue ==
  docStatus = "PROCESSING" => \E v \in Versions : versionStatus[v] = "PROCESSING"

(* A version that has been published or indexed is never failed, processed again
   or rewritten, also not by a worker that lost its lease long ago. *)
ReadyIsForever ==
  [][\A v \in Versions : versionStatus[v] = "READY" =>
       versionStatus'[v] = "READY" /\ chunks'[v] = chunks[v]]_vars

(* The whole implements KnowledgePublication. *)
Publication == INSTANCE KnowledgePublication
  WITH Numbers <- Versions, shown <- current,
       finished <- {v \in Versions : versionStatus[v] = "READY"},
       text <- chunks

ImplementsPublication == Publication!PublicationSpec

(* A version that is being processed gets there or fails, through crashes, lost
   leases, slow uploads and errors of every service on the way. *)
ProcessingSettles ==
  \A v \in Versions : versionStatus[v] = "PROCESSING" ~> versionStatus[v] # "PROCESSING"

(* An archived document stays archived: archiving is how documents are deleted
   (docs/adr/0005 section 7.2), and no command of the console takes it back. *)
ArchivedStaysArchived == [][docStatus = "ARCHIVED" => docStatus' = "ARCHIVED"]_vars

(* A revision is only accepted from an editor who worked on the version that is
   current when it is written (expectedVersion, docs/adr/0005 section 6). *)
RevisionsAreFresh == [][\A e \in edits : e \notin edits' => e = docVersion]_vars
=============================================================================
