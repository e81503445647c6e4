-------------------------- MODULE KnowledgeDocuments --------------------------
(***************************************************************************)
(* One knowledge document with its versions and chunks, and the            *)
(* transactions of knowledge-ingestion.service.ts and                      *)
(* knowledge-admin.service.ts that write them.                             *)
(*                                                                         *)
(* Writers of the document take the advisory lock lockKnowledgeDocument,   *)
(* except archiveDocument, and transactions run at READ COMMITTED: one     *)
(* that reads the document's status and writes it later is two steps, with *)
(* the lock in `docLock` and what it read in `seen`.  The others are one.  *)
(*                                                                         *)
(* A version's text is the number of the version it was first written in,  *)
(* so a copy made by a rollback is told from a revision.                   *)
(***************************************************************************)
EXTENDS KnowledgeQueue

CONSTANTS Kind,        \* "TEXT" or "FILE": source_type, which versions must keep
          BaseMoves    \* whether an instance archives and reopens the base

ASSUME DocumentsAssumption ==
  Kind \in {"TEXT", "FILE"} /\ BaseMoves \in BOOLEAN

NoVersion == 0

\* Who may be inside a two-step transaction.
Unlocked == <<"nobody", 0>>
Drafting == <<"draft", 0>>
ByWorker(w) == <<"worker", w>>
ByUpload(v) == <<"upload", v>>
Holders == {Drafting} \cup {ByWorker(w) : w \in Workers} \cup {ByUpload(v) : v \in Versions}

VARIABLES docStatus,      \* knowledge_documents.status, "NONE" before the insert
          current,        \* current_version_id, NoVersion for null
          docVersion,     \* document_version, 1 by default
          docText,        \* content_text of the document
          versionStatus,  \* knowledge_document_versions.status
          chunks,         \* the text its chunks were cut from, NoVersion without any
          linked,         \* object_key, size and digest recorded
          baseOpen,       \* the knowledge base is not ARCHIVED
          edits,          \* expectedVersion of updates between their two transactions
          docLock,        \* who is inside a two-step transaction
          seen            \* the status that transaction read

textVars == <<docStatus, current, docVersion, docText>>
docVars == <<textVars, versionStatus, chunks, linked, baseOpen, edits, docLock, seen>>

DocStatus == {"DRAFT", "PROCESSING", "READY", "FAILED", "ARCHIVED"}
VersionStatus == {"DRAFT", "PROCESSING", "READY", "FAILED"}

DocTypeOK ==
  /\ docStatus \in DocStatus \cup {"NONE"}
  /\ current \in Versions \cup {NoVersion}
  /\ docVersion \in Versions
  /\ docText \in Versions \cup {NoVersion}
  /\ versionStatus \in [Versions -> VersionStatus \cup {"ABSENT"}]
  /\ chunks \in [Versions -> Versions \cup {NoVersion}]
  /\ linked \in [Versions -> BOOLEAN]
  /\ baseOpen \in BOOLEAN
  /\ edits \in SUBSET Versions
  /\ docLock \in Holders \cup {Unlocked}
  /\ seen \in DocStatus \cup {"NONE"}

DocInit ==
  /\ docStatus = "NONE" /\ current = NoVersion /\ docVersion = 1 /\ docText = NoVersion
  /\ versionStatus = [v \in Versions |-> "ABSENT"]
  /\ chunks = [v \in Versions |-> NoVersion]
  /\ linked = [v \in Versions |-> FALSE]
  /\ baseOpen = TRUE /\ edits = {} /\ docLock = Unlocked /\ seen = "NONE"

-----------------------------------------------------------------------------
(* The lock.                                                               *)

Free == docLock = Unlocked

LockAndRead(h) == Free /\ docLock' = h /\ seen' = docStatus

Unlock == docLock' = Unlocked /\ seen' = "NONE"

HoldsLock(h) == docLock = h

-----------------------------------------------------------------------------
(* New versions: createVersionRecord.                                      *)

IsNextVersion(v) ==
  versionStatus[v] = "ABSENT" /\ \A u \in Versions : u < v => versionStatus[u] # "ABSENT"

AddVersion(v, s) == IsNextVersion(v) /\ versionStatus' = [versionStatus EXCEPT ![v] = s]

AcceptsVersions == baseOpen /\ docStatus # "ARCHIVED"

\* processing and enqueue: the version and its job are written together; the
\* status of an existing document is not touched.
CreateProcessing(v, now) ==
  /\ Free /\ AcceptsVersions
  /\ AddVersion(v, "PROCESSING")
  /\ Enqueue(v, now)
  /\ docStatus' = IF docStatus = "NONE" THEN "PROCESSING" ELSE docStatus
  /\ UNCHANGED <<current, docVersion, docText, chunks, linked, baseOpen, docLock, seen>>

\* A draft of a document with nothing published is also the document's text.
\* First transaction step: the checks; last: the writes.
DraftLock == AcceptsVersions /\ LockAndRead(Drafting)

DraftCommit ==
  /\ HoldsLock(Drafting)
  /\ \E v \in Versions :
       /\ AddVersion(v, "DRAFT")
       /\ IF current = NoVersion
          THEN docStatus' = "DRAFT" /\ docText' = v
          ELSE UNCHANGED <<docStatus, docText>>
  /\ Unlock
  /\ UNCHANGED <<current, docVersion, chunks, linked, baseOpen, edits, queueVars>>

-----------------------------------------------------------------------------
(* Commands of the admin console.                                          *)

\* createDocument: the first version of a text document.
CreateDocument ==
  /\ Kind = "TEXT" /\ docStatus = "NONE"
  /\ \/ DraftLock /\ UNCHANGED <<textVars, versionStatus, chunks, linked, baseOpen, queueVars>>
     \/ CreateProcessing(1, TRUE)
  /\ UNCHANGED edits

\* updateDocument, first transaction: the version the editor worked from is the
\* current one.
UpdateCheck ==
  /\ Kind = "TEXT" /\ docStatus \notin {"NONE", "ARCHIVED"}
  /\ edits' = edits \cup {docVersion}
  /\ UNCHANGED <<textVars, versionStatus, chunks, linked, baseOpen, docLock, seen, queueVars>>

\* updateDocument, second transaction: a new version, published or as a draft.
UpdateCreate(e) ==
  /\ e \in edits /\ edits' = edits \ {e}
  /\ \/ DraftLock /\ UNCHANGED <<textVars, versionStatus, chunks, linked, baseOpen, queueVars>>
     \/ \E v \in Versions : CreateProcessing(v, TRUE)

\* requireActiveDocumentAndKnowledgeBase
Active == baseOpen /\ docStatus # "ARCHIVED"

\* Back to the queue with a new job: the tail of retry and publishDraftVersion.
Requeue(v) ==
  /\ Free /\ Active
  /\ Enqueue(v, TRUE)
  /\ versionStatus' = [versionStatus EXCEPT ![v] = "PROCESSING"]
  /\ UNCHANGED <<textVars, chunks, linked, baseOpen, edits, docLock, seen>>

Retriable(v) == versionStatus[v] = "FAILED"

Retry(v) == Retriable(v) /\ Requeue(v)

PublishDraft(v) ==
  /\ Kind = "TEXT" /\ versionStatus[v] = "DRAFT"
  /\ ~(current # NoVersion /\ v <= docVersion)
  /\ Requeue(v)

\* Bug: a version that failed or was never indexed can be restored.
BugRestoresAnything(t) == t # current /\ versionStatus[t] \in {"READY", "FAILED"}

\* rollbackDocumentVersion: a new version with the text and chunks of an old one.
Restorable(t) == t # current /\ versionStatus[t] = "READY" /\ chunks[t] # NoVersion

Rollback(t) ==
  /\ Free /\ Active /\ Restorable(t)
  /\ \E n \in Versions :
       /\ AddVersion(n, "READY")
       /\ chunks' = [chunks EXCEPT ![n] = chunks[t]]
       /\ current' = n /\ docVersion' = n
  /\ docStatus' = "READY" /\ docText' = chunks[t]
  /\ UNCHANGED <<linked, baseOpen, edits, docLock, seen, queueVars>>

\* archiveDocument takes no lock: one conditional UPDATE on document_version.
ArchiveDocument ==
  /\ docStatus \notin {"NONE", "ARCHIVED"}
  /\ docStatus' = "ARCHIVED"
  /\ UNCHANGED <<current, docVersion, docText, versionStatus, chunks, linked, baseOpen, edits, docLock, seen, queueVars>>

\* update of the base's status, as far as documents look at it.
MoveBase ==
  /\ BaseMoves /\ baseOpen' = ~baseOpen
  /\ UNCHANGED <<textVars, versionStatus, chunks, linked, edits, docLock, seen, queueVars>>

-----------------------------------------------------------------------------
(* What ingestion writes.                                                  *)

\* Bug: the version that finishes last wins.
BugPromotesAlways(v) == TRUE

shouldPromoteKnowledgeVersion(v) == current = NoVersion \/ docVersion < v

\* The end of process: chunks are replaced, the version is READY, and it becomes
\* the document unless a newer one already is.
PublishVersion(v) ==
  /\ chunks' = [chunks EXCEPT ![v] = v]
  /\ versionStatus' = [versionStatus EXCEPT ![v] = "READY"]
  /\ IF shouldPromoteKnowledgeVersion(v)
     THEN current' = v /\ docVersion' = v /\ docText' = v /\ docStatus' = "READY"
     ELSE UNCHANGED textVars
  /\ UNCHANGED <<linked, baseOpen, edits>>

\* Bug: the document is left in PROCESSING.
BugForgetsDocument == UNCHANGED <<textVars, chunks, linked, baseOpen, edits>>

\* A failure shows on the document only while nothing is published.
FailDocument ==
  /\ docStatus' = IF current = NoVersion /\ seen # "ARCHIVED" THEN "FAILED" ELSE docStatus
  /\ UNCHANGED <<current, docVersion, docText, chunks, linked, baseOpen, edits>>

\* Bug: the job fails and its version is forgotten.
BugFailsJobOnly(v) == UNCHANGED versionStatus

FailVersion(v) == versionStatus' = [versionStatus EXCEPT ![v] = "FAILED"]

LinkObject(v) == linked' = [linked EXCEPT ![v] = TRUE]

Linkable(v) == versionStatus[v] = "PROCESSING" /\ ~linked[v]
=============================================================================
