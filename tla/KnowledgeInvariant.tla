--------------------------- MODULE KnowledgeInvariant ---------------------------
(***************************************************************************)
(* The inductive invariant behind the theorems of KnowledgeProofs, and the *)
(* steps of the document and its jobs as the theorems see them.            *)
(***************************************************************************)
EXTENDS KnowledgeSystem

Inserted(v, k) == jobStatus[<<v, k>>] # "ABSENT"

\* Jobs and versions are inserted in the order of their numbers.
InOrder ==
  /\ \A v \in Versions : \A k, l \in 0 .. MaxRetries : k < l /\ Inserted(v, l) => Inserted(v, k)
  /\ \A u, v \in Versions : u < v /\ versionStatus[v] # "ABSENT" => versionStatus[u] # "ABSENT"

\* A live job is the last of its version, so it is the only live one, and its
\* version has not been published (it may have been failed by its upload).
LiveIsLast ==
  \A v \in Versions : \A k \in 0 .. MaxRetries : Live(<<v, k>>) =>
    /\ \A l \in 0 .. MaxRetries : k < l => ~Inserted(v, l)
    /\ versionStatus[v] \in {"PROCESSING", "FAILED"}

\* Who stands inside a transaction has the document's lock, and an archived
\* document it has read stays so until it leaves.
LocksAgree ==
  /\ \A w \in Workers : pc[w] \in {"commit", "failing"} <=> docLock = ByWorker(w)
  /\ \A v \in Versions : upload[v] = "failing" <=> docLock = ByUpload(v)
  /\ docLock # Unlocked /\ seen = "ARCHIVED" => docStatus = "ARCHIVED"

\* A handler has a job, still its own while it writes the end of it; an upload
\* that failed its job holds it.
ClaimsHeld ==
  /\ \A w \in Workers : pc[w] # "idle" => job[w] \in Jobs
  /\ \A w \in Workers : docLock = ByWorker(w) => jobStatus[job[w]] = "RUNNING" /\ claimedBy[job[w]] = w
  /\ holdsJob => \E v \in Versions : docLock = ByUpload(v)
  /\ \A v \in Versions : holdsJob /\ docLock = ByUpload(v) => jobStatus[OwnJob(v)] = "PENDING"

KnowledgeInv ==
  /\ TypeOK /\ LocksAgree /\ ClaimsHeld /\ InOrder /\ LiveIsLast
  /\ PublishedIsReadable /\ ProcessingHasJob /\ ProcessingIsTrue

-----------------------------------------------------------------------------
\* Every step of the system, seen from the document and its jobs.

\* A live job is claimed or released.
Passes(j) ==
  /\ Live(j)
  /\ \E s \in {"PENDING", "RUNNING"} : jobStatus' = [jobStatus EXCEPT ![j] = s]
  /\ UNCHANGED <<textVars, versionStatus, chunks>>

Requeues(v) == versionStatus[v] \in {"FAILED", "DRAFT"} /\ Requeue(v)

\* A running job ends with its version published, or failed.
Publishes(j) ==
  /\ jobStatus[j] = "RUNNING" /\ jobStatus' = [jobStatus EXCEPT ![j] = "SUCCEEDED"]
  /\ PublishVersion(j[1])

Read == seen = "ARCHIVED" => docStatus = "ARCHIVED"

Fails(j) ==
  /\ jobStatus[j] = "RUNNING" /\ jobStatus' = [jobStatus EXCEPT ![j] = "FAILED"]
  /\ FailVersion(j[1]) /\ Read /\ FailDocument

\* An upload fails its version, with its job if that was pending.
GivesUp(v) ==
  /\ \/ UNCHANGED jobStatus
     \/ jobStatus[OwnJob(v)] = "PENDING" /\ jobStatus' = [jobStatus EXCEPT ![OwnJob(v)] = "FAILED"]
  /\ IF versionStatus[v] = "PROCESSING" THEN FailVersion(v) ELSE UNCHANGED versionStatus
  /\ Read /\ FailDocument

LibraryStep ==
  \/ UNCHANGED <<textVars, versionStatus, chunks, jobStatus>>
  \/ \E v \in Versions : \E now \in BOOLEAN : CreateProcessing(v, now)
  \/ DraftCommit
  \/ \E v \in Versions : Requeues(v) \/ Rollback(v) \/ GivesUp(v)
  \/ ArchiveDocument
  \/ \E j \in Jobs : Passes(j) \/ Publishes(j) \/ Fails(j)
=============================================================================
