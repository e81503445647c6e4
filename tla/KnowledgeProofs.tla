---------------------------- MODULE KnowledgeProofs ----------------------------
(***************************************************************************)
(* Theorems about KnowledgeSystem for every number of versions, retries,   *)
(* workers, attempts and crashes, and for both kinds of document.          *)
(***************************************************************************)
EXTENDS KnowledgeInvariant, TLAPS

USE DEF queueVars, textVars, docVars, tableVars, workerVars, uploadVars

LEMMA ConstantsFit ==
  /\ 1 \in Versions /\ NoVersion \notin Versions
  /\ \A v \in Versions : v \in Nat /\ v > 0
  /\ 0 \in 0 .. MaxRetries
  /\ \A v \in Versions : \A k \in 0 .. MaxRetries : <<v, k>> \in Jobs
  /\ \A j \in Jobs : j[1] \in Versions /\ j[2] \in 0 .. MaxRetries /\ j = <<j[1], j[2]>>
  /\ NoWorker \notin Workers
BY QueueAssumption, WorkersAssumption DEF Versions, Jobs, NoVersion

LEMMA HoldersDiffer ==
  /\ \A w \in Workers : ByWorker(w) # Unlocked /\ ByWorker(w) # Drafting
  /\ \A v \in Versions : ByUpload(v) # Unlocked /\ ByUpload(v) # Drafting
  /\ \A w \in Workers, v \in Versions : ByWorker(w) # ByUpload(v)
  /\ \A w, x \in Workers : ByWorker(w) = ByWorker(x) => w = x
  /\ \A u, v \in Versions : ByUpload(u) = ByUpload(v) => u = v
  /\ Drafting # Unlocked
BY DEF ByWorker, ByUpload, Unlocked, Drafting

LEMMA InitHolds == Init => KnowledgeInv
<1> SUFFICES ASSUME Init PROVE KnowledgeInv
  OBVIOUS
<1> USE ConstantsFit, HoldersDiffer DEF Init, QueueInit, DocInit, WorkerInit, UploadInit
<1>1. TypeOK
  <2>1. QueueTypeOK
    BY QueueAssumption DEF QueueTypeOK
  <2>2. DocTypeOK
    BY DocumentsAssumption DEF DocTypeOK
  <2>3. WorkerTypeOK
    BY WorkerAssumption DEF WorkerTypeOK, Places
  <2>4. UploadTypeOK
    BY DEF UploadTypeOK, UploadPlaces
  <2> QED BY <2>1, <2>2, <2>3, <2>4 DEF TypeOK
<1>2. LocksAgree /\ ClaimsHeld
  BY DEF LocksAgree, ClaimsHeld
<1>3. InOrder /\ LiveIsLast
  BY DEF InOrder, LiveIsLast, Inserted, Live
<1>4. PublishedIsReadable /\ ProcessingHasJob /\ ProcessingIsTrue
  BY DEF PublishedIsReadable, ProcessingHasJob, ProcessingIsTrue
<1> QED BY <1>1, <1>2, <1>3, <1>4 DEF KnowledgeInv

-----------------------------------------------------------------------------
(* Every step is one of the document's and its jobs'.                      *)

LEMMA AdminSeen ==
  ASSUME KnowledgeInv, AdminStep
  PROVE  LibraryStep
<1> USE ConstantsFit DEF LibraryStep
<1>1. CASE CreateDocument
  BY <1>1 DEF CreateDocument
<1>2. CASE UpdateCheck
  BY <1>2 DEF UpdateCheck
<1>3. CASE \E e \in edits : UpdateCreate(e)
  BY <1>3 DEF UpdateCreate
<1>4. CASE \E v \in Versions : Retry(v) \/ PublishDraft(v)
  BY <1>4 DEF Retry, PublishDraft, Retriable, Requeues
<1>5. CASE MoveBase
  BY <1>5 DEF MoveBase
<1> QED BY <1>1, <1>2, <1>3, <1>4, <1>5 DEF AdminStep

LEMMA InsideTransaction ==
  ASSUME KnowledgeInv, NEW w \in Workers, pc[w] \in {"commit", "failing"}
  PROVE  docLock = ByWorker(w) /\ job[w] \in Jobs /\ jobStatus[job[w]] = "RUNNING" /\ Read
BY HoldersDiffer DEF KnowledgeInv, LocksAgree, ClaimsHeld, Read

LEMMA WorkerSeen ==
  ASSUME KnowledgeInv, NEW w \in Workers, WorkerStep(w)
  PROVE  LibraryStep
<1> USE DEF LibraryStep
<1>1. CASE \E j \in Jobs : ClaimJob(w, j)
  BY <1>1 DEF ClaimJob, Claim, Claimable, Passes, Live
<1>2. CASE PublishCommit(w)
  <2>1. Publishes(job[w])
    BY <1>2, InsideTransaction DEF PublishCommit, Publishes, Unclaim, Version
  <2> QED BY <1>2, <2>1, InsideTransaction DEF PublishCommit
<1>3. CASE FailCommit(w)
  <2>1. IsLatest(job[w])
    BY <1>3, InsideTransaction, ConstantsFit
       DEF FailCommit, KnowledgeInv, LiveIsLast, Live, IsLatest, Inserted
  <2>2. Fails(job[w])
    BY <1>3, <2>1, InsideTransaction DEF FailCommit, Fails, Unclaim, Version
  <2> QED BY <1>3, <2>2, InsideTransaction DEF FailCommit
<1>4. CASE ReleaseJob(w)
  <2>1. job[w] \in Jobs
    BY <1>4 DEF ReleaseJob, KnowledgeInv, ClaimsHeld
  <2> QED BY <1>4, <2>1 DEF ReleaseJob, releaseForRetry, OwnsClaim, Unclaim, Passes, Live
<1>5. CASE \/ ReadVersion(w) \/ ReadObject(w) \/ RestoreLedger(w) \/ Process(w)
           \/ Trouble(w) \/ PublishLock(w) \/ FailLock(w) \/ Crash(w)
  BY <1>5 DEF ReadVersion, ReadObject, RestoreLedger, Process, Trouble, PublishLock, FailLock, Crash
<1> QED BY <1>1, <1>2, <1>3, <1>4, <1>5 DEF WorkerStep

LEMMA UploadSeen ==
  ASSUME KnowledgeInv, NEW v \in Versions, UploadStep(v)
  PROVE  LibraryStep
<1> USE DEF LibraryStep
<1>1. CASE StartUpload(v)
  BY <1>1 DEF StartUpload
<1>2. CASE UploadFailCommit(v)
  <2>1. Read
    BY <1>2, HoldersDiffer DEF UploadFailCommit, KnowledgeInv, LocksAgree, Read
  <2>2. holdsJob => jobStatus[OwnJob(v)] = "PENDING"
    BY <1>2 DEF UploadFailCommit, KnowledgeInv, LocksAgree, ClaimsHeld
  <2> QED BY <1>2, <2>1, <2>2 DEF UploadFailCommit, GivesUp
<1>3. CASE PutReturns(v) \/ PutThrows(v) \/ LinkUpload(v) \/ UploadFailLock(v) \/ UploadCrash(v)
  BY <1>3 DEF PutReturns, PutThrows, LinkUpload, UploadFailLock, UploadCrash
<1> QED BY <1>1, <1>2, <1>3 DEF UploadStep

LEMMA StepSeen ==
  ASSUME KnowledgeInv, [Next]_vars
  PROVE  LibraryStep
<1>1. CASE \E j \in Jobs : DueComes(j) \/ LeaseEnds(j)
  BY <1>1 DEF DueComes, BecomesDue, LeaseEnds, LeaseExpires, LibraryStep
<1>2. CASE UNCHANGED vars
  BY <1>2 DEF vars, LibraryStep
<1> QED BY <1>1, <1>2, AdminSeen, WorkerSeen, UploadSeen DEF Next

-----------------------------------------------------------------------------
(* The document and its jobs: every kind of step keeps them right.         *)

LEMMA EnqueueSeen ==
  ASSUME KnowledgeInv, NEW v \in Versions, NEW now \in BOOLEAN, Enqueue(v, now)
  PROVE  \E k \in 0 .. MaxRetries :
           /\ \A l \in 0 .. MaxRetries : Inserted(v, l) <=> l < k
           /\ \A l \in 0 .. MaxRetries : ~Live(<<v, l>>)
           /\ jobStatus' = [jobStatus EXCEPT ![<<v, k>>] = "PENDING"]
<1>1. PICK k \in 0 .. MaxRetries :
        /\ IsNextJob(<<v, k>>)
        /\ jobStatus' = [jobStatus EXCEPT ![<<v, k>>] = "PENDING"]
  BY DEF Enqueue
<1>2. ASSUME NEW l \in 0 .. MaxRetries
      PROVE  Inserted(v, l) <=> l < k
  <2>1. l < k => Inserted(v, l)
    BY <1>1 DEF IsNextJob, Inserted
  <2>2. ~Inserted(v, k)
    BY <1>1 DEF IsNextJob, Inserted
  <2>3. k < l /\ Inserted(v, l) => Inserted(v, k)
    BY DEF KnowledgeInv, InOrder
  <2> QED BY <2>1, <2>2, <2>3, QueueAssumption
<1> QED BY <1>1, <1>2 DEF Enqueue, CanEnqueue

LEMMA JobsSeen ==
  ASSUME KnowledgeInv, LibraryStep
  PROVE  \/ UNCHANGED jobStatus
         \/ \E v \in Versions, now \in BOOLEAN : Enqueue(v, now)
         \/ \E j \in Jobs : Live(j) /\ \E s \in JobStatus : jobStatus' = [jobStatus EXCEPT ![j] = s]
<1>1. CASE \E v \in Versions : GivesUp(v)
  BY <1>1, ConstantsFit DEF GivesUp, OwnJob, Live, JobStatus
<1>2. CASE \E j \in Jobs : Passes(j) \/ Publishes(j) \/ Fails(j)
  BY <1>2 DEF Passes, Publishes, Fails, Live, JobStatus
<1> QED BY <1>1, <1>2 DEF LibraryStep, CreateProcessing, DraftCommit, Requeues, Requeue, Rollback,
                          ArchiveDocument

LEMMA VersionsSeen ==
  ASSUME KnowledgeInv, LibraryStep
  PROVE  \/ UNCHANGED versionStatus
         \/ \E v \in Versions, s \in VersionStatus :
              /\ IsNextVersion(v) \/ versionStatus[v] # "ABSENT"
              /\ versionStatus' = [versionStatus EXCEPT ![v] = s]
<1>1. CASE \E v \in Versions : \E now \in BOOLEAN : CreateProcessing(v, now)
  BY <1>1 DEF CreateProcessing, AddVersion, VersionStatus
<1>2. CASE DraftCommit
  BY <1>2 DEF DraftCommit, AddVersion, VersionStatus
<1>3. CASE \E v \in Versions : Requeues(v) \/ Rollback(v) \/ GivesUp(v)
  BY <1>3 DEF Requeues, Requeue, Rollback, AddVersion, GivesUp, FailVersion, VersionStatus
<1>4. CASE \E j \in Jobs : Publishes(j) \/ Fails(j)
  <2> PICK j \in Jobs : Publishes(j) \/ Fails(j)
    BY <1>4
  <2>1. versionStatus[j[1]] # "ABSENT"
    BY ConstantsFit DEF KnowledgeInv, LiveIsLast, Live, Publishes, Fails
  <2> QED BY <2>1, ConstantsFit DEF Publishes, PublishVersion, Fails, FailVersion, VersionStatus
<1> QED BY <1>1, <1>2, <1>3, <1>4 DEF LibraryStep, ArchiveDocument, Passes

LEMMA InOrderKept ==
  ASSUME KnowledgeInv, LibraryStep
  PROVE  InOrder'
<1> USE DEF KnowledgeInv, TypeOK, QueueTypeOK, DocTypeOK
<1>1. ASSUME NEW v \in Versions, NEW k \in 0 .. MaxRetries, NEW l \in 0 .. MaxRetries,
             k < l, Inserted(v, l)'
      PROVE  Inserted(v, k)'
  <2>1. CASE UNCHANGED jobStatus
    BY <1>1, <2>1 DEF Inserted, InOrder
  <2>2. CASE \E u \in Versions, now \in BOOLEAN : Enqueue(u, now)
    <3> PICK u \in Versions, now \in BOOLEAN : Enqueue(u, now)
      BY <2>2
    <3> PICK n \in 0 .. MaxRetries :
               /\ \A i \in 0 .. MaxRetries : Inserted(u, i) <=> i < n
               /\ jobStatus' = [jobStatus EXCEPT ![<<u, n>>] = "PENDING"]
      BY EnqueueSeen
    <3>1. Inserted(v, l) => Inserted(v, k)
      BY <1>1 DEF InOrder
    <3> QED BY <1>1, <3>1, ConstantsFit, QueueAssumption DEF Inserted
  <2>3. CASE \E j \in Jobs : Live(j) /\ \E s \in JobStatus : jobStatus' = [jobStatus EXCEPT ![j] = s]
    <3>1. Inserted(v, l) /\ (Inserted(v, k) => Inserted(v, k)')
      BY <1>1, <2>3, ConstantsFit DEF Inserted, Live, JobStatus
    <3> QED BY <1>1, <3>1 DEF InOrder
  <2> QED BY <2>1, <2>2, <2>3, JobsSeen
<1>2. ASSUME NEW u \in Versions, NEW v \in Versions, u < v, (versionStatus[v] # "ABSENT")'
      PROVE  (versionStatus[u] # "ABSENT")'
  <2>1. CASE UNCHANGED versionStatus
    BY <1>2, <2>1 DEF InOrder
  <2>2. CASE ~UNCHANGED versionStatus
    <3> PICK n \in Versions, s \in VersionStatus :
               /\ IsNextVersion(n) \/ versionStatus[n] # "ABSENT"
               /\ versionStatus' = [versionStatus EXCEPT ![n] = s]
      BY <2>2, VersionsSeen
    <3> QED BY <1>2 DEF IsNextVersion, InOrder, VersionStatus
  <2> QED BY <2>1, <2>2
<1> QED BY <1>1, <1>2 DEF InOrder, Inserted
LEMMA OneLive ==
  ASSUME KnowledgeInv, NEW j \in Jobs, Live(j)
  PROVE  /\ \A l \in 0 .. MaxRetries : l # j[2] => ~Live(<<j[1], l>>)
         /\ \A l \in 0 .. MaxRetries : j[2] < l => ~Inserted(j[1], l)
         /\ versionStatus[j[1]] \in {"PROCESSING", "FAILED"}
<1>1. /\ \A l \in 0 .. MaxRetries : j[2] < l => ~Inserted(j[1], l)
      /\ versionStatus[j[1]] \in {"PROCESSING", "FAILED"}
  BY ConstantsFit DEF KnowledgeInv, LiveIsLast
<1>2. ASSUME NEW l \in 0 .. MaxRetries, l # j[2], Live(<<j[1], l>>)
      PROVE  FALSE
  <2>1. Inserted(j[1], l) /\ Inserted(j[1], j[2])
    BY <1>2, ConstantsFit DEF Live, Inserted
  <2>2. ~(l < j[2])
    BY <2>1, <1>2, ConstantsFit DEF KnowledgeInv, LiveIsLast
  <2> QED BY <2>1, <2>2, <1>1, <1>2, ConstantsFit, QueueAssumption
<1> QED BY <1>1, <1>2

LEMMA LiveIsLastKept ==
  ASSUME KnowledgeInv, LibraryStep
  PROVE  LiveIsLast'
<1> USE ConstantsFit DEF KnowledgeInv, TypeOK, QueueTypeOK, DocTypeOK
<1> SUFFICES ASSUME NEW v \in Versions, NEW k \in 0 .. MaxRetries, Live(<<v, k>>)'
             PROVE  /\ \A l \in 0 .. MaxRetries : k < l => ~Inserted(v, l)'
                    /\ (versionStatus[v] \in {"PROCESSING", "FAILED"})'
  BY DEF LiveIsLast
<1>1. CASE UNCHANGED <<jobStatus, versionStatus>>
  BY <1>1 DEF LiveIsLast, Live, Inserted
<1>2. ASSUME NEW u \in Versions, NEW now \in BOOLEAN, Enqueue(u, now),
             versionStatus' = [versionStatus EXCEPT ![u] = "PROCESSING"]
      PROVE  /\ \A l \in 0 .. MaxRetries : k < l => ~Inserted(v, l)'
             /\ (versionStatus[v] \in {"PROCESSING", "FAILED"})'
  <2> PICK n \in 0 .. MaxRetries :
             /\ \A i \in 0 .. MaxRetries : Inserted(u, i) <=> i < n
             /\ \A i \in 0 .. MaxRetries : ~Live(<<u, i>>)
             /\ jobStatus' = [jobStatus EXCEPT ![<<u, n>>] = "PENDING"]
    BY <1>2, EnqueueSeen
  <2>1. CASE u = v
    <3>1. k = n
      BY <2>1 DEF Live
    <3> QED BY <1>2, <2>1, <3>1, QueueAssumption DEF Inserted
  <2>2. CASE u # v
    <3>1. Live(<<v, k>>)
      BY <2>2 DEF Live
    <3> QED BY <1>2, <2>2, <3>1 DEF LiveIsLast, Inserted
  <2> QED BY <2>1, <2>2
<1>3. ASSUME UNCHANGED jobStatus,
             NEW n \in Versions, NEW s \in VersionStatus, AddVersion(n, s)
      PROVE  /\ \A l \in 0 .. MaxRetries : k < l => ~Inserted(v, l)'
             /\ (versionStatus[v] \in {"PROCESSING", "FAILED"})'
  BY <1>3 DEF AddVersion, IsNextVersion, LiveIsLast, Live, Inserted
<1>4. CASE \E u \in Versions : GivesUp(u)
  BY <1>4 DEF GivesUp, FailVersion, OwnJob, LiveIsLast, Live, Inserted
<1>5. CASE \E j \in Jobs : Passes(j)
  BY <1>5 DEF Passes, LiveIsLast, Live, Inserted
<1>6. CASE \E j \in Jobs : Publishes(j)
  <2> PICK j \in Jobs : Publishes(j)
    BY <1>6
  <2>1. Live(<<v, k>>) /\ <<v, k>> # j
    BY DEF Publishes, Live
  <2>2. v # j[1]
    BY <2>1, OneLive DEF Publishes, Live
  <2> QED BY <2>1, <2>2 DEF Publishes, PublishVersion, LiveIsLast, Inserted
<1>7. CASE \E j \in Jobs : Fails(j)
  BY <1>7 DEF Fails, FailVersion, LiveIsLast, Live, Inserted
<1>8. CASE DraftCommit
  BY <1>8, <1>3 DEF DraftCommit, VersionStatus
<1>9. CASE \E u \in Versions : Rollback(u)
  BY <1>9, <1>3 DEF Rollback, VersionStatus
<1>10. CASE \E u \in Versions : \E now \in BOOLEAN : CreateProcessing(u, now)
  <2> PICK u \in Versions, now \in BOOLEAN : CreateProcessing(u, now)
    BY <1>10
  <2> QED BY <1>2 DEF CreateProcessing, AddVersion
<1>11. CASE \E u \in Versions : Requeues(u)
  BY <1>11, <1>2 DEF Requeues, Requeue
<1>12. CASE ArchiveDocument
  BY <1>12, <1>1 DEF ArchiveDocument
<1> QED BY <1>1, <1>4, <1>5, <1>6, <1>7, <1>8, <1>9, <1>10, <1>11, <1>12 DEF LibraryStep
LEMMA PublishedKept ==
  ASSUME KnowledgeInv, LibraryStep
  PROVE  PublishedIsReadable'
<1> USE ConstantsFit DEF KnowledgeInv, TypeOK, DocTypeOK, PublishedIsReadable
<1>1. CASE UNCHANGED <<textVars, versionStatus, chunks, jobStatus>>
  BY <1>1
<1>2. CASE \E v \in Versions : \E now \in BOOLEAN : CreateProcessing(v, now)
  BY <1>2 DEF CreateProcessing, AddVersion, IsNextVersion
<1>3. CASE DraftCommit
  BY <1>3 DEF DraftCommit, AddVersion, IsNextVersion
<1>4. CASE \E v \in Versions : Requeues(v)
  BY <1>4 DEF Requeues, Requeue
<1>5. CASE \E v \in Versions : Rollback(v)
  BY <1>5 DEF Rollback, AddVersion, Restorable
<1>6. CASE \E v \in Versions : GivesUp(v)
  BY <1>6 DEF GivesUp, FailVersion, FailDocument
<1>7. CASE ArchiveDocument
  BY <1>7 DEF ArchiveDocument
<1>8. ASSUME NEW j \in Jobs, Publishes(j)
      PROVE  PublishedIsReadable'
  <2>1. j[1] # current
    BY <1>8, OneLive DEF Publishes, Live
  <2> QED BY <1>8, <2>1 DEF Publishes, PublishVersion, shouldPromoteKnowledgeVersion
<1>9. ASSUME NEW j \in Jobs, Fails(j)
      PROVE  PublishedIsReadable'
  <2>1. j[1] # current
    BY <1>9, OneLive DEF Fails, Live
  <2> QED BY <1>9, <2>1 DEF Fails, FailVersion, FailDocument
<1>10. CASE \E j \in Jobs : Passes(j)
  BY <1>10 DEF Passes
<1> QED BY <1>1, <1>2, <1>3, <1>4, <1>5, <1>6, <1>7, <1>8, <1>9, <1>10 DEF LibraryStep

LEMMA HasJobKept ==
  ASSUME KnowledgeInv, LibraryStep
  PROVE  ProcessingHasJob'
<1> USE ConstantsFit DEF KnowledgeInv, TypeOK, QueueTypeOK, DocTypeOK
<1> SUFFICES ASSUME NEW v \in Versions, (versionStatus[v] = "PROCESSING")'
             PROVE  \E k \in 0 .. MaxRetries : Live(<<v, k>>)'
  BY DEF ProcessingHasJob
<1>1. CASE UNCHANGED <<versionStatus, jobStatus>>
  BY <1>1 DEF ProcessingHasJob, Live
<1>2. ASSUME NEW u \in Versions, NEW now \in BOOLEAN, Enqueue(u, now),
             versionStatus' = [versionStatus EXCEPT ![u] = "PROCESSING"]
      PROVE  \E k \in 0 .. MaxRetries : Live(<<v, k>>)'
  <2> PICK n \in 0 .. MaxRetries : jobStatus' = [jobStatus EXCEPT ![<<u, n>>] = "PENDING"]
    BY <1>2 DEF Enqueue
  <2>1. CASE u = v
    BY <2>1 DEF Live
  <2>2. CASE u # v
    BY <1>2, <2>2 DEF ProcessingHasJob, Live
  <2> QED BY <2>1, <2>2
<1>3. CASE DraftCommit \/ \E u \in Versions : Rollback(u)
  BY <1>3 DEF DraftCommit, Rollback, AddVersion, ProcessingHasJob, Live
<1>4. ASSUME NEW u \in Versions, GivesUp(u)
      PROVE  \E k \in 0 .. MaxRetries : Live(<<v, k>>)'
  <2>1. u # v /\ versionStatus[v] = "PROCESSING"
    BY <1>4 DEF GivesUp, FailVersion
  <2> QED BY <1>4, <2>1 DEF GivesUp, OwnJob, ProcessingHasJob, Live
<1>5. ASSUME NEW j \in Jobs, Passes(j)
      PROVE  \E k \in 0 .. MaxRetries : Live(<<v, k>>)'
  BY <1>5 DEF Passes, ProcessingHasJob, Live
<1>6. ASSUME NEW j \in Jobs, Publishes(j) \/ Fails(j)
      PROVE  \E k \in 0 .. MaxRetries : Live(<<v, k>>)'
  <2>1. j[1] # v /\ versionStatus[v] = "PROCESSING"
    BY <1>6 DEF Publishes, PublishVersion, Fails, FailVersion
  <2>2. \A l \in 0 .. MaxRetries : jobStatus'[<<v, l>>] = jobStatus[<<v, l>>]
    BY <1>6, <2>1 DEF Publishes, Fails
  <2> QED BY <2>1, <2>2 DEF ProcessingHasJob, Live
<1>7. CASE \E u \in Versions : \E now \in BOOLEAN : CreateProcessing(u, now)
  <2> PICK u \in Versions, now \in BOOLEAN : CreateProcessing(u, now)
    BY <1>7
  <2> QED BY <1>2 DEF CreateProcessing, AddVersion
<1>8. CASE \E u \in Versions : Requeues(u)
  BY <1>8, <1>2 DEF Requeues, Requeue
<1>9. CASE ArchiveDocument
  BY <1>9, <1>1 DEF ArchiveDocument
<1> QED BY <1>1, <1>3, <1>4, <1>5, <1>6, <1>7, <1>8, <1>9 DEF LibraryStep

LEMMA ProcessingKept ==
  ASSUME KnowledgeInv, LibraryStep
  PROVE  ProcessingIsTrue'
<1> USE ConstantsFit DEF KnowledgeInv, TypeOK, DocTypeOK, ProcessingIsTrue
<1>1. docStatus = "PROCESSING" => current = NoVersion
  BY DEF PublishedIsReadable
<1>2. CASE UNCHANGED <<textVars, versionStatus, chunks, jobStatus>>
  BY <1>2
<1>3. CASE \E v \in Versions : \E now \in BOOLEAN : CreateProcessing(v, now)
  BY <1>3 DEF CreateProcessing, AddVersion
<1>4. CASE DraftCommit
  BY <1>4 DEF DraftCommit, AddVersion, IsNextVersion
<1>5. CASE \E v \in Versions : Requeues(v)
  BY <1>5 DEF Requeues, Requeue
<1>6. CASE \E v \in Versions : Rollback(v)
  BY <1>6 DEF Rollback
<1>7. CASE \E v \in Versions : GivesUp(v)
  BY <1>1, <1>7 DEF GivesUp, FailDocument, Read
<1>8. CASE \E j \in Jobs : Fails(j)
  BY <1>1, <1>8 DEF Fails, FailDocument, Read
<1>9. CASE \E j \in Jobs : Publishes(j)
  BY <1>1, <1>9 DEF Publishes, PublishVersion, shouldPromoteKnowledgeVersion
<1>10. CASE ArchiveDocument \/ \E j \in Jobs : Passes(j)
  BY <1>10 DEF ArchiveDocument, Passes
<1> QED BY <1>2, <1>3, <1>4, <1>5, <1>6, <1>7, <1>8, <1>9, <1>10 DEF LibraryStep
-----------------------------------------------------------------------------
(* Types.                                                                  *)

LEMMA EnqueueTyped ==
  ASSUME KnowledgeInv, NEW v \in Versions, NEW now \in BOOLEAN, Enqueue(v, now)
  PROVE  QueueTypeOK'
<1> USE ConstantsFit DEF KnowledgeInv, TypeOK, QueueTypeOK, JobStatus
<1> PICK k \in 0 .. MaxRetries :
           /\ IsNextJob(<<v, k>>)
           /\ jobStatus' = [jobStatus EXCEPT ![<<v, k>>] = "PENDING"]
           /\ due' = [due EXCEPT ![<<v, k>>] = now]
           /\ UNCHANGED <<claimedBy, leaseLive, attempts>>
  BY DEF Enqueue
<1>1. claimedBy[<<v, k>>] = NoWorker
  BY DEF IsNextJob
<1> QED BY <1>1

LEMMA UnclaimTyped ==
  ASSUME KnowledgeInv, NEW j \in Jobs, NEW s \in JobStatus \ {"RUNNING"},
         Unclaim(j, s), UNCHANGED attempts,
         due' \in [Jobs -> BOOLEAN]
  PROVE  QueueTypeOK'
BY ConstantsFit DEF KnowledgeInv, TypeOK, QueueTypeOK, JobStatus, Unclaim

LEMMA ClaimTyped ==
  ASSUME KnowledgeInv, NEW w \in Workers, NEW j \in Jobs, Claim(w, j)
  PROVE  QueueTypeOK'
<1> USE ConstantsFit DEF KnowledgeInv, TypeOK, QueueTypeOK, JobStatus
<1>1. NextAttempt(j) \in 0 .. MaxAttempts + 1
  BY QueueAssumption DEF NextAttempt
<1> QED BY <1>1 DEF Claim

LEMMA QueueTyped ==
  ASSUME KnowledgeInv, [Next]_vars
  PROVE  QueueTypeOK'
<1> USE ConstantsFit DEF KnowledgeInv, TypeOK
<1>1. CASE UNCHANGED queueVars
  BY <1>1 DEF QueueTypeOK
<1>2. CASE AdminStep
  <2>1. CASE \E v \in Versions, now \in BOOLEAN : Enqueue(v, now)
    BY <2>1, EnqueueTyped
  <2>2. UNCHANGED queueVars \/ \E v \in Versions, now \in BOOLEAN : Enqueue(v, now)
    BY <1>2 DEF AdminStep, CreateDocument, UpdateCheck, UpdateCreate, CreateProcessing, DraftCommit,
                Retry, PublishDraft, Requeue, Rollback, ArchiveDocument, MoveBase
  <2> QED BY <1>1, <2>1, <2>2
<1>3. ASSUME NEW w \in Workers, WorkerStep(w)
      PROVE  QueueTypeOK'
  <2>1. CASE \E j \in Jobs : ClaimJob(w, j)
    BY <2>1, ClaimTyped DEF ClaimJob
  <2>2. CASE PublishCommit(w) \/ FailCommit(w)
    <3>1. job[w] \in Jobs
      BY <2>2, InsideTransaction DEF PublishCommit, FailCommit
    <3>2. due' \in [Jobs -> BOOLEAN]
      BY <2>2 DEF PublishCommit, FailCommit, QueueTypeOK
    <3> QED BY <2>2, <3>1, <3>2, UnclaimTyped DEF PublishCommit, FailCommit, JobStatus
  <2>3. CASE ReleaseJob(w)
    <3>1. job[w] \in Jobs
      BY <2>3 DEF ReleaseJob, ClaimsHeld
    <3>2. CASE Owns(w)
      <4>1. due' \in [Jobs -> BOOLEAN]
        BY <2>3, <3>1, <3>2 DEF ReleaseJob, releaseForRetry, Owns, QueueTypeOK
      <4> QED BY <2>3, <3>1, <3>2, <4>1, UnclaimTyped DEF ReleaseJob, releaseForRetry, Owns, JobStatus
    <3>3. CASE ~Owns(w)
      BY <1>1, <2>3, <3>3 DEF ReleaseJob, releaseForRetry, Owns
    <3> QED BY <3>2, <3>3
  <2>4. CASE \/ ReadVersion(w) \/ ReadObject(w) \/ RestoreLedger(w) \/ Process(w)
             \/ Trouble(w) \/ PublishLock(w) \/ FailLock(w) \/ Crash(w)
    BY <1>1, <2>4 DEF ReadVersion, ReadObject, RestoreLedger, Process, Trouble, PublishLock, FailLock, Crash
  <2> QED BY <1>3, <2>1, <2>2, <2>3, <2>4 DEF WorkerStep
<1>4. ASSUME NEW v \in Versions, UploadStep(v)
      PROVE  QueueTypeOK'
  <2>1. CASE StartUpload(v)
    BY <2>1, EnqueueTyped DEF StartUpload, CreateProcessing
  <2>2. CASE LinkUpload(v)
    BY <2>2 DEF LinkUpload, OwnJob, QueueTypeOK
  <2>3. CASE UploadFailCommit(v)
    <3>1. holdsJob => jobStatus[OwnJob(v)] = "PENDING"
      BY <2>3 DEF UploadFailCommit, LocksAgree, ClaimsHeld
    <3> QED BY <2>3, <3>1 DEF UploadFailCommit, OwnJob, QueueTypeOK, JobStatus
  <2>4. CASE PutReturns(v) \/ PutThrows(v) \/ UploadFailLock(v) \/ UploadCrash(v)
    BY <1>1, <2>4 DEF PutReturns, PutThrows, UploadFailLock, UploadCrash
  <2> QED BY <1>4, <2>1, <2>2, <2>3, <2>4 DEF UploadStep
<1>5. CASE \E j \in Jobs : DueComes(j) \/ LeaseEnds(j)
  BY <1>5 DEF DueComes, BecomesDue, LeaseEnds, LeaseExpires, QueueTypeOK
<1> QED BY <1>1, <1>2, <1>3, <1>4, <1>5 DEF Next, vars

\* The columns of the document and its versions.
LibraryTypeOK ==
  /\ docStatus \in DocStatus \cup {"NONE"}
  /\ current \in Versions \cup {NoVersion}
  /\ docVersion \in Versions
  /\ docText \in Versions \cup {NoVersion}
  /\ versionStatus \in [Versions -> VersionStatus \cup {"ABSENT"}]
  /\ chunks \in [Versions -> Versions \cup {NoVersion}]

LEMMA LibraryTyped ==
  ASSUME KnowledgeInv, LibraryStep
  PROVE  LibraryTypeOK'
<1> USE ConstantsFit DEF KnowledgeInv, TypeOK, DocTypeOK, LibraryTypeOK, DocStatus, VersionStatus
<1>1. CASE UNCHANGED <<textVars, versionStatus, chunks>>
  BY <1>1
<1>2. CASE \E v \in Versions : \E now \in BOOLEAN : CreateProcessing(v, now)
  BY <1>2 DEF CreateProcessing, AddVersion
<1>3. CASE DraftCommit
  BY <1>3 DEF DraftCommit, AddVersion
<1>4. CASE \E v \in Versions : Requeues(v)
  BY <1>4 DEF Requeues, Requeue
<1>5. CASE \E v \in Versions : Rollback(v)
  BY <1>5 DEF Rollback, AddVersion
<1>6. CASE \E v \in Versions : GivesUp(v)
  BY <1>6 DEF GivesUp, FailVersion, FailDocument
<1>7. CASE ArchiveDocument
  BY <1>7 DEF ArchiveDocument
<1>8. CASE \E j \in Jobs : Publishes(j)
  BY <1>8 DEF Publishes, PublishVersion
<1>9. CASE \E j \in Jobs : Fails(j)
  BY <1>9 DEF Fails, FailVersion, FailDocument
<1>10. CASE \E j \in Jobs : Passes(j)
  BY <1>1, <1>10 DEF Passes
<1> QED BY <1>1, <1>2, <1>3, <1>4, <1>5, <1>6, <1>7, <1>8, <1>9, <1>10 DEF LibraryStep
\* The other columns, and who is inside a transaction.
LockTypeOK ==
  /\ linked \in [Versions -> BOOLEAN]
  /\ baseOpen \in BOOLEAN
  /\ edits \in SUBSET Versions
  /\ docLock \in Holders \cup {Unlocked}
  /\ seen \in DocStatus \cup {"NONE"}

LEMMA LockTyped ==
  ASSUME KnowledgeInv, [Next]_vars
  PROVE  LockTypeOK'
<1> USE DEF KnowledgeInv, TypeOK, DocTypeOK, LockTypeOK, Holders, LockAndRead, Unlock
<1>1. CASE UNCHANGED <<linked, baseOpen, edits, docLock, seen>>
  BY <1>1
<1>2. CASE AdminStep
  BY <1>2 DEF AdminStep, CreateDocument, UpdateCheck, UpdateCreate, CreateProcessing, DraftLock, DraftCommit,
              Retry, PublishDraft, Requeue, Rollback, ArchiveDocument, MoveBase
<1>3. ASSUME NEW w \in Workers, WorkerStep(w)
      PROVE  LockTypeOK'
  <2>1. CASE RestoreLedger(w)
    BY <2>1 DEF RestoreLedger, LinkObject
  <2>2. CASE Trouble(w) \/ Crash(w) \/ PublishLock(w) \/ FailLock(w)
    BY <2>2 DEF Trouble, Crash, PublishLock, FailLock
  <2>3. CASE PublishCommit(w) \/ FailCommit(w)
    BY <2>3 DEF PublishCommit, PublishVersion, FailCommit, FailDocument
  <2>4. CASE \/ ReadVersion(w) \/ ReadObject(w) \/ Process(w) \/ ReleaseJob(w)
             \/ \E j \in Jobs : ClaimJob(w, j)
    BY <1>1, <2>4 DEF ReadVersion, ReadObject, Process, ReleaseJob, ClaimJob
  <2> QED BY <1>3, <2>1, <2>2, <2>3, <2>4 DEF WorkerStep
<1>4. ASSUME NEW v \in Versions, UploadStep(v)
      PROVE  LockTypeOK'
  <2>1. CASE StartUpload(v) \/ PutReturns(v) \/ PutThrows(v)
    BY <1>1, <2>1 DEF StartUpload, CreateProcessing, PutReturns, PutThrows
  <2>2. CASE LinkUpload(v)
    BY <2>2 DEF LinkUpload, LinkObject
  <2>3. CASE UploadFailLock(v) \/ UploadFailCommit(v) \/ UploadCrash(v)
    BY <2>3 DEF UploadFailLock, UploadFailCommit, FailDocument, UploadCrash
  <2> QED BY <1>4, <2>1, <2>2, <2>3 DEF UploadStep
<1>5. CASE \E j \in Jobs : DueComes(j) \/ LeaseEnds(j)
  BY <1>1, <1>5 DEF DueComes, LeaseEnds
<1> QED BY <1>1, <1>2, <1>3, <1>4, <1>5 DEF Next, vars

LEMMA WorkerTyped ==
  ASSUME KnowledgeInv, [Next]_vars
  PROVE  WorkerTypeOK'
<1> USE WorkerAssumption DEF KnowledgeInv, TypeOK, WorkerTypeOK, Places, AfterFailure, Goto, Leave
<1>1. CASE UNCHANGED workerVars
  BY <1>1
<1>2. ASSUME NEW w \in Workers, WorkerStep(w)
      PROVE  WorkerTypeOK'
  <2>1. CASE \E j \in Jobs : ClaimJob(w, j)
    BY <2>1 DEF ClaimJob
  <2>2. CASE ReadVersion(w) \/ ReadObject(w) \/ RestoreLedger(w) \/ Process(w)
    BY <2>2 DEF ReadVersion, ReadObject, RestoreLedger, Process
  <2>3. CASE Trouble(w) \/ PublishLock(w) \/ FailLock(w)
    BY <2>3 DEF Trouble, PublishLock, FailLock
  <2>4. CASE PublishCommit(w) \/ FailCommit(w) \/ ReleaseJob(w)
    BY <2>4 DEF PublishCommit, FailCommit, ReleaseJob
  <2>5. CASE Crash(w)
    BY <2>5 DEF Crash
  <2> QED BY <1>2, <2>1, <2>2, <2>3, <2>4, <2>5 DEF WorkerStep
<1>3. ASSUME NEW v \in Versions, UploadStep(v)
      PROVE  WorkerTypeOK'
  <2>1. CASE PutReturns(v) \/ PutThrows(v)
    BY <2>1 DEF PutReturns, PutThrows
  <2>2. CASE UploadCrash(v)
    BY <2>2 DEF UploadCrash
  <2>3. CASE StartUpload(v) \/ LinkUpload(v) \/ UploadFailLock(v) \/ UploadFailCommit(v)
    BY <1>1, <2>3 DEF StartUpload, LinkUpload, UploadFailLock, UploadFailCommit
  <2> QED BY <1>3, <2>1, <2>2, <2>3 DEF UploadStep
<1>4. CASE \E j \in Jobs : DueComes(j) \/ LeaseEnds(j)
  BY <1>1, <1>4 DEF DueComes, LeaseEnds
<1> QED BY <1>1, <1>2, <1>3, <1>4 DEF Next, vars

LEMMA UploadTyped ==
  ASSUME KnowledgeInv, [Next]_vars
  PROVE  UploadTypeOK'
<1> USE DEF KnowledgeInv, TypeOK, UploadTypeOK, UploadPlaces, UploadGoto
<1>1. CASE UNCHANGED uploadVars
  BY <1>1
<1>2. ASSUME NEW v \in Versions, UploadStep(v)
      PROVE  UploadTypeOK'
  BY <1>2 DEF UploadStep, StartUpload, PutReturns, PutThrows, LinkUpload, UploadFailLock, UploadFailCommit,
              UploadCrash
<1> QED BY <1>1, <1>2 DEF Next, vars

LEMMA TypesKept ==
  ASSUME KnowledgeInv, [Next]_vars
  PROVE  TypeOK'
<1>1. DocTypeOK'
  BY StepSeen, LibraryTyped, LockTyped DEF LibraryTypeOK, LockTypeOK, DocTypeOK
<1> QED BY <1>1, QueueTyped, WorkerTyped, UploadTyped DEF TypeOK

-----------------------------------------------------------------------------
(* The lock of the document and the claims of the jobs.                    *)

LEMMA LocksKept ==
  ASSUME KnowledgeInv, [Next]_vars
  PROVE  LocksAgree'
<1> USE HoldersDiffer DEF KnowledgeInv, LocksAgree, LockAndRead, Unlock, HoldsLock, Free
<1> USE DEF TypeOK, WorkerTypeOK, UploadTypeOK
<1>1. CASE UNCHANGED <<pc, upload, docLock, seen, docStatus>>
  BY <1>1
<1>2. CASE AdminStep /\ UNCHANGED <<workerVars, uploadVars>>
  BY <1>2 DEF AdminStep, CreateDocument, UpdateCheck, UpdateCreate, CreateProcessing, DraftLock, DraftCommit,
              Retry, PublishDraft, Requeue, Rollback, ArchiveDocument, MoveBase
<1>3. ASSUME NEW w \in Workers, WorkerStep(w), UNCHANGED uploadVars
      PROVE  LocksAgree'
  <2> USE <1>3 DEF Goto, Leave, AfterFailure
  <2>1. CASE \/ ReadVersion(w) \/ ReadObject(w) \/ RestoreLedger(w) \/ Process(w) \/ ReleaseJob(w)
             \/ \E j \in Jobs : ClaimJob(w, j)
    BY <2>1 DEF ReadVersion, ReadObject, RestoreLedger, Process, ReleaseJob, ClaimJob
  <2>2. CASE Trouble(w) \/ Crash(w)
    BY <2>2 DEF Trouble, Crash
  <2>3. CASE PublishLock(w) \/ FailLock(w)
    BY <2>3 DEF PublishLock, FailLock
  <2>4. CASE PublishCommit(w) \/ FailCommit(w)
    BY <2>4 DEF PublishCommit, FailCommit
  <2> QED BY <2>1, <2>2, <2>3, <2>4 DEF WorkerStep
<1>4. ASSUME NEW v \in Versions, UploadStep(v)
      PROVE  LocksAgree'
  <2> USE <1>4 DEF UploadGoto
  <2>1. CASE StartUpload(v)
    BY <2>1 DEF StartUpload, CreateProcessing
  <2>2. CASE PutReturns(v) \/ PutThrows(v) \/ LinkUpload(v)
    BY <2>2 DEF PutReturns, PutThrows, LinkUpload
  <2>3. CASE UploadFailLock(v)
    BY <2>3 DEF UploadFailLock
  <2>4. CASE UploadFailCommit(v) \/ UploadCrash(v)
    BY <2>4 DEF UploadFailCommit, UploadCrash
  <2> QED BY <2>1, <2>2, <2>3, <2>4 DEF UploadStep
<1>5. CASE \E j \in Jobs : (DueComes(j) \/ LeaseEnds(j)) /\ UNCHANGED uploadVars
  BY <1>1, <1>5 DEF DueComes, LeaseEnds
<1> QED BY <1>1, <1>2, <1>3, <1>4, <1>5 DEF Next, vars
\* A worker outside its transactions leaves the others and their claims alone.
LEMMA ClaimsStay ==
  ASSUME KnowledgeInv, NEW w \in Workers, UNCHANGED holdsJob,
         docLock' = docLock \/ (docLock = ByWorker(w) /\ docLock' = Unlocked),
         docLock' # ByWorker(w),
         \A x \in Workers : x # w => job'[x] = job[x] /\ pc'[x] = pc[x],
         pc'[w] # "idle" => job'[w] \in Jobs,
         \A j \in Jobs : jobStatus[j] = "PENDING" => jobStatus'[j] = "PENDING",
         \A j \in Jobs : jobStatus[j] = "RUNNING" /\ claimedBy[j] # w =>
            jobStatus'[j] = "RUNNING" /\ claimedBy'[j] = claimedBy[j]
  PROVE  ClaimsHeld'
<1> USE HoldersDiffer DEF KnowledgeInv
<1>1. ASSUME NEW x \in Workers, pc'[x] # "idle"
      PROVE  job'[x] \in Jobs
  BY <1>1 DEF ClaimsHeld
<1>2. ASSUME NEW x \in Workers, docLock' = ByWorker(x)
      PROVE  jobStatus'[job'[x]] = "RUNNING" /\ claimedBy'[job'[x]] = x
  <2>1. x # w /\ docLock = ByWorker(x)
    BY <1>2
  <2>2. pc[x] # "idle"
    BY <2>1 DEF LocksAgree
  <2>3. job[x] \in Jobs /\ jobStatus[job[x]] = "RUNNING" /\ claimedBy[job[x]] = x
    BY <2>1, <2>2 DEF ClaimsHeld
  <2> QED BY <2>1, <2>3
<1>3. holdsJob' => docLock' = docLock
  BY DEF ClaimsHeld
<1>4. ASSUME NEW v \in Versions, holdsJob', docLock' = ByUpload(v)
      PROVE  jobStatus'[OwnJob(v)] = "PENDING"
  BY <1>3, <1>4, ConstantsFit DEF ClaimsHeld, OwnJob
<1>5. holdsJob' => \E v \in Versions : docLock' = ByUpload(v)
  BY <1>3 DEF ClaimsHeld
<1> QED BY <1>1, <1>2, <1>4, <1>5 DEF ClaimsHeld, OwnJob

LEMMA ClaimsKept ==
  ASSUME KnowledgeInv, [Next]_vars
  PROVE  ClaimsHeld'
<1> USE HoldersDiffer, ConstantsFit
    DEF KnowledgeInv, ClaimsHeld, LocksAgree, LockAndRead, Unlock, HoldsLock, Free
<1> USE DEF TypeOK, WorkerTypeOK, QueueTypeOK
<1>1. CASE UNCHANGED <<pc, job, docLock, holdsJob, jobStatus, claimedBy>>
  BY <1>1 DEF OwnJob
<1>2. CASE AdminStep /\ UNCHANGED <<workerVars, uploadVars>>
  <2>1. CASE Free
    <3>1. docLock' \in {Unlocked, Drafting} /\ ~holdsJob'
      BY <1>2, <2>1 DEF AdminStep, CreateDocument, UpdateCheck, UpdateCreate, CreateProcessing, DraftLock,
           DraftCommit, Retry, PublishDraft, Requeue, Rollback, ArchiveDocument, MoveBase
    <3> QED BY <1>2, <3>1
  <2>2. CASE ~Free
    <3>1. \/ UNCHANGED <<docLock, jobStatus, claimedBy>>
          \/ docLock = Drafting /\ docLock' = Unlocked
      BY <1>2, <2>2 DEF AdminStep, CreateDocument, UpdateCheck, UpdateCreate, CreateProcessing, DraftLock,
           DraftCommit, Retry, PublishDraft, Requeue, Rollback, ArchiveDocument, MoveBase
    <3> QED BY <1>1, <1>2, <3>1
  <2> QED BY <2>1, <2>2
<1>3. ASSUME NEW w \in Workers, WorkerStep(w), UNCHANGED uploadVars
      PROVE  ClaimsHeld'
  <2> USE <1>3 DEF Goto, Leave, AfterFailure
  <2>1. CASE \E j \in Jobs : ~JobHeld(j) /\ ClaimJob(w, j)
    <3> PICK j \in Jobs : ~JobHeld(j) /\ ClaimJob(w, j)
      BY <2>1
    <3>1. /\ \A x \in Workers : docLock = ByWorker(x) => x # w /\ job[x] # j
          /\ \A v \in Versions : holdsJob /\ docLock = ByUpload(v) => OwnJob(v) # j
      BY DEF ClaimJob, RowLocked, JobHeld
    <3> QED BY <3>1 DEF ClaimJob, Claim, OwnJob
  <2>2. CASE ReadVersion(w) \/ ReadObject(w) \/ RestoreLedger(w) \/ Process(w) \/ Trouble(w) \/ Crash(w)
    <3>1. /\ UNCHANGED <<holdsJob, jobStatus, claimedBy>>
          /\ pc[w] # "idle"
          /\ docLock' = docLock \/ (docLock = ByWorker(w) /\ docLock' = Unlocked)
          /\ docLock' # ByWorker(w)
      BY <2>2 DEF ReadVersion, ReadObject, RestoreLedger, Process, Trouble, Crash
    <3>2. /\ \A x \in Workers : x # w => job'[x] = job[x] /\ pc'[x] = pc[x]
          /\ pc'[w] # "idle" => job'[w] = job[w]
      BY <2>2 DEF ReadVersion, ReadObject, RestoreLedger, Process, Trouble, Crash
    <3> QED BY <3>1, <3>2, ClaimsStay
  <2>3. CASE PublishLock(w) \/ FailLock(w)
    BY <2>3 DEF PublishLock, FailLock, MayPublish, Owns, OwnsClaim
  <2>4. CASE PublishCommit(w) \/ FailCommit(w)
    BY <2>4 DEF PublishCommit, FailCommit
  <2>5. CASE ReleaseJob(w)
    <3>1. /\ UNCHANGED <<holdsJob, docLock>> /\ docLock # ByWorker(w)
          /\ pc'[w] = "idle"
          /\ \A x \in Workers : x # w => job'[x] = job[x] /\ pc'[x] = pc[x]
      BY <2>5 DEF ReleaseJob
    <3>2. CASE Owns(w)
      <4>1. jobStatus[job[w]] = "RUNNING" /\ claimedBy[job[w]] = w
        BY <3>2 DEF Owns, OwnsClaim
      <4>2. \A j \in Jobs : j # job[w] => jobStatus'[j] = jobStatus[j] /\ claimedBy'[j] = claimedBy[j]
        BY <2>5, <3>2 DEF ReleaseJob, releaseForRetry, Owns, Unclaim
      <4>3. /\ \A j \in Jobs : jobStatus[j] = "PENDING" => jobStatus'[j] = "PENDING"
            /\ \A j \in Jobs : jobStatus[j] = "RUNNING" /\ claimedBy[j] # w =>
                 jobStatus'[j] = "RUNNING" /\ claimedBy'[j] = claimedBy[j]
        BY <4>1, <4>2
      <4> QED BY <3>1, <4>3, ClaimsStay
    <3>3. CASE ~Owns(w)
      <4>1. UNCHANGED <<jobStatus, claimedBy>>
        BY <2>5, <3>3 DEF ReleaseJob, releaseForRetry, Owns
      <4> QED BY <3>1, <4>1, ClaimsStay
    <3> QED BY <3>2, <3>3
  <2> QED BY <2>1, <2>2, <2>3, <2>4, <2>5 DEF WorkerStep
<1>4. ASSUME NEW v \in Versions, UploadStep(v)
      PROVE  ClaimsHeld'
  <2> USE <1>4
  <2>1. CASE StartUpload(v)
    BY <2>1 DEF StartUpload, CreateProcessing
  <2>2. CASE PutReturns(v) \/ PutThrows(v) \/ LinkUpload(v)
    BY <1>1, <2>2 DEF PutReturns, PutThrows, LinkUpload
  <2>3. CASE UploadFailLock(v)
    BY <2>3 DEF UploadFailLock
  <2>4. CASE UploadFailCommit(v) \/ UploadCrash(v)
    BY <2>4 DEF UploadFailCommit, UploadCrash
  <2> QED BY <2>1, <2>2, <2>3, <2>4 DEF UploadStep
<1>5. CASE \E j \in Jobs : (DueComes(j) \/ LeaseEnds(j)) /\ UNCHANGED uploadVars
  BY <1>1, <1>5 DEF DueComes, BecomesDue, LeaseEnds, LeaseExpires
<1> QED BY <1>1, <1>2, <1>3, <1>4, <1>5 DEF Next, vars
-----------------------------------------------------------------------------
(* The theorems.                                                           *)

LEMMA InvKept ==
  ASSUME KnowledgeInv, [Next]_vars
  PROVE  KnowledgeInv'
BY StepSeen, TypesKept, LocksKept, ClaimsKept, InOrderKept, LiveIsLastKept,
   PublishedKept, HasJobKept, ProcessingKept DEF KnowledgeInv

\* The inductive invariant holds in every reachable state.
THEOREM KnowledgeInvariant == Spec => []KnowledgeInv
BY InitHolds, InvKept, PTL DEF Spec

\* Every column and every handler keeps its type, the claim columns of a job being
\* set exactly while it is RUNNING.
THEOREM KnowledgeTypes == Spec => []TypeOK
<1>1. KnowledgeInv => TypeOK
  BY DEF KnowledgeInv
<1> QED BY <1>1, KnowledgeInvariant, PTL

\* Readers are only ever given a finished, indexed version that agrees with the
\* document's own number and text.
THEOREM ReadersAreServed == Spec => []PublishedIsReadable
<1>1. KnowledgeInv => PublishedIsReadable
  BY DEF KnowledgeInv
<1> QED BY <1>1, KnowledgeInvariant, PTL

\* A version shown as PROCESSING always has a job that will be picked up.
THEOREM NothingIsForgotten == Spec => []ProcessingHasJob
<1>1. KnowledgeInv => ProcessingHasJob
  BY DEF KnowledgeInv
<1> QED BY <1>1, KnowledgeInvariant, PTL

\* A document shown as PROCESSING has a version that is being processed.
THEOREM ProcessingIsMeant == Spec => []ProcessingIsTrue
<1>1. KnowledgeInv => ProcessingIsTrue
  BY DEF KnowledgeInv
<1> QED BY <1>1, KnowledgeInvariant, PTL

LEMMA ReadyStays ==
  ASSUME KnowledgeInv, LibraryStep, NEW v \in Versions, versionStatus[v] = "READY"
  PROVE  versionStatus'[v] = "READY" /\ chunks'[v] = chunks[v]
<1> USE DEF KnowledgeInv, TypeOK, DocTypeOK
<1>1. CASE UNCHANGED <<versionStatus, chunks>>
  BY <1>1
<1>2. CASE \E u \in Versions : \E now \in BOOLEAN : CreateProcessing(u, now)
  BY <1>2 DEF CreateProcessing, AddVersion, IsNextVersion
<1>3. CASE DraftCommit
  BY <1>3 DEF DraftCommit, AddVersion, IsNextVersion
<1>4. CASE \E u \in Versions : Requeues(u)
  BY <1>4 DEF Requeues, Requeue
<1>5. CASE \E u \in Versions : Rollback(u)
  BY <1>5 DEF Rollback, AddVersion, IsNextVersion
<1>6. CASE \E u \in Versions : GivesUp(u)
  BY <1>6 DEF GivesUp, FailVersion, FailDocument
<1>7. ASSUME NEW j \in Jobs, Publishes(j) \/ Fails(j)
      PROVE  versionStatus'[v] = "READY" /\ chunks'[v] = chunks[v]
  <2>1. j[1] # v
    BY <1>7, OneLive DEF Publishes, Fails, Live
  <2> QED BY <1>7, <2>1 DEF Publishes, PublishVersion, Fails, FailVersion, FailDocument
<1>8. CASE ArchiveDocument \/ \E j \in Jobs : Passes(j)
  BY <1>8 DEF ArchiveDocument, Passes
<1> QED BY <1>1, <1>2, <1>3, <1>4, <1>5, <1>6, <1>7, <1>8 DEF LibraryStep

\* A finished version is never failed, reprocessed or rewritten, also not by a
\* worker whose lease has long passed to another.
THEOREM FinishedIsFinal == Spec => ReadyIsForever
<1>1. KnowledgeInv /\ [Next]_vars =>
        [\A v \in Versions : versionStatus[v] = "READY" =>
           versionStatus'[v] = "READY" /\ chunks'[v] = chunks[v]]_vars
  BY StepSeen, ReadyStays
<1> QED BY <1>1, KnowledgeInvariant, PTL DEF Spec, ReadyIsForever

-----------------------------------------------------------------------------
(* The refinement.                                                         *)

Finished == {v \in Versions : versionStatus[v] = "READY"}

LEMMA PublishFinishes ==
  ASSUME KnowledgeInv, NEW j \in Jobs, Publishes(j)
  PROVE  Publication!Finish(j[1])
<1> USE ConstantsFit DEF KnowledgeInv, TypeOK, DocTypeOK
<1>1. versionStatus[j[1]] # "READY"
  BY OneLive DEF Publishes, Live
<1>2. Finished' = Finished \cup {j[1]}
  BY DEF Publishes, PublishVersion, Finished
<1>3. chunks' = [chunks EXCEPT ![j[1]] = j[1]]
  BY DEF Publishes, PublishVersion
<1>4. current' = IF current < j[1] THEN j[1] ELSE current
  BY DEF Publishes, PublishVersion, shouldPromoteKnowledgeVersion, PublishedIsReadable, NoVersion
<1> QED BY <1>1, <1>2, <1>3, <1>4 DEF Publication!Finish, Finished

LEMMA RollbackRestores ==
  ASSUME KnowledgeInv, NEW t \in Versions, Rollback(t)
  PROVE  \E n \in Versions : Publication!Restore(n, t)
<1> USE ConstantsFit DEF KnowledgeInv, TypeOK, DocTypeOK
<1> PICK n \in Versions :
           /\ AddVersion(n, "READY")
           /\ chunks' = [chunks EXCEPT ![n] = chunks[t]]
           /\ current' = n
  BY DEF Rollback
<1>1. n \notin Finished /\ Finished' = Finished \cup {n}
  BY DEF AddVersion, IsNextVersion, Finished
<1>2. t \in Finished /\ t # current
  BY DEF Rollback, Restorable, Finished
<1>3. current < n
  <2>1. CASE current = NoVersion
    BY <2>1 DEF NoVersion
  <2>2. CASE current # NoVersion
    <3>1. versionStatus[current] # "ABSENT" /\ versionStatus[n] = "ABSENT"
      BY <2>2 DEF PublishedIsReadable, AddVersion, IsNextVersion
    <3> QED BY <2>2, <3>1 DEF InOrder
  <2> QED BY <2>1, <2>2
<1> QED BY <1>1, <1>2, <1>3 DEF Publication!Restore, Finished

LEMMA OthersStutter ==
  ASSUME KnowledgeInv, LibraryStep,
         ~ \E j \in Jobs : Publishes(j), ~ \E t \in Versions : Rollback(t)
  PROVE  UNCHANGED <<Finished, chunks, current>>
<1> USE DEF KnowledgeInv, TypeOK, DocTypeOK, Finished
<1>1. CASE UNCHANGED <<textVars, versionStatus, chunks>>
  BY <1>1
<1>2. CASE \E u \in Versions : \E now \in BOOLEAN : CreateProcessing(u, now)
  BY <1>2 DEF CreateProcessing, AddVersion, IsNextVersion
<1>3. CASE DraftCommit
  BY <1>3 DEF DraftCommit, AddVersion, IsNextVersion
<1>4. CASE \E u \in Versions : Requeues(u)
  BY <1>4 DEF Requeues, Requeue
<1>5. CASE \E u \in Versions : GivesUp(u)
  BY <1>5 DEF GivesUp, FailVersion, FailDocument
<1>6. ASSUME NEW j \in Jobs, Fails(j)
      PROVE  UNCHANGED <<Finished, chunks, current>>
  <2>1. versionStatus[j[1]] # "READY"
    BY <1>6, OneLive DEF Fails, Live
  <2> QED BY <1>6, <2>1 DEF Fails, FailVersion, FailDocument
<1>7. CASE ArchiveDocument \/ \E j \in Jobs : Passes(j)
  BY <1>7 DEF ArchiveDocument, Passes
<1> QED BY <1>1, <1>2, <1>3, <1>4, <1>5, <1>6, <1>7 DEF LibraryStep

\* The document with its queue, workers, uploads and administrators implements
\* the library of KnowledgePublication.
THEOREM KnowledgeImplementsPublication == Spec => ImplementsPublication
<1>1. Init => Publication!PublicationInit
  BY DEF Init, DocInit, NoVersion, Publication!PublicationInit, Publication!Nothing
<1>2. ASSUME KnowledgeInv, [Next]_vars
      PROVE  [Publication!PublicationNext]_(Publication!publicationVars)
  <2>1. CASE \E j \in Jobs : Publishes(j)
    BY <1>2, <2>1, PublishFinishes, ConstantsFit DEF Publication!PublicationNext
  <2>2. CASE \E t \in Versions : Rollback(t)
    BY <1>2, <2>2, RollbackRestores DEF Publication!PublicationNext
  <2>3. CASE ~(\E j \in Jobs : Publishes(j)) /\ ~ \E t \in Versions : Rollback(t)
    BY <1>2, <2>3, StepSeen, OthersStutter DEF Publication!publicationVars, Finished
  <2> QED BY <2>1, <2>2, <2>3
<1> QED BY <1>1, <1>2, KnowledgeInvariant, PTL DEF Spec, ImplementsPublication, Publication!PublicationSpec
=============================================================================
