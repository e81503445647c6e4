# Enterprise intelligent agent: a verification project

TLA+ modules, TLC configurations and TLAPS proofs for the parts of this
repository in which concurrency, failure and ordering decide whether the system
is right. Every definition is translated from the code under `src/`;
`PROJECT.json` names, for each, the lines it stands for. Paths below leave out
`src/apps/api/src/modules/` where no confusion is possible.

## 1. The system

The product is a workspace messenger for an enterprise. Members talk to people
and to agents from a desktop application; a NestJS API on PostgreSQL keeps
everything; an asynchronous Python service (`services/ai-runtime`) runs the
model providers; a web console administers members, agents and knowledge.
Several instances of the API may run. They share nothing but the database: what
coordinates them is row conditions, partial unique indexes, leases in rows and
transaction-scoped advisory locks, all at READ COMMITTED.

### Inventory

| Component | State it keeps | Operations | What is hard |
|---|---|---|---|
| Agent run orchestration (`agent-run`, enqueueing in `conversation`) | `agent_runs`, request events in `outbox_events`, usage ledger, local variables of each handler | send message, claim, prepare (two transactions around retrieval), create / attach / execute / read over HTTP, settle, acknowledge, cancel, retry, reconcile | leases that end under a slow worker, an unknown outcome of `create`, cancel against completion, quota decided at another moment than it is used |
| AI runtime run service and providers (`services/ai-runtime`) | external runs in an in-memory store, calls under way, tasks at the provider | create, execute, read, cancel; task creation, polling, stop | execute against cancel between any two awaits; a restart forgets everything; a task nobody stops |
| AI runtime knowledge gateway | none beyond one call | embedding, rerank | bounded retries |
| Knowledge ingestion and publication (`knowledge-ingestion`, documents in `admin/knowledge-admin.service.ts`) | documents, versions, chunks, ingestion jobs, objects in a store, upload and worker handlers | upload, create, update, retry, publish draft, roll back, archive; claim, stages, publish, fail, release | versions that finish out of order, late workers, uploads slower than their recovery delay, a crash between database and object store |
| Chunking (`knowledge-document.chunker.ts`) | none | cut Markdown and the pages of a PDF into overlapping chunks | ends of pieces, overlap, leading and trailing blanks |
| Knowledge retrieval and citations | what a run found and when | search under an access policy, rank, check again, send, cite, show the original | access changes between the search and the sending |
| Sessions and passwords (`auth/application/auth.service.ts`) | sessions with hashed tokens, credentials | register, login, refresh, authenticate, change password, logout | password verification outside the transaction that creates the session; token rotation |
| Account recovery and invitations (`auth-recovery.service.ts`, `admin/member-invitation.service.ts`) | one-time tokens with delivery status | request, deliver, consume, invite, resend | at most one usable token, consumption against revocation by an administrator |
| Pre-authentication rate limits | counter buckets | count, block, prune, clear | capacity and concurrent first use of a bucket; deadlock of two locks |
| Organization administration | units, members, posts | create, move, archive, add and update members | blockers counted before the write, the last owner, a snapshot of Feishu at the same time |
| Agent administration and provisioning | agents, configuration versions, limits | configure, provision, set limits | a console that shows an old configuration, a run that starts meanwhile |
| Feishu directory synchronization | a lease on the integration row, the application it is bound to | bind, claim, fetch, renew, apply, fail | the snapshot is fetched without a lock and may outlive its lease; its pages are of different moments |
| IM outbox | `outbox_events` of messages | claim, deliver with a deadline, publish, retry, fail | redelivery after a lost acknowledgement, requests that arrive after they were given up |
| Conversations and messages, desktop messaging | conversations, messages, the desktop's caches | contact, list, select, send, poll, resend | repeated requests and late answers |
| Desktop account manager | tokens in memory and on disk | refresh, switch, sign out, remove, restart | one refresh at a time, a crash after rotation |
| Administration console, contracts | caches of the API's answers | forms | versions an editor was opened with |
| Directory, identity, authorization, bootstrap, tenant context, configuration, health, tools | none, or one request's | reads and checks | little that a model would show |

`PROJECT.json` lists these with their sources and their status, and the hazards
of each at the line where they bite.

### What makes each component correct

* **Agent runs.** A run is sent to the runtime at most once; exactly one answer
  appears for a success and none otherwise; one open run per conversation;
  relays continue answers; concurrency and token limits hold; a final status is
  final; nothing is forgotten; every event and queued run settles.
* **AI runtime.** What the API takes for granted of it (`AgentRuntime`) is what
  it does; a run that has ended leaves no task working at the provider, unless an
  answer or a stop was lost or an answer broke, and then the run is FAILED.
* **Knowledge.** Readers see finished versions only; a finished version never
  changes; the shown version only moves forward; an accepted version always has
  a job and gets READY or FAILED; an archived document stays archived; every
  visible character of a document is in a chunk and no chunk exceeds its size.
* **Retrieval.** What leaves for a model, and what is cited, was open to the
  member when it was last checked.
* **Sessions, recovery.** No session outlives the password it was opened with,
  except the one that changed it; a refresh token is exchanged once; one usable
  token of a purpose (no insert meets the unique index that would refuse a second);
  a disabled member comes back only through an administrator
  or an open invitation.
* **Rate limits.** No scope holds more buckets than its capacity.
* **Organization.** The units are a forest of active units; an owner remains.
* **Agents.** Nobody's new version (prompt and knowledge bases) of an agent, and
  nobody's change of the limits, is overwritten unseen.
* **Feishu.** A snapshot is a directory, and is applied in the order of fetching.
* **IM outbox.** A recipient is shown a message once, also when a request arrives
  after it was given up; a settled event is not sent.
* **Desktop.** Accounts stay signed in until somebody ends them; answers reach
  the screen of the account they belong to; a message is sent once and stays; the
  conversation a person has chosen stays chosen.

## 2. Modules

    AgentRunQuota --+
    AgentRunQueue --+- AgentRunRepository - AgentRunWorker - AgentRunControl - AgentRunSystem
    AgentRuntime ---+ (INSTANCE)                                |-- AgentRunLifecycle (abstract)
                                                                |-- AgentRunInvariant - AgentRunProofs
                                                                |     - AgentRunSafetyProofs
                                                                +-- MCAgentRun

    KnowledgeQueue - KnowledgeDocuments - KnowledgeWorker - KnowledgeUpload - KnowledgeSystem
                                                                |-- KnowledgePublication (abstract)
                                                                |-- KnowledgeInvariant - KnowledgeProofs
                                                                +-- MCKnowledge

    AuthAccount - AuthSessions - AuthRecovery - AuthMembers - AuthSystem
                                                                |-- AccountAccess (abstract)
                                                                |-- AuthProofs
                                                                +-- MCAuth

    Messaging      Conversations       ImOutbox        --- MessagingProofs --+
    DesktopAccounts                                                          |
    FeishuSync     OrgDirectory        AgentConfiguration                    |
    FeishuClient                                       --- DirectoryProofs --+
    AiRuntimeRuns (abstract: AgentRuntime)             --- RuntimeProofs ----+- MCServices
    KnowledgeRetrieval                 Chunking        --- SourceProofs -----+
    RateLimits                                         --- AuthProofs -------+

Proofs stand together by the part of the system they are about, with the
inductive invariant before its proof: `AgentRunProofs` and
`AgentRunSafetyProofs` (agent runs), `KnowledgeProofs` (a document),
`AuthProofs` (accounts, rate limits), `DirectoryProofs` (organization, Feishu,
assistants), `MessagingProofs` (outbox, messages, conversations, desktop),
`RuntimeProofs` (AI runtime), `SourceProofs` (chunks, retrieval).

### Agent runs

| Module | Code | State |
|---|---|---|
| `AgentRunQuota` | `agent-run-quota.ts` | none: `DecideAgentRunQuota` is the pure decision over a snapshot |
| `AgentRunQueue` | `prisma-agent-run-queue.repository.ts` | event status, owner, whether the lease is live |
| `AgentRuntime` | `run_service.py`, `memory_run_store.py`, `state.py` as the API sees them | remote status of each external run, "lost" after a restart |
| `AgentRunRepository` | `prisma-agent-run.repository.ts`, `createUserMessage`, the migration's indexes and constraints | the columns of `agent_runs` that the properties tell apart, and the number of answers |
| `AgentRunWorker` | `agent-run.worker.ts`, the HTTP client | where each handler stands and its local variables |
| `AgentRunControl` | `agent-run-control.service.ts` | cancels and reconciliations between their two transactions |
| `AgentRunSystem` | composition | `Next`, fairness and the properties |

A handler is cut at every `await` after which another actor may have written:
`prepare` is two transactions (`PrepareSnapshot`, `PrepareDispatch`) with
retrieval between; `create`, `execute` and reading the result are each a call
whose answer may be lost after it took effect. One transaction is one action: it
holds the tenant's quota lock or decides by a conditional UPDATE. Leases are a
Boolean that may drop at any moment; `LeaseCoversHandler` restricts an instance
to leases that end only behind a handler that is gone. Prompts, inputs and
citations are left out: whether they are valid is a choice between outcomes.

### Knowledge

| Module | Code | State |
|---|---|---|
| `KnowledgeQueue` | `prisma-knowledge-ingestion-job.repository.ts` | job status, claim columns, attempts, due |
| `KnowledgeDocuments` | `knowledge-admin.service.ts`, the writing transactions of `knowledge-ingestion.service.ts`, the publication policy | a document, its versions and chunks, the base's openness, the document's advisory lock and what its holder has read |
| `KnowledgeWorker` | `knowledge-ingestion.worker.ts`, `executeClaim`, `process`, `failClaim` | where each handler stands, the object store |
| `KnowledgeUpload` | `uploadFile` and its failure path | where each upload stands |
| `KnowledgeSystem` | composition | `Next`, fairness and the properties |

One document is modelled, its base being a flag (`MoveBase`). Transactions that
read the document's status and write it later without a row lock are two steps
with the advisory lock in `docLock`; `archiveDocument`, which takes no lock, may
come between. A text is the number of the version it was first written in, so a
copy made by a rollback is told from a revision.

### Accounts

| Module | Code | State |
|---|---|---|
| `AuthAccount` | the tables, `token.service.ts`, `password-hasher.ts` | one member's status, employment and password; that member's sessions and one-time tokens |
| `AuthSessions` | `auth.service.ts` | what requests have read and not yet acted on; whether a reset request is inside its transaction |
| `AuthRecovery` | `auth-recovery.service.ts`, `member-invitation.service.ts` | - |
| `AuthMembers` | the member commands of `organization-admin.service.ts` | - |
| `AuthSystem` | composition, clocks | `Next` and the properties |

Hashes are salted, so passwords are numbered in the order they are set and
comparing hashes is comparing numbers; number 0 is the random password of an
invited member. The pairs of access and refresh tokens of a session are numbered
likewise. Two history variables, `under` and `issuedUnder`, keep the password
that was current when a session or a link was obtained; no guard reads them.

Every request reads first and writes in a later statement or transaction. What
requests have read is kept in sets (`verified`, `principals`, `changing`,
`presented`, `accepting`) that only grow: any number of requests, also repeated,
late or abandoned ones, may act on what stands in them. Transactions that take
the advisory lock "password-flow" are one step, but for `requestPasswordReset`:
it reads the member's status under the lock and writes later, and `updateMember`,
which does not take that lock, may disable the member in between (`resetting`).

Left out: the mail and the delivery status recorded for it, `last_used_at`, the
tenant's own status, lookup by email, members bound to the Feishu directory
(their status comes from there), and whether an administrator may manage the
member or another owner remains, which `AuthMembers` leaves open and
`OrgDirectory` models.

### Services

Each of these modules is a component with a variable or two of its own for every
table and every handler it has; they share nothing with each other.

| Module | Code | State and steps |
|---|---|---|
| `ImOutbox` | `im-outbox.worker.ts`, its repository, `tencent-im-delivery.provider.ts` | the event's row and each worker's delivery: claim, begin, a request that arrives, one that returns and one that is given up but still on its way, settle, die; the clock, and what the provider remembers |
| `Messaging` | composer, hooks, gate and client of the desktop, `createUserMessage`'s idempotency | the draft, the client message id, requests and polls on their way, the shown list |
| `Conversations` | `DirectoryWorkspace.tsx`, its hooks, `conversation.service.ts`, `createDirect` | contacts on their way, the lists, the selection of each person |
| `DesktopAccounts` | `desktop-auth-manager.ts`, `account-store.ts`, `main/index.ts` | accounts in memory and in the file, the queue of operations, calls under way, the API's sessions, a crash |
| `RateLimits` | `auth-rate-limit-bucket.ts`, the two limiters, the login handler | buckets as committed, each transaction's writes and locks, statement by statement (reserve, lock the scope, choose and delete stale rows, insert) |
| `OrgDirectory` | `organization-admin.service.ts`, `member-invitation.service.ts`, `applySnapshot`, scopes of knowledge bases | units, members, posts, bindings; who holds the directory lock and what was checked under it |
| `FeishuSync` | `feishu-directory-sync.service.ts` | the integration's row, its version and lease, each execution between its statements |
| `FeishuClient` | `feishu-directory.client.ts`, the snapshot validator | the remote directory, which changes, and one fetch: tokens, pages, retries, what has been collected |
| `AiRuntimeRuns` | `run_service.py`, the store, `ProviderRuntime`, the drivers | runs, the calls that wait, the task at the provider; `AgentRuntime` is its abstract specification (`ImplementsRuntime`) |
| `KnowledgeRetrieval` | the access policy, retrieval and citation services, the check in `beginDispatch` | bases, scopes, employment, and one reader between statements |
| `AgentConfiguration` | `agent-admin.service.ts`, the provisioner, the two reads of a run, the console's editor | agents, template versions, limits, what each console shows |
| `Chunking` | `knowledge-document.chunker.ts` | a document of lines and the chunks made of it |

How each cuts the code into steps, and what it leaves out, is said in its header.
In short: a transaction that holds the lock on all it reads is one step; at READ
COMMITTED two statements whose tables others may write are two steps; code
between two awaits of a single-threaded process is one step.

`OrgDirectory` and `FeishuSync` are two halves of a synchronization: the second
says when a snapshot may be applied, the first what applying does, among the
commands of administrators, and `FeishuClient` what a snapshot looks like
(`SnapshotSound` establishes what `OrgDirectory` assumes of one). `AuthMembers` has the
same member commands as `OrgDirectory`, from the side of sessions and links.
`AgentRuntime`, which `AgentRunSystem` is composed with, is implemented by
`AiRuntimeRuns`.

## 3. What TLC checks

Passing runs:

| Run | Instance | Properties |
|---|---|---|
| `AgentRunFaults` | two runs, two conversations, two workers with free leases: one run under every fault (a crash, a restart of the runtime, a reconciliation, two creates allowed), or two runs for one slot while minutes and months pass | `DispatchedAtMostOnce`, `OneAnswerPerSuccess`, `UnfinishedHasEvent`, `WithinConcurrencyLimit`, `FinalIsFinal` |
| `AgentRunRelay` | three runs in one conversation with two relay turns, usage below and above the reservation or missing | `OneActivePerConversation`, `RelayContinuesAnswers`, `WithinTokenLimit`, `ImplementsLifecycle` |
| `AgentRunLive` | one run, two workers, a crash, a restart, leases that outlast a live handler, under fairness | `EventsSettle`, `QueuedRunsSettle` |
| `KnowledgeVersions` | three versions of a text document, two workers, free leases | `PublishedIsReadable`, `ReadyIsForever`, `ImplementsPublication` |
| `KnowledgeUploads` | one version from an uploaded file, two workers, a crash, two attempts, the base archived and reopened, under fairness | `ProcessingHasJob`, `ProcessingIsTrue`, `ProcessingSettles` |
| `AuthAccounts` | one account with two sessions, two links, three passwords, three pairs a session and three outstanding reads | `NothingOutlivesPassword`, `OneOpenTokenPerPurpose`, `ExchangedOnce`, `ReactivatedOnPurpose`, `ReplacedByProof`, `ImplementsAccess` |
| `Services` | one of the service modules in each behaviour, see below | the seventeen below |

What they show, in words: `AgentRunFaults`, that two workers on one run, with
leases that end under them and outcomes they never learn, send it once, answer
it once and never forget it, and that two runs do not exceed the slot they
compete for; `AgentRunRelay`, that runs which share a conversation keep their
order and their tokens; `AgentRunLive`, that no event and no queued run is left
behind while a lease outlasts the handler it is for (with leases that may end
under a live handler two workers can take an event from each other for ever); `KnowledgeVersions`, that readers see finished versions only, in
whatever order versions finish; `KnowledgeUploads`, that a crash in an upload or
a worker leaves no version in PROCESSING for ever; `AuthAccounts`, that nothing
from before a password change gets past it.

The properties of `Services`, by module:

| Module | Property | What it says |
|---|---|---|
| `ImOutbox` | `DeliveredOnce` | no recipient is shown a message twice, each has been shown a published one |
| | `SentWhilePending` | nobody sends a settled event; who is shown its message later is shown it by a request given up before |
| `Messaging` | `SentOnce` | a client message id is written once, with the text sent under it |
| | `ShownStays` | a shown message does not disappear when a late poll returns |
| `Conversations` | `ChosenIsShown` | a chosen conversation stays chosen, is with those meant, and is the only one between them |
| `DesktopAccounts` | `ReplyOfOneAccount` | a reply reaches the screen only while its account was active all the time |
| | `AccountsStay` | accounts are lost for named reasons only; a refresh token is not presented twice |
| `RateLimits` | `WithinBucketCapacity` | no scope exceeds its capacity |
| `OrgDirectory` | `ActiveOwnerRemains` | an active owner remains |
| | `DirectorySound` | active units are a forest of active units, employment is in them |
| `FeishuSync` | `AppliedInOrder` | an older snapshot is never applied over a newer one |
| `FeishuClient` | `SnapshotSound` | an accepted snapshot is a directory, and a directory is accepted |
| `AiRuntimeRuns` | `ImplementsRuntime` | the service does what `AgentRuntime` says |
| | `EndedLeavesNoTask` | a task still working for an ended run is a failed run's, by a lost answer, a lost stop or an exception without one |
| `KnowledgeRetrieval` | `SentWasAllowed` | what is sent, cited or shown was open to the member at a moment since its last check began |
| `AgentConfiguration` | `ConfigurationKept` | no version (prompt and knowledge bases) or limit is replaced by one who did not see it |
| `Chunking` | `ChunksSound` | every visible character is in a chunk of its page and headings; sizes and overlaps are kept |

The components of `Services` share no state, so that a behaviour in which all
run at once would only multiply state spaces: the variable `part` of
`MCServices` says which one runs, the others stand still, and the state spaces
add up (about 880 000 states, all actions taken). Some components are told in
several stories, or with a part of what may happen, where every fault at once is
too much; the header of `MCServices` lists them. The stories restrict instances
only: the modules have no such restriction.

Violations, each a recorded finding:

| Run | Property | What happens |
|---|---|---|
| `AgentRunSlotFreed` | `SlotHeldWhileExecuting` | a RUNNING run whose policy check fails on a later event is set FAILED, and frees its slot, while the runtime still executes it |
| `AgentRunRelayRetry` | `OfferedRetryIsAccepted` | a failed relay turn after the first is offered for retry, but the copy lacks its parent and the table's constraint refuses it |
| `KnowledgeArchive` | `ArchivedStaysArchived` | publication reads the status, the document is archived without the lock, publication writes READY |
| `KnowledgeRevisions` | `RevisionsAreFresh` | `expectedVersion` is compared in an earlier transaction than the one that writes the revision |
| `AuthDisabled` | `DisabledHasNoSession` | login verifies the password of an active member, the member is disabled and its sessions revoked, login compares the hash alone and inserts a session; every use of it is refused while the member is disabled, but it is live again when the member is |

**Bounds.** Named in the constants: `Runs`, `Workers`, `MaxReconciles`,
`MaxCreates` (external runs one run could get: two, so a double dispatch would
show), `MaxAbandons`, `MaxVersions`, `MaxRetries`, `MaxAttempts`, `MaxCrashes`,
`MaxSessions`, `MaxTokens`, `MaxPasswords`, `MaxPairs`, `MaxReads`.
The protocols coordinate through single rows, so two workers are enough to get
between any two steps of one of them; three versions are the fewest in which an
old, a current and a late one differ; a limit of one slot is the fewest two runs
can exceed. `attempts` saturates one past the maximum, since nothing tells
greater values apart. The safety properties with a theorem do not rest on these
bounds at all. Two sessions and two links are the fewest of which one survives
the other; a third password follows the change of a change; a third pair would show the
first one exchanged twice; three outstanding reads let a login, a change and a
link race. Deadlock is not checked for agent runs, documents and services, which
may all be finished; an account always has a step left (an administrator may set
a status) and is checked for deadlock.

In `Services`: two recipients and two attempts of a message, because the second
recipient and the second attempt are where a window can be missed, and times
(`ClaimTtl` 3, `Window` 3, `Transit` 1, `Lifetime` 5, `Backoffs` 0 and 2, other delays one tick, `Horizon` 6) that
let a lease end, a window close and a second worker begin, and that satisfy
`ImTiming` with nothing to spare on the lease; two texts, two client message ids
and one departure of the composer (`MaxTexts`, `MaxKeys`, `MaxLeaves`), so that a repeated
one can be told from a new one; two accounts, two calls, two pairs of tokens
(`MaxIssued`) and one crash of a desktop; two clients, capacity 1 and limits of one in the
throttling, so that one new key is already too many (`PruneLimit` 1, so that one
deletion never meets the limit of a prune: a scope has no second row; the proof is
for every limit); three units (a cycle needs
two below a root), one department, two local members and one of Feishu, two
administrators; two synchronizations, a lease of one tick, two moments
(`LastMoment`) and four increments of the row's version (`MaxVersion`: a claim, its renewal,
a takeover and one more); two departments and one user at Feishu with two
changes (`MaxRemoteChanges`) and one retry (`MaxHttpRetries`); one run in the AI runtime, since runs do not
touch each other, with the retry limits of its source; two bases, two teams, two versions, two changes
(`MaxEdits`) in a search; two members with an agent each, two editors and versions up to
`LastNumber`; two people, two agents, two contacts of one person and one of the
other (`MaxClicks`); documents of up to five lines and two pages, of every kind of line the
patterns tell apart, cut at five characters with an overlap of two, which is
enough for a piece to end inside a word, after a word and after a sentence.

**Symmetry** is declared in safety runs only: for workers (and conversations) of
agent runs; in `Services` for the processes, which play the workers, clients,
administrators and editors of different parts, and for the throttled accounts.

**Fairness** (`Fairness` in the two System modules) is what the deployment does:
ticks are scheduled for ever and queries order by `available_at`, so each event
or job is claimed in its turn (strong fairness of claiming each); a handler in a
live process goes on (weak fairness of its steps); external calls return within
their timeouts and, asked again and again, succeed or fail for good (strong
fairness of the reached branch); advisory locks are granted in order (strong
fairness of taking one); clocks advance. Messages, cancels, retries, crashes and
restarts are never fair. The service modules state safety only and no fairness.

**Mutants.** Every property of a passing run has at least one operator, named
`Bug...` in the module of the definition it replaces, that a plausible mistake
would produce, and that TLC finds to violate the property.

## 4. What is proved

For every value of the constants that satisfies the named assumptions:

| Theorem | Statement |
|---|---|
| `TypeCorrect` | `Spec => []TypeOK` (agent runs) |
| `StepsAreKnown` | every step is one of the run table's, or leaves it alone |
| `SentOnce` | `Spec => []DispatchedAtMostOnce` |
| `AnsweredOnce` | `Spec => []OneAnswerPerSuccess` |
| `SlotsAreReserved` | `Spec => []HoldKeepsReservation` |
| `FinalStaysFinal` | `Spec => FinalIsFinal` |
| `ConcurrencyBounded` | `Spec => []WithinConcurrencyLimit` |
| `ConversationsAreSerial` | `Spec => []OneActivePerConversation` |
| `NothingIsLeftBehind` | `Spec => []UnfinishedHasEvent` |
| `RelaysContinue` | `Spec => []RelayContinuesAnswers` |
| `TokensBounded` | `Spec => []WithinTokenLimit` |
| `SystemImplementsLifecycle` | `Spec => ImplementsLifecycle` |
| `KnowledgeInvariant`, `KnowledgeTypes` | `Spec => []KnowledgeInv`, `Spec => []TypeOK` (knowledge) |
| `ReadersAreServed` | `Spec => []PublishedIsReadable` |
| `NothingIsForgotten` | `Spec => []ProcessingHasJob` |
| `ProcessingIsMeant` | `Spec => []ProcessingIsTrue` |
| `FinishedIsFinal` | `Spec => ReadyIsForever` |
| `KnowledgeImplementsPublication` | `Spec => ImplementsPublication` |
| `AuthInvariant`, `AccountTypes` | `Spec => []AuthInv`, `Spec => []TypeOK` (accounts) |
| `OldPasswordsEnd` | `Spec => []NothingOutlivesPassword` |
| `LinksAreSingle` | `Spec => []OneOpenTokenPerPurpose` |
| `EmploymentIsMeant` | `Spec => []EmploymentFollows` |
| `RefreshedOnce` | `Spec => []ExchangedOnce` |
| `ComesBackOnPurpose` | `Spec => ReactivatedOnPurpose` |
| `ReplacedRightly` | `Spec => ReplacedByProof` |
| `AuthImplementsAccess` | `Spec => ImplementsAccess` |
| `RateInvariant`, `BucketsBounded` | `RateSpec => []RateInv`, `RateSpec => []WithinBucketCapacity` |
| `OrgInvariant` | `OrgSpec => []OrgInv` |
| `OwnerRemains`, `DirectoryIsSound` | `OrgSpec => []ActiveOwnerRemains`, `OrgSpec => []DirectorySound` |
| `SynchronizationInvariant` | `SyncSpec => []SyncInv` |
| `SnapshotsInOrder` | `SyncSpec => AppliedInOrder` |
| `ClientInvariant`, `SnapshotsAreSound` | `ClientSpec => []ClientInv`, `ClientSpec => []SnapshotSound` |
| `AgentsInvariant` | `AgentsSpec => []AgentInv` |
| `NothingUndoneUnseen` | `AgentsSpec => ConfigurationKept` |
| `ShownOnce` | `ImSpec => []DeliveredOnce` |
| `SettledIsNotSent` | `ImSpec => SentWhilePending` |
| `MessagingInvariant`, `WrittenOnceUnderTheirIds` | `MessagingSpec => []MessagingInv`, `MessagingSpec => []SentOnce` |
| `ShownMessagesStay` | `MessagingSpec => ShownStays` |
| `ConversationsInvariant` | `ConversationSpec => []ConversationInv` |
| `ChosenConversationIsShown` | `ConversationSpec => []ChosenIsShown` |
| `DesktopInvariant` | `DesktopSpec => []DesktopInv` |
| `RepliesOfOneAccount` | `DesktopSpec => []ReplyOfOneAccount` |
| `AccountsAreKept` | `DesktopSpec => AccountsStay` |
| `AiRuntimeInvariant`, `NoTaskIsLeft` | `AiRuntimeSpec => []AiRuntimeInv`, `AiRuntimeSpec => []EndedLeavesNoTask` |
| `AiRuntimeImplementsRuntime` | `AiRuntimeSpec => ImplementsRuntime` |
| `ChunkingInvariant`, `ChunksAreSound` | `ChunkingSpec => []ChunkInv`, `ChunkingSpec => []ChunksSound` |
| `RetrievalInvariant`, `SourcesWereAllowed` | `RetrievalSpec => []RetrievalInv`, `RetrievalSpec => []SentWasAllowed` |

**Agent runs.** None of the properties is inductive: what keeps a run from being
sent twice is not in the run table but in what handlers hold between awaits.
`Sound` (AgentRunInvariant) adds it: a handler away from idle has an event of an
existing run, its locals fit its place, a stop or reconciliation under way has
an external run, and a handler past the dispatch has a dispatched run. From
`Sound` every step of worker, control service, runtime or clock is one of the
run table's seven (`RunTableStep`), and the theorems on statuses, reservations,
answers, limits and the refinement need only look at those seven. `SentOnce`
alone looks at handlers again: `CreatedOnce` says that nothing has been created
before dispatch and that the one handler about to create is alone with its run.
`NothingIsLeftBehind` looks at what handlers have decided: `NobodyForgets` says
that an unfinished run has a pending event which no handler is about to settle,
because a handler decides so only once its run is over, and a run becomes
unfinished only together with a new event.

`TokensBounded` is about a sum over runs, which the community modules write as a
fold. Induction over finite sets cannot be cited, so the proof does without: of
the sets for which a claim about sums fails, if there were any, one would
contain no other (`LeastSubset`), and taking a run out of it gives a smaller one.
Thus the fold's equation determines it, has a solution (`Total`), does not depend on
the order in which runs are taken out, and changes by what one run changes. The
inductive invariant is `WithinBudget`: what the runs are charged, each what it
has used as far as it was reserved for and what it holds reserved, is
within the limit. Only a dispatch adds to it, under the lock under which it has
added up the others; what providers report beyond is the allowance
`WithinTokenLimit` makes.

**Knowledge.** `KnowledgeInv` (KnowledgeInvariant) adds to the types and the
three stated properties: versions and jobs are inserted in order; a live job is
the last of its version, which is not READY; who stands inside a transaction has
the lock, what it read as archived still is; a handler that writes the end of
its job still owns it. `StepSeen` reduces every step to `LibraryStep`, eight
kinds of step of the document and its jobs, and each conjunct about document and
jobs is kept by each kind; types, locks and claims are kept action by action.

**Accounts.** `AuthInv` (AuthProofs) adds three facts to the stated
invariants. `Unborn`: before the insert there is nothing. `Untouched`: until the
member has been active there is no session, no verified password and no reset
request, and the only links are invitations; without it a late login could make
a session for a member whose employment is pending. `InOrder`: an answered pair
is the one after the presented one and not later than the session's, so a second
answer for the same pair would need the session's number to go back. The proof
goes action by action for the rows and in one step for the actions that leave
the account alone. `AccessStep` maps each action to a step of `AccountAccess` or
to none, with `RevokedEnd` and `RevokedLinksEnd` for what the revoking
statements do to the sets of live sessions and open links.

**Feishu.** `SyncInv` (DirectoryProofs) adds to the types that the directory lock is
held by the execution that applies and by no other (`LockIsHeld`), and that
while the row names an execution nothing is applied behind its back
(`NothingBehind`): who applies ends its own lease in the same transaction, a
lease passes only to an execution that has not fetched yet, and applying
compares the owner under the lock. No assumption on the length of the lease or
the course of the clock is needed: an execution that has outlived its lease is
stopped by the row, not by the time.

**Fetching from Feishu.** `ClientInv` (DirectoryProofs) says of the collected
list that it names a department once (`Listed`), so that it has no more entries
than there are departments, whatever is moved or deleted between two pages. The
rest is about the validator's visit of such a list. It is written as the number
of parents to go up (`Upwards`), a recursive function over these numbers. If a
visit did not end, the departments it went through, more than the list has, would
have two in common (the pigeonhole fact of the library), and the list a circle; a visit that meets
one refuses the snapshot. In the other direction, in a list without a circle the
order of the visits puts each parent before its children, and such an order
admits no circle, so that what is accepted is a tree.

**IM outbox.** Here time is what the property rests on, and `ImTiming` says which:
a delivery ends within its lease (`Handover + ProviderTimeout < ClaimTtl`), and
the provider remembers a message longer than it is repeated
and travels (`Window + ProviderTimeout + Transit <= Lifetime`). `ImInv` (MessagingProofs) states what follows:
whoever sends holds the lease and has time left (`LeaseOutlasts`), begins within
the window after the first claim, before which nothing was accepted
(`WithinWindow`), and has reached the recipients before its own
(`ReachedInOrder`). From the first two, whoever repeats a message does so while
it is remembered (`RepetitionIsSeen`), and so does a request it gives up, which
arrives at most `Transit` later (`GivenUpInTime`, `StragglerIsSeen`). What is
published was accepted before (`ShownByAcceptance`).

**Rate limits.** The rows of a bucket and what a transaction has written but not
committed are apart, so that counting rows is not enough. `RateInv` (AuthProofs) says that a row is
written by one transaction at a time (`WritesApart`), that who inserts holds the
lock of the bucket's scope (`ScopesKnown`), and of each request (`FitsScope`): while
it holds a scope's lock, the rows it sees there, its own and the committed, are
within the capacity; without the lock, it sees no rows but committed ones. So
whoever commits leaves behind what it saw, and whoever does not hold the lock
adds nothing, also when it clears, rolls back or aborts.

**Organization.** `OrgInv` (DirectoryProofs) adds that a unit which has not been made is
apart, that departments have units of their own under another unit, that nobody
from Feishu owns the tenant, and `UnderTheLock`: a request that has checked holds
the directory lock, and what it has checked is still so. The last has two
exceptions, because knowledge bases and invitations write without the lock: a base may want the unit by
now, and an owner may have become active; neither is what the write relies on.
That a unit may be moved (`MayBeParent`) is that no circle arises: a circle
through the moved unit would be one of units above the new parent
(`MovedForest`). A snapshot is one step, whose effect on units, posts and
departments is followed part by part.

**Assistants.** `AgentInv` adds `SavesWhatItSaw`: who numbers or saves holds the
agent's row, whose version is the one the editor was opened with. Between the
lock and the save others change other agents, and a synchronization (`PlanKnowsOwners`)
only those of members who had none when it read.

**Messages.** `MessagingInv` says that a client message id belongs to one request,
wherever copies of it are (`OneRequestPerKey`), that the ledger has each id once,
and that what is shown, answered or read by a poll is stored, with what was shown
when the poll read among what it read, unless the poll is given up
(`ShownIsStored`).

**Conversations.** `ConversationInv` says that a key has one row, that an answer
under way names the row of those meant (`AnswersSafe`), and that a list under way
has what the present one has, unless it is given up (`ListsSafe`). Keys are built
from people and agents; that two rows between the same parties in the same relay
have the same key is `PartiesDecide`, a fact about `DirectKey`.

**Desktop.** `DesktopInv` has two halves. `RepliesSafe`: a call that was interrupted
began in an earlier generation than the present one, so its reply is not
delivered. `SessionSafe`: as long as there is no reason to lose an account
(`Good`: nobody signed out, the API has not ended the session, the store is
persistent, and no lost answer, crash, refused write or late password change has
left the stored token behind), its stored
token is the API's, or exactly one write under way replaces it with the API's, and no
removal is queued. `DiskSafe` ties the file to the memory over the one write
between them, for a restart.

**AI runtime.** `AiRuntimeInv` says that a run is executed once and not after its
end (`ExecutedOnce`) and that who cancels knows a task (`CancelledSafely`). A step
moves one run (`OneRun`), so that the invariant and the refinement are shown for that one.
The refinement maps the runs to externals of one creation each; a record in
memory is what `AgentRuntime` keeps.

**Chunks.** What is cut is the result of loops over lines, and what a loop
computes is an induction, which cannot be cited. As for the sums above, the
recursive function exists because a least number of rounds without a solution
would be a contradiction (`RecursionSolved`), and satisfies its equation; a
property of every round then holds because of the rounds that lack it one would
be the first (`SplitFits`). The property is `SectionsFit`: the sections of the first lines
hold each character of them once and none of a heading, under the headings that
are over its line (`HeadingsOver`, which is defined without the loop), and every
visible one is there. It needs that the open headings are nested
(`NextHeading`) and that the fence of the loop is the one `Fenced` speaks of
(`FencedIs`). Of the pieces, `PieceEndIs` and `NextStartIs` say all that matters of
the search for boundaries: an end lies after the start and within the maximum,
and the next start between them and within the overlap. `ChunkInv` adds
`CutBehind`: what lies ahead is in no chunk, but for the overlap with the present
piece. So a new piece shares with an older chunk only characters of that
overlap, and their number is that of an interval (`ImageSize`). `DonePageCovered`
carries what is known of a page's sections over to the whole document.

**Retrieval.** A search reads member, employments, units, bases, scopes and chunks
in statements of their own, and each may see another moment. `RetrievalInv`
says what each statement leaves: what has been read and not been touched since
is true still (`ReadHolds`), and what would come out if the rest were read now
(`Outcome`) was open to the member at a moment since the check began
(`DecisionHolds`), as long as at most one thing has changed (`Calm`). A statement
then keeps the outcome, and somebody else's change either does not concern what
is read or makes the outcome what was open before it. The loop of
`isOrgUnitAncestor` is a recursive function; that it exists is shown by the least
number of steps for which it would not, that whatever it comes to is above
the unit over open units only by the last step where it would not be
(`ClimbExists`, `AncestorsLeadUp`).

Assumptions are only those a module states on its constants: naturals where
numbers are meant, limits that are positive, that model values for "none",
"free" or nobody are not members, that units and departments are finite and
numbered, with a root unit, which bootstrap makes, that the teams a search climbs,
the departments Feishu has had and the runs whose tokens are added are finite,
that a line is a heading or opens a fence but not both (the two patterns exclude
each other) and its text has no newline, that the overlap is less than the
maximum, which `resolveOptions` checks, and `ImTiming`.

**Only model-checked**: liveness (`EventsSettle`, `QueuedRunsSettle`,
`ProcessingSettles`), which needs ENABLED. Every invariant and every action
property of a passing run is stated by a theorem. The findings, being
counterexamples, are TLC's too.

## 5. Not modelled

* **What only computes one value from another**: prompts, parsing and scanning of files, scores
  and fusion of searches, citation formats, cryptography of tokens and passwords, HTTP and RPC framing,
  the knowledge gateway's translation, environment validation, rendering and
  layout, operational scripts. Unit tests reach them.
* **Row level security and tenants**: every model is of one tenant.
* **`rebuildEmbeddings`** and the embeddings table; the measures that make a base
  ready for activation; object stores beyond put and its failures.
* **Answer feedback**, one upsert in one transaction; read positions, paging,
  archiving of conversations; the recorded delivery status of a mail, which no
  decision reads.
* **Forms of the console and the desktop** that send what is typed and show a
  refusal: members, units, knowledge bases. The editor of agents is modelled
  because it sends the version it was opened with.

## 6. Observations

Met while modelling; what the models do with them is said in each case. None is
stated as a property that fails, because no line of the repository promises the
opposite outright, or because the effect is harmless.

* *IM outbox.* FAILED does not mean that nobody was shown the message: a last
  attempt may fail after the provider accepted the first recipient
  (docs/adr/0004 section 3 uses the word for a refusal that is certain); the model
  lets it happen. The configuration (`environment.ts`:685) enforces
  only a part of `ImTiming`: a claim longer than the provider's timeout, not the
  handover before it or the provider's own memory. docs/adr/0004 section 4 gives
  that memory as about 120 seconds; the window of 110 and the default timeout of 10
  use it up, so that a request given up at the end of the last repetition has no time
  left to travel: `Transit` must be 0 there. An abort is the client's only, so the
  message of an event that is already FAILED or UNKNOWN may still be shown; it is
  one that was sent before (`SentWhilePending`).
* *Desktop.* A password change that is answered after a refresh stores the
  refresh token it was sent with; `desktop-auth-manager.test.ts`:65 expects it.
  `AccountsStay` lists it among the reasons to lose an account.
* *Rate limits.* A reservation locks the network's row before the account's, a clearing
  after success the other way round; PostgreSQL ends one of two such
  transactions, which in the model is `RequestAborts`. A network's rollback may
  take away from the count of a later window. A prune that waits for a stale bucket
  which another attempt is reserving deletes it all the same, and that attempt is
  not counted (`DeleteStale`).
* *Organization.* A base's scopes may keep an archived unit, for scopes are
  written without the directory lock; no search grants anything by it.
* *Feishu.* Binding reads the row and writes it in two statements, the second
  without a condition (`BindReads`, `BindWrites`): a synchronization that is
  claimed in between goes on, and ends, under a row that names another
  application, which docs/adr/0007 section 2 refuses. A synchronization writes an
  agent's name, status and visibility (provisioner, lines 99-109) that
  docs/adr/0007 section 6.2 leaves to administrators. These do not change the
  version an editor compares, so console and synchronization overwrite each
  other there; `ConfigurationKept` is about the configuration and the limits.
* *Agents.* A newly managed agent takes the template's latest version. Updates
  of two agents of the shared template at once meet the unique index
  (template, version), and one fails. The stamp of the limits has milliseconds;
  the model takes two for different.
* *AI runtime.* Manus and the OpenAI-compatible provider cannot cancel a QUEUED
  run, which has no task or no way to confirm; a cancel that arrives while a task
  is being stopped after an error is swallowed, and the run ends FAILED. The
  model does the same. services/ai-runtime/README.md:183 says that a local timeout, a
  cancellation or a task that cannot be parsed is followed by an attempt to stop the
  task; an exception `complete` does not expect (an answer whose encoding is broken,
  `httpx.DecodingError`, or one nested too deep for the parser) passes it by and ends
  in run_service.py:84 without one (`AnswerBreaks`), which `EndedLeavesNoTask` lists.
* *Retrieval.* The check before sending consists of statements with snapshots of
  their own, so that two changes during it can pass it together: the premise of
  `SentWasAllowed`. Citations remain readable after their base or document is
  archived, and from versions that have been superseded.
* *Conversations.* No code sets `leftAt`. A member disabled between the checks of create
  and `createDirect` still gets the conversation. The unique (tenant, key) index
  backs the lock. A late answer of the last contact takes over a selection made
  while it was pending, and so does the late answer of an earlier contact with an
  agent pair, which `startAgentCollaboration` selects without asking whether it is the
  last (`ShowOpened`).
* *Chunking.* A heading with no text below it is in no chunk. Headings start anew
  on each page of a PDF, so that text continued on the next page loses its
  heading path.

## 7. What is left

1. The request rate limit of agent runs, with a clock instead of `MinutePasses`.
2. `rebuildEmbeddings` and the activation of a base, once its measures are
   stated as data of documents.
3. Liveness of deliveries and synchronizations, with the fairness of section 3.
