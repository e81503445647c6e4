-------------------------- MODULE AgentRunRepository --------------------------
(***************************************************************************)
(* The agent_runs table and the transactions that write it, from           *)
(* prisma-agent-run.repository.ts, prisma-conversation.repository.ts and   *)
(* agent-run-control.service.ts.  Every transaction takes the tenant-quota *)
(* and run (or conversation) advisory locks before it reads, so each is    *)
(* one atomic step; what happens between two transactions of one handler   *)
(* belongs to AgentRunWorker and AgentRunControl.                          *)
(*                                                                         *)
(* One tenant.  run.version is left out: every write of a run that is      *)
(* QUEUED moves it out of QUEUED, so "QUEUED and same version" and         *)
(* "QUEUED" are the same condition.  A run's reservation is all or         *)
(* nothing in the source (20000 tokens or 0) and a flag here.              *)
(***************************************************************************)
EXTENDS Integers, FiniteSets, FiniteSetsExt, AgentRunQuota, AgentRunQueue

CONSTANTS Conversations,      \* conversations that have an agent participant
          TurnLimit,          \* turnLimit of each: 1 for a direct chat, else relay turns
          Reservation,        \* DEFAULT_AGENT_RUN_RESERVED_TOKENS, in abstract units
          UsageAmounts,       \* totals a provider may report
          MaxTopics,          \* bound: runs asked for by messages and retries
          ConcurrencyLimit, RateLimit, TokenLimit   \* the tenant's limits

NoRun == 0
NoExt == <<0, 0>>
NoConversation == "none"
Unreported == -1

UsageReports == UsageAmounts \cup {Unreported}

ASSUME RunsAssumption == Runs \subseteq Nat \ {NoRun} /\ IsFiniteSet(Runs)
ASSUME ConversationsAssumption == NoConversation \notin Conversations /\ TurnLimit \in [Conversations -> 1 .. 8]
ASSUME LimitsAssumption ==
  /\ Reservation \in Nat \ {0} /\ UsageAmounts \subseteq Nat
  /\ ConcurrencyLimit \in Nat /\ RateLimit \in Nat /\ TokenLimit \in Nat
  /\ MaxReconciles \in Nat /\ MaxTopics \in Nat

VARIABLES status,     \* agent_runs.status, "NONE" before the insert
          conv,       \* conversation_id
          turn,       \* turn_index
          parent,     \* parent_run_id: the run whose answer this relay turn continues
          ext,        \* external_run_id
          reserved,   \* reserved_tokens > 0
          used,       \* total_tokens recorded with finished_at in the current month
          recent,     \* runs whose dispatch_started_at is in the last minute
          answers     \* agent messages agent-run:<id> in the conversation

runVars == <<status, conv, turn, parent, ext, reserved, used, recent, answers>>

RunStatus == {"QUEUED", "DISPATCHING", "RUNNING", "SUCCEEDED", "FAILED", "UNKNOWN", "CANCELLED"}

TERMINAL_STATUSES == {"SUCCEEDED", "FAILED", "UNKNOWN", "CANCELLED"}

\* Bug: an uncertain run gives its slot back.
BugUnknownReleasesSlot == {"DISPATCHING", "RUNNING"}

\* AGENT_RUN_CONCURRENCY_HOLD_STATUSES
HoldStatuses == {"DISPATCHING", "RUNNING", "UNKNOWN"}

\* The partial unique index agent_runs_one_active_per_conversation_idx.
ActiveStatuses == {"QUEUED", "DISPATCHING", "RUNNING", "UNKNOWN"}

Exists(r) == status[r] # "NONE"
isTerminal(r) == status[r] \in TERMINAL_STATUSES

RunInit ==
  /\ status = [r \in Runs |-> "NONE"]
  /\ conv = [r \in Runs |-> NoConversation]
  /\ turn = [r \in Runs |-> 1]
  /\ parent = [r \in Runs |-> NoRun]
  /\ ext = [r \in Runs |-> NoExt]
  /\ reserved = [r \in Runs |-> FALSE]
  /\ used = [r \in Runs |-> 0]
  /\ recent = {}
  /\ answers = [r \in Runs |-> 0]

-----------------------------------------------------------------------------
(* Inserting a run.  Identities are taken in creation order.               *)

IsNextRun(r) == ~Exists(r) /\ \A q \in Runs : q < r => Exists(q)

\* What the table accepts: the partial unique index, read after the writes st
\* the transaction has already made, the unique index on the parent, where NULLs
\* differ, and agent_runs_trigger_chain_check, where the trigger is RELAY_TURN
\* exactly for turns after the first.
\* Bug: the unique index leaves out uncertain runs, as retry's own check does.
BugIndexWithoutUnknown(st, c, t, p) ==
  /\ ~ \E q \in Runs : st[q] \in {"QUEUED", "DISPATCHING", "RUNNING"} /\ conv[q] = c
  /\ p # NoRun => \A q \in Runs : parent[q] # p
  /\ (t = 1) <=> (p = NoRun)

InsertAccepted(st, c, t, p) ==
  /\ ~ \E q \in Runs : st[q] \in ActiveStatuses /\ conv[q] = c
  /\ p # NoRun => \A q \in Runs : parent[q] # p
  /\ (t = 1) <=> (p = NoRun)

InsertRun(st, r, c, t, p) ==
  /\ IsNextRun(r)
  /\ InsertAccepted(st, c, t, p)
  /\ status' = [st EXCEPT ![r] = "QUEUED"]
  /\ conv' = [conv EXCEPT ![r] = c]
  /\ turn' = [turn EXCEPT ![r] = t]
  /\ parent' = [parent EXCEPT ![r] = p]
  /\ Publish(<<r, 0>>)

\* The bound on topics leaves identities for the relay turns they start.
TopicsLeft == Cardinality({r \in Runs : Exists(r) /\ parent[r] = NoRun}) < MaxTopics

\* createUserMessage with enqueueInitialAgentRun: refused while the
\* conversation has an unfinished or uncertain run, else the message, the run
\* and its request event are written together.
CreateUserMessage(c) ==
  /\ ~ \E q \in Runs : conv[q] = c /\ status[q] \in {"QUEUED", "DISPATCHING", "RUNNING", "UNKNOWN"}
  /\ TopicsLeft
  /\ \E r \in Runs : InsertRun(status, r, c, 1, NoRun)
  /\ UNCHANGED <<ext, reserved, used, recent, answers, lockedBy, leaseLive>>

\* The check of the conversation leaves UNKNOWN to the unique index.
RetryAllowed(r) ==
  /\ status[r] \in {"FAILED", "CANCELLED"}
  /\ ~ \E q \in Runs : conv[q] = conv[r] /\ status[q] \in {"QUEUED", "DISPATCHING", "RUNNING"}

\* Bug: the copy of a relay turn names the turn it repeats as its parent.
BugRetryNamesRepeated(r) ==
  /\ RetryAllowed(r) /\ TopicsLeft
  /\ \E n \in Runs : InsertRun(status, n, conv[r], turn[r], IF turn[r] = 1 THEN NoRun ELSE r)
  /\ UNCHANGED <<ext, reserved, used, recent, answers, lockedBy, leaseLive>>

\* retry: a new run for the same message and turn, without the parent.
Retry(r) ==
  /\ RetryAllowed(r) /\ TopicsLeft
  /\ \E n \in Runs : InsertRun(status, n, conv[r], turn[r], NoRun)
  /\ UNCHANGED <<ext, reserved, used, recent, answers, lockedBy, leaseLive>>

-----------------------------------------------------------------------------
(* The quota ledger.                                                       *)

HoldingRuns == {r \in Runs : status[r] \in HoldStatuses}

UsedTokens == MapThenSumSet(LAMBDA r : used[r], Runs)

ReservedTokens == Reservation * Cardinality({r \in Runs : reserved[r]})

loadQuotaSnapshot ==
  [concurrencyLimit |-> ConcurrencyLimit, rateLimitPerMinute |-> RateLimit,
   monthlyTokenLimit |-> TokenLimit, activeRuns |-> Cardinality(HoldingRuns),
   runsLastMinute |-> Cardinality(recent), oldestDispatch |-> NoDispatch,
   monthlyTokensUsed |-> UsedTokens, tokensReserved |-> ReservedTokens]

QuotaDecision == DecideAgentRunQuota(loadQuotaSnapshot, Reservation)

\* The sliding minute moves past some dispatches; a new month starts.
MinutePasses ==
  /\ recent # {}
  /\ \E gone \in SUBSET recent : gone # {} /\ recent' = recent \ gone
  /\ UNCHANGED <<status, conv, turn, parent, ext, reserved, used, answers>>

MonthStarts ==
  /\ \E r \in Runs : used[r] > 0
  /\ used' = [r \in Runs |-> 0]
  /\ UNCHANGED <<status, conv, turn, parent, ext, reserved, recent, answers>>

-----------------------------------------------------------------------------
(* Moving a run along.                                                     *)

\* The requester, the participants, the agent and its version are rows that
\* others may change at any time; the chain is the run's own.
validateQueuedRun(r) ==
  {valid \in BOOLEAN :
     valid => turn[r] <= TurnLimit[conv[r]] /\ ((turn[r] = 1) <=> (parent[r] = NoRun))}

\* A later direct run waits for an earlier one of its conversation.
hasEarlierActiveDirectRun(r) ==
  /\ TurnLimit[conv[r]] = 1
  /\ \E q \in Runs : /\ q < r /\ conv[q] = conv[r]
                     /\ status[q] \in {"QUEUED", "DISPATCHING", "RUNNING"}

\* usageUpdate and the release of the reservation: both only on a trusted total.
RecordUsage(r, u) ==
  IF u = Unreported
  THEN UNCHANGED <<reserved, used>>
  ELSE /\ reserved' = [reserved EXCEPT ![r] = FALSE]
       /\ used' = [used EXCEPT ![r] = u]

markRunTerminal(r, s, u) ==
  /\ status' = [status EXCEPT ![r] = s]
  /\ RecordUsage(r, u)
  /\ UNCHANGED <<conv, turn, parent, ext, recent, answers>>

\* Bug: a late failure overwrites the final status.
BugOverwritesFinal(r, s, u) == markRunTerminal(r, s, u)

\* completeFailed, completeUnknown: nothing is written over a final status.
completeTerminal(r, s, u) ==
  IF isTerminal(r) THEN UNCHANGED runVars ELSE markRunTerminal(r, s, u)

\* The compare-and-swap at the end of prepare.
BeginDispatch(r) ==
  /\ status' = [status EXCEPT ![r] = "DISPATCHING"]
  /\ reserved' = [reserved EXCEPT ![r] = TRUE]
  /\ recent' = recent \cup {r}
  /\ UNCHANGED <<conv, turn, parent, ext, used, answers>>

AwaitsExternal(r) == status[r] = "DISPATCHING" /\ ext[r] = NoExt

attachExternalRun(r, x) ==
  /\ AwaitsExternal(r)
  /\ status' = [status EXCEPT ![r] = "RUNNING"]
  /\ ext' = [ext EXCEPT ![r] = x]
  /\ UNCHANGED <<conv, turn, parent, reserved, used, recent, answers>>

\* Bug: the status is not looked at again.
BugAnswersWhenKnown(r) == ext[r] # NoExt

ConfirmedExecution(r) == status[r] = "RUNNING" /\ ext[r] # NoExt

\* The next turn is the other agent's; the answer is its input.
enqueueNextRelayRun(st, r) == \E n \in Runs : InsertRun(st, n, conv[r], turn[r] + 1, r)

\* completeSucceeded: the answer becomes a message, the usage is recorded, and
\* a relay below its limit queues the next turn in the same transaction.
completeSucceeded(r, u) ==
  LET answered == [status EXCEPT ![r] = "SUCCEEDED"]
  IN /\ ConfirmedExecution(r)
     /\ answers' = [answers EXCEPT ![r] = @ + 1]
     /\ RecordUsage(r, u)
     /\ UNCHANGED <<ext, recent, lockedBy, leaseLive>>
     /\ IF turn[r] < TurnLimit[conv[r]]
        THEN enqueueNextRelayRun(answered, r)
        ELSE status' = answered /\ UNCHANGED <<conv, turn, parent, evStatus>>

\* persistCancellation, for a run that was never dispatched.
persistCancellation(r) ==
  /\ status[r] = "QUEUED"
  /\ status' = [status EXCEPT ![r] = "CANCELLED"]
  /\ reserved' = [reserved EXCEPT ![r] = FALSE]
  /\ UNCHANGED <<conv, turn, parent, ext, used, recent, answers>>
=============================================================================
