---------------------------- MODULE AgentRunWorker ----------------------------
(***************************************************************************)
(* agent-run.worker.ts: a worker claims an event, prepares its run in two  *)
(* transactions with an unlocked knowledge retrieval between them, calls   *)
(* the runtime, settles the run and then the event.  Each await of the     *)
(* handler is a step boundary; other workers, the control service, the     *)
(* runtime, a crash or the end of the lease may come in between.           *)
(*                                                                         *)
(* Workers are handler slots: a process claims again only after its batch  *)
(* has settled, so slots of one process never share an event, and one      *)
(* locked_by per slot loses nothing.                                       *)
(* A thrown database error, a thrown invariant error and a killed process  *)
(* all leave the handler the same way: the event stays leased (Abandon).   *)
(***************************************************************************)
EXTENDS AgentRunRepository

CONSTANTS MaxCreates,         \* bound: external runs per agent run
          MaxAbandons,        \* bound: crashes and thrown errors
          LeaseCoversHandler  \* whether a lease can end only after its handler has

ASSUME WorkerAssumption ==
  /\ NoWorker \notin Workers /\ MaxCreates \in Nat \ {0} /\ MaxAbandons \in Nat
  /\ LeaseCoversHandler \in BOOLEAN

VARIABLES remote,       \* the AI Runtime's runs
          pc,           \* where each worker's handler stands
          job,          \* the event it holds
          snap,         \* run.status read by prepare's first transaction
          xid,          \* externalRunId in the handler
          usage,        \* usageFromRuntime(result)
          verdict,      \* how the run and then the event will be settled
          abandons      \* counts crashes and thrown errors, to bound them

Runtime == INSTANCE AgentRuntime

workerVars == <<pc, job, snap, xid, usage, verdict>>

NoEvent == <<0, 0>>

Run(w) == job[w][1]

Places == {"idle", "snapshot", "retrieve", "create", "attach", "execute", "read",
           "succeed", "settle", "ack"}

Verdicts == {"PUBLISHED", "FAILED", "UNKNOWN", "PENDING"}

WorkerInit ==
  /\ pc = [w \in Workers |-> "idle"]
  /\ job = [w \in Workers |-> NoEvent]
  /\ snap = [w \in Workers |-> "NONE"]
  /\ xid = [w \in Workers |-> NoExt]
  /\ usage = [w \in Workers |-> Unreported]
  /\ verdict = [w \in Workers |-> "PENDING"]
  /\ abandons = 0

Goto(w, place) == pc' = [pc EXCEPT ![w] = place]

\* Leaving the handler forgets its local variables.
Leave(w) ==
  /\ pc' = [pc EXCEPT ![w] = "idle"]
  /\ job' = [job EXCEPT ![w] = NoEvent]
  /\ snap' = [snap EXCEPT ![w] = "NONE"]
  /\ xid' = [xid EXCEPT ![w] = NoExt]
  /\ usage' = [usage EXCEPT ![w] = Unreported]
  /\ verdict' = [verdict EXCEPT ![w] = "PENDING"]

\* Only the event remains to be settled (Ack), or first the run (Settle).
ThenAck(w, v) ==
  /\ Goto(w, "ack") /\ verdict' = [verdict EXCEPT ![w] = v]
  /\ UNCHANGED <<job, snap, xid, usage>>

ThenSettle(w, v) ==
  /\ Goto(w, "settle") /\ verdict' = [verdict EXCEPT ![w] = v]
  /\ UNCHANGED <<job, snap, xid>>

-----------------------------------------------------------------------------
\* runOnce claims an event; processEvent starts with prepare.
ClaimEvent(w, e) ==
  /\ pc[w] = "idle"
  /\ Claim(w, e)
  /\ job' = [job EXCEPT ![w] = e]
  /\ Goto(w, "snapshot")
  /\ UNCHANGED <<runVars, remote, snap, xid, usage, verdict, abandons>>

\* settleTerminal: how the event of a run that is already final is settled.
TerminalVerdict(r) ==
  CASE status[r] = "SUCCEEDED" -> "PUBLISHED"
    [] status[r] = "UNKNOWN" -> "UNKNOWN"
    [] status[r] \in {"FAILED", "CANCELLED"} -> "FAILED"

FailRun(w) ==
  /\ markRunTerminal(Run(w), "FAILED", Unreported)
  /\ ThenAck(w, "FAILED")

FoundTerminal(w) ==
  /\ isTerminal(Run(w))
  /\ ThenAck(w, TerminalVerdict(Run(w)))
  /\ UNCHANGED runVars

Defer(w) == ThenAck(w, "PENDING") /\ UNCHANGED runVars

\* ambiguous_dispatch: completeUnknown comes in a later transaction.
Ambiguous(w) ==
  /\ ThenSettle(w, "UNKNOWN")
  /\ UNCHANGED <<runVars, usage>>

QuotaRefuses(w) ==
  \/ QuotaDecision \in {"concurrency", "rate"} /\ Defer(w)
  \/ QuotaDecision = "rejected" /\ FailRun(w)

\* prepare, first transaction.
PrepareSnapshot(w) ==
  LET r == Run(w) IN
  /\ pc[w] = "snapshot"
  /\ \/ FoundTerminal(w)
     \/ status[r] \in {"DISPATCHING", "RUNNING"} /\ ext[r] = NoExt /\ Ambiguous(w)
     \/ /\ status[r] = "QUEUED"
        /\ \/ hasEarlierActiveDirectRun(r) /\ Defer(w)
           \/ /\ ~hasEarlierActiveDirectRun(r)
              /\ \E valid \in validateQueuedRun(r) :
                   \/ ~valid /\ FailRun(w)
                   \/ valid /\ QuotaRefuses(w)
     \/ /\ \/ /\ status[r] = "QUEUED" /\ ~hasEarlierActiveDirectRun(r)
              /\ TRUE \in validateQueuedRun(r) /\ QuotaDecision = "allowed"
           \/ status[r] \in {"DISPATCHING", "RUNNING"} /\ ext[r] # NoExt
        /\ Goto(w, "retrieve")
        /\ snap' = [snap EXCEPT ![w] = status[r]]
        /\ xid' = [xid EXCEPT ![w] = ext[r]]
        /\ UNCHANGED <<runVars, job, usage, verdict>>
  /\ UNCHANGED <<remote, abandons, queueVars>>

isRunningReconciliation(w) ==
  /\ snap[w] = "RUNNING" /\ xid[w] # NoExt
  /\ status[Run(w)] = "RUNNING" /\ ext[Run(w)] = xid[w]

\* Bug: the status read before the retrieval decides.
BugStaleSnapshot(w) == snap[w] = "QUEUED"

StillQueued(w) == status[Run(w)] = "QUEUED"

\* prepare, second transaction, after the retrieval.  `valid` stands for
\* validateQueuedRun and areChunksAccessibleInTransaction, `fits` for the
\* input budget, which a run being reconciled need not meet again.
PrepareDispatch(w) ==
  LET r == Run(w) IN
  /\ pc[w] = "retrieve"
  /\ \/ FoundTerminal(w)
     \/ /\ ~isTerminal(r) /\ ~isRunningReconciliation(w) /\ ~StillQueued(w)
        /\ Ambiguous(w)
     \/ /\ isRunningReconciliation(w) \/ StillQueued(w)
        /\ \E valid \in validateQueuedRun(r), fits \in BOOLEAN :
             \/ /\ ~valid \/ (~fits /\ ~isRunningReconciliation(w))
                /\ FailRun(w)
             \/ /\ valid /\ isRunningReconciliation(w)
                /\ Goto(w, "read")
                /\ UNCHANGED <<runVars, job, snap, xid, usage, verdict>>
             \/ /\ valid /\ fits /\ ~isRunningReconciliation(w)
                /\ QuotaRefuses(w)
             \/ /\ valid /\ fits /\ ~isRunningReconciliation(w)
                /\ QuotaDecision = "allowed"
                /\ BeginDispatch(r)
                /\ Goto(w, "create")
                /\ UNCHANGED <<job, snap, xid, usage, verdict>>
  /\ UNCHANGED <<remote, abandons, queueVars>>

-----------------------------------------------------------------------------
(* Calls to the runtime.  http-agent-runtime.client.ts turns every answer  *)
(* that is not 2xx into an error whose outcome is "failed" (the call had   *)
(* no effect) or "unknown" (it may have had one).                          *)

\* create: made; rejected (4xx); or unknown, made or not, with no id to ask for.
CreateExternal(w) ==
  LET r == Run(w) IN
  /\ pc[w] = "create"
  /\ \/ \E k \in 1 .. MaxCreates :
          /\ Runtime!RemoteCreate(<<r, k>>)
          /\ \/ /\ xid' = [xid EXCEPT ![w] = <<r, k>>]
                /\ Goto(w, "attach")
                /\ UNCHANGED <<job, snap, usage, verdict>>
             \/ ThenSettle(w, "UNKNOWN") /\ UNCHANGED usage
     \/ \E v \in {"FAILED", "UNKNOWN"} : ThenSettle(w, v) /\ UNCHANGED <<usage, remote>>
  /\ UNCHANGED <<runVars, queueVars, abandons>>

\* attachExternalRun; it throws when the run no longer awaits an external id.
Attach(w) ==
  /\ pc[w] = "attach"
  /\ attachExternalRun(Run(w), xid[w])
  /\ Goto(w, "execute")
  /\ UNCHANGED <<remote, queueVars, job, snap, xid, usage, verdict, abandons>>

\* execute: it reaches the runtime and the worker waits for the result, or it
\* fails in a way that is safe to ask about again.
ExecuteReached(w) ==
  /\ pc[w] = "execute"
  /\ Runtime!RemoteExecute(xid[w])
  /\ Goto(w, "read")
  /\ UNCHANGED <<runVars, queueVars, job, snap, xid, usage, verdict, abandons>>

ExecuteDeferred(w) ==
  /\ pc[w] = "execute"
  /\ ThenAck(w, "PENDING")
  /\ UNCHANGED <<runVars, remote, queueVars, abandons>>

\* What parseRuntimeRun accepts as the usage of an answer: a success whose
\* tokens are reported has some.
RuntimeUsage(answer) == IF answer = "succeeded" THEN UsageReports \ {0} ELSE UsageReports

\* The answer of execute or of a get (reconcileRunning repeats the get while
\* the run is running), and what settleRuntimeResult makes of it.  An answer
\* without text fails the run.
ReadAnswer(w) ==
  LET answer == remote[xid[w]] IN
  /\ pc[w] = "read"
  /\ \/ answer = "queued" /\ Goto(w, "execute") /\ UNCHANGED <<job, snap, xid, usage, verdict>>
     \/ /\ answer \in Runtime!RemoteTerminal
        /\ \E u \in RuntimeUsage(answer) :
             /\ usage' = [usage EXCEPT ![w] = u]
             /\ \/ /\ answer = "succeeded"
                   /\ Goto(w, "succeed")
                   /\ UNCHANGED <<job, snap, xid, verdict>>
                \/ ThenSettle(w, "FAILED")
  /\ UNCHANGED <<runVars, remote, queueVars, abandons>>

\* No result: still running at the deadline, or a transient error that is safe
\* to ask about again ...
ReadDeferred(w) ==
  /\ pc[w] = "read"
  /\ ThenAck(w, "PENDING")
  /\ UNCHANGED <<runVars, remote, queueVars, abandons>>

\* ... or a 404 (the runtime forgot the run), a mismatched or an invalid answer.
ReadLost(w) ==
  /\ pc[w] = "read"
  /\ ThenSettle(w, "UNKNOWN") /\ UNCHANGED usage
  /\ UNCHANGED <<runVars, remote, queueVars, abandons>>

-----------------------------------------------------------------------------
(* Settling the run, then the event.                                       *)

\* completeFailed and completeUnknown, in their own transaction.
Settle(w) ==
  /\ pc[w] = "settle"
  /\ completeTerminal(Run(w), verdict[w], usage[w])
  /\ ThenAck(w, verdict[w])
  /\ UNCHANGED <<remote, queueVars, abandons>>

\* completeSucceeded returns the stored answer when the run has one already,
\* and throws (see Abandon) when the run is final otherwise.
Succeed(w) ==
  /\ pc[w] = "succeed"
  /\ \/ completeSucceeded(Run(w), usage[w])
     \/ status[Run(w)] = "SUCCEEDED" /\ UNCHANGED <<runVars, queueVars>>
  /\ ThenAck(w, "PUBLISHED")
  /\ UNCHANGED <<remote, abandons>>

\* markPublished, markFailed, markUnknown, defer; a lost lease is only logged.
Ack(w) ==
  /\ pc[w] = "ack"
  /\ Transition(w, job[w], verdict[w])
  /\ Leave(w)
  /\ UNCHANGED <<runVars, remote, abandons>>

\* The handler ends without settling its event: the process is killed, or an
\* error that is not an AgentRuntimeRequestError is rethrown.
MustThrow(w) ==
  \/ pc[w] = "attach" /\ ~AwaitsExternal(Run(w))
  \/ pc[w] = "succeed" /\ ~ConfirmedExecution(Run(w)) /\ status[Run(w)] # "SUCCEEDED"

Abandon(w) ==
  /\ pc[w] # "idle"
  /\ MustThrow(w) \/ abandons < MaxAbandons
  /\ abandons' = IF MustThrow(w) THEN abandons ELSE abandons + 1
  /\ Leave(w)
  /\ UNCHANGED <<runVars, remote, queueVars>>

\* The lease of an event ends; under LeaseCoversHandler only when no handler
\* is still working on the event.
LeaseEnds(e) ==
  /\ LeaseCoversHandler => \A w \in Workers : job[w] # e
  /\ ExpireLease(e)
  /\ UNCHANGED <<runVars, remote, workerVars, abandons>>
=============================================================================
