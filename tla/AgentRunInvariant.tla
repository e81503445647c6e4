--------------------------- MODULE AgentRunInvariant ---------------------------
(***************************************************************************)
(* The inductive invariant behind the theorems of AgentRunProofs, and the  *)
(* steps of the run table as everything else in the system sees them.      *)
(***************************************************************************)
EXTENDS AgentRunSystem

\* A handler away from "idle" holds an event that has been written, and an
\* event that has been written names a run that exists in a conversation.
JobsAreEvents ==
  /\ \A w \in Workers : pc[w] # "idle" => job[w] \in Events /\ evStatus[job[w]] # "ABSENT"
  /\ \A e \in Events : evStatus[e] # "ABSENT" => Exists(e[1])
  /\ \A r \in Runs : Exists(r) => conv[r] \in Conversations

\* What a handler's local variables hold at each of its places: an external
\* run of its own run while it talks to the runtime, a usage report only
\* between reading an answer and settling it, an outcome when it settles one.
LocalsFit ==
  \A w \in Workers :
    /\ pc[w] \in {"attach", "execute", "read", "succeed"} => xid[w] \in Runtime!Externals
    /\ pc[w] \in {"idle", "snapshot", "retrieve", "create", "attach", "execute", "read"} => usage[w] = Unreported
    /\ pc[w] = "settle" => verdict[w] = "FAILED" \/ (verdict[w] = "UNKNOWN" /\ usage[w] = Unreported)

\* Some handler has begun to dispatch the run.
Dispatched(r) == status[r] \notin {"NONE", "QUEUED"}

\* A stop that calls the runtime, or a reconciliation, has a run that has an
\* external run.
RequestsKnown ==
  \A r \in Runs : stopping[r] # "none" \/ reconciling[r] => Dispatched(r) /\ ext[r] # NoExt

\* A handler that talks to the runtime, or is about to settle its run, has a
\* run that some handler has dispatched.
PastDispatch(w) == pc[w] \in {"create", "attach", "execute", "read", "succeed", "settle"}

HandlersDispatched == \A w \in Workers : PastDispatch(w) => Dispatched(Run(w))

\* What every step can rely on.
Sound == TypeOK /\ JobsAreEvents /\ LocalsFit /\ RequestsKnown /\ HandlersDispatched

\* Nothing has been created for a run before its dispatch, nor while the one
\* handler that dispatched it is about to create; afterwards there is one.
NothingBeforeDispatch ==
  \A r \in Runs : status[r] \in {"NONE", "QUEUED"} => Runtime!Created(r) = {}

DispatcherIsAlone ==
  \A w \in Workers : pc[w] = "create" =>
    /\ Runtime!Created(Run(w)) = {}
    /\ \A v \in Workers : pc[v] = "create" /\ Run(v) = Run(w) => v = w

CreatedAreSame ==
  \A r \in Runs : \A x, y \in Runtime!Created(r) : x = y

CreatedOnce == NothingBeforeDispatch /\ DispatcherIsAlone /\ CreatedAreSame

-----------------------------------------------------------------------------
\* Every step of the system, seen from agent_runs.
Finishes(r) ==
  /\ Exists(r) /\ ~isTerminal(r)
  /\ \E s \in {"FAILED", "UNKNOWN", "CANCELLED"}, u \in UsageReports :
       /\ s = "UNKNOWN" => u = Unreported /\ Dispatched(r)
       /\ u # Unreported => Dispatched(r)
       /\ markRunTerminal(r, s, u)

Dispatches(r) == status[r] = "QUEUED" /\ QuotaDecision = "allowed" /\ BeginDispatch(r)

Attaches(r) == \E x \in Runtime!Externals : attachExternalRun(r, x)

Answers(r) == \E u \in UsageReports : completeSucceeded(r, u)

Reopens(r) ==
  /\ status[r] = "UNKNOWN" /\ ext[r] # NoExt
  /\ status' = [status EXCEPT ![r] = "RUNNING"]
  /\ UNCHANGED <<conv, turn, parent, ext, reserved, used, recent, answers>>

RunTableStep ==
  \/ UNCHANGED runVars
  \/ \E c \in Conversations : CreateUserMessage(c)
  \/ \E r \in Runs : \/ Retry(r)
                     \/ Dispatches(r)
                     \/ Attaches(r)
                     \/ Answers(r)
                     \/ Finishes(r)
                     \/ persistCancellation(r)
                     \/ Reopens(r)
  \/ MinutePasses
  \/ MonthStarts

SeenFromTheTable == [][RunTableStep]_vars
=============================================================================
