---------------------------- MODULE AgentRunProofs ----------------------------
(***************************************************************************)
(* Theorems about AgentRunSystem for every number of runs, conversations,  *)
(* workers, crashes and reconciliations, and every limit.                  *)
(***************************************************************************)
EXTENDS AgentRunInvariant, FiniteSetTheorems, TLAPS

USE DEF runVars, queueVars, workerVars, controlVars

LEMMA InitSound == Init => Sound
BY RunsAssumption, WorkerAssumption, LimitsAssumption, ConversationsAssumption
   DEF Init, RunInit, QueueInit, WorkerInit, ControlInit, Runtime!RuntimeInit, Sound, TypeOK,
       RunTypeOK, HandlerTypeOK, ControlTypeOK, JobsAreEvents, LocalsFit, RequestsKnown,
       HandlersDispatched, PastDispatch, QueueTypeOK, Runtime!RuntimeTypeOK, EventStatus, Runtime!RemoteStatus,
       RunStatus, Places, Verdicts, UsageReports, Exists

-----------------------------------------------------------------------------
(* Every step is one of the run table's.                                   *)

\* What the two transactions of prepare do to the table.
LEMMA PrepareSeen ==
  ASSUME Sound, NEW w \in Workers, PrepareSnapshot(w) \/ PrepareDispatch(w)
  PROVE  RunTableStep
<1>1. Run(w) \in Runs /\ Exists(Run(w))
  BY DEF Sound, JobsAreEvents, PrepareSnapshot, PrepareDispatch, Run, Events, Exists
<1>2. FailRun(w) /\ ~isTerminal(Run(w)) => Finishes(Run(w))
  BY <1>1 DEF FailRun, Finishes, UsageReports
<1>3. QuotaRefuses(w) /\ ~isTerminal(Run(w)) => Finishes(Run(w)) \/ UNCHANGED runVars
  BY <1>2 DEF QuotaRefuses, Defer
<1>4. status[Run(w)] = "QUEUED" => ~isTerminal(Run(w))
  BY DEF isTerminal, TERMINAL_STATUSES
<1>5. isRunningReconciliation(w) => ~isTerminal(Run(w))
  BY DEF isRunningReconciliation, isTerminal, TERMINAL_STATUSES
<1>6. CASE PrepareSnapshot(w)
  BY <1>1, <1>2, <1>3, <1>4, <1>6
     DEF PrepareSnapshot, RunTableStep, FoundTerminal, Ambiguous, Defer
<1>7. CASE PrepareDispatch(w)
  BY <1>1, <1>2, <1>3, <1>4, <1>5, <1>7
     DEF PrepareDispatch, RunTableStep, FoundTerminal, Ambiguous, Dispatches, StillQueued, isTerminal
<1> QED BY <1>6, <1>7

\* What settling does to the table.
LEMMA SettleSeen ==
  ASSUME Sound, NEW w \in Workers, Settle(w) \/ Succeed(w)
  PROVE  RunTableStep
<1>1. Run(w) \in Runs /\ Exists(Run(w))
  BY DEF Sound, JobsAreEvents, Settle, Succeed, Run, Events, Exists
<1>2. usage[w] \in UsageReports
  BY DEF Sound, TypeOK, HandlerTypeOK
<1>3. CASE Settle(w)
  <2>1. /\ Dispatched(Run(w))
        /\ verdict[w] = "FAILED" \/ (verdict[w] = "UNKNOWN" /\ usage[w] = Unreported)
    BY <1>3 DEF Sound, LocalsFit, HandlersDispatched, PastDispatch, Settle
  <2> QED BY <1>1, <1>2, <1>3, <2>1 DEF Settle, completeTerminal, Finishes, RunTableStep
<1>4. CASE Succeed(w)
  BY <1>1, <1>2, <1>4 DEF Succeed, Answers, RunTableStep
<1> QED BY <1>3, <1>4

\* What the control service does to the table.
LEMMA ControlSeen ==
  ASSUME Sound, NEW r \in Runs, ControlStep(r)
  PROVE  RunTableStep
<1>1. CASE CancelQueued(r)
  BY <1>1 DEF CancelQueued, RunTableStep
<1>2. CASE CancelCommit(r)
  BY <1>2 DEF CancelCommit, RunTableStep, Finishes, Sound, RequestsKnown, Dispatched, Exists
<1>3. CASE RetryRun(r)
  BY <1>3 DEF RetryRun, RunTableStep
<1>4. CASE ReconcileCommit(r)
  BY <1>4 DEF ReconcileCommit, RunTableStep, Reopens, Sound, RequestsKnown
<1>5. CASE CancelRead(r) \/ CancelCall(r) \/ ReconcileRead(r) \/ ControlCrash(r)
  BY <1>5 DEF CancelRead, CancelCall, ReconcileRead, ControlCrash, RunTableStep
<1> QED BY <1>1, <1>2, <1>3, <1>4, <1>5 DEF ControlStep

LEMMA StepSeen ==
  ASSUME Sound, [Next]_vars
  PROVE  RunTableStep
<1>1. ASSUME NEW w \in Workers, WorkerStep(w)
      PROVE  RunTableStep
  <2>1. CASE PrepareSnapshot(w) \/ PrepareDispatch(w)
    BY <2>1, PrepareSeen
  <2>2. CASE Settle(w) \/ Succeed(w)
    BY <2>2, SettleSeen
  <2>3. CASE Attach(w)
    <3>1. Run(w) \in Runs /\ xid[w] \in Runtime!Externals
      BY <2>3 DEF Sound, JobsAreEvents, LocalsFit, Attach, Run, Events
    <3> QED BY <2>3, <3>1 DEF Attach, Attaches, RunTableStep
  <2>4. CASE \/ \E e \in Events : ClaimEvent(w, e)
             \/ CreateExternal(w) \/ ExecuteReached(w) \/ ExecuteDeferred(w) \/ ReadAnswer(w)
             \/ ReadDeferred(w) \/ ReadLost(w) \/ Ack(w) \/ Abandon(w)
    BY <2>4 DEF ClaimEvent, CreateExternal, ExecuteReached, ExecuteDeferred, ReadAnswer, RuntimeUsage,
                ReadDeferred, ReadLost, Ack, Abandon, RunTableStep
  <2> QED BY <1>1, <2>1, <2>2, <2>3, <2>4 DEF WorkerStep
<1>2. CASE \E c \in Conversations : SendMessage(c)
  BY <1>2 DEF SendMessage, RunTableStep
<1>3. CASE \/ \E e \in Events : LeaseEnds(e)
           \/ \E x \in Runtime!Externals : RemoteFinishes(x)
           \/ RemoteRestarts \/ MinutePassed \/ MonthStarted
  BY <1>3 DEF LeaseEnds, RemoteFinishes, RemoteRestarts, MinutePassed, MonthStarted, RunTableStep
<1>4. CASE UNCHANGED vars
  BY <1>4 DEF vars, RunTableStep
<1> QED BY <1>1, <1>2, <1>3, <1>4, ControlSeen DEF Next

-----------------------------------------------------------------------------
(* Steps of the run table keep its types, and keep what has been written.  *)

\* Rows are never deleted, a run stays in its conversation and keeps the
\* external run it was given.
Kept ==
  \A r \in Runs :
    /\ Exists(r) => status'[r] # "NONE" /\ conv'[r] = conv[r]
    /\ Dispatched(r) => status'[r] \notin {"NONE", "QUEUED"}
    /\ ext[r] # NoExt => ext'[r] = ext[r]
    /\ status'[r] # "NONE" => conv'[r] \in Conversations

\* What an insert writes, whatever the step has written to st before.
LEMMA InsertTyped ==
  ASSUME Sound, NEW r \in Runs, NEW c \in Conversations, NEW t \in 1 .. 8, NEW p \in Runs \cup {NoRun},
         NEW st \in [Runs -> RunStatus \cup {"NONE"}], InsertRun(st, r, c, t, p),
         \A q \in Runs : status[q] # "NONE" <=> st[q] # "NONE",
         \A q \in Runs : Dispatched(q) => st[q] \notin {"NONE", "QUEUED"}
  PROVE  /\ status' \in [Runs -> RunStatus \cup {"NONE"}]
         /\ conv' \in [Runs -> Conversations \cup {NoConversation}]
         /\ turn' \in [Runs -> 1 .. 8]
         /\ parent' \in [Runs -> Runs \cup {NoRun}]
         /\ \A q \in Runs : Exists(q) => status'[q] # "NONE" /\ conv'[q] = conv[q]
         /\ \A q \in Runs : status'[q] # "NONE" => conv'[q] \in Conversations
         /\ \A q \in Runs : Dispatched(q) => status'[q] \notin {"NONE", "QUEUED"}
BY RunsAssumption
   DEF Sound, TypeOK, RunTypeOK, JobsAreEvents, InsertRun, IsNextRun, Exists, RunStatus, Dispatched

LEMMA RecordTyped ==
  ASSUME Sound, NEW r \in Runs, NEW u \in UsageReports, RecordUsage(r, u)
  PROVE  reserved' \in [Runs -> BOOLEAN] /\ used' \in [Runs -> Nat]
<1>1. reserved \in [Runs -> BOOLEAN] /\ used \in [Runs -> Nat]
  BY DEF Sound, TypeOK, RunTypeOK
<1>2. u # Unreported => u \in Nat
  BY LimitsAssumption DEF UsageReports
<1> QED BY <1>1, <1>2 DEF RecordUsage

LEMMA TableTyped ==
  ASSUME Sound, RunTableStep
  PROVE  RunTypeOK' /\ Kept
<1> USE DEF Sound, TypeOK, RunTypeOK, Kept, Dispatched
<1>1. \A r \in Runs : Exists(r) => conv[r] \in Conversations
  BY DEF JobsAreEvents
<1>2. ASSUME NEW c \in Conversations, CreateUserMessage(c)
      PROVE  RunTypeOK' /\ Kept
  <2>1. PICK n \in Runs : InsertRun(status, n, c, 1, NoRun)
    BY <1>2 DEF CreateUserMessage
  <2>2. 1 \in 1 .. 8 /\ NoRun \in Runs \cup {NoRun}
    OBVIOUS
  <2>3. UNCHANGED <<ext, reserved, used, recent, answers>>
    BY <1>2 DEF CreateUserMessage
  <2> QED BY <2>1, <2>2, <2>3, InsertTyped
<1>3. ASSUME NEW r \in Runs, Retry(r)
      PROVE  RunTypeOK' /\ Kept
  <2>1. conv[r] \in Conversations
    BY <1>1, <1>3 DEF Retry, RetryAllowed, Exists
  <2> QED BY <1>3, <2>1, InsertTyped DEF Retry
<1>4. ASSUME NEW r \in Runs, Answers(r)
      PROVE  RunTypeOK' /\ Kept
  <2> DEFINE answered == [status EXCEPT ![r] = "SUCCEEDED"]
  <2>1. PICK u \in UsageReports : completeSucceeded(r, u)
    BY <1>4 DEF Answers
  <2>2. Exists(r) /\ conv[r] \in Conversations
    BY <1>1, <2>1 DEF completeSucceeded, enqueueNextRelayRun, ConfirmedExecution, Exists
  <2>3. /\ answered \in [Runs -> RunStatus \cup {"NONE"}]
        /\ \A q \in Runs : status[q] # "NONE" <=> answered[q] # "NONE"
        /\ \A q \in Runs : Dispatched(q) => answered[q] \notin {"NONE", "QUEUED"}
    BY <2>2 DEF RunStatus, Exists
  <2>4. answers' \in [Runs -> Nat] /\ reserved' \in [Runs -> BOOLEAN] /\ used' \in [Runs -> Nat]
          /\ UNCHANGED <<ext, recent>>
    BY <2>1, RecordTyped DEF completeSucceeded, enqueueNextRelayRun
  <2>5. CASE turn[r] < TurnLimit[conv[r]]
    <3>1. PICK n \in Runs : InsertRun(answered, n, conv[r], turn[r] + 1, r)
      BY <2>1, <2>5 DEF completeSucceeded, enqueueNextRelayRun
    <3>2. turn[r] + 1 \in 1 .. 8
      BY <2>2, <2>5, ConversationsAssumption
    <3> QED BY <2>2, <2>3, <2>4, <3>1, <3>2, InsertTyped DEF Exists
  <2>6. CASE ~(turn[r] < TurnLimit[conv[r]])
    <3>1. status' = answered /\ UNCHANGED <<conv, turn, parent>>
      BY <2>1, <2>6 DEF completeSucceeded, enqueueNextRelayRun
    <3> QED BY <1>1, <2>3, <2>4, <3>1 DEF Exists
  <2> QED BY <2>5, <2>6
<1>5. ASSUME NEW r \in Runs, Finishes(r)
      PROVE  RunTypeOK' /\ Kept
  <2>1. PICK s \in {"FAILED", "UNKNOWN", "CANCELLED"}, u \in UsageReports : markRunTerminal(r, s, u)
    BY <1>5 DEF Finishes
  <2>2. reserved' \in [Runs -> BOOLEAN] /\ used' \in [Runs -> Nat]
    BY <2>1, RecordTyped DEF markRunTerminal
  <2> QED BY <1>1, <1>5, <2>1, <2>2 DEF Finishes, markRunTerminal, RunStatus, Exists
<1>6. ASSUME NEW r \in Runs, Dispatches(r) \/ Attaches(r) \/ persistCancellation(r) \/ Reopens(r)
      PROVE  RunTypeOK' /\ Kept
  <2>1. CASE Dispatches(r)
    BY <1>1, <2>1 DEF Dispatches, BeginDispatch, RunStatus, Exists
  <2>2. CASE Attaches(r)
    BY <1>1, <2>2 DEF Attaches, attachExternalRun, AwaitsExternal, RunStatus, Exists
  <2>3. CASE persistCancellation(r)
    BY <1>1, <2>3 DEF persistCancellation, RunStatus, Exists
  <2>4. CASE Reopens(r)
    BY <1>1, <2>4 DEF Reopens, RunStatus, Exists
  <2> QED BY <1>6, <2>1, <2>2, <2>3, <2>4
<1>7. CASE MinutePasses \/ MonthStarts \/ UNCHANGED runVars
  BY <1>1, <1>7 DEF MinutePasses, MonthStarts, Exists
<1> QED BY <1>2, <1>3, <1>4, <1>5, <1>6, <1>7 DEF RunTableStep

-----------------------------------------------------------------------------
(* Events are written with their runs, and never taken back.               *)

EventsKept ==
  \A e \in Events :
    /\ evStatus[e] # "ABSENT" => evStatus'[e] # "ABSENT"
    /\ evStatus'[e] # "ABSENT" => evStatus[e] # "ABSENT" \/ status'[e[1]] # "NONE"

LEMMA PublishTyped ==
  ASSUME Sound, NEW e \in Events, Publish(e), UNCHANGED <<lockedBy, leaseLive>>, status'[e[1]] # "NONE"
  PROVE  QueueTypeOK' /\ EventsKept
BY DEF Sound, TypeOK, QueueTypeOK, Publish, EventStatus, EventsKept

LEMMA InsertPublishes ==
  ASSUME Sound, NEW r \in Runs, NEW c, NEW t, NEW p, NEW st \in [Runs -> RunStatus \cup {"NONE"}],
         InsertRun(st, r, c, t, p), UNCHANGED <<lockedBy, leaseLive>>
  PROVE  QueueTypeOK' /\ EventsKept
<1>1. <<r, 0>> \in Events
  BY LimitsAssumption DEF Events
<1>2. Publish(<<r, 0>>) /\ status'[r] = "QUEUED"
  BY DEF InsertRun
<1> QED BY <1>1, <1>2, PublishTyped

LEMMA QueueUntouched ==
  ASSUME Sound, UNCHANGED queueVars
  PROVE  QueueTypeOK' /\ EventsKept
BY DEF Sound, TypeOK, QueueTypeOK, EventsKept

LEMMA AckTyped ==
  ASSUME Sound, NEW w \in Workers, Ack(w)
  PROVE  QueueTypeOK' /\ EventsKept
<1>1. verdict[w] \in EventStatus \ {"ABSENT"} /\ NoWorker \in Workers \cup {NoWorker}
  BY DEF Sound, TypeOK, HandlerTypeOK, Verdicts, EventStatus
<1>2. CASE OwnsEvent(w, job[w])
  <2>1. /\ evStatus' = [evStatus EXCEPT ![job[w]] = verdict[w]]
        /\ lockedBy' = [lockedBy EXCEPT ![job[w]] = NoWorker]
        /\ leaseLive' = [leaseLive EXCEPT ![job[w]] = FALSE]
    BY <1>2 DEF Ack, Transition
  <2> QED BY <1>1, <1>2, <2>1 DEF OwnsEvent, Sound, TypeOK, QueueTypeOK, EventsKept
<1>3. CASE ~OwnsEvent(w, job[w])
  BY <1>3, QueueUntouched DEF Ack, Transition
<1> QED BY <1>2, <1>3

LEMMA QueueTyped ==
  ASSUME Sound, [Next]_vars
  PROVE  QueueTypeOK' /\ EventsKept
<1>1. ASSUME NEW w \in Workers, WorkerStep(w)
      PROVE  QueueTypeOK' /\ EventsKept
  <2>1. ASSUME NEW e \in Events, ClaimEvent(w, e)
        PROVE  QueueTypeOK' /\ EventsKept
    BY <2>1 DEF ClaimEvent, Claim, Sound, TypeOK, QueueTypeOK, EventsKept
  <2>2. CASE Succeed(w)
    <3>1. CASE UNCHANGED queueVars
      BY <3>1, QueueUntouched
    <3>2. CASE completeSucceeded(Run(w), usage[w])
      <4> DEFINE answered == [status EXCEPT ![Run(w)] = "SUCCEEDED"]
      <4>1. answered \in [Runs -> RunStatus \cup {"NONE"}]
        BY DEF Sound, TypeOK, RunTypeOK, RunStatus
      <4>2. CASE turn[Run(w)] < TurnLimit[conv[Run(w)]]
        <5>1. \E n \in Runs : InsertRun(answered, n, conv[Run(w)], turn[Run(w)] + 1, Run(w))
          BY <3>2, <4>2 DEF completeSucceeded, enqueueNextRelayRun
        <5>2. UNCHANGED <<lockedBy, leaseLive>>
          BY <3>2 DEF completeSucceeded, enqueueNextRelayRun
        <5> QED BY <4>1, <5>1, <5>2, InsertPublishes
      <4>3. CASE ~(turn[Run(w)] < TurnLimit[conv[Run(w)]])
        BY <3>2, <4>3, QueueUntouched DEF completeSucceeded, enqueueNextRelayRun
      <4> QED BY <4>2, <4>3
    <3> QED BY <2>2, <3>1, <3>2 DEF Succeed
  <2>3. CASE Ack(w)
    BY <2>3, AckTyped
  <2>4. CASE \/ PrepareSnapshot(w) \/ PrepareDispatch(w) \/ CreateExternal(w) \/ Attach(w)
             \/ ExecuteReached(w) \/ ExecuteDeferred(w) \/ ReadAnswer(w) \/ ReadDeferred(w)
             \/ ReadLost(w) \/ Settle(w) \/ Abandon(w)
    BY <2>4, QueueUntouched
       DEF PrepareSnapshot, PrepareDispatch, CreateExternal, Attach, ExecuteReached,
           ExecuteDeferred, ReadAnswer, RuntimeUsage, ReadDeferred, ReadLost, Settle, Abandon
  <2> QED BY <1>1, <2>1, <2>2, <2>3, <2>4 DEF WorkerStep
<1>2. ASSUME NEW c \in Conversations, SendMessage(c)
      PROVE  QueueTypeOK' /\ EventsKept
  <2>1. (\E r \in Runs : InsertRun(status, r, c, 1, NoRun)) /\ UNCHANGED <<lockedBy, leaseLive>>
    BY <1>2 DEF SendMessage, CreateUserMessage
  <2> QED BY <2>1, InsertPublishes DEF Sound, TypeOK, RunTypeOK
<1>3. ASSUME NEW r \in Runs, ControlStep(r)
      PROVE  QueueTypeOK' /\ EventsKept
  <2>1. CASE RetryRun(r)
    <3>1. /\ \E n \in Runs : InsertRun(status, n, conv[r], turn[r], NoRun)
          /\ UNCHANGED <<lockedBy, leaseLive>>
      BY <2>1 DEF RetryRun, Retry
    <3> QED BY <3>1, InsertPublishes DEF Sound, TypeOK, RunTypeOK
  <2>2. CASE ReconcileCommit(r)
    <3>1. CASE UNCHANGED queueVars
      BY <3>1, QueueUntouched
    <3>2. CASE PublishReconciliation(r) /\ status' = [status EXCEPT ![r] = "RUNNING"]
      <4>1. PICK k \in 1 .. MaxReconciles : Publish(<<r, k>>)
        BY <3>2 DEF PublishReconciliation
      <4>2. <<r, k>> \in Events /\ status'[r] # "NONE"
        BY <3>2, LimitsAssumption DEF Events, Sound, TypeOK, RunTypeOK
      <4> QED BY <2>2, <4>1, <4>2, PublishTyped DEF ReconcileCommit
    <3> QED BY <2>2, <3>1, <3>2 DEF ReconcileCommit
  <2>3. CASE CancelQueued(r) \/ CancelRead(r) \/ CancelCall(r) \/ CancelCommit(r)
             \/ ReconcileRead(r) \/ ControlCrash(r)
    BY <2>3, QueueUntouched
       DEF CancelQueued, CancelRead, CancelCall, CancelCommit, ReconcileRead, ControlCrash
  <2> QED BY <1>3, <2>1, <2>2, <2>3 DEF ControlStep
<1>4. ASSUME NEW e \in Events, LeaseEnds(e)
      PROVE  QueueTypeOK' /\ EventsKept
  BY <1>4 DEF LeaseEnds, ExpireLease, Sound, TypeOK, QueueTypeOK, EventsKept
<1>5. CASE \/ \E x \in Runtime!Externals : RemoteFinishes(x)
           \/ RemoteRestarts \/ MinutePassed \/ MonthStarted \/ UNCHANGED vars
  BY <1>5, QueueUntouched DEF RemoteFinishes, RemoteRestarts, MinutePassed, MonthStarted, Elsewhere, vars
<1> QED BY <1>1, <1>2, <1>3, <1>4, <1>5 DEF Next

-----------------------------------------------------------------------------
(* A handler's locals stay typed and fit its place.                        *)

\* A handler that is not idle after a step held its event before, or claimed
\* an event that has been written.
JobsKept ==
  \A w \in Workers : pc'[w] # "idle" =>
    /\ job'[w] \in Events
    /\ evStatus[job'[w]] # "ABSENT"

HandlersOK == HandlerTypeOK' /\ LocalsFit' /\ JobsKept

LEMMA ThenAckFits ==
  ASSUME Sound, NEW w \in Workers, NEW v \in Verdicts, ThenAck(w, v), pc[w] # "idle", UNCHANGED abandons
  PROVE  HandlersOK
BY DEF Sound, TypeOK, HandlerTypeOK, JobsAreEvents, LocalsFit, HandlersOK, JobsKept, ThenAck, Goto, Places

LEMMA ThenSettleFits ==
  ASSUME Sound, NEW w \in Workers, NEW v, ThenSettle(w, v), pc[w] # "idle", UNCHANGED abandons,
         usage' \in [Workers -> UsageReports], \A u \in Workers : u # w => usage'[u] = usage[u],
         v = "FAILED" \/ (v = "UNKNOWN" /\ usage'[w] = Unreported)
  PROVE  HandlersOK
BY DEF Sound, TypeOK, HandlerTypeOK, JobsAreEvents, LocalsFit, HandlersOK, JobsKept, ThenSettle, Goto,
       Places, Verdicts

LEMMA LeaveFits ==
  ASSUME Sound, NEW w \in Workers, Leave(w), abandons' \in Nat
  PROVE  HandlersOK
BY DEF Sound, TypeOK, HandlerTypeOK, JobsAreEvents, LocalsFit, HandlersOK, JobsKept, Leave,
       Places, Verdicts, UsageReports, RunStatus

\* Moving on with the locals as they are, to a place they fit.
LEMMA GotoFits ==
  ASSUME Sound, NEW w \in Workers, NEW p \in Places \ {"idle", "settle"}, Goto(w, p), pc[w] # "idle",
         UNCHANGED <<job, usage, verdict, abandons>>,
         snap' \in [Workers -> RunStatus \cup {"NONE"}],
         xid' \in [Workers -> Runtime!Externals \cup {NoExt}],
         \A u \in Workers : u # w => xid'[u] = xid[u],
         p \in {"attach", "execute", "read", "succeed"} => xid'[w] \in Runtime!Externals,
         p \in {"snapshot", "retrieve", "create", "attach", "execute", "read"} => usage[w] = Unreported
  PROVE  HandlersOK
BY DEF Sound, TypeOK, HandlerTypeOK, JobsAreEvents, LocalsFit, HandlersOK, JobsKept, Goto, Places

LEMMA HandlersUntouched ==
  ASSUME Sound, UNCHANGED <<workerVars, abandons>>
  PROVE  HandlersOK
BY DEF Sound, TypeOK, HandlerTypeOK, JobsAreEvents, LocalsFit, HandlersOK, JobsKept

LEMMA ClaimFits ==
  ASSUME Sound, NEW w \in Workers, NEW e \in Events, ClaimEvent(w, e)
  PROVE  HandlersOK
<1>1. evStatus[e] # "ABSENT"
  BY DEF ClaimEvent, Claim, Claimable
<1>2. Goto(w, "snapshot") /\ job' = [job EXCEPT ![w] = e] /\ UNCHANGED <<snap, xid, usage, verdict, abandons>>
  BY DEF ClaimEvent
<1>3. usage[w] = Unreported
  BY DEF ClaimEvent, Sound, LocalsFit
<1> QED
  BY <1>1, <1>2, <1>3
     DEF Sound, TypeOK, HandlerTypeOK, JobsAreEvents, LocalsFit, HandlersOK, JobsKept, Goto, Places

LEMMA PrepareFits ==
  ASSUME Sound, NEW w \in Workers, PrepareSnapshot(w) \/ PrepareDispatch(w)
  PROVE  HandlersOK
<1>1. /\ pc[w] \in {"snapshot", "retrieve"} /\ UNCHANGED abandons
      /\ usage[w] = Unreported /\ usage \in [Workers -> UsageReports]
  BY DEF PrepareSnapshot, PrepareDispatch, Sound, TypeOK, HandlerTypeOK, LocalsFit
<1>2. Run(w) \in Runs
  BY <1>1 DEF Sound, JobsAreEvents, Run, Events
<1>3. FailRun(w) \/ Defer(w) \/ QuotaRefuses(w) => HandlersOK
  BY <1>1, ThenAckFits DEF FailRun, Defer, QuotaRefuses, Verdicts
<1>4. FoundTerminal(w) => HandlersOK
  BY <1>1, ThenAckFits DEF FoundTerminal, isTerminal, TERMINAL_STATUSES, TerminalVerdict, Verdicts
<1>5. Ambiguous(w) => HandlersOK
  BY <1>1, ThenSettleFits DEF Ambiguous
<1>6. snap \in [Workers -> RunStatus \cup {"NONE"}] /\ xid \in [Workers -> Runtime!Externals \cup {NoExt}]
  BY DEF Sound, TypeOK, HandlerTypeOK
<1>7. CASE PrepareSnapshot(w)
  <2>1. CASE /\ Goto(w, "retrieve")
             /\ snap' = [snap EXCEPT ![w] = status[Run(w)]]
             /\ xid' = [xid EXCEPT ![w] = ext[Run(w)]]
             /\ UNCHANGED <<job, usage, verdict>>
    <3>1. status[Run(w)] \in RunStatus \cup {"NONE"} /\ ext[Run(w)] \in Runtime!Externals \cup {NoExt}
      BY <1>2 DEF Sound, TypeOK, RunTypeOK
    <3>2. "retrieve" \in Places \ {"idle", "settle"}
      BY DEF Places
    <3> QED BY <1>1, <1>6, <2>1, <3>1, <3>2, GotoFits
  <2> QED BY <1>3, <1>4, <1>5, <1>7, <2>1 DEF PrepareSnapshot
<1>8. CASE PrepareDispatch(w)
  <2>1. CASE isRunningReconciliation(w) /\ Goto(w, "read") /\ UNCHANGED <<job, snap, xid, usage, verdict>>
    <3>1. xid[w] \in Runtime!Externals
      BY <1>6, <2>1 DEF isRunningReconciliation
    <3>2. "read" \in Places \ {"idle", "settle"}
      BY DEF Places
    <3> QED BY <1>1, <1>6, <2>1, <3>1, <3>2, GotoFits
  <2>2. CASE Goto(w, "create") /\ UNCHANGED <<job, snap, xid, usage, verdict>>
    <3>1. "create" \in Places \ {"idle", "settle"}
      BY DEF Places
    <3> QED BY <1>1, <1>6, <2>2, <3>1, GotoFits
  <2> QED BY <1>3, <1>4, <1>5, <1>8, <2>1, <2>2 DEF PrepareDispatch
<1> QED BY <1>7, <1>8

LEMMA CallsFit ==
  ASSUME Sound, NEW w \in Workers,
         \/ CreateExternal(w) \/ Attach(w) \/ ExecuteReached(w) \/ ExecuteDeferred(w)
         \/ ReadAnswer(w) \/ ReadDeferred(w) \/ ReadLost(w)
  PROVE  HandlersOK
<1>1. /\ pc[w] \in {"create", "attach", "execute", "read"} /\ UNCHANGED abandons
      /\ usage[w] = Unreported
      /\ pc[w] # "create" => xid[w] \in Runtime!Externals
  BY DEF CreateExternal, Attach, ExecuteReached, ExecuteDeferred, ReadAnswer, RuntimeUsage, ReadDeferred,
         ReadLost,
         Sound, LocalsFit
<1>2. /\ snap \in [Workers -> RunStatus \cup {"NONE"}] /\ xid \in [Workers -> Runtime!Externals \cup {NoExt}]
      /\ usage \in [Workers -> UsageReports]
  BY DEF Sound, TypeOK, HandlerTypeOK
<1>3. {"attach", "execute", "read", "succeed"} \subseteq Places \ {"idle", "settle"}
  BY DEF Places
<1>4. CASE CreateExternal(w)
  <2>1. ASSUME NEW k \in 1 .. MaxCreates, xid' = [xid EXCEPT ![w] = <<Run(w), k>>],
               Goto(w, "attach"), UNCHANGED <<job, snap, usage, verdict>>
        PROVE  HandlersOK
    <3>1. <<Run(w), k>> \in Runtime!Externals
      BY <1>1 DEF Sound, JobsAreEvents, Run, Events, Runtime!Externals
    <3> QED BY <1>1, <1>2, <1>3, <2>1, <3>1, GotoFits
  <2>2. ASSUME NEW v \in {"FAILED", "UNKNOWN"}, ThenSettle(w, v), UNCHANGED usage
        PROVE  HandlersOK
    BY <1>1, <1>2, <2>2, ThenSettleFits
  <2> QED BY <1>4, <2>1, <2>2 DEF CreateExternal
<1>5. CASE Attach(w)
  BY <1>1, <1>2, <1>3, <1>5, GotoFits DEF Attach
<1>6. CASE ExecuteReached(w)
  BY <1>1, <1>2, <1>3, <1>6, GotoFits DEF ExecuteReached
<1>7. CASE ExecuteDeferred(w) \/ ReadDeferred(w)
  BY <1>1, <1>7, ThenAckFits DEF ExecuteDeferred, ReadDeferred, Verdicts
<1>8. CASE ReadLost(w)
  BY <1>1, <1>2, <1>8, ThenSettleFits DEF ReadLost
<1>9. CASE ReadAnswer(w)
  <2>1. CASE Goto(w, "execute") /\ UNCHANGED <<job, snap, xid, usage, verdict>>
    <3>1. "execute" \in Places \ {"idle", "settle"} /\ xid[w] \in Runtime!Externals
      BY <1>1, <1>3, <1>9 DEF ReadAnswer, RuntimeUsage
    <3> QED BY <1>1, <1>2, <2>1, <3>1, GotoFits
  <2>2. ASSUME NEW u \in UsageReports, usage' = [usage EXCEPT ![w] = u], Goto(w, "succeed"),
               UNCHANGED <<job, snap, xid, verdict>>
        PROVE  HandlersOK
    <3>1. pc[w] = "read" /\ xid[w] \in Runtime!Externals
      BY <1>1, <1>9 DEF ReadAnswer, RuntimeUsage
    <3>2. HandlerTypeOK'
      BY <1>1, <2>2 DEF Sound, TypeOK, HandlerTypeOK, Goto, Places
    <3>3. LocalsFit'
      BY <1>1, <2>2, <3>1 DEF Sound, TypeOK, HandlerTypeOK, LocalsFit, Goto
    <3>4. JobsKept
      BY <2>2, <3>1 DEF Sound, TypeOK, HandlerTypeOK, JobsAreEvents, JobsKept, Goto
    <3> QED BY <3>2, <3>3, <3>4 DEF HandlersOK
  <2>3. ASSUME NEW u \in UsageReports, usage' = [usage EXCEPT ![w] = u], ThenSettle(w, "FAILED")
        PROVE  HandlersOK
    BY <1>1, <1>2, <2>3, ThenSettleFits
  <2> QED BY <1>9, <2>1, <2>2, <2>3 DEF ReadAnswer, RuntimeUsage
<1> QED BY <1>4, <1>5, <1>6, <1>7, <1>8, <1>9

LEMMA HandlersFit ==
  ASSUME Sound, [Next]_vars
  PROVE  HandlersOK
<1>1. ASSUME NEW w \in Workers, WorkerStep(w)
      PROVE  HandlersOK
  <2>1. CASE Settle(w) \/ Succeed(w)
    <3>1. verdict[w] \in Verdicts /\ "PUBLISHED" \in Verdicts
      BY DEF Sound, TypeOK, HandlerTypeOK, Verdicts
    <3> QED BY <2>1, <3>1, ThenAckFits DEF Settle, Succeed
  <2>2. CASE Ack(w) \/ Abandon(w)
    <3>1. abandons' \in Nat
      BY <2>2 DEF Ack, Abandon, Sound, TypeOK, HandlerTypeOK
    <3> QED BY <2>2, <3>1, LeaveFits DEF Ack, Abandon
  <2>3. CASE \E e \in Events : ClaimEvent(w, e)
    BY <2>3, ClaimFits
  <2> QED BY <1>1, <2>1, <2>2, <2>3, PrepareFits, CallsFit DEF WorkerStep
<1>2. CASE \E c \in Conversations : SendMessage(c)
  BY <1>2, HandlersUntouched DEF SendMessage
<1>3. ASSUME NEW r \in Runs, ControlStep(r)
      PROVE  UNCHANGED <<workerVars, abandons>>
  BY <1>3 DEF ControlStep, CancelQueued, CancelRead, CancelCall, CancelCommit, RetryRun,
              ReconcileRead, ReconcileCommit, ControlCrash
<1>4. CASE \/ \E e \in Events : LeaseEnds(e)
           \/ \E x \in Runtime!Externals : RemoteFinishes(x)
           \/ RemoteRestarts \/ MinutePassed \/ MonthStarted \/ UNCHANGED vars
  BY <1>4, HandlersUntouched
     DEF LeaseEnds, RemoteFinishes, RemoteRestarts, MinutePassed, MonthStarted, Elsewhere, vars
<1> QED BY <1>1, <1>2, <1>3, <1>4, HandlersUntouched DEF Next

-----------------------------------------------------------------------------
(* The runtime's runs, the requests in flight, and everything together.    *)

\* Only a create makes an external run, and no step unmakes one.
NoneCreated == \A x \in Runtime!Externals : (remote'[x] = "absent") <=> (remote[x] = "absent")

LEMMA RemoteTyped ==
  ASSUME Sound, [Next]_vars
  PROVE  /\ Runtime!RuntimeTypeOK'
         /\ NoneCreated \/ \E w \in Workers : CreateExternal(w)
<1> USE DEF Runtime!RuntimeTypeOK, Runtime!RemoteStatus, NoneCreated
<1> DEFINE Goal == /\ Runtime!RuntimeTypeOK'
                   /\ NoneCreated \/ \E w \in Workers : CreateExternal(w)
<1>1. Runtime!RuntimeTypeOK
  BY DEF Sound, TypeOK
<1>2. UNCHANGED remote => Goal
  BY <1>1
<1>3. ASSUME NEW w \in Workers, WorkerStep(w)
      PROVE  Goal
  <2>1. CASE CreateExternal(w)
    BY <1>1, <2>1 DEF CreateExternal, Runtime!RemoteCreate
  <2>2. CASE ExecuteReached(w)
    BY <1>1, <2>2 DEF ExecuteReached, Runtime!RemoteExecute
  <2>3. CASE \/ \E e \in Events : ClaimEvent(w, e)
             \/ PrepareSnapshot(w) \/ PrepareDispatch(w) \/ Attach(w) \/ ExecuteDeferred(w)
             \/ ReadAnswer(w) \/ ReadDeferred(w) \/ ReadLost(w) \/ Settle(w) \/ Succeed(w)
             \/ Ack(w) \/ Abandon(w)
    BY <1>2, <2>3
       DEF ClaimEvent, PrepareSnapshot, PrepareDispatch, Attach, ExecuteDeferred, ReadAnswer, RuntimeUsage,
           ReadDeferred, ReadLost, Settle, Succeed, Ack, Abandon
  <2> QED BY <1>3, <2>1, <2>2, <2>3 DEF WorkerStep
<1>4. ASSUME NEW r \in Runs, ControlStep(r)
      PROVE  Goal
  <2>1. CASE CancelCall(r)
    BY <1>1, <2>1 DEF CancelCall, Runtime!RemoteCancel, Runtime!RemoteCancellable
  <2>2. CASE \/ CancelQueued(r) \/ CancelRead(r) \/ CancelCommit(r) \/ RetryRun(r)
             \/ ReconcileRead(r) \/ ReconcileCommit(r) \/ ControlCrash(r)
    BY <1>2, <2>2
       DEF CancelQueued, CancelRead, CancelCommit, RetryRun, ReconcileRead, ReconcileCommit, ControlCrash
  <2> QED BY <1>4, <2>1, <2>2 DEF ControlStep
<1>5. ASSUME NEW x \in Runtime!Externals, RemoteFinishes(x)
      PROVE  Goal
  BY <1>1, <1>5 DEF RemoteFinishes, Runtime!RemoteFinish
<1>6. CASE RemoteRestarts
  BY <1>1, <1>6 DEF RemoteRestarts, Runtime!RemoteRestart
<1>7. CASE \/ \E c \in Conversations : SendMessage(c)
           \/ \E e \in Events : LeaseEnds(e)
           \/ MinutePassed \/ MonthStarted \/ UNCHANGED vars
  BY <1>2, <1>7 DEF SendMessage, LeaseEnds, MinutePassed, MonthStarted, vars
<1> QED BY <1>3, <1>4, <1>5, <1>6, <1>7 DEF Next

LEMMA ControlTyped ==
  ASSUME Sound, [Next]_vars
  PROVE  ControlTypeOK' /\ RequestsKnown'
<1> DEFINE Goal == ControlTypeOK' /\ RequestsKnown'
<1>1. ControlTypeOK /\ RequestsKnown
  BY DEF Sound, TypeOK
<1>2. \A r \in Runs : Dispatched(r) /\ ext[r] # NoExt => status'[r] \notin {"NONE", "QUEUED"} /\ ext'[r] # NoExt
  BY StepSeen, TableTyped DEF Kept
<1>3. UNCHANGED controlVars => Goal
  BY <1>1, <1>2 DEF ControlTypeOK, RequestsKnown, Dispatched
<1>4. ASSUME NEW r \in Runs, ControlStep(r)
      PROVE  Goal
  <2>1. CASE CancelRead(r)
    BY <1>1, <1>2, <2>1 DEF CancelRead, ControlTypeOK, RequestsKnown, Dispatched
  <2>2. CASE ReconcileRead(r)
    BY <1>1, <1>2, <2>2 DEF ReconcileRead, ControlTypeOK, RequestsKnown, Dispatched
  <2>3. CASE CancelCall(r)
    BY <1>1, <1>2, <2>3 DEF CancelCall, ControlTypeOK, RequestsKnown, Dispatched
  <2>4. CASE CancelCommit(r)
    BY <1>1, <1>2, <2>4 DEF CancelCommit, ControlTypeOK, RequestsKnown, Dispatched
  <2>5. CASE ReconcileCommit(r)
    BY <1>1, <1>2, <2>5 DEF ReconcileCommit, ControlTypeOK, RequestsKnown, Dispatched
  <2>6. CASE ControlCrash(r)
    BY <1>1, <1>2, <2>6 DEF ControlCrash, ControlTypeOK, RequestsKnown, Dispatched
  <2>7. CASE CancelQueued(r) \/ RetryRun(r)
    BY <1>3, <2>7 DEF CancelQueued, RetryRun
  <2> QED BY <1>4, <2>1, <2>2, <2>3, <2>4, <2>5, <2>6, <2>7 DEF ControlStep
<1>5. CASE ~ \E r \in Runs : ControlStep(r)
  BY <1>3, <1>5 DEF Next, SendMessage, RemoteFinishes, RemoteRestarts, MinutePassed, MonthStarted,
                    Elsewhere, vars
<1> QED BY <1>4, <1>5

\* Only prepare takes a handler past the dispatch of its run, and a run that
\* has been dispatched stays so.
LEMMA DispatchKept ==
  ASSUME Sound, [Next]_vars
  PROVE  HandlersDispatched'
<1> DEFINE Now(v) == pc'[v] \in {"create", "attach", "execute", "read", "succeed", "settle"}
           Fits(v) == Now(v) => status'[job'[v][1]] \notin {"NONE", "QUEUED"}
<1>1. Kept
  BY StepSeen, TableTyped
<1>2. ASSUME NEW v \in Workers, pc'[v] = pc[v], verdict'[v] = verdict[v], job'[v] = job[v]
      PROVE  Fits(v)
  <2>1. PastDispatch(v) => Run(v) \in Runs
    BY DEF PastDispatch, Sound, JobsAreEvents, Run, Events
  <2> QED BY <1>1, <1>2, <2>1 DEF PastDispatch, Sound, HandlersDispatched, Run, Kept
<1>3. ASSUME UNCHANGED <<workerVars, abandons>>
      PROVE  \A v \in Workers : Fits(v)
  BY <1>2, <1>3
<1>4. ASSUME NEW w \in Workers, WorkerStep(w)
      PROVE  \A v \in Workers : Fits(v)
  <2> USE DEF Goto, ThenAck, ThenSettle
  <2>1. pc \in [Workers -> Places] /\ job \in [Workers -> Events \cup {NoEvent}]
          /\ verdict \in [Workers -> Verdicts]
    BY DEF Sound, TypeOK, HandlerTypeOK
  <2>2. pc[w] # "idle" => Run(w) \in Runs
    BY DEF Sound, JobsAreEvents, Run, Events
  <2>3. \A v \in Workers : v # w => pc'[v] = pc[v] /\ verdict'[v] = verdict[v] /\ job'[v] = job[v]
    BY <1>4, <2>1
       DEF WorkerStep, ClaimEvent, PrepareSnapshot, PrepareDispatch, FoundTerminal, FailRun, Defer,
           QuotaRefuses, Ambiguous, CreateExternal, Attach, ExecuteReached, ExecuteDeferred,
           ReadAnswer, RuntimeUsage, ReadDeferred, ReadLost, Settle, Succeed, Ack, Abandon, Leave
  <2>4. ASSUME \E e \in Events : ClaimEvent(w, e)
        PROVE  Fits(w)
    BY <2>1, <2>4 DEF ClaimEvent
  <2>5. ASSUME PrepareSnapshot(w)
        PROVE  Fits(w)
    BY <1>1, <2>1, <2>2, <2>5
       DEF PrepareSnapshot, FoundTerminal, FailRun, Defer, QuotaRefuses, Ambiguous, Run, Kept, Dispatched
  <2>6. ASSUME PrepareDispatch(w)
        PROVE  Fits(w)
    <3>1. /\ UNCHANGED job
          /\ Now(w) => \/ Dispatched(Run(w))
                       \/ BeginDispatch(Run(w))
      BY <2>1, <2>2, <2>6
         DEF PrepareDispatch, FoundTerminal, FailRun, Defer, QuotaRefuses, Ambiguous, Dispatched,
             isRunningReconciliation, StillQueued, Sound, JobsAreEvents, Exists, Run
    <3>2. BeginDispatch(Run(w)) => status'[Run(w)] = "DISPATCHING"
      BY <2>2, <2>6 DEF BeginDispatch, PrepareDispatch, Sound, TypeOK, RunTypeOK
    <3> QED BY <1>1, <2>2, <2>6, <3>1, <3>2 DEF Run, Kept, PrepareDispatch
  <2>7. ASSUME \/ CreateExternal(w) \/ Attach(w) \/ ExecuteReached(w) \/ ReadAnswer(w) \/ ReadLost(w)
        PROVE  Fits(w)
    <3>1. PastDispatch(w) /\ pc[w] # "idle" /\ UNCHANGED job
      BY <2>7 DEF CreateExternal, Attach, ExecuteReached, ReadAnswer, RuntimeUsage, ReadLost, PastDispatch
    <3> QED BY <1>1, <2>2, <3>1 DEF Sound, HandlersDispatched, Run, Kept
  <2>8. ASSUME ExecuteDeferred(w) \/ ReadDeferred(w) \/ Settle(w) \/ Succeed(w) \/ Ack(w) \/ Abandon(w)
        PROVE  Fits(w)
    BY <2>1, <2>8 DEF ExecuteDeferred, ReadDeferred, Settle, Succeed, Ack, Abandon, Leave
  <2>9. Fits(w)
    BY <1>4, <2>4, <2>5, <2>6, <2>7, <2>8 DEF WorkerStep
  <2> QED BY <1>2, <2>3, <2>9
<1>5. ASSUME NEW r \in Runs, ControlStep(r)
      PROVE  UNCHANGED <<workerVars, abandons>>
  BY <1>5 DEF ControlStep, CancelQueued, CancelRead, CancelCall, CancelCommit, RetryRun,
              ReconcileRead, ReconcileCommit, ControlCrash
<1>6. CASE ~ \E w \in Workers : WorkerStep(w)
  <2>1. UNCHANGED <<workerVars, abandons>>
    BY <1>5, <1>6 DEF Next, SendMessage, LeaseEnds, RemoteFinishes, RemoteRestarts, MinutePassed,
                      MonthStarted, Elsewhere, vars
  <2> QED BY <1>3, <2>1 DEF HandlersDispatched, PastDispatch, Dispatched, Run
<1>7. CASE \E w \in Workers : WorkerStep(w)
  BY <1>4, <1>7 DEF HandlersDispatched, PastDispatch, Dispatched, Run
<1> QED BY <1>6, <1>7

LEMMA SoundKept == Sound /\ [Next]_vars => Sound'
<1> SUFFICES ASSUME Sound, [Next]_vars PROVE Sound'
  OBVIOUS
<1>1. RunTypeOK' /\ Kept
  BY StepSeen, TableTyped
<1>2. QueueTypeOK' /\ EventsKept
  BY QueueTyped
<1>3. HandlersOK
  BY HandlersFit
<1>4. JobsAreEvents'
  <2>1. \A w \in Workers : pc'[w] # "idle" => job'[w] \in Events /\ evStatus'[job'[w]] # "ABSENT"
    BY <1>2, <1>3 DEF HandlersOK, JobsKept, EventsKept
  <2>2. \A e \in Events : e[1] \in Runs
    BY DEF Events
  <2>3. \A e \in Events : evStatus'[e] # "ABSENT" => status'[e[1]] # "NONE"
    BY <1>1, <1>2, <2>2 DEF Sound, JobsAreEvents, EventsKept, Kept
  <2> QED BY <1>1, <2>1, <2>3 DEF JobsAreEvents, Exists, Kept
<1> QED BY <1>1, <1>2, <1>3, <1>4, RemoteTyped, ControlTyped, DispatchKept
    DEF Sound, TypeOK, HandlersOK

LEMMA AlwaysSound == Spec => []Sound
BY InitSound, SoundKept, PTL DEF Spec

(* Every variable keeps its type, for any numbers of runs, conversations,
   workers and crashes. *)
THEOREM TypeCorrect == Spec => []TypeOK
<1>1. Sound => TypeOK
  BY DEF Sound
<1> QED BY <1>1, AlwaysSound, PTL

(* Every step is one that agent_runs knows: the table on which the theorems
   about a run's status rest. *)
THEOREM StepsAreKnown == Spec => SeenFromTheTable
<1>1. Sound /\ [Next]_vars => [RunTableStep]_vars
  BY StepSeen
<1> QED BY <1>1, AlwaysSound, PTL DEF Spec, SeenFromTheTable
=============================================================================
