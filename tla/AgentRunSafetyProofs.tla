-------------------------- MODULE AgentRunSafetyProofs --------------------------
(***************************************************************************)
(* The safety theorems of AgentRunSystem, and that it implements           *)
(* AgentRunLifecycle.  Each rests on AlwaysSound and StepSeen of           *)
(* AgentRunProofs: a step of the system is a step of the run table, and    *)
(* what a step of the table can do to one run is EdgesOf below.            *)
(***************************************************************************)
EXTENDS AgentRunProofs, WellFoundedInduction

USE DEF runVars, queueVars, workerVars, controlVars

\* The moves a run can make in one step, with what else they do to its row.
Waits(r) == status'[r] = status[r] /\ reserved'[r] = reserved[r] /\ answers'[r] = answers[r]

Appears(r) ==
  status[r] = "NONE" /\ status'[r] = "QUEUED" /\ reserved'[r] = reserved[r] /\ answers'[r] = answers[r]

Starts(r) ==
  status[r] = "QUEUED" /\ status'[r] = "DISPATCHING" /\ reserved'[r] /\ answers'[r] = answers[r]

Resumes(r) ==
  /\ \/ status[r] = "DISPATCHING" \/ (status[r] = "UNKNOWN" /\ ext[r] # NoExt)
  /\ status'[r] = "RUNNING" /\ reserved'[r] = reserved[r] /\ answers'[r] = answers[r]

Succeeds(r) == status[r] = "RUNNING" /\ status'[r] = "SUCCEEDED" /\ answers'[r] = answers[r] + 1

Ends(r) ==
  /\ status[r] \in {"QUEUED", "DISPATCHING", "RUNNING"}
  /\ \/ status'[r] \in {"FAILED", "CANCELLED"}
     \/ status[r] # "QUEUED" /\ status'[r] = "UNKNOWN" /\ reserved'[r] = reserved[r]
  /\ answers'[r] = answers[r]

Edge(r) == Waits(r) \/ Appears(r) \/ Starts(r) \/ Resumes(r) \/ Succeeds(r) \/ Ends(r)

LEMMA InsertEdge ==
  ASSUME NEW n \in Runs, NEW c, NEW t, NEW p, NEW st \in [Runs -> RunStatus \cup {"NONE"}],
         InsertRun(st, n, c, t, p), st[n] = status[n]
  PROVE  /\ status[n] = "NONE" /\ status'[n] = "QUEUED"
         /\ \A q \in Runs : q # n => status'[q] = st[q]
BY DEF InsertRun, IsNextRun, Exists

LEMMA EdgesOf ==
  ASSUME Sound, RunTableStep
  PROVE  \A q \in Runs : Edge(q)
<1> USE DEF Edge, Waits, Appears, Starts, Resumes, Succeeds, Ends
<1>1. RunTypeOK
  BY DEF Sound, TypeOK
<1>2. ASSUME NEW n \in Runs, NEW c, NEW t, NEW p, InsertRun(status, n, c, t, p), UNCHANGED <<reserved, answers>>
      PROVE  \A q \in Runs : Edge(q)
  BY <1>1, <1>2, InsertEdge DEF RunTypeOK
<1>3. ASSUME NEW r \in Runs, Answers(r)
      PROVE  \A q \in Runs : Edge(q)
  <2> DEFINE answered == [status EXCEPT ![r] = "SUCCEEDED"]
  <2>1. PICK u \in UsageReports : completeSucceeded(r, u)
    BY <1>3 DEF Answers
  <2>2. status[r] = "RUNNING" /\ answers' = [answers EXCEPT ![r] = @ + 1]
    BY <2>1 DEF completeSucceeded, enqueueNextRelayRun, ConfirmedExecution
  <2>3. \A q \in Runs : q # r => reserved'[q] = reserved[q] /\ answers'[q] = answers[q]
    BY <1>1, <2>1, <2>2 DEF completeSucceeded, enqueueNextRelayRun, RecordUsage, RunTypeOK
  <2>4. answered \in [Runs -> RunStatus \cup {"NONE"}] /\ answered[r] = "SUCCEEDED"
          /\ \A q \in Runs : q # r => answered[q] = status[q]
    BY <1>1 DEF RunTypeOK, RunStatus
  <2>5. CASE \E n \in Runs : InsertRun(answered, n, conv[r], turn[r] + 1, r)
    <3>1. PICK n \in Runs : InsertRun(answered, n, conv[r], turn[r] + 1, r)
      BY <2>5
    <3>2. status[n] = "NONE" /\ n # r
      BY <2>2, <3>1 DEF InsertRun, IsNextRun, Exists
    <3>3. status'[n] = "QUEUED" /\ \A q \in Runs : q # n => status'[q] = answered[q]
      <4>1. answered[n] = status[n]
        BY <2>4, <3>2
      <4> QED BY <2>4, <3>1, <3>2 DEF InsertRun
    <3>4. answers'[r] = answers[r] + 1
      BY <1>1, <2>2 DEF RunTypeOK
    <3> QED BY <2>2, <2>3, <2>4, <3>2, <3>3, <3>4
  <2>6. CASE status' = answered
    BY <1>1, <2>2, <2>3, <2>4, <2>6 DEF RunTypeOK
  <2> QED BY <2>1, <2>5, <2>6 DEF completeSucceeded, enqueueNextRelayRun
<1>4. ASSUME NEW r \in Runs, Finishes(r)
      PROVE  \A q \in Runs : Edge(q)
  <2>1. PICK s \in {"FAILED", "UNKNOWN", "CANCELLED"}, u \in UsageReports :
          (s = "UNKNOWN" => u = Unreported /\ Dispatched(r)) /\ (u # Unreported => Dispatched(r)) /\ markRunTerminal(r, s, u)
    BY <1>4 DEF Finishes
  <2>2. status[r] \in {"QUEUED", "DISPATCHING", "RUNNING"}
    BY <1>1, <1>4 DEF Finishes, Exists, isTerminal, TERMINAL_STATUSES, RunTypeOK, RunStatus
  <2>3. /\ status' = [status EXCEPT ![r] = s] /\ answers' = answers
        /\ \A q \in Runs : q # r => reserved'[q] = reserved[q]
        /\ s = "UNKNOWN" => reserved' = reserved /\ status[r] # "QUEUED"
    BY <1>1, <2>1 DEF Dispatched, markRunTerminal, RecordUsage, RunTypeOK
  <2> QED BY <1>1, <2>2, <2>3 DEF RunTypeOK
<1>5. ASSUME NEW r \in Runs, Dispatches(r) \/ Attaches(r) \/ persistCancellation(r) \/ Reopens(r)
      PROVE  \A q \in Runs : Edge(q)
  <2>1. CASE Dispatches(r)
    BY <1>1, <2>1 DEF Dispatches, BeginDispatch, RunTypeOK
  <2>2. CASE Attaches(r)
    BY <1>1, <2>2 DEF Attaches, attachExternalRun, AwaitsExternal, RunTypeOK
  <2>3. CASE persistCancellation(r)
    BY <1>1, <2>3 DEF persistCancellation, RunTypeOK
  <2>4. CASE Reopens(r)
    BY <1>1, <2>4 DEF Reopens, RunTypeOK
  <2> QED BY <1>5, <2>1, <2>2, <2>3, <2>4
<1>6. CASE MinutePasses \/ MonthStarts \/ UNCHANGED runVars
  BY <1>6 DEF MinutePasses, MonthStarts
<1>7. CASE (\E c \in Conversations : CreateUserMessage(c)) \/ \E r \in Runs : Retry(r)
  BY <1>2, <1>7 DEF CreateUserMessage, Retry
<1> QED BY <1>3, <1>4, <1>5, <1>6, <1>7 DEF RunTableStep

-----------------------------------------------------------------------------
(* A final status is never left, except by a reconciliation of an uncertain
   run that the runtime knows. *)
THEOREM FinalStaysFinal == Spec => FinalIsFinal
<1>1. ASSUME Sound, [Next]_vars
      PROVE  \A r \in Runs : isTerminal(r) /\ status'[r] # status[r] =>
               status[r] = "UNKNOWN" /\ status'[r] = "RUNNING" /\ ext[r] # NoExt
  BY <1>1, StepSeen, EdgesOf
     DEF Edge, Waits, Appears, Starts, Resumes, Succeeds, Ends, isTerminal, TERMINAL_STATUSES
<1> QED BY <1>1, AlwaysSound, PTL DEF Spec, FinalIsFinal

(* A run that holds a concurrency slot holds its token reservation. *)
THEOREM SlotsAreReserved == Spec => []HoldKeepsReservation
<1>1. Init => HoldKeepsReservation
  BY DEF Init, RunInit, HoldKeepsReservation, HoldStatuses
<1>2. ASSUME Sound, HoldKeepsReservation, [Next]_vars
      PROVE  HoldKeepsReservation'
  <2> SUFFICES ASSUME NEW r \in Runs, status'[r] \in {"DISPATCHING", "RUNNING", "UNKNOWN"}
               PROVE  reserved'[r]
    BY DEF HoldKeepsReservation, HoldStatuses
  <2>1. Edge(r)
    BY <1>2, StepSeen, EdgesOf
  <2>2. status[r] \in {"DISPATCHING", "RUNNING", "UNKNOWN"} => reserved[r]
    BY <1>2 DEF HoldKeepsReservation, HoldStatuses
  <2>3. Starts(r) => reserved'[r]
    BY DEF Starts
  <2>4. Starts(r) \/ (status[r] \in {"DISPATCHING", "RUNNING", "UNKNOWN"} /\ reserved'[r] = reserved[r])
    BY <2>1 DEF Edge, Waits, Appears, Starts, Resumes, Succeeds, Ends
  <2> QED BY <2>2, <2>3, <2>4
<1> QED BY <1>1, <1>2, AlwaysSound, PTL DEF Spec

(* Exactly one answer reaches the conversation of a run that succeeds, and none
   that of any other. *)
THEOREM AnsweredOnce == Spec => []OneAnswerPerSuccess
<1>1. Init => OneAnswerPerSuccess
  BY DEF Init, RunInit, OneAnswerPerSuccess
<1>2. ASSUME Sound, OneAnswerPerSuccess, [Next]_vars
      PROVE  OneAnswerPerSuccess'
  BY <1>2, StepSeen, EdgesOf
     DEF Edge, Waits, Appears, Starts, Resumes, Succeeds, Ends, OneAnswerPerSuccess
<1> QED BY <1>1, <1>2, AlwaysSound, PTL DEF Spec

-----------------------------------------------------------------------------
(* What makes a dispatch unique: the compare-and-swap from QUEUED.         *)

\* A handler gets to "create" one at a time, with a run that was QUEUED.
LEMMA ArrivesToCreate ==
  ASSUME Sound, [Next]_vars
  PROVE  /\ \A w \in Workers : pc'[w] = "create" =>
              job'[w] = job[w] /\ (pc[w] = "create" \/ status[Run(w)] = "QUEUED")
         /\ \A v, w \in Workers : pc'[v] = "create" /\ pc'[w] = "create" =>
              v = w \/ pc[v] = "create" \/ pc[w] = "create"
<1> DEFINE Arrives(w) == job'[w] = job[w] /\ (pc[w] = "create" \/ status[Run(w)] = "QUEUED")
<1>1. ASSUME NEW w \in Workers, WorkerStep(w)
      PROVE  /\ \A v \in Workers : v # w => pc'[v] = pc[v] /\ job'[v] = job[v]
             /\ pc'[w] = "create" => Arrives(w)
  <2> USE DEF Goto, ThenAck, ThenSettle
  <2>1. pc \in [Workers -> Places] /\ job \in [Workers -> Events \cup {NoEvent}]
    BY DEF Sound, TypeOK, HandlerTypeOK
  <2>2. \A v \in Workers : v # w => pc'[v] = pc[v] /\ job'[v] = job[v]
    BY <1>1, <2>1
       DEF WorkerStep, ClaimEvent, PrepareSnapshot, PrepareDispatch, FoundTerminal, FailRun, Defer,
           QuotaRefuses, Ambiguous, CreateExternal, Attach, ExecuteReached, ExecuteDeferred,
           ReadAnswer, RuntimeUsage, ReadDeferred, ReadLost, Settle, Succeed, Ack, Abandon, Leave
  <2>3. CASE PrepareDispatch(w)
    BY <2>1, <2>2, <2>3
       DEF PrepareDispatch, FoundTerminal, FailRun, Defer, QuotaRefuses, Ambiguous, StillQueued
  <2>4. CASE PrepareSnapshot(w)
    BY <2>1, <2>2, <2>4 DEF PrepareSnapshot, FoundTerminal, FailRun, Defer, QuotaRefuses, Ambiguous
  <2>5. CASE \/ \E e \in Events : ClaimEvent(w, e)
             \/ CreateExternal(w) \/ Attach(w) \/ ExecuteReached(w) \/ ReadAnswer(w) \/ ReadLost(w)
             \/ ExecuteDeferred(w) \/ ReadDeferred(w) \/ Settle(w) \/ Succeed(w) \/ Ack(w) \/ Abandon(w)
    BY <2>1, <2>2, <2>5
       DEF ClaimEvent, CreateExternal, Attach, ExecuteReached, ReadAnswer, RuntimeUsage, ReadLost,
           ExecuteDeferred, ReadDeferred, Settle, Succeed, Ack, Abandon, Leave
  <2> QED BY <1>1, <2>3, <2>4, <2>5 DEF WorkerStep
<1>2. CASE \E w \in Workers : WorkerStep(w)
  BY <1>1, <1>2
<1>3. CASE ~ \E w \in Workers : WorkerStep(w)
  <2>1. \A r \in Runs : ControlStep(r) => UNCHANGED <<workerVars, abandons>>
    BY DEF ControlStep, CancelQueued, CancelRead, CancelCall, CancelCommit, RetryRun,
           ReconcileRead, ReconcileCommit, ControlCrash
  <2>2. UNCHANGED <<workerVars, abandons>>
    BY <1>3, <2>1 DEF Next, SendMessage, LeaseEnds, RemoteFinishes, RemoteRestarts, MinutePassed,
                      MonthStarted, Elsewhere, vars
  <2> QED BY <2>2
<1> QED BY <1>2, <1>3

LEMMA CreatedOnceKept == Sound /\ CreatedOnce /\ [Next]_vars => CreatedOnce'
<1> SUFFICES ASSUME Sound, CreatedOnce, [Next]_vars PROVE CreatedOnce'
  OBVIOUS
<1> USE DEF CreatedOnce, NothingBeforeDispatch, DispatcherIsAlone, CreatedAreSame
<1>1. Kept
  BY StepSeen, TableTyped
<1>2. \A r \in Runs : status'[r] \in {"NONE", "QUEUED"} => status[r] \in {"NONE", "QUEUED"}
  BY <1>1 DEF Kept, Dispatched
<1>3. \A w \in Workers : pc[w] = "create" => Dispatched(Run(w)) /\ Run(w) \in Runs
  BY DEF Sound, HandlersDispatched, PastDispatch, JobsAreEvents, Run, Events
<1>4. CASE NoneCreated
  <2>1. \A r \in Runs : (Runtime!Created(r))' = Runtime!Created(r)
    BY <1>4 DEF NoneCreated, Runtime!Created
  <2>2. NothingBeforeDispatch' /\ CreatedAreSame'
    BY <1>2, <2>1
  <2>3. ASSUME NEW w \in Workers, pc'[w] = "create"
        PROVE  /\ job'[w] = job[w] /\ Run(w) \in Runs
               /\ Runtime!Created(Run(w)) = {}
               /\ \A v \in Workers : pc[v] = "create" /\ pc[w] # "create" => Run(v) # Run(w)
    <3>1. job'[w] = job[w] /\ (pc[w] = "create" \/ status[Run(w)] = "QUEUED")
      BY <2>3, ArrivesToCreate
    <3>2. job'[w] \in Events
      BY <2>3, HandlersFit DEF HandlersOK, JobsKept
    <3>3. Run(w) \in Runs
      BY <3>1, <3>2 DEF Run, Events
    <3> QED BY <1>3, <3>1, <3>3 DEF Dispatched
  <2>4. ASSUME NEW w \in Workers, NEW v \in Workers, pc'[w] = "create", pc'[v] = "create",
               job'[v][1] = job'[w][1]
        PROVE  v = w
    <3>1. Run(v) = Run(w)
      BY <2>3, <2>4 DEF Run
    <3>2. pc[v] = "create" /\ pc[w] = "create" => v = w
      BY <3>1
    <3> QED BY <2>3, <2>4, <3>1, <3>2, ArrivesToCreate
  <2>5. DispatcherIsAlone'
    BY <2>1, <2>3, <2>4 DEF Run
  <2> QED BY <2>2, <2>5
<1>5. ASSUME NEW w \in Workers, CreateExternal(w)
      PROVE  CreatedOnce'
  <2>1. pc[w] = "create" /\ Run(w) \in Runs /\ Runtime!Created(Run(w)) = {} /\ Dispatched(Run(w))
    BY <1>3, <1>5 DEF CreateExternal
  <2>2. CASE UNCHANGED remote
    BY <1>4, <2>2 DEF NoneCreated
  <2>3. ASSUME NEW k \in 1 .. MaxCreates, Runtime!RemoteCreate(<<Run(w), k>>)
        PROVE  CreatedOnce'
    <3> DEFINE x == <<Run(w), k>>
    <3>1. x \in Runtime!Externals /\ x[1] = Run(w)
      BY <2>1 DEF Runtime!Externals
    <3>2. remote \in [Runtime!Externals -> Runtime!RemoteStatus] /\ remote' = [remote EXCEPT ![x] = "queued"]
      BY <2>3 DEF Sound, TypeOK, Runtime!RuntimeTypeOK, Runtime!RemoteCreate
    <3>3. /\ pc'[w] # "create" /\ job' = job
          /\ \A v \in Workers : v # w => pc'[v] = pc[v]
      BY <1>5 DEF CreateExternal, ThenSettle, Goto, Sound, TypeOK, HandlerTypeOK
    <3>4. \A r \in Runs : r # Run(w) => (Runtime!Created(r))' = Runtime!Created(r)
      BY <3>1, <3>2 DEF Runtime!Created
    <3>5. \A r \in Runs : r = Run(w) => (Runtime!Created(r))' \subseteq {x}
      <4> SUFFICES ASSUME NEW y \in Runtime!Externals, y[1] = Run(w), y # x, remote'[y] # "absent"
                   PROVE  FALSE
        BY DEF Runtime!Created
      <4>1. remote[y] # "absent"
        BY <3>2
      <4> QED BY <2>1, <4>1 DEF Runtime!Created
    <3>6. NothingBeforeDispatch'
      BY <1>2, <2>1, <3>4 DEF Dispatched
    <3>7. CreatedAreSame'
      <4>1. ASSUME NEW r \in Runs, NEW y \in (Runtime!Created(r))', NEW z \in (Runtime!Created(r))'
            PROVE  y = z
        BY <3>4, <3>5, <4>1
      <4> QED BY <4>1
    <3>8. DispatcherIsAlone'
      <4>1. \A v \in Workers : pc'[v] = "create" => v # w /\ pc[v] = "create" /\ Run(v) \in Runs /\ Run(v) # Run(w)
        BY <1>3, <2>1, <3>3
      <4> QED BY <3>4, <3>3, <4>1 DEF Run
    <3> QED BY <3>6, <3>7, <3>8
  <2> QED BY <1>5, <2>2, <2>3 DEF CreateExternal
<1> QED BY <1>4, <1>5, RemoteTyped

(* A run is sent to the runtime at most once, for any number of workers, lost
   leases, crashes, lost answers and reconciliations. *)
THEOREM SentOnce == Spec => []DispatchedAtMostOnce
<1>1. Init => CreatedOnce
  BY DEF Init, RunInit, WorkerInit, Runtime!RuntimeInit, Runtime!Created, CreatedOnce,
         NothingBeforeDispatch, DispatcherIsAlone, CreatedAreSame
<1>2. CreatedOnce => DispatchedAtMostOnce
  <2> SUFFICES ASSUME CreatedOnce, NEW r \in Runs PROVE Cardinality(Runtime!Created(r)) <= 1
    BY DEF DispatchedAtMostOnce
  <2>1. CASE Runtime!Created(r) = {}
    BY <2>1, FS_EmptySet
  <2>2. ASSUME NEW x \in Runtime!Created(r)
        PROVE  Cardinality(Runtime!Created(r)) <= 1
    <3>1. Runtime!Created(r) = {x}
      BY <2>2 DEF CreatedOnce, CreatedAreSame
    <3>2. Cardinality({x}) = 1
      BY FS_Singleton
    <3> QED BY <3>1, <3>2
  <2> QED BY <2>1, <2>2
<1> QED BY <1>1, <1>2, CreatedOnceKept, AlwaysSound, PTL DEF Spec

-----------------------------------------------------------------------------
(* What the quota decision and the unique index keep.                      *)

LEMMA OnlyDispatchStarts ==
  ASSUME Sound, RunTableStep, NEW q \in Runs, status[q] = "QUEUED", status'[q] = "DISPATCHING"
  PROVE  Dispatches(q)
<1>1. RunTypeOK
  BY DEF Sound, TypeOK
<1>2. ASSUME NEW n \in Runs, NEW c, NEW t, NEW p, NEW st \in [Runs -> RunStatus \cup {"NONE"}],
             InsertRun(st, n, c, t, p), st[q] # "DISPATCHING"
      PROVE  FALSE
  BY <1>2 DEF InsertRun
<1>3. CASE (\E c \in Conversations : CreateUserMessage(c)) \/ \E r \in Runs : Retry(r)
  BY <1>1, <1>2, <1>3 DEF CreateUserMessage, Retry, RunTypeOK
<1>4. ASSUME NEW r \in Runs, Answers(r)
      PROVE  FALSE
  <2> DEFINE answered == [status EXCEPT ![r] = "SUCCEEDED"]
  <2>1. answered \in [Runs -> RunStatus \cup {"NONE"}] /\ answered[q] # "DISPATCHING"
    BY <1>1 DEF RunTypeOK, RunStatus
  <2>2. status' = answered \/ \E n \in Runs : InsertRun(answered, n, conv[r], turn[r] + 1, r)
    BY <1>4 DEF Answers, completeSucceeded, enqueueNextRelayRun
  <2> QED BY <1>2, <2>1, <2>2
<1>5. ASSUME NEW r \in Runs, Finishes(r)
      PROVE  FALSE
  BY <1>1, <1>5 DEF Finishes, markRunTerminal, RunTypeOK
<1>6. ASSUME NEW r \in Runs, Attaches(r) \/ persistCancellation(r) \/ Reopens(r)
      PROVE  FALSE
  BY <1>1, <1>6 DEF Attaches, attachExternalRun, persistCancellation, Reopens, RunTypeOK
<1>7. CASE MinutePasses \/ MonthStarts \/ UNCHANGED runVars
  BY <1>7 DEF MinutePasses, MonthStarts
<1>8. ASSUME NEW r \in Runs, Dispatches(r)
      PROVE  r = q
  BY <1>1, <1>8 DEF Dispatches, BeginDispatch, RunTypeOK
<1> QED BY <1>3, <1>4, <1>5, <1>6, <1>7, <1>8 DEF RunTableStep

(* The runs that may be executing never exceed the tenant's limit. *)
THEOREM ConcurrencyBounded == Spec => []WithinConcurrencyLimit
<1>1. \A S \in SUBSET Runs : IsFiniteSet(S) /\ Cardinality(S) \in Nat
  BY RunsAssumption, FS_Subset, FS_CardinalityType
<1>2. Init => WithinConcurrencyLimit
  <2>1. Init => MayBeExecuting = {}
    BY DEF Init, RunInit, MayBeExecuting
  <2> QED BY <2>1, FS_EmptySet, LimitsAssumption DEF WithinConcurrencyLimit
<1>3. ASSUME Sound, WithinConcurrencyLimit, [Next]_vars
      PROVE  WithinConcurrencyLimit'
  <2> DEFINE N == {r \in Runs : status'[r] \in {"DISPATCHING", "RUNNING", "UNKNOWN"}}
  <2>1. \A r \in Runs : Edge(r)
    BY <1>3, StepSeen, EdgesOf
  <2>2. \A r \in N : r \in MayBeExecuting \/ (status[r] = "QUEUED" /\ status'[r] = "DISPATCHING")
    BY <2>1 DEF Edge, Waits, Appears, Starts, Resumes, Succeeds, Ends, MayBeExecuting
  <2>3. MayBeExecuting \in SUBSET Runs /\ N \in SUBSET Runs
    BY DEF MayBeExecuting
  <2>4. CASE N \subseteq MayBeExecuting
    <3>1. Cardinality(N) <= Cardinality(MayBeExecuting)
      BY <1>1, <2>3, <2>4, FS_Subset
    <3> QED BY <1>1, <1>3, <2>3, <3>1, LimitsAssumption DEF WithinConcurrencyLimit, MayBeExecuting
  <2>5. ASSUME NEW r \in Runs, status[r] = "QUEUED", status'[r] = "DISPATCHING"
        PROVE  WithinConcurrencyLimit'
    <3>1. Dispatches(r)
      BY <1>3, <2>5, StepSeen, OnlyDispatchStarts
    <3>2. N \subseteq MayBeExecuting \cup {r}
      BY <2>2, <3>1 DEF Dispatches, BeginDispatch, Sound, TypeOK, RunTypeOK
    <3>3. Cardinality(MayBeExecuting) < ConcurrencyLimit
      <4>1. HoldingRuns = MayBeExecuting
        BY DEF HoldingRuns, HoldStatuses, MayBeExecuting
      <4>2. ~(loadQuotaSnapshot.activeRuns >= loadQuotaSnapshot.concurrencyLimit)
        BY <3>1 DEF Dispatches, QuotaDecision, DecideAgentRunQuota
      <4>3. loadQuotaSnapshot.activeRuns = Cardinality(HoldingRuns)
              /\ loadQuotaSnapshot.concurrencyLimit = ConcurrencyLimit
        BY DEF loadQuotaSnapshot
      <4> QED BY <1>1, <2>3, <4>1, <4>2, <4>3, LimitsAssumption
    <3>4. r \notin MayBeExecuting
      BY <2>5 DEF MayBeExecuting
    <3>5. Cardinality(MayBeExecuting \cup {r}) = Cardinality(MayBeExecuting) + 1
      BY <1>1, <2>3, <3>4, FS_AddElement
    <3>6. Cardinality(N) <= Cardinality(MayBeExecuting \cup {r})
      BY <1>1, <2>3, <3>2, FS_Subset
    <3>7. Cardinality(N) <= ConcurrencyLimit
      BY <1>1, <2>3, <3>3, <3>5, <3>6, LimitsAssumption
    <3> QED BY <3>7 DEF WithinConcurrencyLimit, MayBeExecuting
  <2> QED BY <2>2, <2>3, <2>4, <2>5
<1> QED BY <1>2, <1>3, AlwaysSound, PTL DEF Spec

\* What an insert reads before it writes: no run of the conversation is active
\* in the table the transaction leaves behind.
LEMMA InsertsApart ==
  ASSUME Sound, NEW n \in Runs, NEW c, NEW t, NEW p, NEW st \in [Runs -> RunStatus \cup {"NONE"}],
         InsertRun(st, n, c, t, p)
  PROVE  conv'[n] = c /\ \A q \in Runs : q # n => conv'[q] = conv[q] /\ ~(status'[q] \in ActiveStatuses /\ conv[q] = c)
BY DEF InsertRun, InsertAccepted, Sound, TypeOK, RunTypeOK

LEMMA NewRunIsApart ==
  ASSUME Sound, RunTableStep, NEW n \in Runs, status[n] = "NONE", status'[n] = "QUEUED"
  PROVE  \A q \in Runs : q # n => conv'[q] = conv[q] /\ ~(status'[q] \in ActiveStatuses /\ conv[q] = conv'[n])
<1> DEFINE Goal == \A q \in Runs : q # n => conv'[q] = conv[q] /\ ~(status'[q] \in ActiveStatuses /\ conv[q] = conv'[n])
<1>1. RunTypeOK
  BY DEF Sound, TypeOK
<1>2. ASSUME NEW m \in Runs, NEW c, NEW t, NEW p, NEW st \in [Runs -> RunStatus \cup {"NONE"}],
             InsertRun(st, m, c, t, p), st[n] # "QUEUED"
      PROVE  Goal
  <2>1. m = n
    BY <1>2 DEF InsertRun
  <2> QED BY <1>2, <2>1, InsertsApart
<1>3. CASE (\E c \in Conversations : CreateUserMessage(c)) \/ \E r \in Runs : Retry(r)
  BY <1>1, <1>2, <1>3 DEF CreateUserMessage, Retry, RunTypeOK
<1>4. ASSUME NEW r \in Runs, Answers(r)
      PROVE  Goal
  <2> DEFINE answered == [status EXCEPT ![r] = "SUCCEEDED"]
  <2>1. answered \in [Runs -> RunStatus \cup {"NONE"}] /\ answered[n] # "QUEUED"
    BY <1>1 DEF RunTypeOK, RunStatus
  <2>2. status' = answered \/ \E m \in Runs : InsertRun(answered, m, conv[r], turn[r] + 1, r)
    BY <1>4 DEF Answers, completeSucceeded, enqueueNextRelayRun
  <2> QED BY <1>2, <2>1, <2>2
<1>5. ASSUME NEW r \in Runs,
             Finishes(r) \/ Dispatches(r) \/ Attaches(r) \/ persistCancellation(r) \/ Reopens(r)
      PROVE  FALSE
  BY <1>1, <1>5 DEF Finishes, markRunTerminal, Dispatches, BeginDispatch, Attaches, attachExternalRun,
                    persistCancellation, Reopens, RunTypeOK
<1>6. CASE MinutePasses \/ MonthStarts \/ UNCHANGED runVars
  BY <1>6 DEF MinutePasses, MonthStarts
<1> QED BY <1>3, <1>4, <1>5, <1>6 DEF RunTableStep

(* Two runs of one conversation are never both unfinished or uncertain. *)
THEOREM ConversationsAreSerial == Spec => []OneActivePerConversation
<1>1. Init => OneActivePerConversation
  BY DEF Init, RunInit, OneActivePerConversation, ActiveStatuses
<1>2. ASSUME Sound, OneActivePerConversation, [Next]_vars
      PROVE  OneActivePerConversation'
  <2>1. \A r \in Runs : Edge(r)
    BY <1>2, StepSeen, EdgesOf
  <2>2. \A r \in Runs : status'[r] \in ActiveStatuses =>
          \/ status[r] \in ActiveStatuses /\ conv'[r] = conv[r]
          \/ status[r] = "NONE" /\ status'[r] = "QUEUED"
    <3>1. \A r \in Runs : Exists(r) => conv'[r] = conv[r]
      BY <1>2, StepSeen, TableTyped DEF Kept
    <3> QED BY <2>1, <3>1 DEF Edge, Waits, Appears, Starts, Resumes, Succeeds, Ends, ActiveStatuses, Exists
  <2>3. \A n \in Runs : status[n] = "NONE" /\ status'[n] = "QUEUED" =>
          \A q \in Runs : q # n => conv'[q] = conv[q] /\ ~(status'[q] \in ActiveStatuses /\ conv[q] = conv'[n])
    BY <1>2, StepSeen, NewRunIsApart
  <2> QED BY <1>2, <2>2, <2>3 DEF OneActivePerConversation
<1> QED BY <1>1, <1>2, AlwaysSound, PTL DEF Spec

-----------------------------------------------------------------------------
(* No run is forgotten: an unfinished run has a pending event, and no handler *)
(* that holds this event has decided to settle it.                           *)
Unfinished(r) == status[r] \in {"QUEUED", "DISPATCHING", "RUNNING"}

Closing(w) == pc[w] = "ack" /\ verdict[w] # "PENDING"

LookedAfter(e) == evStatus[e] = "PENDING" /\ \A w \in Workers : job[w] = e => ~Closing(w)

NobodyForgets == \A r \in Runs : Unfinished(r) => \E k \in 0 .. MaxReconciles : LookedAfter(<<r, k>>)

\* What a step of a handler does to the other handlers: nothing.
LEMMA OthersWait ==
  ASSUME Sound, NEW w \in Workers, WorkerStep(w)
  PROVE  \A v \in Workers : v # w => pc'[v] = pc[v] /\ job'[v] = job[v] /\ verdict'[v] = verdict[v]
<1> USE DEF Goto, ThenAck, ThenSettle
<1>1. /\ pc \in [Workers -> Places] /\ job \in [Workers -> Events \cup {NoEvent}]
      /\ verdict \in [Workers -> Verdicts]
  BY DEF Sound, TypeOK, HandlerTypeOK
<1> QED BY <1>1
       DEF WorkerStep, ClaimEvent, PrepareSnapshot, PrepareDispatch, FoundTerminal, FailRun, Defer,
           QuotaRefuses, Ambiguous, CreateExternal, Attach, ExecuteReached, ExecuteDeferred,
           ReadAnswer, RuntimeUsage, ReadDeferred, ReadLost, Settle, Succeed, Ack, Abandon, Leave

\* The answer of a run is stored with its success.
LEMMA AnsweredIsFinal ==
  ASSUME Sound, NEW r \in Runs, NEW u, completeSucceeded(r, u)
  PROVE  status'[r] = "SUCCEEDED"
<1> DEFINE answered == [status EXCEPT ![r] = "SUCCEEDED"]
<1>1. status \in [Runs -> RunStatus \cup {"NONE"}]
  BY DEF Sound, TypeOK, RunTypeOK
<1>2. status[r] = "RUNNING" /\ answered[r] = "SUCCEEDED"
  BY <1>1 DEF completeSucceeded, ConfirmedExecution, enqueueNextRelayRun
<1>3. CASE \E n \in Runs : InsertRun(answered, n, conv[r], turn[r] + 1, r)
  <2>1. PICK n \in Runs : InsertRun(answered, n, conv[r], turn[r] + 1, r)
    BY <1>3
  <2>2. n # r
    BY <1>2, <2>1 DEF InsertRun, IsNextRun, Exists
  <2> QED BY <1>1, <1>2, <2>1, <2>2 DEF InsertRun
<1>4. CASE status' = answered
  BY <1>2, <1>4
<1> QED BY <1>3, <1>4 DEF completeSucceeded, enqueueNextRelayRun

\* A handler decides to settle its event when its run is over.
LEMMA ClosesWhenFinal ==
  ASSUME Sound, [Next]_vars, NEW w \in Workers, Closing(w)'
  PROVE  job'[w] = job[w] /\ (Closing(w) \/ status'[Run(w)] \notin {"QUEUED", "DISPATCHING", "RUNNING"})
<1> DEFINE Decides == job'[w] = job[w]
                      /\ (Closing(w) \/ status'[Run(w)] \notin {"QUEUED", "DISPATCHING", "RUNNING"})
<1>1. /\ pc \in [Workers -> Places] /\ job \in [Workers -> Events \cup {NoEvent}]
      /\ verdict \in [Workers -> Verdicts] /\ status \in [Runs -> RunStatus \cup {"NONE"}]
  BY DEF Sound, TypeOK, HandlerTypeOK, RunTypeOK
<1>2. CASE \E v \in Workers : v # w /\ WorkerStep(v)
  BY <1>2, OthersWait DEF Closing
<1>3. CASE WorkerStep(w)
  <2>0. pc[w] # "idle" => Run(w) \in Runs
    BY DEF Sound, JobsAreEvents, Run, Events
  <2>1. FailRun(w) /\ pc[w] # "idle" => Decides
    BY <1>1, <2>0 DEF FailRun, ThenAck, markRunTerminal
  <2>2. FoundTerminal(w) => Decides
    BY <1>1 DEF FoundTerminal, ThenAck, isTerminal, TERMINAL_STATUSES
  <2>3. ~Defer(w)
    BY <1>1 DEF Defer, ThenAck, Closing
  <2>4. \A x \in Verdicts : ~ThenSettle(w, x)
    BY <1>1 DEF ThenSettle, Goto, Closing
  <2>5. \A p \in Places \ {"ack"} : ~Goto(w, p)
    BY <1>1 DEF Goto, Closing
  <2>6. CASE PrepareSnapshot(w)
    BY <2>1, <2>2, <2>3, <2>4, <2>5, <2>6 DEF PrepareSnapshot, Ambiguous, QuotaRefuses, Verdicts, Places
  <2>7. CASE PrepareDispatch(w)
    BY <2>1, <2>2, <2>3, <2>4, <2>5, <2>7 DEF PrepareDispatch, Ambiguous, QuotaRefuses, Verdicts, Places
  <2>8. CASE Settle(w)
    <3>1. verdict[w] \in {"FAILED", "UNKNOWN"}
      BY <2>8 DEF Settle, Sound, LocalsFit
    <3>2. status'[Run(w)] \notin {"QUEUED", "DISPATCHING", "RUNNING"}
      BY <1>1, <2>0, <2>8, <3>1 DEF Settle, completeTerminal, markRunTerminal, isTerminal, TERMINAL_STATUSES
    <3> QED BY <2>8, <3>2 DEF Settle, ThenAck
  <2>9. CASE Succeed(w)
    <3>1. status'[Run(w)] = "SUCCEEDED"
      BY <2>0, <2>9, AnsweredIsFinal DEF Succeed
    <3> QED BY <2>9, <3>1 DEF Succeed, ThenAck
  <2>10. CASE ExecuteDeferred(w) \/ ReadDeferred(w)
    BY <1>1, <2>10 DEF ExecuteDeferred, ReadDeferred, ThenAck, Closing
  <2>11. CASE (\E e \in Events : ClaimEvent(w, e)) \/ CreateExternal(w) \/ Attach(w) \/ ExecuteReached(w)
                \/ ReadAnswer(w) \/ ReadLost(w)
    BY <2>4, <2>5, <2>11 DEF ClaimEvent, CreateExternal, Attach, ExecuteReached, ReadAnswer, RuntimeUsage,
                             ReadLost, Verdicts, Places
  <2>12. CASE Ack(w) \/ Abandon(w)
    BY <1>1, <2>12 DEF Ack, Abandon, Leave, Closing
  <2> QED BY <1>3, <2>6, <2>7, <2>8, <2>9, <2>10, <2>11, <2>12 DEF WorkerStep
<1>4. CASE ~ \E v \in Workers : WorkerStep(v)
  <2>1. \A r \in Runs : ControlStep(r) => UNCHANGED <<workerVars, abandons>>
    BY DEF ControlStep, CancelQueued, CancelRead, CancelCall, CancelCommit, RetryRun,
           ReconcileRead, ReconcileCommit, ControlCrash
  <2>2. UNCHANGED <<workerVars, abandons>>
    BY <1>4, <2>1 DEF Next, SendMessage, LeaseEnds, RemoteFinishes, RemoteRestarts, MinutePassed,
                      MonthStarted, Elsewhere, vars
  <2> QED BY <2>2 DEF Closing
<1> QED BY <1>2, <1>3, <1>4

\* An event is written, settled by its handler, or left as it is.
LEMMA EventMoves ==
  ASSUME Sound, [Next]_vars
  PROVE  \/ UNCHANGED evStatus
         \/ \E e \in Events : evStatus' = [evStatus EXCEPT ![e] = "PENDING"]
         \/ \E w \in Workers : Ack(w)
<1> DEFINE Moves == \/ UNCHANGED evStatus
                    \/ \E e \in Events : evStatus' = [evStatus EXCEPT ![e] = "PENDING"]
                    \/ \E w \in Workers : Ack(w)
<1>1. \A n \in Runs : \A st, c, t, p : InsertRun(st, n, c, t, p) => Moves
  <2> SUFFICES ASSUME NEW n \in Runs, NEW st, NEW c, NEW t, NEW p, InsertRun(st, n, c, t, p) PROVE Moves
    OBVIOUS
  <2>1. <<n, 0>> \in Events
    BY LimitsAssumption DEF Events
  <2> QED BY <2>1 DEF InsertRun, Publish
<1>2. ASSUME NEW w \in Workers, WorkerStep(w) PROVE Moves
  <2>1. CASE Succeed(w)
    BY <1>1, <2>1 DEF Succeed, completeSucceeded, enqueueNextRelayRun
  <2>2. CASE ~Succeed(w) /\ ~Ack(w)
    BY <1>2, <2>2
       DEF WorkerStep, ClaimEvent, Claim, PrepareSnapshot, PrepareDispatch, CreateExternal, Attach,
           ExecuteReached, ExecuteDeferred, ReadAnswer, RuntimeUsage, ReadDeferred, ReadLost, Settle, Abandon
  <2> QED BY <2>1, <2>2
<1>3. ASSUME NEW c \in Conversations, SendMessage(c) PROVE Moves
  BY <1>1, <1>3 DEF SendMessage, CreateUserMessage
<1>4. ASSUME NEW r \in Runs, ControlStep(r) PROVE Moves
  <2>1. CASE RetryRun(r)
    BY <1>1, <2>1 DEF RetryRun, Retry
  <2>2. CASE ReconcileCommit(r)
    <3>1. \A k \in 1 .. MaxReconciles : <<r, k>> \in Events
      BY LimitsAssumption DEF Events
    <3> QED BY <2>2, <3>1 DEF ReconcileCommit, PublishReconciliation, Publish
  <2>3. CASE ~RetryRun(r) /\ ~ReconcileCommit(r)
    BY <1>4, <2>3 DEF ControlStep, CancelQueued, CancelRead, CancelCall, CancelCommit, ReconcileRead,
                      ControlCrash
  <2> QED BY <2>1, <2>2, <2>3
<1>5. CASE \/ \E e \in Events : LeaseEnds(e)
           \/ \E x \in Runtime!Externals : RemoteFinishes(x)
           \/ RemoteRestarts \/ MinutePassed \/ MonthStarted \/ UNCHANGED vars
  BY <1>5 DEF LeaseEnds, ExpireLease, RemoteFinishes, RemoteRestarts, MinutePassed, MonthStarted,
              Elsewhere, vars
<1> QED BY <1>2, <1>3, <1>4, <1>5 DEF Next

LEMMA OnlyClosersSettle ==
  ASSUME Sound, [Next]_vars, NEW e \in Events, evStatus[e] = "PENDING", evStatus'[e] # "PENDING"
  PROVE  \E w \in Workers : Closing(w) /\ job[w] = e
<1>1. evStatus \in [Events -> EventStatus]
  BY DEF Sound, TypeOK, QueueTypeOK
<1>2. PICK w \in Workers : Ack(w)
  BY <1>1, EventMoves
<1>3. evStatus' = [evStatus EXCEPT ![job[w]] = verdict[w]]
  BY <1>2 DEF Ack, Transition
<1> QED BY <1>1, <1>2, <1>3 DEF Ack, Closing

\* A run that becomes unfinished gets an event of its own in the same step.
LEMMA StartsWithEvent ==
  ASSUME Sound, [Next]_vars, NEW r \in Runs, ~Unfinished(r), Unfinished(r)'
  PROVE  \E k \in 0 .. MaxReconciles : evStatus[<<r, k>>] = "ABSENT" /\ evStatus'[<<r, k>>] = "PENDING"
<1> DEFINE Written == \E k \in 0 .. MaxReconciles :
                        evStatus[<<r, k>>] = "ABSENT" /\ evStatus'[<<r, k>>] = "PENDING"
<1>1. /\ status \in [Runs -> RunStatus \cup {"NONE"}] /\ evStatus \in [Events -> EventStatus]
      /\ \A e \in Events : evStatus[e] # "ABSENT" => Exists(e[1])
  BY DEF Sound, TypeOK, RunTypeOK, QueueTypeOK, JobsAreEvents
<1>2. \A k \in 0 .. MaxReconciles : <<r, k>> \in Events
  BY DEF Events
<1>3. CASE status[r] = "NONE"
  <2>1. <<r, 0>> \in Events /\ evStatus[<<r, 0>>] = "ABSENT"
    BY <1>1, <1>2, <1>3, LimitsAssumption DEF Exists
  <2>2. ASSUME NEW n \in Runs, NEW st \in [Runs -> RunStatus \cup {"NONE"}], NEW c, NEW t, NEW p,
               InsertRun(st, n, c, t, p), st[r] = "NONE"
        PROVE  Written
    <3>1. n = r
      BY <2>2 DEF InsertRun, Unfinished
    <3> QED BY <1>1, <2>1, <2>2, <3>1, LimitsAssumption DEF InsertRun, Publish
  <2>3. CASE \E q \in Runs : Answers(q)
    <3>1. PICK q \in Runs, u \in UsageReports : completeSucceeded(q, u)
      BY <2>3 DEF Answers
    <3> DEFINE answered == [status EXCEPT ![q] = "SUCCEEDED"]
    <3>2. answered \in [Runs -> RunStatus \cup {"NONE"}]
      BY <1>1 DEF RunStatus
    <3>3. q # r /\ answered[r] = "NONE"
      BY <1>1, <1>3, <3>1 DEF completeSucceeded, ConfirmedExecution, enqueueNextRelayRun
    <3>4. CASE status' = answered
      BY <3>3, <3>4 DEF Unfinished
    <3>5. CASE \E n \in Runs : InsertRun(answered, n, conv[q], turn[q] + 1, q)
      BY <2>2, <3>2, <3>3, <3>5
    <3> QED BY <3>1, <3>4, <3>5 DEF completeSucceeded, enqueueNextRelayRun
  <2>4. CASE (\E c \in Conversations : CreateUserMessage(c)) \/ \E q \in Runs : Retry(q)
    BY <1>1, <1>3, <2>2, <2>4 DEF CreateUserMessage, Retry
  <2>5. CASE \E q \in Runs : Finishes(q)
    BY <1>1, <1>3, <2>5 DEF Finishes, markRunTerminal, Exists, Unfinished
  <2>6. CASE \E q \in Runs : Dispatches(q) \/ Attaches(q) \/ persistCancellation(q) \/ Reopens(q)
    BY <1>1, <1>3, <2>6
       DEF Dispatches, BeginDispatch, Attaches, attachExternalRun, AwaitsExternal, persistCancellation, Reopens,
           Unfinished
  <2>7. CASE MinutePasses \/ MonthStarts \/ UNCHANGED runVars
    BY <1>3, <2>7 DEF MinutePasses, MonthStarts, Unfinished
  <2> QED BY <2>3, <2>4, <2>5, <2>6, <2>7, StepSeen DEF RunTableStep
<1>4. CASE status[r] # "NONE"
  <2>1. status[r] = "UNKNOWN" /\ status'[r] = "RUNNING"
    BY <1>1, <1>4, StepSeen, EdgesOf DEF Edge, Waits, Appears, Starts, Resumes, Succeeds, Ends, Unfinished
  <2>2. ASSUME NEW w \in Workers, WorkerStep(w)
        PROVE  FALSE
    <3>1. CASE Settle(w)
      <4>1. verdict[w] \in {"FAILED", "UNKNOWN"}
        BY <3>1 DEF Settle, Sound, LocalsFit
      <4> QED BY <1>1, <2>1, <3>1, <4>1 DEF Settle, completeTerminal, markRunTerminal
    <3>2. CASE Succeed(w)
      <4>1. CASE status'[r] = status[r]
        BY <2>1, <4>1
      <4>2. PICK u \in UsageReports : completeSucceeded(Run(w), u)
        BY <2>1, <3>2 DEF Succeed, Sound, TypeOK, HandlerTypeOK
      <4> DEFINE answered == [status EXCEPT ![Run(w)] = "SUCCEEDED"]
      <4>3. answered[r] # "RUNNING"
        BY <1>1, <2>1
      <4>4. CASE \E n \in Runs : InsertRun(answered, n, conv[Run(w)], turn[Run(w)] + 1, Run(w))
        BY <1>1, <2>1, <4>3, <4>4 DEF InsertRun
      <4>5. CASE status' = answered
        BY <2>1, <4>3, <4>5
      <4> QED BY <4>2, <4>4, <4>5 DEF completeSucceeded, enqueueNextRelayRun
    <3>3. CASE PrepareSnapshot(w) \/ PrepareDispatch(w)
      BY <1>1, <2>1, <3>3
         DEF PrepareSnapshot, PrepareDispatch, FoundTerminal, FailRun, QuotaRefuses, Defer, Ambiguous,
             markRunTerminal,
             BeginDispatch
    <3>4. CASE Attach(w)
      BY <1>1, <2>1, <3>4 DEF Attach, attachExternalRun, AwaitsExternal
    <3>5. CASE (\E e \in Events : ClaimEvent(w, e)) \/ CreateExternal(w) \/ ExecuteReached(w)
                 \/ ExecuteDeferred(w) \/ ReadAnswer(w) \/ ReadDeferred(w) \/ ReadLost(w) \/ Ack(w) \/ Abandon(w)
      BY <2>1, <3>5 DEF ClaimEvent, CreateExternal, ExecuteReached, ExecuteDeferred, ReadAnswer, RuntimeUsage,
                        ReadDeferred, ReadLost, Ack, Abandon
    <3> QED BY <2>2, <3>1, <3>2, <3>3, <3>4, <3>5 DEF WorkerStep
  <2>3. ASSUME NEW n \in Runs, NEW c, NEW t, NEW p, InsertRun(status, n, c, t, p)
        PROVE  FALSE
    BY <1>1, <2>1, <2>3 DEF InsertRun
  <2>4. ASSUME NEW q \in Runs, ControlStep(q)
        PROVE  Written
    <3>1. CASE ReconcileCommit(q)
      <4>1. q = r
        BY <1>1, <2>1, <3>1 DEF ReconcileCommit
      <4>2. PublishReconciliation(r)
        BY <2>1, <3>1, <4>1 DEF ReconcileCommit
      <4>3. PICK k \in 1 .. MaxReconciles : evStatus[<<r, k>>] = "ABSENT" /\ Publish(<<r, k>>)
        BY <4>2 DEF PublishReconciliation
      <4>4. k \in 0 .. MaxReconciles
        BY LimitsAssumption
      <4> QED BY <1>1, <1>2, <4>3, <4>4 DEF Publish
    <3>2. CASE CancelQueued(q)
      BY <1>1, <2>1, <3>2 DEF CancelQueued, persistCancellation
    <3>3. CASE CancelCommit(q)
      BY <1>1, <2>1, <3>3 DEF CancelCommit, markRunTerminal
    <3>4. CASE RetryRun(q)
      BY <2>3, <3>4 DEF RetryRun, Retry
    <3>5. CASE CancelRead(q) \/ CancelCall(q) \/ ReconcileRead(q) \/ ControlCrash(q)
      BY <2>1, <3>5 DEF CancelRead, CancelCall, ReconcileRead, ControlCrash
    <3> QED BY <2>4, <3>1, <3>2, <3>3, <3>4, <3>5 DEF ControlStep
  <2>5. CASE \E c \in Conversations : SendMessage(c)
    BY <2>3, <2>5 DEF SendMessage, CreateUserMessage
  <2>6. CASE \/ \E e \in Events : LeaseEnds(e)
             \/ \E x \in Runtime!Externals : RemoteFinishes(x)
             \/ RemoteRestarts \/ MinutePassed \/ MonthStarted \/ UNCHANGED vars
    BY <2>1, <2>6 DEF LeaseEnds, RemoteFinishes, RemoteRestarts, MinutePassed, MinutePasses, MonthStarted,
                      MonthStarts,
                      vars
  <2> QED BY <2>2, <2>4, <2>5, <2>6 DEF Next
<1> QED BY <1>3, <1>4

LEMMA NobodyForgetsKept == Sound /\ NobodyForgets /\ [Next]_vars => NobodyForgets'
<1> SUFFICES ASSUME Sound, NobodyForgets, [Next]_vars, NEW r \in Runs, Unfinished(r)'
             PROVE  \E k \in 0 .. MaxReconciles : LookedAfter(<<r, k>>)'
  BY DEF NobodyForgets
<1>1. \A k \in 0 .. MaxReconciles : <<r, k>> \in Events
  BY DEF Events
\* Who decides about an event now has it already, and its run is over.
<1>2. \A k \in 0 .. MaxReconciles : \A w \in Workers :
        job'[w] = <<r, k>> /\ Closing(w)' => job[w] = <<r, k>> /\ Closing(w)
  BY ClosesWhenFinal DEF Unfinished, Run
<1>3. CASE Unfinished(r)
  <2>1. PICK k \in 0 .. MaxReconciles : LookedAfter(<<r, k>>)
    BY <1>3 DEF NobodyForgets
  <2>2. evStatus'[<<r, k>>] = "PENDING"
    BY <1>1, <2>1, OnlyClosersSettle DEF LookedAfter
  <2> QED BY <1>2, <2>1, <2>2 DEF LookedAfter
<1>4. CASE ~Unfinished(r)
  <2>1. PICK k \in 0 .. MaxReconciles : evStatus[<<r, k>>] = "ABSENT" /\ evStatus'[<<r, k>>] = "PENDING"
    BY <1>4, StartsWithEvent
  <2>2. \A w \in Workers : job[w] = <<r, k>> => ~Closing(w)
    BY <2>1 DEF Sound, JobsAreEvents, Closing
  <2> QED BY <1>2, <2>1, <2>2 DEF LookedAfter
<1> QED BY <1>3, <1>4

(* Whatever dies, is lost or is decided at the same time by two handlers: an
   unfinished run has an event that will be claimed again. *)
THEOREM NothingIsLeftBehind == Spec => []UnfinishedHasEvent
<1>1. Init => NobodyForgets
  BY DEF Init, RunInit, NobodyForgets, Unfinished
<1>2. NobodyForgets => UnfinishedHasEvent
  BY DEF NobodyForgets, Unfinished, LookedAfter, UnfinishedHasEvent
<1> QED BY <1>1, <1>2, NobodyForgetsKept, AlwaysSound, PTL DEF Spec

-----------------------------------------------------------------------------
\* An insert in a step that has brought statuses to st: the runs before it keep
\* what they were, and the new one continues p or nothing.
LEMMA RelayInserts ==
  ASSUME Sound, RelayContinuesAnswers, NEW n \in Runs, NEW c, NEW t, NEW p \in Runs \cup {NoRun},
         NEW st \in [Runs -> RunStatus \cup {"NONE"}], InsertRun(st, n, c, t, p),
         \A q \in Runs : status[q] = "SUCCEEDED" => st[q] = "SUCCEEDED",
         p # NoRun => status[p] = "RUNNING" /\ st[p] = "SUCCEEDED" /\ c = conv[p] /\ t = turn[p] + 1
  PROVE  RelayContinuesAnswers'
<1>1. /\ conv \in [Runs -> Conversations \cup {NoConversation}] /\ turn \in [Runs -> 1 .. 8]
      /\ parent \in [Runs -> Runs \cup {NoRun}]
  BY DEF Sound, TypeOK, RunTypeOK
<1>2. /\ status' = [st EXCEPT ![n] = "QUEUED"] /\ conv' = [conv EXCEPT ![n] = c]
      /\ turn' = [turn EXCEPT ![n] = t] /\ parent' = [parent EXCEPT ![n] = p] /\ status[n] = "NONE"
  BY DEF InsertRun, IsNextRun, Exists
<1>3. ASSUME NEW r \in Runs, r # n, parent[r] # NoRun
      PROVE  /\ status'[parent'[r]] = "SUCCEEDED" /\ conv'[parent'[r]] = conv'[r]
             /\ turn'[r] = turn'[parent'[r]] + 1
  <2>1. parent'[r] = parent[r] /\ parent[r] \in Runs /\ status[parent[r]] = "SUCCEEDED"
    BY <1>1, <1>2, <1>3 DEF RelayContinuesAnswers
  <2>2. parent[r] # n
    BY <1>2, <2>1
  <2> QED BY <1>1, <1>2, <1>3, <2>1, <2>2 DEF RelayContinuesAnswers
<1>4. p # NoRun =>
        /\ status'[parent'[n]] = "SUCCEEDED" /\ conv'[parent'[n]] = conv'[n]
        /\ turn'[n] = turn'[parent'[n]] + 1
  BY <1>1, <1>2 DEF RelayContinuesAnswers
<1> QED BY <1>1, <1>2, <1>3, <1>4 DEF RelayContinuesAnswers

LEMMA RelayKept == Sound /\ RelayContinuesAnswers /\ [Next]_vars => RelayContinuesAnswers'
<1> SUFFICES ASSUME Sound, RelayContinuesAnswers, [Next]_vars PROVE RelayContinuesAnswers'
  OBVIOUS
<1>1. status \in [Runs -> RunStatus \cup {"NONE"}] /\ parent \in [Runs -> Runs \cup {NoRun}]
  BY DEF Sound, TypeOK, RunTypeOK
<1>2. \A r \in Runs : status[r] = "SUCCEEDED" => status'[r] = "SUCCEEDED"
  BY StepSeen, EdgesOf DEF Edge, Waits, Appears, Starts, Resumes, Succeeds, Ends
<1>3. UNCHANGED <<conv, turn, parent>> => RelayContinuesAnswers'
  BY <1>1, <1>2 DEF RelayContinuesAnswers
<1>4. CASE (\E c \in Conversations : CreateUserMessage(c)) \/ \E q \in Runs : Retry(q)
  <2>1. PICK n \in Runs : \E c, t : InsertRun(status, n, c, t, NoRun)
    BY <1>4 DEF CreateUserMessage, Retry
  <2> QED BY <1>1, <2>1, RelayInserts
<1>5. CASE \E q \in Runs : Answers(q)
  <2>1. PICK q \in Runs, u \in UsageReports : completeSucceeded(q, u)
    BY <1>5 DEF Answers
  <2> DEFINE answered == [status EXCEPT ![q] = "SUCCEEDED"]
  <2>2. CASE \E n \in Runs : InsertRun(answered, n, conv[q], turn[q] + 1, q)
    <3>1. PICK n \in Runs : InsertRun(answered, n, conv[q], turn[q] + 1, q)
      BY <2>2
    <3>2. /\ status[q] = "RUNNING" /\ answered[q] = "SUCCEEDED"
          /\ answered \in [Runs -> RunStatus \cup {"NONE"}]
          /\ \A r \in Runs : status[r] = "SUCCEEDED" => answered[r] = "SUCCEEDED"
      BY <1>1, <2>1 DEF completeSucceeded, ConfirmedExecution, enqueueNextRelayRun, RunStatus
    <3> HIDE DEF answered
    <3> QED BY <3>1, <3>2, RelayInserts
  <2>3. CASE UNCHANGED <<conv, turn, parent>>
    BY <1>3, <2>3
  <2> QED BY <2>1, <2>2, <2>3 DEF completeSucceeded, enqueueNextRelayRun
<1>6. CASE \E q \in Runs : \/ Dispatches(q) \/ Attaches(q) \/ Finishes(q)
                           \/ persistCancellation(q) \/ Reopens(q)
  BY <1>3, <1>6
     DEF Dispatches, BeginDispatch, Attaches, attachExternalRun, Finishes, markRunTerminal,
         persistCancellation, Reopens
<1>7. CASE MinutePasses \/ MonthStarts \/ UNCHANGED runVars
  BY <1>3, <1>7 DEF MinutePasses, MonthStarts
<1> QED BY <1>4, <1>5, <1>6, <1>7, StepSeen DEF RunTableStep

(* A relay turn always continues an answer that was given, in its conversation and
   one turn later. *)
THEOREM RelaysContinue == Spec => []RelayContinuesAnswers
<1>1. Init => RelayContinuesAnswers
  BY DEF Init, RunInit, RelayContinuesAnswers
<1> QED BY <1>1, RelayKept, AlwaysSound, PTL DEF Spec

-----------------------------------------------------------------------------
(* Sums over the runs.  The library states induction over finite sets with *)
(* an operator for the property; here it is done with a smallest set among *)
(* those that are odd.                                                     *)

\* Some set of a family of sets of runs contains no other.
LEMMA LeastSubset ==
  ASSUME NEW T, T \subseteq SUBSET Runs, T # {}
  PROVE  \E s \in T : \A u \in T : u \subseteq s => u = s
<1>1. IsWellFoundedOn(StrictSubsetOrdering(Runs), SUBSET Runs)
  <2>1. FiniteSubsetsOf(Runs) = SUBSET Runs
    BY RunsAssumption, FS_FiniteSubsetsOfFinite
  <2>2. IsWellFoundedOn(StrictSubsetOrdering(Runs), FiniteSubsetsOf(Runs))
    BY FS_StrictSubsetOrderingWellFounded
  <2> QED BY <2>1, <2>2
<1>2. PICK s \in T : \A u \in T : ~(<<u, s>> \in StrictSubsetOrdering(Runs))
  BY <1>1, WFMin
<1>3. \A u \in T : u \subseteq s => u = s
  BY <1>2 DEF StrictSubsetOrdering
<1> QED BY <1>3

\* What a fold over a set does: it takes out one element after the other.
Some(s) == CHOOSE x \in s : TRUE

Adds(f, t, D) == t = [s \in D |-> IF s = {} THEN 0 ELSE f[Some(s)] + t[s \ {Some(s)}]]

Total(f) == CHOOSE t : Adds(f, t, SUBSET Runs)

LEMMA SomeIsOne == ASSUME NEW s, s # {} PROVE Some(s) \in s
BY DEF Some

\* The equation of the fold determines it ...
LEMMA AddsOnce ==
  ASSUME NEW f, NEW U \in SUBSET Runs, NEW V \in SUBSET Runs, NEW g, NEW h,
         Adds(f, g, SUBSET U), Adds(f, h, SUBSET V),
         NEW s, s \subseteq U, s \subseteq V
  PROVE  g[s] = h[s]
<1> DEFINE Differ == {u \in SUBSET Runs : u \subseteq U /\ u \subseteq V /\ g[u] # h[u]}
<1> SUFFICES ASSUME Differ # {} PROVE FALSE
  OBVIOUS
<1>1. PICK u \in Differ : \A v \in Differ : v \subseteq u => v = u
  <2>1. Differ \subseteq SUBSET Runs
    OBVIOUS
  <2> HIDE DEF Differ
  <2> QED BY <2>1, LeastSubset
<1>2. /\ g[u] = IF u = {} THEN 0 ELSE f[Some(u)] + g[u \ {Some(u)}]
      /\ h[u] = IF u = {} THEN 0 ELSE f[Some(u)] + h[u \ {Some(u)}]
  BY <1>1 DEF Adds
<1>3. u # {}
  BY <1>1, <1>2
<1>4. u \ {Some(u)} \notin Differ
  BY <1>1, <1>3, SomeIsOne
<1> QED BY <1>1, <1>2, <1>3, <1>4

\* ... and has a solution.
LEMMA TotalAdds ==
  ASSUME NEW f PROVE Adds(f, Total(f), SUBSET Runs)
<1> DEFINE Lacking == {U \in SUBSET Runs : ~ \E g : Adds(f, g, SUBSET U)}
<1>1. ASSUME Lacking # {} PROVE FALSE
  <2>1. PICK U \in Lacking : \A V \in Lacking : V \subseteq U => V = U
    <3>1. Lacking \subseteq SUBSET Runs
      OBVIOUS
    <3> HIDE DEF Lacking
    <3> QED BY <1>1, <3>1, LeastSubset
  <2> DEFINE H(u) == CHOOSE g : Adds(f, g, SUBSET u)
             Rest(u) == u \ {Some(u)}
             sum == [s \in SUBSET U |-> IF s = {} THEN 0 ELSE f[Some(s)] + H(Rest(s))[Rest(s)]]
  <2>2. \A u \in SUBSET U : u # U => Adds(f, H(u), SUBSET u)
    BY <2>1
  <2>3. ASSUME NEW s \in SUBSET U, s # {} PROVE H(Rest(s))[Rest(s)] = sum[Rest(s)]
    <3> DEFINE v == Rest(s)
    <3>1. v \in SUBSET U /\ v # U
      BY <2>3, SomeIsOne
    <3>2. Adds(f, H(v), SUBSET v)
      BY <3>1, <2>2
    <3>3. H(v)[v] = IF v = {} THEN 0 ELSE f[Some(v)] + H(v)[Rest(v)]
      <4> HIDE DEF v, H
      <4> QED BY <3>2 DEF Adds
    <3>4. CASE v = {}
      BY <3>1, <3>3, <3>4
    <3>5. CASE v # {}
      <4>1. Rest(v) \in SUBSET U /\ Rest(v) # U /\ Rest(v) \in SUBSET v
        BY <3>1, <3>5, SomeIsOne
      <4>2. Adds(f, H(Rest(v)), SUBSET Rest(v))
        BY <4>1, <2>2
      <4>3. U \in SUBSET Runs
        BY <2>1
      <4>4. H(v)[Rest(v)] = H(Rest(v))[Rest(v)]
        <5>1. v \in SUBSET Runs /\ Rest(v) \in SUBSET Runs
          BY <3>1, <4>1, <4>3
        <5> HIDE DEF H, v, Rest
        <5> QED BY <3>2, <4>1, <4>2, <5>1, AddsOnce
      <4>5. sum[v] = f[Some(v)] + H(Rest(v))[Rest(v)]
        <5> HIDE DEF H, v, Rest
        <5> QED BY <3>1, <3>5
      <4> QED BY <3>3, <3>5, <4>4, <4>5
    <3> QED BY <3>4, <3>5
  <2>4. sum = [s \in SUBSET U |-> IF s = {} THEN 0 ELSE f[Some(s)] + sum[Rest(s)]]
    <3> HIDE DEF H
    <3>1. \A s \in SUBSET U : sum[s] = IF s = {} THEN 0 ELSE f[Some(s)] + sum[Rest(s)]
      BY <2>3
    <3> HIDE DEF sum
    <3>2. sum = [s \in SUBSET U |-> sum[s]]
      BY DEF sum
    <3> QED BY <3>1, <3>2
  <2>5. Adds(f, sum, SUBSET U)
    <3> HIDE DEF sum
    <3> QED BY <2>4 DEF Adds
  <2> QED BY <2>1, <2>5
<1>2. \E g : Adds(f, g, SUBSET Runs)
  BY <1>1
<1> QED BY <1>2 DEF Total

LEMMA TotalOfPart ==
  ASSUME NEW f, NEW s \in SUBSET Runs
  PROVE  Total(f)[s] = IF s = {} THEN 0 ELSE f[Some(s)] + Total(f)[s \ {Some(s)}]
BY TotalAdds DEF Adds

LEMMA TotalIsNat ==
  ASSUME NEW f \in [Runs -> Nat], NEW s \in SUBSET Runs
  PROVE  Total(f)[s] \in Nat
<1> DEFINE Odd == {u \in SUBSET Runs : Total(f)[u] \notin Nat}
<1> SUFFICES ASSUME Odd # {} PROVE FALSE
  OBVIOUS
<1>1. PICK u \in Odd : \A v \in Odd : v \subseteq u => v = u
  <2>1. Odd \subseteq SUBSET Runs
    OBVIOUS
  <2> HIDE DEF Odd
  <2> QED BY <2>1, LeastSubset
<1>2. u # {}
  BY <1>1, TotalOfPart
<1>3. Some(u) \in u /\ Some(u) \in Runs /\ Total(f)[u \ {Some(u)}] \in Nat
  BY <1>1, <1>2, SomeIsOne
<1>4. Total(f)[u] = f[Some(u)] + Total(f)[u \ {Some(u)}]
  BY <1>1, <1>2, TotalOfPart
<1> QED BY <1>1, <1>3, <1>4

\* In which order the elements are taken out makes no difference.
LEMMA TotalTakesOut ==
  ASSUME NEW f \in [Runs -> Nat], NEW s \in SUBSET Runs, NEW r \in s
  PROVE  Total(f)[s] = f[r] + Total(f)[s \ {r}]
<1> DEFINE Odd == {u \in SUBSET Runs : \E x \in u : Total(f)[u] # f[x] + Total(f)[u \ {x}]}
<1> SUFFICES ASSUME Odd # {} PROVE FALSE
  OBVIOUS
<1>1. PICK u \in Odd : \A v \in Odd : v \subseteq u => v = u
  <2>1. Odd \subseteq SUBSET Runs
    OBVIOUS
  <2> HIDE DEF Odd
  <2> QED BY <2>1, LeastSubset
<1>2. PICK x \in u : Total(f)[u] # f[x] + Total(f)[u \ {x}]
  BY <1>1
<1> DEFINE c == Some(u)
<1>3. c \in u
  BY <1>2, SomeIsOne
<1>4. Total(f)[u] = f[c] + Total(f)[u \ {c}]
  BY <1>1, <1>2, TotalOfPart
<1>5. c # x
  BY <1>2, <1>4
<1>6. u \ {c} \notin Odd /\ u \ {x} \notin Odd
  BY <1>1, <1>2, <1>3
<1>7. Total(f)[u \ {c}] = f[x] + Total(f)[(u \ {c}) \ {x}]
  BY <1>1, <1>2, <1>5, <1>6
<1>8. Total(f)[u \ {x}] = f[c] + Total(f)[(u \ {x}) \ {c}]
  BY <1>1, <1>2, <1>3, <1>5, <1>6
<1>9. (u \ {c}) \ {x} = (u \ {x}) \ {c}
  OBVIOUS
<1>10. f[c] \in Nat /\ f[x] \in Nat /\ Total(f)[(u \ {x}) \ {c}] \in Nat
  BY <1>1, <1>2, <1>3, TotalIsNat
<1>11. Total(f)[u] = f[x] + Total(f)[u \ {x}]
  <2>1. Total(f)[u \ {c}] = f[x] + Total(f)[(u \ {x}) \ {c}]
    BY <1>7, <1>9
  <2> HIDE DEF c
  <2> QED BY <1>4, <1>8, <1>10, <2>1
<1> QED BY <1>2, <1>11

LEMMA TotalGrows ==
  ASSUME NEW f \in [Runs -> Nat], NEW g \in [Runs -> Nat], NEW s \in SUBSET Runs,
         \A r \in s : f[r] <= g[r]
  PROVE  Total(f)[s] <= Total(g)[s]
<1> DEFINE Odd == {u \in SUBSET Runs : u \subseteq s /\ ~(Total(f)[u] <= Total(g)[u])}
<1> SUFFICES ASSUME Odd # {} PROVE FALSE
  OBVIOUS
<1>1. PICK u \in Odd : \A v \in Odd : v \subseteq u => v = u
  <2>1. Odd \subseteq SUBSET Runs
    OBVIOUS
  <2> HIDE DEF Odd
  <2> QED BY <2>1, LeastSubset
<1>2. u # {}
  BY <1>1, TotalOfPart
<1>3. Some(u) \in u
  BY <1>2, SomeIsOne
<1>4. /\ Total(f)[u] = f[Some(u)] + Total(f)[u \ {Some(u)}]
      /\ Total(g)[u] = g[Some(u)] + Total(g)[u \ {Some(u)}]
  BY <1>1, <1>2, TotalOfPart
<1>5. /\ Total(f)[u \ {Some(u)}] \in Nat /\ Total(g)[u \ {Some(u)}] \in Nat
      /\ f[Some(u)] \in Nat /\ g[Some(u)] \in Nat
  BY <1>1, <1>3, TotalIsNat
<1>6. Total(f)[u \ {Some(u)}] <= Total(g)[u \ {Some(u)}]
  BY <1>1, <1>3
<1>7. f[Some(u)] <= g[Some(u)]
  BY <1>1, <1>3
<1> QED BY <1>1, <1>4, <1>5, <1>6, <1>7

LEMMA TotalOfSum ==
  ASSUME NEW f \in [Runs -> Nat], NEW g \in [Runs -> Nat], NEW h \in [Runs -> Nat],
         \A r \in Runs : h[r] = f[r] + g[r]
  PROVE  Total(h)[Runs] = Total(f)[Runs] + Total(g)[Runs]
<1> DEFINE Odd == {u \in SUBSET Runs : Total(h)[u] # Total(f)[u] + Total(g)[u]}
<1> SUFFICES ASSUME Odd # {} PROVE FALSE
  OBVIOUS
<1>1. PICK u \in Odd : \A v \in Odd : v \subseteq u => v = u
  <2>1. Odd \subseteq SUBSET Runs
    OBVIOUS
  <2> HIDE DEF Odd
  <2> QED BY <2>1, LeastSubset
<1>2. u # {}
  BY <1>1, TotalOfPart
<1>3. Some(u) \in u
  BY <1>2, SomeIsOne
<1>4. /\ Total(f)[u] = f[Some(u)] + Total(f)[u \ {Some(u)}]
      /\ Total(g)[u] = g[Some(u)] + Total(g)[u \ {Some(u)}]
      /\ Total(h)[u] = h[Some(u)] + Total(h)[u \ {Some(u)}]
  BY <1>1, <1>2, TotalOfPart
<1>5. /\ Total(f)[u \ {Some(u)}] \in Nat /\ Total(g)[u \ {Some(u)}] \in Nat
      /\ f[Some(u)] \in Nat /\ g[Some(u)] \in Nat
      /\ h[Some(u)] = f[Some(u)] + g[Some(u)]
  BY <1>1, <1>3, TotalIsNat
<1>6. Total(h)[u \ {Some(u)}] = Total(f)[u \ {Some(u)}] + Total(g)[u \ {Some(u)}]
  BY <1>1, <1>3
<1> QED BY <1>1, <1>4, <1>5, <1>6

\* A number for each member of M.
LEMMA TotalOfMarked ==
  ASSUME NEW n \in Nat, NEW M \in SUBSET Runs, NEW f \in [Runs -> Nat],
         \A r \in Runs : f[r] = IF r \in M THEN n ELSE 0
  PROVE  Total(f)[Runs] = n * Cardinality(M)
<1> DEFINE Odd == {u \in SUBSET Runs : Total(f)[u] # n * Cardinality(u \cap M)}
<1> SUFFICES ASSUME Odd # {} PROVE FALSE
  <2>1. M = Runs \cap M
    OBVIOUS
  <2> QED BY <2>1
<1>1. PICK u \in Odd : \A v \in Odd : v \subseteq u => v = u
  <2>1. Odd \subseteq SUBSET Runs
    OBVIOUS
  <2> HIDE DEF Odd
  <2> QED BY <2>1, LeastSubset
<1>2. u # {}
  <2>1. u = {} => Total(f)[u] = 0 /\ u \cap M = {}
    BY TotalOfPart
  <2>2. Cardinality({}) = 0 /\ n * 0 = 0
    BY FS_EmptySet
  <2> QED BY <1>1, <2>1, <2>2
<1>3. Some(u) \in u
  BY <1>2, SomeIsOne
<1> DEFINE x == Some(u)
           v == u \ {x}
<1>4. Total(f)[u] = f[x] + Total(f)[v]
  BY <1>1, <1>2, TotalOfPart
<1>5. Total(f)[v] = n * Cardinality(v \cap M)
  BY <1>1, <1>3
<1>6. IsFiniteSet(u \cap M) /\ IsFiniteSet(v \cap M)
  BY <1>1, RunsAssumption, FS_Subset
<1>7. Cardinality(u \cap M) \in Nat /\ Cardinality(v \cap M) \in Nat
  BY <1>6, FS_CardinalityType
<1>8. Total(f)[u] # n * Cardinality(u \cap M)
  BY <1>1
<1>9. CASE x \in M
  <2>1. v \cap M = (u \cap M) \ {x} /\ x \in u \cap M
    BY <1>3, <1>9
  <2>2. Cardinality(v \cap M) = Cardinality(u \cap M) - 1
    <3> HIDE DEF v, x
    <3>1. Cardinality((u \cap M) \ {x}) = Cardinality(u \cap M) - 1
      BY <2>1, <1>6, FS_RemoveElement
    <3> QED BY <2>1, <3>1
  <2>3. f[x] = n
    BY <1>1, <1>3, <1>9
  <2> HIDE DEF v, x
  <2>4. n + n * Cardinality(v \cap M) = n * (Cardinality(v \cap M) + 1)
    BY <1>7
  <2> QED BY <1>8, <1>4, <1>5, <1>7, <2>2, <2>3, <2>4
<1>10. CASE x \notin M
  <2>1. v \cap M = u \cap M
    BY <1>10
  <2>2. f[x] = 0
    BY <1>1, <1>3, <1>10
  <2>3. n * Cardinality(u \cap M) \in Nat
    BY <1>7
  <2> HIDE DEF v, x
  <2>4. Total(f)[v] = n * Cardinality(u \cap M)
    BY <1>5, <2>1
  <2>5. Total(f)[u] = Total(f)[v]
    BY <1>4, <2>2, <2>3, <2>4
  <2> QED BY <1>8, <2>4, <2>5
<1> QED BY <1>9, <1>10

LEMMA TotalOfOneMore ==
  ASSUME NEW f \in [Runs -> Nat], NEW g \in [Runs -> Nat], NEW r \in Runs, NEW n \in Nat,
         g[r] <= f[r] + n, \A q \in Runs : q # r => g[q] <= f[q]
  PROVE  Total(g)[Runs] <= Total(f)[Runs] + n
<1>1. /\ Total(f)[Runs] = f[r] + Total(f)[Runs \ {r}]
      /\ Total(g)[Runs] = g[r] + Total(g)[Runs \ {r}]
  BY TotalTakesOut
<1>2. Total(g)[Runs \ {r}] <= Total(f)[Runs \ {r}]
  BY TotalGrows
<1>3. Total(g)[Runs \ {r}] \in Nat /\ Total(f)[Runs \ {r}] \in Nat
  BY TotalIsNat
<1> QED BY <1>1, <1>2, <1>3

-----------------------------------------------------------------------------
(* The token budget.                                                       *)

\* What a run takes of the month's limit: what is recorded of it, as far as it
\* was reserved for, and what is reserved for it now.
Charge(r) ==
  (IF used[r] > Reservation THEN Reservation ELSE used[r]) + (IF reserved[r] THEN Reservation ELSE 0)

Charges == [r \in Runs |-> Charge(r)]

WithinBudget == Total(Charges)[Runs] <= TokenLimit

LEMMA OverrunsAreTotal ==
  ASSUME RunTypeOK
  PROVE  MapThenSumSet(Overrun, Runs) = Total([r \in Runs |-> Overrun(r)])[Runs]
<1> DEFINE over == [r \in Runs |-> Overrun(r)]
           Folds(t) == t = [s \in SUBSET Runs |-> IF s = {} THEN 0 ELSE Overrun(Some(s)) + t[s \ {Some(s)}]]
           fold == CHOOSE t : Folds(t)
<1>1. ASSUME NEW t PROVE Folds(t) <=> Adds(over, t, SUBSET Runs)
  <2>1. \A s \in SUBSET Runs : s # {} => over[Some(s)] = Overrun(Some(s))
    BY SomeIsOne
  <2> HIDE DEF over
  <2>2. [s \in SUBSET Runs |-> IF s = {} THEN 0 ELSE Overrun(Some(s)) + t[s \ {Some(s)}]]
          = [s \in SUBSET Runs |-> IF s = {} THEN 0 ELSE over[Some(s)] + t[s \ {Some(s)}]]
    BY <2>1
  <2> QED BY <2>2 DEF Adds
<1>2. MapThenSumSet(Overrun, Runs) = fold[Runs]
  BY DEF MapThenSumSet, MapThenFoldSet, Some
<1> HIDE DEF Folds, over
<1>3. Folds(Total(over))
  BY <1>1, TotalAdds
<1>4. Folds(fold)
  BY <1>3
<1> HIDE DEF fold
<1>5. fold[Runs] = Total(over)[Runs]
  BY <1>1, <1>4, TotalAdds, AddsOnce
<1> QED BY <1>2, <1>5 DEF over

\* Recorded and reserved tokens are the charges and the overruns together.
LEMMA LedgerIsCharges ==
  ASSUME RunTypeOK
  PROVE  /\ Total(Charges)[Runs] \in Nat /\ MapThenSumSet(Overrun, Runs) \in Nat
         /\ UsedTokens + ReservedTokens = Total(Charges)[Runs] + MapThenSumSet(Overrun, Runs)
<1> DEFINE over == [r \in Runs |-> Overrun(r)]
           held == [r \in Runs |-> IF reserved[r] THEN Reservation ELSE 0]
           both == [r \in Runs |-> used[r] + held[r]]
           Held == {r \in Runs : reserved[r]}
<1>1. used \in [Runs -> Nat] /\ Reservation \in Nat
  BY LimitsAssumption DEF RunTypeOK
<1>2. /\ over \in [Runs -> Nat] /\ held \in [Runs -> Nat] /\ both \in [Runs -> Nat]
      /\ Charges \in [Runs -> Nat]
  BY <1>1 DEF Overrun, Charges, Charge
<1>3. \A r \in Runs : both[r] = used[r] + held[r] /\ both[r] = Charges[r] + over[r]
  BY <1>1 DEF Overrun, Charges, Charge
<1>4. \A r \in Runs : held[r] = IF r \in Held THEN Reservation ELSE 0
  OBVIOUS
<1>5. MapThenSumSet(Overrun, Runs) = Total(over)[Runs]
  BY OverrunsAreTotal
<1>6. UsedTokens = Total(used)[Runs]
  BY DEF UsedTokens, MapThenSumSet, MapThenFoldSet, Total, Adds, Some
<1>7. ReservedTokens = Total(held)[Runs]
  <2>1. Held \in SUBSET Runs
    OBVIOUS
  <2>2. ReservedTokens = Reservation * Cardinality(Held)
    BY DEF ReservedTokens
  <2> HIDE DEF held, Held
  <2> QED BY <1>1, <1>2, <1>4, <2>1, <2>2, TotalOfMarked
<1> HIDE DEF over, held, both
<1>8. Total(both)[Runs] = Total(used)[Runs] + Total(held)[Runs]
  BY <1>1, <1>2, <1>3, TotalOfSum
<1>9. Total(both)[Runs] = Total(Charges)[Runs] + Total(over)[Runs]
  BY <1>2, <1>3, TotalOfSum
<1>10. Total(Charges)[Runs] \in Nat /\ Total(over)[Runs] \in Nat
  BY <1>2, TotalIsNat
<1> QED BY <1>5, <1>6, <1>7, <1>8, <1>9, <1>10

\* A run whose usage is recorded gives its reservation for it.
LEMMA RecordCosts ==
  ASSUME Sound, HoldKeepsReservation, NEW r \in Runs, status[r] \in HoldStatuses,
         NEW u \in UsageReports, RecordUsage(r, u)
  PROVE  \A q \in Runs : Charge(q)' <= Charge(q)
<1>1. used \in [Runs -> Nat] /\ reserved \in [Runs -> BOOLEAN] /\ Reservation \in Nat
  BY LimitsAssumption DEF Sound, TypeOK, RunTypeOK
<1>2. u # Unreported => u \in Nat
  BY LimitsAssumption DEF UsageReports
<1>3. reserved[r]
  BY DEF HoldKeepsReservation
<1> QED BY <1>1, <1>2, <1>3 DEF RecordUsage, Charge

\* Only a dispatch takes more of the limit.
LEMMA OnlyDispatchCosts ==
  ASSUME Sound, HoldKeepsReservation, RunTableStep,
         ~ \E r \in Runs : Dispatches(r)
  PROVE  \A q \in Runs : Charge(q)' <= Charge(q)
<1>1. used \in [Runs -> Nat] /\ reserved \in [Runs -> BOOLEAN] /\ Reservation \in Nat
  BY LimitsAssumption DEF Sound, TypeOK, RunTypeOK
<1>2. UNCHANGED <<used, reserved>> => \A q \in Runs : Charge(q)' <= Charge(q)
  BY <1>1 DEF Charge
<1>3. ASSUME NEW r \in Runs, Answers(r)
      PROVE  \A q \in Runs : Charge(q)' <= Charge(q)
  BY <1>3, RecordCosts DEF Answers, completeSucceeded, ConfirmedExecution, HoldStatuses
<1>4. ASSUME NEW r \in Runs, Finishes(r)
      PROVE  \A q \in Runs : Charge(q)' <= Charge(q)
  <2>1. PICK s \in {"FAILED", "UNKNOWN", "CANCELLED"}, u \in UsageReports :
          (u # Unreported => Dispatched(r)) /\ markRunTerminal(r, s, u)
    BY <1>4 DEF Finishes
  <2>2. CASE u = Unreported
    BY <1>2, <2>1, <2>2 DEF markRunTerminal, RecordUsage
  <2>3. CASE u # Unreported
    <3>1. status[r] \in HoldStatuses
      BY <1>4, <2>1, <2>3
         DEF Finishes, Dispatched, isTerminal, TERMINAL_STATUSES, HoldStatuses, Sound, TypeOK, RunTypeOK,
             RunStatus
    <3> QED BY <2>1, <3>1, RecordCosts DEF markRunTerminal
  <2> QED BY <2>2, <2>3
<1>5. CASE \E r \in Runs : persistCancellation(r)
  BY <1>1, <1>5 DEF persistCancellation, Charge
<1>6. CASE MonthStarts
  BY <1>1, <1>6 DEF MonthStarts, Charge
<1>7. CASE \/ UNCHANGED runVars \/ MinutePasses
           \/ \E c \in Conversations : CreateUserMessage(c)
           \/ \E r \in Runs : Retry(r) \/ Attaches(r) \/ Reopens(r)
  BY <1>2, <1>7 DEF MinutePasses, CreateUserMessage, Retry, Attaches, attachExternalRun, Reopens
<1> QED BY <1>3, <1>4, <1>5, <1>6, <1>7 DEF RunTableStep

LEMMA BudgetKept == Sound /\ HoldKeepsReservation /\ WithinBudget /\ [Next]_vars => WithinBudget'
<1> SUFFICES ASSUME Sound, HoldKeepsReservation, WithinBudget, [Next]_vars
             PROVE  WithinBudget'
  OBVIOUS
<1> DEFINE before == Charges
           after == [r \in Runs |-> Charge(r)']
<1>1. RunTableStep /\ RunTypeOK /\ RunTypeOK'
  BY StepSeen, TableTyped DEF Sound, TypeOK
<1>2. before \in [Runs -> Nat] /\ after \in [Runs -> Nat] /\ Reservation \in Nat /\ TokenLimit \in Nat
  BY <1>1, LimitsAssumption DEF RunTypeOK, Charges, Charge
<1>3. Total(before)[Runs] <= TokenLimit
  BY DEF WithinBudget
<1>4. Total(before)[Runs] \in Nat /\ Total(after)[Runs] \in Nat
  BY <1>2, TotalIsNat
<1>5. Total(after)[Runs] <= TokenLimit
  <2>1. CASE ~ \E r \in Runs : Dispatches(r)
    <3>1. \A q \in Runs : after[q] <= before[q]
      BY <1>1, <2>1, OnlyDispatchCosts DEF Charges
    <3> HIDE DEF before, after
    <3>2. Total(after)[Runs] <= Total(before)[Runs]
      BY <1>2, <3>1, TotalGrows
    <3> QED BY <1>2, <1>3, <1>4, <3>2
  <2>2. ASSUME NEW r \in Runs, Dispatches(r)
        PROVE  Total(after)[Runs] <= TokenLimit
    <3>1. after[r] <= before[r] + Reservation /\ \A q \in Runs : q # r => after[q] <= before[q]
      BY <1>1, <1>2, <2>2 DEF Dispatches, BeginDispatch, Charges, Charge, RunTypeOK
    <3>2. ~(UsedTokens + ReservedTokens + Reservation > TokenLimit)
      BY <2>2 DEF Dispatches, QuotaDecision, DecideAgentRunQuota, TokensExhausted, loadQuotaSnapshot
    <3>3. /\ MapThenSumSet(Overrun, Runs) \in Nat
          /\ UsedTokens + ReservedTokens = Total(before)[Runs] + MapThenSumSet(Overrun, Runs)
      BY <1>1, LedgerIsCharges
    <3> HIDE DEF before, after
    <3>4. Total(after)[Runs] <= Total(before)[Runs] + Reservation
      BY <1>2, <3>1, TotalOfOneMore
    <3> QED BY <1>2, <1>4, <3>2, <3>3, <3>4
  <2> QED BY <2>1, <2>2
<1> QED BY <1>5 DEF WithinBudget, Charges

(* Recorded and reserved tokens stay within the month's limit, up to what a
   provider reported beyond the reservation. *)
THEOREM TokensBounded == Spec => []WithinTokenLimit
<1>1. Init => WithinBudget
  <2> SUFFICES ASSUME Init PROVE WithinBudget
    OBVIOUS
  <2> DEFINE none == {r \in Runs : FALSE}
  <2>1. Charges \in [Runs -> Nat] /\ \A r \in Runs : Charges[r] = IF r \in none THEN 0 ELSE 0
    BY LimitsAssumption DEF Init, RunInit, Charges, Charge
  <2>2. Total(Charges)[Runs] = 0 * Cardinality(none)
    BY <2>1, TotalOfMarked
  <2>3. none = {} /\ Cardinality({}) = 0
    BY FS_EmptySet
  <2> QED BY <2>2, <2>3, LimitsAssumption DEF WithinBudget
<1>2. Sound /\ WithinBudget => WithinTokenLimit
  <2> SUFFICES ASSUME Sound, WithinBudget PROVE WithinTokenLimit
    OBVIOUS
  <2>1. RunTypeOK
    BY DEF Sound, TypeOK
  <2> QED BY <2>1, LedgerIsCharges, LimitsAssumption DEF WithinBudget, WithinTokenLimit
<1> QED BY <1>1, <1>2, BudgetKept, SlotsAreReserved, AlwaysSound, PTL DEF Spec

-----------------------------------------------------------------------------
(* AgentRunSystem implements AgentRunLifecycle: each step of the run table *)
(* is a step of the lifecycle or leaves it alone.                          *)

\* The phases of a table st.
Phases(st) == [r \in Runs |-> PhaseOf(st[r])]

LEMMA PhaseValues ==
  /\ PhaseOf("NONE") = "none" /\ PhaseOf("QUEUED") = "waiting" /\ PhaseOf("DISPATCHING") = "working"
  /\ PhaseOf("RUNNING") = "working" /\ PhaseOf("UNKNOWN") = "uncertain"
  /\ PhaseOf("SUCCEEDED") = "answered" /\ PhaseOf("FAILED") = "failed" /\ PhaseOf("CANCELLED") = "cancelled"
BY DEF PhaseOf

\* Writing one row of a table moves one run to another phase.
LEMMA PhaseMoves ==
  ASSUME NEW st \in [Runs -> RunStatus \cup {"NONE"}], NEW r \in Runs, NEW s \in RunStatus
  PROVE  Phases([st EXCEPT ![r] = s]) = [Phases(st) EXCEPT ![r] = PhaseOf(s)]
BY DEF Phases

LEMMA InsertOpens ==
  ASSUME NEW n \in Runs, NEW c, NEW t, NEW p, NEW st \in [Runs -> RunStatus \cup {"NONE"}],
         InsertRun(st, n, c, t, p), RunTypeOK, st[n] = status[n]
  PROVE  Lifecycle!Opens(Phases(st), n, c, t)
<1>1. st[n] = "NONE" /\ status' = [st EXCEPT ![n] = "QUEUED"]
  BY DEF InsertRun, IsNextRun, Exists
<1>2. Phases(st)[n] = "none"
  BY <1>1, PhaseValues DEF Phases
<1>3. \A q \in Runs : conv[q] = c => Phases(st)[q] \notin Lifecycle!Open
  <2>1. \A q \in Runs : conv[q] = c => st[q] \in {"NONE", "SUCCEEDED", "FAILED", "CANCELLED"}
    BY DEF InsertRun, InsertAccepted, ActiveStatuses, RunStatus
  <2> QED BY <2>1, PhaseValues DEF Phases, Lifecycle!Open
<1>4. Phases(status') = [Phases(st) EXCEPT ![n] = "waiting"]
  BY <1>1, PhaseMoves, PhaseValues DEF RunStatus
<1>5. conv' = [conv EXCEPT ![n] = c] /\ turn' = [turn EXCEPT ![n] = t]
  BY DEF InsertRun
<1> QED BY <1>2, <1>3, <1>4, <1>5 DEF Lifecycle!Opens, Phases

LEMMA TableStepsRefine ==
  ASSUME Sound, RunTableStep
  PROVE  [Lifecycle!LifecycleNext]_(Lifecycle!abstractVars)
<1> DEFINE Goal == [Lifecycle!LifecycleNext]_(Lifecycle!abstractVars)
<1> USE DEF Lifecycle!LifecycleNext
<1>1. RunTypeOK
  BY DEF Sound, TypeOK
<1>2. UNCHANGED <<status, conv, turn, answers>> => Goal
  BY DEF Lifecycle!abstractVars
<1>3. ASSUME NEW c \in Conversations, CreateUserMessage(c)
      PROVE  Goal
  <2>1. PICK n \in Runs : InsertRun(status, n, c, 1, NoRun)
    BY <1>3 DEF CreateUserMessage
  <2>2. Lifecycle!Opens(Phases(status), n, c, 1)
    BY <1>1, <2>1, InsertOpens DEF RunTypeOK
  <2>3. Lifecycle!Ask(c)
    BY <1>3, <2>2 DEF Lifecycle!Ask, CreateUserMessage, Phases
  <2> QED BY <2>3
<1>4. ASSUME NEW r \in Runs, Retry(r)
      PROVE  Goal
  <2>1. PICK n \in Runs : InsertRun(status, n, conv[r], turn[r], NoRun)
    BY <1>4 DEF Retry
  <2>2. Lifecycle!Opens(Phases(status), n, conv[r], turn[r])
    BY <1>1, <2>1, InsertOpens DEF RunTypeOK
  <2>3. Phases(status)[r] \in {"failed", "cancelled"}
    BY <1>4, PhaseValues DEF Retry, RetryAllowed, Phases
  <2>4. Lifecycle!AskAgain(r)
    BY <1>4, <2>2, <2>3 DEF Lifecycle!AskAgain, Retry, Phases
  <2> QED BY <2>4
<1>5. ASSUME NEW r \in Runs, Dispatches(r)
      PROVE  Goal
  <2>1. Phases(status)[r] = "waiting"
    BY <1>5, PhaseValues DEF Dispatches, Phases
  <2>2. Lifecycle!BusyRuns = HoldingRuns
    BY <1>1, PhaseValues DEF RunTypeOK, RunStatus, Lifecycle!BusyRuns, Lifecycle!Busy, HoldingRuns, HoldStatuses
  <2>3. Cardinality(HoldingRuns) < ConcurrencyLimit
    <3>1. ~(loadQuotaSnapshot.activeRuns >= loadQuotaSnapshot.concurrencyLimit)
      BY <1>5 DEF Dispatches, QuotaDecision, DecideAgentRunQuota
    <3>2. /\ loadQuotaSnapshot.activeRuns = Cardinality(HoldingRuns)
          /\ loadQuotaSnapshot.concurrencyLimit = ConcurrencyLimit
      BY DEF loadQuotaSnapshot
    <3>3. Cardinality(HoldingRuns) \in Nat
      BY RunsAssumption, FS_Subset, FS_CardinalityType DEF HoldingRuns
    <3> QED BY <3>1, <3>2, <3>3, LimitsAssumption
  <2>4. Phases(status') = [Phases(status) EXCEPT ![r] = "working"]
    BY <1>1, <1>5, PhaseMoves, PhaseValues DEF Dispatches, BeginDispatch, RunTypeOK, RunStatus
  <2>5. Lifecycle!Start(r)
    <3>1. Lifecycle!Cardinality(Lifecycle!BusyRuns) < ConcurrencyLimit
      BY <2>2, <2>3 DEF Lifecycle!Cardinality, Cardinality
    <3> QED BY <1>5, <2>1, <2>4, <3>1 DEF Lifecycle!Start, Dispatches, BeginDispatch, Phases
  <2> QED BY <2>5
<1>6. ASSUME NEW r \in Runs, Attaches(r)
      PROVE  Goal
  <2>1. Phases(status') = [Phases(status) EXCEPT ![r] = "working"] /\ Phases(status)[r] = "working"
    <3>1. status[r] = "DISPATCHING" /\ status' = [status EXCEPT ![r] = "RUNNING"]
      BY <1>6 DEF Attaches, attachExternalRun, AwaitsExternal
    <3> QED BY <1>1, <3>1, PhaseMoves, PhaseValues DEF RunTypeOK, RunStatus, Phases
  <2>2. Phases(status') = Phases(status)
    BY <2>1 DEF Phases
  <2> QED BY <1>6, <2>2 DEF Attaches, attachExternalRun, Phases, Lifecycle!abstractVars
<1>7. ASSUME NEW r \in Runs, Answers(r)
      PROVE  Goal
  <2> DEFINE answered == [status EXCEPT ![r] = "SUCCEEDED"]
  <2>1. PICK u \in UsageReports : completeSucceeded(r, u)
    BY <1>7 DEF Answers
  <2>2. /\ answered \in [Runs -> RunStatus \cup {"NONE"}]
        /\ Phases(answered) = [Phases(status) EXCEPT ![r] = "answered"]
    BY <1>1, PhaseMoves, PhaseValues DEF RunTypeOK, RunStatus
  <2>3. status[r] = "RUNNING" /\ Phases(status)[r] = "working" /\ answers' = [answers EXCEPT ![r] = @ + 1]
    BY <2>1, PhaseValues DEF completeSucceeded, enqueueNextRelayRun, ConfirmedExecution, Phases
  <2>4. CASE turn[r] < TurnLimit[conv[r]]
    <3>1. PICK n \in Runs : InsertRun(answered, n, conv[r], turn[r] + 1, r)
      BY <2>1, <2>4 DEF completeSucceeded, enqueueNextRelayRun
    <3>2. n # r
      BY <2>3, <3>1 DEF InsertRun, IsNextRun, Exists
    <3>3. Lifecycle!Opens(Phases(answered), n, conv[r], turn[r] + 1)
      BY <1>1, <2>2, <3>1, <3>2, InsertOpens
    <3>4. Lifecycle!Answer(r)
      BY <2>2, <2>3, <2>4, <3>3 DEF Lifecycle!Answer, Phases
    <3> QED BY <3>4
  <2>5. CASE ~(turn[r] < TurnLimit[conv[r]])
    <3>1. status' = answered /\ UNCHANGED <<conv, turn>>
      BY <2>1, <2>5 DEF completeSucceeded, enqueueNextRelayRun
    <3>2. Lifecycle!Answer(r)
      BY <2>2, <2>3, <2>5, <3>1 DEF Lifecycle!Answer, Phases
    <3> QED BY <3>2
  <2> QED BY <2>4, <2>5
<1>8. ASSUME NEW r \in Runs, Finishes(r)
      PROVE  Goal
  <2>1. PICK s \in {"FAILED", "UNKNOWN", "CANCELLED"} :
          /\ s = "UNKNOWN" => Dispatched(r)
          /\ status' = [status EXCEPT ![r] = s] /\ UNCHANGED <<conv, turn, answers>>
    BY <1>8 DEF Finishes, markRunTerminal
  <2>2. /\ status[r] \in {"QUEUED", "DISPATCHING", "RUNNING"}
        /\ s = "UNKNOWN" => status[r] \in {"DISPATCHING", "RUNNING"}
    BY <1>1, <1>8, <2>1 DEF Finishes, Exists, isTerminal, TERMINAL_STATUSES, RunTypeOK, RunStatus, Dispatched
  <2>3. /\ Phases(status)[r] \in {"waiting", "working"}
        /\ s = "UNKNOWN" => Phases(status)[r] = "working"
    BY <2>2, PhaseValues DEF Phases
  <2>4. Phases(status') = [Phases(status) EXCEPT ![r] = PhaseOf(s)]
    BY <1>1, <2>1, PhaseMoves DEF RunTypeOK, RunStatus
  <2>5. \/ Lifecycle!Stop(r, "failed") \/ Lifecycle!Stop(r, "cancelled") \/ Lifecycle!LoseTrack(r)
    BY <2>1, <2>3, <2>4, PhaseValues DEF Lifecycle!Stop, Lifecycle!LoseTrack, Phases
  <2> QED BY <2>5
<1>9. ASSUME NEW r \in Runs, persistCancellation(r)
      PROVE  Goal
  <2>1. Phases(status)[r] = "waiting"
    BY <1>9, PhaseValues DEF persistCancellation, Phases
  <2>2. Phases(status') = [Phases(status) EXCEPT ![r] = "cancelled"]
    BY <1>1, <1>9, PhaseMoves, PhaseValues DEF persistCancellation, RunTypeOK, RunStatus
  <2>3. Lifecycle!Stop(r, "cancelled")
    BY <1>9, <2>1, <2>2 DEF Lifecycle!Stop, persistCancellation, Phases
  <2> QED BY <2>3
<1>10. ASSUME NEW r \in Runs, Reopens(r)
       PROVE  Goal
  <2>1. Phases(status)[r] = "uncertain"
    BY <1>10, PhaseValues DEF Reopens, Phases
  <2>2. Phases(status') = [Phases(status) EXCEPT ![r] = "working"]
    BY <1>1, <1>10, PhaseMoves, PhaseValues DEF Reopens, RunTypeOK, RunStatus
  <2>3. Lifecycle!Recover(r)
    BY <1>10, <2>1, <2>2 DEF Lifecycle!Recover, Reopens, Phases
  <2> QED BY <2>3
<1>11. CASE MinutePasses \/ MonthStarts \/ UNCHANGED runVars
  BY <1>2, <1>11 DEF MinutePasses, MonthStarts
<1> QED BY <1>3, <1>4, <1>5, <1>6, <1>7, <1>8, <1>9, <1>10, <1>11 DEF RunTableStep

(* The tables, workers, leases, calls and retries together implement the
   lifecycle of a conversation's runs. *)
THEOREM SystemImplementsLifecycle == Spec => ImplementsLifecycle
<1>1. Init => Lifecycle!LifecycleInit
  BY PhaseValues DEF Init, RunInit, Lifecycle!LifecycleInit
<1>2. Sound /\ [Next]_vars => [Lifecycle!LifecycleNext]_(Lifecycle!abstractVars)
  BY StepSeen, TableStepsRefine
<1> QED BY <1>1, <1>2, AlwaysSound, PTL DEF Spec, ImplementsLifecycle, Lifecycle!LifecycleSpec
===============================================================================
