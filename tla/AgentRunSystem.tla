---------------------------- MODULE AgentRunSystem ----------------------------
(***************************************************************************)
(* Agent runs as a whole: conversations, the run table, the event queue,   *)
(* the workers, the control service and the runtime, and the properties    *)
(* that must hold of them together.                                        *)
(***************************************************************************)
EXTENDS AgentRunControl

CONSTANT Calendar,      \* whether an instance lets minutes and months pass
         Restarts       \* whether it lets the runtime restart

ASSUME SystemAssumption == Calendar \in BOOLEAN /\ Restarts \in BOOLEAN

vars == <<runVars, queueVars, remote, workerVars, abandons, controlVars>>

Init == RunInit /\ QueueInit /\ WorkerInit /\ ControlInit /\ Runtime!RuntimeInit

\* The runtime and the calendar move on their own.
Elsewhere == UNCHANGED <<queueVars, workerVars, abandons, controlVars>>

RemoteFinishes(x) == Runtime!RemoteFinish(x) /\ UNCHANGED runVars /\ Elsewhere
RemoteRestarts == Restarts /\ Runtime!RemoteRestart /\ UNCHANGED runVars /\ Elsewhere
MinutePassed == Calendar /\ MinutePasses /\ UNCHANGED remote /\ Elsewhere
MonthStarted == Calendar /\ MonthStarts /\ UNCHANGED remote /\ Elsewhere

WorkerStep(w) ==
  \/ \E e \in Events : ClaimEvent(w, e)
  \/ PrepareSnapshot(w)
  \/ PrepareDispatch(w)
  \/ CreateExternal(w)
  \/ Attach(w)
  \/ ExecuteReached(w)
  \/ ExecuteDeferred(w)
  \/ ReadAnswer(w)
  \/ ReadDeferred(w)
  \/ ReadLost(w)
  \/ Settle(w)
  \/ Succeed(w)
  \/ Ack(w)
  \/ Abandon(w)

ControlStep(r) ==
  \/ CancelQueued(r)
  \/ CancelRead(r)
  \/ CancelCall(r)
  \/ CancelCommit(r)
  \/ RetryRun(r)
  \/ ReconcileRead(r)
  \/ ReconcileCommit(r)
  \/ ControlCrash(r)

Next ==
  \/ \E c \in Conversations : SendMessage(c)
  \/ \E w \in Workers : WorkerStep(w) /\ UNCHANGED controlVars
  \/ \E r \in Runs : ControlStep(r)
  \/ \E e \in Events : LeaseEnds(e) /\ UNCHANGED controlVars
  \/ \E x \in Runtime!Externals : RemoteFinishes(x)
  \/ RemoteRestarts
  \/ MinutePassed
  \/ MonthStarted

Spec == Init /\ [][Next]_vars

\* What the deployment is relied on for: ticks are scheduled for ever, queries
\* order events by available_at so each is claimed in its turn, leases are ended
\* by the clock, and the runtime, asked again and again, is reached and answers.
Forgotten(w) == pc[w] = "read" /\ remote[xid[w]] = "lost"
Alone(A) == A /\ UNCHANGED controlVars

Fairness ==
  /\ \A w \in Workers :
       /\ WF_vars(Alone(PrepareSnapshot(w))) /\ WF_vars(Alone(PrepareDispatch(w)))
       /\ WF_vars(Alone(CreateExternal(w))) /\ WF_vars(Alone(Attach(w)))
       /\ SF_vars(Alone(ExecuteReached(w))) /\ SF_vars(Alone(ReadAnswer(w)))
       /\ SF_vars(Alone(Forgotten(w) /\ ReadLost(w))) /\ WF_vars(Alone(ReadDeferred(w)))
       /\ WF_vars(Alone(Settle(w))) /\ WF_vars(Alone(Succeed(w))) /\ WF_vars(Alone(Ack(w)))
       /\ WF_vars(Alone(MustThrow(w) /\ Abandon(w)))
  /\ \A e \in Events :
       /\ SF_vars(Alone(\E w \in Workers : ClaimEvent(w, e)))
       /\ WF_vars(Alone(LeaseEnds(e)))
  /\ \A x \in Runtime!Externals : WF_vars(RemoteFinishes(x))
  /\ WF_vars(MinutePassed)

FairSpec == Spec /\ Fairness

-----------------------------------------------------------------------------
(* Type correctness, part by part: the one type invariant of these modules. *)
RunTypeOK ==
  /\ status \in [Runs -> RunStatus \cup {"NONE"}]
  /\ conv \in [Runs -> Conversations \cup {NoConversation}]
  /\ turn \in [Runs -> 1 .. 8]
  /\ parent \in [Runs -> Runs \cup {NoRun}]
  /\ ext \in [Runs -> Runtime!Externals \cup {NoExt}]
  /\ reserved \in [Runs -> BOOLEAN]
  /\ used \in [Runs -> Nat]
  /\ recent \in SUBSET Runs
  /\ answers \in [Runs -> Nat]

HandlerTypeOK ==
  /\ pc \in [Workers -> Places]
  /\ job \in [Workers -> Events \cup {NoEvent}]
  /\ snap \in [Workers -> RunStatus \cup {"NONE"}]
  /\ xid \in [Workers -> Runtime!Externals \cup {NoExt}]
  /\ usage \in [Workers -> UsageReports]
  /\ verdict \in [Workers -> Verdicts]
  /\ abandons \in Nat

ControlTypeOK ==
  /\ stopping \in [Runs -> {"none", "call", "commit"}]
  /\ reconciling \in [Runs -> BOOLEAN]

TypeOK == QueueTypeOK /\ Runtime!RuntimeTypeOK /\ RunTypeOK /\ HandlerTypeOK /\ ControlTypeOK

(* A run is sent to the runtime at most once, whatever is lost, crashes or is
   claimed twice: nothing is executed or charged twice (ADR 0006 section 8). *)
DispatchedAtMostOnce == \A r \in Runs : Cardinality(Runtime!Created(r)) <= 1

(* A conversation gets exactly one answer for a succeeded run and none for any
   other, also when two events of a run are settled by two workers. *)
OneAnswerPerSuccess ==
  \A r \in Runs : answers[r] = (IF status[r] = "SUCCEEDED" THEN 1 ELSE 0)

(* At most one run of a conversation is unfinished or uncertain, so neither the
   relay chain nor a reconciliation can collide with a newer run. *)
OneActivePerConversation ==
  \A q, r \in Runs :
    (q # r /\ conv[q] = conv[r]) => ~(status[q] \in ActiveStatuses /\ status[r] \in ActiveStatuses)

(* A relay continues only from an answer: every later turn names a succeeded
   parent one turn earlier in the same conversation.  So a run that may still be
   answered has no next turn, and the unique index on the parent never refuses the
   transaction of an answer. *)
RelayContinuesAnswers ==
  \A r \in Runs : parent[r] # NoRun =>
    /\ status[parent[r]] = "SUCCEEDED"
    /\ conv[parent[r]] = conv[r] /\ turn[r] = turn[parent[r]] + 1

(* The tenant never has more runs that may be executing than its limit, although
   dispatch, uncertainty and reconciliation are decided at different moments. *)
MayBeExecuting == {r \in Runs : status[r] \in {"DISPATCHING", "RUNNING", "UNKNOWN"}}

WithinConcurrencyLimit == Cardinality(MayBeExecuting) <= ConcurrencyLimit

(* A run that holds a slot holds its token reservation. *)
HoldKeepsReservation == \A r \in Runs : status[r] \in HoldStatuses => reserved[r]

(* Reserved and recorded tokens stay within the month's limit, up to what a
   provider reported beyond the reservation. *)
Overrun(r) == IF used[r] > Reservation THEN used[r] - Reservation ELSE 0

WithinTokenLimit ==
  UsedTokens + ReservedTokens <= TokenLimit + MapThenSumSet(Overrun, Runs)

(* No run is forgotten: one that is not final has an event that is still pending,
   so some worker will come back to it after any crash or lost lease. *)
UnfinishedHasEvent ==
  \A r \in Runs : status[r] \in {"QUEUED", "DISPATCHING", "RUNNING"} =>
    \E k \in 0 .. MaxReconciles : evStatus[<<r, k>>] = "PENDING"

(* A final status is never left, except that a reconciliation may take an
   uncertain run back to RUNNING. *)
FinalIsFinal ==
  [][\A r \in Runs : isTerminal(r) /\ status'[r] # status[r] =>
       status[r] = "UNKNOWN" /\ status'[r] = "RUNNING" /\ ext[r] # NoExt]_vars

(* The whole implements AgentRunLifecycle. *)
PhaseOf(s) ==
  CASE s = "NONE" -> "none"
    [] s = "QUEUED" -> "waiting"
    [] s \in {"DISPATCHING", "RUNNING"} -> "working"
    [] s = "UNKNOWN" -> "uncertain"
    [] s = "SUCCEEDED" -> "answered"
    [] s = "FAILED" -> "failed"
    [] s = "CANCELLED" -> "cancelled"

Lifecycle == INSTANCE AgentRunLifecycle
  WITH phase <- [r \in Runs |-> PhaseOf(status[r])], place <- conv, turnOf <- turn, said <- answers

ImplementsLifecycle == Lifecycle!LifecycleSpec

(* Every requested run is eventually over or uncertain, unless an uncertain run
   holds the slot it needs. *)
QueuedRunsSettle ==
  \A r \in Runs : status[r] = "QUEUED" ~> (isTerminal(r) \/ \E q \in Runs : status[q] = "UNKNOWN")

(* Every event is eventually settled, also that of a reconciliation, one whose
   worker crashed, and those of a run that is uncertain.  It is checked for one
   run: of several, the event of a queued one also waits as long as uncertain
   ones hold the slots (QueuedRunsSettle). *)
EventsSettle == \A e \in Events : evStatus[e] = "PENDING" ~> Settled(e)

(* A run that gives its concurrency slot back is not being executed any more. *)
SlotHeldWhileExecuting ==
  \A x \in Runtime!Externals : Runtime!Executing(x) => status[x[1]] \in HoldStatuses

(* A run the conversation view offers for retry can be retried once the
   conversation has no other open run. *)
OfferedRetryIsAccepted ==
  \A r \in Runs :
    (status[r] \in {"FAILED", "CANCELLED"}
       /\ ~ \E q \in Runs : conv[q] = conv[r] /\ status[q] \in ActiveStatuses)
    => InsertAccepted(status, conv[r], turn[r], NoRun)
=============================================================================
