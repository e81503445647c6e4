---------------------------- MODULE AgentRunControl ----------------------------
(***************************************************************************)
(* agent-run-control.service.ts: a user stops or retries a run, an         *)
(* administrator reconciles an UNKNOWN one.  Stop and reconcile read the   *)
(* run in one transaction, call the runtime with no lock held, and write   *)
(* in a second transaction, so everything else may move in between.        *)
(*                                                                         *)
(* One request of each kind per run is in flight at a time: a second one   *)
(* reads and writes exactly what the first does.  The captured external id *)
(* is the run's own: once set it never changes (ExternalIdIsKept).         *)
(***************************************************************************)
EXTENDS AgentRunWorker

VARIABLES stopping,      \* per run: where a cancel request stands
          reconciling    \* per run: a reconcile request has its answer from the runtime

controlVars == <<stopping, reconciling>>

ControlInit ==
  /\ stopping = [r \in Runs |-> "none"]
  /\ reconciling = [r \in Runs |-> FALSE]

\* cancel, first transaction.  A run being dispatched is refused (409).
CancelQueued(r) ==
  /\ persistCancellation(r)
  /\ UNCHANGED <<queueVars, remote, workerVars, abandons, controlVars>>

CancelRead(r) ==
  /\ stopping[r] = "none"
  /\ ~isTerminal(r) /\ status[r] \notin {"NONE", "QUEUED"} /\ ext[r] # NoExt
  /\ stopping' = [stopping EXCEPT ![r] = "call"]
  /\ UNCHANGED <<runVars, queueVars, remote, workerVars, abandons, reconciling>>

\* runtime.cancel: confirmed; not confirmed; or confirmed with the answer lost.
CancelCall(r) ==
  /\ stopping[r] = "call"
  /\ \/ /\ Runtime!RemoteCancel(ext[r])
        /\ stopping' = [stopping EXCEPT ![r] = "commit"]
     \/ /\ Runtime!RemoteCancel(ext[r]) \/ UNCHANGED remote
        /\ stopping' = [stopping EXCEPT ![r] = "none"]
  /\ UNCHANGED <<runVars, queueVars, workerVars, abandons, reconciling>>

\* Bug: the run is not read again after the runtime has answered.
BugCancelsFinished(r) ==
  /\ stopping[r] = "commit"
  /\ stopping' = [stopping EXCEPT ![r] = "none"]
  /\ \E u \in UsageReports : markRunTerminal(r, "CANCELLED", u)
  /\ UNCHANGED <<queueVars, remote, workerVars, abandons, reconciling>>

\* cancel, second transaction: the run may have finished in the meantime (409).
CancelCommit(r) ==
  /\ stopping[r] = "commit"
  /\ stopping' = [stopping EXCEPT ![r] = "none"]
  /\ IF isTerminal(r) THEN UNCHANGED runVars
     ELSE \E u \in UsageReports : markRunTerminal(r, "CANCELLED", u)
  /\ UNCHANGED <<queueVars, remote, workerVars, abandons, reconciling>>

RetryRun(r) ==
  /\ Retry(r)
  /\ UNCHANGED <<remote, workerVars, abandons, controlVars>>

SendMessage(c) ==
  /\ CreateUserMessage(c)
  /\ UNCHANGED <<remote, workerVars, abandons, controlVars>>

\* reconcileUnknown, first transaction and the get whose value it discards:
\* only that the runtime still knows the run matters.
ReconcileRead(r) ==
  /\ ~reconciling[r]
  /\ status[r] = "UNKNOWN" /\ ext[r] # NoExt /\ remote[ext[r]] # "lost"
  /\ reconciling' = [reconciling EXCEPT ![r] = TRUE]
  /\ UNCHANGED <<runVars, queueVars, remote, workerVars, abandons, stopping>>

\* Bug: the run goes back to RUNNING with nobody told to look at it.
BugReconcilesSilently(r) == UNCHANGED evStatus

PublishReconciliation(r) ==
  \E k \in 1 .. MaxReconciles :
    /\ evStatus[<<r, k>>] = "ABSENT"
    /\ \A j \in 1 .. k - 1 : evStatus[<<r, j>>] # "ABSENT"
    /\ Publish(<<r, k>>)

\* reconcileUnknown, second transaction: back to RUNNING with an event of its own.
ReconcileCommit(r) ==
  /\ reconciling[r]
  /\ reconciling' = [reconciling EXCEPT ![r] = FALSE]
  /\ \/ /\ status[r] = "UNKNOWN"
        /\ PublishReconciliation(r)
        /\ status' = [status EXCEPT ![r] = "RUNNING"]
        /\ UNCHANGED <<conv, turn, parent, ext, reserved, used, recent, answers>>
     \/ status[r] # "UNKNOWN" /\ UNCHANGED <<runVars, evStatus>>
  /\ UNCHANGED <<lockedBy, leaseLive, remote, workerVars, abandons, stopping>>

\* The API process dies with the request in flight.
ControlCrash(r) ==
  /\ stopping[r] # "none" \/ reconciling[r]
  /\ stopping' = [stopping EXCEPT ![r] = "none"]
  /\ reconciling' = [reconciling EXCEPT ![r] = FALSE]
  /\ UNCHANGED <<runVars, queueVars, remote, workerVars, abandons>>
=============================================================================
