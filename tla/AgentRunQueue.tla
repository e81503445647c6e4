---------------------------- MODULE AgentRunQueue ----------------------------
(***************************************************************************)
(* The agent.run_requested.v1 rows of outbox_events, and the statements of *)
(* prisma-agent-run-queue.repository.ts that claim and settle them.        *)
(*                                                                         *)
(* An event <<r, 0>> asks for run r; <<r, k>> with k > 0 asks for its k-th *)
(* reconciliation.  available_at is abstracted: a deferred event is simply *)
(* claimable again, at a time nobody controls.                             *)
(***************************************************************************)
EXTENDS Naturals

CONSTANTS Runs,             \* identities of agent runs
          Workers,          \* worker processes' handler slots
          MaxReconciles     \* bound: reconciliation events per run

NoWorker == "none"

Events == Runs \X (0 .. MaxReconciles)

VARIABLES evStatus,   \* outbox_events.status, "ABSENT" before the insert
          lockedBy,   \* outbox_events.locked_by
          leaseLive   \* locked_until > clock_timestamp()

queueVars == <<evStatus, lockedBy, leaseLive>>

EventStatus == {"ABSENT", "PENDING", "PUBLISHED", "FAILED", "UNKNOWN"}

QueueTypeOK ==
  /\ evStatus \in [Events -> EventStatus]
  /\ lockedBy \in [Events -> Workers \cup {NoWorker}]
  /\ leaseLive \in [Events -> BOOLEAN]

QueueInit ==
  /\ evStatus = [e \in Events |-> "ABSENT"]
  /\ lockedBy = [e \in Events |-> NoWorker]
  /\ leaseLive = [e \in Events |-> FALSE]

\* Bug: an event whose worker died with the lease is never offered again.
BugLeaseForEver(e) == evStatus[e] = "PENDING" /\ lockedBy[e] = NoWorker

Claimable(e) == evStatus[e] = "PENDING" /\ ~leaseLive[e]

\* claim: a pending event without a live lease; the previous owner, if any,
\* is overwritten.  SKIP LOCKED makes two claims of one row impossible.
Claim(w, e) ==
  /\ Claimable(e)
  /\ lockedBy' = [lockedBy EXCEPT ![e] = w]
  /\ leaseLive' = [leaseLive EXCEPT ![e] = TRUE]
  /\ UNCHANGED evStatus

\* transition: markPublished, markFailed, markUnknown and defer.  The row is
\* written only while it is PENDING and still names this worker; locked_until
\* is not looked at, so an expired lease nobody took over can still be settled.
\* A worker that lost the row gets `false` and changes nothing.
OwnsEvent(w, e) == evStatus[e] = "PENDING" /\ lockedBy[e] = w

Transition(w, e, to) ==
  IF OwnsEvent(w, e)
  THEN /\ evStatus' = [evStatus EXCEPT ![e] = to]
       /\ lockedBy' = [lockedBy EXCEPT ![e] = NoWorker]
       /\ leaseLive' = [leaseLive EXCEPT ![e] = FALSE]
  ELSE UNCHANGED queueVars

\* The clock passes locked_until.
ExpireLease(e) ==
  /\ leaseLive[e]
  /\ leaseLive' = [leaseLive EXCEPT ![e] = FALSE]
  /\ UNCHANGED <<evStatus, lockedBy>>

\* outboxEvent.create for an event that does not exist yet.
\* Bug: the run is written without its request event.
BugForgetsEvent(e) == UNCHANGED evStatus

Publish(e) == evStatus' = [evStatus EXCEPT ![e] = "PENDING"]

Settled(e) == evStatus[e] \in {"PUBLISHED", "FAILED", "UNKNOWN"}
=============================================================================
