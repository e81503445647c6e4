-------------------------------- MODULE ImOutbox -------------------------------
(***************************************************************************)
(* Delivery of one message event to the instant messaging provider:        *)
(* im-outbox.worker.ts, prisma-outbox-delivery.repository.ts and           *)
(* tencent-im-delivery.provider.ts.  Workers claim the event under a lease *)
(* that a crash leaves behind, send it to its human recipients one by one, *)
(* and settle it if the lease is still theirs.  Whoever gives a request up *)
(* only stops waiting for it: it may arrive later (straggler).             *)
(*                                                                         *)
(* Time is counted in ticks.  A timer that is due holds the clock back:    *)
(* the process is assumed to run its timers on time.  The event is well    *)
(* formed (createUserMessage writes it), so parsing it never fails.        *)
(* Providers are the Tencent one; the local one only accepts.              *)
(***************************************************************************)
EXTENDS Integers, FiniteSets

CONSTANTS Replicas,          \* worker processes
          MaxAudience,       \* bound: human recipients of a message
          MaxDeliveries,     \* IM_OUTBOX_MAX_ATTEMPTS
          ClaimTtl,          \* IM_OUTBOX_CLAIM_TTL_MS
          Handover,          \* longest time from a claim to the start of its delivery
          ProviderTimeout,   \* IM_PROVIDER_TIMEOUT_MS
          Window,            \* TENCENT_IM_SAFE_RETRY_WINDOW_MS
          Transit,           \* longest way of a request after it was given up
          Lifetime,          \* how long the provider recognises a repeated message
          Backoffs,          \* delays calculateRetryDelay may return
          Horizon            \* bound: when the clock of an instance stops

Never == -1
NoReplica == "nobody"

ASSUME ImAssumption ==
  /\ NoReplica \notin Replicas /\ MaxAudience \in Nat /\ MaxDeliveries \in Nat \ {0}
  /\ ClaimTtl \in Nat \ {0} /\ Handover \in Nat /\ ProviderTimeout \in Nat
  /\ Window \in Nat /\ Transit \in Nat /\ Lifetime \in Nat /\ Backoffs \subseteq Nat /\ Horizon \in Nat

\* What delivering once rests on: a lease outlasts the delivery it is for (the
\* configuration only asks for more than the provider's timeout), and the
\* provider remembers a message longer than anybody repeats it, and longer than
\* a repetition that was given up is on its way.
ASSUME ImTiming ==
  /\ Handover + ProviderTimeout < ClaimTtl
  /\ Handover <= Window /\ Window + ProviderTimeout + Transit <= Lifetime

VARIABLES clock,             \* clock_timestamp(), Date.now()
          audience,          \* recipients of type user in the event's payload
          imStatus,          \* outbox_events.status
          lockHolder,        \* locked_by
          lockedUntil,       \* locked_until
          attempts,          \* attempts
          firstAttempted,    \* first_attempted_at
          availableAt,       \* available_at
          at,                \* where each worker's handler stands
          attempt,           \* claimed.attempts
          since,             \* when it was claimed, then when its delivery began
          recipient,         \* the recipient being sent to
          reached,           \* what the provider has done with that request
          fault,             \* the error that failOrRetry is given
          straggler,         \* per recipient, until when a request given up may arrive
          acceptedAt,        \* per recipient, when the provider first accepted the message
          shown              \* per recipient, how often it was shown

eventVars == <<audience, imStatus, lockHolder, lockedUntil, attempts, firstAttempted, availableAt>>
handlerVars == <<at, attempt, since, recipient, reached, fault>>
providerVars == <<acceptedAt, shown>>
elsewhereVars == <<straggler, providerVars>>
imVars == <<clock, eventVars, handlerVars, elsewhereVars>>

Audience == 1 .. audience

\* ImDeliveryError: whether it may be retried, and what it ends as if not.
Faults == [retryable : BOOLEAN, outcome : {"failed", "unknown"}]
NoFault == [retryable |-> TRUE, outcome |-> "failed"]

ImInit ==
  /\ clock = 0
  /\ audience \in 0 .. MaxAudience
  /\ imStatus = "PENDING" /\ lockHolder = NoReplica /\ lockedUntil = Never
  /\ attempts = 0 /\ firstAttempted = Never /\ availableAt = 0
  /\ at = [w \in Replicas |-> "idle"]
  /\ attempt = [w \in Replicas |-> 0]
  /\ since = [w \in Replicas |-> 0]
  /\ recipient = [w \in Replicas |-> 1]
  /\ reached = [w \in Replicas |-> "nothing"]
  /\ fault = [w \in Replicas |-> NoFault]
  /\ straggler = [r \in 1 .. MaxAudience |-> Never]
  /\ acceptedAt = [r \in 1 .. MaxAudience |-> Never]
  /\ shown = [r \in 1 .. MaxAudience |-> 0]

-----------------------------------------------------------------------------
(* The queue.                                                              *)

\* claimMessageEvents: due, and not leased or its lease has run out.
claimMessageEvents(w) ==
  /\ at[w] = "idle"
  /\ imStatus = "PENDING" /\ availableAt <= clock /\ lockedUntil <= clock
  /\ lockHolder' = w /\ lockedUntil' = clock + ClaimTtl
  /\ attempts' = attempts + 1
  /\ firstAttempted' = IF firstAttempted = Never THEN clock ELSE firstAttempted
  /\ at' = [at EXCEPT ![w] = "claimed"]
  /\ attempt' = [attempt EXCEPT ![w] = attempts + 1]
  /\ since' = [since EXCEPT ![w] = clock]
  /\ UNCHANGED <<clock, audience, imStatus, availableAt, recipient, reached, fault, elsewhereVars>>

HoldsLease(w) == imStatus = "PENDING" /\ lockHolder = w

Unlock == lockHolder' = NoReplica /\ lockedUntil' = Never

\* markPublished, markFailed, markUnknown; a lease that changed is only logged.
Mark(w, s) ==
  /\ IF HoldsLease(w) THEN imStatus' = s /\ Unlock ELSE UNCHANGED <<imStatus, lockHolder, lockedUntil>>
  /\ UNCHANGED <<audience, attempts, firstAttempted, availableAt>>

releaseForRetry(w, delay) ==
  /\ IF HoldsLease(w) THEN availableAt' = clock + delay /\ Unlock
     ELSE UNCHANGED <<availableAt, lockHolder, lockedUntil>>
  /\ UNCHANGED <<audience, imStatus, attempts, firstAttempted>>

-----------------------------------------------------------------------------
(* The handler of a claimed event.                                         *)

Leave(w) ==
  /\ at' = [at EXCEPT ![w] = "idle"]
  /\ recipient' = [recipient EXCEPT ![w] = 1]
  /\ reached' = [reached EXCEPT ![w] = "nothing"]
  /\ fault' = [fault EXCEPT ![w] = NoFault]
  /\ attempt' = [attempt EXCEPT ![w] = 0]
  /\ since' = [since EXCEPT ![w] = 0]

\* processEvent's catch.
Fail(w, f) ==
  /\ at' = [at EXCEPT ![w] = "fault"]
  /\ fault' = [fault EXCEPT ![w] = f]
  /\ reached' = [reached EXCEPT ![w] = "nothing"]

\* Bug: the window is not looked at.
BugWindowExpired(w) == FALSE

WindowExpired(w) == attempt[w] > 1 /\ clock - firstAttempted > Window

\* deliverWithTimeout and the start of deliver: nobody to send to, too late to
\* send again, or the first recipient; the provider timeout starts.
Begin(w) ==
  /\ at[w] = "claimed"
  /\ since' = [since EXCEPT ![w] = clock]
  /\ \/ /\ audience = 0
        /\ at' = [at EXCEPT ![w] = "publish"]
        /\ UNCHANGED <<reached, fault>>
     \/ /\ audience > 0 /\ WindowExpired(w)
        /\ Fail(w, [retryable |-> FALSE, outcome |-> "unknown"])
     \/ /\ audience > 0 /\ ~WindowExpired(w)
        /\ at' = [at EXCEPT ![w] = "sending"]
        /\ UNCHANGED <<reached, fault>>
  /\ UNCHANGED <<clock, eventVars, attempt, recipient, elsewhereVars>>

\* The provider takes a message for a repetition while it remembers its numbers,
\* which are derived from the event and the recipient.
Remembered(r) == acceptedAt[r] # Never /\ clock - acceptedAt[r] <= Lifetime

Accept(r) ==
  IF Remembered(r) THEN UNCHANGED providerVars
  ELSE /\ acceptedAt' = [acceptedAt EXCEPT ![r] = clock]
       /\ shown' = [shown EXCEPT ![r] = @ + 1]

\* The request arrives and is accepted or refused.
Arrive(w) ==
  /\ at[w] = "sending" /\ reached[w] = "nothing"
  /\ \/ Accept(recipient[w]) /\ reached' = [reached EXCEPT ![w] = "accepted"]
     \/ UNCHANGED providerVars /\ reached' = [reached EXCEPT ![w] = "refused"]
  /\ UNCHANGED <<clock, eventVars, at, attempt, since, recipient, fault, straggler>>

\* Bug: publishing does not wait for the recipients after the first.
BugLastRecipient(w) == TRUE

LastRecipient(w) == recipient[w] = audience

\* sendToRecipient returns: the next recipient, or the receipt.
SendReturns(w) ==
  /\ at[w] = "sending" /\ reached[w] = "accepted"
  /\ reached' = [reached EXCEPT ![w] = "nothing"]
  /\ IF LastRecipient(w)
     THEN at' = [at EXCEPT ![w] = "publish"] /\ UNCHANGED recipient
     ELSE recipient' = [recipient EXCEPT ![w] = @ + 1] /\ UNCHANGED at
  /\ UNCHANGED <<clock, eventVars, attempt, since, fault, elsewhereVars>>

\* The abort is the client's: a request on its way is not called back.  It may be
\* lost, which is that it never arrives, or arrive until the moment noted here.
GiveUp(w) ==
  IF at[w] = "sending" /\ reached[w] = "nothing"
  THEN straggler' = [straggler EXCEPT ![recipient[w]] = clock + Transit]
  ELSE UNCHANGED straggler

\* The moments of several requests are not told apart, and one that has arrived
\* may be counted again: the provider recognises it like any repetition.
StragglerArrives(r) ==
  /\ clock <= straggler[r] /\ Accept(r)
  /\ UNCHANGED <<clock, eventVars, handlerVars, straggler>>

\* What sendToRecipient may throw: network errors, timeouts and unreadable
\* answers leave the outcome unknown; a shutdown, a 5xx, 408, 425 or 429 answer
\* and a temporary error code count as failed; so do final refusals, by the
\* provider or, for a message that is too large, before anything is sent.
SendFaults(w) ==
  {[retryable |-> TRUE, outcome |-> "unknown"], [retryable |-> TRUE, outcome |-> "failed"]}
    \cup (IF reached[w] = "accepted" THEN {} ELSE {[retryable |-> FALSE, outcome |-> "failed"]})

SendThrows(w) ==
  /\ at[w] = "sending"
  /\ \E f \in SendFaults(w) : Fail(w, f) /\ (IF f.retryable THEN GiveUp(w) ELSE UNCHANGED straggler)
  /\ UNCHANGED <<clock, eventVars, attempt, since, recipient, providerVars>>

Publish(w) ==
  /\ at[w] = "publish"
  /\ Mark(w, "PUBLISHED") /\ Leave(w)
  /\ UNCHANGED <<clock, elsewhereVars>>

\* The update itself throws, which is handled like a failed delivery.
PublishThrows(w) ==
  /\ at[w] = "publish"
  /\ Fail(w, NoFault)
  /\ UNCHANGED <<clock, eventVars, attempt, since, recipient, elsewhereVars>>

GivesUp(w) == ~fault[w].retryable \/ attempt[w] >= MaxDeliveries

failOrRetry(w) ==
  /\ at[w] = "fault"
  /\ \/ GivesUp(w) /\ Mark(w, IF fault[w].outcome = "unknown" THEN "UNKNOWN" ELSE "FAILED")
     \/ ~GivesUp(w) /\ \E delay \in Backoffs : releaseForRetry(w, delay)
  /\ Leave(w)
  /\ UNCHANGED <<clock, elsewhereVars>>

\* The process dies, or a transition cannot be written: the lease stays.
WorkerDies(w) ==
  /\ at[w] # "idle"
  /\ Leave(w) /\ GiveUp(w)
  /\ UNCHANGED <<clock, eventVars, providerVars>>

\* Bug: nothing ends a delivery that takes too long.
BugDue(w) == at[w] = "claimed" /\ clock >= since[w] + Handover

\* A delivery that must begin, or one the provider timeout must end.
Due(w) ==
  \/ at[w] = "claimed" /\ clock >= since[w] + Handover
  \/ at[w] = "sending" /\ clock >= since[w] + ProviderTimeout

\* With the clock, requests whose way is over are forgotten.
Tick ==
  /\ clock < Horizon /\ \A w \in Replicas : ~Due(w)
  /\ clock' = clock + 1
  /\ straggler' = [r \in 1 .. MaxAudience |-> IF straggler[r] > clock THEN straggler[r] ELSE Never]
  /\ UNCHANGED <<eventVars, handlerVars, providerVars>>

ImStep(w) ==
  \/ claimMessageEvents(w)
  \/ Begin(w)
  \/ Arrive(w)
  \/ SendReturns(w)
  \/ SendThrows(w)
  \/ Publish(w)
  \/ PublishThrows(w)
  \/ failOrRetry(w)
  \/ WorkerDies(w)

ImNext ==
  \/ Tick
  \/ \E w \in Replicas : ImStep(w)
  \/ \E r \in 1 .. MaxAudience : StragglerArrives(r)

ImSpec == ImInit /\ [][ImNext]_imVars

-----------------------------------------------------------------------------
ImTypeOK ==
  /\ clock \in Nat /\ audience \in 0 .. MaxAudience
  /\ imStatus \in {"PENDING", "PUBLISHED", "FAILED", "UNKNOWN"}
  /\ lockHolder \in Replicas \cup {NoReplica} /\ lockedUntil \in Nat \cup {Never}
  /\ attempts \in Nat /\ firstAttempted \in Nat \cup {Never} /\ availableAt \in Nat
  /\ at \in [Replicas -> {"idle", "claimed", "sending", "publish", "fault"}]
  /\ attempt \in [Replicas -> Nat] /\ since \in [Replicas -> Nat]
  /\ recipient \in [Replicas -> Nat \ {0}]
  /\ reached \in [Replicas -> {"nothing", "accepted", "refused"}]
  /\ fault \in [Replicas -> Faults]
  /\ straggler \in [1 .. MaxAudience -> Nat \cup {Never}]
  /\ acceptedAt \in [1 .. MaxAudience -> Nat \cup {Never}]
  /\ shown \in [1 .. MaxAudience -> Nat]

(* No recipient is shown a message twice, although crashes, lost answers and lost
   leases make several workers send it and requests they have given up still
   arrive, and once it is published every recipient
   has been shown it, whoever sent what (docs/adr/0004 section 4). *)
DeliveredOnce ==
  \A r \in 1 .. MaxAudience :
    /\ shown[r] <= 1
    /\ imStatus = "PUBLISHED" /\ r \in Audience => shown[r] = 1

(* Nothing is sent for an event that has been settled: no worker is still at it
   with a lease it has lost (docs/adr/0004 section 2).  A recipient who is shown
   the message after that, of an event that is FAILED or UNKNOWN, is shown it by
   a request that was given up while the event was pending. *)
SentWhilePending ==
  [][imStatus # "PENDING" =>
       \A r \in 1 .. MaxAudience :
         /\ straggler'[r] <= straggler[r]
         /\ shown'[r] # shown[r] => clock <= straggler[r]]_imVars
=============================================================================
