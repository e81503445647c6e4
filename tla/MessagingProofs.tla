--------------------------- MODULE MessagingProofs ----------------------------
(***************************************************************************)
(* Theorems about ImOutbox for every number of workers, recipients and     *)
(* attempts, and all times that satisfy ImTiming, about Messaging, for any *)
(* number of texts and keys, about Conversations, for any people and       *)
(* assistants, and about DesktopAccounts, for any devices and calls.       *)
(***************************************************************************)
EXTENDS ImOutbox, Messaging, Conversations, DesktopAccounts, SequenceTheorems, TLAPS

-----------------------------------------------------------------------------
(* The outbox.                                                             *)

\* Whoever delivers still has the lease, and time left.
LeaseOutlasts ==
  \A w \in Replicas :
    /\ at[w] \in {"claimed", "sending"} => imStatus = "PENDING" /\ lockHolder = w /\ since[w] <= clock
    /\ at[w] = "claimed" => lockedUntil = since[w] + ClaimTtl /\ clock <= since[w] + Handover
    /\ at[w] = "sending" => /\ since[w] + ClaimTtl <= lockedUntil + Handover
                            /\ clock <= since[w] + ProviderTimeout

\* Nothing is accepted before the first claim, no delivery begins later than the
\* window after it, and no request arrives later than its way from the end of one.
WithinWindow ==
  /\ attempts = 0 <=> firstAttempted = Never
  /\ firstAttempted <= clock
  /\ \A w \in Replicas :
       /\ at[w] = "claimed" => attempts > 0 /\ (attempt[w] <= 1 => since[w] = firstAttempted)
       /\ at[w] = "sending" => attempts > 0 /\ since[w] <= firstAttempted + Window
  /\ \A r \in 1 .. MaxAudience : acceptedAt[r] # Never => attempts > 0 /\ firstAttempted <= acceptedAt[r]
  /\ \A r \in 1 .. MaxAudience :
       straggler[r] # Never => /\ attempts > 0
                               /\ straggler[r] <= firstAttempted + Window + ProviderTimeout + Transit

Accepted(r) == acceptedAt[r] # Never

\* What was accepted was shown once; recipients are reached in their order.
ReachedInOrder ==
  /\ \A r \in 1 .. MaxAudience : shown[r] = IF Accepted(r) THEN 1 ELSE 0
  /\ \A w \in Replicas :
       /\ at[w] \in {"idle", "claimed"} => recipient[w] = 1 /\ reached[w] = "nothing"
       /\ at[w] = "sending" =>
            /\ recipient[w] \in Audience /\ \A r \in 1 .. recipient[w] - 1 : Accepted(r)
            /\ reached[w] = "accepted" => Accepted(recipient[w])
       /\ at[w] = "publish" => \A r \in Audience : Accepted(r)
  /\ imStatus = "PUBLISHED" => \A r \in Audience : Accepted(r)

ImInv == ImTypeOK /\ LeaseOutlasts /\ WithinWindow /\ ReachedInOrder

-----------------------------------------------------------------------------
LEMMA ImInitHolds == ImInit => ImInv
<1> SUFFICES ASSUME ImInit PROVE ImInv
  OBVIOUS
<1> USE ImAssumption
<1>1. ImTypeOK
  BY DEF ImInit, ImTypeOK, Faults, NoFault, Never
<1>2. LeaseOutlasts /\ WithinWindow /\ ReachedInOrder
  BY DEF ImInit, LeaseOutlasts, WithinWindow, ReachedInOrder, Accepted, Never
<1> QED BY <1>1, <1>2 DEF ImInv

LEMMA AcceptIsTyped ==
  ASSUME ImTypeOK, NEW r \in 1 .. MaxAudience, Accept(r)
  PROVE  acceptedAt' \in [1 .. MaxAudience -> Nat \cup {Never}] /\ shown' \in [1 .. MaxAudience -> Nat]
<1>1. CASE UNCHANGED providerVars
  BY <1>1 DEF ImTypeOK, providerVars
<1>2. CASE acceptedAt' = [acceptedAt EXCEPT ![r] = clock] /\ shown' = [shown EXCEPT ![r] = @ + 1]
  <2>1. acceptedAt' \in [1 .. MaxAudience -> Nat \cup {Never}]
    BY <1>2 DEF ImTypeOK
  <2>2. shown[r] + 1 \in Nat
    <3>1. shown \in [1 .. MaxAudience -> Nat]
      BY DEF ImTypeOK
    <3>2. shown[r] \in Nat
      BY <3>1
    <3> QED BY <3>2
  <2>3. shown' \in [1 .. MaxAudience -> Nat]
    BY <1>2, <2>2 DEF ImTypeOK
  <2> QED BY <2>1, <2>3
<1> QED BY <1>1, <1>2 DEF Accept

LEMMA GivenUp ==
  ASSUME ImTypeOK, NEW w \in Replicas, GiveUp(w) \/ UNCHANGED straggler
  PROVE  /\ straggler' \in [1 .. MaxAudience -> Nat \cup {Never}]
         /\ \A r \in 1 .. MaxAudience :
              straggler'[r] = straggler[r] \/ (at[w] = "sending" /\ straggler'[r] = clock + Transit)
<1> clock + Transit \in Nat
  BY ImAssumption DEF ImTypeOK
<1> QED BY DEF GiveUp, ImTypeOK

\* What a handler that fails has changed.
LEMMA FailureOnly ==
  ASSUME NEW w \in Replicas, SendThrows(w) \/ PublishThrows(w)
  PROVE  /\ at' = [at EXCEPT ![w] = "fault"] /\ reached' = [reached EXCEPT ![w] = "nothing"]
         /\ \E f \in Faults : fault' = [fault EXCEPT ![w] = f]
         /\ UNCHANGED <<clock, eventVars, attempt, since, recipient, providerVars>>
         /\ GiveUp(w) \/ UNCHANGED straggler
BY DEF elsewhereVars, SendThrows, PublishThrows, SendFaults, Fail, Faults, NoFault

LEMMA TypesStep ==
  ASSUME ImInv, ImNext
  PROVE  ImTypeOK'
<1> USE ImAssumption DEF ImInv, eventVars, handlerVars, providerVars, elsewhereVars
<1>1. CASE Tick
  BY <1>1 DEF Tick, ImTypeOK
<1>2. ASSUME NEW w \in Replicas, claimMessageEvents(w) PROVE ImTypeOK'
  BY <1>2 DEF claimMessageEvents, ImTypeOK
<1>3. ASSUME NEW w \in Replicas, Begin(w) PROVE ImTypeOK'
  <2>1. fault' \in [Replicas -> Faults]
    <3>1. UNCHANGED fault \/ \E f \in Faults : fault' = [fault EXCEPT ![w] = f]
      <4>1. [retryable |-> FALSE, outcome |-> "unknown"] \in Faults
        BY DEF Faults
      <4> QED BY <1>3, <4>1 DEF Begin, Fail
    <3> QED BY <3>1 DEF ImTypeOK
  <2>2. at' \in [Replicas -> {"idle", "claimed", "sending", "publish", "fault"}]
    BY <1>3 DEF Begin, Fail, ImTypeOK
  <2>3. reached' \in [Replicas -> {"nothing", "accepted", "refused"}] /\ since' \in [Replicas -> Nat]
    BY <1>3 DEF Begin, Fail, ImTypeOK
  <2> QED BY <1>3, <2>1, <2>2, <2>3 DEF Begin, ImTypeOK
<1>4. ASSUME NEW w \in Replicas, Arrive(w) PROVE ImTypeOK'
  <2>1. recipient[w] \in 1 .. MaxAudience
    BY <1>4 DEF Arrive, ReachedInOrder, Audience, ImTypeOK
  <2> QED BY <1>4, <2>1, AcceptIsTyped DEF Arrive, ImTypeOK
<1>5. ASSUME NEW w \in Replicas, SendReturns(w) PROVE ImTypeOK'
  <2>1. CASE at' = [at EXCEPT ![w] = "publish"] /\ UNCHANGED recipient
    BY <1>5, <2>1 DEF SendReturns, ImTypeOK
  <2>2. CASE recipient' = [recipient EXCEPT ![w] = @ + 1] /\ UNCHANGED at
    BY <1>5, <2>2 DEF SendReturns, ImTypeOK
  <2> QED BY <1>5, <2>1, <2>2 DEF SendReturns
<1>6. ASSUME NEW w \in Replicas, SendThrows(w) \/ PublishThrows(w) PROVE ImTypeOK'
  <2>1. PICK f \in Faults : fault' = [fault EXCEPT ![w] = f]
    BY <1>6, FailureOnly
  <2> QED BY <1>6, <2>1, FailureOnly, GivenUp DEF ImTypeOK
<1>7. ASSUME NEW w \in Replicas, Publish(w) PROVE ImTypeOK'
  BY <1>7 DEF Publish, Mark, HoldsLease, Unlock, Leave, NoFault, Faults, ImTypeOK
<1>8. ASSUME NEW w \in Replicas, failOrRetry(w) PROVE ImTypeOK'
  <2>1. /\ imStatus' \in {"PENDING", "PUBLISHED", "FAILED", "UNKNOWN"} /\ availableAt' \in Nat
        /\ lockHolder' \in Replicas \cup {NoReplica} /\ lockedUntil' \in Nat \cup {Never}
        /\ UNCHANGED <<audience, attempts, firstAttempted>>
    <3>1. CASE \E s \in {"UNKNOWN", "FAILED"} : Mark(w, s)
      BY <3>1 DEF Mark, HoldsLease, Unlock, ImTypeOK
    <3>2. CASE \E delay \in Backoffs : releaseForRetry(w, delay)
      BY <3>2 DEF releaseForRetry, HoldsLease, Unlock, ImTypeOK
    <3> QED BY <1>8, <3>1, <3>2 DEF failOrRetry
  <2>2. Leave(w) /\ UNCHANGED <<clock, elsewhereVars>>
    BY <1>8 DEF failOrRetry
  <2> QED BY <2>1, <2>2 DEF Leave, NoFault, Faults, ImTypeOK
<1>9. ASSUME NEW w \in Replicas, WorkerDies(w) PROVE ImTypeOK'
  BY <1>9, GivenUp DEF WorkerDies, Leave, NoFault, Faults, ImTypeOK
<1>10. ASSUME NEW r \in 1 .. MaxAudience, StragglerArrives(r) PROVE ImTypeOK'
  BY <1>10, AcceptIsTyped DEF StragglerArrives, ImTypeOK
<1> QED BY <1>1, <1>2, <1>3, <1>4, <1>5, <1>6, <1>7, <1>8, <1>9, <1>10 DEF ImNext, ImStep

LEMMA LeaseStep ==
  ASSUME ImInv, ImNext
  PROVE  LeaseOutlasts'
<1> USE ImAssumption, ImTiming DEF ImInv, eventVars, handlerVars, providerVars, elsewhereVars
<1>1. CASE Tick
  BY <1>1 DEF Tick, Due, ImTypeOK, LeaseOutlasts
<1>2. ASSUME NEW w \in Replicas, claimMessageEvents(w) PROVE LeaseOutlasts'
  <2>1. \A v \in Replicas : at[v] \notin {"claimed", "sending"}
    BY <1>2 DEF claimMessageEvents, ImTypeOK, LeaseOutlasts
  <2> QED BY <1>2, <2>1 DEF claimMessageEvents, ImTypeOK, LeaseOutlasts
<1>3. ASSUME NEW w \in Replicas, Begin(w) PROVE LeaseOutlasts'
  BY <1>3 DEF Begin, Fail, ImTypeOK, LeaseOutlasts
<1>4. ASSUME NEW w \in Replicas, Arrive(w) PROVE LeaseOutlasts'
  BY <1>4 DEF Arrive, ImTypeOK, LeaseOutlasts
<1>5. ASSUME NEW w \in Replicas, SendReturns(w) PROVE LeaseOutlasts'
  BY <1>5 DEF SendReturns, ImTypeOK, LeaseOutlasts
<1>6. ASSUME NEW w \in Replicas, SendThrows(w) \/ PublishThrows(w) PROVE LeaseOutlasts'
  BY <1>6, FailureOnly DEF ImTypeOK, LeaseOutlasts
<1>7. ASSUME NEW w \in Replicas, Publish(w) PROVE LeaseOutlasts'
  BY <1>7 DEF Publish, Mark, HoldsLease, Unlock, Leave, ImTypeOK, LeaseOutlasts
<1>8. ASSUME NEW w \in Replicas, failOrRetry(w) PROVE LeaseOutlasts'
  BY <1>8 DEF failOrRetry, Mark, releaseForRetry, HoldsLease, Unlock, Leave, ImTypeOK, LeaseOutlasts
<1>9. ASSUME NEW w \in Replicas, WorkerDies(w) PROVE LeaseOutlasts'
  BY <1>9 DEF WorkerDies, Leave, ImTypeOK, LeaseOutlasts
<1>10. ASSUME NEW r \in 1 .. MaxAudience, StragglerArrives(r) PROVE LeaseOutlasts'
  BY <1>10 DEF StragglerArrives, LeaseOutlasts
<1> QED BY <1>1, <1>2, <1>3, <1>4, <1>5, <1>6, <1>7, <1>8, <1>9, <1>10 DEF ImNext, ImStep

LEMMA GivenUpInTime ==
  ASSUME ImInv, NEW w \in Replicas, GiveUp(w) \/ UNCHANGED straggler
  PROVE  \A r \in 1 .. MaxAudience : straggler'[r] # Never =>
           attempts > 0 /\ straggler'[r] <= firstAttempted + Window + ProviderTimeout + Transit
<1> SUFFICES ASSUME NEW r \in 1 .. MaxAudience, straggler'[r] # Never
             PROVE  attempts > 0 /\ straggler'[r] <= firstAttempted + Window + ProviderTimeout + Transit
  OBVIOUS
<1>1. CASE straggler'[r] = straggler[r]
  BY <1>1 DEF ImInv, WithinWindow
<1>2. CASE at[w] = "sending" /\ straggler'[r] = clock + Transit
  <2>1. /\ clock <= since[w] + ProviderTimeout
        /\ attempts > 0 /\ since[w] <= firstAttempted + Window
    BY <1>2 DEF ImInv, LeaseOutlasts, WithinWindow
  <2>2. clock \in Nat /\ since[w] \in Nat /\ firstAttempted \in Nat \cup {Never}
    BY DEF ImInv, ImTypeOK
  <2> QED BY <1>2, <2>1, <2>2, ImAssumption DEF Never
<1> QED BY <1>1, <1>2, GivenUp DEF ImInv

\* What is accepted now is accepted after the first claim.
LEMMA AcceptedAfterClaim ==
  ASSUME ImInv, NEW r \in 1 .. MaxAudience, Accept(r), attempts > 0
  PROVE  \A q \in 1 .. MaxAudience : acceptedAt'[q] # Never => firstAttempted <= acceptedAt'[q]
<1>1. firstAttempted <= clock
  BY DEF ImInv, WithinWindow
<1>2. \A q \in 1 .. MaxAudience : acceptedAt[q] # Never => firstAttempted <= acceptedAt[q]
  BY DEF ImInv, WithinWindow
<1>3. acceptedAt' = acceptedAt \/ acceptedAt' = [acceptedAt EXCEPT ![r] = clock]
  BY DEF Accept, providerVars
<1>4. DOMAIN acceptedAt = 1 .. MaxAudience
  BY DEF ImInv, ImTypeOK
<1> QED BY <1>1, <1>2, <1>3, <1>4

LEMMA WindowStep ==
  ASSUME ImInv, ImNext
  PROVE  WithinWindow'
<1> USE ImAssumption, ImTiming DEF ImInv, eventVars, handlerVars, providerVars, elsewhereVars
<1>1. CASE Tick
  BY <1>1 DEF Tick, ImTypeOK, WithinWindow
<1>2. ASSUME NEW w \in Replicas, claimMessageEvents(w) PROVE WithinWindow'
  BY <1>2 DEF claimMessageEvents, ImTypeOK, WithinWindow, LeaseOutlasts, Never
<1>3. ASSUME NEW w \in Replicas, Begin(w) PROVE WithinWindow'
  BY <1>3 DEF Begin, Fail, WindowExpired, ImTypeOK, WithinWindow, LeaseOutlasts, Never
<1>4. ASSUME NEW w \in Replicas, Arrive(w) PROVE WithinWindow'
  <2>1. /\ at[w] = "sending" /\ recipient[w] \in 1 .. MaxAudience
        /\ UNCHANGED <<clock, eventVars, at, attempt, since, recipient, fault, straggler>>
        /\ Accept(recipient[w]) \/ acceptedAt' = acceptedAt
    BY <1>4 DEF Arrive, ReachedInOrder, Audience, ImTypeOK
  <2>2. WithinWindow /\ attempts > 0
    BY <2>1 DEF WithinWindow
  <2>3. \A q \in 1 .. MaxAudience : acceptedAt'[q] # Never => firstAttempted <= acceptedAt'[q]
    BY <2>1, <2>2, AcceptedAfterClaim DEF WithinWindow
  <2> HIDE DEF ImInv
  <2> QED BY <2>1, <2>2, <2>3 DEF WithinWindow
<1>5. ASSUME NEW w \in Replicas, SendReturns(w) PROVE WithinWindow'
  BY <1>5 DEF SendReturns, ImTypeOK, WithinWindow
<1>6. ASSUME NEW w \in Replicas, SendThrows(w) \/ PublishThrows(w) PROVE WithinWindow'
  <2>1. /\ at' = [at EXCEPT ![w] = "fault"] /\ reached' = [reached EXCEPT ![w] = "nothing"]
        /\ UNCHANGED <<clock, eventVars, attempt, since, recipient, providerVars>>
        /\ GiveUp(w) \/ UNCHANGED straggler
    BY <1>6, FailureOnly
  <2>2. \A r \in 1 .. MaxAudience : straggler'[r] # Never =>
          attempts > 0 /\ straggler'[r] <= firstAttempted + Window + ProviderTimeout + Transit
    BY <2>1, GivenUpInTime
  <2> QED BY <2>1, <2>2 DEF ImTypeOK, WithinWindow
<1>7. ASSUME NEW w \in Replicas, Publish(w) PROVE WithinWindow'
  BY <1>7 DEF Publish, Mark, Leave, ImTypeOK, WithinWindow
<1>8. ASSUME NEW w \in Replicas, failOrRetry(w) PROVE WithinWindow'
  BY <1>8 DEF failOrRetry, Mark, releaseForRetry, Leave, ImTypeOK, WithinWindow
<1>9. ASSUME NEW w \in Replicas, WorkerDies(w) PROVE WithinWindow'
  <2>1. \A r \in 1 .. MaxAudience : straggler'[r] # Never =>
          attempts > 0 /\ straggler'[r] <= firstAttempted + Window + ProviderTimeout + Transit
    BY <1>9, GivenUpInTime DEF WorkerDies
  <2> QED BY <1>9, <2>1 DEF WorkerDies, Leave, ImTypeOK, WithinWindow
<1>10. ASSUME NEW r \in 1 .. MaxAudience, StragglerArrives(r) PROVE WithinWindow'
  <2>1. Accept(r) /\ clock <= straggler[r] /\ UNCHANGED <<clock, eventVars, handlerVars, straggler>>
    BY <1>10 DEF StragglerArrives
  <2>2. straggler[r] # Never
    BY <2>1 DEF ImTypeOK, Never
  <2>3. attempts > 0
    BY <2>2 DEF WithinWindow
  <2>4. \A q \in 1 .. MaxAudience : acceptedAt'[q] # Never => firstAttempted <= acceptedAt'[q]
    BY <2>1, <2>3, AcceptedAfterClaim
  <2>5. WithinWindow
    OBVIOUS
  <2> HIDE DEF ImInv
  <2> QED BY <2>1, <2>3, <2>4, <2>5 DEF WithinWindow
<1> QED BY <1>1, <1>2, <1>3, <1>4, <1>5, <1>6, <1>7, <1>8, <1>9, <1>10 DEF ImNext, ImStep

-----------------------------------------------------------------------------
\* Whoever sends does so while the provider remembers the first acceptance.
LEMMA RepetitionIsSeen ==
  ASSUME ImInv, NEW w \in Replicas, at[w] = "sending", Accepted(recipient[w])
  PROVE  Remembered(recipient[w])
<1>1. recipient[w] \in 1 .. MaxAudience
  BY ImAssumption DEF ImInv, ReachedInOrder, Audience, ImTypeOK
<1>2. clock <= since[w] + ProviderTimeout /\ since[w] <= firstAttempted + Window
  BY DEF ImInv, LeaseOutlasts, WithinWindow
<1>3. firstAttempted <= acceptedAt[recipient[w]] /\ acceptedAt[recipient[w]] \in Nat
  BY <1>1 DEF ImInv, WithinWindow, ImTypeOK, Accepted
<1>4. clock \in Nat /\ since[w] \in Nat /\ firstAttempted \in Nat \cup {Never}
  BY DEF ImInv, ImTypeOK
<1> QED BY <1>1, <1>2, <1>3, <1>4, ImAssumption, ImTiming DEF Remembered, Accepted, Never

\* So does a request that was given up, as long as it may arrive.
LEMMA StragglerIsSeen ==
  ASSUME ImInv, NEW r \in 1 .. MaxAudience, clock <= straggler[r], Accepted(r)
  PROVE  Remembered(r)
<1>1. clock \in Nat /\ straggler[r] \in Nat \cup {Never} /\ firstAttempted \in Nat \cup {Never}
  BY DEF ImInv, ImTypeOK
<1>2. straggler[r] <= firstAttempted + Window + ProviderTimeout + Transit
  BY <1>1 DEF ImInv, WithinWindow, Never
<1>3. firstAttempted <= acceptedAt[r] /\ acceptedAt[r] \in Nat
  BY DEF ImInv, WithinWindow, ImTypeOK, Accepted
<1> QED BY <1>1, <1>2, <1>3, ImAssumption, ImTiming DEF Remembered, Accepted, Never

\* A message that is accepted is shown if it is the first of its recipient.
LEMMA ShownByAcceptance ==
  ASSUME ImInv, NEW r \in 1 .. MaxAudience, Accept(r), Accepted(r) => Remembered(r)
  PROVE  /\ Accepted(r)'
         /\ \A q \in 1 .. MaxAudience : Accepted(q) => Accepted(q)'
         /\ \A q \in 1 .. MaxAudience : shown'[q] = IF Accepted(q)' THEN 1 ELSE 0
<1> USE DEF ImInv
<1>1. CASE Accepted(r)
  BY <1>1 DEF Accept, providerVars, ReachedInOrder, Accepted
<1>2. CASE ~Accepted(r)
  <2>1. /\ acceptedAt' = [acceptedAt EXCEPT ![r] = clock] /\ shown' = [shown EXCEPT ![r] = @ + 1]
        /\ clock # Never
    BY <1>2 DEF Accept, Remembered, Accepted, ImTypeOK, Never
  <2> QED BY <1>2, <2>1 DEF ImTypeOK, ReachedInOrder, Accepted
<1> QED BY <1>1, <1>2

LEMMA ReachedStep ==
  ASSUME ImInv, ImNext
  PROVE  ReachedInOrder'
<1> USE ImAssumption DEF ImInv, eventVars, handlerVars, providerVars, elsewhereVars
<1>1. CASE Tick
  BY <1>1 DEF Tick, ImTypeOK, ReachedInOrder, Accepted, Audience
<1>2. ASSUME NEW w \in Replicas, claimMessageEvents(w) PROVE ReachedInOrder'
  BY <1>2 DEF claimMessageEvents, ImTypeOK, ReachedInOrder, Accepted, Audience
<1>3. ASSUME NEW w \in Replicas, Begin(w) PROVE ReachedInOrder'
  BY <1>3 DEF Begin, Fail, ImTypeOK, ReachedInOrder, Accepted, Audience
<1>4. ASSUME NEW w \in Replicas, Arrive(w) PROVE ReachedInOrder'
  <2>1. recipient[w] \in 1 .. MaxAudience /\ at[w] = "sending"
    BY <1>4 DEF Arrive, ReachedInOrder, Audience, ImTypeOK
  <2>2. CASE UNCHANGED providerVars /\ reached' = [reached EXCEPT ![w] = "refused"]
    BY <1>4, <2>2 DEF Arrive, ImTypeOK, ReachedInOrder, Accepted, Audience
  <2>3. CASE Accept(recipient[w]) /\ reached' = [reached EXCEPT ![w] = "accepted"]
    <3>1. /\ Accepted(recipient[w])'
          /\ \A r \in 1 .. MaxAudience : Accepted(r) => Accepted(r)'
          /\ \A r \in 1 .. MaxAudience : shown'[r] = IF Accepted(r)' THEN 1 ELSE 0
      <4>1. PICK q \in 1 .. MaxAudience : q = recipient[w] /\ recipient'[w] = q
        BY <1>4, <2>1 DEF Arrive
      <4>2. ImInv /\ Accept(q) /\ (Accepted(q) => Remembered(q))
        BY <2>1, <2>3, <4>1, RepetitionIsSeen
      <4> HIDE DEF ImInv
      <4>3. /\ Accepted(q)'
            /\ \A r \in 1 .. MaxAudience : Accepted(r) => Accepted(r)'
            /\ \A r \in 1 .. MaxAudience : shown'[r] = IF Accepted(r)' THEN 1 ELSE 0
        BY <4>2, ShownByAcceptance
      <4>4. Accepted(recipient[w])'
        BY <4>1, <4>3 DEF Accepted
      <4> QED BY <4>3, <4>4
    <3>2. at' = at /\ recipient' = recipient /\ audience' = audience /\ imStatus' = imStatus
      BY <1>4 DEF Arrive
    <3>3. \A v \in Replicas : reached'[v] = IF v = w THEN "accepted" ELSE reached[v]
      BY <2>3 DEF ImTypeOK
    <3>4. Audience' = Audience /\ Audience \subseteq 1 .. MaxAudience
      BY <3>2 DEF Audience, ImTypeOK
    <3>5. ASSUME NEW v \in Replicas, at[v] = "sending"
          PROVE  /\ recipient[v] \in Audience /\ \A r \in 1 .. recipient[v] - 1 : Accepted(r)'
                 /\ reached'[v] = "accepted" => Accepted(recipient[v])'
      <4>1. recipient[v] \in Audience /\ \A r \in 1 .. recipient[v] - 1 : Accepted(r)
        BY <3>5 DEF ReachedInOrder
      <4>2. \A r \in 1 .. recipient[v] - 1 : r \in 1 .. MaxAudience
        BY <4>1, <3>4 DEF Audience, ImTypeOK
      <4>3. \A r \in 1 .. recipient[v] - 1 : Accepted(r)'
        BY <3>1, <4>1, <4>2
      <4>4. CASE v = w
        BY <3>1, <3>2, <4>1, <4>3, <4>4
      <4>5. CASE v # w
        BY <3>1, <3>2, <3>3, <3>4, <3>5, <4>1, <4>3, <4>5 DEF ReachedInOrder
      <4> QED BY <4>4, <4>5
    <3>6. \A v \in Replicas : at[v] = "publish" => \A r \in Audience : Accepted(r)'
      BY <3>1, <3>4 DEF ReachedInOrder
    <3>7. imStatus = "PUBLISHED" => \A r \in Audience : Accepted(r)'
      BY <3>1, <3>4 DEF ReachedInOrder
    <3>8. \A v \in Replicas : at[v] \in {"idle", "claimed"} => recipient[v] = 1 /\ reached'[v] = "nothing"
      BY <2>1, <3>3 DEF ReachedInOrder
    <3>9. \A v \in Replicas : at[v] = "sending" =>
             /\ recipient[v] \in Audience /\ \A r \in 1 .. recipient[v] - 1 : Accepted(r)'
             /\ reached'[v] = "accepted" => Accepted(recipient[v])'
      BY <3>5
    <3> HIDE DEF ImInv
    <3> QED BY <3>1, <3>2, <3>4, <3>6, <3>7, <3>8, <3>9 DEF ReachedInOrder
  <2> QED BY <1>4, <2>2, <2>3 DEF Arrive
<1>5. ASSUME NEW w \in Replicas, SendReturns(w) PROVE ReachedInOrder'
  <2>1. /\ at[w] = "sending" /\ reached[w] = "accepted" /\ reached' = [reached EXCEPT ![w] = "nothing"]
        /\ audience' = audience /\ imStatus' = imStatus /\ acceptedAt' = acceptedAt /\ shown' = shown
        /\ \/ recipient[w] = audience /\ at' = [at EXCEPT ![w] = "publish"] /\ recipient' = recipient
           \/ recipient[w] # audience /\ recipient' = [recipient EXCEPT ![w] = @ + 1] /\ at' = at
    BY <1>5 DEF SendReturns, LastRecipient
  <2>2. Audience' = Audience /\ \A r : Accepted(r)' = Accepted(r)
    BY <2>1 DEF Audience, Accepted
  <2>3. audience \in Nat /\ recipient[w] \in 1 .. audience /\ \A r \in 1 .. recipient[w] : Accepted(r)
    BY <2>1 DEF ReachedInOrder, ImTypeOK, Audience
  <2>4. reached'[w] = "nothing"
        /\ \A v \in Replicas \ {w} : at'[v] = at[v] /\ recipient'[v] = recipient[v] /\ reached'[v] = reached[v]
    BY <2>1 DEF ImTypeOK
  <2>5. \/ recipient[w] = audience /\ at'[w] = "publish"
        \/ at'[w] = "sending" /\ recipient'[w] \in 1 .. audience /\ recipient'[w] = recipient[w] + 1
    BY <2>1, <2>3 DEF ImTypeOK
  <2>6. (at'[w] = "sending" => recipient'[w] \in Audience /\ \A r \in 1 .. recipient'[w] - 1 : Accepted(r))
        /\ (at'[w] = "publish" => \A r \in Audience : Accepted(r)) /\ at'[w] \notin {"idle", "claimed"}
    BY <2>3, <2>5 DEF Audience
  <2>7. ReachedInOrder
    OBVIOUS
  <2> HIDE DEF ImInv
  <2> QED BY <2>1, <2>2, <2>4, <2>6, <2>7 DEF ReachedInOrder
<1>6. ASSUME NEW w \in Replicas, SendThrows(w) \/ PublishThrows(w) PROVE ReachedInOrder'
  <2>1. /\ at' = [at EXCEPT ![w] = "fault"] /\ reached' = [reached EXCEPT ![w] = "nothing"]
        /\ UNCHANGED <<clock, eventVars, attempt, since, recipient, providerVars>>
    BY <1>6, FailureOnly
  <2> QED BY <2>1 DEF ImTypeOK, ReachedInOrder, Accepted, Audience
<1>7. ASSUME NEW w \in Replicas, Publish(w) PROVE ReachedInOrder'
  BY <1>7 DEF Publish, Mark, Leave, ImTypeOK, ReachedInOrder, Accepted, Audience
<1>8. ASSUME NEW w \in Replicas, failOrRetry(w) PROVE ReachedInOrder'
  BY <1>8 DEF failOrRetry, Mark, releaseForRetry, Leave, ImTypeOK, ReachedInOrder, Accepted, Audience
<1>9. ASSUME NEW w \in Replicas, WorkerDies(w) PROVE ReachedInOrder'
  BY <1>9 DEF WorkerDies, Leave, ImTypeOK, ReachedInOrder, Accepted, Audience
<1>10. ASSUME NEW r \in 1 .. MaxAudience, StragglerArrives(r) PROVE ReachedInOrder'
  <2>1. /\ \A q \in 1 .. MaxAudience : Accepted(q) => Accepted(q)'
        /\ \A q \in 1 .. MaxAudience : shown'[q] = IF Accepted(q)' THEN 1 ELSE 0
    BY <1>10, StragglerIsSeen, ShownByAcceptance DEF StragglerArrives
  <2>2. at' = at /\ recipient' = recipient /\ reached' = reached /\ audience' = audience /\ imStatus' = imStatus
    BY <1>10 DEF StragglerArrives
  <2>3. Audience' = Audience /\ Audience \subseteq 1 .. MaxAudience
    BY <2>2 DEF Audience, ImTypeOK
  <2>4. ASSUME NEW v \in Replicas, at[v] = "sending"
        PROVE  /\ recipient[v] \in Audience /\ \A q \in 1 .. recipient[v] - 1 : Accepted(q)'
               /\ reached[v] = "accepted" => Accepted(recipient[v])'
    <3>1. recipient[v] \in Audience /\ \A q \in 1 .. recipient[v] - 1 : Accepted(q)
      BY <2>4 DEF ReachedInOrder
    <3>2. \A q \in 1 .. recipient[v] - 1 : q \in 1 .. MaxAudience
      BY <3>1, <2>3 DEF Audience, ImTypeOK
    <3>3. recipient[v] \in 1 .. MaxAudience /\ (reached[v] = "accepted" => Accepted(recipient[v]))
      BY <2>3, <2>4, <3>1 DEF ReachedInOrder
    <3>4. \A q \in 1 .. recipient[v] - 1 : Accepted(q)'
      BY <2>1, <3>1, <3>2
    <3>5. reached[v] = "accepted" => Accepted(recipient[v])'
      BY <2>1, <2>2, <3>3 DEF Accepted
    <3> QED BY <3>1, <3>4, <3>5
  <2>5. ReachedInOrder
    OBVIOUS
  <2> HIDE DEF ImInv
  <2> QED BY <2>1, <2>2, <2>3, <2>4, <2>5 DEF ReachedInOrder
<1> QED BY <1>1, <1>2, <1>3, <1>4, <1>5, <1>6, <1>7, <1>8, <1>9, <1>10 DEF ImNext, ImStep

LEMMA OutboxInvariant == ImSpec => []ImInv
<1>1. ImInv /\ UNCHANGED imVars => ImInv'
  BY DEF imVars, eventVars, handlerVars, providerVars, elsewhereVars, ImInv, ImTypeOK, LeaseOutlasts, WithinWindow,
         ReachedInOrder, Accepted, Audience
<1>2. ImInv /\ [ImNext]_imVars => ImInv'
  BY <1>1, TypesStep, LeaseStep, WindowStep, ReachedStep DEF ImInv
<1> QED BY ImInitHolds, <1>2, PTL DEF ImSpec

-----------------------------------------------------------------------------
(* However often a message is claimed, sent, refused, abandoned and sent again,
   each recipient is shown it at most once, and once when it is PUBLISHED. *)
THEOREM ShownOnce == ImSpec => []DeliveredOnce
<1>1. ImInv => DeliveredOnce
  BY DEF ImInv, ReachedInOrder, DeliveredOnce, Accepted, Audience, ImTypeOK
<1> QED BY <1>1, OutboxInvariant, PTL

(* Nobody sends a settled event: whoever is still shown its message is shown it
   by a request that was given up before, and no such request is added. *)
THEOREM SettledIsNotSent == ImSpec => SentWhilePending
<1> DEFINE Quiet == \A r \in 1 .. MaxAudience :
                      straggler'[r] <= straggler[r] /\ (shown'[r] # shown[r] => clock <= straggler[r])
<1>1. ImInv /\ [ImNext]_imVars => [imStatus # "PENDING" => Quiet]_imVars
  <2> SUFFICES ASSUME ImInv, ImNext, imStatus # "PENDING" PROVE Quiet
    OBVIOUS
  <2>1. \A w \in Replicas : at[w] # "sending"
    BY DEF ImInv, LeaseOutlasts
  <2>2. straggler \in [1 .. MaxAudience -> Nat \cup {Never}] /\ shown \in [1 .. MaxAudience -> Nat] /\ clock \in Nat
    BY DEF ImInv, ImTypeOK
  <2>3. CASE Tick
    BY <2>2, <2>3 DEF Tick, providerVars, Never
  <2>4. CASE \E r \in 1 .. MaxAudience : StragglerArrives(r)
    <3>1. PICK r \in 1 .. MaxAudience : StragglerArrives(r)
      BY <2>4
    <3>2. straggler' = straggler /\ clock <= straggler[r] /\ \A q \in 1 .. MaxAudience \ {r} : shown'[q] = shown[q]
      BY <2>2, <3>1 DEF StragglerArrives, Accept, providerVars
    <3> QED BY <2>2, <3>2 DEF Never
  <2>5. CASE \E w \in Replicas : ImStep(w)
    <3>1. UNCHANGED <<straggler, shown>>
      BY <2>1, <2>5 DEF ImStep, GiveUp, claimMessageEvents, Begin, Arrive, SendReturns, SendThrows, Publish,
                        PublishThrows, failOrRetry, WorkerDies, providerVars, elsewhereVars
    <3> QED BY <2>2, <3>1 DEF Never
  <2> QED BY <2>3, <2>4, <2>5 DEF ImNext
<1>2. ImInv /\ [ImNext]_imVars =>
        [imStatus # "PENDING" =>
           \A r \in 1 .. MaxAudience :
             /\ straggler'[r] <= straggler[r]
             /\ shown'[r] # shown[r] => clock <= straggler[r]]_imVars
  BY <1>1
<1> QED BY <1>2, OutboxInvariant, PTL DEF ImSpec, SentWhilePending

-----------------------------------------------------------------------------
(* A client and its messages.                                              *)

Request == [key : Nat, text : Nat]

MessagingTypes ==
  /\ draft \in Nat /\ typedTexts \in Nat /\ drawnKeys \in Nat
  /\ failedRequest \in Request /\ pending \in Request
  /\ mutations \in SUBSET Request /\ wire \in SUBSET Request
  /\ replies \in SUBSET Request /\ cancelled \in SUBSET Request
  /\ ledger \in Seq(Request) /\ events \in Seq(Nat)
  /\ view \in SUBSET Nat

\* Every request there is, was or may be sent again.
Sent ==
  mutations \cup wire \cup replies \cup cancelled \cup ({pending, failedRequest} \ {NoRequest})
    \cup {ledger[i] : i \in 1 .. Len(ledger)}

\* A client message id belongs to one request, whoever still holds it.
OneRequestPerKey ==
  /\ \A a \in Sent : a.key \in 1 .. drawnKeys
  /\ \A a, b \in Sent : a.key = b.key => a = b

WrittenOnce ==
  /\ \A i, j \in 1 .. Len(ledger) : ledger[i].key = ledger[j].key => i = j
  /\ Len(events) = Len(ledger)

\* What is on the screen, and what is about to be, is stored, and a poll that
\* has read has read it.
ShownIsStored ==
  /\ view \subseteq Stored /\ \A a \in replies \cup cancelled : a.key \in Stored
  /\ query \in {<<>>, <<"asked">>} \/ \E keys : query = <<"read", keys>>
  /\ Len(query) = 2 =>
       query[2] \subseteq Stored /\ view \subseteq query[2] /\ \A a \in cancelled : a.key \in query[2]

MessagingInv == MessagingTypes /\ OneRequestPerKey /\ WrittenOnce /\ ShownIsStored

-----------------------------------------------------------------------------

USE DEF composerVars, flightVars, serverVars, runActionVars, cacheVars, messagingVars

LEMMA NoRequestIsNone == NoRequest \in Request /\ NoRequest.key = 0
BY DEF NoRequest, NoText, Request

LEMMA MessagingStarts == MessagingInit => MessagingInv
<1> SUFFICES ASSUME MessagingInit PROVE MessagingInv
  OBVIOUS
<1>1. MessagingTypes
  BY NoRequestIsNone, EmptySeq DEF MessagingInit, MessagingTypes, NoText
<1>2. Sent = {} /\ Stored = {} /\ WrittenOnce
  BY EmptySeq DEF MessagingInit, Sent, Stored, WrittenOnce
<1>3. Len(query) # 2 /\ query = <<>>
  BY DEF MessagingInit, NoQuery
<1> QED BY <1>1, <1>2, <1>3 DEF MessagingInv, MessagingInit, OneRequestPerKey, ShownIsStored

\* Requests that exist already stay as they are, and so do their keys.
LEMMA NoNewRequest ==
  ASSUME OneRequestPerKey, Sent' \subseteq Sent, drawnKeys' = drawnKeys
  PROVE  OneRequestPerKey'
BY DEF OneRequestPerKey

\* The steps that leave the server alone, except for new requests and polls.
LEMMA ClientSteps ==
  ASSUME MessagingInv,
         \/ ChangeDraft \/ Resend \/ LeaveConversation \/ RunEnds
         \/ \E request \in mutations : SendFails(request)
         \/ ClickRetry \/ RetrySettles \/ UNCHANGED messagingVars
  PROVE  MessagingInv'
<1> USE NoRequestIsNone DEF MessagingInv, MessagingTypes
<1>1. /\ UNCHANGED <<ledger, events, view, query, cancelled, drawnKeys>>
      /\ mutations' \subseteq Sent /\ wire' \subseteq Sent /\ replies' \subseteq replies
      /\ pending' \in Sent \cup {NoRequest} /\ failedRequest' \in Sent \cup {NoRequest}
      /\ draft' \in Nat /\ typedTexts' \in Nat
  BY DEF Sent, ChangeDraft, Resend, Start, LeaveConversation, RunEnds, SendFails, ClickRetry, RetrySettles,
         NoText
<1>2. Sent \subseteq Request
  BY DEF Sent
<1>3. Sent' \subseteq Sent /\ Stored' = Stored
  BY <1>1 DEF Sent, Stored
<1>4. MessagingTypes'
  BY <1>1, <1>2
<1>5. OneRequestPerKey'
  BY <1>1, <1>3, NoNewRequest
<1>6. WrittenOnce' /\ ShownIsStored'
  BY <1>1, <1>3 DEF WrittenOnce, ShownIsStored
<1> QED BY <1>4, <1>5, <1>6

LEMMA SubmitKeeps == MessagingInv /\ SubmitDraft => MessagingInv'
<1> SUFFICES ASSUME MessagingInv, SubmitDraft PROVE MessagingInv'
  OBVIOUS
<1> USE NoRequestIsNone DEF MessagingInv, MessagingTypes
<1> DEFINE r == [key |-> drawnKeys + 1, text |-> draft]
<1>1. /\ UNCHANGED <<ledger, events, view, query, cancelled, replies, draft, typedTexts>>
      /\ drawnKeys' = drawnKeys + 1 /\ pending' = r /\ failedRequest' = NoRequest
      /\ mutations' = mutations \cup {r} /\ wire' = wire \cup {r}
  BY DEF SubmitDraft, Start
<1>2. r \in Request /\ r.key = drawnKeys + 1
  BY DEF Request
<1> HIDE DEF r
<1>3. Sent' \subseteq Sent \cup {r}
  BY <1>1 DEF Sent
<1>4. Sent \subseteq Request
  BY DEF Sent
<1>5. OneRequestPerKey'
  <2>1. \A a \in Sent : a.key \in Nat /\ a.key <= drawnKeys /\ a.key >= 1
    BY DEF OneRequestPerKey
  <2>2. \A a \in Sent \cup {r} : a.key \in 1 .. drawnKeys + 1
    BY <1>2, <2>1
  <2>3. \A a, b \in Sent \cup {r} : a.key = b.key => a = b
    BY <1>2, <2>1 DEF OneRequestPerKey
  <2> QED BY <1>1, <1>3, <2>2, <2>3 DEF OneRequestPerKey
<1>6. WrittenOnce' /\ ShownIsStored'
  BY <1>1 DEF WrittenOnce, ShownIsStored, Stored
<1>7. MessagingTypes'
  BY <1>1, <1>2
<1> QED BY <1>5, <1>6, <1>7

LEMMA ReceiveKeeps == ASSUME MessagingInv, NEW request \in wire, ReceiveMessage(request) PROVE MessagingInv'
<1> USE NoRequestIsNone DEF MessagingInv, MessagingTypes
<1>1. /\ UNCHANGED <<view, query, cancelled, mutations, draft, typedTexts, drawnKeys, pending, failedRequest>>
      /\ wire' \subseteq wire /\ replies' \subseteq replies \cup {request} /\ request \in Sent /\ request \in Request
  BY DEF ReceiveMessage, Sent
<1>2. \/ ledger' = ledger /\ events' = events /\ (replies' = replies \/ Existing(request))
      \/ ledger' = Append(ledger, request) /\ events' = Append(events, request.key) /\ ~Existing(request)
  BY DEF ReceiveMessage
<1>3. CASE ledger' = ledger /\ events' = events /\ (replies' = replies \/ Existing(request))
  <2>1. Sent' \subseteq Sent /\ Stored' = Stored
    BY <1>1, <1>3 DEF Sent, Stored
  <2>2. OneRequestPerKey'
    BY <1>1, <2>1, NoNewRequest
  <2>3. WrittenOnce' /\ ShownIsStored'
    BY <1>1, <1>3, <2>1 DEF WrittenOnce, ShownIsStored, Existing
  <2> QED BY <1>1, <1>3, <2>2, <2>3
<1>4. CASE ledger' = Append(ledger, request) /\ events' = Append(events, request.key) /\ ~Existing(request)
  <2>1. /\ ledger' \in Seq(Request) /\ Len(ledger') = Len(ledger) + 1 /\ Len(ledger) \in Nat
        /\ \A i \in 1 .. Len(ledger) : ledger'[i] = ledger[i]
        /\ ledger'[Len(ledger) + 1] = request
    BY <1>1, <1>4
  <2>2. events' \in Seq(Nat) /\ Len(events') = Len(events) + 1
    BY <1>1, <1>4 DEF Request
  <2>3. \A i \in 1 .. Len(ledger') : i \in 1 .. Len(ledger) \/ i = Len(ledger) + 1
    BY <2>1
  <2>4. Stored \subseteq Stored' /\ request.key \in Stored'
    <3>1. \A i \in 1 .. Len(ledger) : i \in 1 .. Len(ledger')
      BY <2>1
    <3>2. Len(ledger) + 1 \in 1 .. Len(ledger')
      BY <2>1
    <3> QED BY <2>1, <3>1, <3>2 DEF Stored
  <2>5. Sent' \subseteq Sent
    BY <1>1, <2>1, <2>3 DEF Sent
  <2>6. OneRequestPerKey'
    BY <1>1, <2>5, NoNewRequest
  <2>7. WrittenOnce'
    <3>1. \A i \in 1 .. Len(ledger) : ledger[i].key # request.key
      BY <1>4 DEF Existing, Stored
    <3> QED BY <2>1, <2>2, <2>3, <3>1 DEF WrittenOnce
  <2>8. ShownIsStored'
    BY <1>1, <2>4 DEF ShownIsStored
  <2> QED BY <1>1, <2>1, <2>2, <2>6, <2>7, <2>8
<1> QED BY <1>2, <1>3, <1>4

\* The answer arrives, then the message is shown.
LEMMA ShowingKeeps ==
  ASSUME MessagingInv,
         \/ \E request \in mutations : SendSucceeds(request)
         \/ \E request \in cancelled : ShowSent(request)
  PROVE  MessagingInv' /\ view \subseteq view'
<1> USE NoRequestIsNone DEF MessagingInv, MessagingTypes
<1>1. ASSUME NEW request \in mutations, SendSucceeds(request) PROVE MessagingInv' /\ view \subseteq view'
  <2>1. /\ request \in replies /\ cancelled' = cancelled \cup {request} /\ query' = <<>>
        /\ UNCHANGED <<mutations, wire, replies, drawnKeys, draft, failedRequest, pending, typedTexts,
                       ledger, events, view>>
    BY <1>1 DEF SendSucceeds, CancelQuery, NoQuery
  <2>2. Sent' \subseteq Sent /\ Stored' = Stored /\ Len(query') # 2
    BY <2>1 DEF Sent, Stored
  <2>3. OneRequestPerKey'
    BY <2>1, <2>2, NoNewRequest
  <2>4. WrittenOnce' /\ ShownIsStored'
    BY <2>1, <2>2 DEF WrittenOnce, ShownIsStored
  <2> QED BY <2>1, <2>3, <2>4
<1>2. ASSUME NEW request \in cancelled, ShowSent(request) PROVE MessagingInv' /\ view \subseteq view'
  <2>1. /\ mutations' \subseteq mutations /\ replies' \subseteq replies /\ cancelled' \subseteq cancelled
        /\ view' = view \cup {request.key} /\ request \in Request
        /\ pending' \in {pending, NoRequest} /\ failedRequest' \in {failedRequest, NoRequest}
        /\ draft' \in {draft, NoText} /\ UNCHANGED <<typedTexts, wire, drawnKeys, ledger, events, query>>
    BY <1>2 DEF ShowSent
  <2>2. Sent' \subseteq Sent /\ Stored' = Stored
    BY <2>1 DEF Sent, Stored
  <2>3. OneRequestPerKey'
    BY <2>1, <2>2, NoNewRequest
  <2>4. ShownIsStored'
    <3>1. request.key \in Stored /\ (Len(query) = 2 => request.key \in query[2])
      BY DEF ShownIsStored
    <3>2. view' \subseteq Stored /\ \A a \in replies' \cup cancelled' : a.key \in Stored
      BY <2>1, <3>1 DEF ShownIsStored
    <3>3. query' = query /\ (Len(query) = 2 => view' \subseteq query[2] /\ \A a \in cancelled' : a.key \in query[2])
      BY <2>1, <3>1 DEF ShownIsStored
    <3> QED BY <2>2, <3>2, <3>3 DEF ShownIsStored
  <2>5. MessagingTypes'
    BY <2>1 DEF Request, NoText
  <2> QED BY <2>1, <2>3, <2>4, <2>5 DEF WrittenOnce
<1> QED BY <1>1, <1>2

LEMMA PollsKeep ==
  ASSUME MessagingInv, PollStarts \/ PollReads \/ PollReturns
  PROVE  MessagingInv' /\ view \subseteq view'
<1> USE DEF MessagingInv, MessagingTypes
<1>1. UNCHANGED <<composerVars, flightVars, serverVars>>
  BY DEF PollStarts, PollReads, PollReturns
<1>2. OneRequestPerKey' /\ WrittenOnce'
  BY <1>1 DEF OneRequestPerKey, WrittenOnce, Sent
<1>3. Stored' = Stored /\ Stored \in SUBSET Nat
  <2>1. \A i \in 1 .. Len(ledger) : ledger[i].key \in Nat
    <3>1. \A i \in 1 .. Len(ledger) : ledger[i] \in Request
      OBVIOUS
    <3> QED BY <3>1 DEF Request
  <2> QED BY <1>1, <2>1 DEF Stored
<1>4. ASSUME PollStarts PROVE ShownIsStored' /\ view' = view
  <2>1. Len(<<"asked">>) # 2
    OBVIOUS
  <2> QED BY <1>1, <1>3, <1>4, <2>1 DEF PollStarts, ShownIsStored
<1>5. ASSUME PollReads PROVE ShownIsStored' /\ view' = view
  <2>1. query' = <<"read", Stored>> /\ view' = view
    BY <1>5 DEF PollReads
  <2>2. query'[2] = Stored
    BY <2>1
  <2> QED BY <1>1, <1>3, <2>1, <2>2 DEF ShownIsStored
<1>6. ASSUME PollReturns PROVE ShownIsStored' /\ view \subseteq view' /\ view' \subseteq Stored
  <2>1. query' = <<>> /\ Len(query') # 2
    BY <1>6 DEF PollReturns, NoQuery
  <2>2. view' = view \/ (Len(query) = 2 /\ view' = query[2])
    BY <1>6 DEF PollReturns
  <2> QED BY <1>1, <1>3, <2>1, <2>2 DEF ShownIsStored
<1> QED BY <1>1, <1>2, <1>3, <1>4, <1>5, <1>6 DEF ShownIsStored

LEMMA MessagingKeeps == MessagingInv /\ [MessagingNext]_messagingVars => MessagingInv'
BY ClientSteps, SubmitKeeps, ReceiveKeeps, ShowingKeeps, PollsKeep DEF MessagingNext

\* Requests, the messages of the server and what the client shows of them fit
\* together: for any numbers of texts, client message ids and departures.
THEOREM MessagingInvariant == MessagingSpec => []MessagingInv
<1> QED BY MessagingStarts, MessagingKeeps, PTL DEF MessagingSpec

\* A client message id is written once, with one event and the text it was drawn
\* for (createUserMessage), however often its request arrives, and how late.
THEOREM WrittenOnceUnderTheirIds == MessagingSpec => []SentOnce
<1>1. MessagingInv => SentOnce
  <2> SUFFICES ASSUME MessagingInv, failedRequest # NoRequest, failedRequest.key \in Stored
               PROVE  \E i \in 1 .. Len(ledger) : ledger[i] = failedRequest
    BY DEF SentOnce, MessagingInv, WrittenOnce
  <2>1. PICK i \in 1 .. Len(ledger) : ledger[i].key = failedRequest.key
    BY DEF Stored
  <2>2. ledger[i] \in Sent /\ failedRequest \in Sent
    BY DEF Sent
  <2> QED BY <2>1, <2>2 DEF MessagingInv, OneRequestPerKey
<1> QED BY <1>1, MessagingInvariant, PTL

\* A message on the screen stays there: the query under way is cancelled before
\* the sent message joins the cache (onSuccess in hooks.ts).
THEOREM ShownMessagesStay == MessagingSpec => ShownStays
<1>1. MessagingInv /\ [MessagingNext]_messagingVars => [view \subseteq view']_messagingVars
  <2> SUFFICES ASSUME MessagingInv, MessagingNext PROVE view \subseteq view'
    OBVIOUS
  <2>1. CASE UNCHANGED view
    BY <2>1
  <2>2. CASE PollReturns \/ \E request \in cancelled : ShowSent(request)
    BY <2>2, ShowingKeeps, PollsKeep
  <2> QED BY <2>1, <2>2 DEF MessagingNext, ChangeDraft, SubmitDraft, Resend, LeaveConversation,
          ReceiveMessage, RunEnds, SendFails, SendSucceeds, PollStarts, PollReads, ClickRetry, RetrySettles
<1> QED BY <1>1, MessagingInvariant, PTL DEF MessagingSpec, ShownStays

-----------------------------------------------------------------------------
(* Conversations.                                                          *)

\* The row of a conversation, and all there may be.
RowOf(p, target) == [key |-> DirectKey(p, target), parties |-> Parties(p, target), relay |-> Relay(target)]
ConversationRows == UNION {{RowOf(p, target) : target \in Targets(p)} : p \in People}

Everybody == People \cup Assistants
ContactRequests == [who : People, number : Nat, target : UNION {Targets(p) : p \in People}, checked : BOOLEAN]
OpenAnswers == [who : People, number : Nat, conversation : Nat, with : SUBSET Everybody, awaits : BOOLEAN]
Choices == [conversation : Nat, with : SUBSET Everybody]

ConversationTypes ==
  /\ rows \in Seq(ConversationRows)
  /\ clicks \in [People -> Nat] /\ underWay \in [People -> SUBSET Nat]
  /\ contacts \subseteq ContactRequests /\ answers \subseteq OpenAnswers
  /\ list \in [People -> SUBSET Nat] /\ DOMAIN listQuery = People
  /\ selected \in [People -> Nat] /\ chosen \in [People -> Choices]

\* A conversation has its key for itself; who asks for one asks for themselves.
KeysOnce == \A c, d \in DOMAIN rows : rows[c].key = rows[d].key => c = d
ContactsSafe == \A r \in contacts : r.target \in Targets(r.who)

AnswerSafe(a) ==
  /\ a.conversation \in DOMAIN rows /\ a.who \in rows[a.conversation].parties
  /\ a.with = rows[a.conversation].parties
AnswersSafe == \A a \in answers : AnswerSafe(a)

\* A list that comes has what the present one has, unless it is given up.
QuerySafe(p) ==
  \/ listQuery[p] = NotListing
  \/ listQuery[p] = <<"asked">>
  \/ \E items \in SUBSET Nat : listQuery[p] = <<"read", items>> /\ list[p] \subseteq items /\ items \subseteq Seen(p)
ChoiceSafe(p) ==
  chosen[p] # Nothing =>
    /\ chosen[p].conversation \in list[p] /\ selected[p] = chosen[p].conversation
    /\ rows[chosen[p].conversation].parties = chosen[p].with
ListSafe(p) == list[p] \subseteq Seen(p) /\ QuerySafe(p) /\ ChoiceSafe(p)
ListsSafe == \A p \in People : ListSafe(p)

ConversationInv == ConversationTypes /\ KeysOnce /\ ContactsSafe /\ AnswersSafe /\ ListsSafe

USE DEF conversationVars, apiVars, desktopListVars

-----------------------------------------------------------------------------
(* Between the same people and agents, in the same relay: the same key.     *)

LEMMA TargetKinds ==
  ASSUME NEW p \in People, NEW target \in Targets(p)
  PROVE  \/ \E q \in People \ {p} : target = <<"human", q>>
         \/ \E a \in Assistants : target = <<"agent", a>>
         \/ \E a, b \in Assistants, n \in TurnLimits : a # b /\ target = <<"agent_pair", a, b, n>>
BY DEF Targets

LEMMA Triple == ASSUME NEW x, NEW p, NEW q PROVE <<x, p>> \o Tail(<<x, q>>) = <<x, p, q>>
<1> DEFINE S == {x, p, q}
           t == <<x, p>> \o <<q>>
<1>1. Tail(<<x, q>>) = <<q>>
  OBVIOUS
<1>2. <<x, p>> \in Seq(S) /\ <<q>> \in Seq(S) /\ <<x, p, q>> \in Seq(S)
  OBVIOUS
<1>3. /\ t \in Seq(S) /\ Len(t) = 3 /\ Len(<<x, p, q>>) = 3
      /\ t[1] = x /\ t[2] = p /\ t[3] = q
  BY <1>2
<1>4. \A i \in 1 .. Len(t) : t[i] = <<x, p, q>>[i]
  BY <1>3
<1> HIDE DEF S, t
<1>5. t = <<x, p, q>>
  BY <1>2, <1>3, <1>4, SeqEqual
<1> QED BY <1>1, <1>5 DEF t

LEMMA HumanKey ==
  ASSUME NEW p \in People, NEW q \in People
  PROVE  DirectKey(p, <<"human", q>>) = IF q < p THEN <<"human", q, p>> ELSE <<"human", p, q>>
BY Triple DEF DirectKey

LEMMA HumanParties == ASSUME NEW p, NEW q PROVE Parties(p, <<"human", q>>) = {p, q}
BY DEF Parties, Others
LEMMA AgentParties == ASSUME NEW p, NEW a PROVE Parties(p, <<"agent", a>>) = {p, a}
BY DEF Parties, Others
LEMMA PairParties == ASSUME NEW p, NEW a, NEW b, NEW n PROVE Parties(p, <<"agent_pair", a, b, n>>) = {p, a, b}
BY DEF Parties, Others

LEMMA RelayOf ==
  ASSUME NEW a, NEW b, NEW n
  PROVE  Relay(<<"agent_pair", a, b, n>>) = <<a, b, n>>
BY DEF Relay

LEMMA PartiesDecide ==
  ASSUME NEW p \in People, NEW t \in Targets(p), NEW q \in People, NEW u \in Targets(q),
         Parties(p, t) = Parties(q, u), Relay(t) = Relay(u)
  PROVE  DirectKey(p, t) = DirectKey(q, u)
<1> People \cap Assistants = {} /\ People \subseteq Nat
  BY ConversationAssumption
<1>1. CASE \E x \in People \ {p} : t = <<"human", x>>
  <2>1. PICK x \in People \ {p} : t = <<"human", x>>
    BY <1>1
  <2>2. Parties(p, t) \cap Assistants = {}
    BY <2>1, HumanParties, AgentParties, PairParties
  <2>3. PICK y \in People \ {q} : u = <<"human", y>>
    BY <2>2, TargetKinds, HumanParties, AgentParties, PairParties
  <2>4. {p, x} = {q, y}
    BY <2>1, <2>3, HumanParties, AgentParties, PairParties
  <2>5. (p = q /\ x = y) \/ (p = y /\ x = q)
    BY <2>1, <2>3, <2>4
  <2>6. DirectKey(p, t) = IF x < p THEN <<"human", x, p>> ELSE <<"human", p, x>>
    BY <2>1, HumanKey
  <2>7. DirectKey(q, u) = IF y < q THEN <<"human", y, q>> ELSE <<"human", q, y>>
    BY <2>3, HumanKey
  <2>8. p \in Nat /\ x \in Nat /\ p # x
    BY <2>1
  <2> QED BY <2>5, <2>6, <2>7, <2>8
<1>2. CASE \E a \in Assistants : t = <<"agent", a>>
  <2>1. PICK a \in Assistants : t = <<"agent", a>>
    BY <1>2
  <2>2. Parties(p, t) = {p, a}
    BY <2>1, HumanParties, AgentParties, PairParties
  <2>3. PICK b \in Assistants : u = <<"agent", b>>
    <3>1. ASSUME NEW y \in People, u = <<"human", y>> PROVE FALSE
      <4>1. {p, a} = {q, y}
        BY <2>2, <3>1, HumanParties, AgentParties, PairParties
      <4> QED BY <2>1, <4>1
    <3>2. ASSUME NEW b \in Assistants, NEW c \in Assistants, NEW n, b # c, u = <<"agent_pair", b, c, n>> PROVE FALSE
      <4>1. {p, a} = {q, b, c}
        <5>1. Parties(q, u) = {q, b, c}
          BY <3>2, PairParties
        <5> QED BY <2>2, <5>1
      <4> QED BY <2>1, <3>2, <4>1
    <3> QED BY <3>1, <3>2, TargetKinds
  <2>4. {p, a} = {q, b}
    BY <2>2, <2>3, HumanParties, AgentParties, PairParties
  <2>5. p = q /\ a = b
    BY <2>1, <2>3, <2>4
  <2> QED BY <2>1, <2>3, <2>5
<1>3. CASE \E a, b \in Assistants, n \in TurnLimits : a # b /\ t = <<"agent_pair", a, b, n>>
  <2>1. PICK a, b \in Assistants, n \in TurnLimits : a # b /\ t = <<"agent_pair", a, b, n>>
    BY <1>3
  <2>2. Parties(p, t) = {p, a, b}
    BY <2>1, HumanParties, AgentParties, PairParties
  <2>3. PICK c, d \in Assistants, m \in TurnLimits : u = <<"agent_pair", c, d, m>>
    <3>1. ASSUME NEW y \in Everybody, Parties(q, u) = {q, y} PROVE FALSE
      BY <2>1, <2>2, <3>1
    <3>2. ASSUME NEW y \in People, u = <<"human", y>> PROVE FALSE
      BY <3>1, <3>2, HumanParties DEF Everybody
    <3>3. ASSUME NEW y \in Assistants, u = <<"agent", y>> PROVE FALSE
      BY <3>1, <3>3, AgentParties DEF Everybody
    <3> QED BY <3>2, <3>3, TargetKinds
  <2>4. {p, a, b} = {q, c, d}
    <3>1. Parties(q, u) = {q, c, d}
      BY <2>3, PairParties
    <3> QED BY <2>2, <3>1
  <2>5. p = q
    BY <2>1, <2>3, <2>4
  <2>6. <<a, b, n>> = <<c, d, m>>
    BY <2>1, <2>3, RelayOf
  <2>7. a = c /\ b = d /\ n = m
    BY <2>6
  <2> QED BY <2>1, <2>3, <2>5, <2>7
<1> QED BY <1>1, <1>2, <1>3, TargetKinds

LEMMA SamePartiesSameKey ==
  ASSUME NEW r \in ConversationRows, NEW s \in ConversationRows, r.parties = s.parties, r.relay = s.relay
  PROVE  r.key = s.key
<1>1. PICK p \in People : \E t \in Targets(p) : r = RowOf(p, t)
  BY DEF ConversationRows
<1>2. PICK t \in Targets(p) : r = RowOf(p, t)
  BY <1>1
<1>3. PICK q \in People : \E u \in Targets(q) : s = RowOf(q, u)
  BY DEF ConversationRows
<1>4. PICK u \in Targets(q) : s = RowOf(q, u)
  BY <1>3
<1> QED BY <1>2, <1>4, PartiesDecide DEF RowOf

LEMMA ConversationsStart == ConversationInit => ConversationInv
<1> SUFFICES ASSUME ConversationInit PROVE ConversationInv
  OBVIOUS
<1>1. ConversationTypes
  <2>1. Nothing \in Choices
    BY DEF Nothing, Choices, None
  <2> QED BY <2>1 DEF ConversationInit, ConversationTypes, None
<1>2. KeysOnce /\ ContactsSafe /\ AnswersSafe
  BY DEF ConversationInit, KeysOnce, ContactsSafe, AnswersSafe
<1>3. ListsSafe
  BY DEF ConversationInit, ListsSafe, ListSafe, QuerySafe, ChoiceSafe
<1> QED BY <1>1, <1>2, <1>3 DEF ConversationInv

-----------------------------------------------------------------------------
(* The steps.                                                              *)

LEMMA SeenStays ==
  ASSUME ConversationTypes, NEW p \in People,
         rows' = rows \/ \E r \in ConversationRows : rows' = Append(rows, r)
  PROVE  /\ Seen(p) \subseteq Seen(p)'
         /\ \A c \in DOMAIN rows : c \in DOMAIN rows' /\ rows'[c] = rows[c]
         /\ Seen(p) \subseteq DOMAIN rows /\ DOMAIN rows \subseteq Nat
<1>1. rows \in Seq(ConversationRows)
  BY DEF ConversationTypes
<1>2. ASSUME NEW r \in ConversationRows, rows' = Append(rows, r)
      PROVE  \A c \in DOMAIN rows : c \in DOMAIN rows' /\ rows'[c] = rows[c]
  BY <1>1, <1>2
<1>3. \A c \in DOMAIN rows : c \in DOMAIN rows' /\ rows'[c] = rows[c]
  BY <1>2
<1>4. DOMAIN rows \subseteq Nat
  BY <1>1
<1> QED BY <1>3, <1>4 DEF Seen

\* Somebody's list, and what they have chosen, are as before.
LEMMA ListStays ==
  ASSUME ConversationInv, NEW p \in People,
         rows' = rows \/ \E r \in ConversationRows : rows' = Append(rows, r),
         list'[p] = list[p], selected'[p] = selected[p], chosen'[p] = chosen[p],
         listQuery'[p] \in {listQuery[p], <<>>, <<"asked">>}
  PROVE  ListSafe(p)'
<1>1. ListSafe(p) /\ ConversationTypes
  BY DEF ConversationInv, ListsSafe
<1>2. /\ Seen(p) \subseteq Seen(p)' /\ Seen(p) \subseteq DOMAIN rows
      /\ \A c \in DOMAIN rows : c \in DOMAIN rows' /\ rows'[c] = rows[c]
  BY <1>1, SeenStays
<1>3. (list[p] \subseteq Seen(p))'
  BY <1>1, <1>2 DEF ListSafe
<1>4. QuerySafe(p)'
  <2>1. CASE listQuery'[p] = listQuery[p]
    <3>1. ASSUME NEW items \in SUBSET Nat, items \subseteq Seen(p) PROVE items \subseteq Seen(p)'
      BY <1>2, <3>1
    <3> QED BY <1>1, <2>1, <3>1 DEF ListSafe, QuerySafe
  <2>2. CASE listQuery'[p] \in {<<>>, <<"asked">>}
    BY <2>2 DEF QuerySafe, NotListing
  <2> QED BY <2>1, <2>2
<1>5. ChoiceSafe(p)'
  BY <1>1, <1>2 DEF ListSafe, ChoiceSafe
<1> QED BY <1>3, <1>4, <1>5 DEF ListSafe

LEMMA ContactStep ==
  ASSUME ConversationInv, NEW p \in People, NEW target \in Targets(p), Contact(p, target)
  PROVE  ConversationInv'
<1> USE DEF ConversationInv
<1>1. /\ clicks' = [clicks EXCEPT ![p] = @ + 1]
      /\ underWay' = [underWay EXCEPT ![p] = @ \cup {clicks[p] + 1}]
      /\ contacts' = contacts \cup {[who |-> p, number |-> clicks[p] + 1, target |-> target, checked |-> FALSE]}
      /\ UNCHANGED <<apiVars, answers, listQuery, list, selected, chosen>>
  BY DEF Contact
<1>2. clicks[p] + 1 \in Nat
  BY DEF ConversationTypes
<1>3. contacts' \subseteq ContactRequests
  <2>1. target \in UNION {Targets(q) : q \in People}
    OBVIOUS
  <2>2. [who |-> p, number |-> clicks[p] + 1, target |-> target, checked |-> FALSE] \in ContactRequests
    BY <1>2, <2>1 DEF ContactRequests
  <2> QED BY <1>1, <2>2 DEF ConversationTypes
<1>4. clicks' \in [People -> Nat] /\ underWay' \in [People -> SUBSET Nat]
  BY <1>1, <1>2 DEF ConversationTypes
<1>5. ConversationTypes'
  BY <1>1, <1>3, <1>4 DEF ConversationTypes
<1>6. ContactsSafe'
  BY <1>1 DEF ContactsSafe
<1>7. KeysOnce' /\ AnswersSafe'
  BY <1>1 DEF KeysOnce, AnswersSafe, AnswerSafe
<1>8. ListsSafe'
  BY <1>1, ListStays DEF ListsSafe
<1> QED BY <1>5, <1>6, <1>7, <1>8

LEMMA ContactEnds ==
  ASSUME ConversationInv, NEW p \in People, NEW number \in underWay[p], ContactFails(p, number)
  PROVE  ConversationInv'
<1> USE DEF ConversationInv
<1>1. /\ underWay' = [underWay EXCEPT ![p] = @ \ {number}] /\ answers' \subseteq answers
      /\ UNCHANGED <<apiVars, contacts, clicks, listQuery, list, selected, chosen>>
  BY DEF ContactFails
<1>2. ConversationTypes'
  BY <1>1 DEF ConversationTypes
<1>3. KeysOnce' /\ ContactsSafe' /\ AnswersSafe'
  BY <1>1 DEF KeysOnce, ContactsSafe, AnswersSafe, AnswerSafe
<1>4. ListsSafe'
  BY <1>1, ListStays DEF ListsSafe
<1> QED BY <1>2, <1>3, <1>4

LEMMA SucceedsStep ==
  ASSUME ConversationInv, NEW a \in answers, ContactSucceeds(a)
  PROVE  ConversationInv'
<1> USE DEF ConversationInv
<1> DEFINE b == [a EXCEPT !.awaits = TRUE]
<1>1. /\ answers' = (answers \ {a}) \cup {b} /\ listQuery' = [listQuery EXCEPT ![a.who] = NotListing]
      /\ UNCHANGED <<apiVars, contacts, clicks, underWay, list, selected, chosen>>
  BY DEF ContactSucceeds
<1>2. a \in OpenAnswers /\ AnswerSafe(a)
  BY DEF ConversationTypes, AnswersSafe
<1>3. b \in OpenAnswers /\ b.who = a.who /\ b.conversation = a.conversation /\ b.with = a.with
  BY <1>2 DEF OpenAnswers
<1> HIDE DEF b
<1>4. ConversationTypes'
  <2>1. DOMAIN listQuery' = People
    BY <1>1 DEF ConversationTypes
  <2>2. answers' \subseteq OpenAnswers
    BY <1>1, <1>3 DEF ConversationTypes
  <2> QED BY <1>1, <2>1, <2>2 DEF ConversationTypes
<1>5. AnswersSafe'
  BY <1>1, <1>2, <1>3 DEF AnswersSafe, AnswerSafe
<1>6. KeysOnce' /\ ContactsSafe'
  BY <1>1 DEF KeysOnce, ContactsSafe
<1>7. \A p \in People : listQuery'[p] \in {listQuery[p], <<>>, <<"asked">>}
  BY <1>1 DEF ConversationTypes, NotListing
<1>8. ListsSafe'
  BY <1>1, <1>7, ListStays DEF ListsSafe
<1> QED BY <1>4, <1>5, <1>6, <1>8

\* What is shown is in the list from now on; a list under way is given up.
LEMMA ShowStep ==
  ASSUME ConversationInv, NEW a \in answers, ShowOpened(a)
  PROVE  ConversationInv'
<1> USE DEF ConversationInv
<1>0. a \in OpenAnswers /\ AnswerSafe(a)
  BY DEF ConversationTypes, AnswersSafe
<1> PICK p \in People : p = a.who
  BY <1>0 DEF OpenAnswers
<1>1. /\ answers' = answers \ {a} /\ underWay' = [underWay EXCEPT ![p] = @ \ {a.number}]
      /\ list' = [list EXCEPT ![p] = @ \cup {a.conversation}]
      /\ listQuery' = [listQuery EXCEPT ![p] = <<"asked">>]
      /\ \/ /\ selected' = [selected EXCEPT ![p] = a.conversation]
            /\ chosen' = [chosen EXCEPT ![p] = [conversation |-> a.conversation, with |-> a.with]]
         \/ UNCHANGED <<selected, chosen>>
      /\ UNCHANGED <<apiVars, contacts, clicks>>
  BY DEF ShowOpened
<1>2. a.conversation \in Nat /\ a.with \in SUBSET Everybody /\ a.conversation \in Seen(p)
  BY <1>0 DEF OpenAnswers, AnswerSafe, Seen
<1>3. [conversation |-> a.conversation, with |-> a.with] \in Choices
  BY <1>2 DEF Choices
<1>4. ConversationTypes'
  <2>1. answers' \subseteq OpenAnswers /\ underWay' \in [People -> SUBSET Nat]
    BY <1>1 DEF ConversationTypes
  <2>2. list' \in [People -> SUBSET Nat] /\ DOMAIN listQuery' = People
    BY <1>1, <1>2 DEF ConversationTypes
  <2>3. selected' \in [People -> Nat] /\ chosen' \in [People -> Choices]
    <3>1. selected \in [People -> Nat] /\ chosen \in [People -> Choices]
      BY DEF ConversationTypes
    <3> QED BY <1>1, <1>2, <1>3, <3>1
  <2> QED BY <1>1, <2>1, <2>2, <2>3 DEF ConversationTypes
<1>5. AnswersSafe' /\ KeysOnce' /\ ContactsSafe'
  BY <1>1 DEF AnswersSafe, AnswerSafe, KeysOnce, ContactsSafe
<1>6. ASSUME NEW q \in People, q # p PROVE ListSafe(q)'
  <2>1. list'[q] = list[q] /\ selected'[q] = selected[q] /\ chosen'[q] = chosen[q] /\ listQuery'[q] = listQuery[q]
    BY <1>1, <1>6 DEF ConversationTypes
  <2> QED BY <1>1, <2>1, ListStays
<1>7. ListSafe(p)'
  <2>1. ListSafe(p)
    BY DEF ListsSafe
  <2>2. list'[p] = list[p] \cup {a.conversation} /\ listQuery'[p] = <<"asked">> /\ Seen(p)' = Seen(p)
    BY <1>1 DEF ConversationTypes, Seen
  <2>3. \/ selected'[p] = selected[p] /\ chosen'[p] = chosen[p]
        \/ /\ selected'[p] = a.conversation
           /\ chosen'[p] = [conversation |-> a.conversation, with |-> a.with]
    BY <1>1 DEF ConversationTypes
  <2>4. ChoiceSafe(p)'
    BY <1>0, <1>1, <2>1, <2>2, <2>3 DEF ListSafe, ChoiceSafe, AnswerSafe
  <2> QED BY <1>2, <2>1, <2>2, <2>4 DEF ListSafe, QuerySafe
<1> QED BY <1>4, <1>5, <1>6, <1>7 DEF ListsSafe

LEMMA SelectStep ==
  ASSUME ConversationInv, NEW p \in People, NEW c \in list[p], Select(p, c)
  PROVE  ConversationInv'
<1> USE DEF ConversationInv
<1>1. /\ selected' = [selected EXCEPT ![p] = c]
      /\ chosen' = [chosen EXCEPT ![p] = [conversation |-> c, with |-> rows[c].parties]]
      /\ UNCHANGED <<apiVars, contacts, answers, clicks, underWay, listQuery, list>>
  BY DEF Select
<1>2. c \in Seen(p) /\ c \in Nat
  BY DEF ListsSafe, ListSafe, ConversationTypes
<1>3. rows[c].parties \in SUBSET Everybody
  <2>1. rows[c] \in ConversationRows
    BY <1>2 DEF ConversationTypes, Seen
  <2>2. PICK q \in People : \E t \in Targets(q) : rows[c] = RowOf(q, t)
    BY <2>1 DEF ConversationRows
  <2>3. PICK t \in Targets(q) : rows[c] = RowOf(q, t)
    BY <2>2
  <2>4. Parties(q, t) \subseteq Everybody
    BY TargetKinds, HumanParties, AgentParties, PairParties DEF Everybody
  <2> QED BY <2>3, <2>4 DEF RowOf
<1>4. ConversationTypes'
  <2>1. [conversation |-> c, with |-> rows[c].parties] \in Choices
    BY <1>2, <1>3 DEF Choices
  <2> QED BY <1>1, <1>2, <2>1 DEF ConversationTypes
<1>5. AnswersSafe' /\ KeysOnce' /\ ContactsSafe'
  BY <1>1 DEF AnswersSafe, AnswerSafe, KeysOnce, ContactsSafe
<1>6. ASSUME NEW q \in People, q # p PROVE ListSafe(q)'
  <2>1. selected'[q] = selected[q] /\ chosen'[q] = chosen[q]
    BY <1>1, <1>6 DEF ConversationTypes
  <2> QED BY <1>1, <2>1, ListStays
<1>7. ListSafe(p)'
  BY <1>1 DEF ListsSafe, ListSafe, QuerySafe, ChoiceSafe, Seen, ConversationTypes
<1> QED BY <1>4, <1>5, <1>6, <1>7 DEF ListsSafe

LEMMA CheckStep ==
  ASSUME ConversationInv, NEW r \in contacts, CheckTarget(r)
  PROVE  ConversationInv'
<1> USE DEF ConversationInv
<1>1. /\ contacts' \subseteq (contacts \ {r}) \cup {[r EXCEPT !.checked = TRUE]}
      /\ UNCHANGED <<apiVars, answers, desktopListVars>>
  BY DEF CheckTarget
<1>2. r \in ContactRequests /\ r.target \in Targets(r.who)
  BY DEF ConversationTypes, ContactsSafe
<1> DEFINE q == [r EXCEPT !.checked = TRUE]
<1>3. q \in ContactRequests /\ q.target = r.target /\ q.who = r.who
  BY <1>2 DEF ContactRequests
<1> HIDE DEF q
<1>4. contacts' \subseteq (contacts \ {r}) \cup {q}
  BY <1>1 DEF q
<1>5. ConversationTypes'
  BY <1>1, <1>3, <1>4 DEF ConversationTypes
<1>6. ContactsSafe'
  BY <1>2, <1>3, <1>4 DEF ContactsSafe
<1>7. KeysOnce' /\ AnswersSafe'
  BY <1>1 DEF KeysOnce, AnswersSafe, AnswerSafe
<1>8. ListsSafe'
  BY <1>1, ListStays DEF ListsSafe
<1> QED BY <1>5, <1>6, <1>7, <1>8

\* The row there is, as expected, or a new one; and its answer.
LEMMA CreateStep ==
  ASSUME ConversationInv, NEW r \in contacts, CreateDirect(r)
  PROVE  ConversationInv'
<1> USE DEF ConversationInv
<1>1. /\ contacts' = contacts \ {r} /\ UNCHANGED <<available, desktopListVars>>
  BY DEF CreateDirect
<1>2. /\ r.who \in People /\ r.number \in Nat /\ r.target \in Targets(r.who)
      /\ rows \in Seq(ConversationRows)
  BY DEF ConversationTypes, ContactRequests, ContactsSafe
<1> DEFINE row == [key |-> DirectKey(r.who, r.target), parties |-> Parties(r.who, r.target), relay |-> Relay(r.target)]
<1>3. /\ row \in ConversationRows /\ row.parties = Parties(r.who, r.target)
      /\ row.key = DirectKey(r.who, r.target)
  BY <1>2 DEF ConversationRows, RowOf
<1>4. Parties(r.who, r.target) \in SUBSET Everybody /\ r.who \in Parties(r.who, r.target)
  <2>1. Parties(r.who, r.target) \subseteq Everybody
    BY <1>2, TargetKinds, HumanParties, AgentParties, PairParties DEF Everybody
  <2> QED BY <2>1 DEF Parties
<1> HIDE DEF row
<1>5. \/ rows' = rows /\ (answers' = answers \/ \E c \in DOMAIN rows : AsExpected(rows[c], r) /\ Answer(r, c))
      \/ /\ rows' = Append(rows, row) /\ Answer(r, Len(rows) + 1)
         /\ \A c \in DOMAIN rows : rows[c].key # DirectKey(r.who, r.target)
  BY DEF CreateDirect, row
<1>6. /\ rows' \in Seq(ConversationRows)
      /\ \A c \in DOMAIN rows : c \in DOMAIN rows' /\ rows'[c] = rows[c]
      /\ rows' = rows \/ \E x \in ConversationRows : rows' = Append(rows, x)
  <2>1. rows' = rows \/ \E x \in ConversationRows : rows' = Append(rows, x)
    BY <1>3, <1>5
  <2>2. rows' \in Seq(ConversationRows)
    BY <1>2, <2>1
  <2>3. \A c \in DOMAIN rows : c \in DOMAIN rows' /\ rows'[c] = rows[c]
    BY <1>2, <2>1
  <2> QED BY <2>1, <2>2, <2>3
<1>7. answers' = answers \/ \E c \in DOMAIN rows' : rows'[c].parties = Parties(r.who, r.target) /\ Answer(r, c)
  <2>1. CASE rows' = rows
    BY <1>5, <2>1, <1>2 DEF AsExpected
  <2>2. CASE rows' = Append(rows, row) /\ Answer(r, Len(rows) + 1)
    <3>1. Len(rows) + 1 \in DOMAIN rows' /\ rows'[Len(rows) + 1] = row
      BY <1>2, <1>3, <2>2
    <3> QED BY <1>3, <2>2, <3>1
  <2> QED BY <1>5, <2>1, <2>2
<1>8. answers' \subseteq OpenAnswers /\ AnswersSafe'
  <2> SUFFICES ASSUME NEW a \in answers' PROVE a \in OpenAnswers /\ AnswerSafe(a)'
    BY DEF AnswersSafe
  <2>1. CASE a \in answers
    BY <1>6, <2>1 DEF ConversationTypes, AnswersSafe, AnswerSafe
  <2>2. CASE a \notin answers
    <3>1. PICK c \in DOMAIN rows' : rows'[c].parties = Parties(r.who, r.target) /\ Answer(r, c)
      BY <1>7, <2>2
    <3>2. a = [who |-> r.who, number |-> r.number, conversation |-> c, with |-> Parties(r.who, r.target), awaits |-> FALSE]
      BY <2>2, <3>1 DEF Answer
    <3>3. c \in Nat
      BY <1>6, <3>1
    <3>4. a \in OpenAnswers
      BY <1>2, <1>4, <3>2, <3>3 DEF OpenAnswers
    <3> QED BY <1>4, <3>1, <3>2, <3>4 DEF AnswerSafe
  <2> QED BY <2>1, <2>2
<1>9. KeysOnce'
  <2>1. CASE rows' = rows
    BY <2>1 DEF KeysOnce
  <2>2. CASE rows' = Append(rows, row) /\ \A c \in DOMAIN rows : rows[c].key # DirectKey(r.who, r.target)
    <3>1. /\ \A c \in DOMAIN rows' : c \in DOMAIN rows \/ c = Len(rows) + 1
          /\ rows'[Len(rows) + 1] = row
      BY <1>2, <1>3, <2>2
    <3> QED BY <1>3, <1>6, <2>2, <3>1 DEF KeysOnce
  <2> QED BY <1>5, <2>1, <2>2
<1>10. ConversationTypes' /\ ContactsSafe'
  BY <1>1, <1>6, <1>8 DEF ConversationTypes, ContactsSafe
<1>11. ListsSafe'
  BY <1>1, <1>6, ListStays DEF ListsSafe
<1> QED BY <1>8, <1>9, <1>10, <1>11

LEMMA ListingStep ==
  ASSUME ConversationInv, NEW p \in People, ListStarts(p) \/ ListForUser(p) \/ ListReturns(p) \/ ListFails(p)
  PROVE  ConversationInv'
<1> USE DEF ConversationInv
<1>1. UNCHANGED <<apiVars, contacts, answers, clicks, underWay, chosen>>
  BY DEF ListStarts, ListForUser, ListReturns, ListFails
<1>2. AnswersSafe' /\ KeysOnce' /\ ContactsSafe'
  BY <1>1 DEF AnswersSafe, AnswerSafe, KeysOnce, ContactsSafe
<1>3. /\ DOMAIN listQuery' = People
      /\ \A q \in People \ {p} : listQuery'[q] = listQuery[q]
  BY DEF ListStarts, ListForUser, ListReturns, ListFails, ConversationTypes
<1>4. Seen(p) \in SUBSET Nat /\ Seen(p)' = Seen(p)
  BY <1>1, SeenStays DEF Seen
<1>5. CASE UNCHANGED <<list, selected>> /\ ~ListReturns(p)
  <2>1. ConversationTypes'
    BY <1>1, <1>3, <1>5 DEF ConversationTypes
  <2>2. listQuery'[p] \in {<<>>, <<"asked">>} \/ listQuery'[p] = <<"read", Seen(p)>>
    BY <1>5 DEF ListStarts, ListForUser, ListFails, ConversationTypes, NotListing
  <2>3. ListSafe(p)'
    <3>1. ListSafe(p)
      BY DEF ListsSafe
    <3>2. QuerySafe(p)'
      BY <1>4, <1>5, <2>2, <3>1 DEF ListSafe, QuerySafe, NotListing
    <3> QED BY <1>1, <1>4, <1>5, <3>1, <3>2 DEF ListSafe, ChoiceSafe
  <2>4. \A q \in People \ {p} : ListSafe(q)'
    BY <1>1, <1>3, <1>5, ListStays
  <2> QED BY <1>2, <2>1, <2>3, <2>4 DEF ListsSafe
<1>6. CASE ListReturns(p)
  <2>1. ListSafe(p) /\ Len(listQuery[p]) = 2
    BY <1>6 DEF ListsSafe, ListReturns
  <2>2. PICK items \in SUBSET Nat : listQuery[p] = <<"read", items>> /\ list[p] \subseteq items /\ items \subseteq Seen(p)
    <3>1. Len(<<>>) = 0 /\ Len(<<"asked">>) = 1
      OBVIOUS
    <3> QED BY <2>1, <3>1 DEF ListSafe, QuerySafe, NotListing
  <2>3. /\ list' = [list EXCEPT ![p] = items] /\ listQuery' = [listQuery EXCEPT ![p] = NotListing]
        /\ selected[p] \in items => selected' = selected
        /\ selected' = selected \/ \E c \in items \cup {None} : selected' = [selected EXCEPT ![p] = c]
    <3>1. listQuery[p][2] = items
      BY <2>2
    <3> QED BY <1>6, <3>1 DEF ListReturns
  <2>4. ConversationTypes'
    <3>1. list' \in [People -> SUBSET Nat]
      BY <2>3 DEF ConversationTypes
    <3>2. selected' \in [People -> Nat]
      BY <2>3 DEF ConversationTypes, None
    <3> QED BY <1>1, <1>3, <3>1, <3>2 DEF ConversationTypes
  <2>5. ListSafe(p)'
    <3>1. list'[p] = items /\ listQuery'[p] = NotListing
      BY <2>3 DEF ConversationTypes
    <3>2. ChoiceSafe(p)'
      BY <1>1, <2>1, <2>2, <2>3, <3>1 DEF ListSafe, ChoiceSafe
    <3> QED BY <1>4, <2>2, <3>1, <3>2 DEF ListSafe, QuerySafe
  <2>6. ASSUME NEW q \in People \ {p} PROVE ListSafe(q)'
    <3>1. list'[q] = list[q] /\ selected'[q] = selected[q]
      BY <2>3 DEF ConversationTypes
    <3> QED BY <1>1, <1>3, <3>1, ListStays
  <2> QED BY <1>2, <2>4, <2>5, <2>6 DEF ListsSafe
<1> QED BY <1>5, <1>6 DEF ListStarts, ListForUser, ListFails

LEMMA OtherSteps ==
  ASSUME ConversationInv, UNCHANGED <<rows, desktopListVars, contacts, answers>>
  PROVE  ConversationInv'
<1> USE DEF ConversationInv
<1>1. ConversationTypes' /\ KeysOnce' /\ ContactsSafe' /\ AnswersSafe'
  BY DEF ConversationTypes, KeysOnce, ContactsSafe, AnswersSafe, AnswerSafe
<1>2. ListsSafe'
  BY ListStays DEF ListsSafe
<1> QED BY <1>1, <1>2

(* Rows, answers, lists and choices fit together: a key has one row, an answer
   names the row of those meant, and a list under way has what is shown, unless it
   is given up (createDirect, the hooks' cancelQueries). *)
THEOREM ConversationsInvariant == ConversationSpec => []ConversationInv
<1>1. ConversationInv /\ [ConversationNext]_conversationVars => ConversationInv'
  <2> SUFFICES ASSUME ConversationInv, [ConversationNext]_conversationVars PROVE ConversationInv'
    OBVIOUS
  <2>1. ASSUME NEW p \in People,
               \/ \E target \in Targets(p) : Contact(p, target)
               \/ \E number \in underWay[p] : ContactFails(p, number)
               \/ \E c \in list[p] : Select(p, c)
               \/ ListStarts(p) \/ ListForUser(p) \/ ListReturns(p) \/ ListFails(p)
        PROVE  ConversationInv'
    BY <2>1, ContactStep, ContactEnds, SelectStep, ListingStep
  <2>2. CASE \E answer \in answers : ContactSucceeds(answer) \/ ShowOpened(answer)
    BY <2>2, SucceedsStep, ShowStep
  <2>3. CASE \E r \in contacts : CheckTarget(r) \/ CreateDirect(r)
    BY <2>3, CheckStep, CreateStep
  <2>4. CASE \E x \in People \cup Assistants : AvailabilityChanges(x)
    BY <2>4, OtherSteps DEF AvailabilityChanges
  <2>5. CASE UNCHANGED conversationVars
    BY <2>5, OtherSteps
  <2> QED BY <2>1, <2>2, <2>3, <2>4, <2>5 DEF ConversationNext
<1> QED BY ConversationsStart, <1>1, PTL DEF ConversationSpec

(* The conversation somebody has chosen is the one on the screen, is with those
   meant and the only one between them, in whatever order contacts are answered and
   lists arrive (onSuccess of the contact mutations). *)
THEOREM ChosenConversationIsShown == ConversationSpec => []ChosenIsShown
<1>1. ConversationInv => ChosenIsShown
  <2> SUFFICES ASSUME ConversationInv, NEW p \in People, chosen[p] # Nothing, NEW c, c = chosen[p].conversation
               PROVE  /\ selected[p] = c /\ rows[c].parties = chosen[p].with
                      /\ \A d \in DOMAIN rows : rows[d].parties = rows[c].parties /\ rows[d].relay = rows[c].relay => d = c
    BY DEF ChosenIsShown
  <2>1. ListSafe(p)
    BY DEF ConversationInv, ListsSafe
  <2>2. c \in DOMAIN rows /\ selected[p] = c /\ rows[c].parties = chosen[p].with
    BY <2>1 DEF ListSafe, ChoiceSafe, Seen
  <2>3. \A d \in DOMAIN rows : rows[d] \in ConversationRows
    BY DEF ConversationInv, ConversationTypes
  <2> QED BY <2>2, <2>3, SamePartiesSameKey DEF ConversationInv, KeysOnce
<1> QED BY ConversationsInvariant, <1>1, PTL

-----------------------------------------------------------------------------
(* The accounts of the desktop client.                                     *)

Kinds == {"put", "update", "activate", "remove"}
Mutations == [kind : Kinds, session : Devices, token : Nat, owner : Calls \cup {Nobody}]
Refresh == [at : {"none", "asked", "answered", "denied", "storing"}, token : Nat]
CallKinds == {"request", "change", "switch", "logout"}
CallPlaces == {"waiting", "sent", "ok", "denied", "storing", "stored", "delivered"}
Begun == [at : CallPlaces, kind : CallKinds, session : Devices, generation : Nat, token : Nat, again : BOOLEAN]

DeskTypes ==
  /\ issued \in [Devices -> Nat \cup {Gone}] /\ vault \in [Devices -> Nat] /\ accessOf \in [Devices -> Nat]
  /\ disk.tokens \in [Devices -> Nat] /\ generation \in Nat
  /\ mutationQueue \in Seq(Mutations) /\ written \in BOOLEAN /\ (written => mutationQueue # <<>>)
  /\ refreshing \in [Devices -> Refresh] /\ calls \in [Calls -> Begun \cup {NoCall}]

\* Somebody who has been interrupted asked before the last change of accounts.
ReplySafe(c) ==
  /\ calls[c].generation <= generation
  /\ calls[c].at \notin {"idle", "delivered"} /\ c \in interrupted => calls[c].generation < generation
  /\ calls[c].at = "delivered" => c \notin interrupted

RepliesSafe == \A c \in Calls : ReplySafe(c)

\* A call is of a session there has been, and a logout is the user's.
LogoutsKnown ==
  \A c \in Calls :
    /\ calls[c].kind = "logout" => calls[c].session \in signedOut
    /\ calls[c].at # "idle" => issued[calls[c].session] # NotYet

\* The reasons to forget an account.
Good(s) == s \notin signedOut /\ issued[s] # Gone /\ s \notin severed /\ persistentStorage

Mine(i, s) == mutationQueue[i].session = s /\ mutationQueue[i].kind # "activate"

\* While there is no reason, the stored token is the API's or is about to be
\* replaced by it, once; nothing removes the account; a password change stores
\* no newer token than there is.
QueueSafe(s) ==
  \A i \in 1 .. Len(mutationQueue) : Mine(i, s) =>
    /\ mutationQueue[i].kind # "remove"
    /\ mutationQueue[i].kind = "put" =>
         /\ vault[s] = Absent /\ mutationQueue[i].token = issued[s] /\ refreshing[s].at = "none"
         /\ \A j \in 1 .. Len(mutationQueue) : Mine(j, s) => j = i
    /\ mutationQueue[i].kind = "update" /\ mutationQueue[i].owner # Nobody =>
         mutationQueue[i].token > Absent /\ mutationQueue[i].token <= vault[s]
    /\ mutationQueue[i].kind = "update" /\ mutationQueue[i].owner = Nobody =>
         /\ mutationQueue[i].token = issued[s] /\ refreshing[s].at = "storing"
         /\ \A j \in 1 .. Len(mutationQueue) :
              Mine(j, s) /\ mutationQueue[j].kind = "update" /\ mutationQueue[j].owner = Nobody => j = i

RefreshSafe(s) ==
  /\ vault[s] <= issued[s]
  /\ refreshing[s].at = "none" => vault[s] \in {Absent, issued[s]}
  /\ refreshing[s].at = "asked" => refreshing[s].token = issued[s] /\ vault[s] = issued[s]
  /\ refreshing[s].at = "answered" => refreshing[s].token = issued[s]
  /\ refreshing[s].at # "denied"

NotYetSafe(s) ==
  issued[s] = NotYet =>
    vault[s] = Absent /\ refreshing[s].at = "none" /\ \A i \in 1 .. Len(mutationQueue) : ~Mine(i, s)

SessionSafe(s) == NotYetSafe(s) /\ (Good(s) => RefreshSafe(s) /\ QueueSafe(s))

\* The file is the memory's, or what it is about to be.
DiskSafe ==
  /\ persistentStorage => disk.tokens = IF written THEN Mutated(Head(mutationQueue)).tokens ELSE vault
  /\ ~persistentStorage => disk = Empty

AccountsSafe == \A s \in Devices : SessionSafe(s)

DesktopInv == DeskTypes /\ RepliesSafe /\ LogoutsKnown /\ AccountsSafe /\ DiskSafe

USE DEF desktopVars, storeVars

LEMMA DesktopStarts == DesktopInit => DesktopInv
<1> SUFFICES ASSUME DesktopInit PROVE DesktopInv
  OBVIOUS
<1>1. DeskTypes
  <2>1. NoRefresh \in Refresh
    BY DEF NoRefresh, Refresh, Absent
  <2>2. issued \in [Devices -> Nat \cup {Gone}] /\ vault \in [Devices -> Nat] /\ accessOf \in [Devices -> Nat]
    BY DEF DesktopInit, Empty, NotYet, Absent
  <2>3. disk.tokens \in [Devices -> Nat] /\ generation \in Nat
    BY DEF DesktopInit, Empty, Absent
  <2>4. mutationQueue \in Seq(Mutations) /\ written = FALSE
    BY DEF DesktopInit
  <2>5. refreshing \in [Devices -> Refresh] /\ calls \in [Calls -> Begun \cup {NoCall}]
    BY <2>1 DEF DesktopInit
  <2> QED BY <2>2, <2>3, <2>4, <2>5 DEF DeskTypes
<1>2. RepliesSafe /\ LogoutsKnown
  BY DEF DesktopInit, RepliesSafe, ReplySafe, LogoutsKnown, NoCall
<1>3. AccountsSafe /\ DiskSafe
  BY DEF DesktopInit, AccountsSafe, SessionSafe, NotYetSafe, RefreshSafe, QueueSafe, DiskSafe, Empty, NoRefresh,
         NotYet, Absent, Gone
<1> QED BY <1>1, <1>2, <1>3 DEF DesktopInv

-----------------------------------------------------------------------------
(* The replies.                                                            *)

\* A call goes on as the same call.
GoesOn(c) ==
  \/ calls'[c] = NoCall
  \/ calls'[c] = calls[c]
  \/ /\ calls[c].at \notin {"idle", "delivered"} /\ calls'[c].at \notin {"idle", "delivered"}
     /\ calls'[c].generation = calls[c].generation /\ calls'[c].kind = calls[c].kind
     /\ calls'[c].session = calls[c].session

LEMMA CallParts ==
  /\ NoCall.at = "idle" /\ NoCall.generation = 0 /\ NoCall.kind = "none"
  /\ \A x \in Begun : x.at \in CallPlaces /\ x.at # "idle" /\ x.generation \in Nat /\ x.session \in Devices
BY DEF NoCall, Begun, CallPlaces

LEMMA RepliesStay ==
  ASSUME DesktopInv, \A c \in Calls : GoesOn(c), generation' = generation, interrupted' = interrupted,
         signedOut \subseteq signedOut', \A s \in Devices : issued[s] # NotYet => issued'[s] # NotYet
  PROVE  RepliesSafe' /\ LogoutsKnown'
<1>1. ASSUME NEW c \in Calls PROVE ReplySafe(c)'
  <2>1. generation \in Nat /\ ReplySafe(c) /\ GoesOn(c)
    BY DEF DesktopInv, RepliesSafe, DeskTypes
  <2>2. CASE calls'[c] = NoCall
    BY <2>1, <2>2, CallParts DEF ReplySafe
  <2>3. CASE calls'[c] # NoCall
    BY <2>1, <2>3 DEF ReplySafe, GoesOn
  <2> QED BY <2>2, <2>3
<1>2. ASSUME NEW c \in Calls
      PROVE  /\ calls'[c].kind = "logout" => calls'[c].session \in signedOut'
             /\ calls'[c].at # "idle" => issued'[calls'[c].session] # NotYet
  <2>1. /\ calls[c].kind = "logout" => calls[c].session \in signedOut
        /\ calls[c].at # "idle" => issued[calls[c].session] # NotYet /\ calls[c].session \in Devices
    BY CallParts DEF DesktopInv, LogoutsKnown, DeskTypes
  <2> QED BY <2>1, CallParts DEF GoesOn
<1> QED BY <1>1, <1>2 DEF RepliesSafe, LogoutsKnown

\* Calls that waited for a refresh, and those that a mutation ends.
LEMMA WaitingGoOn ==
  ASSUME DesktopInv, NEW s \in Devices, NEW token \in Nat,
         calls' = Resumed(s, token) \/ calls' = Abandoned(s)
  PROVE  calls' \in [Calls -> Begun \cup {NoCall}] /\ \A c \in Calls : GoesOn(c)
<1> SUFFICES ASSUME NEW c \in Calls PROVE calls'[c] \in Begun \cup {NoCall} /\ GoesOn(c)
  BY DEF Resumed, Abandoned
<1>1. calls[c] \in Begun \cup {NoCall}
  BY DEF DesktopInv, DeskTypes
<1>2. CASE calls[c].at # "waiting" \/ calls[c].session # s
  BY <1>1, <1>2 DEF Resumed, Abandoned, GoesOn
<1>3. CASE calls[c].at = "waiting" /\ calls[c].session = s
  <2>1. calls[c] \in Begun
    BY <1>1, <1>3, CallParts
  <2>2. calls'[c] \in {NoCall, [calls[c] EXCEPT !.at = "storing"], [calls[c] EXCEPT !.at = "sent", !.token = token],
                      [calls[c] EXCEPT !.at = "denied", !.again = TRUE]}
    BY <1>3 DEF Resumed, Abandoned, WithToken
  <2> QED BY <1>3, <2>1, <2>2 DEF Begun, CallPlaces, GoesOn
<1> QED BY <1>2, <1>3

LEMMA FinishedGoOn ==
  ASSUME DesktopInv, NEW m, calls' = Finished(m)
  PROVE  calls' \in [Calls -> Begun \cup {NoCall}] /\ \A c \in Calls : GoesOn(c)
BY DEF DesktopInv, DeskTypes, Finished, GoesOn

-----------------------------------------------------------------------------
(* The accounts.                                                           *)

LEMMA NothingForgotten ==
  ASSUME NEW s \in Devices, SessionSafe(s), issued'[s] = issued[s], vault'[s] = vault[s],
         refreshing'[s] = refreshing[s], UNCHANGED <<mutationQueue, persistentStorage>>,
         s \in signedOut => s \in signedOut', s \in severed => s \in severed'
  PROVE  SessionSafe(s)'
BY DEF SessionSafe, NotYetSafe, Good, RefreshSafe, QueueSafe, Mine

\* A mutation that does not concern s is put into the queue, or leaves it.
LEMMA OthersQueue ==
  ASSUME DeskTypes, NEW s \in Devices, SessionSafe(s), issued'[s] = issued[s], vault'[s] = vault[s],
         refreshing'[s] = refreshing[s], UNCHANGED persistentStorage,
         s \in signedOut => s \in signedOut', s \in severed => s \in severed',
         NEW m \in Mutations, mutationQueue' = Append(mutationQueue, m), m.session = s => m.kind = "activate"
  PROVE  SessionSafe(s)'
<1>1. /\ Len(mutationQueue') = Len(mutationQueue) + 1 /\ mutationQueue'[Len(mutationQueue) + 1] = m
      /\ \A i \in 1 .. Len(mutationQueue) : mutationQueue'[i] = mutationQueue[i]
      /\ Len(mutationQueue) \in Nat
  BY DEF DeskTypes
<1>2. \A i \in 1 .. Len(mutationQueue') : Mine(i, s)' => i \in 1 .. Len(mutationQueue) /\ Mine(i, s)
  BY <1>1 DEF Mine
<1>3. NotYetSafe(s)'
  BY <1>2 DEF SessionSafe, NotYetSafe
<1>4. Good(s)' => Good(s)
  BY DEF Good
<1>5. RefreshSafe(s) => RefreshSafe(s)'
  BY DEF RefreshSafe
<1>6. QueueSafe(s) => QueueSafe(s)'
  BY <1>1, <1>2 DEF QueueSafe
<1> QED BY <1>3, <1>4, <1>5, <1>6 DEF SessionSafe

LEMMA OthersLeave ==
  ASSUME DeskTypes, NEW s \in Devices, SessionSafe(s), issued'[s] = issued[s], vault'[s] = vault[s],
         refreshing'[s] = refreshing[s], UNCHANGED persistentStorage,
         s \in signedOut => s \in signedOut', s \in severed => s \in severed',
         mutationQueue # <<>>, mutationQueue' = Tail(mutationQueue)
  PROVE  SessionSafe(s)'
<1>1. /\ Len(mutationQueue') = Len(mutationQueue) - 1 /\ Len(mutationQueue) \in Nat
      /\ \A i \in 1 .. Len(mutationQueue') : i + 1 \in 1 .. Len(mutationQueue) /\ mutationQueue'[i] = mutationQueue[i + 1]
  BY DEF DeskTypes
<1>2. \A i \in 1 .. Len(mutationQueue') : Mine(i, s)' => Mine(i + 1, s)
  BY <1>1 DEF Mine
<1>3. NotYetSafe(s)'
  BY <1>1, <1>2 DEF SessionSafe, NotYetSafe
<1>4. Good(s)' => Good(s)
  BY DEF Good
<1>5. RefreshSafe(s) => RefreshSafe(s)'
  BY DEF RefreshSafe
<1>6. ASSUME QueueSafe(s) PROVE QueueSafe(s)'
  <2> SUFFICES ASSUME NEW i \in 1 .. Len(mutationQueue'), Mine(i, s)'
               PROVE  /\ mutationQueue'[i].kind # "remove"
                      /\ mutationQueue'[i].kind = "put" =>
                           /\ vault[s] = Absent /\ mutationQueue'[i].token = issued[s] /\ refreshing[s].at = "none"
                           /\ \A j \in 1 .. Len(mutationQueue') : Mine(j, s)' => j = i
                      /\ mutationQueue'[i].kind = "update" /\ mutationQueue'[i].owner # Nobody =>
                           mutationQueue'[i].token > Absent /\ mutationQueue'[i].token <= vault[s]
                      /\ mutationQueue'[i].kind = "update" /\ mutationQueue'[i].owner = Nobody =>
                           /\ mutationQueue'[i].token = issued[s] /\ refreshing[s].at = "storing"
                           /\ \A j \in 1 .. Len(mutationQueue') :
                                Mine(j, s)' /\ mutationQueue'[j].kind = "update" /\ mutationQueue'[j].owner = Nobody => j = i
    BY DEF QueueSafe
  <2>1. i + 1 \in 1 .. Len(mutationQueue) /\ Mine(i + 1, s) /\ mutationQueue'[i] = mutationQueue[i + 1]
    BY <1>1, <1>2
  <2>2. \A j \in 1 .. Len(mutationQueue') : Mine(j, s)' =>
          j + 1 \in 1 .. Len(mutationQueue) /\ Mine(j + 1, s) /\ mutationQueue'[j] = mutationQueue[j + 1]
    BY <1>1, <1>2
  <2>3. \A j \in 1 .. Len(mutationQueue') : j + 1 = i + 1 => j = i
    BY <1>1
  <2> QED BY <1>6, <2>1, <2>2, <2>3 DEF QueueSafe
<1> QED BY <1>3, <1>4, <1>5, <1>6 DEF SessionSafe

\* The tokens that a mutation leaves.
TokensAfter(m) ==
  IF m.kind \in {"put", "update"} THEN [vault EXCEPT ![m.session] = m.token]
  ELSE IF m.kind = "remove" THEN [vault EXCEPT ![m.session] = Absent] ELSE vault

LEMMA MutatedTokens ==
  ASSUME NEW m \in Mutations
  PROVE  Mutated(m).tokens = TokensAfter(m) /\ Mutated(m).tokens' = TokensAfter(m)'
<1>1. m.kind \in Kinds
  BY DEF Mutations
<1>2. Mutated(m).tokens = TokensAfter(m)
  BY <1>1 DEF Kinds, Mutated, TokensAfter
<1>3. Mutated(m).tokens' = TokensAfter(m)'
  BY <1>1 DEF Kinds, Mutated, TokensAfter
<1> QED BY <1>2, <1>3

LEMMA DiskStays ==
  ASSUME DesktopInv, UNCHANGED <<disk, written, vault, activeId, persistentStorage>>,
         mutationQueue' = mutationQueue \/ \E m \in Mutations : mutationQueue' = Append(mutationQueue, m)
  PROVE  DiskSafe'
<1> SUFFICES ASSUME persistentStorage
             PROVE  disk.tokens' = IF written' THEN Mutated(Head(mutationQueue)).tokens' ELSE vault'
  BY DEF DiskSafe, DesktopInv, Empty
<1>1. disk.tokens = IF written THEN Mutated(Head(mutationQueue)).tokens ELSE vault
  BY DEF DesktopInv, DiskSafe
<1>2. CASE ~written
  BY <1>1, <1>2
<1>3. CASE written
  <2>1. Head(mutationQueue') = Head(mutationQueue) /\ Head(mutationQueue) \in Mutations
    <3>1. mutationQueue \in Seq(Mutations) /\ mutationQueue # <<>>
      BY <1>3 DEF DesktopInv, DeskTypes
    <3>2. ASSUME NEW n \in Mutations PROVE Head(Append(mutationQueue, n)) = Head(mutationQueue)
      BY <3>1
    <3>3. Head(mutationQueue) \in Mutations
      BY <3>1
    <3> QED BY <3>2, <3>3
  <2> DEFINE m == Head(mutationQueue)
  <2>2. Mutated(m).tokens = TokensAfter(m)
    BY <2>1, MutatedTokens
  <2>3. Mutated(Head(mutationQueue)).tokens' = TokensAfter(Head(mutationQueue))'
    BY <2>1 DEF Mutations, Kinds, Mutated, TokensAfter
  <2>4. TokensAfter(Head(mutationQueue))' = TokensAfter(m)
    BY <2>1 DEF TokensAfter
  <2> QED BY <1>1, <1>3, <2>2, <2>3, <2>4
<1> QED BY <1>2, <1>3

\* A call starts a refresh or joins the one under way.
LEMMA RefreshStarts ==
  ASSUME DesktopInv, NEW s \in Devices, vault[s] # Absent,
         refreshing' = IF MayRefresh(s) THEN [refreshing EXCEPT ![s] = [at |-> "asked", token |-> vault[s]]] ELSE refreshing,
         UNCHANGED <<issued, vault, mutationQueue, persistentStorage, severed>>, signedOut \subseteq signedOut'
  PROVE  AccountsSafe' /\ refreshing' \in [Devices -> Refresh]
<1>1. refreshing' \in [Devices -> Refresh]
  BY DEF DesktopInv, DeskTypes, Refresh
<1>2. ASSUME NEW t \in Devices PROVE SessionSafe(t)'
  <2>1. SessionSafe(t)
    BY DEF DesktopInv, AccountsSafe
  <2>2. CASE refreshing'[t] = refreshing[t]
    BY <2>1, <2>2, NothingForgotten
  <2>3. CASE refreshing'[t] # refreshing[t]
    <3>1. t = s /\ refreshing[s].at = "none" /\ refreshing'[s] = [at |-> "asked", token |-> vault[s]]
      BY <2>3 DEF MayRefresh, DesktopInv, DeskTypes
    <3>2. NotYetSafe(s)'
      BY <2>1, <3>1 DEF SessionSafe, NotYetSafe
    <3>3. Good(s)' => Good(s)
      BY DEF Good
    <3>4. Good(s) => RefreshSafe(s)'
      BY <2>1, <3>1 DEF SessionSafe, RefreshSafe
    <3>5. Good(s) => QueueSafe(s)'
      <4> SUFFICES ASSUME Good(s), NEW i \in 1 .. Len(mutationQueue), Mine(i, s)
                   PROVE  /\ mutationQueue[i].kind # "remove"
                          /\ mutationQueue[i].kind = "put" => FALSE
                          /\ mutationQueue[i].kind = "update" /\ mutationQueue[i].owner # Nobody =>
                               mutationQueue[i].token > Absent /\ mutationQueue[i].token <= vault[s]
                          /\ mutationQueue[i].kind = "update" /\ mutationQueue[i].owner = Nobody => FALSE
        BY DEF QueueSafe, Mine
      <4> QED BY <2>1, <3>1 DEF SessionSafe, QueueSafe
    <3> QED BY <3>1, <3>2, <3>3, <3>4, <3>5 DEF SessionSafe
  <2> QED BY <2>2, <2>3
<1> QED BY <1>1, <1>2 DEF AccountsSafe

\* Nothing happens to the accounts but that there are more reasons.
LEMMA AccountsStaySafe ==
  ASSUME DesktopInv, UNCHANGED <<issued, vault, refreshing, mutationQueue, persistentStorage>>,
         signedOut \subseteq signedOut', severed \subseteq severed'
  PROVE  AccountsSafe'
BY NothingForgotten DEF DesktopInv, AccountsSafe

LEMMA CallStep ==
  ASSUME DesktopInv, NEW c \in Calls, NEW kind \in CallKinds, NEW s \in Devices, Call(c, kind, s)
  PROVE  DesktopInv'
<1> DEFINE call == [NoCall EXCEPT !.kind = kind, !.session = s, !.generation = generation, !.at = "waiting"]
<1>1. /\ vault[s] # Absent /\ interrupted' = interrupted \ {c}
      /\ signedOut' = IF kind = "logout" THEN signedOut \cup {s} ELSE signedOut
      /\ UNCHANGED <<issued, storeVars, persistentStorage, accessOf, generation, strays, restarts, severed>>
  BY DEF Call
<1>2. PICK x \in Begun : /\ calls' = [calls EXCEPT ![c] = x] \/ calls' = [calls EXCEPT ![c] = NoCall]
                         /\ x.generation = generation /\ x.kind = kind /\ x.session = s /\ x.at # "delivered"
  <2>1. call \in Begun /\ call.generation = generation /\ call.kind = kind /\ call.session = s /\ call.at = "waiting"
    BY DEF NoCall, Begun, CallPlaces, DesktopInv, DeskTypes, Absent
  <2>2. [call EXCEPT !.at = "sent", !.token = accessOf[s]] \in Begun
    BY <2>1 DEF Begun, CallPlaces, DesktopInv, DeskTypes
  <2>3. \/ calls' = [calls EXCEPT ![c] = call] 
        \/ calls' = [calls EXCEPT ![c] = NoCall]
        \/ calls' = [calls EXCEPT ![c] = [call EXCEPT !.at = "sent", !.token = accessOf[s]]]
    BY DEF Call, WithToken
  <2>4. LET x == [call EXCEPT !.at = "sent", !.token = accessOf[s]]
        IN  x.generation = generation /\ x.kind = kind /\ x.session = s /\ x.at = "sent"
    BY <2>1 DEF Begun
  <2> HIDE DEF call
  <2> QED BY <2>1, <2>2, <2>3, <2>4
<1>3. /\ calls' \in [Calls -> Begun \cup {NoCall}] /\ calls'[c] \in {x, NoCall}
      /\ \A d \in Calls \ {c} : calls'[d] = calls[d]
  BY <1>2 DEF DesktopInv, DeskTypes
<1>4. \/ (refreshing' = IF MayRefresh(s) THEN [refreshing EXCEPT ![s] = [at |-> "asked", token |-> vault[s]]] ELSE refreshing)
      \/ UNCHANGED refreshing
  BY DEF Call
<1>5. AccountsSafe' /\ refreshing' \in [Devices -> Refresh]
  <2>1. CASE UNCHANGED refreshing
    BY <1>1, <2>1, AccountsStaySafe DEF DesktopInv, DeskTypes
  <2>2. CASE refreshing' = IF MayRefresh(s) THEN [refreshing EXCEPT ![s] = [at |-> "asked", token |-> vault[s]]] ELSE refreshing
    BY <1>1, <2>2, RefreshStarts
  <2> QED BY <1>4, <2>1, <2>2
<1>6. RepliesSafe'
  <2> SUFFICES ASSUME NEW d \in Calls PROVE ReplySafe(d)'
    BY DEF RepliesSafe
  <2>1. ReplySafe(d) /\ generation \in Nat
    BY DEF DesktopInv, RepliesSafe, DeskTypes
  <2> QED BY <1>1, <1>2, <1>3, <2>1, CallParts DEF ReplySafe
<1>7. LogoutsKnown'
  <2>1. issued[s] # NotYet
    BY <1>1 DEF DesktopInv, AccountsSafe, SessionSafe, NotYetSafe
  <2> QED BY <1>1, <1>2, <1>3, <2>1, CallParts DEF DesktopInv, LogoutsKnown
<1>8. DeskTypes'
  BY <1>1, <1>3, <1>5 DEF DesktopInv, DeskTypes
<1>9. DiskSafe'
  BY <1>1, DiskStays
<1> QED BY <1>5, <1>6, <1>7, <1>8, <1>9 DEF DesktopInv

\* One call goes on, or ends.
LEMMA OneGoesOn ==
  ASSUME DesktopInv, NEW c \in Calls, NEW x \in Begun \cup {NoCall}, calls' = [calls EXCEPT ![c] = x],
         \/ x = NoCall
         \/ /\ calls[c].at \notin {"idle", "delivered"} /\ x.at # "delivered"
            /\ x.generation = calls[c].generation /\ x.kind = calls[c].kind /\ x.session = calls[c].session
  PROVE  calls' \in [Calls -> Begun \cup {NoCall}] /\ \A d \in Calls : GoesOn(d)
<1>1. /\ calls' \in [Calls -> Begun \cup {NoCall}] /\ calls'[c] = x
      /\ \A d \in Calls \ {c} : calls'[d] = calls[d]
  BY DEF DesktopInv, DeskTypes
<1>2. x # NoCall => x.at # "idle"
  BY CallParts
<1> QED BY <1>1, <1>2 DEF GoesOn

\* A call that is under way with other places and tokens.
LEMMA Moved ==
  ASSUME DesktopInv, NEW c \in Calls, calls[c].at # "idle"
  PROVE  /\ calls[c] \in Begun
         /\ \A place \in CallPlaces, token \in Nat, again \in BOOLEAN :
              \A x \in {[calls[c] EXCEPT !.at = place], [calls[c] EXCEPT !.at = place, !.again = again],
                        [calls[c] EXCEPT !.at = place, !.token = token, !.again = again]} :
                /\ x \in Begun /\ x.at = place /\ x.generation = calls[c].generation
                /\ x.kind = calls[c].kind /\ x.session = calls[c].session
<1>1. calls[c] \in Begun
  BY CallParts DEF DesktopInv, DeskTypes
<1> SUFFICES ASSUME NEW place \in CallPlaces, NEW token \in Nat, NEW again \in BOOLEAN,
                    NEW x \in {[calls[c] EXCEPT !.at = place], [calls[c] EXCEPT !.at = place, !.again = again],
                               [calls[c] EXCEPT !.at = place, !.token = token, !.again = again]}
             PROVE  /\ x \in Begun /\ x.at = place /\ x.generation = calls[c].generation
                    /\ x.kind = calls[c].kind /\ x.session = calls[c].session
  BY <1>1
<1>2. CASE x = [calls[c] EXCEPT !.at = place]
  BY <1>1, <1>2 DEF Begun
<1>3. CASE x = [calls[c] EXCEPT !.at = place, !.again = again]
  BY <1>1, <1>3 DEF Begun
<1>4. CASE x = [calls[c] EXCEPT !.at = place, !.token = token, !.again = again]
  BY <1>1, <1>4 DEF Begun
<1> QED BY <1>2, <1>3, <1>4

LEMMA ServeStep == ASSUME DesktopInv, NEW c \in Calls, Serve(c) PROVE DesktopInv'
<1> DEFINE s == calls[c].session
<1>1. calls[c].at = "sent" /\ UNCHANGED <<storeVars, persistentStorage, accessOf, generation, refreshing,
                                          severed, signedOut, interrupted>>
  BY DEF Serve
<1>2. calls[c] \in Begun /\ s \in Devices
  BY <1>1, CallParts, Moved
<1>3. PICK x \in Begun :
        /\ calls' = [calls EXCEPT ![c] = x] /\ x.at # "delivered"
        /\ x.generation = calls[c].generation /\ x.kind = calls[c].kind /\ x.session = calls[c].session
  <2>1. PICK place \in {"ok", "denied"} : calls' = [calls EXCEPT ![c].at = place]
    BY DEF Serve
  <2>2. calls' = [calls EXCEPT ![c] = [calls[c] EXCEPT !.at = place]] /\ place \in CallPlaces /\ place # "delivered"
    BY <2>1 DEF DesktopInv, DeskTypes, CallPlaces
  <2> DEFINE x == [calls[c] EXCEPT !.at = place]
  <2>3. x \in Begun /\ x.at = place /\ x.generation = calls[c].generation /\ x.kind = calls[c].kind /\ x.session = calls[c].session
    BY <1>1, <2>2, Moved
  <2> QED BY <2>2, <2>3
<1>4. calls' \in [Calls -> Begun \cup {NoCall}] /\ \A d \in Calls : GoesOn(d)
  BY <1>1, <1>3, OneGoesOn
<1>6. issued' = [issued EXCEPT ![s] = Gone] \/ issued' = issued
  BY DEF Serve
<1>5. RepliesSafe' /\ LogoutsKnown'
  <2>1. \A t \in Devices : issued[t] # NotYet => issued'[t] # NotYet
    BY <1>6 DEF DesktopInv, DeskTypes, Gone, NotYet
  <2> QED BY <1>1, <1>4, <2>1, RepliesStay
<1>7. DeskTypes'
  BY <1>1, <1>4, <1>6 DEF DesktopInv, DeskTypes
<1>8. AccountsSafe'
  <2> SUFFICES ASSUME NEW t \in Devices PROVE SessionSafe(t)'
    BY DEF AccountsSafe
  <2>1. SessionSafe(t)
    BY DEF DesktopInv, AccountsSafe
  <2>2. CASE issued'[t] = issued[t]
    BY <1>1, <2>1, <2>2, NothingForgotten
  <2>3. CASE issued'[t] # issued[t]
    <3>1. issued'[t] = Gone
      BY <1>2, <1>6, <2>3 DEF DesktopInv, DeskTypes
    <3> QED BY <3>1 DEF SessionSafe, NotYetSafe, Good, Gone, NotYet
  <2> QED BY <2>2, <2>3
<1>9. DiskSafe'
  BY <1>1, DiskStays
<1> QED BY <1>5, <1>7, <1>8, <1>9 DEF DesktopInv

\* Only a call and the tokens in memory change.
LEMMA CallGoesOn ==
  ASSUME DesktopInv, calls' \in [Calls -> Begun \cup {NoCall}], \A d \in Calls : GoesOn(d),
         UNCHANGED <<issued, storeVars, persistentStorage, generation, refreshing, signedOut, severed, interrupted>>,
         accessOf' \in [Devices -> Nat]
  PROVE  DesktopInv'
<1>1. RepliesSafe' /\ LogoutsKnown'
  BY RepliesStay
<1>2. DeskTypes'
  BY DEF DesktopInv, DeskTypes
<1>3. AccountsSafe'
  BY AccountsStaySafe
<1>4. DiskSafe'
  BY DiskStays
<1> QED BY <1>1, <1>2, <1>3, <1>4 DEF DesktopInv

\* The reply is delivered only if no account change has come between.
LEMMA RequestReturnsStep == ASSUME DesktopInv, NEW c \in Calls, RequestReturns(c) PROVE DesktopInv'
<1>1. /\ calls[c].at = "ok"
      /\ UNCHANGED <<issued, storeVars, persistentStorage, accessOf, generation, refreshing, severed,
                     signedOut, interrupted>>
  BY DEF RequestReturns
<1>2. CASE calls' = [calls EXCEPT ![c] = NoCall]
  <2>1. calls' \in [Calls -> Begun \cup {NoCall}] /\ \A d \in Calls : GoesOn(d)
    BY <1>2, OneGoesOn
  <2> QED BY <1>1, <2>1, CallGoesOn DEF DesktopInv, DeskTypes
<1>3. CASE SameAccount(calls[c]) /\ calls' = [calls EXCEPT ![c] = [calls[c] EXCEPT !.at = "delivered"]]
  <2> DEFINE x == [calls[c] EXCEPT !.at = "delivered"]
  <2> calls[c] \in Begun
    BY <1>1, Moved
  <2>1. x \in Begun /\ x.at = "delivered" /\ x.generation = calls[c].generation /\ x.kind = calls[c].kind
        /\ x.session = calls[c].session
    BY DEF Begun, CallPlaces
  <2> HIDE DEF x
  <2>2. /\ calls' \in [Calls -> Begun \cup {NoCall}] /\ calls'[c] = x
        /\ \A d \in Calls \ {c} : calls'[d] = calls[d]
    BY <1>3, <2>1 DEF x, DesktopInv, DeskTypes
  <2>3. ReplySafe(c) /\ generation \in Nat /\ generation = calls[c].generation
    BY <1>3 DEF DesktopInv, RepliesSafe, DeskTypes, SameAccount
  <2>4. ReplySafe(c)'
    BY <1>1, <2>1, <2>2, <2>3 DEF ReplySafe
  <2>5. ASSUME NEW d \in Calls \ {c} PROVE ReplySafe(d)'
    BY <1>1, <2>2 DEF ReplySafe, DesktopInv, RepliesSafe
  <2>6. LogoutsKnown'
    BY <1>1, <2>1, <2>2 DEF DesktopInv, LogoutsKnown
  <2>7. DeskTypes'
    BY <1>1, <2>2 DEF DesktopInv, DeskTypes
  <2>8. AccountsSafe' /\ DiskSafe'
    BY <1>1, AccountsStaySafe, DiskStays
  <2> QED BY <2>4, <2>5, <2>6, <2>7, <2>8 DEF DesktopInv, RepliesSafe
<1> QED BY <1>2, <1>3 DEF RequestReturns

LEMMA CallEndsStep == ASSUME DesktopInv, NEW c \in Calls, CallEnds(c) PROVE DesktopInv'
<1>1. UNCHANGED <<issued, storeVars, persistentStorage, accessOf, generation, refreshing, severed,
                  signedOut, interrupted>>
  BY DEF CallEnds
<1>2. CASE calls' = [calls EXCEPT ![c] = NoCall]
  <2>1. calls' \in [Calls -> Begun \cup {NoCall}] /\ \A d \in Calls : GoesOn(d)
    BY <1>2, OneGoesOn
  <2> QED BY <1>1, <2>1, CallGoesOn DEF DesktopInv, DeskTypes
<1>3. CASE calls[c].at = "sent" /\ calls' = [calls EXCEPT ![c].at = "denied"]
  <2> DEFINE x == [calls[c] EXCEPT !.at = "denied"]
  <2> calls[c] \in Begun
    BY <1>3, Moved
  <2>1. x \in Begun /\ x.at = "denied" /\ x.generation = calls[c].generation /\ x.kind = calls[c].kind
        /\ x.session = calls[c].session
    BY DEF Begun, CallPlaces
  <2>2. calls' = [calls EXCEPT ![c] = x]
    BY <1>3 DEF DesktopInv, DeskTypes
  <2> HIDE DEF x
  <2>3. calls' \in [Calls -> Begun \cup {NoCall}] /\ \A d \in Calls : GoesOn(d)
    BY <1>3, <2>1, <2>2, OneGoesOn
  <2> QED BY <1>1, <2>3, CallGoesOn DEF DesktopInv, DeskTypes
<1> QED BY <1>2, <1>3 DEF CallEnds

LEMMA UnauthorizedStep == ASSUME DesktopInv, NEW c \in Calls, Unauthorized(c) PROVE DesktopInv'
<1> DEFINE s == calls[c].session
<1>1. /\ calls[c].at = "denied"
      /\ UNCHANGED <<issued, storeVars, persistentStorage, generation, severed, signedOut, interrupted>>
  BY DEF Unauthorized
<1>2. calls[c] \in Begun /\ s \in Devices
  BY <1>1, CallParts, Moved
<1>3. CASE calls' = [calls EXCEPT ![c] = NoCall] /\ UNCHANGED <<accessOf, refreshing>>
  <2>1. calls' \in [Calls -> Begun \cup {NoCall}] /\ \A d \in Calls : GoesOn(d)
    BY <1>3, OneGoesOn
  <2> QED BY <1>1, <1>3, <2>1, CallGoesOn DEF DesktopInv, DeskTypes
<1>4. CASE /\ calls' = [calls EXCEPT ![c] = [calls[c] EXCEPT !.at = "sent", !.token = accessOf[s], !.again = TRUE]]
           /\ UNCHANGED <<accessOf, refreshing>>
  <2> DEFINE x == [calls[c] EXCEPT !.at = "sent", !.token = accessOf[s], !.again = TRUE]
  <2>1. x \in Begun /\ x.at = "sent" /\ x.generation = calls[c].generation /\ x.kind = calls[c].kind
        /\ x.session = calls[c].session
    <3>1. accessOf[s] \in Nat
      BY <1>2 DEF DesktopInv, DeskTypes
    <3> QED BY <1>2, <3>1 DEF Begun, CallPlaces
  <2> HIDE DEF x
  <2>2. calls' = [calls EXCEPT ![c] = x]
    BY <1>4 DEF x
  <2>3. calls' \in [Calls -> Begun \cup {NoCall}] /\ \A d \in Calls : GoesOn(d)
    BY <1>1, <2>1, <2>2, OneGoesOn
  <2> QED BY <1>1, <1>4, <2>3, CallGoesOn DEF DesktopInv, DeskTypes
<1>5. CASE /\ vault[s] # Absent /\ accessOf' = [accessOf EXCEPT ![s] = Absent]
           /\ calls' = [calls EXCEPT ![c] = [calls[c] EXCEPT !.at = "waiting", !.again = TRUE]]
           /\ refreshing' = IF MayRefresh(s) THEN [refreshing EXCEPT ![s] = [at |-> "asked", token |-> vault[s]]]
                            ELSE refreshing
  <2> DEFINE x == [calls[c] EXCEPT !.at = "waiting", !.again = TRUE]
  <2>1. x \in Begun /\ x.at = "waiting" /\ x.generation = calls[c].generation /\ x.kind = calls[c].kind
        /\ x.session = calls[c].session
    BY <1>2 DEF Begun, CallPlaces
  <2> HIDE DEF x
  <2>2. calls' = [calls EXCEPT ![c] = x]
    BY <1>5 DEF x
  <2>3. calls' \in [Calls -> Begun \cup {NoCall}] /\ \A d \in Calls : GoesOn(d)
    BY <1>1, <2>1, <2>2, OneGoesOn
  <2>4. RepliesSafe' /\ LogoutsKnown'
    BY <1>1, <2>3, RepliesStay
  <2>5. AccountsSafe' /\ refreshing' \in [Devices -> Refresh]
    BY <1>1, <1>2, <1>5, RefreshStarts
  <2>6. DiskSafe'
    BY <1>1, DiskStays
  <2>7. accessOf' \in [Devices -> Nat]
    BY <1>5 DEF DesktopInv, DeskTypes, Absent
  <2>8. DeskTypes'
    BY <1>1, <2>3, <2>5, <2>7 DEF DesktopInv, DeskTypes
  <2> QED BY <2>4, <2>5, <2>6, <2>8 DEF DesktopInv
<1> QED BY <1>3, <1>4, <1>5 DEF Unauthorized

\* Session s of the queue's new last mutation; the other sessions stay safe.
LEMMA QueueGrows ==
  ASSUME DesktopInv, NEW m \in Mutations, mutationQueue' = Append(mutationQueue, m),
         UNCHANGED <<issued, vault, persistentStorage, severed, signedOut>>,
         \A t \in Devices \ {m.session} : refreshing'[t] = refreshing[t],
         SessionSafe(m.session)'
  PROVE  AccountsSafe'
<1> SUFFICES ASSUME NEW t \in Devices, t # m.session PROVE SessionSafe(t)'
  BY DEF AccountsSafe
<1> QED BY OthersQueue DEF DesktopInv, AccountsSafe

LEMMA Grown ==
  ASSUME DeskTypes, NEW m \in Mutations, mutationQueue' = Append(mutationQueue, m)
  PROVE  /\ Len(mutationQueue) \in Nat /\ Len(mutationQueue') = Len(mutationQueue) + 1
         /\ mutationQueue'[Len(mutationQueue) + 1] = m
         /\ \A i \in 1 .. Len(mutationQueue) : mutationQueue'[i] = mutationQueue[i]
         /\ \A i \in 1 .. Len(mutationQueue') :
              i \in 1 .. Len(mutationQueue) \/ i = Len(mutationQueue) + 1
         /\ mutationQueue' \in Seq(Mutations) /\ mutationQueue' # <<>>
<1>1. mutationQueue \in Seq(Mutations)
  BY DEF DeskTypes
<1>2. /\ Len(mutationQueue) \in Nat /\ Len(mutationQueue') = Len(mutationQueue) + 1
      /\ mutationQueue'[Len(mutationQueue) + 1] = m
      /\ \A i \in 1 .. Len(mutationQueue) : mutationQueue'[i] = mutationQueue[i]
  BY <1>1
<1>3. mutationQueue' \in Seq(Mutations) /\ mutationQueue' # <<>>
  BY <1>1
<1> QED BY <1>2, <1>3

\* What a password change stores is no newer than what there is.
LEMMA ChangeReturnsStep == ASSUME DesktopInv, NEW c \in Calls, ChangeReturns(c) PROVE DesktopInv'
<1>1. /\ calls[c].at = "ok"
      /\ UNCHANGED <<issued, vault, activeId, disk, written, persistentStorage, accessOf, generation, refreshing,
                     severed, signedOut, interrupted>>
  BY DEF ChangeReturns
<1>b. calls[c] \in Begun
  BY <1>1, Moved
<1>2. PICK s \in Devices : s = calls[c].session
  BY <1>b, CallParts
<1>3. CASE calls' = [calls EXCEPT ![c] = NoCall] /\ UNCHANGED mutationQueue
  <2>1. calls' \in [Calls -> Begun \cup {NoCall}] /\ \A d \in Calls : GoesOn(d)
    BY <1>3, OneGoesOn
  <2> QED BY <1>1, <1>3, <2>1, CallGoesOn DEF DesktopInv, DeskTypes
<1>4. CASE /\ vault[s] # Absent /\ Enqueue(Mutation("update", s, vault[s], c))
           /\ calls' = [calls EXCEPT ![c].at = "stored"]
  <2> DEFINE x == [calls[c] EXCEPT !.at = "stored"]
  <2>1. x \in Begun /\ x.at = "stored" /\ x.generation = calls[c].generation /\ x.kind = calls[c].kind
        /\ x.session = calls[c].session
    BY <1>b DEF Begun, CallPlaces
  <2>2. calls' = [calls EXCEPT ![c] = x]
    BY <1>4 DEF DesktopInv, DeskTypes
  <2>m. PICK m \in Mutations :
        /\ m.session = s /\ m.kind = "update" /\ m.token = vault[s] /\ m.owner = c
        /\ mutationQueue' = Append(mutationQueue, m)
    BY <1>2, <1>4 DEF Mutation, Mutations, Kinds, DesktopInv, DeskTypes, Enqueue
  <2> HIDE DEF x
  <2>3. calls' \in [Calls -> Begun \cup {NoCall}] /\ \A d \in Calls : GoesOn(d)
    BY <1>1, <2>1, <2>2, OneGoesOn
  <2>4. RepliesSafe' /\ LogoutsKnown'
    BY <1>1, <2>3, RepliesStay
  <2>5. SessionSafe(s)'
    <3>1. SessionSafe(s) /\ DeskTypes /\ vault[s] \in Nat /\ c # Nobody
      BY <1>2, DesktopAssumption DEF DesktopInv, AccountsSafe, DeskTypes
    <3>2. NotYetSafe(s)'
      BY <1>1, <1>4, <3>1 DEF SessionSafe, NotYetSafe
    <3>3. Good(s)' => Good(s)
      BY <1>1 DEF Good
    <3>4. Good(s) => RefreshSafe(s)'
      BY <1>1, <3>1 DEF SessionSafe, RefreshSafe
    <3>5. Good(s) => QueueSafe(s)'
      <4> SUFFICES ASSUME Good(s) PROVE QueueSafe(s)'
        OBVIOUS
      <4>1. QueueSafe(s)
        BY <3>1 DEF SessionSafe
      <4>2. \A i \in 1 .. Len(mutationQueue) : ~(Mine(i, s) /\ mutationQueue[i].kind = "put")
        BY <1>4, <4>1 DEF QueueSafe
      <4>3. /\ \A i \in 1 .. Len(mutationQueue) : Mine(i, s)' <=> Mine(i, s)
            /\ Len(mutationQueue) + 1 \in 1 .. Len(mutationQueue')
        BY <2>m, <3>1, Grown DEF Mine
      <4> SUFFICES ASSUME NEW i \in 1 .. Len(mutationQueue'), Mine(i, s)'
                   PROVE  /\ mutationQueue'[i].kind # "remove" /\ mutationQueue'[i].kind # "put"
                          /\ mutationQueue'[i].kind = "update" /\ mutationQueue'[i].owner # Nobody =>
                               mutationQueue'[i].token > Absent /\ mutationQueue'[i].token <= vault'[s]
                          /\ mutationQueue'[i].kind = "update" /\ mutationQueue'[i].owner = Nobody =>
                               /\ mutationQueue'[i].token = issued'[s] /\ refreshing'[s].at = "storing"
                               /\ \A j \in 1 .. Len(mutationQueue') : Mine(j, s)' /\ mutationQueue'[j].kind = "update"
                                     /\ mutationQueue'[j].owner = Nobody => j = i
        BY DEF QueueSafe
      <4>4. CASE i = Len(mutationQueue) + 1
        BY <1>1, <1>4, <2>m, <3>1, <4>4, Grown DEF Absent
      <4>5. CASE i \in 1 .. Len(mutationQueue)
        <5>1. mutationQueue'[i] = mutationQueue[i] /\ Mine(i, s)
          BY <2>m, <3>1, <4>3, <4>5, Grown
        <5>2. ASSUME NEW j \in 1 .. Len(mutationQueue'), mutationQueue'[j].owner = Nobody
              PROVE  j \in 1 .. Len(mutationQueue) /\ mutationQueue'[j] = mutationQueue[j]
          BY <2>m, <3>1, <5>2, Grown
        <5> QED BY <1>1, <4>1, <4>2, <4>3, <4>5, <5>1, <5>2 DEF QueueSafe
      <4> QED BY <2>m, <3>1, <4>4, <4>5, Grown
    <3> QED BY <3>2, <3>3, <3>4, <3>5 DEF SessionSafe
  <2>6. AccountsSafe'
    BY <1>1, <2>m, <2>5, QueueGrows
  <2>7. DiskSafe'
    BY <1>1, <2>m, DiskStays
  <2>8. DeskTypes'
    BY <1>1, <2>m, <2>3, Grown DEF DesktopInv, DeskTypes
  <2> QED BY <2>4, <2>6, <2>7, <2>8 DEF DesktopInv
<1> QED BY <1>2, <1>3, <1>4 DEF ChangeReturns

\* Only a logout removes an account: the user signed out of it.
LEMMA StoreCallStep == ASSUME DesktopInv, NEW c \in Calls, StoreCall(c) PROVE DesktopInv'
<1>1. /\ calls[c].at \in {"ok", "denied", "storing"} /\ calls' = [calls EXCEPT ![c].at = "stored"]
      /\ UNCHANGED <<issued, vault, activeId, disk, written, persistentStorage, generation, refreshing,
                     severed, signedOut, interrupted>>
  BY DEF StoreCall
<1>2. calls[c] \in Begun
  BY <1>1, Moved
<1>3. PICK s \in Devices : s = calls[c].session
  BY <1>2, CallParts
<1>4. PICK m \in Mutations :
        /\ m.session = s /\ mutationQueue' = Append(mutationQueue, m)
        /\ \/ m.kind = "remove" /\ calls[c].kind = "logout"
           \/ m.kind = "activate"
  BY <1>3 DEF StoreCall, Enqueue, Mutation, Mutations, Kinds, Absent
<1>5. accessOf' \in [Devices -> Nat]
  <2>1. accessOf' = [accessOf EXCEPT ![s] = Absent] \/ accessOf' = accessOf
    BY <1>3 DEF StoreCall
  <2>2. accessOf \in [Devices -> Nat] /\ Absent \in Nat
    BY DEF DesktopInv, DeskTypes, Absent
  <2> QED BY <2>1, <2>2
<1> DEFINE x == [calls[c] EXCEPT !.at = "stored"]
<1>6. x \in Begun /\ x.at = "stored" /\ x.generation = calls[c].generation /\ x.kind = calls[c].kind
      /\ x.session = calls[c].session
  BY <1>2 DEF Begun, CallPlaces
<1>7. calls' = [calls EXCEPT ![c] = x]
  BY <1>1 DEF DesktopInv, DeskTypes
<1> HIDE DEF x
<1>8. calls' \in [Calls -> Begun \cup {NoCall}] /\ \A d \in Calls : GoesOn(d)
  BY <1>1, <1>6, <1>7, OneGoesOn
<1>9. RepliesSafe' /\ LogoutsKnown'
  BY <1>1, <1>8, RepliesStay
<1>10. SessionSafe(s)'
  <2>0. SessionSafe(s) /\ DeskTypes
    BY DEF DesktopInv, AccountsSafe
  <2>1. CASE m.kind = "activate"
    BY <1>1, <1>4, <2>0, <2>1, OthersQueue
  <2>2. CASE m.kind = "remove" /\ calls[c].kind = "logout"
    <3>1. s \in signedOut
      BY <1>3, <2>2 DEF DesktopInv, LogoutsKnown
    <3>2. ~Good(s)'
      BY <1>1, <3>1 DEF Good
    <3>3. issued'[s] # NotYet
      BY <1>1, <1>3 DEF DesktopInv, LogoutsKnown
    <3> QED BY <3>2, <3>3 DEF SessionSafe, NotYetSafe
  <2> QED BY <1>4, <2>1, <2>2
<1>11. AccountsSafe'
  BY <1>1, <1>4, <1>10, QueueGrows
<1>12. DiskSafe'
  BY <1>1, <1>4, DiskStays
<1>13. DeskTypes'
  BY <1>1, <1>4, <1>5, <1>8, Grown DEF DesktopInv, DeskTypes
<1> QED BY <1>9, <1>11, <1>12, <1>13 DEF DesktopInv

LEMMA ExpiryStep == ASSUME DesktopInv, NEW s \in Devices, AccessExpires(s) PROVE DesktopInv'
<1>1. \A d \in Calls : calls'[d] = calls[d] /\ GoesOn(d)
  BY DEF AccessExpires, GoesOn
<1>2. accessOf' \in [Devices -> Nat] /\ calls' \in [Calls -> Begun \cup {NoCall}]
  BY DEF AccessExpires, DesktopInv, DeskTypes, Absent
<1> QED BY <1>1, <1>2, CallGoesOn DEF AccessExpires

LEMMA PersistStep == ASSUME DesktopInv, PersistMutation PROVE DesktopInv'
<1>1. /\ mutationQueue # <<>> /\ written' = TRUE
      /\ disk' = IF persistentStorage THEN Mutated(Head(mutationQueue)) ELSE Empty
      /\ UNCHANGED <<issued, vault, activeId, persistentStorage, mutationQueue, accessOf, generation,
                     refreshing, calls, signedOut, severed, interrupted>>
  BY DEF PersistMutation
<1>2. \A d \in Calls : GoesOn(d)
  BY <1>1 DEF GoesOn
<1>3. RepliesSafe' /\ LogoutsKnown'
  BY <1>1, <1>2, RepliesStay
<1>4. AccountsSafe'
  BY <1>1, AccountsStaySafe
<1>5. PICK m \in Mutations : m = Head(mutationQueue)
  BY <1>1 DEF DesktopInv, DeskTypes
<1>6. Mutated(m).tokens = TokensAfter(m) /\ Mutated(m).tokens' = TokensAfter(m)'
  BY MutatedTokens
<1>7. TokensAfter(m) \in [Devices -> Nat] /\ TokensAfter(m)' = TokensAfter(m)
  BY <1>1 DEF TokensAfter, DesktopInv, DeskTypes, Mutations, Absent
<1>8. disk.tokens' \in [Devices -> Nat]
  BY <1>1, <1>5, <1>6, <1>7 DEF Empty, Absent
<1>9. DiskSafe'
  BY <1>1, <1>5, <1>6, <1>7 DEF DiskSafe
<1>10. DeskTypes'
  BY <1>1, <1>8 DEF DesktopInv, DeskTypes
<1> QED BY <1>3, <1>4, <1>9, <1>10 DEF DesktopInv

LEMMA ServeRefreshStep == ASSUME DesktopInv, NEW s \in Devices, ServeRefresh(s) PROVE DesktopInv'
<1>1. /\ refreshing[s].at = "asked"
      /\ UNCHANGED <<storeVars, persistentStorage, accessOf, generation, calls, signedOut, severed,
                     interrupted>>
  BY DEF ServeRefresh
<1>2. /\ issued[s] \in Nat \cup {Gone} /\ refreshing[s] \in Refresh /\ SessionSafe(s) /\ vault[s] \in Nat
      /\ refreshing[s].token \in Nat
  BY DEF DesktopInv, DeskTypes, AccountsSafe, Refresh
<1>3. \/ /\ issued[s] = refreshing[s].token /\ issued' = [issued EXCEPT ![s] = @ + 1]
         /\ refreshing' = [refreshing EXCEPT ![s] = [at |-> "answered", token |-> issued[s] + 1]]
      \/ /\ issued[s] # refreshing[s].token /\ issued' = issued
         /\ refreshing' = [refreshing EXCEPT ![s].at = "denied"]
  BY DEF ServeRefresh
<1>4. /\ issued' \in [Devices -> Nat \cup {Gone}] /\ refreshing' \in [Devices -> Refresh]
      /\ \A t \in Devices \ {s} : issued'[t] = issued[t] /\ refreshing'[t] = refreshing[t]
      /\ \/ /\ issued[s] = refreshing[s].token /\ issued'[s] = issued[s] + 1
            /\ refreshing'[s].at = "answered" /\ refreshing'[s].token = issued[s] + 1
         \/ issued[s] # refreshing[s].token /\ issued'[s] = issued[s] /\ refreshing'[s].at = "denied"
  <2>1. CASE /\ issued[s] = refreshing[s].token /\ issued' = [issued EXCEPT ![s] = @ + 1]
             /\ refreshing' = [refreshing EXCEPT ![s] = [at |-> "answered", token |-> issued[s] + 1]]
    BY <1>2, <2>1 DEF DesktopInv, DeskTypes, Refresh
  <2>2. CASE /\ issued[s] # refreshing[s].token /\ issued' = issued
             /\ refreshing' = [refreshing EXCEPT ![s].at = "denied"]
    <3>1. [refreshing[s] EXCEPT !.at = "denied"] \in Refresh
      BY <1>2 DEF Refresh
    <3>2. refreshing' = [refreshing EXCEPT ![s] = [refreshing[s] EXCEPT !.at = "denied"]]
      BY <2>2 DEF DesktopInv, DeskTypes
    <3> QED BY <1>2, <2>2, <3>1, <3>2 DEF DesktopInv, DeskTypes, Refresh
  <2> QED BY <1>3, <2>1, <2>2
<1>5. SessionSafe(s)'
  <2>1. issued'[s] # NotYet
    BY <1>1, <1>2, <1>4 DEF SessionSafe, NotYetSafe, NotYet
  <2>2. Good(s)' => Good(s)
    BY <1>1, <1>2, <1>4 DEF Good, Gone
  <2>3. Good(s) => /\ issued'[s] = issued[s] + 1 /\ refreshing'[s].at = "answered"
                   /\ refreshing'[s].token = issued'[s] /\ vault'[s] = issued[s] /\ issued[s] \in Nat
    BY <1>1, <1>2, <1>4 DEF SessionSafe, RefreshSafe, Good
  <2>4. Good(s) => RefreshSafe(s)'
    BY <1>1, <1>2, <2>3 DEF RefreshSafe
  <2>5. Good(s) => QueueSafe(s)'
    <3> SUFFICES ASSUME Good(s) PROVE QueueSafe(s)'
      OBVIOUS
    <3>1. QueueSafe(s)
      BY <1>2 DEF SessionSafe
    <3>2. \A i \in 1 .. Len(mutationQueue) : Mine(i, s) =>
            /\ mutationQueue[i].kind # "remove" /\ mutationQueue[i].kind # "put"
            /\ mutationQueue[i].kind = "update" => mutationQueue[i].owner # Nobody
      BY <1>1, <3>1 DEF QueueSafe
    <3> QED BY <1>1, <3>1, <3>2 DEF QueueSafe, Mine
  <2> QED BY <2>1, <2>2, <2>4, <2>5 DEF SessionSafe, NotYetSafe
<1>6. AccountsSafe'
  BY <1>1, <1>4, <1>5, NothingForgotten DEF DesktopInv, AccountsSafe
<1>7. RepliesSafe' /\ LogoutsKnown'
  <2>1. \A t \in Devices : issued[t] # NotYet => issued'[t] # NotYet
    BY <1>2, <1>4 DEF DesktopInv, DeskTypes, Gone, NotYet
  <2> QED BY <1>1, <2>1, RepliesStay DEF GoesOn
<1>8. DiskSafe'
  BY <1>1, DiskStays
<1>9. DeskTypes'
  BY <1>1, <1>4 DEF DesktopInv, DeskTypes
<1> QED BY <1>6, <1>7, <1>8, <1>9 DEF DesktopInv

LEMMA RefreshReturnsStep == ASSUME DesktopInv, NEW s \in Devices, RefreshReturns(s) PROVE DesktopInv'
<1>1. /\ refreshing[s].at \in {"answered", "denied"} /\ refreshing' = [refreshing EXCEPT ![s].at = "storing"]
      /\ UNCHANGED <<issued, vault, activeId, disk, written, persistentStorage, generation, calls,
                     severed, signedOut, interrupted>>
  BY DEF RefreshReturns
<1>2. /\ issued[s] \in Nat \cup {Gone} /\ refreshing[s] \in Refresh /\ SessionSafe(s) /\ vault[s] \in Nat
      /\ refreshing[s].token \in Nat
  BY DEF DesktopInv, DeskTypes, AccountsSafe, Refresh
<1>3. PICK m \in Mutations :
        /\ m.session = s /\ m.owner = Nobody /\ mutationQueue' = Append(mutationQueue, m)
        /\ \/ m.kind = "update" /\ m.token = refreshing[s].token /\ refreshing[s].at = "answered"
           \/ m.kind = "remove" /\ refreshing[s].at = "denied"
  <2>1. /\ Mutation("update", s, refreshing[s].token, Nobody) \in Mutations
        /\ Mutation("remove", s, Absent, Nobody) \in Mutations
    BY <1>2 DEF Mutation, Mutations, Kinds, Absent
  <2> QED BY <2>1 DEF RefreshReturns, Enqueue, Mutation
<1>4. accessOf' \in [Devices -> Nat]
  <2>1. accessOf' = [accessOf EXCEPT ![s] = Absent] \/ accessOf' = accessOf
    BY DEF RefreshReturns
  <2>2. accessOf \in [Devices -> Nat] /\ Absent \in Nat
    BY DEF DesktopInv, DeskTypes, Absent
  <2> QED BY <2>1, <2>2
<1>5. /\ refreshing' \in [Devices -> Refresh] /\ refreshing'[s].at = "storing"
      /\ \A t \in Devices \ {s} : refreshing'[t] = refreshing[t]
  <2>1. [refreshing[s] EXCEPT !.at = "storing"] \in Refresh
    BY <1>2 DEF Refresh
  <2>2. refreshing' = [refreshing EXCEPT ![s] = [refreshing[s] EXCEPT !.at = "storing"]]
    BY <1>1 DEF DesktopInv, DeskTypes
  <2> QED BY <1>2, <2>1, <2>2 DEF DesktopInv, DeskTypes, Refresh
<1>6. SessionSafe(s)'
  <2>1. issued'[s] # NotYet
    BY <1>1, <1>2 DEF SessionSafe, NotYetSafe
  <2>2. Good(s)' => Good(s)
    BY <1>1 DEF Good
  <2> SUFFICES ASSUME Good(s) PROVE RefreshSafe(s)' /\ QueueSafe(s)'
    BY <2>1, <2>2 DEF SessionSafe, NotYetSafe
  <2>3. QueueSafe(s) /\ RefreshSafe(s)
    BY <1>2 DEF SessionSafe
  <2>4. m.kind = "update" /\ m.token = issued[s]
    BY <1>3, <2>3 DEF RefreshSafe
  <2>5. RefreshSafe(s)'
    BY <1>1, <1>5, <2>3 DEF RefreshSafe
  <2>6. QueueSafe(s)'
    <3>1. \A i \in 1 .. Len(mutationQueue) : Mine(i, s) =>
            /\ mutationQueue[i].kind # "remove" /\ mutationQueue[i].kind # "put"
            /\ mutationQueue[i].kind = "update" => mutationQueue[i].owner # Nobody
      BY <1>1, <2>3 DEF QueueSafe
    <3> DeskTypes
      BY DEF DesktopInv
    <3> SUFFICES ASSUME NEW i \in 1 .. Len(mutationQueue'), Mine(i, s)'
                 PROVE  /\ mutationQueue'[i].kind # "remove" /\ mutationQueue'[i].kind # "put"
                        /\ mutationQueue'[i].kind = "update" /\ mutationQueue'[i].owner # Nobody =>
                             mutationQueue'[i].token > Absent /\ mutationQueue'[i].token <= vault'[s]
                        /\ mutationQueue'[i].kind = "update" /\ mutationQueue'[i].owner = Nobody =>
                             /\ mutationQueue'[i].token = issued'[s] /\ refreshing'[s].at = "storing"
                             /\ \A j \in 1 .. Len(mutationQueue') : Mine(j, s)' /\ mutationQueue'[j].kind = "update"
                                   /\ mutationQueue'[j].owner = Nobody => j = i
      BY DEF QueueSafe
    <3>2. ASSUME NEW j \in 1 .. Len(mutationQueue), Mine(j, s)'
          PROVE  Mine(j, s) /\ mutationQueue'[j] = mutationQueue[j]
      BY <1>3, <3>2, Grown DEF Mine
    <3>3. CASE i = Len(mutationQueue) + 1
      <4>1. \A j \in 1 .. Len(mutationQueue') : Mine(j, s)' /\ mutationQueue'[j].kind = "update"
              /\ mutationQueue'[j].owner = Nobody => j = i
        BY <1>3, <3>1, <3>2, <3>3, Grown
      <4> QED BY <1>1, <1>3, <1>5, <2>4, <3>3, <4>1, Grown
    <3>4. CASE i \in 1 .. Len(mutationQueue)
      BY <1>1, <2>3, <3>1, <3>2, <3>4 DEF QueueSafe
    <3> QED BY <1>3, <3>3, <3>4, Grown
  <2> QED BY <2>5, <2>6
<1>7. AccountsSafe'
  BY <1>1, <1>3, <1>5, <1>6, QueueGrows
<1>8. RepliesSafe' /\ LogoutsKnown'
  BY <1>1, RepliesStay DEF GoesOn
<1>9. DiskSafe'
  BY <1>1, <1>3, DiskStays
<1>10. DeskTypes'
  BY <1>1, <1>3, <1>4, <1>5, Grown DEF DesktopInv, DeskTypes
<1> QED BY <1>7, <1>8, <1>9, <1>10 DEF DesktopInv

\* An answer that is lost leaves the stored token behind.
LEMMA RefreshFailsStep == ASSUME DesktopInv, NEW s \in Devices, RefreshFails(s) PROVE DesktopInv'
<1>1. /\ refreshing[s].at \in {"asked", "answered", "denied"} /\ refreshing' = [refreshing EXCEPT ![s] = NoRefresh]
      /\ severed' = IF refreshing[s].at = "answered" THEN severed \cup {s} ELSE severed
      /\ calls' = Abandoned(s)
      /\ UNCHANGED <<issued, storeVars, persistentStorage, accessOf, generation, signedOut, interrupted>>
  BY DEF RefreshFails
<1>2. SessionSafe(s)
  BY DEF DesktopInv, AccountsSafe
<1>3. /\ refreshing' \in [Devices -> Refresh] /\ refreshing'[s].at = "none"
      /\ \A t \in Devices \ {s} : refreshing'[t] = refreshing[t]
  BY <1>1 DEF DesktopInv, DeskTypes, NoRefresh, Refresh, Absent
<1>4. calls' \in [Calls -> Begun \cup {NoCall}] /\ \A d \in Calls : GoesOn(d)
  <2>1. 0 \in Nat
    OBVIOUS
  <2> QED BY <1>1, <2>1, WaitingGoOn
<1>5. RepliesSafe' /\ LogoutsKnown'
  BY <1>1, <1>4, RepliesStay
<1>6. SessionSafe(s)'
  <2>1. issued'[s] # NotYet
    BY <1>1, <1>2 DEF SessionSafe, NotYetSafe
  <2>2. Good(s)' => Good(s) /\ refreshing[s].at # "answered"
    BY <1>1 DEF Good
  <2> SUFFICES ASSUME Good(s), refreshing[s].at # "answered" PROVE RefreshSafe(s)' /\ QueueSafe(s)'
    BY <2>1, <2>2 DEF SessionSafe, NotYetSafe
  <2>3. QueueSafe(s) /\ RefreshSafe(s)
    BY <1>2 DEF SessionSafe
  <2>4. RefreshSafe(s)'
    BY <1>1, <1>3, <2>3 DEF RefreshSafe
  <2>5. \A i \in 1 .. Len(mutationQueue) : Mine(i, s) =>
          /\ mutationQueue[i].kind # "remove" /\ mutationQueue[i].kind # "put"
          /\ mutationQueue[i].kind = "update" => mutationQueue[i].owner # Nobody
    BY <1>1, <2>3 DEF QueueSafe
  <2>6. QueueSafe(s)'
    BY <1>1, <2>3, <2>5 DEF QueueSafe, Mine
  <2> QED BY <2>4, <2>6
<1>7. AccountsSafe'
  BY <1>1, <1>3, <1>6, NothingForgotten DEF DesktopInv, AccountsSafe
<1>8. DiskSafe'
  BY <1>1, DiskStays
<1>9. DeskTypes'
  BY <1>1, <1>3, <1>4 DEF DesktopInv, DeskTypes
<1> QED BY <1>5, <1>7, <1>8, <1>9 DEF DesktopInv

LEMMA StrayStep ==
  ASSUME DesktopInv, NEW s \in Devices, NEW token \in 1 .. MaxIssued, StrayArrives(s, token) \/ SessionEnds(s)
  PROVE  DesktopInv'
<1>1. UNCHANGED <<storeVars, persistentStorage, accessOf, generation, refreshing, calls, signedOut,
                  interrupted>>
  BY DEF StrayArrives, SessionEnds
<1>2. \/ issued' = issued /\ severed' = severed
      \/ issued[s] = token /\ issued' = [issued EXCEPT ![s] = @ + 1] /\ severed' = severed \cup {s}
      \/ issued[s] > NotYet /\ issued' = [issued EXCEPT ![s] = Gone] /\ severed' = severed
  BY DEF StrayArrives, SessionEnds
<1>3. /\ issued' \in [Devices -> Nat \cup {Gone}] /\ severed \subseteq severed'
      /\ \A t \in Devices : issued'[t] = issued[t] \/ (issued[t] # NotYet /\ issued'[t] # NotYet)
      /\ \A t \in Devices : issued'[t] = issued[t] \/ t \in severed' \/ issued'[t] = Gone
  <2>1. issued \in [Devices -> Nat \cup {Gone}]
    BY DEF DesktopInv, DeskTypes
  <2>2. token \in Nat /\ token > 0
    BY DesktopAssumption
  <2> QED BY <1>2, <2>1, <2>2 DEF NotYet, Gone
<1>4. AccountsSafe'
  <2> SUFFICES ASSUME NEW t \in Devices PROVE SessionSafe(t)'
    BY DEF AccountsSafe
  <2>1. SessionSafe(t)
    BY DEF DesktopInv, AccountsSafe
  <2>2. CASE issued'[t] = issued[t]
    BY <1>1, <1>3, <2>1, <2>2, NothingForgotten
  <2>3. CASE issued'[t] # issued[t]
    BY <1>3, <2>3 DEF SessionSafe, NotYetSafe, Good
  <2> QED BY <2>2, <2>3
<1>5. RepliesSafe' /\ LogoutsKnown'
  BY <1>1, <1>3, RepliesStay DEF GoesOn
<1>6. DiskSafe'
  BY <1>1, DiskStays
<1>7. DeskTypes'
  BY <1>1, <1>3 DEF DesktopInv, DeskTypes
<1> QED BY <1>4, <1>5, <1>6, <1>7 DEF DesktopInv

\* A new session's account is the first there is of it.
LEMMA LoginStep == ASSUME DesktopInv, NEW s \in Devices, Login(s) PROVE DesktopInv'
<1>1. /\ issued[s] = NotYet /\ issued' = [issued EXCEPT ![s] = 1]
      /\ UNCHANGED <<vault, activeId, disk, written, persistentStorage, accessOf, generation, refreshing, calls,
                     severed, signedOut, interrupted>>
  BY DEF Login
<1>2. PICK m \in Mutations :
        /\ m.kind = "put" /\ m.session = s /\ m.token = 1 /\ m.owner = Nobody
        /\ mutationQueue' = Append(mutationQueue, m)
  BY DEF Login, Enqueue, Mutation, Mutations, Kinds
<1>3. /\ issued' \in [Devices -> Nat \cup {Gone}] /\ issued'[s] = 1
      /\ \A t \in Devices \ {s} : issued'[t] = issued[t]
  BY <1>1 DEF DesktopInv, DeskTypes
<1>4. /\ SessionSafe(s) /\ vault[s] = Absent /\ refreshing[s].at = "none"
      /\ \A i \in 1 .. Len(mutationQueue) : ~Mine(i, s)
  BY <1>1 DEF DesktopInv, AccountsSafe, SessionSafe, NotYetSafe
<1> DeskTypes
  BY DEF DesktopInv
<1>5. \A i \in 1 .. Len(mutationQueue') : Mine(i, s)' => i = Len(mutationQueue) + 1
  BY <1>2, <1>4, Grown DEF Mine
<1>6. SessionSafe(s)'
  <2>1. NotYetSafe(s)' /\ RefreshSafe(s)'
    BY <1>1, <1>3, <1>4 DEF NotYetSafe, RefreshSafe, NotYet, Absent
  <2>2. QueueSafe(s)'
    BY <1>1, <1>2, <1>3, <1>4, <1>5, Grown DEF QueueSafe
  <2> QED BY <2>1, <2>2 DEF SessionSafe
<1>7. AccountsSafe'
  BY <1>1, <1>2, <1>3, <1>6, OthersQueue DEF DesktopInv, AccountsSafe
<1>8. RepliesSafe' /\ LogoutsKnown'
  <2>1. \A t \in Devices : issued[t] # NotYet => issued'[t] # NotYet
    BY <1>1, <1>3
  <2> QED BY <1>1, <2>1, RepliesStay DEF GoesOn
<1>9. DiskSafe'
  BY <1>1, <1>2, DiskStays
<1>10. DeskTypes'
  BY <1>1, <1>2, <1>3, Grown DEF DeskTypes
<1> QED BY <1>7, <1>8, <1>9, <1>10 DEF DesktopInv

LEMMA Shrunk ==
  ASSUME DeskTypes, mutationQueue # <<>>, mutationQueue' = Tail(mutationQueue)
  PROVE  /\ mutationQueue' \in Seq(Mutations) /\ Head(mutationQueue) \in Mutations
         /\ Head(mutationQueue) = mutationQueue[1] /\ 1 \in 1 .. Len(mutationQueue)
         /\ \A i \in 1 .. Len(mutationQueue') :
              i + 1 \in 1 .. Len(mutationQueue) /\ i + 1 # 1 /\ mutationQueue'[i] = mutationQueue[i + 1]
<1>1. mutationQueue \in Seq(Mutations)
  BY DEF DeskTypes
<1> QED BY <1>1

LEMMA RejectStep == ASSUME DesktopInv, RejectMutation PROVE DesktopInv'
<1> DeskTypes
  BY DEF DesktopInv
<1>1. /\ mutationQueue # <<>> /\ ~written /\ mutationQueue' = Tail(mutationQueue)
      /\ UNCHANGED <<issued, vault, activeId, disk, written, persistentStorage, accessOf, generation,
                     signedOut, interrupted>>
  BY DEF RejectMutation
<1>2. PICK m \in Mutations : m = Head(mutationQueue)
  BY <1>1, Shrunk
<1>3. PICK s \in Devices : s = m.session
  BY DEF Mutations
<1>4. /\ refreshing' = IF ByRefresh(m) THEN [refreshing EXCEPT ![s] = NoRefresh] ELSE refreshing
      /\ calls' = IF ByRefresh(m) THEN Abandoned(s) ELSE Finished(m)
      /\ severed' = IF ByRefresh(m) /\ m.kind = "update" THEN severed \cup {s} ELSE severed
  BY <1>2, <1>3 DEF RejectMutation
<1>5. calls' \in [Calls -> Begun \cup {NoCall}] /\ \A d \in Calls : GoesOn(d)
  <2>1. CASE ByRefresh(m)
    BY <1>4, <2>1, 0 \in Nat, WaitingGoOn
  <2>2. CASE ~ByRefresh(m)
    BY <1>4, <2>2, FinishedGoOn
  <2> QED BY <2>1, <2>2
<1>6. RepliesSafe' /\ LogoutsKnown'
  BY <1>1, <1>5, RepliesStay
<1>7. /\ refreshing' \in [Devices -> Refresh]
      /\ \A t \in Devices : refreshing'[t] = refreshing[t] \/ (t = s /\ ByRefresh(m) /\ refreshing'[t].at = "none")
  BY <1>4 DEF DeskTypes, NoRefresh, Refresh, Absent
<1>8. AccountsSafe'
  <2> SUFFICES ASSUME NEW t \in Devices PROVE SessionSafe(t)'
    BY DEF AccountsSafe
  <2>1. SessionSafe(t)
    BY DEF DesktopInv, AccountsSafe
  <2>2. CASE refreshing'[t] = refreshing[t]
    BY <1>1, <1>4, <2>1, <2>2, OthersLeave
  <2>3. CASE t = s /\ ByRefresh(m)
    <3>1. Mine(1, t) /\ mutationQueue[1] = m /\ 1 \in 1 .. Len(mutationQueue)
      BY <1>1, <1>2, <1>3, <2>3, Shrunk DEF Mine, ByRefresh
    <3>2. issued[t] # NotYet
      BY <2>1, <3>1 DEF SessionSafe, NotYetSafe
    <3>3. ~Good(t)'
      <4>1. CASE m.kind = "update"
        BY <1>4, <2>3, <4>1 DEF Good
      <4>2. CASE m.kind = "remove"
        BY <1>1, <1>4, <2>1, <3>1, <4>2 DEF Good, SessionSafe, QueueSafe
      <4> QED BY <2>3, <4>1, <4>2 DEF ByRefresh
    <3> QED BY <1>1, <3>2, <3>3 DEF SessionSafe, NotYetSafe
  <2> QED BY <1>7, <2>2, <2>3
<1>9. DiskSafe'
  BY <1>1 DEF DesktopInv, DiskSafe
<1>10. DeskTypes'
  BY <1>1, <1>5, <1>7, Shrunk DEF DeskTypes
<1> QED BY <1>6, <1>8, <1>9, <1>10 DEF DesktopInv

LEMMA RestartStep == ASSUME DesktopInv, Restart PROVE DesktopInv'
<1>1. /\ vault' = disk.tokens /\ mutationQueue' = <<>> /\ written' = FALSE
      /\ accessOf' = [s \in Devices |-> Absent] /\ generation' = 0
      /\ refreshing' = [s \in Devices |-> NoRefresh] /\ calls' = [c \in Calls |-> NoCall]
      /\ severed' = severed \cup {s \in Devices : disk.tokens[s] # issued[s]}
      /\ UNCHANGED <<issued, disk, persistentStorage, signedOut, interrupted>>
  BY DEF Restart
<1>2. DeskTypes'
  <2>1. NoRefresh \in Refresh
    BY DEF NoRefresh, Refresh, Absent
  <2>2. accessOf' \in [Devices -> Nat] /\ refreshing' \in [Devices -> Refresh] /\ calls' \in [Calls -> Begun \cup {NoCall}]
    BY <1>1, <2>1 DEF Absent
  <2>3. vault' \in [Devices -> Nat] /\ disk.tokens' \in [Devices -> Nat] /\ issued' \in [Devices -> Nat \cup {Gone}]
    BY <1>1 DEF DesktopInv, DeskTypes
  <2>4. mutationQueue' \in Seq(Mutations) /\ written' = FALSE /\ generation' \in Nat
    BY <1>1
  <2> QED BY <2>2, <2>3, <2>4 DEF DeskTypes
<1>3. RepliesSafe' /\ LogoutsKnown'
  BY <1>1, CallParts DEF RepliesSafe, ReplySafe, LogoutsKnown
<1>4. DiskSafe'
  BY <1>1 DEF DesktopInv, DiskSafe
<1>5. ASSUME NEW s \in Devices, issued[s] = NotYet PROVE disk.tokens[s] = Absent
  <2>1. vault[s] = Absent /\ \A i \in 1 .. Len(mutationQueue) : ~Mine(i, s)
    BY <1>5 DEF DesktopInv, AccountsSafe, SessionSafe, NotYetSafe
  <2>2. CASE ~persistentStorage
    BY <2>2 DEF DesktopInv, DiskSafe, Empty
  <2>3. CASE persistentStorage /\ ~written
    BY <2>1, <2>3 DEF DesktopInv, DiskSafe
  <2>4. CASE persistentStorage /\ written
    <3>1. /\ mutationQueue \in Seq(Mutations) /\ mutationQueue # <<>> /\ vault \in [Devices -> Nat]
      BY <2>4 DEF DesktopInv, DeskTypes
    <3>2. PICK m \in Mutations : m = Head(mutationQueue) /\ m = mutationQueue[1]
      BY <3>1
    <3>3. 1 \in 1 .. Len(mutationQueue)
      BY <3>1
    <3>4. m.session # s \/ m.kind = "activate"
      BY <2>1, <3>2, <3>3 DEF Mine
    <3>5. disk.tokens = TokensAfter(m)
      BY <2>4, <3>2, MutatedTokens DEF DesktopInv, DiskSafe
    <3>6. TokensAfter(m)[s] = vault[s]
      BY <3>1, <3>4 DEF TokensAfter
    <3> QED BY <2>1, <3>5, <3>6
  <2> QED BY <2>2, <2>3, <2>4
<1>6. ASSUME NEW s \in Devices PROVE SessionSafe(s)'
  <2>1. refreshing'[s].at = "none" /\ vault'[s] = disk.tokens[s] /\ issued'[s] = issued[s] /\ Len(mutationQueue') = 0
    BY <1>1 DEF NoRefresh
  <2>2. NotYetSafe(s)'
    <3>1. issued'[s] = NotYet => vault'[s] = Absent
      BY <1>5, <2>1
    <3>2. \A i \in 1 .. Len(mutationQueue') : FALSE
      BY <2>1
    <3> QED BY <2>1, <3>1, <3>2 DEF NotYetSafe
  <2>3. Good(s)' => vault'[s] = issued'[s]
    BY <1>1, <2>1 DEF Good
  <2>4. vault'[s] \in Nat
    BY <1>2 DEF DeskTypes
  <2> QED BY <2>1, <2>2, <2>3, <2>4 DEF SessionSafe, RefreshSafe, QueueSafe
<1> QED BY <1>2, <1>3, <1>4, <1>6 DEF DesktopInv, AccountsSafe

\* What a mutation makes of the accounts' tokens, for the session it is about.
LEMMA CommitStep == ASSUME DesktopInv, CommitMutation PROVE DesktopInv'
<1> DeskTypes
  BY DEF DesktopInv
<1>1. /\ written /\ mutationQueue # <<>> /\ mutationQueue' = Tail(mutationQueue) /\ written' = FALSE
      /\ UNCHANGED <<issued, disk, persistentStorage, signedOut>>
  BY DEF CommitMutation, DeskTypes
<1>2. PICK m \in Mutations : m = Head(mutationQueue)
  BY <1>1, Shrunk
<1>3. PICK s \in Devices : s = m.session
  BY DEF Mutations
<1>4. /\ vault' = TokensAfter(m)
      /\ accessOf' = IF m.owner = Nobody /\ m.kind \in {"put", "update"} THEN [accessOf EXCEPT ![s] = m.token] ELSE accessOf
      /\ generation' = IF m.kind = "update" THEN generation ELSE generation + 1
      /\ refreshing' = IF ByRefresh(m) THEN [refreshing EXCEPT ![s] = NoRefresh] ELSE refreshing
      /\ calls' = IF ~ByRefresh(m) THEN Finished(m)
                  ELSE IF m.kind = "update" THEN Resumed(s, m.token) ELSE Abandoned(s)
      /\ severed' = IF m.kind = "update" /\ m.token < vault[s] THEN severed \cup {s} ELSE severed
  BY <1>2, <1>3, MutatedTokens DEF CommitMutation
<1>5. /\ interrupted \subseteq interrupted'
      /\ \A c \in Calls : c \in interrupted' => c \in interrupted \/ (calls[c].at \notin {"idle", "delivered"})
      /\ m.kind = "update" => interrupted' = interrupted
  <2>1. m.kind = "update" => Mutated(m).active = activeId
    BY DEF Mutated
  <2> QED BY <1>2, <2>1 DEF CommitMutation, Busy
<1>6. calls' \in [Calls -> Begun \cup {NoCall}] /\ \A d \in Calls : GoesOn(d)
  <2>1. CASE ByRefresh(m)
    <3>1. m.token \in Nat
      BY DEF Mutations
    <3> QED BY <1>4, <2>1, <3>1, WaitingGoOn
  <2>2. CASE ~ByRefresh(m)
    BY <1>4, <2>2, FinishedGoOn
  <2> QED BY <2>1, <2>2
<1>7. RepliesSafe' /\ LogoutsKnown'
  <2>1. CASE m.kind = "update"
    BY <1>1, <1>4, <1>5, <1>6, <2>1, RepliesStay
  <2>2. CASE m.kind # "update"
    <3>1. generation' = generation + 1 /\ generation \in Nat
      BY <1>4, <2>2 DEF DeskTypes
    <3>2. ASSUME NEW c \in Calls PROVE ReplySafe(c)'
      <4>1. ReplySafe(c) /\ GoesOn(c) /\ calls[c].generation \in Nat
        BY <1>6, CallParts DEF DesktopInv, RepliesSafe, DeskTypes
      <4>2. CASE calls'[c] = NoCall
        BY <3>1, <4>2, CallParts DEF ReplySafe
      <4>3. CASE calls'[c] # NoCall
        BY <1>5, <3>1, <4>1, <4>3 DEF ReplySafe, GoesOn
      <4> QED BY <4>2, <4>3
    <3>3. LogoutsKnown'
      <4> SUFFICES ASSUME NEW c \in Calls
                   PROVE  /\ calls'[c].kind = "logout" => calls'[c].session \in signedOut'
                          /\ calls'[c].at # "idle" => issued'[calls'[c].session] # NotYet
        BY DEF LogoutsKnown
      <4> QED BY <1>1, <1>6, CallParts DEF DesktopInv, LogoutsKnown, GoesOn
    <3> QED BY <3>2, <3>3 DEF RepliesSafe
  <2> QED BY <2>1, <2>2
<1>8. /\ refreshing' \in [Devices -> Refresh]
      /\ \A t \in Devices \ {s} : refreshing'[t] = refreshing[t] /\ vault'[t] = vault[t]
      /\ ByRefresh(m) => refreshing'[s].at = "none"
      /\ ~ByRefresh(m) => refreshing' = refreshing
  BY <1>3, <1>4 DEF DeskTypes, NoRefresh, Refresh, Absent, TokensAfter
<1>9. /\ vault' \in [Devices -> Nat] /\ accessOf' \in [Devices -> Nat]
      /\ m.kind \in {"put", "update"} => vault'[s] = m.token
      /\ m.kind = "activate" => vault' = vault
  BY <1>3, <1>4 DEF DeskTypes, TokensAfter, Mutations, Absent
<1>10. SessionSafe(s)'
  <2>0. SessionSafe(s)
    BY DEF DesktopInv, AccountsSafe
  <2>1. CASE m.kind = "activate"
    BY <1>1, <1>4, <1>8, <1>9, <2>0, <2>1, OthersLeave DEF ByRefresh
  <2>2. CASE m.kind # "activate"
    <3>1. Mine(1, s) /\ mutationQueue[1] = m /\ 1 \in 1 .. Len(mutationQueue)
      BY <1>1, <1>2, <1>3, <2>2, Shrunk DEF Mine
    <3>2. issued[s] # NotYet
      BY <2>0, <3>1 DEF SessionSafe, NotYetSafe
    <3>3. Good(s)' => Good(s)
      BY <1>1, <1>4 DEF Good
    <3> SUFFICES ASSUME Good(s), Good(s)' PROVE RefreshSafe(s)' /\ QueueSafe(s)'
      BY <1>1, <3>2, <3>3 DEF SessionSafe, NotYetSafe
    <3>4. QueueSafe(s) /\ RefreshSafe(s) /\ issued[s] \in Nat \cup {Gone} /\ vault[s] \in Nat /\ m.token \in Nat
      BY <2>0 DEF SessionSafe, DeskTypes, Mutations
    <3>5. \A i \in 1 .. Len(mutationQueue') : Mine(i, s)' =>
            i + 1 \in 1 .. Len(mutationQueue) /\ Mine(i + 1, s) /\ i + 1 # 1 /\ mutationQueue'[i] = mutationQueue[i + 1]
      BY <1>1, Shrunk DEF Mine
    <3>6. CASE m.kind = "put"
      <4>1. \A i \in 1 .. Len(mutationQueue') : ~Mine(i, s)'
        BY <3>1, <3>4, <3>5, <3>6 DEF QueueSafe
      <4>2. m.token = issued[s] /\ refreshing[s].at = "none" /\ refreshing' = refreshing
        BY <1>8, <3>1, <3>4, <3>6 DEF QueueSafe, ByRefresh
      <4>3. RefreshSafe(s)'
        BY <1>1, <1>9, <3>4, <3>6, <4>2 DEF RefreshSafe
      <4> QED BY <4>1, <4>3 DEF QueueSafe
    <3>7. CASE m.kind = "update" /\ m.owner # Nobody
      <4>1. m.token <= vault[s] /\ ~(m.token < vault[s])
        BY <1>4, <3>1, <3>4, <3>7 DEF QueueSafe, Good
      <4>2. vault'[s] = vault[s]
        BY <1>9, <3>4, <3>7, <4>1
      <4>3. refreshing'[s] = refreshing[s]
        BY <1>8, <3>7 DEF ByRefresh
      <4>4. SessionSafe(s)'
        BY <1>1, <1>4, <2>0, <4>2, <4>3, OthersLeave
      <4> QED BY <4>4 DEF SessionSafe
    <3>8. CASE m.kind = "update" /\ m.owner = Nobody
      <4>1. m.token = issued[s] /\ refreshing'[s].at = "none" /\ vault'[s] = issued'[s]
        BY <1>1, <1>8, <1>9, <3>1, <3>4, <3>8 DEF QueueSafe, ByRefresh
      <4>6. vault'[s] \in Nat
        BY <1>9
      <4>2. RefreshSafe(s)'
        BY <4>1, <4>6 DEF RefreshSafe
      <4>3. \A i \in 1 .. Len(mutationQueue') : Mine(i, s)' =>
              /\ mutationQueue'[i].kind # "remove" /\ mutationQueue'[i].kind # "put"
              /\ mutationQueue'[i].kind = "update" =>
                   /\ mutationQueue'[i].owner # Nobody
                   /\ mutationQueue'[i].token > Absent /\ mutationQueue'[i].token <= vault[s]
        BY <3>1, <3>4, <3>5, <3>8 DEF QueueSafe
      <4>4. vault[s] <= vault'[s]
        BY <1>1, <3>4, <4>1 DEF RefreshSafe
      <4>5. \A i \in 1 .. Len(mutationQueue') : mutationQueue'[i].token \in Nat
        <5>1. mutationQueue' \in Seq(Mutations)
          BY <1>1, Shrunk
        <5>2. \A i \in 1 .. Len(mutationQueue') : mutationQueue'[i] \in Mutations
          BY <5>1
        <5> QED BY <5>2 DEF Mutations
      <4>7. QueueSafe(s)'
        BY <3>4, <4>3, <4>4, <4>5, <4>6 DEF QueueSafe
      <4> QED BY <4>2, <4>7
    <3>9. CASE m.kind = "remove"
      BY <3>1, <3>4, <3>9 DEF QueueSafe
    <3> QED BY <2>2, <3>6, <3>7, <3>8, <3>9 DEF Mutations, Kinds
  <2> QED BY <2>1, <2>2
<1>11. AccountsSafe'
  <2> SUFFICES ASSUME NEW t \in Devices, t # s PROVE SessionSafe(t)'
    BY <1>10 DEF AccountsSafe
  <2>1. SessionSafe(t)
    BY DEF DesktopInv, AccountsSafe
  <2>2. t \in severed' <=> t \in severed
    BY <1>4
  <2> QED BY <1>1, <1>8, <2>1, <2>2, OthersLeave
<1>12. DiskSafe'
  BY <1>1, <1>2, <1>4, MutatedTokens DEF DesktopInv, DiskSafe
<1>13. DeskTypes'
  <2>1. generation' \in Nat
    BY <1>4 DEF DeskTypes
  <2> QED BY <1>1, <1>6, <1>8, <1>9, <2>1, Shrunk DEF DeskTypes
<1> QED BY <1>7, <1>11, <1>12, <1>13 DEF DesktopInv

LEMMA DesktopFrame == ASSUME DesktopInv, UNCHANGED desktopVars PROVE DesktopInv'
<1>1. calls' \in [Calls -> Begun \cup {NoCall}] /\ (\A d \in Calls : GoesOn(d)) /\ accessOf' \in [Devices -> Nat]
  BY DEF DesktopInv, DeskTypes, GoesOn
<1> QED BY <1>1, CallGoesOn

LEMMA DesktopKept == DesktopInv /\ [DesktopStep]_desktopVars => DesktopInv'
<1> SUFFICES ASSUME DesktopInv, [DesktopStep]_desktopVars PROVE DesktopInv'
  OBVIOUS
<1>1. ASSUME NEW c \in Calls,
             \/ \E kind \in CallKinds, s \in Devices : Call(c, kind, s)
             \/ Serve(c) \/ RequestReturns(c) \/ ChangeReturns(c) \/ Unauthorized(c) \/ StoreCall(c) \/ CallEnds(c)
      PROVE  DesktopInv'
  BY <1>1, CallStep, ServeStep, RequestReturnsStep, ChangeReturnsStep, UnauthorizedStep, StoreCallStep, CallEndsStep
<1>2. ASSUME NEW s \in Devices,
             \/ AccessExpires(s) \/ ServeRefresh(s) \/ RefreshReturns(s) \/ RefreshFails(s) \/ Login(s)
      PROVE  DesktopInv'
  BY <1>2, ExpiryStep, ServeRefreshStep, RefreshReturnsStep, RefreshFailsStep, LoginStep
<1>3. ASSUME NEW s \in Devices, SessionEnds(s) \/ \E token \in 1 .. MaxIssued : StrayArrives(s, token)
      PROVE  DesktopInv'
  <2>1. 1 \in 1 .. MaxIssued
    BY DesktopAssumption
  <2> QED BY <1>3, <2>1, StrayStep
<1> QED BY <1>1, <1>2, <1>3, PersistStep, CommitStep, RejectStep, RestartStep, DesktopFrame DEF DesktopStep, CallKinds

(* The accounts in memory and in the file, the queue of changes to them, the
   refreshes and the calls fit together, whatever is answered late, refused or
   lost in a crash (desktop-auth-manager.ts, account-store.ts). *)
THEOREM DesktopInvariant == DesktopSpec => []DesktopInv
BY DesktopStarts, DesktopKept, PTL DEF DesktopSpec

(* A reply reaches the screen only if no other account was activated since its
   call began: the generation it was given is compared before it is delivered. *)
THEOREM RepliesOfOneAccount == DesktopSpec => []ReplyOfOneAccount
<1>1. DesktopInv => ReplyOfOneAccount
  BY DEF DesktopInv, RepliesSafe, ReplySafe, ReplyOfOneAccount
<1> QED BY DesktopInvariant, <1>1, PTL

\* The step's part of AccountsStay.
ForgetsForReason ==
  \A s \in Devices : vault[s] # Absent /\ vault'[s] = Absent =>
    s \in signedOut \/ issued[s] = Gone \/ s \in severed \/ ~persistentStorage

LEMMA KeptByMutation ==
  ASSUME DesktopInv, NEW s \in Devices, Good(s), vault[s] # Absent, mutationQueue # <<>>
  PROVE  Mutated(Head(mutationQueue)).tokens[s] # Absent
<1>1. /\ mutationQueue \in Seq(Mutations) /\ vault \in [Devices -> Nat] /\ SessionSafe(s)
      /\ issued[s] \in Nat \cup {Gone}
  BY DEF DesktopInv, DeskTypes, AccountsSafe
<1>2. PICK m \in Mutations : m = Head(mutationQueue) /\ m = mutationQueue[1] /\ 1 \in 1 .. Len(mutationQueue)
  BY <1>1
<1>3. CASE m.session # s \/ m.kind = "activate"
  BY <1>1, <1>2, <1>3, MutatedTokens DEF TokensAfter
<1>4. CASE m.session = s /\ m.kind # "activate"
  <2>1. Mine(1, s)
    BY <1>2, <1>4 DEF Mine
  <2>2. issued[s] # NotYet /\ QueueSafe(s)
    BY <1>1, <1>2, <2>1 DEF SessionSafe, NotYetSafe
  <2>3. m.kind = "update" /\ m.token # Absent
    BY <1>1, <1>2, <1>4, <2>1, <2>2 DEF QueueSafe, Mutations, Kinds, Absent, NotYet
  <2>4. TokensAfter(m)[s] = m.token
    BY <1>1, <1>4, <2>3 DEF TokensAfter
  <2> QED BY <1>2, <2>3, <2>4, MutatedTokens
<1> QED BY <1>3, <1>4

(* An account is forgotten only for a reason: its user signs out, the API ends the
   session, the token that was stored is not the last one issued, or nothing can
   be stored at all. *)
THEOREM AccountsAreKept == DesktopSpec => AccountsStay
<1>1. DesktopInv /\ [DesktopStep]_desktopVars => ForgetsForReason
  <2> SUFFICES ASSUME DesktopInv, [DesktopStep]_desktopVars, NEW s \in Devices, vault[s] # Absent, Good(s)
               PROVE  vault'[s] # Absent
    BY DEF ForgetsForReason, Good
  <2>1. CASE UNCHANGED vault
    BY <2>1
  <2>2. CASE CommitMutation
    <3>1. mutationQueue # <<>> /\ vault' = Mutated(Head(mutationQueue)).tokens
      BY <2>2 DEF CommitMutation, DesktopInv, DeskTypes
    <3> QED BY <3>1, KeptByMutation
  <2>3. CASE Restart
    <3>1. vault' = disk.tokens /\ persistentStorage
      BY <2>3 DEF Restart, Good
    <3>2. disk.tokens = IF written THEN Mutated(Head(mutationQueue)).tokens ELSE vault
      BY <3>1 DEF DesktopInv, DiskSafe
    <3>3. written => mutationQueue # <<>>
      BY DEF DesktopInv, DeskTypes
    <3> QED BY <3>1, <3>2, <3>3, KeptByMutation
  <2>4. UNCHANGED vault \/ CommitMutation \/ Restart
    BY DEF DesktopStep, PersistMutation, RejectMutation, Call, Serve, RequestReturns, ChangeReturns,
           Unauthorized,
           StoreCall, CallEnds, AccessExpires, ServeRefresh, RefreshReturns, RefreshFails, StrayArrives,
           Login, SessionEnds
  <2> QED BY <2>1, <2>2, <2>3, <2>4
<1>2. DesktopInv /\ [DesktopStep]_desktopVars => [ForgetsForReason]_desktopVars
  BY <1>1
<1> QED BY DesktopInvariant, <1>2, PTL DEF DesktopSpec, AccountsStay, ForgetsForReason
=============================================================================
