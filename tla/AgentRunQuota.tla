---------------------------- MODULE AgentRunQuota ----------------------------
(***************************************************************************)
(* The tenant quota decision of agent-run/domain/agent-run-quota.ts.       *)
(* A decision is taken from a snapshot of the tenant's run table and says  *)
(* whether one more run may be dispatched now, must wait, or is refused.   *)
(* Times are in milliseconds, tokens in tokens, as in the source.          *)
(***************************************************************************)
EXTENDS Integers

\* What loadQuotaSnapshot reads: three limits, the ledger, and the dispatch
\* instant of the oldest run in the sliding minute (NoDispatch when none).
NoDispatch == -1

QuotaSnapshot ==
  [concurrencyLimit : Nat, rateLimitPerMinute : Nat, monthlyTokenLimit : Nat,
   activeRuns : Nat, runsLastMinute : Nat, oldestDispatch : Nat \cup {NoDispatch},
   monthlyTokensUsed : Nat, tokensReserved : Nat]

RateWindow == 60000

\* Bug: only what is already recorded counts, runs in flight do not.
BugIgnoresReservations(s, reservation) ==
  s.monthlyTokensUsed + reservation > s.monthlyTokenLimit

TokensExhausted(s, reservation) ==
  s.monthlyTokensUsed + s.tokensReserved + reservation > s.monthlyTokenLimit

\* The order matters: the token check refuses the run for good, and is made
\* before the two checks that only postpone it.
DecideAgentRunQuota(s, reservation) ==
  IF TokensExhausted(s, reservation) THEN "rejected"
  ELSE IF s.activeRuns >= s.concurrencyLimit THEN "concurrency"
  ELSE IF s.runsLastMinute >= s.rateLimitPerMinute THEN "rate"
  ELSE "allowed"

\* When a deferred event becomes available again.
WindowEnd(s, now) ==
  IF s.oldestDispatch = NoDispatch THEN now + RateWindow ELSE s.oldestDispatch + RateWindow

Later(a, b) == IF a >= b THEN a ELSE b

AvailableAt(s, decision, now) ==
  IF decision = "concurrency" THEN now + 2000
  ELSE Later(now + 1000, WindowEnd(s, now) + 50)
=============================================================================
