--------------------------- MODULE AgentRunLifecycle ---------------------------
(***************************************************************************)
(* What agent runs promise to a conversation and to a tenant, without      *)
(* events, workers, leases or a runtime.  A conversation has a chain of    *)
(* runs, one open at a time; a run is waiting, working, uncertain or over; *)
(* only an answer continues a relay.  AgentRunSystem implements this.      *)
(***************************************************************************)
EXTENDS Naturals, FiniteSets

CONSTANTS Runs, Conversations, NoConversation, TurnLimit, ConcurrencyLimit

VARIABLES phase, place, turnOf, said

abstractVars == <<phase, place, turnOf, said>>

Open == {"waiting", "working", "uncertain"}
Busy == {"working", "uncertain"}

LifecycleInit ==
  /\ phase = [r \in Runs |-> "none"]
  /\ place = [r \in Runs |-> NoConversation]
  /\ turnOf = [r \in Runs |-> 1]
  /\ said = [r \in Runs |-> 0]

\* A new run opens in conversation c, given the phases left by the same step.
Opens(left, r, c, t) ==
  /\ left[r] = "none"
  /\ \A q \in Runs : place[q] = c => left[q] \notin Open
  /\ phase' = [left EXCEPT ![r] = "waiting"]
  /\ place' = [place EXCEPT ![r] = c]
  /\ turnOf' = [turnOf EXCEPT ![r] = t]

\* A topic starts a chain at turn 1; a retry repeats a turn that failed.
Ask(c) ==
  /\ \E r \in Runs : Opens(phase, r, c, 1)
  /\ UNCHANGED said

AskAgain(q) ==
  /\ phase[q] \in {"failed", "cancelled"}
  /\ \E r \in Runs : Opens(phase, r, place[q], turnOf[q])
  /\ UNCHANGED said

BusyRuns == {q \in Runs : phase[q] \in Busy}

Start(r) ==
  /\ phase[r] = "waiting"
  /\ Cardinality(BusyRuns) < ConcurrencyLimit
  /\ phase' = [phase EXCEPT ![r] = "working"]
  /\ UNCHANGED <<place, turnOf, said>>

\* The answer and, below the limit, the next turn come in one step.
Answer(r) ==
  LET left == [phase EXCEPT ![r] = "answered"]
  IN /\ phase[r] = "working"
     /\ said' = [said EXCEPT ![r] = @ + 1]
     /\ IF turnOf[r] < TurnLimit[place[r]]
        THEN \E n \in Runs : Opens(left, n, place[r], turnOf[r] + 1)
        ELSE phase' = left /\ UNCHANGED <<place, turnOf>>

Stop(r, how) ==
  /\ phase[r] \in {"waiting", "working"}
  /\ phase' = [phase EXCEPT ![r] = how]
  /\ UNCHANGED <<place, turnOf, said>>

LoseTrack(r) ==
  /\ phase[r] = "working"
  /\ phase' = [phase EXCEPT ![r] = "uncertain"]
  /\ UNCHANGED <<place, turnOf, said>>

Recover(r) ==
  /\ phase[r] = "uncertain"
  /\ phase' = [phase EXCEPT ![r] = "working"]
  /\ UNCHANGED <<place, turnOf, said>>

LifecycleNext ==
  \/ \E c \in Conversations : Ask(c)
  \/ \E r \in Runs : \/ AskAgain(r)
                     \/ Start(r)
                     \/ Answer(r)
                     \/ Stop(r, "failed")
                     \/ Stop(r, "cancelled")
                     \/ LoseTrack(r)
                     \/ Recover(r)

LifecycleSpec == LifecycleInit /\ [][LifecycleNext]_abstractVars
=============================================================================
