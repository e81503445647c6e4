------------------------------ MODULE MCAgentRun ------------------------------
(* Instances of AgentRunSystem for TLC. *)
EXTENDS AgentRunSystem, TLC

CONSTANTS c1, c2, w1, w2

\* The turn limits of the conversations of an instance.
DirectOnly == [c \in Conversations |-> 1]
RelayOfTwo == [c \in Conversations |-> 2]

WorkerSymmetry == Permutations(Workers)
Symmetry == Permutations(Workers) \cup Permutations(Conversations)

\* An instance with every fault for one run, or with two runs, minutes and months
\* and no faults: the conversation of the first run says which.
OneRun ==
  /\ status'[2] = "NONE"
  /\ recent \subseteq recent' /\ \A r \in Runs : used'[r] >= used[r]

Undisturbed ==
  /\ UNCHANGED <<abandons, reconciling>>
  /\ \A x \in Runtime!Externals : remote'[x] # "lost"
  /\ \A w \in Workers : pc[w] # "idle" /\ leaseLive[job[w]] => leaseLive'[job[w]] \/ pc'[w] = "idle"

OneRunOrUndisturbed == IF conv'[1] = c2 THEN Undisturbed ELSE OneRun
=============================================================================
