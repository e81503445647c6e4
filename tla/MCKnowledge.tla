------------------------------ MODULE MCKnowledge ------------------------------
(* Instances of KnowledgeSystem for TLC. *)
EXTENDS KnowledgeSystem, TLC

CONSTANTS w1, w2

WorkerSymmetry == Permutations(Workers)
=============================================================================
