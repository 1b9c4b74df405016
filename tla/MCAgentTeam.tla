---------------------------- MODULE MCAgentTeam ----------------------------
(* Symmetry for the safety runs of AgentTeam.                              *)
EXTENDS AgentTeam, TLC

Pointers == Permutations(Instances) \union Permutations(Callers) \union Permutations(Messages)
=============================================================================
