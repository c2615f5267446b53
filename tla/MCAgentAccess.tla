---------------------------- MODULE MCAgentAccess ----------------------------
(***************************************************************************)
(* Small instances of AgentAccess.                                         *)
(***************************************************************************)
EXTENDS AgentAccess, TLC

\* Agents, secrets, tokens and calls are interchangeable.
AccessSymmetry ==
  Permutations(Agents) \cup Permutations(Secrets) \cup
  Permutations(Tokens) \cup Permutations(Calls)
=============================================================================
