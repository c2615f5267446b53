-------------------------- MODULE MCSecretLifecycle --------------------------
(***************************************************************************)
(* Small instances of SecretLifecycle.                                     *)
(***************************************************************************)
EXTENDS SecretLifecycle, TLC

\* Ids, names, handlers and clients are interchangeable.
LifecycleSymmetry ==
  Permutations(SecretIds) \cup Permutations(Aliases) \cup
  Permutations(Workers) \cup Permutations(Clients)
=============================================================================
