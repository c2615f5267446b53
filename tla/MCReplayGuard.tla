---------------------------- MODULE MCReplayGuard ----------------------------
(***************************************************************************)
(* Small instances of ReplayGuard: one key is used with a signature and    *)
(* with a session token, the other with a signature only.                  *)
(***************************************************************************)
EXTENDS ReplayGuard, TLC

GuardDeliveries ==
  {[key |-> "k1", proof |-> "signature", at |-> 2],
   [key |-> "k1", proof |-> "token",     at |-> 5],
   [key |-> "k2", proof |-> "signature", at |-> 3]}

\* The places of waiting deliveries are interchangeable.
GuardSymmetry == Permutations(Slots)
=============================================================================
