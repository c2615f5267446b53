--------------------------- MODULE MCVaultDispatch ---------------------------
(***************************************************************************)
(* Small instances of VaultDispatch: one agent, one secret, one host.      *)
(***************************************************************************)
EXTENDS VaultDispatch, TLC

CONSTANTS a1, s1, d1, w1, w2, d2, r1, r2, c1, c2

Delivery(r) == [id |-> r, agent |-> a1, secret |-> s1, domain |-> d1]

OneRequest == c1 :> Delivery(r1)

\* Two requests of the same agent.
TwoRequests == c1 :> Delivery(r1) @@ c2 :> Delivery(r2)

\* One request delivered twice (a retry of the transport).
Redelivery == c1 :> Delivery(r1) @@ c2 :> Delivery(r1)

\* The deliveries of one request and the owner calls that decide it.
RedeliverySymmetry == Permutations(Owners) \cup Permutations(Calls)
=============================================================================
