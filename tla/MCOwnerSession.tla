--------------------------- MODULE MCOwnerSession ---------------------------
(***************************************************************************)
(* Small instances of OwnerSession.                                        *)
(***************************************************************************)
EXTENDS OwnerSession, TLC

CONSTANTS n1, n2, x1, f1, f2, u0, u1, u2

\* One update names one nickname itself and another, which is no string, in
\* its metadata; the other leaves the nickname as it is.
Arguments ==
  u0 :> [nick |-> n1, meta |-> NotGiven, fields |-> {f1}]
    @@ u1 :> [nick |-> n2, meta |-> x1, fields |-> {f2}]
    @@ u2 :> [nick |-> Nil, meta |-> NotGiven, fields |-> {}]

\* The process may die, or the session may reload.
CrashOrReload ==
  {[crashes |-> 0, reloads |-> MaxReloads], [crashes |-> MaxCrashes, reloads |-> 0]}
=============================================================================
