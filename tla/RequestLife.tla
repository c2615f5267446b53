----------------------------- MODULE RequestLife -----------------------------
(***************************************************************************)
(* What an agent that polls a request may count on.  A request appears     *)
(* when the vault starts to serve it, may be put to the owner, and ends    *)
(* with an execution or a denial; it takes no step back and an end is      *)
(* final.  The promise is withdrawn from a request that is accepted a      *)
(* second time: its record starts over.                                    *)
(***************************************************************************)
CONSTANT Requests

VARIABLE status

Ends == {"SUCCEEDED", "FAILED", "DENIED"}

Init == status = [r \in Requests |-> "NONE"]

Turn(r, from, to) ==
  /\ status[r] = from
  /\ \E new \in to : status' = [status EXCEPT ![r] = new]

Appear(r) == Turn(r, "NONE", {"IN_PROGRESS"})
Advance(r) == Turn(r, "IN_PROGRESS", Ends \cup {"AWAITING_APPROVAL"})
Decide(r) == Turn(r, "AWAITING_APPROVAL", Ends)
Withdraw(r) == status' = [status EXCEPT ![r] = "WITHDRAWN"]

Next == \E r \in Requests : Appear(r) \/ Advance(r) \/ Decide(r) \/ Withdraw(r)

Spec == Init /\ [][Next]_status
=============================================================================
