--------------------------- MODULE ExecutionLedger ---------------------------
(***************************************************************************)
(* What the vault promises about executing requests.  There is an account  *)
(* per owner call slot and request.  Accepting a delivery of a request     *)
(* issues a credit to its accounts; a death of the process, which may      *)
(* forget that a credit was spent, issues one to all.  Executing a request *)
(* spends a credit of the accounts it is settled from, and an account      *)
(* never spends more than it was issued.                                   *)
(***************************************************************************)
EXTENDS Naturals

CONSTANT Accounts

VARIABLES issued, spent

Init ==
  /\ issued = [k \in Accounts |-> 0]
  /\ spent = [k \in Accounts |-> 0]

Increment(f, S) == [k \in Accounts |-> IF k \in S THEN f[k] + 1 ELSE f[k]]

Issue(S) ==
  /\ issued' = Increment(issued, S)
  /\ UNCHANGED spent

Spend(S) ==
  /\ \A k \in S : spent[k] < issued[k]
  /\ spent' = Increment(spent, S)
  /\ UNCHANGED issued

Next == \E S \in SUBSET Accounts : Issue(S) \/ Spend(S)

Spec == Init /\ [][Next]_<<issued, spent>>
=============================================================================
