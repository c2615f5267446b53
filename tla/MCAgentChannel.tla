---------------------------- MODULE MCAgentChannel ----------------------------
(* One dispatch: alone, while the owner calls twice and the process may die,  *)
(* or with a read beside it and one call of the owner.                        *)
EXTENDS AgentChannel

CONSTANTS d1, q1, a1, s1, s2, x, y, t1, t2

OneAgent == [k \in {d1, q1} |-> a1]

Start(g, calls, owned, died) ==
  [rows |-> [s \in {s1, s2} |->
               IF s = s1 THEN [status |-> "ACTIVE", alias |-> x] ELSE NoRow],
   grants |-> g, token |-> [a \in {a1} |-> t1],
   calls |-> calls, ownerCalls |-> owned, crashes |-> died]

Scenes ==
  {Start({}, {d1}, 0, 0), Start({<<a1, s1>>}, {d1}, 0, 0),
   Start({}, {d1, q1}, 1, 1)}

NamesAndRequest == {x, s1, d1}

DispatchTwice == [list |-> 1, dispatch |-> 2, read |-> 1]
=============================================================================
