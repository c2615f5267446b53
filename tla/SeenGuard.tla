------------------------------ MODULE SeenGuard ------------------------------
(***************************************************************************)
(* A replay guard without a clock, the one a dispatch counts on: a set of  *)
(* keys.  A key that is in is refused; one that is not is let through once *)
(* and is in from then on, until the guard forgets it or is lost with its  *)
(* process.                                                                *)
(***************************************************************************)
EXTENDS Naturals

CONSTANT Keys

VARIABLES
  seen,    \* the keys that are refused
  through  \* how often each key was let through since the guard started

Init ==
  /\ seen = {}
  /\ through = [k \in Keys |-> 0]

LetThrough(k) ==
  /\ k \notin seen
  /\ seen' = seen \cup {k}
  /\ through' = [through EXCEPT ![k] = @ + 1]

\* Any number of keys may go at a time, and need not.
Forget ==
  /\ seen' \subseteq seen
  /\ UNCHANGED through

Restart ==
  /\ seen' = {}
  /\ through' = [k \in Keys |-> 0]

Next == (\E k \in Keys : LetThrough(k)) \/ Forget \/ Restart

Spec == Init /\ [][Next]_<<seen, through>>
=============================================================================
