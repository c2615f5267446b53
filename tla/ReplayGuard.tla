------------------------------ MODULE ReplayGuard -----------------------------
(***************************************************************************)
(* The two time windows an accepted request passes: the verifier refuses a *)
(* signed request whose requested_at is further than Skew from its clock   *)
(* (SignatureAgentProofVerifier), the guard refuses a key it has seen in   *)
(* the last Ttl (InMemoryReplayGuard).  They read the clock at different   *)
(* awaits, and a request with a session token passes no skew check.  Both  *)
(* windows are five minutes unless the vault is given others.              *)
(*                                                                         *)
(* The clock does not go back.  Deliveries the verifier refuses change     *)
(* nothing and have no action.                                             *)
(***************************************************************************)
EXTENDS Integers, Sequences

CONSTANTS
  Requests,    \* the requests agents deliver, each any number of times
  Slots,       \* deliveries between the two checks at the same time
  Skew,        \* the verifier's maxSkewMs
  Ttl,         \* the guard's maxSkewMs
  MaxDelay,    \* bound: how long a delivery is between the two checks
  MaxClock,    \* bound: the clock
  MaxCrashes,  \* bound: how often the vault process dies
  Nil

Keys == {r.key : r \in Requests}

ASSUME GuardRequests ==
  \A r \in Requests : r.proof \in {"token", "signature"} /\ r.at \in Nat
ASSUME GuardTimes ==
  /\ Skew \in Nat /\ Ttl \in Nat /\ MaxDelay \in Nat
  /\ MaxClock \in Nat /\ MaxCrashes \in Nat
ASSUME GuardNil == Nil \notin Nat \cup [request: Requests, since: Nat]

VARIABLES
  now,      \* the clock both checks read
  seenAt,   \* _seen: when each key was last accepted, Nil where it is not in
  slot,     \* a verified delivery waiting for the guard: [request, since]
  \* history: what the guard has accepted since it was started, [request, time]
  accepted,
  crashes

vars == <<now, seenAt, slot, accepted, crashes>>

Init ==
  /\ now = 0
  /\ seenAt = [k \in Keys |-> Nil]
  /\ slot = [s \in Slots |-> Nil]
  /\ accepted = [k \in Keys |-> <<>>]
  /\ crashes = 0

\* Mutant of InRange: the timestamp of a signature is not compared.
AnyTime(r) == r.proof \in {"token", "signature"}

\* A valid token is enough; a signature must be made near this time.
InRange(r) ==
  \/ r.proof = "token"
  \/ r.proof = "signature" /\ now - r.at <= Skew /\ r.at - now <= Skew

\* SignatureAgentProofVerifier.verify lets a delivery pass.
Verify(s, r) ==
  /\ slot[s] = Nil
  /\ InRange(r)
  /\ slot' = [slot EXCEPT ![s] = [request |-> r, since |-> now]]
  /\ UNCHANGED <<now, seenAt, accepted, crashes>>

\* Mutant of Expired: an entry goes when it is as old as the TTL.
ExpiredEarly(k) == seenAt[k] # Nil /\ now - seenAt[k] >= Ttl

Expired(k) == seenAt[k] # Nil /\ now - seenAt[k] > Ttl

\* _seen after the purge.
Purged == [k \in Keys |-> IF Expired(k) THEN Nil ELSE seenAt[k]]

Pass(r, at) ==
  /\ seenAt' = [Purged EXCEPT ![r.key] = at]
  /\ accepted' = [accepted EXCEPT
                    ![r.key] = Append(@, [request |-> r, time |-> now])]

\* Mutant of AssertNotReplayed: the key is remembered as of requested_at.
AssertAsOfRequest(s) ==
  /\ slot[s] # Nil
  /\ LET r == slot[s].request
     IN  IF Purged[r.key] = Nil
           THEN Pass(r, r.at)
           ELSE seenAt' = Purged /\ UNCHANGED accepted
  /\ slot' = [slot EXCEPT ![s] = Nil]
  /\ UNCHANGED <<now, crashes>>

\* Every call purges, one that is refused too.
AssertNotReplayed(s) ==
  /\ slot[s] # Nil
  /\ LET r == slot[s].request
     IN  IF Purged[r.key] = Nil
           THEN Pass(r, now)
           ELSE seenAt' = Purged /\ UNCHANGED accepted
  /\ slot' = [slot EXCEPT ![s] = Nil]
  /\ UNCHANGED <<now, crashes>>

Tick ==
  /\ now < MaxClock
  /\ \A s \in Slots : slot[s] # Nil => now < slot[s].since + MaxDelay
  /\ now' = now + 1
  /\ UNCHANGED <<seenAt, slot, accepted, crashes>>

\* The guard is in memory only: it is lost with the process.
Crash ==
  /\ crashes < MaxCrashes
  /\ crashes' = crashes + 1
  /\ seenAt' = [k \in Keys |-> Nil]
  /\ slot' = [s \in Slots |-> Nil]
  /\ accepted' = [k \in Keys |-> <<>>]
  /\ UNCHANGED now

Next ==
  \/ \E s \in Slots : AssertNotReplayed(s) \/ \E r \in Requests : Verify(s, r)
  \/ Tick
  \/ Crash

Spec == Init /\ [][Next]_vars
-----------------------------------------------------------------------------
Acceptances == [request: Requests, time: Nat]

\* Every variable has its type and nothing is remembered, or waiting, as of
\* a time that has not come.
TypeOK ==
  /\ now \in Nat
  /\ seenAt \in [Keys -> Nat \cup {Nil}]
  /\ \A k \in Keys : seenAt[k] # Nil => seenAt[k] <= now
  /\ slot \in [Slots -> [request: Requests, since: Nat] \cup {Nil}]
  /\ \A s \in Slots : slot[s] # Nil => slot[s].since \in now - MaxDelay .. now
  /\ accepted \in [Keys -> Seq(Acceptances)]
  /\ crashes \in Nat

(***************************************************************************)
(* As long as the guard lives, two acceptances of one key -- by whatever   *)
(* requests, tokens and signatures -- are more than the TTL apart.         *)
(***************************************************************************)
AcceptancesFarApart ==
  \A k \in Keys : \A i, j \in 1..Len(accepted[k]) :
    i < j => accepted[k][j].time - accepted[k][i].time > Ttl

(***************************************************************************)
(* As long as the guard lives, a signed request that is accepted no        *)
(* earlier than it was made (later by the difference of the two windows    *)
(* and by the time between the two checks) is never accepted again: when   *)
(* its key is forgotten its timestamp is out of range.                     *)
(***************************************************************************)
SignedOnce ==
  \A k \in Keys : \A i, j \in 1..Len(accepted[k]) :
    LET r == accepted[k][i].request
    IN  i < j /\ r.proof = "signature" /\ accepted[k][j].request = r
          => accepted[k][i].time < r.at + (Skew - Ttl) + MaxDelay

\* The keys the guard would refuse now.
Refused == {k \in Keys : Purged[k] # Nil}

Guard == INSTANCE SeenGuard WITH
  seen    <- Refused,
  through <- [k \in Keys |-> Len(accepted[k])]

(***************************************************************************)
(* The timed guard does what the dispatch model asks of a set of keys: it  *)
(* never lets a key through while it is in, takes it in with the very call *)
(* that lets it through, and that call drops no other key, though it       *)
(* purges the old ones first.                                              *)
(***************************************************************************)
ImplementsSeenGuard == Guard!Spec
=============================================================================
