--------------------------- MODULE ReplayGuardProofs ---------------------------
(***************************************************************************)
(* Proofs about ReplayGuard, for any requests, windows and delays.         *)
(***************************************************************************)
EXTENDS ReplayGuard, TLAPS

-----------------------------------------------------------------------------
(* The inductive strengthening of the two invariants of the module.        *)

\* A key that is not remembered was last accepted more than the TTL ago.
Remembered ==
  \A k \in Keys : \A i \in 1..Len(accepted[k]) :
    IF seenAt[k] = Nil
      THEN now - accepted[k][i].time > Ttl
      ELSE accepted[k][i].time <= seenAt[k]

\* A signed request is verified, and accepted, before its time is over.
InTime ==
  /\ \A s \in Slots :
       slot[s] # Nil /\ slot[s].request.proof = "signature"
         => slot[s].since <= slot[s].request.at + Skew
  /\ \A k \in Keys : \A i \in 1..Len(accepted[k]) :
       accepted[k][i].request.proof = "signature"
         => accepted[k][i].time <= accepted[k][i].request.at + Skew + MaxDelay

GuardInv == TypeOK /\ AcceptancesFarApart /\ Remembered /\ InTime

-----------------------------------------------------------------------------

Waiting == [request: Requests, since: Nat]

\* The key of a request is one of the guard's keys.
LEMMA RequestKeys == \A r \in Requests : r.key \in Keys
  BY DEF Keys

\* What the guard keeps after the purge.
LEMMA PurgedTypes ==
  ASSUME TypeOK
  PROVE  /\ Purged \in [Keys -> Nat \cup {Nil}]
         /\ \A k \in Keys : Purged[k] # Nil =>
              Purged[k] = seenAt[k] /\ Purged[k] \in Nat /\ Purged[k] <= now
  BY DEF TypeOK, Purged

\* A step of the guard either refuses the delivery or accepts its request.
LEMMA GuardStep ==
  ASSUME TypeOK, NEW s \in Slots, AssertNotReplayed(s)
  PROVE  \E r \in Requests :
           /\ slot[s].request = r
           /\ \/ Purged[r.key] # Nil /\ seenAt' = Purged /\ UNCHANGED accepted
              \/ Purged[r.key] = Nil /\ Pass(r, now)
  <1>1. slot[s] \in Waiting  BY DEF AssertNotReplayed, TypeOK, Waiting
  <1>. QED  BY <1>1 DEF AssertNotReplayed, Waiting

\* Accepting a request keeps the types of the guard's variables.
LEMMA PassTypes ==
  ASSUME TypeOK, NEW r \in Requests, Pass(r, now)
  PROVE  /\ seenAt' \in [Keys -> Nat \cup {Nil}]
         /\ \A k \in Keys : seenAt'[k] # Nil => seenAt'[k] <= now
         /\ accepted' \in [Keys -> Seq(Acceptances)]
  <1>1. r.key \in Keys  BY RequestKeys
  <1>2. [request |-> r, time |-> now] \in Acceptances
    BY DEF Acceptances, TypeOK
  <1>3. accepted[r.key] \in Seq(Acceptances)  BY <1>1 DEF TypeOK
  <1>4. Append(accepted[r.key], [request |-> r, time |-> now])
          \in Seq(Acceptances)
    BY <1>2, <1>3
  <1>5. accepted' \in [Keys -> Seq(Acceptances)]
    BY <1>1, <1>4 DEF Pass, TypeOK
  <1>. QED  BY <1>1, <1>5, PurgedTypes DEF Pass, TypeOK

LEMMA InitTypes == Init => TypeOK
  BY GuardNil DEF Init, TypeOK

\* Every step keeps the types.
LEMMA NextTypes == TypeOK /\ [Next]_vars => TypeOK'
  <1> SUFFICES ASSUME TypeOK, [Next]_vars  PROVE TypeOK'
    OBVIOUS
  <1> USE GuardTimes
  <1>1. ASSUME NEW s \in Slots, AssertNotReplayed(s)  PROVE TypeOK'
    <2>1. /\ seenAt' \in [Keys -> Nat \cup {Nil}]
          /\ \A k \in Keys : seenAt'[k] # Nil => seenAt'[k] <= now
          /\ accepted' \in [Keys -> Seq(Acceptances)]
      BY <1>1, GuardStep, PassTypes, PurgedTypes DEF TypeOK
    <2>2. UNCHANGED <<now, crashes>> /\ slot' = [slot EXCEPT ![s] = Nil]
      BY <1>1 DEF AssertNotReplayed
    <2>3. /\ slot' \in [Slots -> Waiting \cup {Nil}]
          /\ \A t \in Slots : slot'[t] # Nil => slot'[t] = slot[t]
      BY <2>2 DEF TypeOK, Waiting
    <2>. QED  BY <2>1, <2>2, <2>3 DEF TypeOK, Waiting
  <1>2. ASSUME NEW s \in Slots, NEW r \in Requests, Verify(s, r)  PROVE TypeOK'
    <2> DEFINE d == [request |-> r, since |-> now]
    <2>1. d \in Waiting /\ d.since = now  BY DEF TypeOK, Waiting
    <2>2. slot' = [slot EXCEPT ![s] = d]
      BY <1>2 DEF Verify
    <2>3. slot' \in [Slots -> Waiting \cup {Nil}]
      BY <2>1, <2>2 DEF TypeOK, Waiting
    <2>4. ASSUME NEW t \in Slots, slot'[t] # Nil
          PROVE  slot'[t].since \in now - MaxDelay .. now
      <3>1. CASE t = s  BY <2>1, <2>2, <3>1 DEF TypeOK
      <3>2. CASE t # s  BY <2>2, <2>4, <3>2 DEF TypeOK
      <3>. QED  BY <3>1, <3>2
    <2>. QED  BY <1>2, <2>3, <2>4 DEF Verify, TypeOK, Waiting
  <1>3. CASE Tick
    <2>1. ASSUME NEW t \in Slots, slot[t] # Nil
          PROVE  slot[t].since \in now + 1 - MaxDelay .. now + 1
      <3>1. slot[t].since \in Nat /\ slot[t].since <= now
        BY <2>1 DEF TypeOK
      <3>. QED  BY <1>3, <2>1, <3>1 DEF Tick, TypeOK
    <2>2. \A k \in Keys : seenAt[k] # Nil =>
            seenAt[k] \in Nat /\ seenAt[k] <= now + 1
      BY DEF TypeOK
    <2>. QED  BY <1>3, <2>1, <2>2 DEF Tick, TypeOK
  <1>4. CASE Crash
    BY <1>4, GuardNil DEF Crash, TypeOK
  <1>5. CASE UNCHANGED vars
    BY <1>5 DEF vars, TypeOK
  <1>. QED  BY <1>1, <1>2, <1>3, <1>4, <1>5 DEF Next

(***************************************************************************)
(* Every variable keeps its type, and the guard remembers nothing as of a  *)
(* time that has not come.                                                 *)
(***************************************************************************)
THEOREM GuardTypes == Spec => []TypeOK
  BY InitTypes, NextTypes, PTL DEF Spec

-----------------------------------------------------------------------------
\* What an acceptance adds to the history.
LEMMA PassAppends ==
  ASSUME TypeOK, NEW r \in Requests, Pass(r, now)
  PROVE  \A k \in Keys :
           /\ k # r.key => accepted'[k] = accepted[k] /\ seenAt'[k] = Purged[k]
           /\ k = r.key =>
                /\ seenAt'[k] = now
                /\ Len(accepted'[k]) = Len(accepted[k]) + 1
                /\ \A i \in 1..Len(accepted[k]) :
                     accepted'[k][i] = accepted[k][i]
                /\ accepted'[k][Len(accepted[k]) + 1] =
                     [request |-> r, time |-> now]
  BY PurgedTypes DEF Pass, TypeOK

\* What a purged entry says of the acceptances of its key.
LEMMA PurgedRemembers ==
  ASSUME GuardInv, NEW k \in Keys, NEW i \in 1..Len(accepted[k])
  PROVE  /\ accepted[k][i] \in Acceptances /\ accepted[k][i].time \in Nat
         /\ IF Purged[k] = Nil
              THEN now - accepted[k][i].time > Ttl
              ELSE accepted[k][i].time <= Purged[k]
  <1>1. accepted[k] \in Seq(Acceptances)  BY DEF GuardInv, TypeOK
  <1>a. accepted[k][i] \in Acceptances  BY <1>1
  <1>2. accepted[k][i] \in Acceptances /\ accepted[k][i].time \in Nat
    BY <1>a DEF Acceptances
  <1>3. seenAt[k] # Nil => seenAt[k] \in Nat /\ now \in Nat
    BY DEF GuardInv, TypeOK
  <1>. QED  BY <1>2, <1>3, GuardTimes
            DEF GuardInv, Remembered, Purged, Expired

\* A step that changes no history but lets time pass or entries go keeps
\* the distance of the acceptances.
LEMMA QuietInv ==
  ASSUME GuardInv, UNCHANGED accepted, now' \in Nat, now <= now',
         \A k \in Keys : seenAt'[k] = seenAt[k] \/ seenAt'[k] = Purged[k]
  PROVE  AcceptancesFarApart' /\ Remembered'
  <1>1. AcceptancesFarApart'  BY DEF GuardInv, AcceptancesFarApart
  <1>2. ASSUME NEW k \in Keys, NEW i \in 1..Len(accepted[k])
        PROVE  IF seenAt'[k] = Nil
                 THEN now' - accepted[k][i].time > Ttl
                 ELSE accepted[k][i].time <= seenAt'[k]
    <2>1. now \in Nat /\ Ttl \in Nat  BY GuardTimes DEF GuardInv, TypeOK
    <2>2. accepted[k][i].time \in Nat  BY PurgedRemembers
    <2>3. CASE seenAt'[k] = seenAt[k]
      BY <2>1, <2>2, <2>3 DEF GuardInv, Remembered
    <2>4. CASE seenAt'[k] = Purged[k]
      BY <2>1, <2>2, <2>4, PurgedRemembers
    <2>. QED  BY <2>3, <2>4
  <1>. QED  BY <1>1, <1>2 DEF Remembered

\* An acceptance is more than the TTL after those of its key.
LEMMA PassInv ==
  ASSUME GuardInv, NEW r \in Requests, Purged[r.key] = Nil, Pass(r, now),
         UNCHANGED now
  PROVE  AcceptancesFarApart' /\ Remembered'
  <1> USE GuardTimes
  <1>0. TypeOK /\ now \in Nat  BY DEF GuardInv, TypeOK
  <1>1. ASSUME NEW k \in Keys, NEW i \in 1..Len(accepted'[k]),
               NEW j \in 1..Len(accepted'[k]), i < j
        PROVE  accepted'[k][j].time - accepted'[k][i].time > Ttl
    <2>1. CASE k # r.key
      BY <1>0, <1>1, <2>1, PassAppends DEF GuardInv, AcceptancesFarApart
    <2>2. CASE k = r.key
      <3>a. /\ seenAt'[k] = now
            /\ Len(accepted'[k]) = Len(accepted[k]) + 1
            /\ \A n \in 1..Len(accepted[k]) : accepted'[k][n] = accepted[k][n]
            /\ accepted'[k][Len(accepted[k]) + 1] =
                 [request |-> r, time |-> now]
        BY <1>0, <2>2, PassAppends
      <3>1. Len(accepted[k]) \in Nat  BY <1>0 DEF TypeOK
      <3>2. /\ Len(accepted'[k]) = Len(accepted[k]) + 1
            /\ i \in 1..Len(accepted[k]) /\ accepted'[k][i] = accepted[k][i]
        BY <1>1, <3>1, <3>a
      <3>3. CASE j = Len(accepted[k]) + 1
        BY <1>0, <2>2, <3>2, <3>3, <3>a, PurgedRemembers
      <3>4. CASE j \in 1..Len(accepted[k])
        BY <1>0, <1>1, <2>2, <3>2, <3>4, PassAppends
           DEF GuardInv, AcceptancesFarApart
      <3>. QED  BY <1>1, <3>1, <3>2, <3>3, <3>4
    <2>. QED  BY <2>1, <2>2
  <1>2. ASSUME NEW k \in Keys, NEW i \in 1..Len(accepted'[k])
        PROVE  IF seenAt'[k] = Nil
                 THEN now - accepted'[k][i].time > Ttl
                 ELSE accepted'[k][i].time <= seenAt'[k]
    <2>1. CASE k # r.key
      BY <1>0, <1>2, <2>1, PassAppends, PurgedRemembers
    <2>2. CASE k = r.key
      <3>a. /\ seenAt'[k] = now
            /\ Len(accepted'[k]) = Len(accepted[k]) + 1
            /\ \A n \in 1..Len(accepted[k]) : accepted'[k][n] = accepted[k][n]
            /\ accepted'[k][Len(accepted[k]) + 1] =
                 [request |-> r, time |-> now]
        BY <1>0, <2>2, PassAppends
      <3>1. Len(accepted[k]) \in Nat  BY <1>0 DEF TypeOK
      <3>2. seenAt'[k] = now /\ now # Nil
        BY <1>0, <2>2, PassAppends, GuardNil
      <3>3. CASE i = Len(accepted[k]) + 1
        BY <1>0, <3>2, <3>3, <3>a
      <3>4. CASE i \in 1..Len(accepted[k])
        <4>1. accepted'[k][i] = accepted[k][i]  BY <3>4, <3>a
        <4>2. accepted[k][i].time \in Nat /\ accepted[k][i].time <= now
          <5>1. accepted[k][i].time \in Nat  BY <3>4, PurgedRemembers
          <5>2. seenAt[k] # Nil => seenAt[k] \in Nat /\ seenAt[k] <= now
            BY <1>0 DEF TypeOK
          <5>. QED  BY <1>0, <3>4, <5>1, <5>2 DEF GuardInv, Remembered
        <4>. QED  BY <3>2, <4>1, <4>2
      <3>. QED  BY <1>2, <3>1, <3>3, <3>4, <3>a
    <2>. QED  BY <2>1, <2>2
  <1>. QED  BY <1>1, <1>2 DEF AcceptancesFarApart, Remembered

\* Every step keeps the two checks in time.
LEMMA NextInTime ==
  ASSUME GuardInv, Next
  PROVE  InTime'
  <1> USE GuardTimes
  <1>0. TypeOK /\ InTime  BY DEF GuardInv
  <1>1. ASSUME NEW s \in Slots, AssertNotReplayed(s)  PROVE InTime'
    <2>1. UNCHANGED now /\ slot' = [slot EXCEPT ![s] = Nil] /\ slot[s] # Nil
      BY <1>1 DEF AssertNotReplayed
    <2>2. \A t \in Slots : slot'[t] # Nil => slot'[t] = slot[t]
      BY <1>0, <2>1 DEF TypeOK
    <2>3. PICK r \in Requests :
            /\ slot[s].request = r
            /\ \/ Purged[r.key] # Nil /\ seenAt' = Purged /\ UNCHANGED accepted
               \/ Purged[r.key] = Nil /\ Pass(r, now)
      BY <1>0, <1>1, GuardStep
    <2>4. CASE UNCHANGED accepted
      BY <1>0, <2>2, <2>4 DEF InTime
    <2>5. CASE Pass(r, now)
      <3>1. r.proof = "signature" => now <= r.at + Skew + MaxDelay
        <4>1. slot[s].since \in now - MaxDelay .. now /\ now \in Nat
          BY <1>0, <2>1 DEF TypeOK
        <4>2. slot[s].since \in Nat
          BY <1>0, <2>1 DEF TypeOK
        <4>. QED  BY <1>0, <2>1, <2>3, <4>1, <4>2, GuardRequests DEF InTime
      <3>2. ASSUME NEW k \in Keys, NEW i \in 1..Len(accepted'[k]),
                   accepted'[k][i].request.proof = "signature"
            PROVE  accepted'[k][i].time <=
                     accepted'[k][i].request.at + Skew + MaxDelay
        <4>1. Len(accepted[k]) \in Nat  BY <1>0 DEF TypeOK
        <4>2. CASE i \in 1..Len(accepted[k])
          BY <1>0, <2>5, <3>2, <4>2, PassAppends DEF InTime
        <4>3. CASE i \notin 1..Len(accepted[k])
          <5>1. k = r.key  BY <1>0, <2>5, <3>2, <4>3, PassAppends
          <5>2. /\ Len(accepted'[k]) = Len(accepted[k]) + 1
                /\ accepted'[k][Len(accepted[k]) + 1] =
                     [request |-> r, time |-> now]
            BY <1>0, <2>5, <5>1, PassAppends
          <5>3. accepted'[k][i] = [request |-> r, time |-> now]
            BY <3>2, <4>1, <4>3, <5>2
          <5>. QED  BY <3>1, <3>2, <5>3
        <4>. QED  BY <4>2, <4>3
      <3>. QED  BY <1>0, <2>2, <3>2 DEF InTime
    <2>. QED  BY <2>3, <2>4, <2>5
  <1>2. ASSUME NEW s \in Slots, NEW r \in Requests, Verify(s, r)  PROVE InTime'
    <2>1. r.proof = "signature" => now <= r.at + Skew
      BY <1>0, <1>2, GuardRequests DEF Verify, InRange, TypeOK
    <2>2. UNCHANGED accepted
          /\ slot' = [slot EXCEPT ![s] = [request |-> r, since |-> now]]
      BY <1>2 DEF Verify
    <2>3. \A t \in Slots : \/ slot'[t] = slot[t]
                           \/ slot'[t] = [request |-> r, since |-> now]
      BY <1>0, <2>2 DEF TypeOK
    <2>. QED  BY <1>0, <2>1, <2>2, <2>3 DEF InTime
  <1>3. CASE Tick  BY <1>0, <1>3 DEF Tick, InTime
  <1>4. CASE Crash  BY <1>4 DEF Crash, InTime
  <1>. QED  BY <1>1, <1>2, <1>3, <1>4 DEF Next

LEMMA InitInv == Init => GuardInv
  BY InitTypes DEF Init, GuardInv, AcceptancesFarApart, Remembered, InTime

\* Every step keeps the inductive invariant.
LEMMA NextInv == GuardInv /\ [Next]_vars => GuardInv'
  <1> SUFFICES ASSUME GuardInv, [Next]_vars  PROVE GuardInv'
    OBVIOUS
  <1>0. TypeOK /\ TypeOK'  BY NextTypes DEF GuardInv
  <1>a. now \in Nat /\ now' \in Nat  BY <1>0 DEF TypeOK
  <1>1. ASSUME NEW s \in Slots, AssertNotReplayed(s)
        PROVE  AcceptancesFarApart' /\ Remembered'
    <2>1. UNCHANGED now  BY <1>1 DEF AssertNotReplayed
    <2>2. PICK r \in Requests :
            \/ Purged[r.key] # Nil /\ seenAt' = Purged /\ UNCHANGED accepted
            \/ Purged[r.key] = Nil /\ Pass(r, now)
      BY <1>0, <1>1, GuardStep
    <2>. QED  BY <1>a, <2>1, <2>2, PassInv, QuietInv
  <1>2. ASSUME NEW s \in Slots, NEW r \in Requests, Verify(s, r)
        PROVE  AcceptancesFarApart' /\ Remembered'
    BY <1>2, <1>a, QuietInv DEF Verify
  <1>3. CASE Tick
    <2>1. AcceptancesFarApart' /\ Remembered'
      BY <1>3, <1>a, QuietInv DEF Tick
    <2>. QED  BY <1>0, <1>3, <2>1, NextInTime DEF GuardInv, Next
  <1>4. CASE Crash
    <2>1. AcceptancesFarApart' /\ Remembered'
      BY <1>4 DEF Crash, AcceptancesFarApart, Remembered
    <2>. QED  BY <1>0, <1>4, <2>1, NextInTime DEF GuardInv, Next
  <1>5. CASE UNCHANGED vars
    BY <1>0, <1>5 DEF vars, GuardInv, AcceptancesFarApart, Remembered, InTime
  <1>. QED  BY <1>0, <1>1, <1>2, <1>3, <1>4, <1>5, NextInTime
            DEF GuardInv, Next

LEMMA InvHolds == Spec => []GuardInv
  BY InitInv, NextInv, PTL DEF Spec

(***************************************************************************)
(* Two acceptances of one key are more than the TTL apart, for any number  *)
(* of deliveries at a time and whatever proofs they carry.                 *)
(***************************************************************************)
THEOREM FarApart == Spec => []AcceptancesFarApart
  <1>1. GuardInv => AcceptancesFarApart  BY DEF GuardInv
  <1>. QED  BY <1>1, InvHolds, PTL

(***************************************************************************)
(* A signed request accepted in the later part of its time is not accepted *)
(* again, for any windows and any delay between the two checks.            *)
(***************************************************************************)
THEOREM SignedRequestOnce == Spec => []SignedOnce
  <1>1. GuardInv => SignedOnce
    <2> SUFFICES ASSUME GuardInv, NEW k \in Keys,
                        NEW i \in 1..Len(accepted[k]),
                        NEW j \in 1..Len(accepted[k]), i < j,
                        accepted[k][i].request.proof = "signature",
                        accepted[k][j].request = accepted[k][i].request
                 PROVE  accepted[k][i].time <
                          accepted[k][i].request.at + (Skew - Ttl) + MaxDelay
      BY DEF SignedOnce
    <2>1. /\ accepted[k][j].time <=
               accepted[k][i].request.at + Skew + MaxDelay
          /\ accepted[k][j].time - accepted[k][i].time > Ttl
      BY DEF GuardInv, InTime, AcceptancesFarApart
    <2>2. /\ accepted[k][i].time \in Nat /\ accepted[k][j].time \in Nat
          /\ accepted[k][i].request \in Requests
      BY PurgedRemembers DEF Acceptances
    <2>3. accepted[k][i].request.at \in Nat  BY <2>2, GuardRequests
    <2>4. \A t, u, a \in Nat :
            u <= a + Skew + MaxDelay /\ u - t > Ttl
              => t < a + (Skew - Ttl) + MaxDelay
      BY GuardTimes
    <2>. QED  BY <2>1, <2>2, <2>3, <2>4
  <1>. QED  BY <1>1, InvHolds, PTL

-----------------------------------------------------------------------------
(* The guard with a clock implements the one without.                      *)

\* A key is refused from its acceptance until the TTL is over.
LEMMA RefusedKeys ==
  ASSUME TypeOK, NEW k \in Keys
  PROVE  k \in Refused <=> seenAt[k] # Nil /\ now - seenAt[k] <= Ttl
  BY GuardTimes DEF TypeOK, Refused, Purged, Expired

LEMMA PassLetsThrough ==
  ASSUME TypeOK, TypeOK', NEW r \in Requests, Purged[r.key] = Nil, Pass(r, now),
         UNCHANGED now
  PROVE  Guard!LetThrough(r.key)
  <1>1. r.key \in Keys /\ r.key \notin Refused
    BY RequestKeys DEF Refused
  <1>2. Refused' = Refused \cup {r.key}
    <2>1. ASSUME NEW k \in Keys
          PROVE  k \in Refused' <=> k \in Refused \/ k = r.key
      <3>1. k \in Refused' <=> seenAt'[k] # Nil /\ now - seenAt'[k] <= Ttl
        BY RefusedKeys, GuardTimes DEF TypeOK, Refused, Purged, Expired
      <3>2. CASE k = r.key
        <4>1. seenAt'[k] = now /\ now \in Nat /\ now # Nil
          BY <3>2, PassAppends, GuardNil DEF TypeOK
        <4>. QED  BY <3>1, <3>2, <4>1, GuardTimes
      <3>3. CASE k # r.key
        <4>1. seenAt'[k] = Purged[k]
          BY <3>3, PassAppends
        <4>2. k \in Refused <=> Purged[k] # Nil /\ now - Purged[k] <= Ttl
          BY RefusedKeys, PurgedTypes DEF Refused
        <4>. QED  BY <3>1, <3>3, <4>1, <4>2
      <3>. QED  BY <3>2, <3>3
    <2>. QED  BY <1>1, <2>1 DEF Refused
  <1>3. [k \in Keys |-> Len(accepted'[k])] =
          [[k \in Keys |-> Len(accepted[k])] EXCEPT ![r.key] = @ + 1]
    <2>1. \A k \in Keys : Len(accepted'[k]) =
            IF k = r.key THEN Len(accepted[k]) + 1 ELSE Len(accepted[k])
      BY PassAppends
    <2>. QED  BY <1>1, <2>1
  <1>. QED  BY <1>1, <1>2, <1>3 DEF Guard!LetThrough

\* Time passes, entries are purged: keys may go, none comes in.
LEMMA QuietForgets ==
  ASSUME TypeOK, TypeOK', UNCHANGED accepted, now <= now',
         \A k \in Keys : seenAt'[k] = seenAt[k] \/ seenAt'[k] = Purged[k]
  PROVE  Guard!Forget
  <1>1. ASSUME NEW k \in Keys, k \in Refused'  PROVE k \in Refused
    <2>1. seenAt'[k] # Nil /\ now' - seenAt'[k] <= Ttl
      BY <1>1, GuardTimes DEF TypeOK, Refused, Purged, Expired
    <2>2. seenAt'[k] = seenAt[k] /\ seenAt[k] \in Nat /\ now \in Nat /\ now' \in Nat
      BY <2>1, PurgedTypes DEF TypeOK
    <2>3. now - seenAt[k] <= Ttl
      BY <2>1, <2>2, GuardTimes
    <2>. QED  BY <2>1, <2>2, <2>3, RefusedKeys
  <1>. QED  BY <1>1 DEF Refused, Guard!Forget

LEMMA NextImplements ==
  ASSUME TypeOK, TypeOK', [Next]_vars
  PROVE  [Guard!Next]_<<Refused, [k \in Keys |-> Len(accepted[k])]>>
  <1>a. now \in Nat /\ now' \in Nat  BY DEF TypeOK
  <1>1. ASSUME NEW s \in Slots, AssertNotReplayed(s)  PROVE Guard!Next
    <2>1. UNCHANGED now  BY <1>1 DEF AssertNotReplayed
    <2>2. PICK r \in Requests :
            \/ Purged[r.key] # Nil /\ seenAt' = Purged /\ UNCHANGED accepted
            \/ Purged[r.key] = Nil /\ Pass(r, now)
      BY <1>1, GuardStep
    <2>3. CASE Pass(r, now) /\ Purged[r.key] = Nil
      BY <2>1, <2>3, PassLetsThrough, RequestKeys DEF Guard!Next
    <2>4. CASE seenAt' = Purged /\ UNCHANGED accepted
      BY <1>a, <2>1, <2>4, QuietForgets DEF Guard!Next
    <2>. QED  BY <2>2, <2>3, <2>4
  <1>2. ASSUME NEW s \in Slots, NEW r \in Requests, Verify(s, r)
        PROVE  Guard!Next
    BY <1>a, <1>2, QuietForgets DEF Verify, Guard!Next
  <1>3. CASE Tick
    BY <1>a, <1>3, QuietForgets DEF Tick, Guard!Next
  <1>4. CASE Crash
    <2>1. Refused' = {}
      BY <1>4 DEF Crash, Refused, Purged
    <2>2. \A k \in Keys : Len(accepted'[k]) = 0
      BY <1>4 DEF Crash
    <2>3. [k \in Keys |-> Len(accepted'[k])] = [k \in Keys |-> 0]
      BY <2>2
    <2>. QED  BY <2>1, <2>3 DEF Guard!Restart, Guard!Next
  <1>5. CASE UNCHANGED vars
    BY <1>a, <1>5, QuietForgets DEF vars, Guard!Next
  <1>. QED  BY <1>1, <1>2, <1>3, <1>4, <1>5 DEF Next

(***************************************************************************)
(* The guard that keeps times is a set that lets each key through once     *)
(* while it is in: what the dispatch model takes it for, for any requests, *)
(* windows and delays.                                                     *)
(***************************************************************************)
THEOREM GuardIsSeenGuard == Spec => ImplementsSeenGuard
  <1>1. Init => Guard!Init
    <2> SUFFICES ASSUME Init  PROVE Guard!Init
      OBVIOUS
    <2>1. Refused = {}
      BY DEF Init, Refused, Purged
    <2>2. \A k \in Keys : Len(accepted[k]) = 0
      BY DEF Init
    <2>. QED  BY <2>1, <2>2 DEF Guard!Init
  <1>2. TypeOK /\ TypeOK' /\ [Next]_vars
          => [Guard!Next]_<<Refused, [k \in Keys |-> Len(accepted[k])]>>
    BY NextImplements
  <1>. QED  BY <1>1, <1>2, GuardTypes, PTL DEF Spec, ImplementsSeenGuard, Guard!Spec
=============================================================================
