------------------------- MODULE PendingEventsProofs -------------------------
(***************************************************************************)
(* Proofs about PendingEvents, for any number of requests and subscribers, *)
(* any replay limit and any length of the log.                             *)
(***************************************************************************)
EXTENDS PendingEvents, TLAPS

-----------------------------------------------------------------------------
(* The inductive strengthening of the properties of the module.            *)

\* A subscription has heard entries of requests only, and an event that is
\* about to be saved has its id.
EntriesOK ==
  /\ \A r \in Requests : hpc[r] = "asked" => base[r] # Nil
  /\ \A s \in Subscribers : \A n \in heard[s] \cup inbox[s] :
       n \in 1..Len(log) /\ log[n] \in Requests

TypeInv == TypeOK /\ EntriesOK

\* A request that is pending, or will be, has been announced.
Announced(r) == \E n \in 1..Len(log) : log[n] = r

PendingIsAnnounced ==
  \A r \in Requests :
    Pending(r) \/ hpc[r] \in {"announced", "logged", "asked", "saved"}
      => Announced(r)

HeardInv == PendingIsAnnounced /\ PendingIsHeard

\* A request is pending only after its record was saved and until it is
\* decided; what is heard after the replay is the last entry before that.
PendingIsSaved ==
  \A r \in Requests :
    /\ Pending(r) => hpc[r] \in {"saved", "done"} /\ opc[r] = "idle"
    /\ hpc[r] \notin {"saved", "done"} => opc[r] = "idle"

HeardLiveIsDone ==
  \A s \in Subscribers : \A n \in heard[s] :
    n > from[s] => hpc[log[n]] = "done"

RepeatInv == PendingIsSaved /\ HeardLiveIsDone /\ RepeatsOnlyByReplay

-----------------------------------------------------------------------------

USE RequestsAssumption, EventBounds, EventNil

-----------------------------------------------------------------------------
(* The log only grows at its end.                                          *)

Grown(e) ==
  /\ Len(log') = Len(log) + 1
  /\ log'[Len(log) + 1] = e
  /\ \A n \in 1..Len(log) : log'[n] = log[n]

LEMMA Growth ==
  ASSUME TypeOK, NEW e \in Requests \cup {Other}, log' = Append(log, e)
  PROVE  /\ log' \in Seq(Requests \cup {Other}) /\ Len(log) \in Nat
         /\ Grown(e)
BY DEF TypeOK, Grown

\* An entry is heard by the live subscribers to which it is of interest.
Hears(r, s) == s \in live /\ Interesting(r, cursor[s])

LEMMA Heard ==
  ASSUME TypeOK, NEW r \in Requests, AppendEntry(r)
  PROVE  /\ Grown(r) /\ log' \in Seq(Requests \cup {Other}) /\ Len(log) \in Nat
         /\ heard' = [s \in Subscribers |->
              heard[s] \cup IF Hears(r, s) THEN {Len(log) + 1} ELSE {}]
         /\ inbox' = [s \in Subscribers |->
              inbox[s] \cup IF Hears(r, s) THEN {Len(log) + 1} ELSE {}]
BY Growth DEF AppendEntry, Hears

\* The steps in three groups: those that append an entry of a request, those
\* of a subscription, and the others.
AppendStep(r) ==
  \/ Announce(r) \/ OutcomeAudit(r) \/ AskAudit(r) \/ DecideAgentAudit(r)

SilentStep(r) ==
  \/ RecordRequest(r) \/ OutcomeSave(r) \/ AskRead(r) \/ AskSave(r)
  \/ Decide(r)

OtherStep == OtherEntry \/ \E r \in Requests : DecideAudit(r)

LEMMA Steps ==
  Next <=>
    \/ \E r \in Requests : AppendStep(r) \/ SilentStep(r)
    \/ \E s \in Subscribers : Subscription(s)
    \/ OtherStep \/ Crash
BY DEF Next, Dispatch, Approval, AppendStep, SilentStep, OtherStep

-----------------------------------------------------------------------------
(* Types.                                                                  *)

LEMMA InitTypes == Init => TypeInv
BY DEF Init, TypeInv, TypeOK, EntriesOK, Statuses, HandlerPCs, OwnerPCs, Pending

LEMMA AppendTypes ==
  ASSUME TypeInv, NEW r \in Requests, AppendStep(r)
  PROVE  TypeInv'
<1>. USE DEF TypeInv
<1>1. /\ AppendEntry(r)
      /\ UNCHANGED <<now, status, event, base, listening, consumers, crashes>>
  BY DEF AppendStep, Announce, OutcomeAudit, AskAudit, DecideAgentAudit
<1>2. /\ Grown(r) /\ log' \in Seq(Requests \cup {Other}) /\ Len(log) \in Nat
      /\ heard' = [s \in Subscribers |->
           heard[s] \cup IF Hears(r, s) THEN {Len(log) + 1} ELSE {}]
      /\ inbox' = [s \in Subscribers |->
           inbox[s] \cup IF Hears(r, s) THEN {Len(log) + 1} ELSE {}]
  BY <1>1, Heard
<1>3. /\ hpc' \in [Requests -> HandlerPCs]
      /\ \A q \in Requests : hpc'[q] = "asked" => hpc[q] = "asked"
      /\ opc' \in [Requests -> OwnerPCs]
  BY DEF AppendStep, Announce, OutcomeAudit, AskAudit, DecideAgentAudit, Step,
       TypeOK, HandlerPCs, OwnerPCs
<1>4. heard' \in [Subscribers -> SUBSET Nat] /\ inbox' \in [Subscribers -> SUBSET Nat]
  BY <1>2 DEF TypeOK
<1>5. ASSUME NEW s \in Subscribers, NEW n \in heard'[s] \cup inbox'[s]
      PROVE  n \in 1..Len(log') /\ log'[n] \in Requests
  <2>1. n \in heard[s] \cup inbox[s] \/ n = Len(log) + 1
    BY <1>2, <1>5
  <2>. QED  BY <1>2, <2>1 DEF EntriesOK, Grown
<1>6. EntriesOK'
  BY <1>1, <1>3, <1>5 DEF EntriesOK
<1>. QED
  BY <1>1, <1>2, <1>3, <1>4, <1>6 DEF TypeOK, Pending, listening, consumers

LEMMA SilentTypes ==
  ASSUME TypeInv, NEW r \in Requests, SilentStep(r)
  PROVE  TypeInv'
<1>. USE DEF TypeInv, TypeOK, EntriesOK, Pending, Step, Statuses, HandlerPCs,
       OwnerPCs, listening, consumers
<1>1. CASE RecordRequest(r)
  BY <1>1 DEF RecordRequest
<1>2. CASE OutcomeSave(r)
  BY <1>2 DEF OutcomeSave
<1>3. CASE AskRead(r)
  <2>1. now' \in 0..MaxTime /\ <<now', r>> \in EventIds
    BY <1>3 DEF AskRead, EventIds
  <2>2. base' \in [Requests -> EventIds \cup {Nil}]
    BY <1>3, <2>1 DEF AskRead
  <2>3. \A q \in Requests : hpc'[q] = "asked" => base'[q] # Nil
    BY <1>3, <2>1 DEF AskRead
  <2>4. hpc' \in [Requests -> HandlerPCs]
    BY <1>3 DEF AskRead
  <2>. QED  BY <1>3, <2>1, <2>2, <2>3, <2>4 DEF AskRead
<1>4. CASE AskSave(r)
  <2>1. base[r] \in EventIds
    BY <1>4 DEF AskSave
  <2>2. /\ status' \in [Requests -> Statuses]
        /\ event' \in [Requests -> EventIds \cup {Nil}]
        /\ base' \in [Requests -> EventIds \cup {Nil}]
        /\ hpc' \in [Requests -> HandlerPCs]
    BY <1>4, <2>1 DEF AskSave
  <2>3. \A q \in Requests : Pending(q)' => event'[q] # Nil
    BY <1>4, <2>1 DEF AskSave
  <2>4. \A q \in Requests : hpc'[q] = "asked" => base'[q] # Nil
    BY <1>4 DEF AskSave
  <2>. QED  BY <1>4, <2>2, <2>3, <2>4 DEF AskSave
<1>5. CASE Decide(r)
  BY <1>5 DEF Decide
<1>. QED  BY <1>1, <1>2, <1>3, <1>4, <1>5 DEF SilentStep

LEMMA SubscriptionTypes ==
  ASSUME TypeInv, NEW s \in Subscribers, Subscription(s)
  PROVE  TypeInv'
<1>. USE DEF TypeInv, TypeOK, EntriesOK, Pending, records, handlers, listening,
       consumers
<1>1. ASSUME NEW c \in EventIds \cup {Nil}, Subscribe(s, c)
      PROVE  TypeInv'
  <2>1. /\ Replayed(c) \in SUBSET Nat
        /\ \A n \in Replayed(c) : n \in 1..Len(log) /\ log[n] \in Requests
    BY DEF Replayed
  <2>2. Len(log) \in Nat
    OBVIOUS
  <2>3. UNCHANGED <<records, handlers, consumers, crashes>>
    BY <1>1 DEF Subscribe
  <2>4. EntriesOK'
    BY <1>1, <2>1, <2>3 DEF Subscribe
  <2>. QED  BY <1>1, <2>1, <2>2, <2>3, <2>4 DEF Subscribe
<1>2. CASE Deliver(s)
  <2>1. PICK n \in inbox[s] :
          /\ inbox' = [inbox EXCEPT ![s] = @ \ {n}]
          /\ last' = [last EXCEPT ![s] = event[log[n]]]
          /\ got' = [got EXCEPT ![s] = @ \cup {log[n]}]
    BY <1>2 DEF Deliver
  <2>2. log[n] \in Requests
    OBVIOUS
  <2>3. UNCHANGED <<records, handlers, listening, heard, crashes>>
    BY <1>2 DEF Deliver
  <2>. QED  BY <2>1, <2>2, <2>3
<1>3. CASE Unsubscribe(s)
  BY <1>3 DEF Unsubscribe, Forget
<1>4. CASE Cancel(s)
  BY <1>4 DEF Cancel, Forget
<1>. QED  BY <1>1, <1>2, <1>3, <1>4 DEF Subscription

LEMMA OtherTypes ==
  ASSUME TypeInv, OtherStep \/ Crash
  PROVE  TypeInv'
<1>. USE DEF TypeInv
<1>1. CASE OtherStep
  <2>1. /\ log' = Append(log, Other)
        /\ UNCHANGED <<now, status, event, hpc, base, listening, heard, inbox,
                       consumers, crashes>>
        /\ opc' \in [Requests -> OwnerPCs]
    BY <1>1 DEF OtherStep, OtherEntry, DecideAudit, handlers, TypeOK, OwnerPCs
  <2>2. Grown(Other) /\ log' \in Seq(Requests \cup {Other}) /\ Len(log) \in Nat
    BY <2>1, Growth
  <2>3. EntriesOK'
    BY <2>1, <2>2 DEF EntriesOK, Grown
  <2>. QED  BY <2>1, <2>2, <2>3 DEF TypeOK, Pending, listening, consumers
<1>2. CASE Crash
  BY <1>2 DEF Crash, Forget, TypeOK, EntriesOK, Pending, records, consumers,
       HandlerPCs, OwnerPCs
<1>. QED  BY <1>1, <1>2

LEMMA NextTypes == TypeInv /\ [Next]_vars => TypeInv'
<1>1. TypeInv /\ UNCHANGED vars => TypeInv'
  BY DEF TypeInv, TypeOK, EntriesOK, Pending, vars, records, handlers,
       listening, consumers
<1>. QED
  BY <1>1, Steps, AppendTypes, SilentTypes, SubscriptionTypes, OtherTypes

\* Every variable keeps its type, and a pending record has an event.
THEOREM EventTypes == Spec => []TypeOK
<1>1. Spec => []TypeInv
  BY InitTypes, NextTypes, PTL DEF Spec
<1>. QED  BY <1>1, PTL DEF TypeInv

-----------------------------------------------------------------------------
(* Every subscription hears of every pending request.                      *)

LEMMA InitHeard == Init => HeardInv
BY DEF Init, HeardInv, PendingIsAnnounced, PendingIsHeard, Pending, Concerns,
       Interesting

\* Steps that leave the records and the subscriptions alone: an entry that is
\* there stays, and what was heard stays heard.
LEMMA GrowthKeeps ==
  ASSUME TypeInv, NEW e, Grown(e)
  PROVE  /\ \A r \in Requests : Announced(r) => Announced(r)'
         /\ \A s \in Subscribers, r \in Requests :
              heard[s] \subseteq heard'[s] /\ (\E n \in heard[s] : log[n] = r)
                => \E n \in heard'[s] : log'[n] = r
<1>1. Len(log) \in Nat
  BY DEF TypeInv, TypeOK
<1>2. 1..Len(log) \subseteq 1..Len(log')
  BY <1>1 DEF Grown
<1>. QED  BY <1>2 DEF TypeInv, EntriesOK, Announced, Grown

LEMMA AppendHeard ==
  ASSUME TypeInv, HeardInv, NEW r \in Requests, AppendStep(r)
  PROVE  HeardInv'
<1>1. /\ AppendEntry(r)
      /\ UNCHANGED <<status, event, live, cursor, from>>
      /\ \A q \in Requests : q # r => hpc'[q] = hpc[q]
  BY DEF AppendStep, Announce, OutcomeAudit, AskAudit, DecideAgentAudit, Step,
       listening, TypeInv, TypeOK
<1>2. /\ Grown(r) /\ Len(log) \in Nat
      /\ heard' = [s \in Subscribers |->
           heard[s] \cup IF Hears(r, s) THEN {Len(log) + 1} ELSE {}]
  BY <1>1, Heard DEF TypeInv
<1>3. Announced(r)'
  BY <1>2 DEF Announced, Grown
<1>4. PendingIsAnnounced'
  BY <1>1, <1>2, <1>3, GrowthKeeps
     DEF HeardInv, PendingIsAnnounced, Pending
<1>5. ASSUME NEW s \in Subscribers, NEW q \in Requests, Concerns(q, s)',
             hpc'[q] # "saved"
      PROVE  \E n \in heard'[s] : log'[n] = q
  <2>1. Concerns(q, s)
    BY <1>1, <1>5 DEF Concerns, Interesting, Pending
  <2>2. CASE q = r
    <3>1. Hears(r, s)
      BY <2>1, <2>2 DEF Concerns, Hears
    <3>2. Len(log) + 1 \in heard'[s] /\ log'[Len(log) + 1] = r
      BY <1>2, <3>1 DEF Grown
    <3>. QED  BY <2>2, <3>2
  <2>3. CASE q # r
    <3>1. \E n \in heard[s] : log[n] = q
      BY <1>1, <1>5, <2>1, <2>3 DEF HeardInv, PendingIsHeard
    <3>2. heard[s] \subseteq heard'[s]
      BY <1>2
    <3>. QED  BY <1>2, <3>1, <3>2, GrowthKeeps
  <2>. QED  BY <2>2, <2>3
<1>. QED  BY <1>4, <1>5 DEF HeardInv, PendingIsHeard

LEMMA SilentHeard ==
  ASSUME TypeInv, HeardInv, NEW r \in Requests, SilentStep(r)
  PROVE  HeardInv'
<1>. USE DEF TypeInv, TypeOK
<1>1. UNCHANGED <<log, heard, live, cursor, from>>
  BY DEF SilentStep, RecordRequest, OutcomeSave, AskRead, AskSave, Decide,
       listening
<1>2. /\ \A q \in Requests : q # r =>
           hpc'[q] = hpc[q] /\ status'[q] = status[q] /\ event'[q] = event[q]
      /\ \/ status'[r] # "AWAITING_APPROVAL"
         \/ hpc'[r] = "saved"
         \/ status' = status /\ event' = event /\ hpc[r] = "announced"
  <2>1. CASE RecordRequest(r) \/ OutcomeSave(r) \/ Decide(r)
    BY <2>1 DEF RecordRequest, OutcomeSave, Decide, Step
  <2>2. CASE AskRead(r)
    BY <2>2 DEF AskRead, Step
  <2>3. CASE AskSave(r)
    BY <2>3 DEF AskSave, Step
  <2>. QED  BY <2>1, <2>2, <2>3 DEF SilentStep
<1>3. Pending(r)' \/ hpc'[r] \in {"announced", "logged", "asked", "saved"}
        => Announced(r)
  <2>. USE DEF HeardInv, PendingIsAnnounced, Pending, Step
  <2>1. CASE RecordRequest(r) \/ OutcomeSave(r)
    BY <2>1 DEF RecordRequest, OutcomeSave
  <2>2. CASE Decide(r)
    BY <2>2 DEF Decide
  <2>3. CASE AskRead(r)
    BY <2>3 DEF AskRead
  <2>4. CASE AskSave(r)
    BY <2>4 DEF AskSave
  <2>. QED  BY <2>1, <2>2, <2>3, <2>4 DEF SilentStep
<1>4. PendingIsAnnounced'
  <2>1. \A q \in Requests : Announced(q)' <=> Announced(q)
    BY <1>1 DEF Announced
  <2>2. \A q \in Requests : q # r =>
          (Pending(q)' <=> Pending(q)) /\ hpc'[q] = hpc[q]
    BY <1>2 DEF Pending
  <2>. QED  BY <1>3, <2>1, <2>2 DEF HeardInv, PendingIsAnnounced
<1>5. ASSUME NEW s \in Subscribers, NEW q \in Requests, Concerns(q, s)',
             hpc'[q] # "saved"
      PROVE  \E n \in heard'[s] : log'[n] = q
  <2>1. Concerns(q, s) /\ hpc[q] # "saved"
    BY <1>1, <1>2, <1>5 DEF Concerns, Interesting, Pending
  <2>. QED  BY <1>1, <2>1 DEF HeardInv, PendingIsHeard
<1>. QED  BY <1>4, <1>5 DEF HeardInv, PendingIsHeard

LEMMA SubscriptionHeard ==
  ASSUME TypeInv, HeardInv, NEW s \in Subscribers, Subscription(s)
  PROVE  HeardInv'
<1>. USE DEF TypeInv, TypeOK
<1>1. UNCHANGED <<status, event, log, hpc>>
  BY DEF Subscription, Subscribe, Deliver, Unsubscribe, Cancel, records,
       handlers
<1>2. PendingIsAnnounced'
  BY <1>1 DEF HeardInv, PendingIsAnnounced, Pending, Announced
<1>3. ASSUME NEW d \in Subscribers, NEW q \in Requests, Concerns(q, d)',
             hpc'[q] # "saved"
      PROVE  \E n \in heard'[d] : log'[n] = q
  <2>1. ASSUME NEW c \in EventIds \cup {Nil}, Subscribe(s, c), d = s
        PROVE  \E n \in heard'[d] : log'[n] = q
    <3>1. /\ heard'[d] = Replayed(c) /\ cursor'[d] = c /\ from'[d] = Len(log)
      BY <2>1 DEF Subscribe
    <3>2. Len(log) <= ReplayLimit /\ Interesting(q, c) /\ Pending(q)
      BY <1>1, <1>3, <3>1 DEF Concerns, Interesting, Pending
    <3>3. PICK n \in 1..Len(log) : log[n] = q
      BY <3>2 DEF HeardInv, PendingIsAnnounced, Announced
    <3>4. n <= ReplayLimit
      BY <3>2, <3>3
    <3>5. n \in Replayed(c)
      BY <3>2, <3>3, <3>4 DEF Replayed
    <3>. QED  BY <1>1, <3>1, <3>3, <3>5
  <2>2. ASSUME UNCHANGED <<cursor[d], from[d], heard[d]>>, d \in live
        PROVE  \E n \in heard'[d] : log'[n] = q
    <3>1. Concerns(q, d)
      BY <1>1, <1>3, <2>2 DEF Concerns, Interesting, Pending
    <3>. QED  BY <1>1, <1>3, <2>2, <3>1 DEF HeardInv, PendingIsHeard
  <2>3. d \in live'
    BY <1>3 DEF Concerns
  <2>4. CASE \E c \in EventIds \cup {Nil} : Subscribe(s, c)
    <3>1. d # s => d \in live /\ UNCHANGED <<cursor[d], from[d], heard[d]>>
      BY <2>3, <2>4 DEF Subscribe
    <3>. QED  BY <2>1, <2>2, <2>4, <3>1
  <2>5. CASE Deliver(s)
    BY <2>2, <2>3, <2>5 DEF Deliver, listening
  <2>6. CASE Unsubscribe(s) \/ Cancel(s)
    <3>1. Forget({s}) /\ d # s /\ d \in live
      BY <2>3, <2>6 DEF Unsubscribe, Cancel, Forget
    <3>. QED  BY <2>2, <3>1 DEF Forget
  <2>. QED  BY <2>4, <2>5, <2>6 DEF Subscription
<1>. QED  BY <1>2, <1>3 DEF HeardInv, PendingIsHeard

LEMMA OtherHeard ==
  ASSUME TypeInv, HeardInv, OtherStep \/ Crash
  PROVE  HeardInv'
<1>. USE DEF TypeInv
<1>1. CASE OtherStep
  <2>1. /\ log' = Append(log, Other)
        /\ UNCHANGED <<status, event, hpc, heard, live, cursor, from>>
    BY <1>1 DEF OtherStep, OtherEntry, DecideAudit, handlers, listening
  <2>2. Grown(Other)
    BY <2>1, Growth
  <2>3. PendingIsAnnounced'
    BY <2>1, <2>2, GrowthKeeps DEF HeardInv, PendingIsAnnounced, Pending
  <2>4. ASSUME NEW d \in Subscribers, NEW q \in Requests, Concerns(q, d)',
               hpc'[q] # "saved"
        PROVE  \E n \in heard'[d] : log'[n] = q
    <3>1. Concerns(q, d) /\ hpc[q] # "saved"
      BY <2>1, <2>4 DEF Concerns, Interesting, Pending
    <3>2. \E n \in heard[d] : log[n] = q
      BY <3>1 DEF HeardInv, PendingIsHeard
    <3>. QED  BY <2>1, <2>2, <3>2, GrowthKeeps
  <2>. QED  BY <2>3, <2>4 DEF HeardInv, PendingIsHeard
<1>2. CASE Crash
  <2>1. /\ live' = {} /\ UNCHANGED <<status, log>>
        /\ \A q \in Requests : hpc'[q] \in {"new", "done"}
    BY <1>2 DEF Crash, Forget, records, TypeOK
  <2>. QED
    BY <2>1 DEF HeardInv, PendingIsAnnounced, PendingIsHeard, Pending,
         Concerns, Announced
<1>. QED  BY <1>1, <1>2

\* Every subscription hears of every pending request: the save of the record
\* before its entry, the entry before that, and the replay before the callback
\* is registered leave no moment at which ownerOnPendingDispatch misses one.
THEOREM PendingHeard == Spec => []PendingIsHeard
<1>1. Init => TypeInv /\ HeardInv
  BY InitTypes, InitHeard
<1>2. HeardInv /\ UNCHANGED vars => HeardInv'
  BY DEF HeardInv, PendingIsAnnounced, PendingIsHeard, Pending, Concerns,
       Interesting, Announced, vars, records, handlers, listening
<1>3. TypeInv /\ HeardInv /\ [Next]_vars => TypeInv' /\ HeardInv'
  BY <1>2, Steps, NextTypes, AppendHeard, SilentHeard, SubscriptionHeard,
     OtherHeard
<1>4. HeardInv => PendingIsHeard
  BY DEF HeardInv
<1>. QED  BY <1>1, <1>3, <1>4, PTL DEF Spec

-----------------------------------------------------------------------------
(* A live subscription hears of a request once.                            *)

LEMMA InitRepeat == Init => RepeatInv
BY DEF Init, RepeatInv, PendingIsSaved, HeardLiveIsDone, RepeatsOnlyByReplay,
       Pending

LEMMA NextSaved == TypeInv /\ PendingIsSaved /\ [Next]_vars => PendingIsSaved'
<1>. SUFFICES ASSUME TypeInv, PendingIsSaved, [Next]_vars
              PROVE  PendingIsSaved'
  OBVIOUS
<1>. USE DEF TypeInv, TypeOK, PendingIsSaved, Pending, Step
<1>1. ASSUME NEW r \in Requests, AppendStep(r)  PROVE PendingIsSaved'
  <2>1. CASE Announce(r) \/ OutcomeAudit(r)
    BY <2>1 DEF Announce, OutcomeAudit
  <2>2. CASE AskAudit(r)
    BY <2>2 DEF AskAudit
  <2>3. CASE DecideAgentAudit(r)
    BY <2>3 DEF DecideAgentAudit
  <2>. QED  BY <1>1, <2>1, <2>2, <2>3 DEF AppendStep
<1>2. ASSUME NEW r \in Requests, SilentStep(r)  PROVE PendingIsSaved'
  <2>1. CASE RecordRequest(r) \/ OutcomeSave(r)
    BY <2>1 DEF RecordRequest, OutcomeSave
  <2>2. CASE AskRead(r)
    BY <2>2 DEF AskRead
  <2>3. CASE AskSave(r)
    BY <2>3 DEF AskSave
  <2>4. CASE Decide(r)
    BY <2>4 DEF Decide
  <2>. QED  BY <1>2, <2>1, <2>2, <2>3, <2>4 DEF SilentStep
<1>3. ASSUME NEW s \in Subscribers, Subscription(s)  PROVE PendingIsSaved'
  BY <1>3 DEF Subscription, Subscribe, Deliver, Unsubscribe, Cancel, records,
       handlers
<1>4. CASE OtherStep
  BY <1>4 DEF OtherStep, OtherEntry, DecideAudit, handlers
<1>5. CASE Crash
  BY <1>5 DEF Crash, records
<1>6. CASE UNCHANGED vars
  BY <1>6 DEF vars, records, handlers
<1>. QED  BY <1>1, <1>2, <1>3, <1>4, <1>5, <1>6, Steps

\* What a live subscription hears while it happens is the entry that follows
\* the save of a pending record, and it is the only one.
LEMMA AppendRepeat ==
  ASSUME TypeInv, RepeatInv, NEW r \in Requests, AppendStep(r)
  PROVE  HeardLiveIsDone' /\ RepeatsOnlyByReplay'
<1>. USE DEF TypeInv
<1>1. AppendEntry(r) /\ from' = from
  BY DEF AppendStep, Announce, OutcomeAudit, AskAudit, DecideAgentAudit,
       listening
<1>2. /\ Grown(r) /\ Len(log) \in Nat
      /\ heard' = [s \in Subscribers |->
           heard[s] \cup IF Hears(r, s) THEN {Len(log) + 1} ELSE {}]
  BY <1>1, Heard
<1>3. \A q \in Requests : hpc[q] = "done" => hpc'[q] = "done"
  BY DEF AppendStep, Announce, OutcomeAudit, AskAudit, DecideAgentAudit, Step,
       TypeOK
<1>4. Pending(r) => hpc[r] = "saved" /\ hpc'[r] = "done"
  BY DEF AppendStep, Announce, OutcomeAudit, AskAudit, DecideAgentAudit, Step,
       TypeOK, RepeatInv, PendingIsSaved
<1>5. ASSUME NEW s \in Subscribers, NEW n \in heard'[s]
      PROVE  \/ /\ n \in heard[s] /\ n \in 1..Len(log) /\ log'[n] = log[n]
                /\ log[n] \in Requests
             \/ n = Len(log) + 1 /\ log'[n] = r /\ Pending(r)
  BY <1>2, <1>5 DEF Grown, Hears, Interesting, EntriesOK
<1>6. HeardLiveIsDone'
  <2>1. ASSUME NEW s \in Subscribers, NEW n \in heard'[s], n > from'[s]
        PROVE  hpc'[log'[n]] = "done"
    BY <1>1, <1>3, <1>4, <1>5, <2>1 DEF RepeatInv, HeardLiveIsDone
  <2>. QED  BY <2>1 DEF HeardLiveIsDone
<1>7. RepeatsOnlyByReplay'
  <2>1. ASSUME NEW s \in Subscribers, NEW m \in heard'[s], NEW n \in heard'[s],
               log'[m] = log'[n], m < n
        PROVE  m <= from[s]
    <3>1. m \in heard[s] /\ log'[m] = log[m] /\ m \in Nat
      BY <1>2, <1>5, <2>1
    <3>2. CASE n \in heard[s] /\ log'[n] = log[n]
      BY <2>1, <3>1, <3>2 DEF RepeatInv, RepeatsOnlyByReplay
    <3>3. CASE log'[n] = r /\ Pending(r)
      <4>1. hpc[log[m]] = "saved"
        BY <1>4, <2>1, <3>1, <3>3
      <4>2. ~(m > from[s])
        BY <3>1, <4>1 DEF RepeatInv, HeardLiveIsDone
      <4>3. from[s] \in Nat
        BY DEF TypeOK
      <4>. QED  BY <3>1, <4>2, <4>3
    <3>. QED  BY <1>5, <3>2, <3>3
  <2>. QED  BY <1>1, <2>1 DEF RepeatsOnlyByReplay
<1>. QED  BY <1>6, <1>7

LEMMA SilentRepeat ==
  ASSUME TypeInv, RepeatInv, NEW r \in Requests, SilentStep(r)
  PROVE  HeardLiveIsDone' /\ RepeatsOnlyByReplay'
<1>1. UNCHANGED <<log, heard, from>>
  BY DEF SilentStep, RecordRequest, OutcomeSave, AskRead, AskSave, Decide,
       listening
<1>2. \A q \in Requests : hpc[q] = "done" => hpc'[q] = "done"
  BY DEF SilentStep, RecordRequest, OutcomeSave, AskRead, AskSave, Decide, Step,
       TypeInv, TypeOK
<1>. QED
  BY <1>1, <1>2 DEF TypeInv, EntriesOK, RepeatInv, HeardLiveIsDone,
       RepeatsOnlyByReplay

LEMMA SubscriptionRepeat ==
  ASSUME TypeInv, RepeatInv, NEW s \in Subscribers, Subscription(s)
  PROVE  HeardLiveIsDone' /\ RepeatsOnlyByReplay'
<1>. USE DEF TypeInv, TypeOK
<1>1. UNCHANGED <<log, hpc>>
  BY DEF Subscription, Subscribe, Deliver, Unsubscribe, Cancel, records,
       handlers
<1>2. ASSUME NEW d \in Subscribers
      PROVE  \/ UNCHANGED <<heard[d], from[d]>>
             \/ \A n \in heard'[d] : n <= from'[d] /\ n \in Nat
  <2>1. ASSUME NEW c \in EventIds \cup {Nil}, Subscribe(s, c), d = s
        PROVE  \A n \in heard'[d] : n <= from'[d] /\ n \in Nat
    <3>1. heard'[d] = Replayed(c) /\ from'[d] = Len(log)
      BY <2>1 DEF Subscribe
    <3>. QED  BY <3>1 DEF Replayed
  <2>2. ASSUME NEW c \in EventIds \cup {Nil}, Subscribe(s, c), d # s
        PROVE  UNCHANGED <<heard[d], from[d]>>
    BY <2>2 DEF Subscribe
  <2>3. CASE Deliver(s)
    BY <2>3 DEF Deliver, listening
  <2>4. CASE Unsubscribe(s) \/ Cancel(s)
    BY <2>4 DEF Unsubscribe, Cancel, Forget
  <2>. QED  BY <2>1, <2>2, <2>3, <2>4 DEF Subscription
<1>3. HeardLiveIsDone'
  <2>1. ASSUME NEW d \in Subscribers, NEW n \in heard'[d], n > from'[d]
        PROVE  hpc'[log'[n]] = "done"
    <3>1. from'[d] \in Nat
      BY NextTypes, Steps DEF TypeInv, TypeOK
    <3>2. UNCHANGED <<heard[d], from[d]>>
      BY <1>2, <2>1, <3>1
    <3>. QED  BY <1>1, <2>1, <3>2 DEF RepeatInv, HeardLiveIsDone
  <2>. QED  BY <2>1 DEF HeardLiveIsDone
<1>4. RepeatsOnlyByReplay'
  BY <1>1, <1>2 DEF RepeatInv, RepeatsOnlyByReplay
<1>. QED  BY <1>3, <1>4

LEMMA OtherRepeat ==
  ASSUME TypeInv, RepeatInv, OtherStep \/ Crash
  PROVE  HeardLiveIsDone' /\ RepeatsOnlyByReplay'
<1>. USE DEF TypeInv
<1>1. CASE OtherStep
  <2>1. log' = Append(log, Other) /\ UNCHANGED <<hpc, heard, from>>
    BY <1>1 DEF OtherStep, OtherEntry, DecideAudit, handlers, listening
  <2>2. Grown(Other)
    BY <2>1, Growth
  <2>3. \A s \in Subscribers : \A n \in heard[s] : log'[n] = log[n]
    BY <2>2 DEF Grown, EntriesOK
  <2>. QED
    BY <2>1, <2>3 DEF RepeatInv, HeardLiveIsDone, RepeatsOnlyByReplay
<1>2. CASE Crash
  <2>1. \A s \in Subscribers : heard'[s] = {}
    BY <1>2 DEF Crash, Forget
  <2>. QED  BY <2>1 DEF HeardLiveIsDone, RepeatsOnlyByReplay
<1>. QED  BY <1>1, <1>2

\* A subscription hears of a request a second time only if the replay told it
\* the first time: of the entries ownerOnPendingDispatch looks at, one alone
\* finds the record pending while the subscription is live.
THEOREM HeardOnce == Spec => []RepeatsOnlyByReplay
<1>1. Init => TypeInv /\ RepeatInv
  BY InitTypes, InitRepeat
<1>2. RepeatInv /\ UNCHANGED vars => HeardLiveIsDone' /\ RepeatsOnlyByReplay'
  BY DEF RepeatInv, HeardLiveIsDone, RepeatsOnlyByReplay, vars, records,
       handlers, listening
<1>3. TypeInv /\ RepeatInv /\ [Next]_vars
        => HeardLiveIsDone' /\ RepeatsOnlyByReplay'
  BY <1>2, Steps, AppendRepeat, SilentRepeat, SubscriptionRepeat, OtherRepeat
<1>4. TypeInv /\ RepeatInv /\ [Next]_vars => TypeInv' /\ RepeatInv'
  BY <1>3, NextTypes, NextSaved DEF RepeatInv
<1>5. RepeatInv => RepeatsOnlyByReplay
  BY DEF RepeatInv
<1>. QED  BY <1>1, <1>4, <1>5, PTL DEF Spec
=============================================================================
