---------------------------- MODULE PendingEvents ----------------------------
(***************************************************************************)
(* How an owner hears of the dispatches that wait for it.  A pending event *)
(* is part of the request record; a subscriber of pending dispatches       *)
(* (VaultCore.ownerOnPendingDispatch) listens to the audit log and, at     *)
(* each entry of agentDispatchSecret, reads the record the entry is about. *)
(* A new subscriber is first given the entries of the past, the oldest     *)
(* ReplayLimit of them, and those later than its cursor, the id of an      *)
(* event.  The id is the time of the event followed by the request's id.   *)
(*                                                                         *)
(* A dispatch appears here as its saves and its audit entries, an approval *)
(* as the save of its result and the entries after it: each request is     *)
(* delivered once and decided by one owner call.                           *)
(***************************************************************************)
EXTENDS Integers, Sequences

CONSTANTS
  Requests,     \* request ids: numbers, as strings are compared
  Decidable,    \* bound: the requests an owner may decide
  Subscribers,  \* consumers of pending events
  ReplayLimit,  \* how many entries a new subscription is given
  MaxTime,      \* bound: the clock
  MaxLog,       \* bound: the entries of other functions are appended below it
  MaxCrashes,   \* bound: how often the vault process dies
  Other,        \* an audit entry of another function
  Nil

EventIds == (0..MaxTime) \X Requests

ASSUME RequestsAssumption ==
  Requests \subseteq Nat /\ Decidable \subseteq Requests
ASSUME EventBounds ==
  /\ ReplayLimit \in Nat /\ MaxTime \in Nat
  /\ MaxLog \in Nat /\ MaxCrashes \in Nat
ASSUME EventNil == Nil \notin EventIds /\ Other \notin Requests

VARIABLES
  now,      \* the clock when it was last read; it does not go back
  status,   \* the status of each request record, "none" where there is none
  event,    \* pending_dispatch_event of each record: its id, or Nil
  log,      \* the audit log: the request of an entry, or Other
  hpc,      \* where the dispatch of each request is
  opc,      \* where the owner call that decides it is
  base,     \* the event id a dispatch is about to save
  live,     \* subscribers whose callback is registered
  cursor,   \* afterEventId of each subscription, or Nil
  from,     \* history: the length of the log at each subscription
  heard,    \* the entries at which a subscription has read a pending record
  inbox,    \* those of them whose event has not reached its consumer yet
  last,     \* the id of the last event each consumer has got, or Nil
  got,      \* history: the requests each consumer has got an event of
  crashes

records   == <<now, status, event, log>>
handlers  == <<hpc, opc, base>>
listening == <<live, cursor, from>>
consumers == <<last, got>>
vars == <<records, handlers, listening, heard, inbox, consumers, crashes>>

Statuses == {"none", "IN_PROGRESS", "AWAITING_APPROVAL", "settled"}
HandlerPCs ==
  {"new", "recorded", "announced", "logged", "asked", "saved", "done"}
OwnerPCs == {"idle", "logOwner", "logAgent"}

Init ==
  /\ now = 0
  /\ status = [r \in Requests |-> "none"]
  /\ event = [r \in Requests |-> Nil]
  /\ log = <<>>
  /\ hpc = [r \in Requests |-> "new"]
  /\ opc = [r \in Requests |-> "idle"]
  /\ base = [r \in Requests |-> Nil]
  /\ live = {}
  /\ cursor = [s \in Subscribers |-> Nil]
  /\ from = [s \in Subscribers |-> 0]
  /\ heard = [s \in Subscribers |-> {}]
  /\ inbox = [s \in Subscribers |-> {}]
  /\ last = [s \in Subscribers |-> Nil]
  /\ got = [s \in Subscribers |-> {}]
  /\ crashes = 0

Pending(r) == status[r] = "AWAITING_APPROVAL"

\* The order of event ids: their times first, then the request ids.
Before(e, f) == e[1] < f[1] \/ (e[1] = f[1] /\ e[2] < f[2])

\* An event is withheld from a subscription unless it is after its cursor.
After(c, e) == c = Nil \/ Before(c, e)

\* Mutant of Interesting: the status of the record is not looked at.
InterestingOnceAsked(r, c) == event[r] # Nil /\ After(c, event[r])

\* The onEvent of ownerOnPendingDispatch: an entry about r is of interest to
\* a subscription with cursor c while the record is pending.
Interesting(r, c) == Pending(r) /\ After(c, event[r])

\* An entry of agentDispatchSecret about r is appended, and every subscriber
\* reads the record before the log returns.
AppendEntry(r) ==
  LET heardBy(s) == IF s \in live /\ Interesting(r, cursor[s])
                    THEN {Len(log) + 1} ELSE {}
  IN  /\ log' = Append(log, r)
      /\ heard' = [s \in Subscribers |-> heard[s] \cup heardBy(s)]
      /\ inbox' = [s \in Subscribers |-> inbox[s] \cup heardBy(s)]

-----------------------------------------------------------------------------
(* agentDispatchSecret: a record in progress, an entry, and then either a  *)
(* pending record and a second entry, or a second entry and a settled      *)
(* record.                                                                 *)
Step(r, l, m) ==
  /\ hpc[r] = l
  /\ hpc' = [hpc EXCEPT ![r] = m]

RecordRequest(r) ==
  /\ Step(r, "new", "recorded")
  /\ status' = [status EXCEPT ![r] = "IN_PROGRESS"]
  /\ UNCHANGED <<now, event, log, opc, base, listening, heard, inbox,
                 consumers, crashes>>

Announce(r) ==
  /\ Step(r, "recorded", "announced")
  /\ AppendEntry(r)
  /\ UNCHANGED <<now, status, event, opc, base, listening, consumers, crashes>>

\* The branches that deny or execute the request.
OutcomeAudit(r) ==
  /\ Step(r, "announced", "logged")
  /\ AppendEntry(r)
  /\ UNCHANGED <<now, status, event, opc, base, listening, consumers, crashes>>

OutcomeSave(r) ==
  /\ Step(r, "logged", "done")
  /\ status' = [status EXCEPT ![r] = "settled"]
  /\ UNCHANGED <<now, event, log, opc, base, listening, heard, inbox,
                 consumers, crashes>>

\* _updateRequestRecordInternal of the branch that asks the owner: once the
\* record is read the event gets its id from the clock.
AskRead(r) ==
  /\ Step(r, "announced", "asked")
  /\ now' \in now..MaxTime
  /\ base' = [base EXCEPT ![r] = <<now', r>>]
  /\ UNCHANGED <<status, event, log, opc, listening, heard, inbox, consumers,
                 crashes>>

\* Mutant of AskSave: the record is saved without its event.
AskSaveNoEvent(r) ==
  /\ Step(r, "asked", "saved")
  /\ status' = [status EXCEPT ![r] = "AWAITING_APPROVAL"]
  /\ base' = [base EXCEPT ![r] = Nil]
  /\ UNCHANGED <<now, event, log, opc, listening, heard, inbox, consumers,
                 crashes>>

AskSave(r) ==
  /\ Step(r, "asked", "saved")
  /\ status' = [status EXCEPT ![r] = "AWAITING_APPROVAL"]
  /\ event' = [event EXCEPT ![r] = base[r]]
  /\ base' = [base EXCEPT ![r] = Nil]
  /\ UNCHANGED <<now, log, opc, listening, heard, inbox, consumers, crashes>>

\* Mutant of AskAudit: there is no second entry.
AskAuditSilent(r) ==
  /\ Step(r, "saved", "done")
  /\ UNCHANGED <<records, opc, base, listening, heard, inbox, consumers,
                 crashes>>

AskAudit(r) ==
  /\ Step(r, "saved", "done")
  /\ AppendEntry(r)
  /\ UNCHANGED <<now, status, event, opc, base, listening, consumers, crashes>>

-----------------------------------------------------------------------------
(* ownerApproveDispatch: the record is settled, then an entry of its own   *)
(* and, unless the request was denied, one of agentDispatchSecret.         *)
Decide(r) ==
  /\ r \in Decidable
  /\ Pending(r) /\ opc[r] = "idle"
  /\ status' = [status EXCEPT ![r] = "settled"]
  /\ opc' = [opc EXCEPT ![r] = "logOwner"]
  /\ UNCHANGED <<now, event, log, hpc, base, listening, heard, inbox,
                 consumers, crashes>>

DecideAudit(r) ==
  /\ opc[r] = "logOwner"
  /\ \E next \in {"idle", "logAgent"} : opc' = [opc EXCEPT ![r] = next]
  /\ log' = Append(log, Other)
  /\ UNCHANGED <<now, status, event, hpc, base, listening, heard, inbox,
                 consumers, crashes>>

DecideAgentAudit(r) ==
  /\ opc[r] = "logAgent"
  /\ opc' = [opc EXCEPT ![r] = "idle"]
  /\ AppendEntry(r)
  /\ UNCHANGED <<now, status, event, hpc, base, listening, consumers, crashes>>

-----------------------------------------------------------------------------
(* Subscriptions.                                                          *)

\* Mutant of Replayed: the second half of the log is replayed.
ReplayedNewest(c) ==
  {n \in 1..Len(log) : /\ 2 * n > Len(log)
                       /\ log[n] \in Requests
                       /\ Interesting(log[n], c)}

\* SELECT ... ORDER BY ts ASC LIMIT 1000: the limit counts every entry.
Replayed(c) ==
  {n \in 1..Len(log) : /\ n <= ReplayLimit
                       /\ log[n] \in Requests
                       /\ Interesting(log[n], c)}

\* A consumer subscribes from the beginning or from the last event it got:
\* the entries of the past are replayed, then its callback is registered.
\* It comes back only when nothing is on the way to it.
Subscribe(s, c) ==
  /\ s \notin live /\ inbox[s] = {}
  /\ c \in {Nil, last[s]}
  /\ live' = live \cup {s}
  /\ cursor' = [cursor EXCEPT ![s] = c]
  /\ from' = [from EXCEPT ![s] = Len(log)]
  /\ heard' = [heard EXCEPT ![s] = Replayed(c)]
  /\ inbox' = [inbox EXCEPT ![s] = Replayed(c)]
  /\ UNCHANGED <<records, handlers, consumers, crashes>>

\* The read of the record resolves and the consumer gets the event: reads
\* resolve in the order they were made.
Deliver(s) ==
  /\ \E n \in inbox[s] :
       /\ \A m \in inbox[s] : n <= m
       /\ inbox' = [inbox EXCEPT ![s] = @ \ {n}]
       /\ last' = [last EXCEPT ![s] = event[log[n]]]
       /\ got' = [got EXCEPT ![s] = @ \cup {log[n]}]
  /\ UNCHANGED <<records, handlers, listening, heard, crashes>>

\* The callbacks of the subscriptions in S are removed.
Forget(S) ==
  /\ live' = live \ S
  /\ cursor' = [s \in Subscribers |-> IF s \in S THEN Nil ELSE cursor[s]]
  /\ from' = [s \in Subscribers |-> IF s \in S THEN 0 ELSE from[s]]
  /\ heard' = [s \in Subscribers |-> IF s \in S THEN {} ELSE heard[s]]

\* unsubscribe: reads that were made go on.
Unsubscribe(s) ==
  /\ s \in live
  /\ Forget({s})
  /\ UNCHANGED <<records, handlers, inbox, consumers, crashes>>

\* An SSE stream is cancelled: it also drops what arrives afterwards.
Cancel(s) ==
  /\ s \in live
  /\ Forget({s})
  /\ inbox' = [inbox EXCEPT ![s] = {}]
  /\ UNCHANGED <<records, handlers, consumers, crashes>>

-----------------------------------------------------------------------------
(* The environment.                                                        *)

\* Any other call of the vault appends an entry.
OtherEntry ==
  /\ Len(log) < MaxLog
  /\ log' = Append(log, Other)
  /\ UNCHANGED <<now, status, event, handlers, listening, heard, inbox,
                 consumers, crashes>>

\* The process dies with its handlers and its subscribers; consumers in
\* other processes keep the id of the last event they got.
Crash ==
  /\ crashes < MaxCrashes
  /\ crashes' = crashes + 1
  /\ hpc' = [r \in Requests |-> IF hpc[r] = "new" THEN "new" ELSE "done"]
  /\ opc' = [r \in Requests |-> "idle"]
  /\ base' = [r \in Requests |-> Nil]
  /\ Forget(Subscribers)
  /\ inbox' = [s \in Subscribers |-> {}]
  /\ UNCHANGED <<records, consumers>>

Dispatch(r) ==
  \/ RecordRequest(r) \/ Announce(r)
  \/ OutcomeAudit(r) \/ OutcomeSave(r)
  \/ AskRead(r) \/ AskSave(r) \/ AskAudit(r)

Approval(r) == Decide(r) \/ DecideAudit(r) \/ DecideAgentAudit(r)

Subscription(s) ==
  \/ \E c \in EventIds \cup {Nil} : Subscribe(s, c)
  \/ Deliver(s) \/ Unsubscribe(s) \/ Cancel(s)

Next ==
  \/ \E r \in Requests : Dispatch(r) \/ Approval(r)
  \/ \E s \in Subscribers : Subscription(s)
  \/ OtherEntry \/ Crash

Spec == Init /\ [][Next]_vars

\* A dispatch that has begun goes on, and a read that was made resolves.
FairSpec ==
  /\ Spec
  /\ \A r \in Requests : WF_vars(hpc[r] # "new" /\ Dispatch(r))
  /\ \A s \in Subscribers : WF_vars(Deliver(s))

-----------------------------------------------------------------------------
(* Properties.                                                             *)

\* Every variable keeps its type: a pending record has an event.
TypeOK ==
  /\ now \in 0..MaxTime
  /\ status \in [Requests -> Statuses]
  /\ event \in [Requests -> EventIds \cup {Nil}]
  /\ \A r \in Requests : Pending(r) => event[r] # Nil
  /\ log \in Seq(Requests \cup {Other})
  /\ hpc \in [Requests -> HandlerPCs]
  /\ opc \in [Requests -> OwnerPCs]
  /\ base \in [Requests -> EventIds \cup {Nil}]
  /\ live \subseteq Subscribers
  /\ cursor \in [Subscribers -> EventIds \cup {Nil}]
  /\ from \in [Subscribers -> Nat]
  /\ heard \in [Subscribers -> SUBSET Nat]
  /\ inbox \in [Subscribers -> SUBSET Nat]
  /\ last \in [Subscribers -> EventIds \cup {Nil}]
  /\ got \in [Subscribers -> SUBSET Requests]
  /\ crashes \in 0..MaxCrashes

\* What a subscription must hear of: it is registered, the log was short
\* enough to be replayed, and the record waits for the owner with an event
\* after the subscription's cursor.
Concerns(r, s) ==
  /\ s \in live /\ from[s] <= ReplayLimit
  /\ Interesting(r, cursor[s])

(***************************************************************************)
(* Every subscription hears of every pending request, however it was made: *)
(* before the request, between the save of the record and its entry, or    *)
(* after a death of the process that left the record without its second    *)
(* entry.                                                                  *)
(***************************************************************************)
PendingIsHeard ==
  \A s \in Subscribers : \A r \in Requests :
    Concerns(r, s) /\ hpc[r] # "saved" => \E n \in heard[s] : log[n] = r

(***************************************************************************)
(* Only a replay, of the two entries a pending request has, tells a        *)
(* subscription of one request twice.                                      *)
(***************************************************************************)
RepeatsOnlyByReplay ==
  \A s \in Subscribers : \A m, n \in heard[s] :
    log[m] = log[n] /\ m < n => m <= from[s]

(***************************************************************************)
(* A pending request reaches the consumers subscribed for it, unless it is *)
(* decided or they leave before.                                           *)
(***************************************************************************)
PendingReachesOwner ==
  \A s \in Subscribers : \A r \in Requests :
    Concerns(r, s) ~> r \in got[s] \/ ~Concerns(r, s)
=============================================================================
