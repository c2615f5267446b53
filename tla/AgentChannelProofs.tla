------------------------- MODULE AgentChannelProofs -------------------------
(***************************************************************************)
(* Proof of the safety properties of AgentChannel, for any calls, secrets, *)
(* names and tokens, any number of deliveries, owner calls and deaths.     *)
(***************************************************************************)
EXTENDS AgentChannel, TLAPS

-----------------------------------------------------------------------------
(* The inductive strengthening of the invariants of the module.            *)

\* What calls and deliveries are when the other is where it is.
WireOK ==
  /\ answer \in [Handlers -> SUBSET ((Aliases \X Secrets)
                                       \cup (Dispatches \X Statuses))]
  /\ \A k \in ClientCalls :
       /\ held[k] \in issued \cup {Nil}
       /\ k \in Dispatches /\ cpc[k] = "list" => want[k] \in Names
       /\ result[k] = "refused" => cpc[k] = "done"
  /\ \A d \in Dispatches : requests[d].status = "NONE" => requests[d] = NoRecord
  /\ \A h \in Handlers :
       /\ h[2] # "list" => answer[h] \subseteq Dispatches \X Statuses
       /\ cpc[h[1]] = "idle" => hpc[h] = "unsent" /\ answer[h] = {}
       /\ cpc[h[1]] = "list" /\ h[2] # "list" => hpc[h] = "unsent"
       /\ hpc[h] \in Terminal \cup {"allow", "AWAITING_APPROVAL"}
            => h[2] = "dispatch"

\* What was not posted has left no trace.
Unposted(d) == Deliveries(d) = {}

PostedOK ==
  \A d \in Dispatches : Unposted(d) =>
    /\ accepted[d] = 0 /\ requests[d] = NoRecord
    /\ deciding[d] = Nil /\ used[d] = {}

\* Every secret a dispatch may end with has carried the name it was given.
CarriedOK ==
  \A d \in Dispatches :
    /\ cpc[d] = "idle" => resolved[d] = Nil
    /\ cpc[d] = "list" => Carriers(rows, want[d]) \subseteq carried[d]
    /\ \A h \in Handlers : h[1] = d /\ h[2] = "list" =>
         \A s \in Secrets : <<want[d], s>> \in answer[h] => s \in carried[d]
    /\ {resolved[d], requests[d].secret, deciding[d]} \subseteq carried[d] \cup {Nil}
    /\ used[d] \subseteq carried[d]

\* A dead token stays dead and opens nothing.
DeadOK ==
  \A d \in sentDead :
    /\ ~Live(d) /\ cpc[d] \in {"dispatch", "done"}
    /\ accepted[d] = 0 /\ requests[d] = NoRecord /\ deciding[d] = Nil
    /\ \A h \in Deliveries(d) : hpc[h] \notin InVault

\* A single delivery that was refused, or may still be, has done nothing that
\* an owner could approve.
Untouched(d) ==
  /\ used[d] = {} /\ deciding[d] = Nil
  /\ requests[d].status \in {"NONE", "IN_PROGRESS"}

RefusedOK ==
  \A d \in Dispatches : DeliveredOnce(d) =>
    /\ \A h \in Deliveries(d) :
         hpc[h] \in {"wire", "guard", "serve", "allow", "refused"} => Untouched(d)
    /\ result[d] = "refused" =>
         /\ Untouched(d)
         /\ \A h \in Deliveries(d) : hpc[h] \in {"over", "dead"}

\* Of a dispatch accepted once, one handler or one decision is at work, the
\* record says which, and what it said before may be followed by it.
Inside(d) ==
  {h \in Deliveries(d) :
     hpc[h] \in Terminal \cup {"serve", "allow", "AWAITING_APPROVAL"}}

OneAtWork(d) ==
  /\ \A g, h \in Inside(d) : g = h
  /\ \A h \in Inside(d) :
       /\ deciding[d] = Nil
       /\ requests[d].status = IF hpc[h] = "serve" THEN "NONE" ELSE "IN_PROGRESS"
  /\ deciding[d] # Nil => requests[d].status = "AWAITING_APPROVAL"

AgreeOK ==
  /\ \A d \in Dispatches :
       /\ accepted[d] = 0 => Inside(d) = {} /\ requests[d] = NoRecord
       /\ accepted[d] <= 1 => OneAtWork(d)
  /\ AnswersAgree
  /\ \A h \in Handlers : h[2] # "list" => Said(answer[h])

ChannelInv ==
  TypeOK /\ WireOK /\ PostedOK /\ CarriedOK /\ DeadOK /\ RefusedOK /\ AgreeOK

-----------------------------------------------------------------------------

\* A delivery is one of a post of a call.
LEMMA HandlerShape ==
  ASSUME NEW h \in Handlers
  PROVE  /\ h[1] \in ClientCalls
         /\ \/ h[1] \in Dispatches /\ h[2] \in {"list", "dispatch"}
            \/ h[1] \in Reads /\ h[1] \notin Dispatches /\ h[2] = "read"
         /\ <<h[1], h[2]>> \in Posts
         /\ <<h[1], h[2], 1>> \in Handlers
<1>1. PICK p \in Posts : h \in {<<p[1], p[2], n>> : n \in 1..MaxCopies[p[2]]}
  BY DEF Handlers
<1>2. p[2] \in {"list", "dispatch", "read"} /\ p = <<p[1], p[2]>>
  BY DEF Posts
<1>3. 1 \in 1..MaxCopies[p[2]]
  BY <1>2, ChannelBounds
<1>4. <<p[1], p[2], 1>> \in Handlers
  BY <1>1, <1>3 DEF Handlers
<1>5. h[1] = p[1] /\ h[2] = p[2]
  BY <1>1
<1>. QED  BY <1>1, <1>2, <1>4, <1>5, ChannelCalls DEF Posts, ClientCalls

\* Every leg of a call has a first delivery.
LEMMA FirstDeliveries ==
  /\ \A d \in Dispatches : <<d, "list", 1>> \in Handlers
                           /\ <<d, "dispatch", 1>> \in Handlers
  /\ \A q \in Reads : <<q, "read", 1>> \in Handlers
<1>1. \A leg \in {"list", "dispatch", "read"} : 1 \in 1..MaxCopies[leg]
  BY ChannelBounds
<1>2. ASSUME NEW k, NEW leg \in {"list", "dispatch", "read"},
             <<k, leg>> \in Posts
      PROVE  <<k, leg, 1>> \in Handlers
  <2>1. <<k, leg, 1>> \in {<<k, leg, n>> : n \in 1..MaxCopies[leg]}
    BY <1>1
  <2>2. /\ <<k, leg>>[1] = k /\ <<k, leg>>[2] = leg
    OBVIOUS
  <2>. QED  BY <1>2, <2>1, <2>2 DEF Handlers
<1>. QED  BY <1>2 DEF Posts

-----------------------------------------------------------------------------
(* Types.                                                                  *)

TypeInv == TypeOK /\ WireOK

\* The initial states are typed.
LEMMA InitTypes == Init => TypeInv
<1> SUFFICES ASSUME Init PROVE TypeInv
  OBVIOUS
<1>1. PICK start \in Starts :
        /\ rows = start.rows /\ grants = start.grants /\ token = start.token
        /\ cpc = [k \in ClientCalls |->
                    IF k \in start.calls THEN "idle" ELSE "done"]
        /\ ownerCalls = start.ownerCalls /\ crashes = start.crashes
  BY DEF Init
<1>2. \A h \in Handlers : ~Waits(h)
  BY <1>1, HandlerShape DEF Waits
<1>3. /\ rows \in [Secrets -> Rows] /\ Distinct(rows)
      /\ grants \subseteq Agents \X Secrets
      /\ token \in [Agents -> Tokens \cup {Nil}]
      /\ ownerCalls \in Nat /\ crashes \in Nat
  BY <1>1, ChannelStarts
<1>4. issued = {token[a] : a \in Agents} \ {Nil} /\ issued \subseteq Tokens
  BY <1>3 DEF Init
<1>5. requests \in [Dispatches -> [status: Statuses \cup {"NONE"},
                                  secret: Names \cup {Nil}]]
  BY DEF Init, NoRecord
<1>6. TypeOK
  BY <1>1, <1>2, <1>3, <1>4, <1>5 DEF Init, TypeOK, InVault
<1>7. WireOK
  BY <1>1 DEF Init, WireOK, NoRecord, InVault, Terminal, Executed
<1>. QED  BY <1>6, <1>7 DEF TypeInv

-----------------------------------------------------------------------------
(* Steps of the client.                                                    *)

HandlerPCs ==
  InVault \cup {"unsent", "wire", "answered", "refused", "over", "dead"}

\* Dropping answers that nobody waits for closes deliveries, posts none.
LEMMA Dropped ==
  ASSUME TypeInv, NEW k \in ClientCalls, NEW leg
  PROVE  /\ Closed(k, leg) \in [Handlers -> HandlerPCs]
         /\ \A h \in Handlers :
              \/ Closed(k, leg)[h] = hpc[h]
              \/ /\ Closed(k, leg)[h] = "over" /\ h[1] = k /\ h[2] = leg
                 /\ hpc[h] \in {"answered", "refused"}
         /\ Kept(k, leg) \in [Handlers -> SUBSET ((Aliases \X Secrets)
                                      \cup (Dispatches \X Statuses))]
         /\ \A h \in Handlers : Kept(k, leg)[h] \subseteq answer[h]
BY DEF TypeInv, TypeOK, WireOK, Closed, Kept, HandlerPCs

\* A call that begins.
LEMMA BeginTypes ==
  ASSUME TypeInv, NEW k \in ClientCalls, NEW leg, NEW t \in issued \cup {Nil},
         NEW name \in Wants, Begin(k, leg, t, name),
         \/ k \in Dispatches /\ leg = "list" /\ name \in Names
            /\ carried' = [carried EXCEPT ![k] = Carriers(rows, name)]
         \/ k \in Reads /\ leg = "read" /\ UNCHANGED carried
  PROVE  TypeInv'
<1> USE DEF TypeInv, Begin, vault, counters
<1>1. <<k, leg, 1>> \in Handlers
  BY FirstDeliveries
<1>2. carried' \in [Dispatches -> SUBSET Names]
  BY DEF TypeOK, Carriers, Names
<1>3. \A h \in Handlers : Waits(h)' => hpc'[<<h[1], h[2], 1>>] # "unsent"
  BY <1>1, HandlerShape DEF TypeOK, Waits
<1>4. TypeOK'
  BY <1>1, <1>2, <1>3 DEF TypeOK
<1>5. WireOK'
  BY <1>1, HandlerShape, ChannelCalls DEF TypeOK, WireOK, InVault, Terminal, Executed
<1>. QED  BY <1>4, <1>5

\* The list is answered and the dispatch posted.
LEMMA ReceiveListTypes ==
  ASSUME TypeInv, NEW h \in Handlers, ReceiveList(h)
  PROVE  TypeInv'
<1> DEFINE d == h[1]
           first == <<d, "dispatch", 1>>
<1> USE DEF TypeInv
<1>1. d \in Dispatches /\ cpc[d] = "list"
  BY HandlerShape DEF ReceiveList, Waits
<1>2. first \in Handlers /\ d \in ClientCalls
  BY <1>1, FirstDeliveries DEF ClientCalls
<1>3. PICK s \in Names : resolved' = [resolved EXCEPT ![d] = s]
  <2>1. want[d] \in Names
    BY <1>1, <1>2 DEF WireOK
  <2>2. {r \in Secrets : <<want[d], r>> \in answer[h]} \subseteq Names
    BY DEF Names
  <2>. QED  BY <2>1, <2>2 DEF ReceiveList
<1>4. /\ cpc' = [cpc EXCEPT ![d] = "dispatch"]
      /\ hpc' = [Closed(d, "list") EXCEPT ![first] = "wire"]
      /\ answer' = Kept(d, "list")
      /\ sentDead' \subseteq Dispatches
      /\ UNCHANGED <<rows, grants, token, issued, requests, seen, deciding,
                     held, want, result, told, carried, used, accepted,
                     ownerCalls, crashes>>
  BY <1>1 DEF ReceiveList, vault, counters, TypeOK
<1>5. /\ hpc' \in [Handlers -> HandlerPCs] /\ hpc'[first] = "wire"
      /\ \A g \in Handlers : hpc[g] # "unsent" => hpc'[g] # "unsent"
  BY <1>2, <1>4, Dropped DEF HandlerPCs
<1>6. ASSUME NEW g \in Handlers, Waits(g)'
      PROVE  hpc'[<<g[1], g[2], 1>>] # "unsent"
  <2>1. CASE g[1] = d
    BY <1>1, <1>4, <1>5, <1>6, <2>1 DEF TypeOK, Waits, ClientCalls
  <2>2. CASE g[1] # d
    BY <1>4, <1>5, <1>6, <2>2, HandlerShape DEF TypeOK, Waits
  <2>. QED  BY <2>1, <2>2
<1>7. TypeOK'
  <2>1. /\ cpc' \in [ClientCalls -> {"idle", "list", "dispatch", "read", "done"}]
        /\ resolved' \in [Dispatches -> Names \cup {Nil}]
    BY <1>2, <1>3, <1>4 DEF TypeOK
  <2>. QED  BY <1>4, <1>5, <1>6, <2>1 DEF TypeOK, HandlerPCs
<1>8. WireOK'
  BY <1>1, <1>2, <1>4, Dropped, HandlerShape
     DEF TypeOK, WireOK, InVault, Terminal, Executed
<1>. QED  BY <1>7, <1>8

\* A call returns with what it was told.
LEMMA ReturnTypes ==
  ASSUME TypeInv, NEW k \in ClientCalls, NEW how \in {"answered", "refused", "lost"},
         Return(k, how), cpc[k] # "idle",
         told' \in [ClientCalls -> SUBSET (Dispatches \X Statuses)]
  PROVE  TypeInv'
<1> USE DEF TypeInv, Return, vault, counters, history
<1>1. /\ hpc' \in [Handlers -> HandlerPCs]
      /\ \A g \in Handlers : hpc[g] # "unsent" <=> hpc'[g] # "unsent"
  BY Dropped
<1>2. \A g \in Handlers : Waits(g)' => hpc'[<<g[1], g[2], 1>>] # "unsent"
  BY <1>1, HandlerShape DEF TypeOK, Waits
<1>3. TypeOK'
  <2>1. /\ cpc' \in [ClientCalls -> {"idle", "list", "dispatch", "read", "done"}]
        /\ result' \in [ClientCalls -> {"none", "answered", "refused", "lost"}]
    BY DEF TypeOK
  <2>. QED  BY <1>1, <1>2, <2>1 DEF TypeOK, HandlerPCs
<1>4. WireOK'
  BY <1>1, Dropped, HandlerShape DEF TypeOK, WireOK, InVault, Terminal, Executed
<1>. QED  BY <1>3, <1>4

\* A call has an answer, a refusal or nothing.
LEMMA CallTypes ==
  ASSUME TypeInv, NEW h \in Handlers, NEW k \in ClientCalls,
         ReceiveAnswer(h) \/ ReceiveRefusal(h) \/ Break(k)
  PROVE  TypeInv'
<1> USE DEF TypeInv
<1>1. h[1] \in ClientCalls /\ (Waits(h) => cpc[h[1]] # "idle")
  BY HandlerShape DEF Waits
<1>2. CASE ReceiveAnswer(h)
  <2>1. answer[h] \subseteq Dispatches \X Statuses
    BY <1>2 DEF ReceiveAnswer, WireOK
  <2>2. told' \in [ClientCalls -> SUBSET (Dispatches \X Statuses)]
    BY <1>2, <2>1 DEF ReceiveAnswer, TypeOK
  <2>. QED  BY <1>1, <1>2, <2>2, ReturnTypes DEF ReceiveAnswer
<1>3. CASE ReceiveRefusal(h)
  BY <1>1, <1>3, ReturnTypes DEF ReceiveRefusal, TypeOK
<1>4. CASE Break(k)
  BY <1>4, ReturnTypes DEF Break, TypeOK
<1>. QED  BY <1>2, <1>3, <1>4

-----------------------------------------------------------------------------
(* Steps of a delivery.                                                    *)

\* A delivery moves on, with an answer while its call waits for it.
LEMMA MoveTypes ==
  ASSUME TypeInv, NEW h \in Handlers, NEW next \in HandlerPCs \ {"unsent"},
         NEW pairs \in SUBSET ((Aliases \X Secrets) \cup (Dispatches \X Statuses)),
         hpc' = [hpc EXCEPT ![h] = next], answer' = [answer EXCEPT ![h] = pairs],
         cpc[h[1]] # "idle", h[2] # "list" => cpc[h[1]] # "list",
         h[2] # "list" => pairs \subseteq Dispatches \X Statuses,
         next \in Terminal \cup {"allow", "AWAITING_APPROVAL"}
           => h[2] = "dispatch",
         requests' \in [Dispatches -> [status: Statuses \cup {"NONE"},
                                       secret: Names \cup {Nil}]],
         \A d \in Dispatches :
           requests'[d].status = "NONE" => requests'[d] = NoRecord,
         seen' \subseteq Posts, used' \in [Dispatches -> SUBSET Secrets],
         accepted' \in [Dispatches -> Nat],
         UNCHANGED <<rows, grants, token, issued, deciding, client, carried,
                     sentDead, counters>>
  PROVE  TypeInv'
<1> USE DEF TypeInv, client, counters
<1>1. \A g \in Handlers : Waits(g)' => hpc'[<<g[1], g[2], 1>>] # "unsent"
  BY HandlerShape DEF TypeOK, Waits
<1>2. TypeOK'
  BY <1>1 DEF TypeOK, HandlerPCs
<1>3. WireOK'
  BY HandlerShape DEF TypeOK, WireOK
<1>. QED  BY <1>2, <1>3

\* The requests stay typed and only those that are not there say so.
RequestsOK ==
  /\ requests \in [Dispatches -> [status: Statuses \cup {"NONE"},
                                  secret: Names \cup {Nil}]]
  /\ \A d \in Dispatches : requests[d].status = "NONE" => requests[d] = NoRecord

\* A delivery that moves on without an answer of its own.
LEMMA GotoTypes ==
  ASSUME TypeInv, NEW h \in Handlers, hpc[h] # "unsent",
         NEW next \in HandlerPCs \ {"unsent"}, Goto(h, next),
         next \in Terminal \cup {"allow", "AWAITING_APPROVAL"}
           => h[2] = "dispatch",
         RequestsOK', seen' \subseteq Posts,
         used' \in [Dispatches -> SUBSET Secrets],
         accepted' \in [Dispatches -> Nat],
         UNCHANGED <<rows, grants, token, issued, deciding, client, carried,
                     sentDead, counters>>
  PROVE  TypeInv'
<1>1. answer' = [answer EXCEPT ![h] = answer[h]]
  BY DEF Goto, TypeInv, WireOK
<1>2. /\ answer[h] \in SUBSET ((Aliases \X Secrets) \cup (Dispatches \X Statuses))
      /\ h[2] # "list" => answer[h] \subseteq Dispatches \X Statuses
      /\ cpc[h[1]] # "idle" /\ (h[2] # "list" => cpc[h[1]] # "list")
  BY DEF TypeInv, WireOK
<1>. QED  BY <1>1, <1>2, MoveTypes DEF Goto, RequestsOK

\* A delivery that is answered.
LEMMA ReplyTypes ==
  ASSUME TypeInv, NEW h \in Handlers, hpc[h] # "unsent", NEW pairs,
         Reply(h, pairs),
         pairs \subseteq IF h[2] = "list" THEN Aliases \X Secrets
                                          ELSE Dispatches \X Statuses,
         RequestsOK',
         UNCHANGED <<rows, grants, token, issued, seen, deciding, client,
                     history, counters>>
  PROVE  TypeInv'
<1>1. /\ cpc[h[1]] # "idle" /\ (h[2] # "list" => cpc[h[1]] # "list")
      /\ seen' \subseteq Posts /\ used' \in [Dispatches -> SUBSET Secrets]
      /\ accepted' \in [Dispatches -> Nat] /\ UNCHANGED <<carried, sentDead>>
  BY DEF TypeInv, TypeOK, WireOK, history
<1>2. CASE Waits(h)
  <2>1. /\ hpc' = [hpc EXCEPT ![h] = "answered"]
        /\ answer' = [answer EXCEPT ![h] = pairs]
    BY <1>2 DEF Reply
  <2>. QED
    BY <1>1, <2>1, MoveTypes
       DEF RequestsOK, HandlerPCs, InVault, Terminal, Executed
<1>3. CASE ~Waits(h)
  <2>1. /\ hpc' = [hpc EXCEPT ![h] = "over"]
        /\ answer' = [answer EXCEPT ![h] = {}]
    BY <1>3 DEF Reply
  <2>. QED
    BY <1>1, <2>1, MoveTypes
       DEF RequestsOK, HandlerPCs, InVault, Terminal, Executed
<1>. QED  BY <1>2, <1>3

\* A record that is saved is typed.
LEMMA SetRequestTypes ==
  ASSUME TypeInv, NEW d \in Dispatches, NEW rec, SetRequest(d, rec),
         rec \in [status: Statuses, secret: Names \cup {Nil}]
  PROVE  RequestsOK'
BY DEF TypeInv, TypeOK, WireOK, SetRequest, RequestsOK, Statuses, Terminal,
   Executed

\* A delivery that is at work is typed after its step.
LEMMA DeliveryTypes ==
  ASSUME TypeInv, NEW h \in Handlers, Verify(h) \/ Handle(h)
  PROVE  TypeInv'
<1> DEFINE d == h[1]
<1>1. RequestsOK /\ (UNCHANGED requests => RequestsOK')
  BY DEF RequestsOK, TypeInv, TypeOK, WireOK
<1>2. /\ used \in [Dispatches -> SUBSET Secrets]
      /\ accepted \in [Dispatches -> Nat] /\ seen \subseteq Posts
  BY DEF TypeInv, TypeOK
<1>3. {"guard", "serve", "answered", "refused", "over", "allow",
       "AWAITING_APPROVAL"} \cup Terminal \subseteq HandlerPCs \ {"unsent"}
  BY DEF HandlerPCs, InVault, Terminal, Executed
<1>4. {"guard", "serve", "answered", "refused", "over"}
        \cap (Terminal \cup {"allow", "AWAITING_APPROVAL"}) = {}
  BY DEF Terminal, Executed
<1>5. CASE Verify(h)
  <2>1. PICK next \in {"guard", "refused", "over"} : Goto(h, next)
    BY <1>5 DEF Verify, Refuse
  <2>. QED
    BY <1>1, <1>2, <1>3, <1>4, <1>5, <2>1, GotoTypes DEF Verify, vault, history
<1>6. CASE AssertNotReplayed(h)
  <2>1. PICK next \in {"serve", "refused", "over"} : Goto(h, next)
    BY <1>6 DEF AssertNotReplayed, Refuse
  <2>2. seen' \subseteq Posts
    <3>1. Key(h) \in Posts
      BY HandlerShape DEF Key
    <3>. QED  BY <1>2, <1>6, <3>1 DEF AssertNotReplayed
  <2>3. accepted' \in [Dispatches -> Nat]
    BY <1>2, <1>6 DEF AssertNotReplayed
  <2>4. hpc[h] # "unsent" /\ UNCHANGED <<requests, used>>
    BY <1>6 DEF AssertNotReplayed
  <2>. QED
    BY <1>1, <1>2, <1>3, <1>4, <1>6, <2>1, <2>2, <2>3, <2>4, GotoTypes
       DEF AssertNotReplayed
<1>7. CASE ListSecrets(h)
  <2>1. {<<rows[s].alias, s>> : s \in Active} \subseteq Aliases \X Secrets
    BY DEF Active, TypeInv, TypeOK, Rows, NoRow
  <2>. QED
    BY <1>1, <1>7, <2>1, ReplyTypes DEF ListSecrets, vault
<1>8. CASE ReadRequests(h)
  <2>1. CASE Refuse(h)
    <3>1. PICK next \in {"refused", "over"} : Goto(h, next)
      BY <2>1 DEF Refuse
    <3>. QED
      BY <1>1, <1>2, <1>3, <1>4, <1>8, <3>1, GotoTypes
         DEF ReadRequests, vault, history
  <2>2. CASE Reply(h, {<<r, requests[r].status>> : r \in Asked(d)})
    <3>1. {<<r, requests[r].status>> : r \in Asked(d)}
            \subseteq Dispatches \X Statuses
      BY <1>1 DEF Asked, RequestsOK
    <3>. QED  BY <1>1, <1>8, <2>2, <3>1, ReplyTypes DEF ReadRequests, vault
  <2>. QED  BY <1>8, <2>1, <2>2 DEF ReadRequests
<1>9. CASE Authorize(h)
  <2>1. d \in Dispatches
    BY <1>9, HandlerShape DEF Authorize
  <2>2. PICK secret \in Names \cup {Nil} :
          SetRequest(d, [status |-> "IN_PROGRESS", secret |-> secret])
    BY <1>9 DEF Authorize, Active, Names
  <2>3. RequestsOK'
    BY <2>1, <2>2, SetRequestTypes DEF Statuses
  <2>4. PICK next \in {"DENIED", "allow", "AWAITING_APPROVAL"} : Goto(h, next)
    BY <1>9 DEF Authorize
  <2>5. hpc[h] # "unsent" /\ h[2] = "dispatch"
        /\ UNCHANGED <<client, history, counters>>
    BY <1>9 DEF Authorize
  <2>6. next \in HandlerPCs \ {"unsent"}
    BY <1>3 DEF Terminal
  <2>. QED
    BY <1>2, <2>2, <2>3, <2>4, <2>5, <2>6, GotoTypes DEF SetRequest, history
<1>10. CASE Execute(h)
  <2>1. hpc[h] = "allow" /\ d \in Dispatches
    BY <1>10, HandlerShape DEF Execute, TypeInv, WireOK
  <2>2. PICK next \in Executed \cup {"refused", "over"} : Goto(h, next)
    BY <1>10 DEF Execute, Refuse
  <2>3. used' \in [Dispatches -> SUBSET Secrets]
    BY <1>2, <1>10, <2>1 DEF Execute, Active
  <2>4. h[2] = "dispatch"
    BY <2>1 DEF TypeInv, WireOK
  <2>5. next \in HandlerPCs \ {"unsent"}
    BY <1>3 DEF Terminal
  <2>. QED
    BY <1>1, <1>2, <1>10, <2>1, <2>2, <2>3, <2>4, <2>5, GotoTypes
       DEF Execute, vault
<1>11. CASE Conclude(h)
  <2>1. h[2] = "dispatch" /\ d \in Dispatches /\ hpc[h] \in Statuses
    BY <1>11, HandlerShape DEF Conclude, TypeInv, WireOK, Statuses
  <2>2. [requests[d] EXCEPT !.status = hpc[h]]
          \in [status: Statuses, secret: Names \cup {Nil}]
    BY <1>1, <2>1 DEF RequestsOK
  <2>3. RequestsOK'
    BY <1>11, <2>1, <2>2, SetRequestTypes DEF Conclude
  <2>4. hpc[h] # "unsent"
    BY <1>11 DEF Conclude, Terminal, Executed
  <2>. QED
    BY <1>11, <2>1, <2>3, <2>4, ReplyTypes DEF Conclude, SetRequest
<1>. QED
  BY <1>5, <1>6, <1>7, <1>8, <1>9, <1>10, <1>11 DEF Handle

\* A post that is delivered once more.
LEMMA DuplicateTypes ==
  ASSUME TypeInv, NEW h \in Handlers, Duplicate(h)
  PROVE  TypeInv'
<1> DEFINE first == <<h[1], h[2], 1>>
<1>1. first \in Handlers /\ hpc[first] # "unsent"
  BY HandlerShape DEF Duplicate
<1>2. cpc[h[1]] # "idle" /\ (h[2] # "list" => cpc[h[1]] # "list")
  <2>1. first[1] = h[1] /\ first[2] = h[2]
    OBVIOUS
  <2>. QED  BY <1>1, <2>1 DEF TypeInv, WireOK
<1>3. /\ hpc' = [hpc EXCEPT ![h] = "wire"]
      /\ answer' = [answer EXCEPT ![h] = answer[h]]
      /\ UNCHANGED <<vault, client, history, counters>>
  BY DEF Duplicate, TypeInv, WireOK
<1>4. /\ answer[h] \in SUBSET ((Aliases \X Secrets) \cup (Dispatches \X Statuses))
      /\ h[2] # "list" => answer[h] \subseteq Dispatches \X Statuses
  BY DEF TypeInv, WireOK
<1>5. RequestsOK' /\ seen' \subseteq Posts
      /\ used' \in [Dispatches -> SUBSET Secrets]
      /\ accepted' \in [Dispatches -> Nat]
      /\ UNCHANGED <<rows, grants, token, issued, deciding, carried, sentDead>>
  BY <1>3 DEF RequestsOK, TypeInv, TypeOK, WireOK, vault, history
<1>6. "wire" \in HandlerPCs \ {"unsent"}
      /\ "wire" \notin Terminal \cup {"allow", "AWAITING_APPROVAL"}
  BY DEF HandlerPCs, Terminal, Executed
<1>. QED
  BY <1>2, <1>3, <1>4, <1>5, <1>6, MoveTypes DEF RequestsOK

-----------------------------------------------------------------------------
(* Steps of the owner and the death of the process.                        *)

OwnerCalls ==
  \/ \E s \in Secrets, a \in Aliases : CreateSecret(s, a) \/ RenameSecret(s, a)
  \/ \E s \in Secrets : RemoveSecret(s)
  \/ \E a \in Agents, s \in Secrets : ChangeGrants(a, s)
  \/ \E a \in Agents, t \in Tokens : IssueToken(a, t)
  \/ \E a \in Agents : RevokeToken(a)

Decisions == \E d \in Dispatches :
               BeginApproval(d) \/ Deny(d) \/ Approve(d) \/ ApprovalFails(d)

\* What the calls of the owner do to the stores and to what a list may find.
LEMMA OwnerCallEffect ==
  ASSUME TypeInv, OwnerCalls
  PROVE  /\ UNCHANGED <<requests, seen, deciding, client, wire, used,
                        accepted, sentDead>>
         /\ rows' \in [Secrets -> Rows] /\ Distinct(rows')
         /\ \/ UNCHANGED <<rows, carried>>
            \/ carried' = [d \in Dispatches |->
                 IF cpc[d] = "list" THEN carried[d] \cup Carriers(rows', want[d])
                                    ELSE carried[d]]
         /\ \/ UNCHANGED <<token, issued>>
            \/ \E a \in Agents, t \in Tokens \ issued :
                 token' = [token EXCEPT ![a] = t] /\ issued' = issued \cup {t}
            \/ \E a \in Agents :
                 token' = [token EXCEPT ![a] = Nil] /\ UNCHANGED issued
<1> USE DEF TypeInv, TypeOK, CallOwner
<1>1. ASSUME NEW s \in Secrets, NEW a \in Aliases, CreateSecret(s, a)
      PROVE  rows' \in [Secrets -> Rows]
  BY <1>1 DEF CreateSecret, SetRow, Rows
<1>2. ASSUME NEW s \in Secrets, NEW a \in Aliases, RenameSecret(s, a)
      PROVE  rows' \in [Secrets -> Rows]
  BY <1>2 DEF RenameSecret, SetRow, Rows, Active, NoRow
<1>3. ASSUME NEW s \in Secrets, RemoveSecret(s)
      PROVE  rows' \in [Secrets -> Rows]
  <2>1. rows[s] \in Rows /\ rows[s].status = "ACTIVE"
    BY <1>3 DEF RemoveSecret, Active
  <2>2. [rows[s] EXCEPT !.status = "REMOVED"] \in Rows
    BY <2>1 DEF Rows, NoRow
  <2>. QED  BY <1>3, <2>2 DEF RemoveSecret, SetRow
<1>. QED
  BY <1>1, <1>2, <1>3 DEF OwnerCalls, CreateSecret, RenameSecret,
     RemoveSecret, ChangeGrants, IssueToken, RevokeToken, SetRow

\* The calls of the owner keep the types.
LEMMA OwnerCallTypes ==
  ASSUME TypeInv, OwnerCalls
  PROVE  TypeInv'
<1>1. grants' \subseteq Agents \X Secrets /\ ownerCalls' \in Nat /\ crashes' \in Nat
  <2>1. CallOwner
    BY DEF OwnerCalls, CreateSecret, RenameSecret, RemoveSecret, ChangeGrants,
       IssueToken, RevokeToken
  <2>2. grants' \subseteq grants
          \/ \E a \in Agents, s \in Secrets : grants' = grants \cup {<<a, s>>}
    BY DEF OwnerCalls, CreateSecret, RenameSecret, RemoveSecret, ChangeGrants,
       IssueToken, RevokeToken
  <2>. QED  BY <2>1, <2>2 DEF TypeInv, TypeOK, CallOwner
<1>2. /\ token' \in [Agents -> Tokens \cup {Nil}]
      /\ issued \subseteq issued' /\ issued' \subseteq Tokens
      /\ {token'[a] : a \in Agents} \ {Nil} \subseteq issued'
  <2>1. CASE UNCHANGED <<token, issued>>
    BY <2>1 DEF TypeInv, TypeOK
  <2>2. CASE \E a \in Agents, t \in Tokens \ issued :
               token' = [token EXCEPT ![a] = t] /\ issued' = issued \cup {t}
    BY <2>2 DEF TypeInv, TypeOK
  <2>3. CASE \E a \in Agents :
               token' = [token EXCEPT ![a] = Nil] /\ UNCHANGED issued
    BY <2>3 DEF TypeInv, TypeOK
  <2>. QED  BY <2>1, <2>2, <2>3, OwnerCallEffect
<1>3. carried' \in [Dispatches -> SUBSET Names]
  <2>1. \A d \in Dispatches :
          cpc[d] = "list" => Carriers(rows', want[d]) \subseteq Names
    BY DEF TypeInv, WireOK, Carriers, Names, ClientCalls
  <2>. QED  BY <2>1, OwnerCallEffect DEF TypeInv, TypeOK
<1>4. TypeOK'
  BY <1>1, <1>2, <1>3, OwnerCallEffect
     DEF TypeInv, TypeOK, client, wire, Waits
<1>5. WireOK'
  BY <1>2, OwnerCallEffect DEF TypeInv, WireOK, client, wire
<1>. QED  BY <1>4, <1>5 DEF TypeInv

\* A decision of the owner keeps the types.
LEMMA DecisionTypes ==
  ASSUME TypeInv, Decisions
  PROVE  TypeInv'
<1>1. PICK d \in Dispatches :
        BeginApproval(d) \/ Deny(d) \/ Approve(d) \/ ApprovalFails(d)
  BY DEF Decisions
<1>2. /\ UNCHANGED <<rows, token, issued, seen, client, wire, carried,
                     accepted, sentDead, counters>>
      /\ deciding' = [deciding EXCEPT ![d] = Nil]
           \/ deciding' = [deciding EXCEPT ![d] = requests[d].secret]
      /\ UNCHANGED requests
           \/ \E status \in Terminal :
                requests' = [requests EXCEPT ![d] =
                               [status |-> status, secret |-> deciding[d]]]
  BY <1>1 DEF BeginApproval, Deny, Approve, ApprovalFails, Decided, Terminal,
     history
<1>3. /\ grants' \subseteq Agents \X Secrets
      /\ used' \in [Dispatches -> SUBSET Secrets]
  <2>1. CASE UNCHANGED <<grants, used>>
    BY <2>1 DEF TypeInv, TypeOK
  <2>2. CASE Approve(d)
    <3>1. deciding[d] \in Secrets /\ AgentOf[d] \in Agents
      BY <2>2, ChannelCalls DEF Approve, Active, ClientCalls
    <3>. QED  BY <2>2, <3>1 DEF Approve, TypeInv, TypeOK
  <2>. QED
    BY <1>1, <2>1, <2>2 DEF BeginApproval, Deny, ApprovalFails, history
<1>4. deciding' \in [Dispatches -> Names \cup {Nil}]
  BY <1>2 DEF TypeInv, TypeOK
<1>5. RequestsOK'
  <2>1. RequestsOK /\ deciding[d] \in Names \cup {Nil}
    BY DEF RequestsOK, TypeInv, TypeOK, WireOK
  <2>2. ASSUME NEW status \in Terminal,
               requests' = [requests EXCEPT ![d] =
                              [status |-> status, secret |-> deciding[d]]]
        PROVE  RequestsOK'
    <3>1. status \in Statuses /\ status # "NONE"
      BY DEF Statuses, Terminal, Executed
    <3>. QED  BY <2>1, <2>2, <3>1 DEF RequestsOK
  <2>. QED  BY <1>2, <2>1, <2>2 DEF RequestsOK
<1>6. TypeOK'
  BY <1>2, <1>3, <1>4, <1>5
     DEF TypeInv, TypeOK, RequestsOK, client, wire, counters, Waits
<1>7. WireOK'
  BY <1>2, <1>5 DEF TypeInv, WireOK, RequestsOK, client, wire
<1>. QED  BY <1>6, <1>7 DEF TypeInv

\* The death of the process keeps the types.
LEMMA CrashTypes ==
  ASSUME TypeInv, Crash
  PROVE  TypeInv'
<1>1. /\ hpc' = [h \in Handlers |-> IF hpc[h] \in InVault THEN "dead" ELSE hpc[h]]
      /\ UNCHANGED <<rows, grants, token, issued, requests, client, answer,
                     history, ownerCalls>>
      /\ deciding' = [d \in Dispatches |-> Nil]
      /\ seen' = {} /\ crashes' = crashes + 1
  BY DEF Crash
<1>2. \A h \in Handlers : Waits(h)' => hpc'[<<h[1], h[2], 1>>] # "unsent"
  BY <1>1, HandlerShape DEF TypeInv, TypeOK, Waits, client
<1>3. hpc' \in [Handlers -> HandlerPCs]
  BY <1>1 DEF TypeInv, TypeOK, HandlerPCs
<1>4. TypeOK'
  <2>1. deciding' \in [Dispatches -> Names \cup {Nil}] /\ seen' \subseteq Posts
        /\ crashes' \in Nat
    BY <1>1 DEF TypeInv, TypeOK
  <2>2. UNCHANGED <<rows, grants, token, issued, requests, cpc, held, want,
                    resolved, result, told, carried, used, accepted, sentDead,
                    ownerCalls>>
    BY <1>1 DEF client, history
  <2>. QED
    BY <1>2, <1>3, <2>1, <2>2 DEF TypeInv, TypeOK, HandlerPCs
<1>5. \A h \in Handlers :
        /\ hpc[h] = "unsent" => hpc'[h] = "unsent"
        /\ hpc'[h] \in Terminal \cup {"allow", "AWAITING_APPROVAL"}
             => hpc'[h] = hpc[h]
  BY <1>1 DEF Terminal, Executed, InVault
<1>6. WireOK'
  BY <1>1, <1>5 DEF TypeInv, WireOK, client
<1>. QED  BY <1>4, <1>6 DEF TypeInv

\* Next, by who takes the step.
LEMMA NextCases ==
  ASSUME Next
  PROVE  \/ \E d \in Dispatches, t \in issued \cup {Nil}, name \in Names :
              BeginDispatch(d, t, name)
         \/ \E q \in Reads, t \in issued \cup {Nil}, target \in Targets :
              BeginRead(q, t, target)
         \/ \E h \in Handlers : ReceiveList(h) \/ ReceiveAnswer(h)
                                \/ ReceiveRefusal(h) \/ Duplicate(h)
         \/ \E h \in Handlers : Verify(h) \/ Handle(h)
         \/ \E k \in ClientCalls : Break(k)
         \/ OwnerCalls \/ Decisions \/ Crash
BY DEF Next, ClientStep, OwnerStep, OwnerCalls, Decisions

\* Every step keeps the types.
LEMMA TypeStep ==
  ASSUME TypeInv, [Next]_vars
  PROVE  TypeInv'
<1>1. ASSUME NEW d \in Dispatches, NEW t \in issued \cup {Nil},
             NEW name \in Names, BeginDispatch(d, t, name)
      PROVE  TypeInv'
  BY <1>1, BeginTypes DEF BeginDispatch, ClientCalls, Wants
<1>2. ASSUME NEW q \in Reads, NEW t \in issued \cup {Nil},
             NEW target \in Targets, BeginRead(q, t, target)
      PROVE  TypeInv'
  BY <1>2, BeginTypes DEF BeginRead, ClientCalls, Wants
<1>3. ASSUME NEW h \in Handlers,
             ReceiveAnswer(h) \/ ReceiveRefusal(h)
      PROVE  TypeInv'
  BY <1>3, HandlerShape, CallTypes
<1>4. ASSUME NEW k \in ClientCalls, Break(k) PROVE TypeInv'
  <2>1. PICK h \in Handlers : TRUE
    BY FirstDeliveries DEF ClientCalls
  <2>. QED  BY <1>4, <2>1, CallTypes
<1>5. CASE UNCHANGED vars
  <2>1. TypeOK'
    BY <1>5 DEF TypeInv, TypeOK, Waits, vars, vault, client, wire, history,
       counters
  <2>2. WireOK'
    BY <1>5 DEF TypeInv, WireOK, vars, vault, client, wire
  <2>. QED  BY <2>1, <2>2 DEF TypeInv
<1>. QED
  BY <1>1, <1>2, <1>3, <1>4, <1>5, NextCases, ReceiveListTypes, DeliveryTypes,
     DuplicateTypes, OwnerCallTypes, DecisionTypes, CrashTypes

(***************************************************************************)
(* Every variable keeps its type, and a call never waits for an answer to  *)
(* a request it has not posted.                                            *)
(***************************************************************************)
THEOREM ChannelTypes == Spec => []TypeOK
<1>1. TypeInv => TypeOK
  BY DEF TypeInv
<1>. QED  BY <1>1, InitTypes, TypeStep, PTL DEF Spec

-----------------------------------------------------------------------------
(* What one step does to a dispatch, to a delivery and to a call.          *)

\* The first delivery of a dispatch is posted by its call, the others later.
Posted(h) ==
  /\ hpc[h] = "unsent" /\ hpc'[h] = "wire"
  /\ \/ Duplicate(h)
     \/ h[2] = "list" /\ cpc[h[1]] = "idle"
     \/ h[2] = "read" /\ cpc[h[1]] = "idle"
     \/ h[2] = "dispatch" /\ cpc[h[1]] = "list"

\* The store of a request changes by a delivery of its dispatch or by a
\* decision of the owner.
LEMMA DispatchFrame ==
  ASSUME TypeInv, [Next]_vars, NEW d \in Dispatches
  PROVE  \/ /\ requests'[d] = requests[d] /\ accepted'[d] = accepted[d]
            /\ used'[d] = used[d] /\ deciding'[d] \in {deciding[d], Nil}
         \/ \E h \in Deliveries(d) :
              /\ hpc[h] \in InVault
              /\ AssertNotReplayed(h) \/ Authorize(h) \/ Execute(h) \/ Conclude(h)
         \/ BeginApproval(d) \/ Deny(d) \/ Approve(d)
<1> DEFINE Same == /\ requests'[d] = requests[d] /\ accepted'[d] = accepted[d]
                   /\ used'[d] = used[d] /\ deciding'[d] \in {deciding[d], Nil}
<1>0. /\ requests = [e \in Dispatches |-> requests[e]]
      /\ used = [e \in Dispatches |-> used[e]]
      /\ accepted \in [Dispatches -> Nat]
      /\ deciding = [e \in Dispatches |-> deciding[e]]
  BY DEF TypeInv, TypeOK
<1>1. ASSUME UNCHANGED <<vault, used, accepted>> PROVE Same
  BY <1>1 DEF vault
<1>2. ASSUME NEW h \in Handlers, Verify(h) \/ ListSecrets(h) \/ ReadRequests(h)
      PROVE  Same
  BY <1>1, <1>2 DEF Verify, ListSecrets, ReadRequests, history
<1>3. ASSUME NEW h \in Handlers, h[2] = "dispatch", h[1] = d, hpc[h] # "unsent"
      PROVE  h \in Deliveries(d)
  BY <1>3 DEF Deliveries
<1>4. ASSUME NEW h \in Handlers, AssertNotReplayed(h), ~Same
      PROVE  h \in Deliveries(d) /\ hpc[h] \in InVault
  <2>1. UNCHANGED <<requests, used, deciding>>
    BY <1>4 DEF AssertNotReplayed
  <2>2. accepted'[d] # accepted[d]
    BY <1>4, <2>1
  <2>3. Key(h) = <<d, "dispatch">>
    BY <1>0, <1>4, <2>2 DEF AssertNotReplayed
  <2>. QED  BY <1>3, <1>4, <2>3 DEF AssertNotReplayed, InVault, Key
<1>5. ASSUME NEW h \in Handlers, Authorize(h), ~Same
      PROVE  h \in Deliveries(d) /\ hpc[h] \in InVault
  <2>1. h[1] = d
    BY <1>0, <1>5 DEF Authorize, SetRequest, history
  <2>. QED  BY <1>3, <1>5, <2>1 DEF Authorize, InVault
<1>6. ASSUME NEW h \in Handlers, Execute(h), ~Same
      PROVE  h \in Deliveries(d) /\ hpc[h] \in InVault
  <2>1. h[1] = d
    BY <1>0, <1>6 DEF Execute, vault
  <2>2. h[2] = "dispatch"
    BY <1>6 DEF Execute, TypeInv, WireOK
  <2>. QED  BY <1>3, <1>6, <2>1, <2>2 DEF Execute, InVault
<1>7. ASSUME NEW h \in Handlers, Conclude(h), ~Same
      PROVE  h \in Deliveries(d) /\ hpc[h] \in InVault
  <2>1. h[1] = d
    BY <1>0, <1>7 DEF Conclude, SetRequest, history
  <2>2. h[2] = "dispatch"
    BY <1>7 DEF Conclude, TypeInv, WireOK
  <2>3. hpc[h] \in InVault /\ hpc[h] # "unsent"
    BY <1>7 DEF Conclude, InVault, Terminal, Executed
  <2>. QED  BY <1>3, <1>7, <2>1, <2>2, <2>3
<1>8. CASE Decisions
  <2>1. PICK e \in Dispatches :
          BeginApproval(e) \/ Deny(e) \/ Approve(e) \/ ApprovalFails(e)
    BY <1>8 DEF Decisions
  <2>2. CASE e = d
    BY <1>0, <2>1, <2>2 DEF ApprovalFails, history
  <2>3. CASE e # d
    BY <1>0, <2>1, <2>3
       DEF BeginApproval, Deny, Approve, ApprovalFails, Decided, history
  <2>. QED  BY <2>2, <2>3
<1>9. CASE OwnerCalls
  BY <1>9, OwnerCallEffect
<1>10. CASE Crash
  BY <1>10 DEF Crash, history
<1>11. ASSUME NEW h \in Handlers, ReceiveList(h) \/ ReceiveAnswer(h)
                                  \/ ReceiveRefusal(h) \/ Duplicate(h)
       PROVE  Same
  BY <1>1, <1>11
     DEF ReceiveList, ReceiveAnswer, ReceiveRefusal, Return, Duplicate, history
<1>12. ASSUME NEW k, NEW t, NEW name, BeginDispatch(k, t, name) \/ BeginRead(k, t, name)
       PROVE  Same
  BY <1>1, <1>12 DEF BeginDispatch, BeginRead, Begin
<1>13. ASSUME NEW k, Break(k) PROVE Same
  BY <1>1, <1>13 DEF Break, Return, history
<1>14. ASSUME UNCHANGED vars PROVE Same
  BY <1>1, <1>14 DEF vars, history
<1>. QED
  BY <1>2, <1>4, <1>5, <1>6, <1>7, <1>8, <1>9, <1>10, <1>11, <1>12, <1>13,
     <1>14, NextCases DEF Handle

\* A delivery moves by its own step, or is posted, dropped or lost.
LEMMA DeliveryFrame ==
  ASSUME TypeInv, [Next]_vars, NEW h \in Handlers
  PROVE  \/ Verify(h) \/ Handle(h)
         \/ /\ answer'[h] \subseteq answer[h]
            /\ \/ hpc'[h] = hpc[h]
               \/ Posted(h)
               \/ hpc[h] \in {"answered", "refused"} /\ hpc'[h] = "over"
               \/ hpc[h] \in InVault /\ hpc'[h] = "dead"
<1> DEFINE Moved == /\ answer'[h] \subseteq answer[h]
                    /\ \/ hpc'[h] = hpc[h]
                       \/ Posted(h)
                       \/ hpc[h] \in {"answered", "refused"} /\ hpc'[h] = "over"
                       \/ hpc[h] \in InVault /\ hpc'[h] = "dead"
<1>0. hpc \in [Handlers -> HandlerPCs] /\ answer = [g \in Handlers |-> answer[g]]
  BY DEF TypeInv, TypeOK, WireOK, HandlerPCs
<1>1. ASSUME UNCHANGED wire PROVE Moved
  BY <1>1 DEF wire
<1>2. ASSUME NEW g \in Handlers, Verify(g) \/ Handle(g), g # h PROVE Moved
  <2>1. CASE \E next : Goto(g, next)
    BY <1>0, <1>2, <2>1 DEF Goto
  <2>2. CASE \E pairs : Reply(g, pairs)
    BY <1>0, <1>2, <2>2 DEF Reply
  <2>3. (\E next : Goto(g, next)) \/ (\E pairs : Reply(g, pairs))
    <3>1. CASE Verify(g)
      BY <3>1 DEF Verify, Refuse
    <3>2. CASE AssertNotReplayed(g)
      BY <3>2 DEF AssertNotReplayed, Refuse
    <3>3. CASE ListSecrets(g)
      BY <3>3 DEF ListSecrets
    <3>4. CASE ReadRequests(g)
      BY <3>4 DEF ReadRequests, Refuse
    <3>5. CASE Authorize(g)
      BY <3>5 DEF Authorize
    <3>6. CASE Execute(g)
      BY <3>6 DEF Execute, Refuse
    <3>7. CASE Conclude(g)
      BY <3>7 DEF Conclude
    <3>. QED  BY <1>2, <3>1, <3>2, <3>3, <3>4, <3>5, <3>6, <3>7 DEF Handle
  <2>. QED  BY <2>1, <2>2, <2>3
<1>3. ASSUME NEW g \in Handlers, Duplicate(g) PROVE Moved
  <2>1. answer' = answer /\ hpc' = [hpc EXCEPT ![g] = "wire"] /\ hpc[g] = "unsent"
    BY <1>3 DEF Duplicate
  <2>2. CASE g = h
    BY <1>0, <1>3, <2>1, <2>2 DEF Posted
  <2>3. CASE g # h
    BY <1>0, <2>1, <2>3
  <2>. QED  BY <2>2, <2>3
<1>4. ASSUME NEW k \in ClientCalls, NEW how, Return(k, how) PROVE Moved
  BY <1>4, Dropped DEF Return
<1>5. ASSUME NEW g \in Handlers, ReceiveList(g) PROVE Moved
  <2>1. g[1] \in ClientCalls /\ cpc[g[1]] = "list"
    BY <1>5, HandlerShape DEF ReceiveList, Waits
  <2>2. /\ hpc' = [Closed(g[1], "list") EXCEPT ![<<g[1], "dispatch", 1>>] = "wire"]
        /\ answer' = Kept(g[1], "list")
    BY <1>5 DEF ReceiveList
  <2>3. answer'[h] \subseteq answer[h]
    BY <2>1, <2>2, Dropped
  <2>4. CASE h = <<g[1], "dispatch", 1>>
    <3>1. h[1] = g[1] /\ h[2] = "dispatch"
      BY <2>4
    <3>2. hpc[h] = "unsent"
      BY <2>1, <3>1 DEF TypeInv, WireOK
    <3>. QED  BY <2>1, <2>2, <2>3, <2>4, <3>1, <3>2, Dropped DEF Posted
  <2>5. CASE h # <<g[1], "dispatch", 1>>
    BY <2>1, <2>2, <2>3, <2>5, Dropped
  <2>. QED  BY <2>4, <2>5
<1>6. ASSUME NEW k \in ClientCalls, NEW leg \in {"list", "read"}, NEW t, NEW name,
             Begin(k, leg, t, name)
      PROVE  Moved
  <2>1. CASE h = <<k, leg, 1>>
    <3>1. h[1] = k /\ h[2] = leg
      BY <2>1
    <3>. QED  BY <1>0, <1>6, <2>1, <3>1 DEF Begin, Posted, TypeInv, WireOK
  <2>2. CASE h # <<k, leg, 1>>
    BY <1>0, <1>6, <2>2 DEF Begin
  <2>. QED  BY <2>1, <2>2
<1>7. CASE Crash
  BY <1>7 DEF Crash
<1>8. CASE OwnerCalls \/ Decisions
  <2>1. UNCHANGED wire
    BY <1>8, OwnerCallEffect
       DEF Decisions, BeginApproval, Deny, Approve, ApprovalFails, Decided
  <2>. QED  BY <1>1, <2>1
<1>9. ASSUME NEW g \in Handlers, ReceiveAnswer(g) \/ ReceiveRefusal(g) PROVE Moved
  BY <1>4, <1>9, HandlerShape DEF ReceiveAnswer, ReceiveRefusal
<1>10. ASSUME NEW k \in ClientCalls, Break(k) PROVE Moved
  BY <1>4, <1>10 DEF Break
<1>11. ASSUME NEW k \in ClientCalls, NEW t, NEW name,
              \/ k \in Dispatches /\ BeginDispatch(k, t, name)
              \/ k \in Reads /\ BeginRead(k, t, name)
       PROVE  Moved
  BY <1>6, <1>11 DEF BeginDispatch, BeginRead
<1>12. Dispatches \subseteq ClientCalls /\ Reads \subseteq ClientCalls
  BY DEF ClientCalls
<1>13. CASE UNCHANGED vars
  BY <1>1, <1>13 DEF vars
<1>. QED
  BY <1>2, <1>3, <1>5, <1>7, <1>8, <1>9, <1>10, <1>11, <1>12, <1>13, NextCases

\* A call goes on only by steps of its own client.
LEMMA CallFrame ==
  ASSUME TypeInv, [Next]_vars, NEW k \in ClientCalls
  PROVE  \/ /\ cpc'[k] = cpc[k] /\ held'[k] = held[k] /\ want'[k] = want[k]
            /\ result'[k] = result[k] /\ told'[k] = told[k]
            /\ k \in Dispatches => resolved'[k] = resolved[k]
            /\ k \in sentDead' <=> k \in sentDead
         \/ /\ cpc[k] = "idle" /\ k \in Dispatches
            /\ \E t \in issued \cup {Nil}, name \in Names : BeginDispatch(k, t, name)
         \/ /\ cpc[k] = "idle" /\ k \in Reads
            /\ \E t \in issued \cup {Nil}, name \in Targets : BeginRead(k, t, name)
         \/ \E h \in Handlers : /\ h[1] = k /\ cpc[k] = h[2]
                                /\ ReceiveList(h) \/ ReceiveAnswer(h)
                                   \/ ReceiveRefusal(h)
         \/ Break(k)
<1> DEFINE Same ==
      /\ cpc'[k] = cpc[k] /\ held'[k] = held[k] /\ want'[k] = want[k]
      /\ result'[k] = result[k] /\ told'[k] = told[k]
      /\ k \in Dispatches => resolved'[k] = resolved[k]
      /\ k \in sentDead' <=> k \in sentDead
<1>0. /\ cpc = [c \in ClientCalls |-> cpc[c]] /\ held = [c \in ClientCalls |-> held[c]]
      /\ want = [c \in ClientCalls |-> want[c]]
      /\ result = [c \in ClientCalls |-> result[c]]
      /\ told = [c \in ClientCalls |-> told[c]]
      /\ resolved = [d \in Dispatches |-> resolved[d]]
  BY DEF TypeInv, TypeOK
<1>1. ASSUME UNCHANGED <<client, sentDead>> PROVE Same
  BY <1>1 DEF client
<1>2. ASSUME NEW h \in Handlers, Verify(h) \/ Handle(h) \/ Duplicate(h) PROVE Same
  <2>1. UNCHANGED <<client, sentDead>>
    BY <1>2 DEF Verify, Handle, AssertNotReplayed, ListSecrets, ReadRequests,
       Authorize, Execute, Conclude, Duplicate, history
  <2>. QED  BY <1>1, <2>1
<1>3. CASE OwnerCalls \/ Decisions \/ Crash
  <2>1. UNCHANGED <<client, sentDead>>
    BY <1>3, OwnerCallEffect
       DEF Decisions, BeginApproval, Deny, Approve, ApprovalFails, Decided,
           Crash, history
  <2>. QED  BY <1>1, <2>1
<1>4. CASE UNCHANGED vars
  BY <1>1, <1>4 DEF vars, history
<1>5. ASSUME NEW h \in Handlers,
             ReceiveList(h) \/ ReceiveAnswer(h) \/ ReceiveRefusal(h)
      PROVE  Same \/ (h[1] = k /\ cpc[k] = h[2])
  <2>1. h[1] = k => cpc[k] = h[2]
    BY <1>5 DEF ReceiveList, ReceiveAnswer, ReceiveRefusal, Waits
  <2>2. h[1] # k => Same
    <3>1. CASE ReceiveList(h)
      BY <1>0, <3>1 DEF ReceiveList
    <3>2. CASE ReceiveAnswer(h)
      BY <1>0, <3>2 DEF ReceiveAnswer, Return, history
    <3>3. CASE ReceiveRefusal(h)
      BY <1>0, <3>3 DEF ReceiveRefusal, Return, history
    <3>. QED  BY <1>5, <3>1, <3>2, <3>3
  <2>. QED  BY <2>1, <2>2
<1>6. ASSUME NEW c, Break(c), c # k PROVE Same
  BY <1>0, <1>6 DEF Break, Return, history
<1>7. ASSUME NEW c, NEW t, NEW name, c # k,
             BeginDispatch(c, t, name) \/ BeginRead(c, t, name)
      PROVE  Same
  BY <1>0, <1>7 DEF BeginDispatch, BeginRead, Begin
<1>8. ASSUME NEW t, NEW name, BeginDispatch(k, t, name) \/ BeginRead(k, t, name)
      PROVE  cpc[k] = "idle"
  BY <1>8 DEF BeginDispatch, BeginRead, Begin
<1>. QED
  BY <1>2, <1>3, <1>4, <1>5, <1>6, <1>7, <1>8, NextCases

\* What a dispatch has carried is widened by the owner, never narrowed.
LEMMA OwnerFrame ==
  ASSUME TypeInv, [Next]_vars, NEW d \in Dispatches
  PROVE  \/ OwnerCalls
         \/ /\ UNCHANGED <<rows, token, issued>>
            /\ \/ carried'[d] = carried[d]
               \/ \E t \in issued \cup {Nil}, name \in Names : BeginDispatch(d, t, name)
<1> DEFINE Same == UNCHANGED <<rows, token, issued>> /\ carried'[d] = carried[d]
<1>1. ASSUME NEW h \in Handlers, Verify(h) \/ Handle(h) \/ Duplicate(h) PROVE Same
  BY <1>1 DEF Verify, Handle, AssertNotReplayed, ListSecrets, ReadRequests,
     Authorize, Execute, Conclude, Duplicate, history, vault, SetRequest
<1>2. CASE Decisions \/ Crash
  BY <1>2 DEF Decisions, BeginApproval, Deny, Approve, ApprovalFails, Decided,
     Crash, history
<1>3. ASSUME NEW h \in Handlers,
             ReceiveList(h) \/ ReceiveAnswer(h) \/ ReceiveRefusal(h)
      PROVE  Same
  BY <1>3 DEF ReceiveList, ReceiveAnswer, ReceiveRefusal, Return, history, vault
<1>4. ASSUME NEW c, Break(c) PROVE Same
  BY <1>4 DEF Break, Return, history, vault
<1>5. ASSUME NEW e \in Dispatches, NEW t, NEW name, e # d, BeginDispatch(e, t, name)
      PROVE  Same
  BY <1>5 DEF BeginDispatch, Begin, vault, TypeInv, TypeOK
<1>6. ASSUME NEW e, NEW t, NEW name, BeginDispatch(e, t, name)
      PROVE  UNCHANGED <<rows, token, issued>>
  BY <1>6 DEF BeginDispatch, Begin, vault
<1>7. ASSUME NEW q, NEW t, NEW name, BeginRead(q, t, name) PROVE Same
  BY <1>7 DEF BeginRead, Begin, vault
<1>8. CASE UNCHANGED vars
  BY <1>8 DEF vars, vault, history
<1>. QED
  BY <1>1, <1>2, <1>3, <1>4, <1>5, <1>6, <1>7, <1>8, NextCases

\* What has been posted stays posted.
LEMMA StillPosted ==
  ASSUME TypeInv, [Next]_vars, NEW d \in Dispatches
  PROVE  Deliveries(d) \subseteq Deliveries(d)'
<1> SUFFICES ASSUME NEW h \in Deliveries(d) PROVE hpc'[h] # "unsent"
  BY DEF Deliveries
<1>1. h \in Handlers /\ hpc[h] # "unsent"
  BY DEF Deliveries
<1>2. CASE Verify(h) \/ Handle(h)
  <2>1. hpc = [g \in Handlers |-> hpc[g]]
    BY DEF TypeInv, TypeOK
  <2>2. CASE \E next \in HandlerPCs \ {"unsent"} : Goto(h, next)
    BY <1>1, <2>1, <2>2 DEF Goto
  <2>3. CASE \E pairs : Reply(h, pairs)
    BY <1>1, <2>1, <2>3 DEF Reply
  <2>4. {"guard", "serve", "refused", "over", "allow", "AWAITING_APPROVAL",
         "DENIED"} \cup Executed \subseteq HandlerPCs \ {"unsent"}
    BY DEF HandlerPCs, InVault, Terminal, Executed
  <2>5. \A next : next \in {"guard", "serve", "refused", "over", "allow",
          "AWAITING_APPROVAL", "DENIED"} \cup Executed /\ Goto(h, next)
            => hpc'[h] # "unsent"
    BY <2>2, <2>4
  <2>6. CASE Verify(h) \/ AssertNotReplayed(h)
    BY <2>5, <2>6 DEF Verify, AssertNotReplayed, Refuse
  <2>7. CASE ListSecrets(h) \/ ReadRequests(h) \/ Conclude(h)
    BY <2>3, <2>5, <2>7 DEF ListSecrets, ReadRequests, Conclude, Refuse
  <2>8. CASE Authorize(h) \/ Execute(h)
    BY <2>5, <2>8 DEF Authorize, Execute, Refuse
  <2>. QED  BY <1>2, <2>6, <2>7, <2>8 DEF Handle
<1>. QED  BY <1>1, <1>2, DeliveryFrame DEF Posted

-----------------------------------------------------------------------------
(* What was not posted has left no trace.                                  *)

LEMMA PostedStep ==
  ASSUME TypeInv, PostedOK, [Next]_vars
  PROVE  PostedOK'
<1> SUFFICES ASSUME NEW d \in Dispatches, Deliveries(d)' = {}
             PROVE  /\ accepted'[d] = 0 /\ requests'[d] = NoRecord
                    /\ deciding'[d] = Nil /\ used'[d] = {}
  BY DEF PostedOK, Unposted, NoRecord
<1>1. Deliveries(d) = {}
  BY StillPosted
<1>2. accepted[d] = 0 /\ requests[d] = NoRecord /\ deciding[d] = Nil /\ used[d] = {}
  BY <1>1 DEF PostedOK, Unposted
<1>3. ~(BeginApproval(d) \/ Deny(d) \/ Approve(d))
  <2>1. deciding[d] \notin Active
    BY <1>2, ChannelNil DEF Active
  <2>. QED  BY <1>2, <2>1 DEF BeginApproval, Deny, Approve, NoRecord
<1>. QED  BY <1>1, <1>2, <1>3, DispatchFrame

-----------------------------------------------------------------------------
(* The secrets a dispatch may end with.                                    *)

\* The stores of a dispatch hold secrets it carried.
LEMMA StoresCarried ==
  ASSUME TypeInv, [Next]_vars, NEW d \in Dispatches, NEW C,
         {resolved[d], requests[d].secret, deciding[d]} \subseteq C \cup {Nil},
         used[d] \subseteq C
  PROVE  /\ {requests'[d].secret, deciding'[d]} \subseteq C \cup {Nil}
         /\ used'[d] \subseteq C
<1>0. /\ Nil \notin Active /\ d \in DOMAIN requests /\ d \in DOMAIN used
      /\ d \in DOMAIN deciding
  BY ChannelNil DEF Active, TypeInv, TypeOK
<1>1. ASSUME NEW h \in Deliveries(d), Authorize(h)
      PROVE  requests'[d].secret \in {resolved[d], Nil}
  BY <1>0, <1>1 DEF Authorize, SetRequest, Deliveries
<1>2. ASSUME NEW h \in Deliveries(d),
             AssertNotReplayed(h) \/ Authorize(h) \/ Execute(h) \/ Conclude(h)
      PROVE  /\ UNCHANGED deciding
             /\ used'[d] \in {used[d], used[d] \cup ({resolved[d]} \cap Active)}
  BY <1>0, <1>2 DEF AssertNotReplayed, Authorize, Execute, Conclude, SetRequest,
     Deliveries, vault, history
<1>3. ASSUME NEW h \in Deliveries(d), AssertNotReplayed(h) \/ Execute(h)
      PROVE  UNCHANGED requests
  BY <1>3 DEF AssertNotReplayed, Execute, vault
<1>4. ASSUME NEW h \in Deliveries(d), Conclude(h)
      PROVE  requests'[d].secret = requests[d].secret
  <2>1. requests[d] \in [status: Statuses \cup {"NONE"}, secret: Names \cup {Nil}]
    BY DEF TypeInv, TypeOK
  <2>2. requests'[d] = [requests[d] EXCEPT !.status = hpc[h]]
    BY <1>0, <1>4 DEF Conclude, SetRequest, Deliveries
  <2>. QED  BY <2>1, <2>2
<1>5. ASSUME BeginApproval(d)
      PROVE  UNCHANGED <<requests, used>> /\ deciding'[d] = requests[d].secret
  BY <1>0, <1>5 DEF BeginApproval, history
<1>6. ASSUME Deny(d) \/ Approve(d)
      PROVE  /\ requests'[d].secret = deciding[d] /\ deciding'[d] = Nil
             /\ used'[d] \in {used[d], used[d] \cup ({deciding[d]} \cap Active)}
  BY <1>0, <1>6 DEF Deny, Approve, Decided
<1>. QED
  BY <1>0, <1>1, <1>2, <1>3, <1>4, <1>5, <1>6, DispatchFrame

\* A list names only secrets that carry the name while the call waits for it.
LEMMA ListedCarried ==
  ASSUME TypeInv, [Next]_vars, NEW h \in Handlers, h[2] = "list",
         h[1] \in Dispatches, NEW s \in Secrets, NEW name,
         <<name, s>> \in answer'[h]
  PROVE  \/ <<name, s>> \in answer[h]
         \/ cpc[h[1]] = "list" /\ s \in Carriers(rows, name)
<1>1. CASE Verify(h) \/ AssertNotReplayed(h)
  BY <1>1 DEF Verify, AssertNotReplayed, Goto, Refuse
<1>2. CASE ListSecrets(h)
  <2>1. CASE ~Waits(h)
    BY <1>2, <2>1 DEF ListSecrets, Reply, TypeInv, WireOK
  <2>2. CASE Waits(h)
    <3>1. <<name, s>> \in {<<rows[r].alias, r>> : r \in Active}
      BY <1>2, <2>2 DEF ListSecrets, Reply, TypeInv, WireOK
    <3>2. s \in Active /\ rows[s].alias = name
      BY <3>1
    <3>3. rows[s] \in [status: {"ACTIVE", "REMOVED"}, alias: Aliases]
          /\ rows[s].status = "ACTIVE"
      BY <3>2 DEF Active, TypeInv, TypeOK, Rows, NoRow
    <3>4. rows[s] = [status |-> "ACTIVE", alias |-> name]
      BY <3>2, <3>3
    <3>. QED  BY <2>2, <3>4 DEF Waits, Carriers
  <2>. QED  BY <2>1, <2>2
<1>3. ~ReadRequests(h) /\ ~Authorize(h)
  BY DEF ReadRequests, Authorize
<1>4. ~Execute(h) /\ ~Conclude(h)
  BY DEF Execute, Conclude, TypeInv, WireOK
<1>. QED  BY <1>1, <1>2, <1>3, <1>4, DeliveryFrame DEF Handle

\* Every step keeps to the secrets that carried the name.
LEMMA CarriedStep ==
  ASSUME TypeInv, PostedOK, CarriedOK, [Next]_vars
  PROVE  CarriedOK'
<1> SUFFICES ASSUME NEW d \in Dispatches
    PROVE  /\ cpc'[d] = "idle" => resolved'[d] = Nil
           /\ cpc'[d] = "list" => Carriers(rows', want'[d]) \subseteq carried'[d]
           /\ \A h \in Handlers : h[1] = d /\ h[2] = "list" =>
                \A s \in Secrets : <<want'[d], s>> \in answer'[h] => s \in carried'[d]
           /\ {resolved'[d], requests'[d].secret, deciding'[d]}
                \subseteq carried'[d] \cup {Nil}
           /\ used'[d] \subseteq carried'[d]
  BY DEF CarriedOK, Carriers
<1>0. d \in ClientCalls
  BY DEF ClientCalls
<1>1. /\ cpc[d] = "idle" => resolved[d] = Nil
      /\ cpc[d] = "list" => Carriers(rows, want[d]) \subseteq carried[d]
      /\ \A h \in Handlers : h[1] = d /\ h[2] = "list" =>
           \A s \in Secrets : <<want[d], s>> \in answer[h] => s \in carried[d]
      /\ {resolved[d], requests[d].secret, deciding[d]} \subseteq carried[d] \cup {Nil}
      /\ used[d] \subseteq carried[d]
  BY DEF CarriedOK
<1>2. ASSUME NEW t, NEW name \in Names, cpc[d] = "idle", BeginDispatch(d, t, name)
      PROVE  /\ cpc'[d] = "list" /\ want'[d] = name /\ rows' = rows
             /\ carried'[d] = Carriers(rows, name) /\ resolved'[d] = Nil
             /\ \A h \in Handlers : h[1] = d => answer'[h] = {}
             /\ requests'[d].secret = Nil /\ deciding'[d] = Nil /\ used'[d] = {}
  <2>1. Deliveries(d) = {}
    BY <1>0, <1>2 DEF Deliveries, TypeInv, WireOK
  <2>2. requests[d] = NoRecord /\ deciding[d] = Nil /\ used[d] = {}
    BY <2>1 DEF PostedOK, Unposted
  <2>. QED
    BY <1>0, <1>1, <1>2, <2>2 DEF BeginDispatch, Begin, vault, NoRecord, TypeInv,
       TypeOK, WireOK
<1>3. ASSUME ~(cpc[d] = "idle" /\ \E t \in issued \cup {Nil}, name \in Names :
                 BeginDispatch(d, t, name))
      PROVE  /\ carried[d] \subseteq carried'[d]
             /\ cpc'[d] = "list" => Carriers(rows', want'[d]) \subseteq carried'[d]
             /\ want'[d] = want[d]
             /\ cpc'[d] = "idle" => resolved'[d] = Nil
             /\ resolved'[d] \in carried[d] \cup {Nil}
  <2>1. CASE OwnerCalls
    <3>1. UNCHANGED client
      BY <2>1, OwnerCallEffect
    <3>. QED
      BY <1>1, <2>1, <3>1, OwnerCallEffect DEF client, TypeInv, TypeOK
  <2>2. CASE ~OwnerCalls
    <3>1. rows' = rows /\ carried'[d] = carried[d]
      <4>1. ASSUME NEW t, NEW name, BeginDispatch(d, t, name)
            PROVE  cpc[d] = "idle"
        BY <4>1 DEF BeginDispatch, Begin
      <4>. QED  BY <1>3, <2>2, <4>1, OwnerFrame
    <3>2. ASSUME NEW h \in Handlers, h[1] = d, ReceiveList(h)
          PROVE  /\ cpc'[d] = "dispatch" /\ want'[d] = want[d]
                 /\ resolved'[d] \in carried[d] \cup {Nil}
      <4>1. cpc[d] = "list" /\ h[2] = "list"
        BY <3>2 DEF ReceiveList, Waits
      <4>2. want[d] \in carried[d]
        BY <1>1, <4>1 DEF Carriers
      <4>3. {s \in Secrets : <<want[d], s>> \in answer[h]} \subseteq carried[d]
        BY <1>1, <3>2, <4>1
      <4>. QED
        BY <1>0, <3>2, <4>2, <4>3 DEF ReceiveList, TypeInv, TypeOK
    <3>3. ASSUME NEW k \in ClientCalls, NEW how, Return(k, how), k = d
          PROVE  cpc'[d] = "done" /\ want'[d] = want[d] /\ resolved'[d] = resolved[d]
      BY <1>0, <3>3 DEF Return, TypeInv, TypeOK
    <3>4. ASSUME NEW h \in Handlers, h[1] = d, ReceiveAnswer(h) \/ ReceiveRefusal(h)
          PROVE  cpc'[d] = "done" /\ want'[d] = want[d] /\ resolved'[d] = resolved[d]
      BY <1>0, <3>3, <3>4 DEF ReceiveAnswer, ReceiveRefusal
    <3>5. ASSUME Break(d)
          PROVE  cpc'[d] = "done" /\ want'[d] = want[d] /\ resolved'[d] = resolved[d]
      BY <1>0, <3>3, <3>5 DEF Break
    <3>. QED
      BY <1>0, <1>1, <1>3, <3>1, <3>2, <3>4, <3>5, CallFrame, ChannelCalls
  <2>. QED  BY <2>1, <2>2
<1>4. CASE cpc[d] = "idle" /\ \E t \in issued \cup {Nil}, name \in Names :
             BeginDispatch(d, t, name)
  BY <1>2, <1>4
<1>5. CASE ~(cpc[d] = "idle" /\ \E t \in issued \cup {Nil}, name \in Names :
               BeginDispatch(d, t, name))
  <2>1. ASSUME NEW h \in Handlers, h[1] = d, h[2] = "list", NEW s \in Secrets,
               <<want'[d], s>> \in answer'[h]
        PROVE  s \in carried'[d]
    BY <1>1, <1>3, <1>5, <2>1, ListedCarried
  <2>2. /\ {requests'[d].secret, deciding'[d]} \subseteq carried[d] \cup {Nil}
        /\ used'[d] \subseteq carried[d]
    BY <1>1, StoresCarried
  <2>. QED  BY <1>3, <1>5, <2>1, <2>2
<1>. QED  BY <1>4, <1>5

-----------------------------------------------------------------------------
(* A dead token.                                                           *)

\* A step of a delivery of the dispatch that its handler may take.
DeliverySteps(h) ==
  \/ Verify(h) \/ AssertNotReplayed(h) \/ Authorize(h) \/ Execute(h) \/ Conclude(h)

\* A delivery of a dispatch takes only the steps of one.
LEMMA DispatchSteps ==
  ASSUME TypeInv, NEW h \in Handlers, h[2] = "dispatch", Verify(h) \/ Handle(h)
  PROVE  DeliverySteps(h) /\ (~Verify(h) => hpc[h] \in InVault)
BY DEF Handle, DeliverySteps, ListSecrets, ReadRequests, AssertNotReplayed,
   Authorize, Execute, Conclude, InVault, Terminal

\* A token that is not the agent's never is again.
LEMMA StaysDead ==
  ASSUME TypeInv, [Next]_vars, NEW d \in Dispatches, cpc[d] # "idle", ~Live(d)
  PROVE  ~Live(d)'
<1>0. d \in ClientCalls /\ AgentOf[d] \in Agents
  BY ChannelCalls DEF ClientCalls
<1>1. held[d] \in issued \cup {Nil}
  BY <1>0 DEF TypeInv, WireOK
<1>2. held'[d] = held[d]
  <2>1. ASSUME NEW h \in Handlers,
               ReceiveList(h) \/ ReceiveAnswer(h) \/ ReceiveRefusal(h)
        PROVE  held' = held
    BY <2>1 DEF ReceiveList, ReceiveAnswer, ReceiveRefusal, Return
  <2>2. Break(d) => held' = held
    BY DEF Break, Return
  <2>. QED  BY <1>0, <2>1, <2>2, CallFrame
<1>3. token'[AgentOf[d]] = token[AgentOf[d]] \/ token'[AgentOf[d]] \notin issued
  <2>1. CASE UNCHANGED token
    BY <2>1
  <2>2. CASE OwnerCalls
    <3>1. Nil \notin issued
      BY ChannelNil DEF TypeInv, TypeOK
    <3>. QED  BY <1>0, <2>2, <3>1, OwnerCallEffect DEF TypeInv, TypeOK
  <2>. QED  BY <2>1, <2>2, OwnerFrame
<1>. QED  BY <1>1, <1>2, <1>3 DEF Live

\* A dispatch posted with a dead token stays outside.
LEMMA DeadStep ==
  ASSUME TypeInv, PostedOK, DeadOK, [Next]_vars
  PROVE  DeadOK'
<1> SUFFICES ASSUME NEW d \in sentDead'
    PROVE  /\ ~Live(d)' /\ cpc'[d] \in {"dispatch", "done"}
           /\ accepted'[d] = 0 /\ requests'[d] = NoRecord /\ deciding'[d] = Nil
           /\ \A h \in Deliveries(d)' : hpc'[h] \notin InVault
  BY DEF DeadOK, InVault, NoRecord, Terminal, Executed
<1>0. d \in Dispatches /\ d \in ClientCalls
  BY TypeStep DEF TypeInv, TypeOK, ClientCalls
<1>1. CASE d \in sentDead
  <2>1. /\ ~Live(d) /\ cpc[d] \in {"dispatch", "done"}
        /\ accepted[d] = 0 /\ requests[d] = NoRecord /\ deciding[d] = Nil
        /\ \A h \in Deliveries(d) : hpc[h] \notin InVault
    BY <1>1 DEF DeadOK
  <2>2. ~Live(d)'
    BY <1>0, <2>1, StaysDead
  <2>3. cpc'[d] \in {"dispatch", "done"}
    <3>1. ASSUME NEW h \in Handlers, h[1] = d, cpc[d] = h[2],
                 ReceiveList(h) \/ ReceiveAnswer(h) \/ ReceiveRefusal(h)
          PROVE  cpc'[d] = "done"
      BY <1>0, <2>1, <3>1
         DEF ReceiveList, ReceiveAnswer, ReceiveRefusal, Return, TypeInv, TypeOK
    <3>2. Break(d) => cpc'[d] = "done"
      BY <1>0 DEF Break, Return, TypeInv, TypeOK
    <3>. QED  BY <1>0, <2>1, <3>1, <3>2, CallFrame
  <2>4. accepted'[d] = 0 /\ requests'[d] = NoRecord /\ deciding'[d] = Nil
    <3>1. ~(BeginApproval(d) \/ Deny(d) \/ Approve(d))
      BY <2>1, ChannelNil
         DEF BeginApproval, Deny, Approve, NoRecord, Active
    <3>. QED  BY <1>0, <2>1, <3>1, DispatchFrame
  <2>5. ASSUME NEW h \in Deliveries(d)' PROVE hpc'[h] \notin InVault
    <3>1. h \in Handlers /\ h[1] = d /\ h[2] = "dispatch"
      BY <2>5 DEF Deliveries
    <3>2. hpc[h] # "unsent" => hpc[h] \notin InVault
      BY <2>1, <3>1 DEF Deliveries
    <3>3. {"unsent", "wire", "refused", "over", "dead"} \cap InVault = {}
      BY DEF InVault, Terminal, Executed
    <3>4. CASE Verify(h) \/ Handle(h)
      <4>1. Verify(h)
        BY <3>1, <3>2, <3>3, <3>4, DispatchSteps
      <4>. QED
        BY <2>1, <3>1, <3>3, <4>1 DEF Verify, Refuse, Goto, TypeInv, TypeOK
    <3>5. CASE ~(Verify(h) \/ Handle(h))
      BY <3>1, <3>2, <3>3, <3>5, DeliveryFrame DEF Posted
    <3>. QED  BY <3>4, <3>5
  <2>. QED  BY <2>2, <2>3, <2>4, <2>5
<1>2. CASE d \notin sentDead
  <2>1. PICK h \in Handlers : h[1] = d /\ ReceiveList(h)
    <3>1. ASSUME NEW t, NEW name, BeginDispatch(d, t, name) PROVE sentDead' = sentDead
      BY <3>1 DEF BeginDispatch, Begin
    <3>2. ASSUME NEW h \in Handlers, ReceiveAnswer(h) \/ ReceiveRefusal(h)
          PROVE  sentDead' = sentDead
      BY <3>2 DEF ReceiveAnswer, ReceiveRefusal, Return, history
    <3>3. Break(d) => sentDead' = sentDead
      BY DEF Break, Return, history
    <3>. QED  BY <1>0, <1>2, <3>1, <3>2, <3>3, CallFrame, ChannelCalls
  <2>2. cpc[d] = "list" /\ h[2] = "list" /\ ~Live(d) /\ cpc' = [cpc EXCEPT ![d] = "dispatch"]
        /\ UNCHANGED <<vault, held, accepted>>
        /\ hpc' = [Closed(d, "list") EXCEPT ![<<d, "dispatch", 1>>] = "wire"]
    BY <1>2, <2>1 DEF ReceiveList, Waits
  <2>3. Deliveries(d) = {}
    BY <1>0, <2>2 DEF Deliveries, TypeInv, WireOK
  <2>4. accepted[d] = 0 /\ requests[d] = NoRecord /\ deciding[d] = Nil
    BY <1>0, <2>3 DEF PostedOK, Unposted
  <2>5. ~Live(d)' /\ cpc'[d] = "dispatch"
    BY <1>0, <2>2 DEF Live, vault, TypeInv, TypeOK
  <2>6. ASSUME NEW g \in Deliveries(d)' PROVE hpc'[g] = "wire"
    <3>1. g \in Handlers /\ g[1] = d /\ g[2] = "dispatch" /\ hpc'[g] # "unsent"
      BY <2>6 DEF Deliveries
    <3>2. hpc[g] = "unsent"
      BY <2>3, <3>1 DEF Deliveries
    <3>3. ~(Verify(g) \/ Handle(g))
      BY <3>1, <3>2, DispatchSteps DEF Verify, InVault, Terminal, Executed
    <3>. QED  BY <3>1, <3>2, <3>3, DeliveryFrame DEF Posted, InVault, Terminal, Executed
  <2>7. "wire" \notin InVault
    BY DEF InVault, Terminal, Executed
  <2>. QED  BY <2>2, <2>4, <2>5, <2>6, <2>7 DEF vault
<1>. QED  BY <1>1, <1>2

-----------------------------------------------------------------------------
(* A dispatch whose call was refused.                                      *)

\* A post that is new is the first, or one of two.
LEMMA NewDelivery ==
  ASSUME TypeInv, PostedOK, [Next]_vars, NEW d \in Dispatches, DeliveredOnce(d)',
         NEW h \in Deliveries(d)', h \notin Deliveries(d)
  PROVE  cpc[d] = "list" /\ Deliveries(d) = {} /\ Untouched(d) /\ Untouched(d)'
<1>0. /\ h \in Handlers /\ h[1] = d /\ h[2] = "dispatch" /\ hpc[h] = "unsent"
      /\ hpc'[h] # "unsent" /\ d \in ClientCalls
  BY DEF Deliveries, ClientCalls
<1>1. ~(Verify(h) \/ Handle(h))
  BY <1>0, DispatchSteps DEF Verify, InVault, Terminal, Executed
<1>2. Posted(h)
  BY <1>0, <1>1, DeliveryFrame DEF InVault, Terminal, Executed
<1>3. ~Duplicate(h)
  <2> SUFFICES ASSUME Duplicate(h) PROVE FALSE
    OBVIOUS
  <2> DEFINE first == <<d, "dispatch", 1>>
  <2>1. first \in Handlers /\ first[1] = d /\ first[2] = "dispatch"
    BY FirstDeliveries
  <2>2. first \in Deliveries(d)
    BY <1>0, <2>1 DEF Duplicate, Deliveries
  <2>3. first \in Deliveries(d)'
    BY <2>2, StillPosted
  <2>4. first = h
    BY <2>3 DEF DeliveredOnce
  <2>. QED  BY <2>2, <2>4
<1>4. cpc[d] = "list"
  BY <1>0, <1>2, <1>3 DEF Posted
<1>5. Deliveries(d) = {}
  BY <1>0, <1>4 DEF Deliveries, TypeInv, WireOK
<1>6. requests[d] = NoRecord /\ deciding[d] = Nil /\ used[d] = {}
  BY <1>5 DEF PostedOK, Unposted
<1>7. ~(BeginApproval(d) \/ Deny(d) \/ Approve(d))
  BY <1>6, ChannelNil DEF BeginApproval, Deny, Approve, NoRecord, Active
<1>8. requests'[d] = NoRecord /\ deciding'[d] = Nil /\ used'[d] = {}
  BY <1>5, <1>6, <1>7, DispatchFrame
<1>. QED  BY <1>4, <1>5, <1>6, <1>8 DEF Untouched, NoRecord

\* Only a delivery that executes or concludes touches what was untouched.
LEMMA UntouchedStays ==
  ASSUME TypeInv, [Next]_vars, NEW d \in Dispatches, Untouched(d)
  PROVE  \/ Untouched(d)'
         \/ \E h \in Deliveries(d) : /\ hpc[h] \in InVault
                                     /\ hpc'[h] \in Executed \cup {"answered", "over"}
<1>0. /\ d \in DOMAIN requests /\ hpc = [h \in Handlers |-> hpc[h]]
      /\ Nil \notin Active
  BY ChannelNil DEF TypeInv, TypeOK, Active
<1>1. ~(BeginApproval(d) \/ Deny(d) \/ Approve(d))
  BY <1>0 DEF Untouched, BeginApproval, Deny, Approve
<1>2. ASSUME NEW h \in Deliveries(d), AssertNotReplayed(h) \/ Authorize(h)
      PROVE  Untouched(d)'
  BY <1>0, <1>2 DEF AssertNotReplayed, Authorize, SetRequest, Deliveries,
     Untouched, history
<1>3. ASSUME NEW h \in Deliveries(d), Execute(h)
      PROVE  Untouched(d)' \/ hpc'[h] \in Executed
  BY <1>0, <1>3 DEF Execute, Goto, Deliveries, Untouched, vault
<1>4. ASSUME NEW h \in Deliveries(d), Conclude(h)
      PROVE  hpc'[h] \in {"answered", "over"}
  BY <1>0, <1>4 DEF Conclude, Reply, Deliveries
<1>5. ASSUME /\ requests'[d] = requests[d] /\ used'[d] = used[d]
             /\ deciding'[d] \in {deciding[d], Nil}
      PROVE  Untouched(d)'
  BY <1>5 DEF Untouched
<1>. QED
  BY <1>1, <1>2, <1>3, <1>4, <1>5, DispatchFrame

\* Every step keeps a refused dispatch untouched.
LEMMA RefusedStep ==
  ASSUME TypeInv, PostedOK, RefusedOK, [Next]_vars
  PROVE  RefusedOK'
<1> SUFFICES ASSUME NEW d \in Dispatches, DeliveredOnce(d)'
    PROVE  /\ \A h \in Deliveries(d)' :
                hpc'[h] \in {"wire", "guard", "serve", "allow", "refused"}
                  => Untouched(d)'
           /\ result'[d] = "refused" =>
                /\ Untouched(d)'
                /\ \A h \in Deliveries(d)' : hpc'[h] \in {"over", "dead"}
  BY DEF RefusedOK
<1>0. d \in ClientCalls /\ hpc = [h \in Handlers |-> hpc[h]]
  BY DEF ClientCalls, TypeInv, TypeOK
<1>1. DeliveredOnce(d)
  BY StillPosted DEF DeliveredOnce
<1>2. /\ \A h \in Deliveries(d) :
           hpc[h] \in {"wire", "guard", "serve", "allow", "refused"} => Untouched(d)
      /\ result[d] = "refused" =>
           /\ Untouched(d)
           /\ \A h \in Deliveries(d) : hpc[h] \in {"over", "dead"}
  BY <1>1 DEF RefusedOK
<1>3. \A h \in Deliveries(d) : h \in Handlers /\ h[1] = d /\ h[2] = "dispatch"
                               /\ hpc[h] # "unsent"
  BY DEF Deliveries
<1>4. ASSUME NEW h \in Deliveries(d)',
             hpc'[h] \in {"wire", "guard", "serve", "allow", "refused"}
      PROVE  Untouched(d)'
  <2>1. CASE h \notin Deliveries(d)
    BY <2>1, NewDelivery
  <2>2. CASE h \in Deliveries(d)
    <3>1. hpc[h] \in {"wire", "guard", "serve", "allow", "refused"}
      <4>1. ~Conclude(h)
        BY <1>0, <1>3, <1>4, <2>2 DEF Conclude, Reply
      <4>2. CASE Verify(h) \/ Handle(h)
        BY <1>3, <2>2, <4>1, <4>2, DispatchSteps
           DEF DeliverySteps, Verify, AssertNotReplayed, Authorize, Execute
      <4>3. CASE ~(Verify(h) \/ Handle(h))
        BY <1>3, <1>4, <2>2, <4>3, DeliveryFrame DEF Posted
      <4>. QED  BY <4>2, <4>3
    <3>2. Untouched(d)
      BY <1>2, <2>2, <3>1
    <3>3. \A g \in Deliveries(d) : g = h
      BY <1>1, <2>2 DEF DeliveredOnce
    <3>. QED  BY <1>4, <3>2, <3>3, UntouchedStays DEF Executed
  <2>. QED  BY <2>1, <2>2
<1>5. CASE result[d] = "refused"
  <2>1. cpc[d] = "done"
    BY <1>0, <1>5 DEF TypeInv, WireOK
  <2>2. {"over", "dead"} \cap (InVault \cup {"unsent", "wire", "answered", "refused"}) = {}
    BY DEF InVault, Terminal, Executed
  <2>3. Untouched(d)'
    BY <1>2, <1>5, <2>2, UntouchedStays
  <2>4. ASSUME NEW h \in Deliveries(d)' PROVE hpc'[h] \in {"over", "dead"}
    <3>1. h \in Deliveries(d)
      BY <2>1, NewDelivery
    <3>2. hpc[h] \in {"over", "dead"}
      BY <1>2, <1>5, <3>1
    <3>3. ~(Verify(h) \/ Handle(h))
      BY <1>3, <2>2, <3>1, <3>2, DispatchSteps DEF Verify
    <3>. QED  BY <1>3, <2>2, <3>1, <3>2, <3>3, DeliveryFrame DEF Posted
  <2>. QED  BY <1>4, <2>3, <2>4
<1>6. CASE result[d] # "refused" /\ result'[d] = "refused"
  <2>1. PICK h \in Handlers : h[1] = d /\ ReceiveRefusal(h)
    <3>1. ASSUME NEW t, NEW name, BeginDispatch(d, t, name) PROVE result' = result
      BY <3>1 DEF BeginDispatch, Begin
    <3>2. ASSUME NEW h \in Handlers, ReceiveList(h) PROVE result' = result
      BY <3>2 DEF ReceiveList
    <3>3. ASSUME NEW h \in Handlers, h[1] = d, ReceiveAnswer(h)
          PROVE  result'[d] = "answered"
      BY <1>0, <3>3 DEF ReceiveAnswer, Return, TypeInv, TypeOK
    <3>4. Break(d) => result'[d] = "lost"
      BY <1>0 DEF Break, Return, TypeInv, TypeOK
    <3>. QED  BY <1>0, <1>6, <3>1, <3>2, <3>3, <3>4, CallFrame, ChannelCalls
  <2>2. /\ hpc[h] = "refused" /\ cpc[d] = h[2] /\ hpc' = Closed(d, h[2])
        /\ UNCHANGED <<requests, deciding, used>>
    BY <2>1 DEF ReceiveRefusal, Return, Waits, vault, history
  <2>3. Deliveries(d)' \subseteq Deliveries(d)
    BY <1>0, <2>2, Dropped DEF Deliveries
  <2>4. CASE h[2] = "list"
    <3>1. Deliveries(d) = {}
      BY <1>0, <2>2, <2>4 DEF Deliveries, TypeInv, WireOK
    <3>2. Untouched(d)
      BY <3>1 DEF PostedOK, Unposted, Untouched, NoRecord
    <3>. QED  BY <2>2, <2>3, <3>1, <3>2 DEF Untouched
  <2>5. CASE h[2] = "dispatch"
    <3>1. h \in Deliveries(d)
      BY <2>1, <2>2, <2>5 DEF Deliveries
    <3>2. Untouched(d)
      BY <1>2, <2>2, <3>1
    <3>3. \A g \in Deliveries(d) : g = h
      BY <1>1, <3>1 DEF DeliveredOnce
    <3>4. hpc'[h] = "over"
      BY <2>1, <2>2 DEF Closed
    <3>. QED  BY <2>2, <2>3, <3>2, <3>3, <3>4 DEF Untouched
  <2>. QED  BY <2>1, <2>4, <2>5, HandlerShape
<1>. QED  BY <1>4, <1>5, <1>6

-----------------------------------------------------------------------------
(* What a call was told.                                                   *)

\* A delivery is let inside by the replay guard only.
LEMMA InsideFrame ==
  ASSUME TypeInv, [Next]_vars, NEW d \in Dispatches, NEW h \in Inside(d)'
  PROVE  /\ h \in Handlers /\ h[1] = d /\ h[2] = "dispatch"
         /\ \/ h \in Inside(d)
            \/ AssertNotReplayed(h) /\ hpc'[h] = "serve" /\ accepted'[d] = accepted[d] + 1
<1>0. hpc = [g \in Handlers |-> hpc[g]] /\ accepted \in [Dispatches -> Nat]
  BY DEF TypeInv, TypeOK
<1>1. /\ h \in Handlers /\ h[1] = d /\ h[2] = "dispatch"
      /\ hpc'[h] \in Terminal \cup {"serve", "allow", "AWAITING_APPROVAL"}
  BY DEF Inside, Deliveries
<1>2. {"unsent", "wire", "guard", "answered", "refused", "over", "dead"}
        \cap (Terminal \cup {"serve", "allow", "AWAITING_APPROVAL"}) = {}
  BY DEF Terminal, Executed
<1>3. hpc[h] \in Terminal \cup {"serve", "allow", "AWAITING_APPROVAL"} => h \in Inside(d)
  BY <1>1, <1>2 DEF Inside, Deliveries
<1>4. ~Verify(h)
  BY <1>0, <1>1, <1>2 DEF Verify, Refuse, Goto
<1>5. ASSUME AssertNotReplayed(h)
      PROVE  hpc'[h] = "serve" /\ accepted'[d] = accepted[d] + 1
  BY <1>0, <1>1, <1>2, <1>5 DEF AssertNotReplayed, Refuse, Goto, Key
<1>6. ~Conclude(h)
  BY <1>0, <1>1, <1>2 DEF Conclude, Reply
<1>7. Authorize(h) \/ Execute(h) => h \in Inside(d)
  BY <1>3 DEF Authorize, Execute
<1>8. CASE Verify(h) \/ Handle(h)
  BY <1>1, <1>4, <1>5, <1>6, <1>7, <1>8, DispatchSteps DEF DeliverySteps
<1>9. CASE ~(Verify(h) \/ Handle(h))
  BY <1>1, <1>2, <1>3, <1>9, DeliveryFrame DEF Posted
<1>. QED  BY <1>1, <1>8, <1>9

\* What a step of a dispatch or its owner does to a dispatch accepted at most
\* once, and to what was said of it.
Follows(d) ==
  \A before \in Statuses :
    MayFollow(before, requests[d].status) => MayFollow(before, requests'[d].status)

\* A status may follow itself.
LEMMA FollowsItself ==
  /\ \A st \in Statuses : MayFollow(st, st)
  /\ \A before \in Statuses : ~MayFollow(before, "NONE")
  /\ \A before \in Statuses, after \in Statuses :
       MayFollow(before, "IN_PROGRESS") => MayFollow(before, after)
  /\ \A before \in Statuses, after \in Terminal :
       MayFollow(before, "AWAITING_APPROVAL") => MayFollow(before, after)
BY DEF MayFollow, Statuses, Terminal, Executed

\* The owner decides what no handler is at work on.
LEMMA DecisionAgrees ==
  ASSUME TypeInv, NEW d \in Dispatches, [Next]_vars, OneAtWork(d),
         BeginApproval(d) \/ Deny(d) \/ Approve(d)
  PROVE  requests[d].status = "AWAITING_APPROVAL" /\ OneAtWork(d)' /\ Follows(d)
<1>0. /\ deciding = [e \in Dispatches |-> deciding[e]]
      /\ requests = [e \in Dispatches |-> requests[e]] /\ Nil \notin Active
  BY ChannelNil DEF TypeInv, TypeOK, Active
<1>1. requests[d].status = "AWAITING_APPROVAL" /\ UNCHANGED <<hpc, accepted>>
  BY <1>0 DEF OneAtWork, BeginApproval, Deny, Approve, Decided, wire, history
<1>2. Inside(d) = {}
  BY <1>1 DEF OneAtWork
<1>3. Inside(d)' = {}
  BY <1>1, <1>2 DEF Inside, Deliveries
<1>4. CASE BeginApproval(d)
  BY <1>1, <1>3, <1>4 DEF BeginApproval, OneAtWork, Follows
<1>5. CASE Deny(d) \/ Approve(d)
  <2>1. deciding'[d] = Nil /\ requests'[d].status \in Terminal
    BY <1>0, <1>5 DEF Deny, Approve, Decided, Terminal
  <2>2. OneAtWork(d)'
    BY <1>3, <2>1 DEF OneAtWork
  <2>. QED  BY <1>1, <2>1, <2>2, FollowsItself DEF Follows
<1>. QED  BY <1>1, <1>4, <1>5

\* A handler that is inside is the only one and says so in the record.
LEMMA HandlerAgrees ==
  ASSUME TypeInv, NEW d \in Dispatches, [Next]_vars, accepted[d] <= 1,
         accepted[d] = 0 => Inside(d) = {} /\ requests[d] = NoRecord,
         OneAtWork(d), NEW h \in Deliveries(d),
         Authorize(h) \/ Execute(h) \/ Conclude(h)
  PROVE  /\ accepted[d] = 1 /\ accepted'[d] = 1
         /\ OneAtWork(d)' /\ Follows(d)
<1>0. /\ hpc = [g \in Handlers |-> hpc[g]] /\ accepted \in [Dispatches -> Nat]
      /\ requests \in [Dispatches -> [status: Statuses \cup {"NONE"},
                                      secret: Names \cup {Nil}]]
  BY DEF TypeInv, TypeOK
<1>1. h \in Handlers /\ h[1] = d /\ h[2] = "dispatch"
  BY DEF Deliveries
<1>2. h \in Inside(d)
  BY DEF Inside, Authorize, Execute, Conclude
<1>3. accepted[d] = 1 /\ accepted' = accepted /\ deciding[d] = Nil
      /\ deciding' = deciding /\ \A g \in Inside(d) : g = h
  <2>1. accepted' = accepted /\ deciding' = deciding
    BY DEF Authorize, Execute, Conclude, SetRequest, vault, history
  <2>2. accepted[d] = 1
    BY <1>0, <1>2
  <2>. QED  BY <1>2, <2>1, <2>2 DEF OneAtWork
<1>4. \A g \in Inside(d)' : g = h
  <2>1. \A g \in Inside(d)' : g \in Inside(d)
    BY <1>0, <1>3, InsideFrame
  <2>. QED  BY <1>3, <2>1
<1>5. CASE Authorize(h)
  <2>1. requests[d].status = "NONE" /\ requests'[d].status = "IN_PROGRESS"
    <3>1. requests[d].status = "NONE"
      BY <1>2, <1>5 DEF OneAtWork, Authorize
    <3>2. PICK secret : SetRequest(d, [status |-> "IN_PROGRESS", secret |-> secret])
      BY <1>1, <1>5 DEF Authorize
    <3>. QED  BY <1>0, <3>1, <3>2 DEF SetRequest
  <2>2. hpc'[h] # "serve"
    BY <1>0, <1>1, <1>5 DEF Authorize, Goto
  <2>3. OneAtWork(d)'
    BY <1>3, <1>4, <2>1, <2>2 DEF OneAtWork
  <2>. QED  BY <1>3, <2>1, <2>3, FollowsItself DEF Follows
<1>6. CASE Execute(h)
  <2>1. requests[d].status = "IN_PROGRESS" /\ requests' = requests
    BY <1>2, <1>6 DEF OneAtWork, Execute, vault
  <2>2. hpc'[h] # "serve"
    BY <1>0, <1>1, <1>6 DEF Execute, Goto, Refuse, Executed
  <2>3. OneAtWork(d)'
    BY <1>3, <1>4, <2>1, <2>2 DEF OneAtWork
  <2>. QED  BY <1>3, <2>1, <2>3 DEF Follows
<1>7. CASE Conclude(h)
  <2>1. /\ requests[d].status = "IN_PROGRESS"
        /\ requests'[d].status = hpc[h] /\ hpc[h] \in Statuses
    <3>1. hpc[h] # "serve" /\ hpc[h] \in Statuses
      BY <1>7 DEF Conclude, Statuses, Terminal, Executed
    <3>2. requests'[d] = [requests[d] EXCEPT !.status = hpc[h]]
      BY <1>0, <1>1, <1>7 DEF Conclude, SetRequest
    <3>. QED  BY <1>0, <1>2, <3>1, <3>2 DEF OneAtWork
  <2>2. hpc'[h] \in {"answered", "over"}
    BY <1>0, <1>1, <1>7 DEF Conclude, Reply
  <2>3. Inside(d)' = {}
    BY <1>4, <2>2 DEF Inside, Terminal, Executed
  <2>4. OneAtWork(d)'
    BY <1>3, <2>3 DEF OneAtWork
  <2>. QED  BY <1>3, <2>1, <2>4, FollowsItself DEF Follows
<1>. QED  BY <1>5, <1>6, <1>7

\* One handler or one decision is at work on a dispatch accepted once, and
\* what it makes of the record may follow what the record said.
DispatchAgrees(d) ==
  /\ accepted[d] = 0 => Inside(d) = {} /\ requests[d] = NoRecord
  /\ accepted[d] <= 1 => OneAtWork(d)

LEMMA DispatchAgreesStep ==
  ASSUME TypeInv, NEW d \in Dispatches, DispatchAgrees(d), [Next]_vars
  PROVE  /\ DispatchAgrees(d)'
         /\ accepted'[d] <= 1 => accepted[d] <= 1 /\ Follows(d)
<1>0. /\ hpc = [g \in Handlers |-> hpc[g]] /\ accepted \in [Dispatches -> Nat]
  BY DEF TypeInv, TypeOK
<1>1. ASSUME \A g \in Inside(d)' : g \in Inside(d) /\ hpc'[g] = hpc[g],
             requests'[d] = requests[d], accepted'[d] = accepted[d],
             deciding'[d] \in {deciding[d], Nil}
      PROVE  /\ DispatchAgrees(d)'
             /\ accepted'[d] <= 1 => accepted[d] <= 1 /\ Follows(d)
  <2>1. Follows(d)
    BY <1>1 DEF Follows
  <2>2. OneAtWork(d) => OneAtWork(d)'
    BY <1>1 DEF OneAtWork
  <2>3. Inside(d) = {} => Inside(d)' = {}
    BY <1>1
  <2>. QED  BY <1>1, <2>1, <2>2, <2>3 DEF DispatchAgrees, NoRecord
<1>2. ASSUME NEW h \in Deliveries(d), AssertNotReplayed(h)
      PROVE  /\ DispatchAgrees(d)'
             /\ accepted'[d] <= 1 => accepted[d] <= 1 /\ Follows(d)
  <2>1. h \in Handlers /\ Key(h) = <<d, "dispatch">> /\ hpc[h] = "guard"
        /\ requests' = requests /\ deciding' = deciding
    BY <1>2 DEF Deliveries, Key, AssertNotReplayed
  <2>2. \A g \in Handlers : g # h => hpc'[g] = hpc[g]
    BY <1>0, <1>2 DEF AssertNotReplayed, Goto, Refuse
  <2>3. h \notin Inside(d)
    BY <2>1 DEF Inside, Terminal, Executed
  <2>4. CASE accepted'[d] = accepted[d]
    <3>1. \A g \in Inside(d)' : g \in Inside(d) /\ hpc'[g] = hpc[g]
      <4>1. \A g \in Inside(d)' : g \in Inside(d) /\ g \in Handlers
        BY <1>0, <2>4, InsideFrame
      <4>. QED  BY <2>2, <2>3, <4>1
    <3>. QED  BY <1>1, <2>1, <2>4, <3>1
  <2>5. CASE accepted'[d] # accepted[d]
    <3>1. accepted'[d] = accepted[d] + 1 /\ hpc'[h] = "serve"
      BY <1>0, <1>2, <2>1, <2>5 DEF AssertNotReplayed, Goto
    <3>2. accepted'[d] # 0 /\ (accepted'[d] <= 1 => accepted[d] = 0)
      BY <1>0, <3>1
    <3>3. ASSUME accepted[d] = 0 PROVE OneAtWork(d)'
      <4>1. Inside(d) = {} /\ requests[d] = NoRecord /\ deciding[d] = Nil
        BY <3>3 DEF DispatchAgrees, OneAtWork, NoRecord
      <4>2. \A g \in Inside(d)' : g = h
        <5> SUFFICES ASSUME NEW g \in Inside(d)', g # h PROVE FALSE
          OBVIOUS
        <5>1. g \in Handlers /\ AssertNotReplayed(g) /\ hpc'[g] = "serve"
          BY <4>1, InsideFrame
        <5>. QED  BY <2>2, <5>1 DEF AssertNotReplayed
      <4>. QED  BY <2>1, <3>1, <4>1, <4>2 DEF OneAtWork, NoRecord
    <3>4. Follows(d)
      BY <2>1 DEF Follows
    <3>. QED  BY <1>0, <3>2, <3>3, <3>4 DEF DispatchAgrees
  <2>. QED  BY <2>4, <2>5
<1>3. ASSUME NEW h \in Deliveries(d), Authorize(h) \/ Execute(h) \/ Conclude(h)
      PROVE  /\ DispatchAgrees(d)'
             /\ accepted'[d] <= 1 => accepted[d] <= 1 /\ Follows(d)
  <2>1. h \in Inside(d)
    BY <1>3 DEF Inside, Authorize, Execute, Conclude
  <2>2. accepted' = accepted
    BY <1>3 DEF Authorize, Execute, Conclude, history
  <2>3. accepted[d] # 0
    BY <2>1 DEF DispatchAgrees
  <2>4. accepted[d] <= 1 => OneAtWork(d)' /\ Follows(d)
    BY <1>3, HandlerAgrees DEF DispatchAgrees
  <2>. QED  BY <2>2, <2>3, <2>4 DEF DispatchAgrees
<1>4. CASE ~\E h \in Deliveries(d) :
             AssertNotReplayed(h) \/ Authorize(h) \/ Execute(h) \/ Conclude(h)
  <2>1. ASSUME NEW g \in Inside(d)'
        PROVE  g \in Inside(d) /\ hpc'[g] = hpc[g]
    <3>1. g \in Handlers /\ g[1] = d /\ g[2] = "dispatch" /\ g \in Inside(d)
      BY <1>4, InsideFrame DEF AssertNotReplayed, Deliveries
    <3>2. g \in Deliveries(d) /\ hpc'[g] # "dead"
          /\ hpc[g] \notin {"unsent", "wire", "answered", "refused"}
      BY <2>1, <3>1 DEF Inside, Terminal, Executed
    <3>3. ~(Verify(g) \/ Handle(g))
      BY <1>4, <3>1, <3>2, DispatchSteps DEF DeliverySteps, Verify
    <3>. QED  BY <3>1, <3>2, <3>3, DeliveryFrame DEF Posted
  <2>2. CASE BeginApproval(d) \/ Deny(d) \/ Approve(d)
    <3>1. accepted' = accepted
      BY <2>2 DEF BeginApproval, Deny, Approve, Decided, history
    <3>2. accepted[d] <= 1 => /\ requests[d].status = "AWAITING_APPROVAL"
                              /\ OneAtWork(d)' /\ Follows(d)
      BY <2>2, DecisionAgrees DEF DispatchAgrees
    <3>3. accepted[d] # 0
      BY <3>2 DEF DispatchAgrees, NoRecord
    <3>. QED  BY <3>1, <3>2, <3>3 DEF DispatchAgrees
  <2>. QED  BY <1>1, <1>4, <2>1, <2>2, DispatchFrame
<1>. QED  BY <1>2, <1>3, <1>4

\* What was said stays true.
LEMMA SaidStays ==
  ASSUME TypeInv, \A d \in Dispatches : DispatchAgrees(d), [Next]_vars,
         NEW pairs \in SUBSET (Dispatches \X Statuses), Said(pairs),
         NEW pair \in pairs, accepted'[pair[1]] <= 1
  PROVE  MayFollow(pair[2], requests'[pair[1]].status)
<1>1. pair[1] \in Dispatches /\ pair[2] \in Statuses
  OBVIOUS
<1>2. accepted[pair[1]] <= 1 /\ Follows(pair[1])
  BY <1>1, DispatchAgreesStep
<1>. QED  BY <1>1, <1>2 DEF Said, Follows

\* An answer says what the record says.
LEMMA AnswerSaid ==
  ASSUME TypeInv, \A d \in Dispatches : DispatchAgrees(d), [Next]_vars,
         NEW h \in Handlers, h[2] # "list", Said(answer[h])
  PROVE  Said(answer[h])'
<1>0. /\ answer = [g \in Handlers |-> answer[g]]
      /\ answer[h] \in SUBSET (Dispatches \X Statuses)
      /\ requests \in [Dispatches -> [status: Statuses \cup {"NONE"},
                                      secret: Names \cup {Nil}]]
  BY DEF TypeInv, WireOK, TypeOK
<1>1. ASSUME answer'[h] \subseteq answer[h] PROVE Said(answer[h])'
  BY <1>0, <1>1, SaidStays DEF Said
<1>2. CASE Verify(h) \/ AssertNotReplayed(h) \/ Authorize(h) \/ Execute(h)
  <2>1. answer' = answer
    BY <1>2 DEF Verify, AssertNotReplayed, Authorize, Execute, Goto, Refuse
  <2>. QED  BY <1>1, <2>1
<1>3. CASE ReadRequests(h)
  <2>1. CASE answer'[h] \subseteq {<<d, requests[d].status>> : d \in Asked(h[1])}
    <3>1. UNCHANGED requests
      BY <1>3 DEF ReadRequests, vault
    <3>2. ASSUME NEW d \in Asked(h[1]) PROVE MayFollow(requests[d].status, requests[d].status)
      <4>1. d \in Dispatches /\ requests[d] # NoRecord
        BY DEF Asked
      <4>2. requests[d].status \in Statuses
        BY <1>0, <4>1 DEF TypeInv, WireOK
      <4>. QED  BY <4>2, FollowsItself
    <3>3. ASSUME NEW pair \in answer'[h]
          PROVE  MayFollow(pair[2], requests'[pair[1]].status)
      <4>1. PICK d \in Asked(h[1]) : pair = <<d, requests[d].status>>
        BY <2>1
      <4>. QED  BY <3>1, <3>2, <4>1
    <3>. QED  BY <3>3 DEF Said
  <2>2. CASE Refuse(h)
    BY <1>1, <2>2 DEF Refuse, Goto
  <2>3. CASE Reply(h, {<<d, requests[d].status>> : d \in Asked(h[1])})
    BY <1>0, <2>1, <2>3 DEF Reply
  <2>. QED  BY <1>3, <2>2, <2>3 DEF ReadRequests
<1>4. CASE Conclude(h)
  <2>1. h[1] \in Dispatches
    BY <1>4, HandlerShape DEF Conclude, TypeInv, WireOK
  <2>2. requests'[h[1]].status = hpc[h] /\ hpc[h] \in Statuses
    <3>1. requests'[h[1]] = [requests[h[1]] EXCEPT !.status = hpc[h]]
      BY <1>0, <1>4, <2>1 DEF Conclude, SetRequest
    <3>2. hpc[h] \in Statuses
      BY <1>4 DEF Conclude, Statuses
    <3>. QED  BY <1>0, <2>1, <3>1, <3>2
  <2>3. answer'[h] \subseteq {<<h[1], hpc[h]>>}
    BY <1>0, <1>4 DEF Conclude, Reply
  <2>. QED  BY <2>2, <2>3, FollowsItself DEF Said
<1>5. ~ListSecrets(h)
  BY DEF ListSecrets
<1>. QED  BY <1>1, <1>2, <1>3, <1>4, <1>5, DeliveryFrame DEF Handle

\* Every step keeps what calls were told true.
LEMMA AgreeStep ==
  ASSUME TypeInv, AgreeOK, [Next]_vars
  PROVE  AgreeOK'
<1>0. \A d \in Dispatches : DispatchAgrees(d)
  BY DEF AgreeOK, DispatchAgrees
<1>1. \A d \in Dispatches : DispatchAgrees(d)'
  BY <1>0, DispatchAgreesStep
<1>2. \A h \in Handlers : h[2] # "list" => Said(answer[h])'
  BY <1>0, AnswerSaid DEF AgreeOK
<1>3. ASSUME NEW k \in ClientCalls PROVE Said(told[k])'
  <2>0. told \in [ClientCalls -> SUBSET (Dispatches \X Statuses)]
    BY DEF TypeInv, TypeOK
  <2>1. ASSUME told'[k] = told[k] PROVE Said(told[k])'
    BY <1>0, <2>0, <2>1, SaidStays DEF AgreeOK, AnswersAgree, Said
  <2>2. ASSUME NEW h \in Handlers, h[1] = k, ReceiveAnswer(h) PROVE Said(told[k])'
    <3>1. told'[k] = answer[h] /\ h[2] # "list"
      BY <2>0, <2>2 DEF ReceiveAnswer
    <3>2. Said(answer[h]) /\ answer[h] \in SUBSET (Dispatches \X Statuses)
      BY <3>1 DEF AgreeOK, TypeInv, WireOK
    <3>. QED  BY <1>0, <3>1, <3>2, SaidStays DEF Said
  <2>3. ASSUME NEW h \in Handlers, ReceiveList(h) \/ ReceiveRefusal(h)
        PROVE  told' = told
    BY <2>3 DEF ReceiveList, ReceiveRefusal
  <2>4. Break(k) => told' = told
    BY DEF Break
  <2>5. ASSUME NEW t, NEW name, BeginDispatch(k, t, name) \/ BeginRead(k, t, name)
        PROVE  told' = told
    BY <2>5 DEF BeginDispatch, BeginRead, Begin
  <2>. QED  BY <2>1, <2>2, <2>3, <2>4, <2>5, CallFrame
<1>. QED
  BY <1>1, <1>2, <1>3 DEF AgreeOK, DispatchAgrees, AnswersAgree

-----------------------------------------------------------------------------
(* The invariants.                                                         *)

\* The initial states satisfy them: nothing was posted.
LEMMA InitInv == Init => ChannelInv
<1> SUFFICES ASSUME Init PROVE ChannelInv
  OBVIOUS
<1>1. TypeInv
  BY InitTypes
<1>2. \A d \in Dispatches : Deliveries(d) = {}
  BY DEF Init, Deliveries
<1>3. /\ \A d \in Dispatches :
           /\ accepted[d] = 0 /\ requests[d] = NoRecord /\ deciding[d] = Nil
           /\ used[d] = {} /\ resolved[d] = Nil
      /\ \A k \in ClientCalls : told[k] = {} /\ result[k] = "none"
                                /\ cpc[k] \in {"idle", "done"}
      /\ \A h \in Handlers : answer[h] = {}
      /\ sentDead = {}
  BY DEF Init
<1>4. PostedOK /\ DeadOK
  BY <1>3 DEF PostedOK, DeadOK
<1>5. CarriedOK
  <2> SUFFICES ASSUME NEW d \in Dispatches
      PROVE  /\ resolved[d] = Nil /\ cpc[d] # "list" /\ requests[d].secret = Nil
             /\ deciding[d] = Nil /\ used[d] = {}
             /\ \A h \in Handlers : answer[h] = {}
    BY DEF CarriedOK
  <2>. QED  BY <1>3 DEF NoRecord, ClientCalls
<1>6. RefusedOK
  BY <1>2, <1>3 DEF RefusedOK, ClientCalls
<1>7. AgreeOK
  BY <1>2, <1>3 DEF AgreeOK, Inside, OneAtWork, AnswersAgree, Said
<1>. QED  BY <1>1, <1>4, <1>5, <1>6, <1>7 DEF TypeInv, ChannelInv

\* Every step keeps them.
LEMMA InvStep == ChannelInv /\ [Next]_vars => ChannelInv'
BY TypeStep, PostedStep, CarriedStep, DeadStep, RefusedStep, AgreeStep
   DEF ChannelInv, TypeInv

(***************************************************************************)
(* The inductive invariant holds throughout.                               *)
(***************************************************************************)
THEOREM ChannelHolds == Spec => []ChannelInv
BY InitInv, InvStep, PTL DEF Spec

(***************************************************************************)
(* However secrets are renamed, removed and created meanwhile, a dispatch  *)
(* is executed only with a secret that carried the name it was given       *)
(* between the call and the answer to its list.                            *)
(***************************************************************************)
THEOREM DispatchIsNotRedirected == Spec => []NoRedirect
<1>1. ChannelInv => NoRedirect
  BY DEF ChannelInv, CarriedOK, NoRedirect
<1>. QED  BY <1>1, ChannelHolds, PTL

(***************************************************************************)
(* A dispatch posted with a token that was revoked or replaced is never    *)
(* accepted and leaves no record, however often and late it is delivered.  *)
(***************************************************************************)
THEOREM DeadTokensStayOut == Spec => []DeadTokenDoesNothing
<1>1. ChannelInv => DeadTokenDoesNothing
  BY DEF ChannelInv, DeadOK, DeadTokenDoesNothing
<1>. QED  BY <1>1, ChannelHolds, PTL

(***************************************************************************)
(* A dispatch whose call was refused and whose post was delivered once is  *)
(* not executed, then or later, by its handler or by an approval.          *)
(***************************************************************************)
THEOREM RefusalIsFinal == Spec => []RefusedIsNotExecuted
<1>1. ChannelInv => RefusedIsNotExecuted
  BY DEF ChannelInv, RefusedOK, Untouched, RefusedIsNotExecuted
<1>. QED  BY <1>1, ChannelHolds, PTL

(***************************************************************************)
(* What a call was told of a dispatch the vault accepted once stays true   *)
(* of its record, in whatever order answers arrive and decisions are made. *)
(***************************************************************************)
THEOREM AnswersStayTrue == Spec => []AnswersAgree
<1>1. ChannelInv => AnswersAgree
  BY DEF ChannelInv, AgreeOK
<1>. QED  BY <1>1, ChannelHolds, PTL
=============================================================================
