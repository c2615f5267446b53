----------------------------- MODULE AgentChannel -----------------------------
(***************************************************************************)
(* An agent's calls from the client's promise to the record in the vault:  *)
(* DefaultAgentClient turns a call into one request or two (a dispatch     *)
(* first lists the secrets and resolves the name it was given to a secret  *)
(* id), AgentDispatchHttpTransport posts each of them, the ingress hands a *)
(* delivery to a handler of the core and its answer goes back.             *)
(*                                                                         *)
(*   idle -> list -> dispatch -> done        a dispatch                    *)
(*   idle -> read -> done                    list_requests, read_request   *)
(*                                                                         *)
(* HTTP may deliver a post more than once (a proxy or a client below fetch *)
(* repeats it) and late, after the fetch that made it has rejected; an     *)
(* answer may be lost.  LocalVaultTransport has the behaviours without     *)
(* Duplicate and Break.                                                    *)
(*                                                                         *)
(* AgentDispatch and OwnerApproval have the handlers await by await.  Here *)
(* a handler has a step for every state a client or another handler may    *)
(* find it in: refused, checked, recorded, decided, executed, answered.    *)
(* Both grants of a secret are one, so the site plays no part, and the     *)
(* manifest and the audit ping, which read or write no request, are left   *)
(* out.  So are subscribers of the audit log that throw: they make a       *)
(* handler refuse what it has executed (CutShort of AgentDispatch).        *)
(***************************************************************************)
EXTENDS Naturals

CONSTANTS
  Dispatches,     \* agentDispatch calls, and the request each makes
  Reads,          \* calls that read requests
  Agents,
  AgentOf,        \* the agent whose client makes each call
  Secrets,        \* ids newSecretId hands out, each once
  Aliases,        \* names of secrets
  Tokens,         \* session tokens the vault issues, each once
  Starts,         \* states the vault may be in, and what is still to come:
                  \* the calls of agents, and the bounds that are used up
  Given,          \* bound: the names and targets the agents' calls give
  MaxCopies,      \* bound: how often a post of each leg is delivered
  MaxOwnerCalls,  \* bound: calls of the owner that change what is stored
  MaxCrashes,     \* bound: how often the vault process dies
  Nil

ClientCalls == Dispatches \cup Reads

\* What a read asks for: one request or all the agent's.
Targets == Dispatches \cup {"all"}
Names == Aliases \cup Secrets
Wants == Names \cup Targets

ASSUME ChannelCalls ==
  /\ Dispatches \cap Reads = {}
  /\ AgentOf \in [ClientCalls -> Agents]
ASSUME ChannelNames == Secrets \cap Aliases = {} /\ Names \cap Targets = {}
ASSUME ChannelNil == Nil \notin Secrets \cup Aliases \cup Tokens \cup Wants
ASSUME ChannelBounds ==
  /\ MaxCopies \in [{"list", "dispatch", "read"} -> Nat \ {0}]
  /\ MaxOwnerCalls \in Nat /\ MaxCrashes \in Nat

\* A post of each kind a call makes, and its deliveries: <<call, leg, n>>.
Posts == (Dispatches \X {"list", "dispatch"}) \cup (Reads \X {"read"})
Handlers == UNION {{<<p[1], p[2], n>> : n \in 1..MaxCopies[p[2]]} : p \in Posts}

Executed == {"SUCCEEDED", "FAILED"}
Terminal == Executed \cup {"DENIED"}
Statuses == Terminal \cup {"IN_PROGRESS", "AWAITING_APPROVAL"}
NoRecord == [status |-> "NONE", secret |-> Nil]

VARIABLES
  \* the vault
  rows,      \* the secrets table: status and alias of each id
  grants,    \* <<agent, secret>>: the agent may use it where it wants to
  token,     \* the session token of each agent
  issued,    \* history: the tokens that were ever issued
  requests,  \* the request records
  seen,      \* the posts the replay guard remembers
  deciding,  \* the secret of each request an owner call decides
  \* the clients' calls
  cpc,       \* the answer each call waits for
  held,      \* the token its client was made with
  want,      \* the name of a secret, or what is read
  resolved,  \* the secret id it dispatches with
  result,    \* how it ended
  told,      \* what it was told: <<request, status>>
  \* the deliveries
  hpc,       \* where each is
  answer,    \* what it answers: <<alias, secret>>, <<request, status>>
  \* history, read by no handler: the secrets that carried the name a
  \* dispatch was given while it listed, the secrets it was executed with,
  \* how often the guard accepted it, dispatches posted with a dead token
  carried, used, accepted, sentDead,
  ownerCalls, crashes

vault     == <<rows, grants, token, issued, requests, seen, deciding>>
client    == <<cpc, held, want, resolved, result, told>>
wire      == <<hpc, answer>>
history   == <<carried, used, accepted, sentDead>>
counters  == <<ownerCalls, crashes>>
vars      == <<vault, client, wire, history, counters>>

Active == {s \in Secrets : rows[s].status = "ACTIVE"}
NoRow == [status |-> "none", alias |-> Nil]
Rows == {NoRow} \cup [status: {"ACTIVE", "REMOVED"}, alias: Aliases]

\* UNIQUE(alias): the row of a removed secret keeps its name.
Distinct(table) ==
  \A s, t \in Secrets :
    table[s] # NoRow /\ table[s].alias = table[t].alias => s = t

ASSUME ChannelStarts ==
  /\ \A start \in Starts :
       /\ start.rows \in [Secrets -> Rows] /\ Distinct(start.rows)
       /\ start.grants \subseteq Agents \X Secrets
       /\ start.token \in [Agents -> Tokens \cup {Nil}]
       /\ start.calls \subseteq ClientCalls
       /\ start.ownerCalls \in Nat /\ start.crashes \in Nat

\* The secrets a client that resolves this name may end with: the name
\* itself, and the active secret that carries it.
Carriers(table, name) ==
  {name} \cup {s \in Secrets : table[s] = [status |-> "ACTIVE", alias |-> name]}

Init ==
  /\ \E start \in Starts :
       /\ rows = start.rows
       /\ grants = start.grants
       /\ token = start.token
       /\ cpc = [k \in ClientCalls |->
                   IF k \in start.calls THEN "idle" ELSE "done"]
       /\ ownerCalls = start.ownerCalls
       /\ crashes = start.crashes
  /\ issued = {token[a] : a \in Agents} \ {Nil}
  /\ requests = [d \in Dispatches |-> NoRecord]
  /\ seen = {}
  /\ deciding = [d \in Dispatches |-> Nil]
  /\ held = [k \in ClientCalls |-> Nil]
  /\ want = [k \in ClientCalls |-> Nil]
  /\ resolved = [d \in Dispatches |-> Nil]
  /\ result = [k \in ClientCalls |-> "none"]
  /\ told = [k \in ClientCalls |-> {}]
  /\ hpc = [h \in Handlers |-> "unsent"]
  /\ answer = [h \in Handlers |-> {}]
  /\ carried = [d \in Dispatches |-> {}]
  /\ used = [d \in Dispatches |-> {}]
  /\ accepted = [d \in Dispatches |-> 0]
  /\ sentDead = {}

-----------------------------------------------------------------------------
(* The clients.                                                            *)

\* SqliteSessionTokenRegistry.inspect: the agent has this token now.
Live(k) == held[k] # Nil /\ token[AgentOf[k]] = held[k]

Waits(h) == cpc[h[1]] = h[2]

\* An answer to a post that its call no longer waits for is dropped.
Closed(k, leg) ==
  [h \in Handlers |->
     IF h[1] = k /\ h[2] = leg /\ hpc[h] \in {"answered", "refused"}
       THEN "over" ELSE hpc[h]]
Kept(k, leg) ==
  [h \in Handlers |-> IF h[1] = k /\ h[2] = leg THEN {} ELSE answer[h]]

Begin(k, leg, t, name) ==
  /\ cpc[k] = "idle"
  /\ cpc' = [cpc EXCEPT ![k] = leg]
  /\ held' = [held EXCEPT ![k] = t]
  /\ want' = [want EXCEPT ![k] = name]
  /\ hpc' = [hpc EXCEPT ![<<k, leg, 1>>] = "wire"]
  /\ UNCHANGED <<vault, resolved, result, told, answer, used, accepted,
                 sentDead, counters>>

\* agentDispatch names a secret by its alias; a caller that knows the id may
\* give the id.  The client was made with some token of its agent, which may
\* be dead by now, or with none.
BeginDispatch(d, t, name) ==
  /\ Begin(d, "list", t, name)
  /\ carried' = [carried EXCEPT ![d] = Carriers(rows, name)]

BeginRead(q, t, target) ==
  /\ Begin(q, "read", t, target)
  /\ UNCHANGED carried

\* Mutant of ReceiveList: the dispatch itself is not posted.
ReceiveListOnly(h) ==
  LET d == h[1]
      found == {s \in Secrets : <<want[d], s>> \in answer[h]}
  IN  /\ h[2] = "list" /\ Waits(h) /\ hpc[h] = "answered"
      /\ \E s \in IF found = {} THEN {want[d]} ELSE found :
           resolved' = [resolved EXCEPT ![d] = s]
      /\ cpc' = [cpc EXCEPT ![d] = "dispatch"]
      /\ hpc' = Closed(d, "list")
      /\ answer' = Kept(d, "list")
      /\ UNCHANGED <<vault, held, want, result, told, history, counters>>

\* The list resolves the name; one that is not listed is taken for an id.
ReceiveList(h) ==
  LET d == h[1]
      found == {s \in Secrets : <<want[d], s>> \in answer[h]}
  IN  /\ h[2] = "list" /\ Waits(h) /\ hpc[h] = "answered"
      /\ \E s \in IF found = {} THEN {want[d]} ELSE found :
           resolved' = [resolved EXCEPT ![d] = s]
      /\ cpc' = [cpc EXCEPT ![d] = "dispatch"]
      /\ hpc' = [Closed(d, "list") EXCEPT ![<<d, "dispatch", 1>>] = "wire"]
      /\ answer' = Kept(d, "list")
      /\ sentDead' = IF Live(d) THEN sentDead ELSE sentDead \cup {d}
      /\ UNCHANGED <<vault, held, want, result, told, carried, used, accepted,
                     counters>>

Return(k, how) ==
  /\ cpc' = [cpc EXCEPT ![k] = "done"]
  /\ result' = [result EXCEPT ![k] = how]
  /\ hpc' = Closed(k, cpc[k])
  /\ answer' = Kept(k, cpc[k])
  /\ UNCHANGED <<vault, held, want, resolved, history, counters>>

ReceiveAnswer(h) ==
  /\ h[2] # "list" /\ Waits(h) /\ hpc[h] = "answered"
  /\ Return(h[1], "answered")
  /\ told' = [told EXCEPT ![h[1]] = answer[h]]

\* ok: false, which the transport throws.
ReceiveRefusal(h) ==
  /\ Waits(h) /\ hpc[h] = "refused"
  /\ Return(h[1], "refused")
  /\ UNCHANGED told

\* fetch rejects, or answers with an HTTP error: the client knows nothing of
\* its request, which may still arrive or be at work.
Break(k) ==
  /\ cpc[k] \in {"list", "dispatch", "read"}
  /\ Return(k, "lost")
  /\ UNCHANGED told

Duplicate(h) ==
  /\ hpc[h] = "unsent" /\ hpc[<<h[1], h[2], 1>>] # "unsent"
  /\ hpc' = [hpc EXCEPT ![h] = "wire"]
  /\ UNCHANGED <<vault, client, answer, history, counters>>

-----------------------------------------------------------------------------
(* A delivery in the vault.                                                *)

Goto(h, next) ==
  /\ hpc' = [hpc EXCEPT ![h] = next]
  /\ UNCHANGED answer

\* The handler is done; its answer counts while the call waits for it.
Reply(h, pairs) ==
  /\ hpc' = [hpc EXCEPT ![h] = IF Waits(h) THEN "answered" ELSE "over"]
  /\ answer' = [answer EXCEPT ![h] = IF Waits(h) THEN pairs ELSE {}]

Refuse(h) == Goto(h, IF Waits(h) THEN "refused" ELSE "over")

\* Mutant of Verify: the token of a dispatch has been seen with its list.
VerifyControl(h) ==
  /\ hpc[h] = "wire"
  /\ IF Live(h[1]) \/ h[2] = "dispatch" THEN Goto(h, "guard") ELSE Refuse(h)
  /\ UNCHANGED <<vault, client, history, counters>>

\* It arrives: the ingress asks for a token, the core for the agent's own.
Verify(h) ==
  /\ hpc[h] = "wire"
  /\ IF Live(h[1]) THEN Goto(h, "guard") ELSE Refuse(h)
  /\ UNCHANGED <<vault, client, history, counters>>

Key(h) == <<h[1], h[2]>>

\* replayGuard.assertNotReplayed: the deliveries of a post have one key.  It
\* is refused, or it was seen longer ago than the guard remembers.
AssertNotReplayed(h) ==
  /\ hpc[h] = "guard"
  /\ \/ /\ Key(h) \in seen
        /\ Refuse(h)
        /\ UNCHANGED <<seen, accepted>>
     \/ /\ Goto(h, "serve")
        /\ seen' = seen \cup {Key(h)}
        /\ accepted' = [d \in Dispatches |->
             accepted[d] + IF Key(h) = <<d, "dispatch">> THEN 1 ELSE 0]
  /\ UNCHANGED <<rows, grants, token, issued, requests, deciding, client,
                 carried, used, sentDead, counters>>

\* agentListSecrets: every active secret, granted or not.
ListSecrets(h) ==
  /\ h[2] = "list" /\ hpc[h] = "serve"
  /\ Reply(h, {<<rows[s].alias, s>> : s \in Active})
  /\ UNCHANGED <<vault, client, history, counters>>

\* The requests of its own agent a read asks for.
Asked(q) ==
  {d \in Dispatches : /\ AgentOf[d] = AgentOf[q] /\ requests[d] # NoRecord
                      /\ want[q] \in {d, "all"}}

\* agentListRequests, and agentGetRequest, which throws if there is no such
\* request of this agent.
ReadRequests(h) ==
  LET q == h[1]
  IN  /\ h[2] = "read" /\ hpc[h] = "serve"
      /\ IF want[q] \in Dispatches /\ Asked(q) = {}
           THEN Refuse(h)
           ELSE Reply(h, {<<d, requests[d].status>> : d \in Asked(q)})
      /\ UNCHANGED <<vault, client, history, counters>>

-----------------------------------------------------------------------------
(* agentDispatchSecret.                                                    *)

SetRequest(d, rec) ==
  /\ requests' = [requests EXCEPT ![d] = rec]
  /\ UNCHANGED <<rows, grants, token, issued, seen, deciding>>

\* agentAuthorizeDispatch, then the record is saved as IN_PROGRESS.  A denial
\* names no secret.
Authorize(h) ==
  LET d == h[1]
      s == resolved[d]
      Record(secret) ==
        SetRequest(d, [status |-> "IN_PROGRESS", secret |-> secret])
  IN  /\ h[2] = "dispatch" /\ hpc[h] = "serve"
      /\ \/ s \notin Active /\ Goto(h, "DENIED") /\ Record(Nil)
         \/ /\ s \in Active /\ Record(s)
            /\ Goto(h, IF <<AgentOf[d], s>> \in grants
                         THEN "allow" ELSE "AWAITING_APPROVAL")
      /\ UNCHANGED <<client, history, counters>>

\* Mutant of Execute: a secret that is gone is not an error.
ExecuteActive(h) ==
  LET d == h[1]
  IN  /\ hpc[h] = "allow" /\ resolved[d] \in Active
      /\ \E st \in Executed : Goto(h, st)
      /\ used' = [used EXCEPT ![d] = @ \cup {resolved[d]}]
      /\ UNCHANGED <<vault, client, carried, accepted, sentDead, counters>>

\* The secret is read again; if it is gone the handler throws and the record
\* stays as it is.
Execute(h) ==
  LET d == h[1]
  IN  /\ hpc[h] = "allow"
      /\ \/ /\ resolved[d] \in Active
            /\ \E st \in Executed : Goto(h, st)
            /\ used' = [used EXCEPT ![d] = @ \cup {resolved[d]}]
         \/ /\ resolved[d] \notin Active
            /\ Refuse(h)
            /\ UNCHANGED used
      /\ UNCHANGED <<vault, client, carried, accepted, sentDead, counters>>

\* Mutant of Conclude: what awaits approval is answered with an error.
ConcludeOrRefuse(h) ==
  LET d == h[1]
      st == hpc[h]
  IN  /\ st \in Terminal \cup {"AWAITING_APPROVAL"}
      /\ SetRequest(d, [requests[d] EXCEPT !.status = st])
      /\ IF st \in Terminal THEN Reply(h, {<<d, st>>}) ELSE Refuse(h)
      /\ UNCHANGED <<client, history, counters>>

\* _updateRequestRecordInternal writes the status into the record as it is,
\* and the handler returns it.
Conclude(h) ==
  LET d == h[1]
      st == hpc[h]
  IN  /\ st \in Terminal \cup {"AWAITING_APPROVAL"}
      /\ SetRequest(d, [requests[d] EXCEPT !.status = st])
      /\ Reply(h, {<<d, st>>})
      /\ UNCHANGED <<client, history, counters>>

\* What a handler does once it has the delivery.
Handle(h) ==
  \/ AssertNotReplayed(h) \/ ListSecrets(h) \/ ReadRequests(h)
  \/ Authorize(h)         \/ Execute(h)     \/ Conclude(h)

-----------------------------------------------------------------------------
(* The owner, one call at a time but for the decision of a request.        *)

CallOwner ==
  /\ ownerCalls < MaxOwnerCalls
  /\ ownerCalls' = ownerCalls + 1
  /\ UNCHANGED <<requests, seen, deciding, client, wire, used, accepted,
                 sentDead, crashes>>

\* History: a dispatch that lists meanwhile may come to carry another secret.
SetRow(s, row) ==
  /\ rows' = [rows EXCEPT ![s] = row]
  /\ Distinct(rows')
  /\ carried' = [d \in Dispatches |->
       IF cpc[d] = "list" THEN carried[d] \cup Carriers(rows', want[d])
                          ELSE carried[d]]
  /\ UNCHANGED <<token, issued>>

CreateSecret(s, a) ==
  /\ CallOwner
  /\ rows[s] = NoRow
  /\ SetRow(s, [status |-> "ACTIVE", alias |-> a])
  /\ UNCHANGED grants

RenameSecret(s, a) ==
  /\ CallOwner
  /\ s \in Active
  /\ SetRow(s, [rows[s] EXCEPT !.alias = a])
  /\ UNCHANGED grants

RemoveSecret(s) ==
  /\ CallOwner
  /\ s \in Active
  /\ SetRow(s, [rows[s] EXCEPT !.status = "REMOVED"])
  /\ grants' = {g \in grants : g[2] # s}

ChangeGrants(a, s) ==
  /\ CallOwner
  /\ s \in Active
  /\ grants' = IF <<a, s>> \in grants THEN grants \ {<<a, s>>}
                                      ELSE grants \cup {<<a, s>>}
  /\ UNCHANGED <<rows, token, issued, carried>>

\* ownerIssueSessionToken: the agent's earlier token is dead.
IssueToken(a, t) ==
  /\ CallOwner
  /\ t \notin issued
  /\ token' = [token EXCEPT ![a] = t]
  /\ issued' = issued \cup {t}
  /\ UNCHANGED <<rows, grants, carried>>

RevokeToken(a) ==
  /\ CallOwner
  /\ token[a] # Nil
  /\ token' = [token EXCEPT ![a] = Nil]
  /\ UNCHANGED <<rows, grants, issued, carried>>

\* Mutant of BeginApproval: any record is decided.
BeginAnyApproval(d) ==
  /\ requests[d].secret # Nil
  /\ deciding[d] = Nil
  /\ deciding' = [deciding EXCEPT ![d] = requests[d].secret]
  /\ UNCHANGED <<rows, grants, token, issued, requests, seen, client, wire,
                 history, counters>>

\* ownerApproveDispatch reads the record.  Here the owner decides a request
\* once at a time; OwnerApproval has what two decisions do to each other.
BeginApproval(d) ==
  /\ requests[d].status = "AWAITING_APPROVAL"
  /\ deciding[d] = Nil
  /\ deciding' = [deciding EXCEPT ![d] = requests[d].secret]
  /\ UNCHANGED <<rows, grants, token, issued, requests, seen, client, wire,
                 history, counters>>

Decided(d, status) ==
  /\ deciding' = [deciding EXCEPT ![d] = Nil]
  /\ requests' = [requests EXCEPT ![d] = [status |-> status,
                                          secret |-> deciding[d]]]
  /\ UNCHANGED <<rows, token, issued, seen, client, wire, carried, accepted,
                 sentDead, counters>>

Deny(d) ==
  /\ deciding[d] # Nil
  /\ Decided(d, "DENIED")
  /\ UNCHANGED <<grants, used>>

\* Mutant of Approve: the secret that carries the name now is used.
ApproveByAlias(d) ==
  /\ deciding[d] \in Active
  /\ \E st \in Executed : Decided(d, st)
  /\ \E s \in Carriers(rows, want[d]) \cap Secrets :
       used' = [used EXCEPT ![d] = @ \cup {s}]
  /\ UNCHANGED grants

\* allow_once or allow_and_grant: the secret of the record is used.
Approve(d) ==
  /\ deciding[d] \in Active
  /\ \E st \in Executed : Decided(d, st)
  /\ used' = [used EXCEPT ![d] = @ \cup {deciding[d]}]
  /\ \E new \in {{}, {<<AgentOf[d], deciding[d]>>}} : grants' = grants \cup new

\* The secret is gone: the approval throws, the record waits on.
ApprovalFails(d) ==
  /\ deciding[d] # Nil /\ deciding[d] \notin Active
  /\ deciding' = [deciding EXCEPT ![d] = Nil]
  /\ UNCHANGED <<rows, grants, token, issued, requests, seen, client, wire,
                 history, counters>>

OwnerStep ==
  \/ \E s \in Secrets, a \in Aliases : CreateSecret(s, a) \/ RenameSecret(s, a)
  \/ \E s \in Secrets : RemoveSecret(s)
  \/ \E a \in Agents, s \in Secrets : ChangeGrants(a, s)
  \/ \E a \in Agents, t \in Tokens : IssueToken(a, t)
  \/ \E a \in Agents : RevokeToken(a)
  \/ \E d \in Dispatches :
       BeginApproval(d) \/ Deny(d) \/ Approve(d) \/ ApprovalFails(d)

InVault == Terminal \cup {"guard", "serve", "allow", "AWAITING_APPROVAL"}

\* The process dies: handlers, approvals and the replay guard are gone, and
\* the connections with them.
Crash ==
  /\ crashes < MaxCrashes
  /\ crashes' = crashes + 1
  /\ hpc' = [h \in Handlers |-> IF hpc[h] \in InVault THEN "dead" ELSE hpc[h]]
  /\ seen' = {}
  /\ deciding' = [d \in Dispatches |-> Nil]
  /\ UNCHANGED <<rows, grants, token, issued, requests, client, answer,
                 history, ownerCalls>>

-----------------------------------------------------------------------------
ClientStep ==
  \/ \E t \in issued \cup {Nil} :
       \/ \E d \in Dispatches, name \in Given \cap Names : BeginDispatch(d, t, name)
       \/ \E q \in Reads, target \in Given \cap Targets : BeginRead(q, t, target)
  \/ \E h \in Handlers :
       ReceiveList(h) \/ ReceiveAnswer(h) \/ ReceiveRefusal(h)

Next ==
  \/ ClientStep
  \/ OwnerStep
  \/ \E h \in Handlers : Verify(h) \/ Handle(h) \/ Duplicate(h)
  \/ \E k \in ClientCalls : Break(k)
  \/ Crash

\* The network brings what a call waits for one step on, or gives it up;
\* while a handler is at work it waits for that.
Transfer(k) ==
  \E h \in Handlers :
    /\ h[1] = k /\ Waits(h)
    /\ \/ Verify(h) \/ ReceiveList(h) \/ ReceiveAnswer(h) \/ ReceiveRefusal(h)
       \/ hpc[h] \notin InVault \cup {"unsent"} /\ Break(k)

Spec == Init /\ [][Next]_vars
FairSpec ==
  /\ Spec
  /\ WF_vars(\E h \in Handlers : Handle(h))
  /\ WF_vars(\E k \in ClientCalls : Transfer(k))
-----------------------------------------------------------------------------
\* Every variable has its type; a call waits for an answer only to a request
\* it has posted, and a handler is past its list only with a secret to use.
TypeOK ==
  /\ rows \in [Secrets -> Rows]
  /\ Distinct(rows)
  /\ grants \subseteq Agents \X Secrets
  /\ token \in [Agents -> Tokens \cup {Nil}]
  /\ {token[a] : a \in Agents} \ {Nil} \subseteq issued
  /\ issued \subseteq Tokens
  /\ requests \in [Dispatches -> [status: Statuses \cup {"NONE"},
                                  secret: Names \cup {Nil}]]
  /\ seen \subseteq Posts
  /\ deciding \in [Dispatches -> Names \cup {Nil}]
  /\ cpc \in [ClientCalls -> {"idle", "list", "dispatch", "read", "done"}]
  /\ held \in [ClientCalls -> Tokens \cup {Nil}]
  /\ want \in [ClientCalls -> Wants \cup {Nil}]
  /\ resolved \in [Dispatches -> Names \cup {Nil}]
  /\ result \in [ClientCalls -> {"none", "answered", "refused", "lost"}]
  /\ hpc \in [Handlers -> InVault \cup {"unsent", "wire", "answered",
                                        "refused", "over", "dead"}]
  /\ told \in [ClientCalls -> SUBSET (Dispatches \X Statuses)]
  /\ carried \in [Dispatches -> SUBSET Names]
  /\ used \in [Dispatches -> SUBSET Secrets]
  /\ accepted \in [Dispatches -> Nat]
  /\ sentDead \subseteq Dispatches
  /\ ownerCalls \in Nat /\ crashes \in Nat
  /\ \A h \in Handlers : Waits(h) => hpc[<<h[1], h[2], 1>>] # "unsent"

(***************************************************************************)
(* However secrets are renamed, removed and created while a dispatch is    *)
(* listed, posted, awaits approval and is approved: the secret it is       *)
(* executed with is the one named by id, or one that carried the name      *)
(* between the call and the answer to its list.                            *)
(***************************************************************************)
NoRedirect == \A d \in Dispatches : used[d] \subseteq carried[d]

(***************************************************************************)
(* What a call was told of a dispatch the vault accepted once stays true:  *)
(* a final status is the record's from then on, and one that awaited       *)
(* approval awaits it still or was decided.  So no later poll of it goes   *)
(* back, in whatever order answers arrive.                                 *)
(***************************************************************************)
MayFollow(before, after) ==
  CASE before \in Terminal          -> after = before
    [] before = "AWAITING_APPROVAL" -> after \in Terminal \cup {before}
    [] OTHER                        -> after \in Statuses

Said(pairs) ==
  \A pair \in pairs :
    accepted[pair[1]] <= 1 => MayFollow(pair[2], requests[pair[1]].status)

AnswersAgree == \A k \in ClientCalls : Said(told[k])

(***************************************************************************)
(* A dispatch whose call was refused and whose post was delivered once is  *)
(* not executed, not even later: as long as no subscriber of the audit log *)
(* throws, which this module leaves out, the agent may safely make a new   *)
(* one.                                                                    *)
(***************************************************************************)
Deliveries(d) ==
  {h \in Handlers : h[1] = d /\ h[2] = "dispatch" /\ hpc[h] # "unsent"}

DeliveredOnce(d) == \A g, h \in Deliveries(d) : g = h

RefusedIsNotExecuted ==
  \A d \in Dispatches :
    result[d] = "refused" /\ DeliveredOnce(d) => used[d] = {}

(***************************************************************************)
(* A dispatch posted with a token that was revoked or replaced -- also     *)
(* after its list was answered -- is never accepted and leaves no record.  *)
(***************************************************************************)
DeadTokenDoesNothing ==
  \A d \in sentDead : accepted[d] = 0 /\ requests[d] = NoRecord

(***************************************************************************)
(* Every call returns: answered, refused or lost.                          *)
(***************************************************************************)
CallsReturn ==
  \A k \in ClientCalls : cpc[k] # "idle" ~> cpc[k] = "done"
=============================================================================
