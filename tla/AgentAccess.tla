----------------------------- MODULE AgentAccess -----------------------------
(***************************************************************************)
(* How agents get and lose access: the row of an agent and its private key *)
(* are two stores (SqliteAgentIdentityRegistry, SqliteSecretCustody), its  *)
(* session token is a third (SqliteSessionTokenRegistry) and its grants a  *)
(* fourth, and registering, updating and removing an agent touch them at   *)
(* separate awaits while tokens are issued and grants are given.           *)
(*                                                                         *)
(* Nothing checks that an agent exists before it is given a token or a     *)
(* grant.  Site deletion, which also deletes grants, is in OwnerAdmin; the *)
(* secrets and sites the grants name are never removed here.               *)
(***************************************************************************)
EXTENDS Naturals, FiniteSets, Functions

CONSTANTS
  Agents,      \* ids of agents, root_agent_id
  Secrets,     \* secret ids
  Sites,       \* site ids
  Tokens,      \* session tokens, each issued once (they are random)
  Calls,       \* owner calls at the same time
  MaxCrashes,  \* bound: how often the vault process dies
  Nil

ASSUME AccessNil == Nil \notin Agents \cup Tokens
ASSUME AccessBounds == MaxCrashes \in Nat

VARIABLES
  rows,      \* the agents table
  keys,      \* agents whose private key is in custody
  token,     \* session_tokens: the token of each agent, or Nil
  grants,    \* agent-secret grants, <<agent, secret>>
  dests,     \* secret-destination grants, <<secret, site>>
  pc,        \* where each owner call is
  who,       \* the agent it is about
  hadKey,    \* an update: the record it has read has a private key
  toIssue,   \* ownerIssueAllAgentSessionTokens: the agents it has listed
  toRevoke, toDelete,  \* a removal: the tokens and the secrets it has listed
  granted,   \* a removal: the secrets some agent has a grant for
  toDrop,    \* a removal: the destination grants to delete
  \* history, read by no handler: the tokens each agent has been issued and,
  \* of a removal, those its agent had been issued when it began; tokens of
  \* agents that a removal has removed since; secrets granted since a removal
  \* has listed the grants; agents that two calls wrote at the same time,
  \* that a death left half written, or that were given something while they
  \* were not registered or about to be removed
  issued, earlier, dead, given, tainted, crashes

stores  == <<rows, keys, token, grants, dests>>
removal == <<toRevoke, toDelete, granted, toDrop>>
calls   == <<pc, who, hadKey, toIssue, removal>>
tokenHistory == <<issued, earlier, dead>>
vars == <<stores, calls, tokenHistory, given, tainted, crashes>>

Removing == {"list", "strip", "dests", "drop", "delete"}
Writing  == Removing \cup {"insert", "update", "reinsert"}
PCs == Writing \cup {"idle", "issue", "issueAll"}

\* The calls that are writing an agent, and those that are removing it.
Writers(a)  == {c \in Calls : who[c] = a /\ pc[c] \in Writing}
Removers(a) == {c \in Calls : who[c] = a /\ pc[c] \in Removing}

Issued == UNION {issued[a] : a \in Agents}
SecretsOf(a) == {s \in Secrets : <<a, s>> \in grants}

\* inspect: a token is good for the agent whose row holds it.
Inspect(t, a) == token[a] = t

Init ==
  /\ rows = {} /\ keys = {} /\ grants = {} /\ dests = {}
  /\ token = [a \in Agents |-> Nil]
  /\ pc = [c \in Calls |-> "idle"]
  /\ who = [c \in Calls |-> Nil]
  /\ hadKey = [c \in Calls |-> FALSE]
  /\ toIssue = [c \in Calls |-> {}]
  /\ toRevoke = [c \in Calls |-> {}]
  /\ toDelete = [c \in Calls |-> {}]
  /\ granted = [c \in Calls |-> {}]
  /\ toDrop = [c \in Calls |-> {}]
  /\ issued = [a \in Agents |-> {}]
  /\ earlier = [c \in Calls |-> {}]
  /\ dead = {}
  /\ given = [c \in Calls |-> {}]
  /\ tainted = {}
  /\ crashes = 0

-----------------------------------------------------------------------------
(* Steps of every call.                                                    *)

At(c, l) == pc[c] = l
Goto(c, l) == pc' = [pc EXCEPT ![c] = l]

\* The call begins, and writes an agent another call may be writing.
Enter(c, a, l) ==
  /\ At(c, "idle")
  /\ Goto(c, l)
  /\ who' = [who EXCEPT ![c] = a]
  /\ tainted' = IF Writers(a) = {} THEN tainted ELSE tainted \cup {a}

\* The call ends.
Leave(c) ==
  /\ Goto(c, "idle")
  /\ who' = [who EXCEPT ![c] = Nil]

\* The agents of A are given something: the history notes those that are
\* not there to be given it.
Give(A) ==
  tainted' = tainted \cup {a \in A : a \notin rows \/ Removers(a) # {}}

\* issue: each agent of A gets a token of its own, in place of its last.
IssueTo(A) ==
  \E new \in Injection(A, Tokens \ Issued) :
    /\ token' = [a \in Agents |-> IF a \in A THEN new[a] ELSE token[a]]
    /\ issued' = [a \in Agents |-> IF a \in A THEN issued[a] \cup {new[a]}
                                              ELSE issued[a]]
    /\ Give(A)
    /\ UNCHANGED <<rows, keys, grants, dests, earlier, dead, given, crashes>>

\* revoke: the row that holds the token is deleted.
Revoked(t) == [a \in Agents |-> IF Inspect(t, a) THEN Nil ELSE token[a]]

-----------------------------------------------------------------------------
(* ownerCreateAgent, ownerImportAgent: an identity is registered, its key  *)
(* before its row, and then issued a token.  The identity may be one that  *)
(* was registered before.                                                  *)
BeginRegister(c, a) ==
  /\ Enter(c, a, "insert")
  /\ keys' = keys \cup {a}
  /\ UNCHANGED <<rows, token, grants, dests, hadKey, toIssue, removal,
                 tokenHistory, given, crashes>>

Insert(c) ==
  /\ At(c, "insert")
  /\ rows' = rows \cup {who[c]}
  /\ Goto(c, "issue")
  /\ UNCHANGED <<keys, token, grants, dests, who, hadKey, toIssue, removal,
                 tokenHistory, given, tainted, crashes>>

IssueFirst(c) ==
  /\ At(c, "issue")
  /\ IssueTo({who[c]})
  /\ Leave(c)
  /\ UNCHANGED <<hadKey, toIssue, removal>>

-----------------------------------------------------------------------------
(* ownerUpdateAgentIdentity: read the record with its key, register it.    *)
BeginUpdate(c, a) ==
  /\ a \in rows
  /\ Enter(c, a, "update")
  /\ hadKey' = [hadKey EXCEPT ![c] = a \in keys]
  /\ UNCHANGED <<stores, toIssue, removal, tokenHistory, given, crashes>>

UpdateKey(c) ==
  /\ At(c, "update") /\ hadKey[c]
  /\ keys' = keys \cup {who[c]}
  /\ Goto(c, "reinsert")
  /\ UNCHANGED <<rows, token, grants, dests, who, hadKey, toIssue, removal,
                 tokenHistory, given, tainted, crashes>>

UpdateRow(c) ==
  /\ \/ At(c, "update") /\ ~hadKey[c]
     \/ At(c, "reinsert")
  /\ rows' = rows \cup {who[c]}
  /\ hadKey' = [hadKey EXCEPT ![c] = FALSE]
  /\ Leave(c)
  /\ UNCHANGED <<keys, token, grants, dests, toIssue, removal, tokenHistory,
                 given, tainted, crashes>>

-----------------------------------------------------------------------------
(* ownerRemoveAgentIdentity.                                               *)
BeginRemove(c, a) ==
  /\ a \in rows
  /\ Enter(c, a, "list")
  /\ earlier' = [earlier EXCEPT ![c] = issued[a]]
  /\ UNCHANGED <<stores, hadKey, toIssue, removal, issued, dead, given,
                 crashes>>

\* Mutant of RemoveList: an agent without a token is listed with none.
RemoveListNil(c) ==
  /\ At(c, "list")
  /\ toRevoke' = [toRevoke EXCEPT ![c] = {token[who[c]]}]
  /\ toDelete' = [toDelete EXCEPT ![c] = SecretsOf(who[c])]
  /\ Goto(c, "strip")
  /\ UNCHANGED <<stores, who, hadKey, toIssue, granted, toDrop, tokenHistory,
                 given, tainted, crashes>>

RemoveList(c) ==
  /\ At(c, "list")
  /\ toRevoke' = [toRevoke EXCEPT ![c] = {token[who[c]]} \ {Nil}]
  /\ toDelete' = [toDelete EXCEPT ![c] = SecretsOf(who[c])]
  /\ Goto(c, "strip")
  /\ UNCHANGED <<stores, who, hadKey, toIssue, granted, toDrop, tokenHistory,
                 given, tainted, crashes>>

\* Mutant of RemoveRevoke: the token is passed over.
RemovePassOver(c) ==
  /\ At(c, "strip")
  /\ \E t \in toRevoke[c] :
       toRevoke' = [toRevoke EXCEPT ![c] = @ \ {t}]
  /\ UNCHANGED <<stores, pc, who, hadKey, toIssue, toDelete, granted, toDrop,
                 tokenHistory, given, tainted, crashes>>

RemoveRevoke(c) ==
  /\ At(c, "strip")
  /\ \E t \in toRevoke[c] :
       /\ token' = Revoked(t)
       /\ toRevoke' = [toRevoke EXCEPT ![c] = @ \ {t}]
  /\ UNCHANGED <<rows, keys, grants, dests, pc, who, hadKey, toIssue,
                 toDelete, granted, toDrop, tokenHistory, given, tainted,
                 crashes>>

RemoveGrant(c) ==
  /\ At(c, "strip") /\ toRevoke[c] = {}
  /\ \E s \in toDelete[c] :
       /\ grants' = grants \ {<<who[c], s>>}
       /\ toDelete' = [toDelete EXCEPT ![c] = @ \ {s}]
  /\ UNCHANGED <<rows, keys, token, dests, pc, who, hadKey, toIssue,
                 toRevoke, granted, toDrop, tokenHistory, given, tainted,
                 crashes>>

\* Mutant of RemoveListGrants: only the agent's own grants are listed.
RemoveListOwnGrants(c) ==
  /\ At(c, "strip") /\ toRevoke[c] = {} /\ toDelete[c] = {}
  /\ granted' = [granted EXCEPT ![c] = SecretsOf(who[c])]
  /\ given' = [given EXCEPT ![c] = {}]
  /\ Goto(c, "dests")
  /\ UNCHANGED <<stores, who, hadKey, toIssue, toRevoke, toDelete, toDrop,
                 tokenHistory, tainted, crashes>>

\* Orphan cleanup: the secrets that some agent still has a grant for ...
RemoveListGrants(c) ==
  /\ At(c, "strip") /\ toRevoke[c] = {} /\ toDelete[c] = {}
  /\ granted' = [granted EXCEPT ![c] = UNION {SecretsOf(a) : a \in Agents}]
  /\ given' = [given EXCEPT ![c] = {}]
  /\ Goto(c, "dests")
  /\ UNCHANGED <<stores, who, hadKey, toIssue, toRevoke, toDelete, toDrop,
                 tokenHistory, tainted, crashes>>

\* ... the destination grants of the others ...
RemoveListDests(c) ==
  /\ At(c, "dests")
  /\ toDrop' = [toDrop EXCEPT ![c] = {g \in dests : g[1] \notin granted[c]}]
  /\ Goto(c, "drop")
  /\ UNCHANGED <<stores, who, hadKey, toIssue, toRevoke, toDelete, granted,
                 tokenHistory, given, tainted, crashes>>

\* ... are deleted, all at once.
RemoveDropDests(c) ==
  /\ At(c, "drop")
  /\ dests' = dests \ toDrop[c]
  /\ toDrop' = [toDrop EXCEPT ![c] = {}]
  /\ granted' = [granted EXCEPT ![c] = {}]
  /\ given' = [given EXCEPT ![c] = {}]
  /\ Goto(c, "delete")
  /\ UNCHANGED <<rows, keys, token, grants, who, hadKey, toIssue, toRevoke,
                 toDelete, tokenHistory, tainted, crashes>>

\* Mutant of RemoveRow: the private key stays in custody.
RemoveRowOnly(c) ==
  /\ At(c, "delete")
  /\ rows' = rows \ {who[c]}
  /\ dead' = dead \cup earlier[c]
  /\ earlier' = [earlier EXCEPT ![c] = {}]
  /\ Leave(c)
  /\ UNCHANGED <<keys, token, grants, dests, hadKey, toIssue, removal, issued,
                 given, tainted, crashes>>

RemoveRow(c) ==
  /\ At(c, "delete")
  /\ rows' = rows \ {who[c]}
  /\ keys' = keys \ {who[c]}
  /\ dead' = dead \cup earlier[c]
  /\ earlier' = [earlier EXCEPT ![c] = {}]
  /\ Leave(c)
  /\ UNCHANGED <<token, grants, dests, hadKey, toIssue, removal, issued,
                 given, tainted, crashes>>

-----------------------------------------------------------------------------
(* Session tokens.                                                         *)

\* ownerIssueSessionToken, for any agent id.
IssueToken(a) ==
  /\ IssueTo({a})
  /\ UNCHANGED calls

\* ownerRevokeSessionToken, for any token that was ever issued.
RevokeToken(t) ==
  /\ t \in Issued
  /\ token' = Revoked(t)
  /\ UNCHANGED <<rows, keys, grants, dests, calls, tokenHistory, given,
                 tainted, crashes>>

\* ownerIssueAllAgentSessionTokens, which createOwnerClient calls to warm up:
\* list the agents, then issue all their tokens at once.
BeginIssueAll(c) ==
  /\ At(c, "idle")
  /\ toIssue' = [toIssue EXCEPT ![c] = rows]
  /\ Goto(c, "issueAll")
  /\ UNCHANGED <<stores, who, hadKey, removal, tokenHistory, given, tainted,
                 crashes>>

IssueAll(c) ==
  /\ At(c, "issueAll")
  /\ IssueTo(toIssue[c])
  /\ toIssue' = [toIssue EXCEPT ![c] = {}]
  /\ Goto(c, "idle")
  /\ UNCHANGED <<who, hadKey, removal>>

-----------------------------------------------------------------------------
(* Grants.                                                                 *)

GrantAgent(a, s) ==
  /\ grants' = grants \cup {<<a, s>>}
  /\ given' = [c \in Calls |-> IF pc[c] \in {"dests", "drop"}
                               THEN given[c] \cup {s} ELSE given[c]]
  /\ Give({a})
  /\ UNCHANGED <<rows, keys, token, dests, calls, tokenHistory, crashes>>

RevokeAgent(a, s) ==
  /\ grants' = grants \ {<<a, s>>}
  /\ UNCHANGED <<rows, keys, token, dests, calls, tokenHistory, given,
                 tainted, crashes>>

GrantDest(s, w) ==
  /\ dests' = dests \cup {<<s, w>>}
  /\ UNCHANGED <<rows, keys, token, grants, calls, tokenHistory, given,
                 tainted, crashes>>

RevokeDest(s, w) ==
  /\ dests' = dests \ {<<s, w>>}
  /\ UNCHANGED <<rows, keys, token, grants, calls, tokenHistory, given,
                 tainted, crashes>>

-----------------------------------------------------------------------------
\* The process dies: every call is cut short.
Crash ==
  /\ crashes < MaxCrashes
  /\ crashes' = crashes + 1
  /\ pc' = [c \in Calls |-> "idle"]
  /\ who' = [c \in Calls |-> Nil]
  /\ hadKey' = [c \in Calls |-> FALSE]
  /\ toIssue' = [c \in Calls |-> {}]
  /\ toRevoke' = [c \in Calls |-> {}]
  /\ toDelete' = [c \in Calls |-> {}]
  /\ granted' = [c \in Calls |-> {}]
  /\ toDrop' = [c \in Calls |-> {}]
  /\ earlier' = [c \in Calls |-> {}]
  /\ given' = [c \in Calls |-> {}]
  /\ tainted' = tainted \cup {a \in Agents : Writers(a) # {}}
  /\ UNCHANGED <<stores, issued, dead>>

Step(c) ==
  \/ \E a \in Agents :
       BeginRegister(c, a) \/ BeginUpdate(c, a) \/ BeginRemove(c, a)
  \/ Insert(c) \/ IssueFirst(c)
  \/ UpdateKey(c) \/ UpdateRow(c)
  \/ RemoveList(c) \/ RemoveRevoke(c) \/ RemoveGrant(c)
  \/ RemoveListGrants(c) \/ RemoveListDests(c) \/ RemoveDropDests(c)
  \/ RemoveRow(c)
  \/ BeginIssueAll(c) \/ IssueAll(c)

Grant ==
  \E s \in Secrets :
    \/ \E a \in Agents : GrantAgent(a, s) \/ RevokeAgent(a, s)
    \/ \E w \in Sites : GrantDest(s, w) \/ RevokeDest(s, w)

Next ==
  \/ \E c \in Calls : Step(c)
  \/ \E a \in Agents : IssueToken(a)
  \/ \E t \in Tokens : RevokeToken(t)
  \/ Grant
  \/ Crash

Spec == Init /\ [][Next]_vars

-----------------------------------------------------------------------------
(* Properties.                                                             *)

\* Every variable keeps its type: in particular a removal lists tokens only.
TypeOK ==
  /\ rows \subseteq Agents /\ keys \subseteq Agents
  /\ token \in [Agents -> Tokens \cup {Nil}]
  /\ grants \subseteq Agents \X Secrets /\ dests \subseteq Secrets \X Sites
  /\ pc \in [Calls -> PCs]
  /\ who \in [Calls -> Agents \cup {Nil}]
  /\ hadKey \in [Calls -> BOOLEAN]
  /\ toIssue \in [Calls -> SUBSET Agents]
  /\ toRevoke \in [Calls -> SUBSET Tokens]
  /\ toDelete \in [Calls -> SUBSET Secrets]
  /\ granted \in [Calls -> SUBSET Secrets]
  /\ toDrop \in [Calls -> SUBSET (Secrets \X Sites)]
  /\ issued \in [Agents -> SUBSET Tokens]
  /\ earlier \in [Calls -> SUBSET Tokens]
  /\ dead \subseteq Tokens
  /\ given \in [Calls -> SUBSET Secrets]
  /\ tainted \subseteq Agents
  /\ crashes \in 0..MaxCrashes

(***************************************************************************)
(* Once a removal has returned, no token its agent had been issued before  *)
(* the removal began is good for any agent again, whatever is issued,      *)
(* revoked, registered or removed at the same time.                        *)
(***************************************************************************)
TokensDieWithAgent ==
  \A t \in dead : \A a \in Agents : ~Inspect(t, a)

\* A registered agent has a key; one that is not has nothing at all.
HasNothing(a) == token[a] = Nil /\ SecretsOf(a) = {}
Whole(a) ==
  /\ a \in rows <=> a \in keys
  /\ a \notin rows => HasNothing(a)

(***************************************************************************)
(* An agent nobody is writing is whole, if the calls that wrote it came    *)
(* one at a time and to their end, and if it was given tokens and grants   *)
(* only while it was registered.                                           *)
(***************************************************************************)
SettledAgentIsWhole ==
  \A a \in Agents \ tainted : Writers(a) = {} => Whole(a)

(***************************************************************************)
(* The destination grants a removal is about to delete belong to secrets   *)
(* no agent has a grant for, unless one was given since the removal listed *)
(* the grants.                                                             *)
(***************************************************************************)
DoomedSitesAreUnused ==
  \A c \in Calls : \A g \in toDrop[c] : \A a \in Agents :
    <<a, g[1]>> \in grants => g[1] \in given[c]
=============================================================================
