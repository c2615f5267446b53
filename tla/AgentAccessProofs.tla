-------------------------- MODULE AgentAccessProofs --------------------------
(***************************************************************************)
(* Proofs about AgentAccess, for any number of agents, secrets, sites,     *)
(* tokens and owner calls.                                                 *)
(***************************************************************************)
EXTENDS AgentAccess, TLAPS

-----------------------------------------------------------------------------
(* The inductive strengthening of the properties of the module.            *)

\* A call under way knows its agent.
CallersKnown ==
  \A c \in Calls : pc[c] \notin {"idle", "issueAll"} => who[c] \in Agents

TypeInv == TypeOK /\ CallersKnown

\* An agent holds its own tokens only; a removal has listed every earlier
\* token that is still good, and then revoked it.
TokensInv ==
  /\ \A a \in Agents : token[a] \in issued[a] \cup {Nil}
  /\ \A a, b \in Agents : a # b => issued[a] \cap issued[b] = {}
  /\ dead \subseteq Issued
  /\ \A c \in Calls : pc[c] \in Removing =>
       /\ earlier[c] \subseteq issued[who[c]]
       /\ pc[c] = "strip" /\ token[who[c]] \in earlier[c] =>
            token[who[c]] \in toRevoke[c]
       /\ pc[c] \in {"dests", "drop", "delete"} =>
            token[who[c]] \notin earlier[c]
  /\ TokensDieWithAgent

\* What the only writer of an agent has left of it where it stands.
Stands(c, a) ==
  /\ pc[c] = "insert" => a \in keys /\ (a \notin rows => HasNothing(a))
  /\ pc[c] = "update" => hadKey[c]
  /\ pc[c] # "insert" => a \in rows /\ a \in keys
  /\ pc[c] = "strip" =>
       token[a] \in toRevoke[c] \cup {Nil} /\ SecretsOf(a) \subseteq toDelete[c]
  /\ pc[c] \in {"dests", "drop", "delete"} => HasNothing(a)

WholeInv ==
  \A a \in Agents \ tainted :
    /\ \A c, d \in Writers(a) : c = d
    /\ Writers(a) = {} => Whole(a)
    /\ \A c \in Writers(a) : Stands(c, a)

\* From the list of the grants on, every grant is in it or noted as given.
DoomedInv ==
  \A c \in Calls :
    /\ pc[c] = "dests" => \A g \in grants : g[2] \in granted[c] \cup given[c]
    /\ pc[c] # "drop" => toDrop[c] = {}
    /\ \A g \in toDrop[c] : \A h \in grants : h[2] = g[1] => h[2] \in given[c]

-----------------------------------------------------------------------------

USE AccessNil, AccessBounds

-----------------------------------------------------------------------------
(* Types.                                                                  *)

LEMMA InitTypes == Init => TypeInv
BY DEF Init, TypeInv, TypeOK, CallersKnown, PCs

\* Issuing keeps the types of what it changes, and the new tokens are new.
LEMMA IssueTypes ==
  ASSUME TypeOK, NEW A \in SUBSET Agents, IssueTo(A)
  PROVE  /\ token' \in [Agents -> Tokens \cup {Nil}]
         /\ issued' \in [Agents -> SUBSET Tokens]
         /\ tainted' \subseteq Agents
<1>1. PICK new \in Injection(A, Tokens \ Issued) :
        /\ token' = [a \in Agents |-> IF a \in A THEN new[a] ELSE token[a]]
        /\ issued' = [a \in Agents |-> IF a \in A THEN issued[a] \cup {new[a]}
                                                  ELSE issued[a]]
  BY DEF IssueTo
<1>2. new \in [A -> Tokens \ Issued]
  BY DEF Injection
<1>. QED  BY <1>1, <1>2 DEF TypeOK, IssueTo, Give

\* The steps of a call.
LEMMA StepTypes ==
  ASSUME TypeInv, NEW c \in Calls, Step(c)
  PROVE  TypeInv'
<1>. USE DEF TypeInv, CallersKnown
<1>1. ASSUME NEW a \in Agents, BeginRegister(c, a)  PROVE TypeInv'
  BY <1>1 DEF BeginRegister, Enter, At, Goto, TypeOK, PCs, Writing, removal,
       tokenHistory
<1>2. ASSUME NEW a \in Agents, BeginUpdate(c, a)  PROVE TypeInv'
  BY <1>2 DEF BeginUpdate, Enter, At, Goto, TypeOK, PCs, Writing, removal,
       tokenHistory, stores
<1>3. ASSUME NEW a \in Agents, BeginRemove(c, a)  PROVE TypeInv'
  BY <1>3 DEF BeginRemove, Enter, At, Goto, TypeOK, PCs, Writing, Removing,
       removal, stores
<1>4. CASE Insert(c)
  BY <1>4 DEF Insert, At, Goto, TypeOK, PCs, removal, tokenHistory
<1>5. CASE IssueFirst(c)
  <2>1. who[c] \in Agents
    BY <1>5 DEF IssueFirst, At
  <2>2. /\ token' \in [Agents -> Tokens \cup {Nil}]
        /\ issued' \in [Agents -> SUBSET Tokens]
        /\ tainted' \subseteq Agents
    BY <1>5, <2>1, IssueTypes DEF IssueFirst
  <2>3. UNCHANGED <<rows, keys, grants, dests, earlier, dead, given, crashes>>
    BY <1>5 DEF IssueFirst, IssueTo
  <2>. QED  BY <1>5, <2>2, <2>3 DEF IssueFirst, Leave, Goto, TypeOK, PCs, removal
<1>6. CASE UpdateKey(c)
  BY <1>6 DEF UpdateKey, At, Goto, TypeOK, PCs, Writing, removal, tokenHistory
<1>7. CASE UpdateRow(c)
  BY <1>7 DEF UpdateRow, Leave, At, Goto, TypeOK, PCs, removal, tokenHistory
<1>8. CASE RemoveList(c)
  BY <1>8 DEF RemoveList, SecretsOf, At, Goto, TypeOK, PCs, Writing, Removing,
       stores, tokenHistory
<1>9. CASE RemoveRevoke(c)
  BY <1>9 DEF RemoveRevoke, Revoked, At, TypeOK, tokenHistory
<1>10. CASE RemoveGrant(c)
  BY <1>10 DEF RemoveGrant, At, TypeOK, tokenHistory
<1>11. CASE RemoveListGrants(c)
  <2>1. UNION {SecretsOf(a) : a \in Agents} \in SUBSET Secrets
    BY DEF SecretsOf
  <2>2. granted' \in [Calls -> SUBSET Secrets]
    BY <1>11, <2>1 DEF RemoveListGrants, TypeOK
  <2>3. pc' \in [Calls -> PCs]
    BY <1>11 DEF RemoveListGrants, Goto, TypeOK, PCs, Writing, Removing
  <2>4. CallersKnown'
    BY <1>11 DEF RemoveListGrants, At, Goto, TypeOK
  <2>. QED
    BY <1>11, <2>2, <2>3, <2>4 DEF RemoveListGrants, TypeOK, stores,
         tokenHistory
<1>12. CASE RemoveListDests(c)
  BY <1>12 DEF RemoveListDests, At, Goto, TypeOK, PCs, Writing, Removing,
       stores, tokenHistory
<1>13. CASE RemoveDropDests(c)
  BY <1>13 DEF RemoveDropDests, At, Goto, TypeOK, PCs, Writing, Removing,
       tokenHistory
<1>14. CASE RemoveRow(c)
  BY <1>14 DEF RemoveRow, Leave, At, Goto, TypeOK, PCs, removal
<1>15. CASE BeginIssueAll(c)
  BY <1>15 DEF BeginIssueAll, At, Goto, TypeOK, PCs, stores, removal,
       tokenHistory
<1>16. CASE IssueAll(c)
  <2>1. toIssue[c] \in SUBSET Agents
    BY DEF TypeOK
  <2>2. /\ token' \in [Agents -> Tokens \cup {Nil}]
        /\ issued' \in [Agents -> SUBSET Tokens]
        /\ tainted' \subseteq Agents
    BY <1>16, <2>1, IssueTypes DEF IssueAll
  <2>3. UNCHANGED <<rows, keys, grants, dests, earlier, dead, given, crashes>>
    BY <1>16 DEF IssueAll, IssueTo
  <2>. QED  BY <1>16, <2>2, <2>3 DEF IssueAll, Goto, TypeOK, PCs, removal
<1>. QED
  BY <1>1, <1>2, <1>3, <1>4, <1>5, <1>6, <1>7, <1>8, <1>9, <1>10, <1>11,
     <1>12, <1>13, <1>14, <1>15, <1>16 DEF Step

\* The steps that are no call's.
LEMMA OtherTypes ==
  ASSUME TypeInv, Next
  PROVE  \/ TypeInv'
         \/ \E c \in Calls : Step(c)
<1>. USE DEF TypeInv, CallersKnown
<1>1. ASSUME NEW a \in Agents, IssueToken(a)  PROVE TypeInv'
  <2>1. /\ token' \in [Agents -> Tokens \cup {Nil}]
        /\ issued' \in [Agents -> SUBSET Tokens]
        /\ tainted' \subseteq Agents
    BY <1>1, IssueTypes DEF IssueToken
  <2>2. UNCHANGED <<rows, keys, grants, dests, earlier, dead, given, crashes>>
    BY <1>1 DEF IssueToken, IssueTo
  <2>. QED  BY <1>1, <2>1, <2>2 DEF IssueToken, TypeOK, calls, removal
<1>2. ASSUME NEW t \in Tokens, RevokeToken(t)  PROVE TypeInv'
  BY <1>2 DEF RevokeToken, Revoked, TypeOK, calls, removal, tokenHistory
<1>3. ASSUME NEW a \in Agents, NEW s \in Secrets, GrantAgent(a, s)
      PROVE  TypeInv'
  BY <1>3 DEF GrantAgent, Give, TypeOK, calls, removal, tokenHistory
<1>4. ASSUME NEW a \in Agents, NEW s \in Secrets, RevokeAgent(a, s)
      PROVE  TypeInv'
  BY <1>4 DEF RevokeAgent, TypeOK, calls, removal, tokenHistory
<1>5. ASSUME NEW s \in Secrets, NEW w \in Sites, GrantDest(s, w)
      PROVE  TypeInv'
  BY <1>5 DEF GrantDest, TypeOK, calls, removal, tokenHistory
<1>6. ASSUME NEW s \in Secrets, NEW w \in Sites, RevokeDest(s, w)
      PROVE  TypeInv'
  BY <1>6 DEF RevokeDest, TypeOK, calls, removal, tokenHistory
<1>7. CASE Crash
  BY <1>7 DEF Crash, TypeOK, PCs, stores
<1>. QED
  BY <1>1, <1>2, <1>3, <1>4, <1>5, <1>6, <1>7 DEF Next, Grant

LEMMA StutterTypes == TypeInv /\ UNCHANGED vars => TypeInv'
BY DEF TypeInv, TypeOK, CallersKnown, vars, stores, calls, removal,
       tokenHistory

LEMMA NextTypes == TypeInv /\ [Next]_vars => TypeInv'
BY StepTypes, OtherTypes, StutterTypes

\* Every variable keeps its type in every behaviour.
THEOREM AccessTypes == Spec => []TypeOK
<1>1. Spec => []TypeInv
  BY InitTypes, NextTypes, PTL DEF Spec
<1>. QED  BY <1>1, PTL DEF TypeInv

-----------------------------------------------------------------------------
(* Tokens die with their agent.                                            *)

LEMMA InitTokens == Init => TokensInv
BY DEF Init, TokensInv, TokensDieWithAgent, Inspect, Removing, Issued

\* A removal goes on as before, or is one no longer.
Undisturbed(c) ==
  pc'[c] \in Removing =>
    /\ pc'[c] = pc[c] /\ who'[c] = who[c]
    /\ earlier'[c] = earlier[c] /\ toRevoke'[c] = toRevoke[c]

\* Steps that change no token and leave every removal where it is.
LEMMA SameTokens ==
  ASSUME TokensInv, \A c \in Calls : Undisturbed(c),
         UNCHANGED <<token, issued, dead>>
  PROVE  TokensInv'
BY DEF TokensInv, TokensDieWithAgent, Inspect, Issued, Undisturbed

\* A new token is none of those a removal or the history knows.
LEMMA IssueTokens ==
  ASSUME TypeInv, TokensInv, NEW A \in SUBSET Agents, IssueTo(A),
         \A c \in Calls : Undisturbed(c)
  PROVE  TokensInv'
<1>1. PICK new \in Injection(A, Tokens \ Issued) :
        /\ token' = [a \in Agents |-> IF a \in A THEN new[a] ELSE token[a]]
        /\ issued' = [a \in Agents |-> IF a \in A THEN issued[a] \cup {new[a]}
                                                  ELSE issued[a]]
  BY DEF IssueTo
<1>2. /\ \A a \in A : new[a] \in Tokens /\ new[a] \notin Issued
      /\ \A a, b \in A : new[a] = new[b] => a = b
  BY DEF Injection, IsInjective
<1>3. \A a \in Agents : issued[a] \subseteq Issued
  BY DEF Issued
<1>4. \A a \in Agents : token'[a] \in issued'[a] \cup {Nil}
  BY <1>1 DEF TokensInv
<1>5. ASSUME NEW a \in Agents, NEW b \in Agents, a # b
      PROVE  issued'[a] \cap issued'[b] = {}
  <2>1. issued[a] \cap issued[b] = {}
    BY <1>5 DEF TokensInv
  <2>. QED  BY <1>1, <1>2, <1>3, <1>5, <2>1
<1>6. dead' \subseteq Issued'
  <2>1. dead' = dead /\ Issued \subseteq Issued'
    BY <1>1 DEF IssueTo, Issued
  <2>. QED  BY <2>1 DEF TokensInv
<1>7. ASSUME NEW c \in Calls, pc'[c] \in Removing
      PROVE  /\ earlier'[c] \subseteq issued'[who'[c]]
             /\ pc'[c] = "strip" /\ token'[who'[c]] \in earlier'[c] =>
                  token'[who'[c]] \in toRevoke'[c]
             /\ pc'[c] \in {"dests", "drop", "delete"} =>
                  token'[who'[c]] \notin earlier'[c]
  <2>1. /\ pc'[c] = pc[c] /\ who'[c] = who[c]
        /\ earlier'[c] = earlier[c] /\ toRevoke'[c] = toRevoke[c]
    BY <1>7 DEF Undisturbed
  <2>2. who[c] \in Agents
    BY <1>7, <2>1 DEF TypeInv, CallersKnown, Removing
  <2>3. /\ earlier[c] \subseteq issued[who[c]]
        /\ pc[c] = "strip" /\ token[who[c]] \in earlier[c] =>
             token[who[c]] \in toRevoke[c]
        /\ pc[c] \in {"dests", "drop", "delete"} =>
             token[who[c]] \notin earlier[c]
    BY <1>7, <2>1 DEF TokensInv
  <2>4. issued[who[c]] \subseteq issued'[who[c]]
    BY <1>1, <2>2
  <2>5. \/ token'[who[c]] = token[who[c]]
        \/ token'[who[c]] \notin earlier[c]
    BY <1>1, <1>2, <1>3, <2>2, <2>3
  <2>. QED  BY <2>1, <2>3, <2>4, <2>5
<1>8. TokensDieWithAgent'
  <2>1. dead' = dead
    BY DEF IssueTo
  <2>2. ASSUME NEW t \in dead, NEW a \in Agents  PROVE token'[a] # t
    BY <1>1, <1>2, <2>2 DEF TokensInv, TokensDieWithAgent, Inspect
  <2>. QED  BY <2>1, <2>2 DEF TokensDieWithAgent, Inspect
<1>. QED  BY <1>4, <1>5, <1>6, <1>7, <1>8 DEF TokensInv

\* Revoking takes tokens away; the removal that does it has one less to do.
LEMMA RevokeTokens ==
  ASSUME TypeInv, TokensInv, NEW t \in Tokens, token' = Revoked(t),
         UNCHANGED <<pc, who, tokenHistory>>,
         \A c \in Calls : toRevoke[c] \subseteq toRevoke'[c] \cup {t}
  PROVE  TokensInv'
<1>1. \A a \in Agents : (token'[a] = token[a] /\ token[a] # t) \/ token'[a] = Nil
  BY DEF Revoked, Inspect
<1>2. ASSUME NEW c \in Calls, pc[c] \in Removing
      PROVE  /\ earlier[c] \subseteq issued[who[c]]
             /\ pc[c] = "strip" /\ token'[who[c]] \in earlier[c] =>
                  token'[who[c]] \in toRevoke'[c]
             /\ pc[c] \in {"dests", "drop", "delete"} =>
                  token'[who[c]] \notin earlier[c]
  <2>1. who[c] \in Agents /\ earlier[c] \subseteq Tokens
    BY <1>2 DEF TypeInv, TypeOK, CallersKnown, Removing
  <2>2. Nil \notin earlier[c]
    BY <2>1
  <2>. QED  BY <1>1, <1>2, <2>1, <2>2 DEF TokensInv
<1>3. TokensDieWithAgent'
  <2>1. dead' = dead /\ Nil \notin dead
    BY DEF tokenHistory, TypeInv, TypeOK
  <2>. QED  BY <1>1, <2>1 DEF TokensInv, TokensDieWithAgent, Inspect
<1>4. \A a \in Agents : token'[a] \in issued[a] \cup {Nil}
  BY <1>1 DEF TokensInv
<1>5. issued' = issued /\ dead' = dead /\ earlier' = earlier
  BY DEF tokenHistory
<1>6. Issued' = Issued
  BY <1>5 DEF Issued
<1>. QED  BY <1>2, <1>3, <1>4, <1>5, <1>6 DEF TokensInv

\* A removal lists, revokes and removes; nothing else concerns the tokens.
LEMMA RemovalTokens ==
  ASSUME TypeInv, TokensInv, NEW c \in Calls,
         \/ RemoveList(c) \/ RemoveRevoke(c) \/ RemoveListGrants(c)
         \/ RemoveListDests(c) \/ RemoveDropDests(c) \/ RemoveRow(c)
  PROVE  TokensInv'
<1>1. CASE RemoveRevoke(c)
  <2>1. PICK t \in toRevoke[c] :
          /\ token' = Revoked(t)
          /\ toRevoke' = [toRevoke EXCEPT ![c] = @ \ {t}]
    BY <1>1 DEF RemoveRevoke
  <2>2. t \in Tokens
    BY DEF TypeInv, TypeOK
  <2>3. \A d \in Calls : toRevoke[d] \subseteq toRevoke'[d] \cup {t}
    BY <2>1 DEF TypeInv, TypeOK
  <2>4. UNCHANGED <<pc, who, tokenHistory>>
    BY <1>1 DEF RemoveRevoke
  <2>. QED  BY <2>1, <2>2, <2>3, <2>4, RevokeTokens
<1>2. CASE RemoveRow(c)
  <2>1. /\ pc' = [pc EXCEPT ![c] = "idle"]
        /\ who' = [who EXCEPT ![c] = Nil]
        /\ earlier' = [earlier EXCEPT ![c] = {}]
        /\ dead' = dead \cup earlier[c]
        /\ UNCHANGED <<token, issued, toRevoke>>
        /\ pc[c] = "delete"
    BY <1>2 DEF RemoveRow, Leave, Goto, At, removal
  <2>2. /\ who[c] \in Agents
        /\ earlier[c] \subseteq issued[who[c]] /\ earlier[c] \subseteq Tokens
        /\ token[who[c]] \notin earlier[c]
    BY <2>1 DEF TypeInv, TypeOK, CallersKnown, TokensInv, Removing
  <2>3. ASSUME NEW a \in Agents  PROVE token[a] \notin earlier[c]
    <3>1. CASE a = who[c]
      BY <2>2, <3>1
    <3>2. CASE a # who[c]
      <4>1. issued[a] \cap issued[who[c]] = {}
        BY <2>2, <3>2 DEF TokensInv
      <4>2. token[a] \in issued[a] \cup {Nil}
        BY DEF TokensInv
      <4>. QED  BY <2>2, <4>1, <4>2
    <3>. QED  BY <3>1, <3>2
  <2>4. TokensDieWithAgent'
    BY <2>1, <2>3 DEF TokensInv, TokensDieWithAgent, Inspect
  <2>5. dead' \subseteq Issued'
    <3>1. Issued' = Issued /\ issued[who[c]] \subseteq Issued
      BY <2>1, <2>2 DEF Issued
    <3>. QED  BY <2>1, <2>2, <3>1 DEF TokensInv
  <2>6. \A d \in Calls : pc'[d] \in Removing =>
           /\ pc'[d] = pc[d] /\ who'[d] = who[d]
           /\ earlier'[d] = earlier[d] /\ toRevoke'[d] = toRevoke[d]
    BY <2>1 DEF TypeInv, TypeOK, Removing
  <2>. QED  BY <2>1, <2>4, <2>5, <2>6 DEF TokensInv
<1>3. ASSUME RemoveList(c) \/ RemoveListGrants(c) \/ RemoveListDests(c)
               \/ RemoveDropDests(c)
      PROVE  TokensInv'
  <2>1. UNCHANGED <<token, issued, dead, earlier, who>>
    BY <1>3 DEF RemoveList, RemoveListGrants, RemoveListDests,
         RemoveDropDests, stores, tokenHistory
  <2>2. \A d \in Calls : d # c =>
           pc'[d] = pc[d] /\ toRevoke'[d] = toRevoke[d]
    BY <1>3 DEF RemoveList, RemoveListGrants, RemoveListDests,
         RemoveDropDests, Goto, TypeInv, TypeOK
  <2>3. /\ pc[c] \in Removing
        /\ earlier[c] \subseteq Tokens
    BY <1>3 DEF RemoveList, RemoveListGrants, RemoveListDests,
         RemoveDropDests, At, Removing, TypeInv, TypeOK
  <2>4. /\ pc'[c] = "strip" /\ token[who[c]] \in earlier[c] =>
             token[who[c]] \in toRevoke'[c]
        /\ pc'[c] \in {"dests", "drop", "delete"} =>
             token[who[c]] \notin earlier[c]
    <3>1. CASE RemoveList(c)
      BY <2>3, <3>1 DEF RemoveList, Goto, TypeInv, TypeOK
    <3>2. CASE RemoveListGrants(c)
      BY <2>3, <3>2 DEF RemoveListGrants, Goto, At, TypeInv, TypeOK, TokensInv
    <3>3. CASE RemoveListDests(c)
      BY <2>3, <3>3 DEF RemoveListDests, Goto, At, TypeInv, TypeOK, TokensInv
    <3>4. CASE RemoveDropDests(c)
      BY <2>3, <3>4 DEF RemoveDropDests, Goto, At, TypeInv, TypeOK, TokensInv
    <3>. QED  BY <1>3, <3>1, <3>2, <3>3, <3>4
  <2>5. \A d \in Calls : pc'[d] \in Removing =>
          /\ earlier[d] \subseteq issued[who[d]]
          /\ pc'[d] = "strip" /\ token[who[d]] \in earlier[d] =>
               token[who[d]] \in toRevoke'[d]
          /\ pc'[d] \in {"dests", "drop", "delete"} =>
               token[who[d]] \notin earlier[d]
    BY <2>2, <2>3, <2>4 DEF TokensInv
  <2>6. Issued' = Issued
    BY <2>1 DEF Issued
  <2>. QED
    BY <2>1, <2>5, <2>6 DEF TokensInv, TokensDieWithAgent, Inspect
<1>. QED  BY <1>1, <1>2, <1>3

LEMMA StepTokens ==
  ASSUME TypeInv, TokensInv, NEW c \in Calls, Step(c)
  PROVE  TokensInv'
<1>. USE DEF Goto, At, TypeInv, TypeOK, Undisturbed, Removing, removal,
       stores, tokenHistory
<1>1. ASSUME NEW a \in Agents, BeginRegister(c, a) \/ BeginUpdate(c, a)
      PROVE  TokensInv'
  <2>1. \A d \in Calls : Undisturbed(d)
    BY <1>1 DEF BeginRegister, BeginUpdate, Enter
  <2>2. UNCHANGED <<token, issued, dead>>
    BY <1>1 DEF BeginRegister, BeginUpdate
  <2>. QED  BY <2>1, <2>2, SameTokens
<1>2. ASSUME NEW a \in Agents, BeginRemove(c, a)  PROVE TokensInv'
  <2>1. /\ pc' = [pc EXCEPT ![c] = "list"] /\ who' = [who EXCEPT ![c] = a]
        /\ earlier' = [earlier EXCEPT ![c] = issued[a]]
        /\ UNCHANGED <<token, issued, dead, toRevoke>>
    BY <1>2 DEF BeginRemove, Enter
  <2>. QED
    BY <2>1 DEF TokensInv, TokensDieWithAgent, Inspect, Issued
<1>3. CASE Insert(c) \/ UpdateKey(c) \/ UpdateRow(c) \/ RemoveGrant(c)
             \/ BeginIssueAll(c)
  <2>1. \A d \in Calls : Undisturbed(d)
    <3>1. CASE Insert(c)
      BY <3>1 DEF Insert
    <3>2. CASE UpdateKey(c)
      BY <3>2 DEF UpdateKey
    <3>3. CASE UpdateRow(c)
      BY <3>3 DEF UpdateRow, Leave
    <3>4. CASE RemoveGrant(c)
      BY <3>4 DEF RemoveGrant
    <3>5. CASE BeginIssueAll(c)
      BY <3>5 DEF BeginIssueAll
    <3>. QED  BY <1>3, <3>1, <3>2, <3>3, <3>4, <3>5
  <2>2. UNCHANGED <<token, issued, dead>>
    BY <1>3 DEF Insert, UpdateKey, UpdateRow, RemoveGrant, BeginIssueAll
  <2>. QED  BY <2>1, <2>2, SameTokens
<1>4. CASE IssueFirst(c)
  <2>1. {who[c]} \in SUBSET Agents
    BY <1>4 DEF IssueFirst, CallersKnown
  <2>2. IssueTo({who[c]})
    BY <1>4 DEF IssueFirst
  <2>3. \A d \in Calls : Undisturbed(d)
    BY <1>4 DEF IssueFirst, Leave, IssueTo
  <2>. QED  BY <2>1, <2>2, <2>3, IssueTokens
<1>5. CASE IssueAll(c)
  <2>1. toIssue[c] \in SUBSET Agents
    OBVIOUS
  <2>2. IssueTo(toIssue[c])
    BY <1>5 DEF IssueAll
  <2>3. \A d \in Calls : Undisturbed(d)
    BY <1>5 DEF IssueAll, IssueTo
  <2>. QED  BY <2>1, <2>2, <2>3, IssueTokens
<1>. QED  BY <1>1, <1>2, <1>3, <1>4, <1>5, RemovalTokens DEF Step

LEMMA NextTokens == TypeInv /\ TokensInv /\ [Next]_vars => TokensInv'
<1>. SUFFICES ASSUME TypeInv, TokensInv, [Next]_vars  PROVE TokensInv'
  OBVIOUS
<1>1. ASSUME NEW a \in Agents, IssueToken(a)  PROVE TokensInv'
  <2>1. \A d \in Calls : Undisturbed(d)
    BY <1>1 DEF IssueToken, IssueTo, Undisturbed, calls, removal
  <2>. QED  BY <1>1, <2>1, IssueTokens DEF IssueToken
<1>2. ASSUME NEW t \in Tokens, RevokeToken(t)  PROVE TokensInv'
  <2>1. /\ token' = Revoked(t) /\ UNCHANGED <<pc, who, tokenHistory>>
        /\ toRevoke' = toRevoke
    BY <1>2 DEF RevokeToken, calls, removal
  <2>. QED  BY <2>1, RevokeTokens
<1>3. CASE Grant \/ UNCHANGED vars
  <2>1. UNCHANGED <<token, issued, dead, pc, who, earlier, toRevoke>>
    BY <1>3 DEF Grant, GrantAgent, RevokeAgent, GrantDest, RevokeDest, vars,
         stores, calls, removal, tokenHistory
  <2>. QED  BY <2>1, SameTokens DEF Undisturbed
<1>4. CASE Crash
  <2>1. \A d \in Calls : Undisturbed(d)
    BY <1>4 DEF Crash, Undisturbed, Removing
  <2>2. UNCHANGED <<token, issued, dead>>
    BY <1>4 DEF Crash, stores
  <2>. QED  BY <2>1, <2>2, SameTokens
<1>. QED  BY <1>1, <1>2, <1>3, <1>4, StepTokens DEF Next

\* Once a removal has returned, no token its agent had been issued before the
\* removal began is good again: what ownerRemoveAgentIdentity revokes, with
\* the tokens that replaced one another before, is all there was.
THEOREM RemovalKillsTokens == Spec => []TokensDieWithAgent
<1>1. Init => TypeInv /\ TokensInv
  BY InitTypes, InitTokens
<1>2. TypeInv /\ TokensInv /\ [Next]_vars => TypeInv' /\ TokensInv'
  BY NextTypes, NextTokens
<1>3. TokensInv => TokensDieWithAgent
  BY DEF TokensInv
<1>. QED  BY <1>1, <1>2, <1>3, PTL DEF Spec

-----------------------------------------------------------------------------
(* A removal deletes the sites of unused secrets only.                     *)

\* What DoomedInv says of one call.
Doomed(c) ==
  /\ pc[c] = "dests" => \A g \in grants : g[2] \in granted[c] \cup given[c]
  /\ pc[c] # "drop" => toDrop[c] = {}
  /\ \A g \in toDrop[c] : \A h \in grants : h[2] = g[1] => h[2] \in given[c]

LEMMA InitDoomed == Init => DoomedInv
BY DEF Init, DoomedInv

\* A call that lists and deletes nothing in this step, while no grant is given.
LEMMA SameDoomed ==
  ASSUME NEW c \in Calls, Doomed(c), grants' \subseteq grants,
         UNCHANGED <<toDrop[c], granted[c], given[c]>>,
         \/ pc'[c] = pc[c]
         \/ pc[c] # "drop" /\ pc'[c] \notin {"dests", "drop"}
  PROVE  Doomed(c)'
BY DEF Doomed

\* Giving a grant is noted by the removals it matters to.
LEMMA GrantDoomed ==
  ASSUME TypeInv, NEW a \in Agents, NEW s \in Secrets, GrantAgent(a, s),
         NEW c \in Calls, Doomed(c)
  PROVE  Doomed(c)'
<1>1. /\ grants' = grants \cup {<<a, s>>}
      /\ given'[c] = IF pc[c] \in {"dests", "drop"} THEN given[c] \cup {s}
                                                    ELSE given[c]
      /\ UNCHANGED <<pc, granted, toDrop>>
  BY DEF GrantAgent, calls, removal
<1>2. \A h \in grants' : h \in grants \/ h[2] = s
  BY <1>1
<1>3. pc[c] = "dests" => \A h \in grants' : h[2] \in granted[c] \cup given'[c]
  BY <1>1, <1>2 DEF Doomed
<1>4. \A g \in toDrop[c] : \A h \in grants' :
        h[2] = g[1] => h[2] \in given'[c]
  <2>1. CASE pc[c] = "drop"
    BY <1>1, <1>2, <2>1 DEF Doomed
  <2>2. CASE pc[c] # "drop"
    BY <2>2 DEF Doomed
  <2>. QED  BY <2>1, <2>2
<1>. QED  BY <1>1, <1>3, <1>4 DEF Doomed

\* The steps of the removal that lists the grants, and then the sites.
LEMMA CleanupDoomed ==
  ASSUME TypeInv, NEW c \in Calls, Doomed(c),
         RemoveListGrants(c) \/ RemoveListDests(c) \/ RemoveDropDests(c)
  PROVE  Doomed(c)'
<1>1. CASE RemoveListGrants(c)
  <2>1. /\ pc'[c] = "dests" /\ toDrop'[c] = {} /\ grants' = grants
        /\ granted'[c] = UNION {SecretsOf(a) : a \in Agents}
    BY <1>1 DEF RemoveListGrants, Goto, At, stores, Doomed, TypeInv, TypeOK
  <2>2. ASSUME NEW g \in grants  PROVE g[2] \in granted'[c]
    <3>1. PICK a \in Agents, s \in Secrets : g = <<a, s>>
      BY DEF TypeInv, TypeOK
    <3>2. s \in SecretsOf(a) /\ g[2] = s
      BY <3>1 DEF SecretsOf
    <3>. QED  BY <2>1, <3>2
  <2>. QED  BY <2>1, <2>2 DEF Doomed
<1>2. CASE RemoveListDests(c)
  <2>1. /\ pc[c] = "dests" /\ pc'[c] = "drop" /\ grants' = grants
        /\ given' = given
        /\ toDrop'[c] = {g \in dests : g[1] \notin granted[c]}
    BY <1>2 DEF RemoveListDests, Goto, At, stores, TypeInv, TypeOK
  <2>. QED  BY <2>1 DEF Doomed
<1>3. CASE RemoveDropDests(c)
  <2>1. pc'[c] = "delete" /\ toDrop'[c] = {}
    BY <1>3 DEF RemoveDropDests, Goto, TypeInv, TypeOK
  <2>. QED  BY <2>1 DEF Doomed
<1>. QED  BY <1>1, <1>2, <1>3

LEMMA StepDoomed ==
  ASSUME TypeInv, DoomedInv, NEW c \in Calls, Step(c)
  PROVE  DoomedInv'
<1>. USE DEF TypeInv, TypeOK, Goto, At, stores, removal
<1>1. \A d \in Calls : Doomed(d)
  BY DEF DoomedInv, Doomed
<1>2. ASSUME NEW d \in Calls, d # c  PROVE Doomed(d)'
  <2>1. CASE RemoveListGrants(c) \/ RemoveListDests(c) \/ RemoveDropDests(c)
    <3>1. /\ grants' \subseteq grants /\ pc'[d] = pc[d]
          /\ UNCHANGED <<toDrop[d], granted[d], given[d]>>
      BY <1>2, <2>1 DEF RemoveListGrants, RemoveListDests, RemoveDropDests
    <3>. QED  BY <1>1, <3>1, SameDoomed
  <2>2. CASE \E a \in Agents : \/ BeginRegister(c, a) \/ BeginUpdate(c, a)
                              \/ BeginRemove(c, a)
    <3>1. /\ grants' \subseteq grants /\ pc'[d] = pc[d]
          /\ UNCHANGED <<toDrop[d], granted[d], given[d]>>
      BY <1>2, <2>2 DEF BeginRegister, BeginUpdate, BeginRemove, Enter
    <3>. QED  BY <1>1, <3>1, SameDoomed
  <2>3. CASE Insert(c) \/ UpdateKey(c) \/ RemoveList(c) \/ RemoveRevoke(c)
                \/ RemoveGrant(c) \/ BeginIssueAll(c)
    <3>1. /\ grants' \subseteq grants /\ pc'[d] = pc[d]
          /\ UNCHANGED <<toDrop[d], granted[d], given[d]>>
      BY <1>2, <2>3 DEF Insert, UpdateKey, RemoveList, RemoveRevoke,
           RemoveGrant, BeginIssueAll
    <3>. QED  BY <1>1, <3>1, SameDoomed
  <2>4. CASE IssueFirst(c) \/ UpdateRow(c) \/ RemoveRow(c) \/ IssueAll(c)
    <3>1. /\ grants' \subseteq grants /\ pc'[d] = pc[d]
          /\ UNCHANGED <<toDrop[d], granted[d], given[d]>>
      BY <1>2, <2>4 DEF IssueFirst, UpdateRow, RemoveRow, IssueAll, IssueTo,
           Leave
    <3>. QED  BY <1>1, <3>1, SameDoomed
  <2>. QED  BY <2>1, <2>2, <2>3, <2>4 DEF Step
<1>3. Doomed(c)'
  <2>1. CASE RemoveListGrants(c) \/ RemoveListDests(c) \/ RemoveDropDests(c)
    BY <1>1, <2>1, CleanupDoomed
  <2>2. CASE \E a \in Agents : \/ BeginRegister(c, a) \/ BeginUpdate(c, a)
                              \/ BeginRemove(c, a)
    <3>1. /\ grants' \subseteq grants
          /\ UNCHANGED <<toDrop[c], granted[c], given[c]>>
          /\ pc[c] # "drop" /\ pc'[c] \notin {"dests", "drop"}
      BY <2>2 DEF BeginRegister, BeginUpdate, BeginRemove, Enter
    <3>. QED  BY <1>1, <3>1, SameDoomed
  <2>3. CASE Insert(c) \/ UpdateKey(c) \/ RemoveList(c) \/ RemoveRevoke(c)
                \/ RemoveGrant(c) \/ BeginIssueAll(c)
    <3>1. /\ grants' \subseteq grants
          /\ UNCHANGED <<toDrop[c], granted[c], given[c]>>
          /\ pc[c] # "drop" /\ pc'[c] \notin {"dests", "drop"}
      BY <2>3 DEF Insert, UpdateKey, RemoveList, RemoveRevoke, RemoveGrant,
           BeginIssueAll
    <3>. QED  BY <1>1, <3>1, SameDoomed
  <2>4. CASE IssueFirst(c) \/ UpdateRow(c) \/ RemoveRow(c) \/ IssueAll(c)
    <3>1. /\ grants' \subseteq grants
          /\ UNCHANGED <<toDrop[c], granted[c], given[c]>>
          /\ pc[c] # "drop" /\ pc'[c] \notin {"dests", "drop"}
      BY <2>4 DEF IssueFirst, UpdateRow, RemoveRow, IssueAll, IssueTo, Leave
    <3>. QED  BY <1>1, <3>1, SameDoomed
  <2>. QED  BY <2>1, <2>2, <2>3, <2>4 DEF Step
<1>. QED  BY <1>2, <1>3 DEF DoomedInv, Doomed

LEMMA NextDoomed == TypeInv /\ DoomedInv /\ [Next]_vars => DoomedInv'
<1>. SUFFICES ASSUME TypeInv, DoomedInv, [Next]_vars  PROVE DoomedInv'
  OBVIOUS
<1>1. \A d \in Calls : Doomed(d)
  BY DEF DoomedInv, Doomed
<1>2. ASSUME NEW a \in Agents, NEW s \in Secrets, GrantAgent(a, s)
      PROVE  DoomedInv'
  <2>1. \A d \in Calls : Doomed(d)'
    BY <1>1, <1>2, GrantDoomed
  <2>. QED  BY <2>1 DEF DoomedInv, Doomed
<1>3. ASSUME grants' \subseteq grants, UNCHANGED <<pc, toDrop, granted, given>>
      PROVE  DoomedInv'
  <2>1. \A d \in Calls : Doomed(d)'
    BY <1>1, <1>3, SameDoomed
  <2>. QED  BY <2>1 DEF DoomedInv, Doomed
<1>4. CASE \/ \E a \in Agents : IssueToken(a)
           \/ \E t \in Tokens : RevokeToken(t)
           \/ UNCHANGED vars
  BY <1>3, <1>4 DEF IssueToken, IssueTo, RevokeToken, vars, stores, calls,
       removal
<1>5. CASE \E s \in Secrets :
             \/ \E a \in Agents : RevokeAgent(a, s)
             \/ \E w \in Sites : GrantDest(s, w) \/ RevokeDest(s, w)
  BY <1>3, <1>5 DEF RevokeAgent, GrantDest, RevokeDest, calls, removal
<1>6. CASE Crash
  BY <1>6 DEF Crash, DoomedInv
<1>. QED  BY <1>2, <1>4, <1>5, <1>6, StepDoomed DEF Next, Grant

\* The destination grants a removal is about to delete belong to secrets no
\* agent has a grant for, unless one was given since the removal listed the
\* grants: the orphan cleanup of ownerRemoveAgentIdentity, whatever other
\* removals, grants and revocations come between its reads and its deletes.
THEOREM CleanupSparesUsedSites == Spec => []DoomedSitesAreUnused
<1>1. Init => TypeInv /\ DoomedInv
  BY InitTypes, InitDoomed
<1>2. TypeInv /\ DoomedInv /\ [Next]_vars => TypeInv' /\ DoomedInv'
  BY NextTypes, NextDoomed
<1>3. DoomedInv => DoomedSitesAreUnused
  BY DEF DoomedInv, DoomedSitesAreUnused
<1>. QED  BY <1>1, <1>2, <1>3, PTL DEF Spec

-----------------------------------------------------------------------------
(* A settled agent is whole.                                               *)

\* What WholeInv says of one agent that is not tainted.
WholeAt(a) ==
  /\ \A c, d \in Writers(a) : c = d
  /\ Writers(a) = {} => Whole(a)
  /\ \A c \in Writers(a) : Stands(c, a)

LEMMA WholeInvIs == WholeInv <=> \A a \in Agents : a \in tainted \/ WholeAt(a)
BY DEF WholeInv, WholeAt

LEMMA InitWhole == Init => WholeInv
BY DEF Init, WholeInv, Writers, Writing, Removing, Whole, HasNothing, SecretsOf

\* A call writes a after the step just if it did before, and stands where it
\* did; what it has still to revoke and to delete of a is still listed.
Keeps(d, a) ==
  /\ d \in Writers(a)' <=> d \in Writers(a)
  /\ d \in Writers(a) =>
       /\ pc'[d] = pc[d] /\ hadKey'[d] = hadKey[d]
       /\ token'[a] \in toRevoke[d] => token'[a] \in toRevoke'[d]
       /\ SecretsOf(a)' \cap toDelete[d] \subseteq toDelete'[d]

\* Steps that leave the rows and the writers of a alone, and take from it at
\* most tokens and grants.
LEMMA KeepWhole ==
  ASSUME NEW a \in Agents, WholeAt(a),
         a \in rows' <=> a \in rows, a \in keys' <=> a \in keys,
         token'[a] \in {token[a], Nil}, SecretsOf(a)' \subseteq SecretsOf(a),
         \A d \in Calls : Keeps(d, a)
  PROVE  WholeAt(a)'
<1>1. Writers(a)' = Writers(a)
  <2>1. Writers(a) \subseteq Calls /\ Writers(a)' \subseteq Calls
    BY DEF Writers
  <2>. QED  BY <2>1 DEF Keeps
<1>2. Whole(a) => Whole(a)'
  BY DEF Whole, HasNothing
<1>3. ASSUME NEW d \in Writers(a), Stands(d, a)  PROVE Stands(d, a)'
  <2>1. d \in Calls
    BY DEF Writers
  <2>2. /\ pc'[d] = pc[d] /\ hadKey'[d] = hadKey[d]
        /\ token'[a] \in toRevoke[d] => token'[a] \in toRevoke'[d]
        /\ SecretsOf(a)' \cap toDelete[d] \subseteq toDelete'[d]
    BY <2>1 DEF Keeps
  <2>3. HasNothing(a) => HasNothing(a)'
    BY DEF HasNothing
  <2>. QED  BY <1>3, <2>2, <2>3 DEF Stands
<1>. QED  BY <1>1, <1>2, <1>3 DEF WholeAt

\* A step of call c leaves the other writers of every agent alone.
LEMMA OthersKeep ==
  ASSUME TypeInv, NEW c \in Calls, NEW d \in Calls, d # c, NEW a \in Agents,
         UNCHANGED <<who[d], pc[d], hadKey[d], toRevoke[d], toDelete[d]>>
  PROVE  Keeps(d, a)
BY DEF Keeps, Writers

\* A call that writes an agent nobody taints is its only writer.
LEMMA OnlyWriter ==
  ASSUME NEW c \in Calls, NEW a \in Agents, who[c] = a, pc[c] \in Writing,
         WholeAt(a)
  PROVE  Writers(a) = {c} /\ Stands(c, a)
<1>1. c \in Writers(a)
  BY DEF Writers
<1>. QED  BY <1>1 DEF WholeAt

\* A call that begins taints an agent that is being written, and else stands
\* at the start of what it will do.
LEMMA BeginWhole ==
  ASSUME TypeInv, WholeInv, NEW c \in Calls, NEW a \in Agents,
         BeginRegister(c, a) \/ BeginUpdate(c, a) \/ BeginRemove(c, a)
  PROVE  WholeInv'
<1>. USE DEF TypeInv, TypeOK
<1>1. /\ pc[c] = "idle" /\ pc'[c] \in {"insert", "update", "list"}
      /\ who'[c] = a
      /\ tainted' = IF Writers(a) = {} THEN tainted ELSE tainted \cup {a}
      /\ \A d \in Calls : d # c =>
           UNCHANGED <<who[d], pc[d], hadKey[d], toRevoke[d], toDelete[d]>>
      /\ rows' = rows /\ token' = token /\ grants' = grants
      /\ \A b \in Agents : b # a => (b \in keys' <=> b \in keys)
  BY DEF BeginRegister, BeginUpdate, BeginRemove, Enter, Goto, At, removal,
       stores
<1>2. ASSUME NEW b \in Agents, b \notin tainted', b # a  PROVE WholeAt(b)'
  <2>1. WholeAt(b)
    BY <1>1, <1>2, WholeInvIs
  <2>2. Keeps(c, b)
    BY <1>1, <1>2 DEF Keeps, Writers, Writing, Removing
  <2>3. \A d \in Calls : Keeps(d, b)
    BY <1>1, <2>2, OthersKeep
  <2>4. SecretsOf(b)' = SecretsOf(b)
    BY <1>1 DEF SecretsOf
  <2>. QED  BY <1>1, <1>2, <2>1, <2>3, <2>4, KeepWhole
<1>3. ASSUME a \notin tainted'  PROVE WholeAt(a)'
  <2>1. Writers(a) = {} /\ WholeAt(a) /\ Whole(a)
    BY <1>1, <1>3, WholeInvIs DEF WholeAt
  <2>2. Writers(a)' = {c}
    BY <1>1, <2>1 DEF Writers, Writing, Removing
  <2>3. HasNothing(a)' <=> HasNothing(a)
    BY <1>1 DEF HasNothing, SecretsOf
  <2>4. Stands(c, a)'
    <3>1. CASE BeginRegister(c, a)
      <4>1. pc'[c] = "insert" /\ a \in keys'
        BY <3>1 DEF BeginRegister, Enter, Goto
      <4>. QED  BY <1>1, <2>1, <2>3, <4>1 DEF Stands, Whole
    <3>2. CASE BeginUpdate(c, a)
      <4>1. /\ pc'[c] = "update" /\ a \in rows /\ keys' = keys
            /\ hadKey'[c] <=> a \in keys
        BY <3>2 DEF BeginUpdate, Enter, Goto, stores
      <4>. QED  BY <1>1, <2>1, <4>1 DEF Stands, Whole
    <3>3. CASE BeginRemove(c, a)
      <4>1. pc'[c] = "list" /\ a \in rows /\ keys' = keys
        BY <3>3 DEF BeginRemove, Enter, Goto, stores
      <4>. QED  BY <1>1, <2>1, <4>1 DEF Stands, Whole
    <3>. QED  BY <3>1, <3>2, <3>3
  <2>. QED  BY <2>2, <2>4 DEF WholeAt
<1>. QED  BY <1>2, <1>3, WholeInvIs DEF WholeAt, WholeInv

\* The steps of a call that writes its own agent and no other.
LEMMA OwnStepWhole ==
  ASSUME TypeInv, WholeInv, NEW c \in Calls,
         NEW a \in Agents, who[c] = a, pc[c] \in Writing, tainted' = tainted,
         who'[c] = a \/ pc'[c] = "idle",
         \A d \in Calls : d # c =>
           UNCHANGED <<who[d], pc[d], hadKey[d], toRevoke[d], toDelete[d]>>,
         \A b \in Agents : b # a =>
           /\ b \in rows' <=> b \in rows
           /\ b \in keys' <=> b \in keys
           /\ token'[b] \in {token[b], Nil}
           /\ SecretsOf(b)' \subseteq SecretsOf(b),
         WholeAt(a) => WholeAt(a)'
  PROVE  WholeInv'
<1>1. ASSUME NEW b \in Agents, b \notin tainted, b # a  PROVE WholeAt(b)'
  <2>1. Keeps(c, b)
    BY <1>1 DEF Keeps, Writers, Writing, Removing
  <2>2. \A d \in Calls : Keeps(d, b)
    BY <2>1, OthersKeep
  <2>. QED  BY <1>1, <2>2, KeepWhole, WholeInvIs
<1>2. ASSUME a \notin tainted  PROVE WholeAt(a)'
  BY <1>2, WholeInvIs
<1>3. \A b \in Agents : b \in tainted' \/ WholeAt(b)'
  BY <1>1, <1>2
<1>. QED  BY <1>3 DEF WholeAt, WholeInv

\* Registering and updating: the key is written before the row.
LEMMA WriteWhole ==
  ASSUME TypeInv, WholeInv, NEW c \in Calls,
         Insert(c) \/ UpdateKey(c) \/ UpdateRow(c)
  PROVE  WholeInv'
<1>. USE DEF TypeInv, TypeOK, Goto, At
<1>1. PICK a \in Agents : who[c] = a
  BY DEF Insert, UpdateKey, UpdateRow, CallersKnown
<1>2. /\ pc[c] \in Writing /\ tainted' = tainted
      /\ who'[c] = a \/ pc'[c] = "idle"
      /\ token' = token /\ grants' = grants
      /\ \A d \in Calls : d # c =>
           UNCHANGED <<who[d], pc[d], hadKey[d], toRevoke[d], toDelete[d]>>
      /\ \A b \in Agents : b # a =>
           (b \in rows' <=> b \in rows) /\ (b \in keys' <=> b \in keys)
  BY <1>1 DEF Insert, UpdateKey, UpdateRow, Leave, Writing, removal
<1>3. \A b \in Agents : SecretsOf(b)' = SecretsOf(b)
  BY <1>2 DEF SecretsOf
<1>4. ASSUME WholeAt(a)  PROVE WholeAt(a)'
  <2>1. Writers(a) = {c} /\ Stands(c, a)
    BY <1>1, <1>2, <1>4, OnlyWriter
  <2>2. CASE Insert(c)
    <3>1. Writers(a)' = {}
      BY <1>1, <2>1, <2>2 DEF Insert, Writers, Writing, Removing
    <3>2. Whole(a)'
      BY <1>1, <2>1, <2>2 DEF Insert, Stands, Whole
    <3>. QED  BY <3>1, <3>2 DEF WholeAt
  <2>3. CASE UpdateKey(c)
    <3>1. Writers(a)' = {c}
      BY <1>1, <2>1, <2>3 DEF UpdateKey, Writers, Writing, Removing
    <3>2. pc'[c] = "reinsert" /\ a \in rows' /\ a \in keys'
      BY <1>1, <2>1, <2>3 DEF UpdateKey, Stands
    <3>3. Stands(c, a)'
      BY <3>2 DEF Stands
    <3>. QED  BY <3>1, <3>3 DEF WholeAt
  <2>4. CASE UpdateRow(c)
    <3>1. Writers(a)' = {}
      BY <1>1, <2>1, <2>4 DEF UpdateRow, Leave, Writers, Writing, Removing
    <3>2. a \in rows' /\ a \in keys'
      BY <1>1, <2>1, <2>4 DEF UpdateRow, Stands
    <3>. QED  BY <3>1, <3>2 DEF WholeAt, Whole
  <2>. QED  BY <2>2, <2>3, <2>4 DEF Insert, UpdateKey, UpdateRow
<1>. QED  BY <1>1, <1>2, <1>3, <1>4, OwnStepWhole

\* Listing, revoking and ungranting leave the agent with nothing.
LEMMA StripWhole ==
  ASSUME TypeInv, WholeInv, NEW c \in Calls,
         RemoveList(c) \/ RemoveRevoke(c) \/ RemoveGrant(c)
  PROVE  WholeInv'
<1>. USE DEF TypeInv, TypeOK, Goto, At
<1>1. PICK a \in Agents : who[c] = a
  BY DEF RemoveList, RemoveRevoke, RemoveGrant, CallersKnown
<1>2. /\ pc[c] \in Writing /\ tainted' = tainted /\ who' = who
      /\ rows' = rows /\ keys' = keys
      /\ \A d \in Calls : d # c =>
           UNCHANGED <<who[d], pc[d], hadKey[d], toRevoke[d], toDelete[d]>>
      /\ \A b \in Agents : token'[b] \in {token[b], Nil}
      /\ grants' \subseteq grants
  BY <1>1 DEF RemoveList, RemoveRevoke, RemoveGrant, Revoked, Writing,
       Removing, stores
<1>3. \A b \in Agents : SecretsOf(b)' \subseteq SecretsOf(b)
  BY <1>2 DEF SecretsOf
<1>4. ASSUME WholeAt(a)  PROVE WholeAt(a)'
  <2>1. Writers(a) = {c} /\ Stands(c, a)
    BY <1>1, <1>2, <1>4, OnlyWriter
  <2>2. Writers(a)' = {c} /\ pc'[c] = "strip"
    <3>1. pc[c] \in {"list", "strip"} /\ pc' = [pc EXCEPT ![c] = "strip"]
      BY DEF RemoveList, RemoveRevoke, RemoveGrant
    <3>. QED  BY <1>1, <1>2, <2>1, <3>1 DEF Writers, Writing, Removing
  <2>3. /\ a \in rows' /\ a \in keys'
    <3>1. pc[c] \in {"list", "strip"}
      BY DEF RemoveList, RemoveRevoke, RemoveGrant
    <3>. QED  BY <1>2, <2>1, <3>1 DEF Stands
  <2>4. /\ token'[a] \in toRevoke'[c] \cup {Nil}
        /\ SecretsOf(a)' \subseteq toDelete'[c]
    <3>1. CASE RemoveList(c)
      BY <1>1, <3>1 DEF RemoveList, stores, SecretsOf
    <3>2. CASE RemoveRevoke(c)
      <4>1. PICK t \in toRevoke[c] :
              /\ token' = Revoked(t)
              /\ toRevoke' = [toRevoke EXCEPT ![c] = @ \ {t}]
        BY <3>2 DEF RemoveRevoke
      <4>2. toDelete' = toDelete /\ pc[c] = "strip"
        BY <3>2 DEF RemoveRevoke
      <4>3. token[a] \in toRevoke[c] \cup {Nil} /\ SecretsOf(a) \subseteq toDelete[c]
        BY <2>1, <4>2 DEF Stands
      <4>4. token'[a] \in toRevoke'[c] \cup {Nil}
        BY <4>1, <4>3 DEF Revoked, Inspect
      <4>. QED  BY <1>3, <4>2, <4>3, <4>4
    <3>3. CASE RemoveGrant(c)
      <4>1. PICK s \in toDelete[c] :
              /\ grants' = grants \ {<<a, s>>}
              /\ toDelete' = [toDelete EXCEPT ![c] = @ \ {s}]
        BY <1>1, <3>3 DEF RemoveGrant
      <4>2. toRevoke' = toRevoke /\ token' = token /\ pc[c] = "strip"
        BY <3>3 DEF RemoveGrant
      <4>3. token[a] \in toRevoke[c] \cup {Nil} /\ SecretsOf(a) \subseteq toDelete[c]
        BY <2>1, <4>2 DEF Stands
      <4>4. SecretsOf(a)' \subseteq toDelete'[c]
        BY <4>1, <4>3 DEF SecretsOf
      <4>. QED  BY <4>2, <4>3, <4>4
    <3>. QED  BY <3>1, <3>2, <3>3
  <2>5. Stands(c, a)'
    BY <2>2, <2>3, <2>4 DEF Stands
  <2>. QED  BY <2>2, <2>5 DEF WholeAt
<1>. QED  BY <1>1, <1>2, <1>3, <1>4, OwnStepWhole

\* From the orphan cleanup on the agent has nothing; its row and its key go
\* at once.
LEMMA RemoveWhole ==
  ASSUME TypeInv, WholeInv, NEW c \in Calls,
         \/ RemoveListGrants(c) \/ RemoveListDests(c) \/ RemoveDropDests(c)
         \/ RemoveRow(c)
  PROVE  WholeInv'
<1>. USE DEF TypeInv, TypeOK, Goto, At
<1>1. PICK a \in Agents : who[c] = a
  BY DEF RemoveListGrants, RemoveListDests, RemoveDropDests, RemoveRow,
       CallersKnown
<1>2. /\ pc[c] \in Removing /\ tainted' = tainted
      /\ who'[c] = a \/ pc'[c] = "idle"
      /\ token' = token /\ grants' = grants
      /\ \A d \in Calls : d # c =>
           UNCHANGED <<who[d], pc[d], hadKey[d], toRevoke[d], toDelete[d]>>
      /\ \A b \in Agents : b # a =>
           (b \in rows' <=> b \in rows) /\ (b \in keys' <=> b \in keys)
  BY <1>1 DEF RemoveListGrants, RemoveListDests, RemoveDropDests, RemoveRow,
       Leave, Removing, stores, removal
<1>3. \A b \in Agents : SecretsOf(b)' = SecretsOf(b)
  BY <1>2 DEF SecretsOf
<1>4. ASSUME WholeAt(a)  PROVE WholeAt(a)'
  <2>1. Writers(a) = {c} /\ Stands(c, a)
    BY <1>1, <1>2, <1>4, OnlyWriter DEF Writing
  <2>2. CASE RemoveListGrants(c) \/ RemoveListDests(c) \/ RemoveDropDests(c)
    <3>1. /\ pc[c] \in {"strip", "dests", "drop"}
          /\ pc'[c] \in {"dests", "drop", "delete"}
          /\ rows' = rows /\ keys' = keys /\ who' = who
      BY <2>2 DEF RemoveListGrants, RemoveListDests, RemoveDropDests, stores
    <3>2. HasNothing(a)
      <4>1. CASE RemoveListGrants(c)
        BY <2>1, <4>1 DEF RemoveListGrants, Stands, HasNothing
      <4>2. CASE RemoveListDests(c) \/ RemoveDropDests(c)
        BY <2>1, <4>2 DEF RemoveListDests, RemoveDropDests, Stands
      <4>. QED  BY <2>2, <4>1, <4>2
    <3>3. Writers(a)' = {c}
      BY <1>1, <1>2, <2>1, <3>1 DEF Writers, Writing, Removing
    <3>4. Stands(c, a)'
      BY <1>2, <1>3, <2>1, <3>1, <3>2 DEF Stands, HasNothing
    <3>. QED  BY <3>3, <3>4 DEF WholeAt
  <2>3. CASE RemoveRow(c)
    <3>1. HasNothing(a) /\ a \notin rows' /\ a \notin keys'
      BY <1>1, <2>1, <2>3 DEF RemoveRow, Stands
    <3>2. Writers(a)' = {}
      BY <1>1, <2>1, <2>3 DEF RemoveRow, Leave, Writers, Writing, Removing
    <3>3. Whole(a)'
      BY <1>2, <1>3, <3>1 DEF Whole, HasNothing
    <3>. QED  BY <3>2, <3>3 DEF WholeAt
  <2>. QED  BY <2>2, <2>3
<1>. QED  BY <1>1, <1>2, <1>3, <1>4, OwnStepWhole DEF Writing

\* What an agent is given taints it, unless it is registered and no removal
\* is about to take it away.
LEMMA GiveWhole ==
  ASSUME TypeInv, WholeInv, NEW A \in SUBSET Agents, Give(A),
         UNCHANGED <<rows, keys, toRevoke, toDelete>>,
         \A b \in Agents \ A : token'[b] = token[b] /\ SecretsOf(b)' = SecretsOf(b),
         \A d \in Calls :
           \/ UNCHANGED <<who[d], pc[d], hadKey[d]>>
           \/ pc[d] \notin Writing /\ pc'[d] \notin Writing
  PROVE  WholeInv'
<1>1. \A b \in Agents : Writers(b)' = Writers(b) /\ Removers(b)' = Removers(b)
  BY DEF Writers, Removers, Writing
<1>2. ASSUME NEW b \in Agents, b \notin tainted', b \notin A  PROVE WholeAt(b)'
  <2>1. WholeAt(b)
    BY <1>2, WholeInvIs DEF Give
  <2>2. \A d \in Calls : Keeps(d, b)
    BY <1>1 DEF Keeps, Writers
  <2>. QED  BY <1>2, <2>1, <2>2, KeepWhole
<1>3. ASSUME NEW b \in A, b \notin tainted'  PROVE WholeAt(b)'
  <2>1. /\ b \in rows /\ Removers(b) = {}
        /\ WholeAt(b)
    BY <1>3, WholeInvIs DEF Give
  <2>2. Whole(b) => Whole(b)'
    BY <2>1 DEF Whole
  <2>3. ASSUME NEW d \in Writers(b)  PROVE Stands(d, b)'
    <3>1. d \in Calls /\ UNCHANGED <<pc[d], hadKey[d]>> /\ pc[d] \notin Removing
      BY <2>1, <2>3 DEF Writers, Removers
    <3>2. Stands(d, b)
      BY <2>1, <2>3 DEF WholeAt
    <3>3. pc[d] \in {"insert", "update", "reinsert"}
      BY <2>3, <3>1 DEF Writers, Writing
    <3>. QED  BY <2>1, <3>1, <3>2, <3>3 DEF Stands
  <2>. QED  BY <1>1, <2>1, <2>2, <2>3 DEF WholeAt
<1>4. \A b \in Agents : b \in tainted' \/ WholeAt(b)'
  BY <1>2, <1>3
<1>. QED  BY <1>4 DEF WholeInv, WholeAt

LEMMA StepWhole ==
  ASSUME TypeInv, WholeInv, NEW c \in Calls, Step(c)
  PROVE  WholeInv'
<1>. USE DEF TypeInv, TypeOK, Goto, At, removal
<1>1. CASE IssueFirst(c)
  <2>1. who[c] \in Agents
    BY <1>1 DEF IssueFirst, CallersKnown
  <2>2. /\ Give({who[c]}) /\ UNCHANGED <<rows, keys, toRevoke, toDelete>>
        /\ \A b \in Agents \ {who[c]} :
             token'[b] = token[b] /\ SecretsOf(b)' = SecretsOf(b)
    BY <1>1 DEF IssueFirst, IssueTo, SecretsOf
  <2>3. \A d \in Calls : \/ UNCHANGED <<who[d], pc[d], hadKey[d]>>
                         \/ pc[d] \notin Writing /\ pc'[d] \notin Writing
    <3>1. \A d \in Calls : d # c => UNCHANGED <<who[d], pc[d], hadKey[d]>>
      BY <1>1 DEF IssueFirst, Leave
    <3>2. pc[c] \in {"idle", "issue", "issueAll"} /\ pc'[c] \in {"idle", "issueAll"}
      BY <1>1 DEF IssueFirst, Leave
    <3>. QED  BY <3>1, <3>2 DEF Writing, Removing
  <2>. QED  BY <2>1, <2>2, <2>3, GiveWhole
<1>2. CASE IssueAll(c)
  <2>1. toIssue[c] \in SUBSET Agents
    OBVIOUS
  <2>2. /\ Give(toIssue[c]) /\ UNCHANGED <<rows, keys, toRevoke, toDelete>>
        /\ \A b \in Agents \ toIssue[c] :
             token'[b] = token[b] /\ SecretsOf(b)' = SecretsOf(b)
    BY <1>2 DEF IssueAll, IssueTo, SecretsOf
  <2>3. \A d \in Calls : \/ UNCHANGED <<who[d], pc[d], hadKey[d]>>
                         \/ pc[d] \notin Writing /\ pc'[d] \notin Writing
    <3>1. \A d \in Calls : d # c => UNCHANGED <<who[d], pc[d], hadKey[d]>>
      BY <1>2 DEF IssueAll
    <3>2. pc[c] \in {"idle", "issue", "issueAll"} /\ pc'[c] \in {"idle", "issueAll"}
      BY <1>2 DEF IssueAll
    <3>. QED  BY <3>1, <3>2 DEF Writing, Removing
  <2>. QED  BY <2>1, <2>2, <2>3, GiveWhole
<1>3. CASE BeginIssueAll(c)
  <2>1. \A d \in Calls : \/ UNCHANGED <<who[d], pc[d], hadKey[d]>>
                         \/ pc[d] \notin Writing /\ pc'[d] \notin Writing
    <3>1. \A d \in Calls : d # c => UNCHANGED <<who[d], pc[d], hadKey[d]>>
      BY <1>3 DEF BeginIssueAll
    <3>2. pc[c] \in {"idle", "issue", "issueAll"} /\ pc'[c] \in {"idle", "issueAll"}
      BY <1>3 DEF BeginIssueAll
    <3>. QED  BY <3>1, <3>2 DEF Writing, Removing
  <2>2. Give({})
    BY <1>3 DEF BeginIssueAll, Give
  <2>3. /\ UNCHANGED <<rows, keys, toRevoke, toDelete>>
        /\ \A b \in Agents : token'[b] = token[b] /\ SecretsOf(b)' = SecretsOf(b)
    BY <1>3 DEF BeginIssueAll, stores, SecretsOf
  <2>. QED  BY <2>1, <2>2, <2>3, GiveWhole
<1>. QED
  BY <1>1, <1>2, <1>3, BeginWhole, WriteWhole, StripWhole, RemoveWhole
     DEF Step

\* Steps of no call that take away at most tokens and grants.
LEMMA LoseWhole ==
  ASSUME WholeInv, UNCHANGED <<rows, keys, calls, tainted>>,
         \A b \in Agents : token'[b] \in {token[b], Nil},
         grants' \subseteq grants
  PROVE  WholeInv'
<1>1. ASSUME NEW b \in Agents, b \notin tainted  PROVE WholeAt(b)'
  <2>1. \A d \in Calls : Keeps(d, b)
    BY DEF Keeps, Writers, calls, removal
  <2>2. SecretsOf(b)' \subseteq SecretsOf(b)
    BY DEF SecretsOf
  <2>. QED  BY <1>1, <2>1, <2>2, KeepWhole, WholeInvIs
<1>. QED  BY <1>1 DEF WholeInv, WholeAt

LEMMA NextWhole == TypeInv /\ WholeInv /\ [Next]_vars => WholeInv'
<1>. SUFFICES ASSUME TypeInv, WholeInv, [Next]_vars  PROVE WholeInv'
  OBVIOUS
<1>1. ASSUME NEW a \in Agents, IssueToken(a)  PROVE WholeInv'
  <2>1. /\ Give({a}) /\ UNCHANGED <<rows, keys, toRevoke, toDelete>>
        /\ \A b \in Agents \ {a} :
             token'[b] = token[b] /\ SecretsOf(b)' = SecretsOf(b)
        /\ \A d \in Calls : UNCHANGED <<who[d], pc[d], hadKey[d]>>
    BY <1>1 DEF IssueToken, IssueTo, SecretsOf, calls, removal, TypeInv, TypeOK
  <2>. QED  BY <2>1, GiveWhole
<1>2. ASSUME NEW a \in Agents, NEW s \in Secrets, GrantAgent(a, s)
      PROVE  WholeInv'
  <2>1. /\ Give({a}) /\ UNCHANGED <<rows, keys, toRevoke, toDelete>>
        /\ \A b \in Agents \ {a} :
             token'[b] = token[b] /\ SecretsOf(b)' = SecretsOf(b)
        /\ \A d \in Calls : UNCHANGED <<who[d], pc[d], hadKey[d]>>
    BY <1>2 DEF GrantAgent, SecretsOf, calls, removal
  <2>. QED  BY <2>1, GiveWhole
<1>3. ASSUME NEW t \in Tokens, RevokeToken(t)  PROVE WholeInv'
  <2>1. \A b \in Agents : token'[b] \in {token[b], Nil}
    BY <1>3 DEF RevokeToken, Revoked
  <2>. QED  BY <1>3, <2>1, LoseWhole DEF RevokeToken
<1>4. ASSUME NEW s \in Secrets,
             \/ \E a \in Agents : RevokeAgent(a, s)
             \/ \E w \in Sites : GrantDest(s, w) \/ RevokeDest(s, w)
      PROVE  WholeInv'
  <2>1. UNCHANGED <<rows, keys, calls, tainted, token>> /\ grants' \subseteq grants
    BY <1>4 DEF RevokeAgent, GrantDest, RevokeDest
  <2>. QED  BY <2>1, LoseWhole
<1>5. CASE Crash
  <2>1. /\ UNCHANGED <<rows, keys, token, grants>>
        /\ tainted' = tainted \cup {a \in Agents : Writers(a) # {}}
        /\ \A c \in Calls : pc'[c] = "idle"
    BY <1>5 DEF Crash, stores
  <2>2. ASSUME NEW a \in Agents, a \notin tainted'  PROVE WholeAt(a)'
    <3>1. Writers(a) = {} /\ Writers(a)' = {}
      BY <2>1, <2>2 DEF Writers, Writing, Removing
    <3>2. Whole(a)
      BY <2>1, <2>2, <3>1 DEF WholeInv
    <3>3. Whole(a)'
      BY <2>1, <3>2 DEF Whole, HasNothing, SecretsOf
    <3>. QED  BY <3>1, <3>3 DEF WholeAt
  <2>. QED  BY <2>2 DEF WholeInv, WholeAt
<1>6. CASE UNCHANGED vars
  BY <1>6 DEF vars, stores, calls, removal, WholeInv, Writers, Whole,
       HasNothing, SecretsOf, Stands
<1>. QED  BY <1>1, <1>2, <1>3, <1>4, <1>5, <1>6, StepWhole DEF Next, Grant

\* An agent that calls have written one at a time and to their end, and that
\* was given tokens and grants only while it was registered, has its row and
\* its key, or neither of them and nothing else: what the separate awaits of
\* registration, update and removal come to.
THEOREM SettledAgentsAreWhole == Spec => []SettledAgentIsWhole
<1>1. Init => TypeInv /\ WholeInv
  BY InitTypes, InitWhole
<1>2. TypeInv /\ WholeInv /\ [Next]_vars => TypeInv' /\ WholeInv'
  BY NextTypes, NextWhole
<1>3. WholeInv => SettledAgentIsWhole
  BY DEF WholeInv, SettledAgentIsWhole
<1>. QED  BY <1>1, <1>2, <1>3, PTL DEF Spec
=============================================================================
