----------------------------- MODULE OwnerAdmin -----------------------------
(***************************************************************************)
(* The owner operations that change what a dispatch may do: grants and     *)
(* their revocation, the site registry, the removal of a secret.           *)
(*                                                                         *)
(* Grants and revocations enter through the owner client, which turns an   *)
(* alias and a domain into ids with list calls of its own before it calls  *)
(* the core; sites and removals are core operations.  The audit entry each *)
(* ends with names no request and no property speaks of it: it is left out *)
(* together with the return that follows it.                               *)
(***************************************************************************)
EXTENDS OwnerApproval

AdminPCs ==
  {"grantAgent", "revokeAgent",
   "grantDestSite", "grantDest", "revokeDestSite", "revokeDest",
   "saveSite", "dropDest", "listDest", "listOrphans", "dropOrphans",
   "dropSite",
   "listGrants", "dropListed",
   "destroyMaterial"}

OwnerPCs == {"idle"} \cup ApprovalPCs \cup AdminPCs

\* An operation starts by noting its target.
Begin(p, op, first, target) ==
  /\ op \in OwnerOps
  /\ OwnerStep(p, "idle", first)
  /\ otarget' = [otarget EXCEPT ![p] = target]
  /\ UNCHANGED <<oreq, odecision, orec>>

UnchangedByAdmin == <<requests, audit, seen, callVars, history>>

-----------------------------------------------------------------------------
(* ownerGrantAgentSecret and ownerRevokeAgentSecret.  The client finds the *)
(* secret among the active ones or throws.                                 *)
BeginAgentGrant(p, a, s) ==
  /\ s \in active
  /\ \/ Begin(p, "grantAgent", "grantAgent",
              [NoTarget EXCEPT !.agent = a, !.secret = s])
     \/ Begin(p, "revokeAgent", "revokeAgent",
              [NoTarget EXCEPT !.agent = a, !.secret = s])
  /\ UNCHANGED <<durable, otodo, seen, callVars, history>>

AgentGrantOf(p) == <<otarget[p].agent, otarget[p].secret>>
DestGrantOf(p) == <<otarget[p].secret, otarget[p].site>>

UpsertAgentGrant(p) ==
  /\ OwnerAt(p, "grantAgent")
  /\ agentGrants' = agentGrants \cup {AgentGrantOf(p)}
  /\ OwnerReturn(p)
  /\ UNCHANGED <<active, material, destGrants, siteDomain, liveSites,
                 UnchangedByAdmin>>

DeleteAgentGrant(p) ==
  /\ OwnerAt(p, "revokeAgent")
  /\ agentGrants' = agentGrants \ {AgentGrantOf(p)}
  /\ OwnerReturn(p)
  /\ UNCHANGED <<active, material, destGrants, siteDomain, liveSites,
                 UnchangedByAdmin>>

-----------------------------------------------------------------------------
(* ownerGrantSecretDestination and ownerRevokeSecretDestination: a second  *)
(* list call resolves the site.                                            *)
BeginDestGrant(p, s, domain) ==
  /\ s \in active
  /\ Begin(p, "grantDest", "grantDestSite",
           [NoTarget EXCEPT !.secret = s, !.site = domain])
  /\ UNCHANGED <<durable, otodo, seen, callVars, history>>

\* A revocation may name the site by its domain or by its id.
BeginDestRevocation(p, s, where) ==
  /\ s \in active
  /\ Begin(p, "revokeDest", "revokeDestSite",
           [NoTarget EXCEPT !.secret = s, !.site = where])
  /\ UNCHANGED <<durable, otodo, seen, callVars, history>>

\* No site under the domain: the grant throws.
ResolveGrantSite(p) ==
  /\ OwnerAt(p, "grantDestSite")
  /\ \/ /\ SitesOf(otarget[p].site) = {}
        /\ OwnerReturn(p)
     \/ /\ OwnerGoto(p, "grantDest")
        /\ \E s \in SitesOf(otarget[p].site) :
             otarget' = [otarget EXCEPT ![p].site = s]
        /\ UNCHANGED <<oreq, odecision, orec, otodo>>
  /\ UNCHANGED <<durable, seen, callVars, history>>

\* No such site: the revocation goes on with the given name, which may be
\* the domain an approval has granted.
ResolveRevokeSite(p) ==
  LET where == otarget[p].site
      found == SitesOf(where) \cup (liveSites \cap {where})
  IN  /\ OwnerStep(p, "revokeDestSite", "revokeDest")
      /\ \E s \in IF found = {} THEN {where} ELSE found :
           otarget' = [otarget EXCEPT ![p].site = s]
      /\ UNCHANGED <<durable, oreq, odecision, orec, otodo, seen, callVars,
                     history>>

UpsertDestGrant(p) ==
  /\ OwnerAt(p, "grantDest")
  /\ destGrants' = destGrants \cup {DestGrantOf(p)}
  /\ OwnerReturn(p)
  /\ UNCHANGED <<active, material, agentGrants, siteDomain, liveSites,
                 UnchangedByAdmin>>

DeleteDestGrant(p) ==
  /\ OwnerAt(p, "revokeDest")
  /\ destGrants' = destGrants \ {DestGrantOf(p)}
  /\ OwnerReturn(p)
  /\ UNCHANGED <<active, material, agentGrants, siteDomain, liveSites,
                 UnchangedByAdmin>>

-----------------------------------------------------------------------------
(* The site registry (ownerCreateSite, ownerUpdateSite, ownerDeleteSite).  *)

\* A new site takes an id never used; the table's UNIQUE(vault_id, domain)
\* makes a second site of a domain throw.
CreateSite(p, s, d) ==
  /\ "createSite" \in OwnerOps
  /\ OwnerAt(p, "idle")
  /\ siteDomain[s] = Nil
  /\ SitesOf(d) = {}
  /\ siteDomain' = [siteDomain EXCEPT ![s] = d]
  /\ liveSites' = liveSites \cup {s}
  /\ UNCHANGED <<active, material, agentGrants, destGrants, ownVars,
                 UnchangedByAdmin>>

\* sites.get, then sites.upsert: the upsert recreates a site that was
\* deleted in between.
BeginUpdateSite(p, s, d) ==
  /\ s \in liveSites
  /\ Begin(p, "updateSite", "saveSite", [NoTarget EXCEPT !.site = s])
  /\ otodo' = [otodo EXCEPT ![p] = {d}]
  /\ UNCHANGED <<durable, seen, callVars, history>>

SaveSite(p) ==
  LET s == otarget[p].site
  IN  /\ OwnerAt(p, "saveSite")
      /\ \E d \in otodo[p] :
           IF SitesOf(d) \subseteq {s}
             THEN /\ siteDomain' = [siteDomain EXCEPT ![s] = d]
                  /\ liveSites' = liveSites \cup {s}
             ELSE UNCHANGED <<siteDomain, liveSites>>
      /\ OwnerReturn(p)
      /\ UNCHANGED <<active, material, agentGrants, destGrants,
                     UnchangedByAdmin>>

\* Mutant of BeginDeleteSite: the destination grants are left alone.
BeginDeleteSiteOnly(p, s) ==
  /\ Begin(p, "deleteSite", "dropDest", [NoTarget EXCEPT !.site = s])
  /\ otodo' = [otodo EXCEPT ![p] = {}]
  /\ UNCHANGED <<durable, seen, callVars, history>>

\* The destination grants under the id are listed, and deleted together in
\* the next step.  Any id will do: that of no site, or a domain.
BeginDeleteSite(p, s) ==
  /\ Begin(p, "deleteSite", "dropDest", [NoTarget EXCEPT !.site = s])
  /\ otodo' = [otodo EXCEPT ![p] = {g \in destGrants : g[2] = s}]
  /\ UNCHANGED <<durable, seen, callVars, history>>

DropDestGrants(p) ==
  /\ OwnerStep(p, "dropDest", "listDest")
  /\ destGrants' = destGrants \ otodo[p]
  /\ otodo' = [otodo EXCEPT ![p] = {}]
  /\ UNCHANGED <<active, material, agentGrants, siteDomain, liveSites,
                 oreq, odecision, orec, otarget, UnchangedByAdmin>>

\* Orphan cleanup: the secrets that still have a destination ...
ListDestGrants(p) ==
  /\ OwnerStep(p, "listDest", "listOrphans")
  /\ otodo' = [otodo EXCEPT ![p] = {g[1] : g \in destGrants}]
  /\ UNCHANGED <<durable, seen, callVars, oreq, odecision, orec, otarget,
                 history>>

\* ... and the agent grants of all the others.
ListOrphans(p) ==
  /\ OwnerStep(p, "listOrphans", "dropOrphans")
  /\ otodo' = [otodo EXCEPT ![p] = {g \in agentGrants : g[2] \notin otodo[p]}]
  /\ UNCHANGED <<durable, seen, callVars, oreq, odecision, orec, otarget,
                 history>>

DropOrphans(p) ==
  /\ OwnerStep(p, "dropOrphans", "dropSite")
  /\ agentGrants' = agentGrants \ otodo[p]
  /\ otodo' = [otodo EXCEPT ![p] = {}]
  /\ UNCHANGED <<active, material, destGrants, siteDomain, liveSites,
                 oreq, odecision, orec, otarget, UnchangedByAdmin>>

DropSite(p) ==
  /\ OwnerAt(p, "dropSite")
  /\ liveSites' = liveSites \ {otarget[p].site}
  /\ OwnerReturn(p)
  /\ UNCHANGED <<active, material, agentGrants, destGrants, siteDomain,
                 UnchangedByAdmin>>

-----------------------------------------------------------------------------
(* ownerRemoveSecret.                                                      *)

\* secrets.getByAlias
BeginRemoveSecret(p, s) ==
  /\ s \in active
  /\ Begin(p, "removeSecret", "listGrants", [NoTarget EXCEPT !.secret = s])
  /\ UNCHANGED <<durable, otodo, seen, callVars, history>>

\* Mutant of ListGrants: the destination grants are forgotten.
ListAgentGrants(p) ==
  LET s == otarget[p].secret
  IN  /\ OwnerStep(p, "listGrants", "dropListed")
      /\ otodo' = [otodo EXCEPT ![p] =
           {<<"agent", g>> : g \in {h \in agentGrants : h[2] = s}}]
      /\ UNCHANGED <<durable, seen, callVars, oreq, odecision, orec, otarget,
                     history>>

\* Both lists are read together; the grants listed are deleted one by one,
\* those of agents first.
ListGrants(p) ==
  LET s == otarget[p].secret
  IN  /\ OwnerStep(p, "listGrants", "dropListed")
      /\ otodo' = [otodo EXCEPT ![p] =
           {<<"agent", g>> : g \in {h \in agentGrants : h[2] = s}} \cup
           {<<"dest", g>> : g \in {h \in destGrants : h[1] = s}}]
      /\ UNCHANGED <<durable, seen, callVars, oreq, odecision, orec, otarget,
                     history>>

Listed(p, kind) == {t \in otodo[p] : t[1] = kind}

DropListedAgentGrant(p) ==
  /\ OwnerAt(p, "dropListed")
  /\ \E t \in Listed(p, "agent") :
       /\ agentGrants' = agentGrants \ {t[2]}
       /\ otodo' = [otodo EXCEPT ![p] = @ \ {t}]
  /\ OwnerGoto(p, "dropListed")
  /\ UNCHANGED <<active, material, destGrants, siteDomain, liveSites,
                 oreq, odecision, orec, otarget, UnchangedByAdmin>>

DropListedDestGrant(p) ==
  /\ OwnerAt(p, "dropListed")
  /\ Listed(p, "agent") = {}
  /\ \E t \in Listed(p, "dest") :
       /\ destGrants' = destGrants \ {t[2]}
       /\ otodo' = [otodo EXCEPT ![p] = @ \ {t}]
  /\ OwnerGoto(p, "dropListed")
  /\ UNCHANGED <<active, material, agentGrants, siteDomain, liveSites,
                 oreq, odecision, orec, otarget, UnchangedByAdmin>>

SaveRemoved(p) ==
  /\ OwnerStep(p, "dropListed", "destroyMaterial")
  /\ otodo[p] = {}
  /\ active' = active \ {otarget[p].secret}
  /\ UNCHANGED <<material, agentGrants, destGrants, siteDomain, liveSites,
                 OwnerLocals, UnchangedByAdmin>>

DestroyMaterial(p) ==
  /\ OwnerAt(p, "destroyMaterial")
  /\ material' = material \ {otarget[p].secret}
  /\ OwnerReturn(p)
  /\ UNCHANGED <<active, agentGrants, destGrants, siteDomain, liveSites,
                 UnchangedByAdmin>>

-----------------------------------------------------------------------------
BeginAdmin(p) ==
  \/ \E a \in Agents, s \in Secrets : BeginAgentGrant(p, a, s)
  \/ \E s \in Secrets, d \in Domains : BeginDestGrant(p, s, d)
  \/ \E s \in Secrets, w \in Domains \cup SiteIds :
       BeginDestRevocation(p, s, w)
  \/ \E s \in SiteIds, d \in Domains : CreateSite(p, s, d)
  \/ \E s \in SiteIds, d \in Domains : BeginUpdateSite(p, s, d)
  \/ \E s \in SiteIds \cup Domains : BeginDeleteSite(p, s)
  \/ \E s \in Secrets : BeginRemoveSecret(p, s)

ContinueAdmin(p) ==
  \/ UpsertAgentGrant(p)     \/ DeleteAgentGrant(p)
  \/ ResolveGrantSite(p)     \/ ResolveRevokeSite(p)
  \/ UpsertDestGrant(p)      \/ DeleteDestGrant(p)
  \/ SaveSite(p)             \/ DropDestGrants(p)
  \/ ListDestGrants(p)       \/ ListOrphans(p)
  \/ DropOrphans(p)          \/ DropSite(p)
  \/ ListGrants(p)           \/ DropListedAgentGrant(p)
  \/ DropListedDestGrant(p)  \/ SaveRemoved(p)
  \/ DestroyMaterial(p)

AdminStep(p) == BeginAdmin(p) \/ ContinueAdmin(p)
=============================================================================
