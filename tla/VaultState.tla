----------------------------- MODULE VaultState -----------------------------
(***************************************************************************)
(* The stores behind one VaultCore instance, the calls that are being      *)
(* served on them, and the helpers every handler uses.                     *)
(*                                                                         *)
(* Every port of the core (secrets, custody, grants, sites, requests,      *)
(* audit, executor) is asynchronous, so a handler may be interleaved with  *)
(* any other at each await; between two awaits it runs alone.  An action   *)
(* of the modules that extend this one is one such segment: the code from  *)
(* an await to the next port call, the body of that call included (the     *)
(* SQLite and the in-memory ports do their work before they first yield).  *)
(*                                                                         *)
(* The stores are those of createPersistentVaultCoreDependencies: all are  *)
(* durable except the replay guard, which is in memory.                    *)
(***************************************************************************)
EXTENDS Naturals, FiniteSets

CONSTANTS
  Agents,      \* root agent ids
  Secrets,     \* secret ids
  Domains,     \* hosts a dispatch may target
  SiteIds,     \* ids the site registry hands out, each at most once
  RequestIds,  \* request ids
  Calls,       \* deliveries of a dispatch request to the vault
  CallOf,      \* what each delivery carries
  Owners,      \* owner calls the vault serves at the same time
  OwnerOps,    \* operations owners call
  MaxCrashes,  \* bound: how often the vault process dies
  Expiry,      \* whether the replay guard may forget (its TTL elapses)
  Throwing,    \* whether a subscriber of the audit log may throw
  Nil          \* no value (null)

AllOwnerOps ==
  {"approve", "grantAgent", "revokeAgent", "grantDest", "revokeDest",
   "createSite", "updateSite", "deleteSite", "removeSecret"}

ASSUME CallsAssumption ==
  /\ IsFiniteSet(Calls)
  /\ CallOf \in [Calls -> [id: RequestIds, agent: Agents,
                           secret: Secrets, domain: Domains]]
ASSUME DomainsAssumption == SiteIds \cap Domains = {}
ASSUME NilAssumption ==
  Nil \notin Agents \cup Secrets \cup Domains \cup SiteIds
             \cup RequestIds \cup Calls
ASSUME BoundsAssumption ==
  /\ OwnerOps \subseteq AllOwnerOps
  /\ MaxCrashes \in Nat
  /\ Expiry \in BOOLEAN
  /\ Throwing \in BOOLEAN

Executed == {"SUCCEEDED", "FAILED"}
Terminal == Executed \cup {"DENIED"}
Statuses == Terminal \cup {"IN_PROGRESS", "AWAITING_APPROVAL"}

(***************************************************************************)
(* A request record keeps the payload of the delivery that created it      *)
(* ("from") and the secret its authorization resolved.                     *)
(***************************************************************************)
Records == [status: Statuses, from: Calls, secret: Secrets \cup {Nil}]
NoRecord == [status |-> "NONE", from |-> Nil, secret |-> Nil]

VARIABLES
  \* the durable stores
  active,       \* secrets whose record is ACTIVE
  material,     \* secrets whose plaintext is in custody
  agentGrants,  \* approved agent-secret grants: <<agent, secret>>
  destGrants,   \* approved secret-destination grants: <<secret, site_id>>
  siteDomain,   \* the domain each site was last saved with
  liveSites,    \* sites that exist
  requests,     \* the request records
  audit,        \* the facts of the audit log: [fn, id, status]
  \* the replay guard
  seen,
  \* the dispatch calls: their position and local variables
  pc, agentOk, site, decision, base, outcome,
  \* the owner calls: their position and local variables
  opc, oreq, odecision, orec, otarget, otodo,
  \* history, read by no handler: deliveries the replay guard let through,
  \* executions by dispatch calls, executions and denials by each owner
  \* call, deaths of the process
  accepted, dispatchSends, settled, crashes

durable  == <<active, material, agentGrants, destGrants, siteDomain,
              liveSites, requests, audit>>
callVars == <<pc, agentOk, site, decision, base, outcome>>
ownVars  == <<opc, oreq, odecision, orec, otarget, otodo>>
history  == <<accepted, dispatchSends, settled, crashes>>
vars     == <<durable, seen, callVars, ownVars, history>>

Id(c) == CallOf[c].id

\* extractDomain: the host of the target, which is all a grant looks at.
Domain(c) == CallOf[c].domain

\* SiteRegistry.getByDomain: the sites found under a domain (at most one:
\* the table has UNIQUE(vault_id, domain)).
SitesOf(d) == {s \in liveSites : siteDomain[s] = d}

\* _appendAuditEntry, for the entries that speak of a request.
AppendAudit(fn, id, status) ==
  audit' = audit \cup {[fn |-> fn, id |-> id, status |-> status]}

\* RequestRecordRegistry.save
SaveRecord(id, rec) == requests' = [requests EXCEPT ![id] = rec]
=============================================================================
