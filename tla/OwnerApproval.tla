---------------------------- MODULE OwnerApproval ----------------------------
(***************************************************************************)
(* VaultCore.ownerApproveDispatch: an owner call decides a dispatch that   *)
(* awaits approval and, unless it denies it, executes it.                  *)
(*                                                                         *)
(*   idle -> deny:  denySave -> denyAudit -> idle                          *)
(*           allow: okSecret [-> okGrant -> okGrantAudit] -> okLoad        *)
(*                  -> okSend -> okSave -> okAudit -> okAgentAudit -> idle *)
(*                                                                         *)
(* A subscriber of the audit log that throws cuts it short at okGrantAudit *)
(* or okAudit.                                                             *)
(***************************************************************************)
EXTENDS VaultState

Decisions == {"allow_once", "allow_and_grant", "deny"}

ApprovalPCs ==
  {"denySave", "denyAudit", "okSecret", "okGrant", "okGrantAudit", "okLoad",
   "okSend", "okSave", "okAudit", "okAgentAudit"}

NoTarget == [agent |-> Nil, secret |-> Nil, site |-> Nil]

OwnerAt(p, here) == opc[p] = here
OwnerGoto(p, next) == opc' = [opc EXCEPT ![p] = next]
OwnerStep(p, here, next) == OwnerAt(p, here) /\ OwnerGoto(p, next)

\* The owner call returns or throws: its local variables are gone.
OwnerReturn(p) ==
  /\ OwnerGoto(p, "idle")
  /\ oreq' = [oreq EXCEPT ![p] = Nil]
  /\ odecision' = [odecision EXCEPT ![p] = "none"]
  /\ orec' = [orec EXCEPT ![p] = NoRecord]
  /\ otarget' = [otarget EXCEPT ![p] = NoTarget]
  /\ otodo' = [otodo EXCEPT ![p] = {}]

OwnerLocals == <<oreq, odecision, orec, otarget, otodo>>

\* History: p has executed or denied the request it decides.
Settle(p) ==
  /\ settled' = [settled EXCEPT ![<<p, oreq[p]>>] = @ + 1]
  /\ UNCHANGED <<accepted, dispatchSends, crashes>>

-----------------------------------------------------------------------------
\* Mutant of BeginApproval: any record is decided.
BeginAnyApproval(p, r, d) ==
  /\ "approve" \in OwnerOps
  /\ OwnerAt(p, "idle")
  /\ requests[r] # NoRecord
  /\ OwnerGoto(p, IF d = "deny" THEN "denySave" ELSE "okSecret")
  /\ oreq' = [oreq EXCEPT ![p] = r]
  /\ odecision' = [odecision EXCEPT ![p] = d]
  /\ orec' = [orec EXCEPT ![p] = requests[r]]
  /\ UNCHANGED <<durable, seen, callVars, otarget, otodo, history>>

\* requests.get: only a record that awaits approval is decided.
BeginApproval(p, r, d) ==
  /\ "approve" \in OwnerOps
  /\ OwnerAt(p, "idle")
  /\ requests[r].status = "AWAITING_APPROVAL"
  /\ OwnerGoto(p, IF d = "deny" THEN "denySave" ELSE "okSecret")
  /\ oreq' = [oreq EXCEPT ![p] = r]
  /\ odecision' = [odecision EXCEPT ![p] = d]
  /\ orec' = [orec EXCEPT ![p] = requests[r]]
  /\ UNCHANGED <<durable, seen, callVars, otarget, otodo, history>>

DenySave(p) ==
  /\ OwnerStep(p, "denySave", "denyAudit")
  /\ SaveRecord(oreq[p], [orec[p] EXCEPT !.status = "DENIED"])
  /\ Settle(p)
  /\ UNCHANGED <<active, material, agentGrants, destGrants, siteDomain,
                 liveSites, audit, seen, callVars, OwnerLocals>>

DenyAudit(p) ==
  /\ OwnerAt(p, "denyAudit")
  /\ AppendAudit("ownerApproveDispatch", oreq[p], "DENIED")
  /\ OwnerReturn(p)
  /\ UNCHANGED <<active, material, agentGrants, destGrants, siteDomain,
                 liveSites, requests, seen, callVars, history>>

-----------------------------------------------------------------------------
\* A record without a secret, or with one that is gone, makes it throw.
ReadApprovedSecret(p) ==
  /\ OwnerAt(p, "okSecret")
  /\ IF orec[p].secret \in active
       THEN /\ OwnerGoto(p, IF odecision[p] = "allow_and_grant"
                              THEN "okGrant" ELSE "okLoad")
            /\ UNCHANGED OwnerLocals
       ELSE OwnerReturn(p)
  /\ UNCHANGED <<durable, seen, callVars, history>>

\* allow_and_grant: both upserts start before the handler yields.  The site
\* id of the destination grant is the domain of the target.
GrantOnApproval(p) ==
  LET from == orec[p].from
      secret == orec[p].secret
  IN  /\ OwnerStep(p, "okGrant", "okGrantAudit")
      /\ agentGrants' = agentGrants \cup {<<CallOf[from].agent, secret>>}
      /\ destGrants' = destGrants \cup {<<secret, Domain(from)>>}
      /\ UNCHANGED <<active, material, siteDomain, liveSites, requests, audit,
                     seen, callVars, OwnerLocals, history>>

AuditGrant(p) ==
  /\ OwnerStep(p, "okGrantAudit", "okLoad")
  /\ AppendAudit("ownerApproveDispatch_grant", oreq[p], "GRANTED")
  /\ UNCHANGED <<active, material, agentGrants, destGrants, siteDomain,
                 liveSites, requests, seen, callVars, OwnerLocals, history>>

LoadApprovedMaterial(p) ==
  /\ OwnerAt(p, "okLoad")
  /\ IF orec[p].secret \in material
       THEN OwnerGoto(p, "okSend") /\ UNCHANGED OwnerLocals
       ELSE OwnerReturn(p)
  /\ UNCHANGED <<durable, seen, callVars, history>>

\* executor.dispatch.  finalRecord is the record read at the beginning with
\* the status of the result.
SendApproved(p) ==
  /\ OwnerStep(p, "okSend", "okSave")
  /\ \E result \in Executed :
       orec' = [orec EXCEPT ![p].status = result]
  /\ Settle(p)
  /\ UNCHANGED <<durable, seen, callVars, oreq, odecision, otarget, otodo>>

\* Mutant of SaveFinalRecord: the result stays out of the record.
FinalRecordUnsaved(p) ==
  /\ OwnerStep(p, "okSave", "okAudit")
  /\ UNCHANGED <<durable, seen, callVars, OwnerLocals, history>>

SaveFinalRecord(p) ==
  /\ OwnerStep(p, "okSave", "okAudit")
  /\ SaveRecord(oreq[p], orec[p])
  /\ UNCHANGED <<active, material, agentGrants, destGrants, siteDomain,
                 liveSites, audit, seen, callVars, OwnerLocals, history>>

\* Mutant of AuditApproval: the owner's decision is not logged.
ApprovalUnlogged(p) ==
  /\ OwnerStep(p, "okAudit", "okAgentAudit")
  /\ UNCHANGED <<durable, seen, callVars, OwnerLocals, history>>

AuditApproval(p) ==
  /\ OwnerStep(p, "okAudit", "okAgentAudit")
  /\ AppendAudit("ownerApproveDispatch", oreq[p], orec[p].status)
  /\ UNCHANGED <<active, material, agentGrants, destGrants, siteDomain,
                 liveSites, requests, seen, callVars, OwnerLocals, history>>

AuditApprovedDispatch(p) ==
  /\ OwnerAt(p, "okAgentAudit")
  /\ AppendAudit("agentDispatchSecret", oreq[p], orec[p].status)
  /\ OwnerReturn(p)
  /\ UNCHANGED <<active, material, agentGrants, destGrants, siteDomain,
                 liveSites, requests, seen, callVars, history>>

\* A subscriber throws: the entry stays, what comes after it does not happen.
CutApproval(p) ==
  /\ Throwing
  /\ \/ /\ OwnerAt(p, "okGrantAudit")
        /\ AppendAudit("ownerApproveDispatch_grant", oreq[p], "GRANTED")
     \/ /\ OwnerAt(p, "okAudit")
        /\ AppendAudit("ownerApproveDispatch", oreq[p], orec[p].status)
  /\ OwnerReturn(p)
  /\ UNCHANGED <<active, material, agentGrants, destGrants, siteDomain,
                 liveSites, requests, seen, callVars, history>>

-----------------------------------------------------------------------------
\* The steps of an approval once it has begun.
ContinueApproval(p) ==
  \/ DenySave(p)             \/ DenyAudit(p)
  \/ ReadApprovedSecret(p)   \/ GrantOnApproval(p) \/ AuditGrant(p)
  \/ LoadApprovedMaterial(p) \/ SendApproved(p)    \/ SaveFinalRecord(p)
  \/ AuditApproval(p)        \/ AuditApprovedDispatch(p) \/ CutApproval(p)

ApprovalStep(p) ==
  \/ \E r \in RequestIds, d \in Decisions : BeginApproval(p, r, d)
  \/ ContinueApproval(p)
=============================================================================
