---------------------------- MODULE AgentDispatch ----------------------------
(***************************************************************************)
(* VaultCore.agentDispatchSecret: the handler of one delivery of an agent  *)
(* dispatch request, from the proof check to its final record.             *)
(*                                                                         *)
(*   new -> verified -> secret -> agentGrant -> site -> destGrant          *)
(*       -> record -> announce -> deny:    outAudit -> outRead -> outSave  *)
(*                                pending: askRead -> askSave -> askAudit  *)
(*                                allow:   recheck -> load -> send         *)
(*                                         -> outAudit -> outRead -> outSave*)
(*                                                                         *)
(* The audit log calls its subscribers while it appends: one that throws   *)
(* cuts the handler short at announce or outAudit.  (At reject and         *)
(* askAudit there is nothing left to cut.)                                 *)
(***************************************************************************)
EXTENDS VaultState

CallPCs ==
  {"new", "verified", "reject", "secret", "agentGrant", "site", "destGrant",
   "record", "announce", "askRead", "askSave", "askAudit", "recheck",
   "load", "send", "outAudit", "outRead", "outSave", "done", "cut"}

At(c, here) == pc[c] = here
Goto(c, next) == pc' = [pc EXCEPT ![c] = next]

Step(c, here, next) == At(c, here) /\ Goto(c, next)

\* The handler is over: its local variables are gone.
End(c, how) ==
  /\ Goto(c, how)
  /\ agentOk' = [agentOk EXCEPT ![c] = FALSE]
  /\ site' = [site EXCEPT ![c] = Nil]
  /\ decision' = [decision EXCEPT ![c] = "none"]
  /\ base' = [base EXCEPT ![c] = NoRecord]
  /\ outcome' = [outcome EXCEPT ![c] = "none"]

\* It returns, or throws of its own accord.
Return(c) == End(c, "done")

-----------------------------------------------------------------------------
(***************************************************************************)
(* _verifyAgentControlProof.  Whether the token or the signature is good   *)
(* is not decided by the state of this module: both answers are possible.  *)
(***************************************************************************)
Verify(c) ==
  /\ At(c, "new")
  /\ \E next \in {"verified", "reject"} : Goto(c, next)
  /\ UNCHANGED <<durable, seen, agentOk, site, decision, base, outcome,
                 ownVars, history>>

ReplayKey(c) == <<CallOf[c].agent, Id(c)>>

\* replayGuard.assertNotReplayed: the first delivery is remembered.
AssertNotReplayed(c) ==
  /\ Step(c, "verified", IF ReplayKey(c) \in seen THEN "reject" ELSE "secret")
  /\ seen' = seen \cup {ReplayKey(c)}
  /\ accepted' = IF ReplayKey(c) \in seen
                   THEN accepted
                   ELSE [accepted EXCEPT ![Id(c)] = @ + 1]
  /\ UNCHANGED <<durable, agentOk, site, decision, base, outcome, ownVars,
                 dispatchSends, settled, crashes>>

\* The catch block: the refusal is audited and rethrown.
RejectDelivery(c) ==
  /\ At(c, "reject")
  /\ AppendAudit("dispatch", Id(c), "ERROR")
  /\ Return(c)
  /\ UNCHANGED <<active, material, agentGrants, destGrants, siteDomain,
                 liveSites, requests, seen, ownVars, history>>

-----------------------------------------------------------------------------
(* agentAuthorizeDispatch: four reads, one decision.                       *)

\* secrets.getById: a secret that is not active denies the request.  (A
\* request that names no secret takes the same branch.)
ReadSecret(c) ==
  /\ IF CallOf[c].secret \in active
       THEN Step(c, "secret", "agentGrant") /\ UNCHANGED decision
       ELSE /\ Step(c, "secret", "record")
            /\ decision' = [decision EXCEPT ![c] = "deny"]
  /\ UNCHANGED <<durable, seen, agentOk, site, base, outcome, ownVars,
                history>>

\* agent_secretGrants.get
ReadAgentGrant(c) ==
  /\ Step(c, "agentGrant", "site")
  /\ agentOk' = [agentOk EXCEPT
       ![c] = <<CallOf[c].agent, CallOf[c].secret>> \in agentGrants]
  /\ UNCHANGED <<durable, seen, site, decision, base, outcome, ownVars,
                history>>

\* sites.getByDomain; without a site the destination is not approved.
ReadSite(c) ==
  /\ \/ /\ SitesOf(Domain(c)) = {}
        /\ Step(c, "site", "record")
        /\ decision' = [decision EXCEPT ![c] = "pending"]
        /\ agentOk' = [agentOk EXCEPT ![c] = FALSE]
        /\ UNCHANGED site
     \/ /\ Step(c, "site", "destGrant")
        /\ \E s \in SitesOf(Domain(c)) : site' = [site EXCEPT ![c] = s]
        /\ UNCHANGED <<decision, agentOk>>
  /\ UNCHANGED <<durable, seen, base, outcome, ownVars, history>>

\* Mutant of ReadDestGrant: the grant is looked up under the domain.
ReadDomainGrant(c) ==
  LET destOk == <<CallOf[c].secret, Domain(c)>> \in destGrants
  IN  /\ Step(c, "destGrant", "record")
      /\ decision' = [decision EXCEPT
           ![c] = IF agentOk[c] /\ destOk THEN "allow" ELSE "pending"]
      /\ agentOk' = [agentOk EXCEPT ![c] = FALSE]
      /\ site' = [site EXCEPT ![c] = Nil]
      /\ UNCHANGED <<durable, seen, base, outcome, ownVars, history>>

\* secret_destinationGrants.get, and the decision.
ReadDestGrant(c) ==
  LET destOk == <<CallOf[c].secret, site[c]>> \in destGrants
  IN  /\ Step(c, "destGrant", "record")
      /\ decision' = [decision EXCEPT
           ![c] = IF agentOk[c] /\ destOk THEN "allow" ELSE "pending"]
      /\ agentOk' = [agentOk EXCEPT ![c] = FALSE]
      /\ site' = [site EXCEPT ![c] = Nil]
      /\ UNCHANGED <<durable, seen, base, outcome, ownVars, history>>

-----------------------------------------------------------------------------
\* A denied authorization names no secret.
ResolvedSecret(c) == IF decision[c] = "deny" THEN Nil ELSE CallOf[c].secret

\* _recordRequestInternal(IN_PROGRESS)
RecordRequest(c) ==
  /\ Step(c, "record", "announce")
  /\ SaveRecord(Id(c), [status |-> "IN_PROGRESS", from |-> c,
                        secret |-> ResolvedSecret(c)])
  /\ UNCHANGED <<active, material, agentGrants, destGrants, siteDomain,
                 liveSites, audit, seen, agentOk, site, decision, base,
                 outcome, ownVars, history>>

\* The IN_PROGRESS entry; then the handler splits on the decision.
AnnounceRequest(c) ==
  /\ At(c, "announce")
  /\ AppendAudit("agentDispatchSecret", Id(c), "IN_PROGRESS")
  /\ \/ /\ decision[c] = "deny"
        /\ Goto(c, "outAudit")
        /\ outcome' = [outcome EXCEPT ![c] = "DENIED"]
     \/ /\ decision[c] = "pending"
        /\ Goto(c, "askRead")
        /\ UNCHANGED outcome
     \/ /\ decision[c] = "allow"
        /\ Goto(c, "recheck")
        /\ UNCHANGED outcome
  /\ UNCHANGED <<active, material, agentGrants, destGrants, siteDomain,
                 liveSites, requests, seen, agentOk, site, decision, base,
                 ownVars, history>>

-----------------------------------------------------------------------------
(***************************************************************************)
(* The pending branch: _updateRequestRecordInternal reads the record and   *)
(* saves it with the new status two awaits apart, then the fact is logged. *)
(***************************************************************************)
\* Mutant of AskRead: the record is not read.
AskReadNothing(c) ==
  /\ Step(c, "askRead", "askSave")
  /\ UNCHANGED <<durable, seen, agentOk, site, decision, base, outcome,
                 ownVars, history>>

AskRead(c) ==
  /\ Step(c, "askRead", "askSave")
  /\ base' = [base EXCEPT ![c] = requests[Id(c)]]
  /\ UNCHANGED <<durable, seen, agentOk, site, decision, outcome, ownVars,
                 history>>

AskSave(c) ==
  /\ Step(c, "askSave", "askAudit")
  /\ SaveRecord(Id(c), [base[c] EXCEPT !.status = "AWAITING_APPROVAL"])
  /\ base' = [base EXCEPT ![c] = NoRecord]
  /\ UNCHANGED <<active, material, agentGrants, destGrants, siteDomain,
                 liveSites, audit, seen, agentOk, site, decision, outcome,
                 ownVars, history>>

AskAudit(c) ==
  /\ At(c, "askAudit")
  /\ AppendAudit("agentDispatchSecret", Id(c), "AWAITING_APPROVAL")
  /\ Return(c)
  /\ UNCHANGED <<active, material, agentGrants, destGrants, siteDomain,
                 liveSites, requests, seen, ownVars, history>>

-----------------------------------------------------------------------------
(***************************************************************************)
(* The allow branch.  The secret and its material are read again; if one   *)
(* is gone the handler throws and leaves the record as it is.              *)
(***************************************************************************)
RecheckSecret(c) ==
  /\ At(c, "recheck")
  /\ IF CallOf[c].secret \in active
       THEN /\ Goto(c, "load")
            /\ UNCHANGED <<agentOk, site, decision, base, outcome>>
       ELSE Return(c)
  /\ UNCHANGED <<durable, seen, ownVars, history>>

LoadMaterial(c) ==
  /\ At(c, "load")
  /\ IF CallOf[c].secret \in material
       THEN /\ Goto(c, "send")
            /\ UNCHANGED <<agentOk, site, decision, base, outcome>>
       ELSE Return(c)
  /\ UNCHANGED <<durable, seen, ownVars, history>>

\* executor.dispatch never throws: it answers SUCCEEDED or FAILED.
Send(c) ==
  /\ Step(c, "send", "outAudit")
  /\ \E result \in Executed : outcome' = [outcome EXCEPT ![c] = result]
  /\ dispatchSends' = [dispatchSends EXCEPT ![Id(c)] = @ + 1]
  /\ UNCHANGED <<durable, seen, agentOk, site, decision, base, ownVars,
                 accepted, settled, crashes>>

-----------------------------------------------------------------------------
\* Mutant of OutcomeAudit: the outcome is not logged.
OutcomeUnlogged(c) ==
  /\ Step(c, "outAudit", "outRead")
  /\ UNCHANGED <<durable, seen, agentOk, site, decision, base, outcome,
                 ownVars, history>>

\* Mutant of OutcomeSave: the handler returns without the save.
OutcomeUnsaved(c) ==
  /\ At(c, "outSave")
  /\ Return(c)
  /\ UNCHANGED <<durable, seen, ownVars, history>>

(* The end of the deny and allow branches: the fact, then the record.      *)
OutcomeAudit(c) ==
  /\ Step(c, "outAudit", "outRead")
  /\ AppendAudit("agentDispatchSecret", Id(c), outcome[c])
  /\ UNCHANGED <<active, material, agentGrants, destGrants, siteDomain,
                 liveSites, requests, seen, agentOk, site, decision, base,
                 outcome, ownVars, history>>

OutcomeRead(c) ==
  /\ Step(c, "outRead", "outSave")
  /\ base' = [base EXCEPT ![c] = requests[Id(c)]]
  /\ UNCHANGED <<durable, seen, agentOk, site, decision, outcome, ownVars,
                 history>>

OutcomeSave(c) ==
  /\ At(c, "outSave")
  /\ SaveRecord(Id(c), [base[c] EXCEPT !.status = outcome[c]])
  /\ Return(c)
  /\ UNCHANGED <<active, material, agentGrants, destGrants, siteDomain,
                 liveSites, audit, seen, ownVars, history>>

-----------------------------------------------------------------------------
\* A subscriber throws: the entry stays, what comes after it does not happen.
CutShort(c) ==
  /\ Throwing
  /\ \/ At(c, "announce") /\ AppendAudit("agentDispatchSecret", Id(c), "IN_PROGRESS")
     \/ At(c, "outAudit") /\ AppendAudit("agentDispatchSecret", Id(c), outcome[c])
  /\ End(c, "cut")
  /\ UNCHANGED <<active, material, agentGrants, destGrants, siteDomain,
                 liveSites, requests, seen, ownVars, history>>

-----------------------------------------------------------------------------
DispatchStep(c) ==
  \/ Verify(c)        \/ AssertNotReplayed(c) \/ RejectDelivery(c)
  \/ ReadSecret(c)    \/ ReadAgentGrant(c)    \/ ReadSite(c)
  \/ ReadDestGrant(c) \/ RecordRequest(c)     \/ AnnounceRequest(c)
  \/ AskRead(c)       \/ AskSave(c)           \/ AskAudit(c)
  \/ RecheckSecret(c) \/ LoadMaterial(c)      \/ Send(c)
  \/ OutcomeAudit(c)  \/ OutcomeRead(c)       \/ OutcomeSave(c)
  \/ CutShort(c)
=============================================================================
