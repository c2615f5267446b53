------------------------- MODULE VaultDispatchTypes -------------------------
(***************************************************************************)
(* Proof that every variable of VaultDispatch keeps its type, and that the *)
(* handlers know what they need where they stand.                          *)
(***************************************************************************)
EXTENDS VaultDispatch, TLAPS

-----------------------------------------------------------------------------
(* The inductive strengthening of TypeOK.                                  *)

RecordedPCs ==
  {"announce", "askRead", "askSave", "askAudit", "recheck", "load", "send",
   "outAudit", "outRead", "outSave"}

\* What a dispatch handler knows where it stands.
CallLocalsOK ==
  \A c \in Calls :
    /\ pc[c] \in RecordedPCs => requests[Id(c)] \in Records
    /\ pc[c] \in {"askSave", "outSave"} => base[c] \in Records
    /\ pc[c] \in {"outAudit", "outRead", "outSave"} => outcome[c] \in Terminal

\* What an owner call knows where it stands.
OwnerLocalsOK ==
  \A p \in Owners :
    /\ opc[p] \in ApprovalPCs => oreq[p] \in RequestIds /\ orec[p] \in Records
    /\ opc[p] = "okGrant" => orec[p].secret \in Secrets
    /\ opc[p] \in {"okSave", "okAudit", "okAgentAudit"}
         => orec[p].status \in Executed
    /\ opc[p] = "grantAgent" => AgentGrantOf(p) \in Agents \X Secrets
    /\ opc[p] = "grantDestSite" => otarget[p].secret \in Secrets
    /\ opc[p] = "grantDest" => DestGrantOf(p) \in Secrets \X SiteIds
    /\ opc[p] = "saveSite"
         => otarget[p].site \in SiteIds /\ otodo[p] \subseteq Domains

TypeInv == TypeOK /\ CallLocalsOK /\ OwnerLocalsOK

-----------------------------------------------------------------------------

\* A delivery names a request, an agent, a secret and a domain.
LEMMA CallOfType ==
  ASSUME NEW c \in Calls
  PROVE  /\ Id(c) \in RequestIds /\ Domain(c) \in Domains
         /\ CallOf[c].agent \in Agents /\ CallOf[c].secret \in Secrets
  BY CallsAssumption DEF Id, Domain

-----------------------------------------------------------------------------
(* Frames: what a step of the one side leaves to the other.                *)

\* A dispatch handler leaves the locals of the owner calls alone.
LEMMA DispatchFrame ==
  ASSUME NEW c \in Calls, DispatchStep(c)
  PROVE  UNCHANGED ownVars
  BY DEF DispatchStep, Verify, AssertNotReplayed, RejectDelivery, ReadSecret,
     ReadAgentGrant, ReadSite, ReadDestGrant, RecordRequest, AnnounceRequest,
     AskRead, AskSave, AskAudit, RecheckSecret, LoadMaterial, Send,
     OutcomeAudit, OutcomeRead, OutcomeSave, CutShort, ownVars

\* Whatever leaves the owner calls alone keeps their types.
LEMMA OwnersFrame ==
  ASSUME OwnersOK, OwnerLocalsOK, UNCHANGED ownVars
  PROVE  OwnersOK' /\ OwnerLocalsOK'
  BY DEF OwnersOK, OwnerLocalsOK, ownVars, AgentGrantOf, DestGrantOf

\* Records are never deleted.
RecordsKept ==
  \A r \in RequestIds : requests[r] \in Records => requests'[r] \in Records

\* Whatever leaves the dispatch calls alone and deletes no record keeps
\* their types.
LEMMA CallsFrame ==
  ASSUME CallsOK, CallLocalsOK, UNCHANGED callVars, seen' \subseteq seen,
         RecordsKept
  PROVE  CallsOK' /\ CallLocalsOK'
  BY CallOfType DEF CallsOK, CallLocalsOK, callVars, RecordsKept

\* Saving a record keeps the request store typed and deletes none.
LEMMA SaveRecordType ==
  ASSUME StoresOK, NEW r \in RequestIds, NEW rec \in Records, SaveRecord(r, rec)
  PROVE  /\ requests' \in [RequestIds -> Records \cup {NoRecord}]
         /\ RecordsKept
  BY DEF StoresOK, SaveRecord, RecordsKept

\* A step that saves no record deletes none.
LEMMA NoRecordKept ==
  ASSUME UNCHANGED requests
  PROVE  RecordsKept
  BY DEF RecordsKept

-----------------------------------------------------------------------------
(* Dispatch handlers.                                                      *)

\* A dispatch handler keeps the stores typed and deletes no record.
LEMMA DispatchStores ==
  ASSUME StoresOK, CallsOK, CallLocalsOK, NEW c \in Calls, DispatchStep(c)
  PROVE  StoresOK' /\ RecordsKept
<1> USE CallOfType
<1>1. CASE UNCHANGED durable
  BY <1>1, NoRecordKept DEF StoresOK, durable
<1>2. CASE RejectDelivery(c)
  BY <1>2, NoRecordKept DEF RejectDelivery, AppendAudit, StoresOK, Facts
<1>3. CASE AnnounceRequest(c)
  BY <1>3, NoRecordKept DEF AnnounceRequest, AppendAudit, StoresOK, Facts,
        Statuses
<1>4. CASE AskAudit(c)
  BY <1>4, NoRecordKept DEF AskAudit, AppendAudit, StoresOK, Facts, Statuses
<1>5. CASE OutcomeAudit(c)
  <2>1. outcome[c] \in Statuses
    BY <1>5 DEF OutcomeAudit, Step, At, CallLocalsOK, Statuses
  <2>. QED
    BY <1>5, <2>1, NoRecordKept DEF OutcomeAudit, AppendAudit, StoresOK, Facts
<1>6. CASE RecordRequest(c)
  <2>1. [status |-> "IN_PROGRESS", from |-> c,
         secret |-> ResolvedSecret(c)] \in Records
    BY DEF Records, Statuses, ResolvedSecret
  <2>. QED
    BY <1>6, <2>1, SaveRecordType DEF RecordRequest, StoresOK
<1>7. CASE AskSave(c)
  <2>1. [base[c] EXCEPT !.status = "AWAITING_APPROVAL"] \in Records
    BY <1>7 DEF AskSave, Step, At, CallLocalsOK, Records, Statuses
  <2>. QED
    BY <1>7, <2>1, SaveRecordType DEF AskSave, StoresOK
<1>8. CASE OutcomeSave(c)
  <2>1. [base[c] EXCEPT !.status = outcome[c]] \in Records
    BY <1>8 DEF OutcomeSave, At, CallLocalsOK, Records, Statuses
  <2>. QED
    BY <1>8, <2>1, SaveRecordType DEF OutcomeSave, StoresOK
<1>9. CASE CutShort(c)
  <2>1. PICK status \in Statuses :
          audit' = audit \cup {[fn |-> "agentDispatchSecret", id |-> Id(c),
                                status |-> status]}
    BY <1>9 DEF CutShort, At, AppendAudit, CallLocalsOK, Statuses
  <2>. QED
    BY <1>9, <2>1, NoRecordKept DEF CutShort, StoresOK, Facts
<1>. QED
  BY <1>1, <1>2, <1>3, <1>4, <1>5, <1>6, <1>7, <1>8, <1>9
     DEF DispatchStep, Verify, AssertNotReplayed, ReadSecret, ReadAgentGrant,
         ReadSite, ReadDestGrant, AskRead, RecheckSecret, LoadMaterial, Send,
         OutcomeRead

\* A dispatch handler keeps the history typed.
LEMMA DispatchHistory ==
  ASSUME HistoryOK, NEW c \in Calls, DispatchStep(c)
  PROVE  HistoryOK'
<1>1. CASE UNCHANGED history
  BY <1>1 DEF HistoryOK, history
<1>2. CASE AssertNotReplayed(c)
  BY <1>2, CallOfType DEF AssertNotReplayed, HistoryOK
<1>3. CASE Send(c)
  BY <1>3, CallOfType DEF Send, HistoryOK
<1>. QED
  BY <1>1, <1>2, <1>3
     DEF DispatchStep, Verify, RejectDelivery, ReadSecret, ReadAgentGrant,
         ReadSite, ReadDestGrant, RecordRequest, AnnounceRequest, AskRead,
         AskSave, AskAudit, RecheckSecret, LoadMaterial, OutcomeAudit,
         OutcomeRead, OutcomeSave, CutShort

\* A handler that ends keeps the types of the dispatch calls.
LEMMA EndCalls ==
  ASSUME CallsOK, CallLocalsOK, RecordsKept, NEW c \in Calls,
         Return(c) \/ End(c, "cut"), UNCHANGED seen
  PROVE  CallsOK' /\ CallLocalsOK'
<1>1. CallsOK'
  BY DEF Return, End, Goto, CallsOK, CallPCs
<1>2. CallLocalsOK'
  BY CallOfType DEF Return, End, Goto, CallsOK, CallLocalsOK, RecordedPCs,
        RecordsKept
<1>. QED  BY <1>1, <1>2

\* A dispatch handler knows at its next segment what that segment uses.
LEMMA DispatchCalls ==
  ASSUME StoresOK, CallsOK, CallLocalsOK, RecordsKept,
         NEW c \in Calls, DispatchStep(c)
  PROVE  CallsOK' /\ CallLocalsOK'
<1> USE CallOfType DEF Step, At, Goto
<1>1. CASE RejectDelivery(c)
  BY <1>1, EndCalls DEF RejectDelivery
<1>2. CASE AskAudit(c)
  BY <1>2, EndCalls DEF AskAudit
<1>3. CASE OutcomeSave(c)
  BY <1>3, EndCalls DEF OutcomeSave
<1>4. CASE Verify(c)
  <2>1. CallsOK'
    BY <1>4 DEF Verify, CallsOK, CallPCs
  <2>2. CallLocalsOK'
    BY <1>4 DEF Verify, CallsOK, CallLocalsOK, RecordedPCs, RecordsKept
  <2>. QED  BY <2>1, <2>2
<1>5. CASE AssertNotReplayed(c)
  <2>1. CallsOK'
    BY <1>5 DEF AssertNotReplayed, ReplayKey, CallsOK, CallPCs
  <2>2. CallLocalsOK'
    BY <1>5 DEF AssertNotReplayed, ReplayKey, CallsOK, CallLocalsOK,
          RecordedPCs, RecordsKept
  <2>. QED  BY <2>1, <2>2
<1>6. CASE ReadSecret(c)
  <2>1. CallsOK'
    BY <1>6 DEF ReadSecret, CallsOK, CallPCs
  <2>2. CallLocalsOK'
    BY <1>6 DEF ReadSecret, CallsOK, CallLocalsOK, RecordedPCs, RecordsKept
  <2>. QED  BY <2>1, <2>2
<1>7. CASE ReadAgentGrant(c)
  <2>1. CallsOK'
    BY <1>7 DEF ReadAgentGrant, CallsOK, CallPCs
  <2>2. CallLocalsOK'
    BY <1>7 DEF ReadAgentGrant, CallsOK, CallLocalsOK, RecordedPCs,
          RecordsKept
  <2>. QED  BY <2>1, <2>2
<1>8. CASE ReadSite(c)
  <2>1. CallsOK'
    <3>1. CASE SitesOf(Domain(c)) = {} /\ Step(c, "site", "record")
      <4>1. UNCHANGED site
        BY <1>8, <3>1 DEF ReadSite
      <4>2. /\ decision' = [decision EXCEPT ![c] = "pending"]
            /\ agentOk' = [agentOk EXCEPT ![c] = FALSE]
        BY <1>8, <3>1 DEF ReadSite
      <4>. QED  BY <1>8, <3>1, <4>1, <4>2 DEF ReadSite, CallsOK, CallPCs
    <3>2. ASSUME Step(c, "site", "destGrant"),
                 NEW s \in SitesOf(Domain(c)),
                 site' = [site EXCEPT ![c] = s],
                 UNCHANGED <<decision, agentOk>>
          PROVE  CallsOK'
      <4>1. s \in SiteIds
        BY DEF SitesOf, StoresOK
      <4>. QED  BY <1>8, <3>2, <4>1 DEF ReadSite, CallsOK, CallPCs
    <3>. QED  BY <1>8, <3>1, <3>2 DEF ReadSite
  <2>2. CallLocalsOK'
    BY <1>8 DEF ReadSite, SitesOf, CallsOK, CallLocalsOK, RecordedPCs,
          RecordsKept
  <2>. QED  BY <2>1, <2>2
<1>9. CASE ReadDestGrant(c)
  <2>1. CallsOK'
    BY <1>9 DEF ReadDestGrant, CallsOK, CallPCs
  <2>2. CallLocalsOK'
    BY <1>9 DEF ReadDestGrant, CallsOK, CallLocalsOK, RecordedPCs, RecordsKept
  <2>. QED  BY <2>1, <2>2
<1>10. CASE RecordRequest(c)
  <2>1. CallsOK'
    BY <1>10 DEF RecordRequest, SaveRecord, Records, Statuses,
          ResolvedSecret, StoresOK, CallsOK, CallPCs
  <2>2. CallLocalsOK'
    BY <1>10 DEF RecordRequest, SaveRecord, Records, Statuses,
          ResolvedSecret, StoresOK, CallsOK, CallLocalsOK, RecordedPCs,
          RecordsKept
  <2>. QED  BY <2>1, <2>2
<1>11. CASE AnnounceRequest(c)
  <2>1. CallsOK'
    BY <1>11 DEF AnnounceRequest, Terminal, CallsOK, CallPCs
  <2>2. CallLocalsOK'
    BY <1>11 DEF AnnounceRequest, Terminal, CallsOK, CallLocalsOK,
          RecordedPCs, RecordsKept
  <2>. QED  BY <2>1, <2>2
<1>12. CASE AskRead(c)
  <2>1. CallsOK'
    BY <1>12 DEF AskRead, StoresOK, CallsOK, CallPCs
  <2>2. CallLocalsOK'
    BY <1>12 DEF AskRead, StoresOK, CallsOK, CallLocalsOK, RecordedPCs,
          RecordsKept
  <2>. QED  BY <2>1, <2>2
<1>13. CASE AskSave(c)
  <2>1. CallsOK'
    BY <1>13 DEF AskSave, CallsOK, CallPCs
  <2>2. CallLocalsOK'
    BY <1>13 DEF AskSave, CallsOK, CallLocalsOK, RecordedPCs, RecordsKept
  <2>. QED  BY <2>1, <2>2
<1>14. CASE RecheckSecret(c)
  <2>1. CallsOK'
    BY <1>14 DEF RecheckSecret, Return, End, CallsOK, CallPCs
  <2>2. CallLocalsOK'
    BY <1>14 DEF RecheckSecret, Return, End, CallsOK, CallLocalsOK,
          RecordedPCs, RecordsKept
  <2>. QED  BY <2>1, <2>2
<1>15. CASE LoadMaterial(c)
  <2>1. CallsOK'
    BY <1>15 DEF LoadMaterial, Return, End, CallsOK, CallPCs
  <2>2. CallLocalsOK'
    BY <1>15 DEF LoadMaterial, Return, End, CallsOK, CallLocalsOK,
          RecordedPCs, RecordsKept
  <2>. QED  BY <2>1, <2>2
<1>16. CASE Send(c)
  <2>1. CallsOK'
    BY <1>16 DEF Send, Terminal, CallsOK, CallPCs
  <2>2. CallLocalsOK'
    BY <1>16 DEF Send, Terminal, CallsOK, CallLocalsOK, RecordedPCs,
          RecordsKept
  <2>. QED  BY <2>1, <2>2
<1>17. CASE OutcomeAudit(c)
  <2>1. CallsOK'
    BY <1>17 DEF OutcomeAudit, CallsOK, CallPCs
  <2>2. CallLocalsOK'
    BY <1>17 DEF OutcomeAudit, CallsOK, CallLocalsOK, RecordedPCs, RecordsKept
  <2>. QED  BY <2>1, <2>2
<1>18. CASE OutcomeRead(c)
  <2>1. CallsOK'
    BY <1>18 DEF OutcomeRead, StoresOK, CallsOK, CallPCs
  <2>2. CallLocalsOK'
    BY <1>18 DEF OutcomeRead, StoresOK, CallsOK, CallLocalsOK, RecordedPCs,
          RecordsKept
  <2>. QED  BY <2>1, <2>2
<1>19. CASE CutShort(c)
  BY <1>19, EndCalls DEF CutShort
<1>. QED
  BY <1>1, <1>2, <1>3, <1>4, <1>5, <1>6, <1>7, <1>8, <1>9, <1>10, <1>11,
        <1>12, <1>13, <1>14, <1>15, <1>16, <1>17, <1>18, <1>19
     DEF DispatchStep
-----------------------------------------------------------------------------
(* Owner calls.                                                            *)

\* An owner call that returns keeps the types of the owner calls.
LEMMA OwnerReturnTypes ==
  ASSUME OwnersOK, OwnerLocalsOK, NEW p \in Owners, OwnerReturn(p)
  PROVE  OwnersOK' /\ OwnerLocalsOK'
<1>1. OwnersOK'
  BY DEF OwnerReturn, OwnerGoto, OwnersOK, OwnerPCs, NoTarget, Targets
<1>2. OwnerLocalsOK'
  BY DEF OwnerReturn, OwnerGoto, OwnersOK, OwnerLocalsOK, ApprovalPCs,
     AgentGrantOf, DestGrantOf
<1>. QED  BY <1>1, <1>2

\* An approval leaves the dispatch calls, the secrets and the sites alone.
LEMMA ApprovalFrame ==
  ASSUME NEW p \in Owners, ApprovalStep(p)
  PROVE  UNCHANGED <<seen, callVars, active, material, siteDomain, liveSites>>
  BY DEF ApprovalStep, ContinueApproval, BeginApproval, DenySave, DenyAudit,
     ReadApprovedSecret, GrantOnApproval, AuditGrant, LoadApprovedMaterial,
     SendApproved, SaveFinalRecord, AuditApproval, AuditApprovedDispatch,
     CutApproval, durable, callVars

\* An approval keeps the stores typed and deletes no record.
LEMMA ApprovalStores ==
  ASSUME StoresOK, OwnersOK, OwnerLocalsOK, NEW p \in Owners, ApprovalStep(p)
  PROVE  StoresOK' /\ RecordsKept
<1> USE DEF OwnerStep, OwnerAt, ApprovalPCs
<1>1. CASE UNCHANGED durable
  BY <1>1, NoRecordKept DEF StoresOK, durable
<1>2. CASE DenyAudit(p)
  BY <1>2, NoRecordKept
     DEF DenyAudit, AppendAudit, StoresOK, OwnerLocalsOK, Facts, Statuses,
           Terminal
<1>3. CASE AuditGrant(p)
  BY <1>3, NoRecordKept
     DEF AuditGrant, AppendAudit, StoresOK, OwnerLocalsOK, Facts
<1>4. CASE AuditApproval(p)
  BY <1>4, NoRecordKept
     DEF AuditApproval, AppendAudit, StoresOK, OwnerLocalsOK, Facts, Records
<1>5. CASE AuditApprovedDispatch(p)
  BY <1>5, NoRecordKept
     DEF AuditApprovedDispatch, AppendAudit, StoresOK, OwnerLocalsOK, Facts,
         Records
<1>6. CASE DenySave(p)
  <2>1. [orec[p] EXCEPT !.status = "DENIED"] \in Records
    BY <1>6 DEF DenySave, OwnerLocalsOK, Records, Statuses, Terminal
  <2>. QED
    BY <1>6, <2>1, SaveRecordType DEF DenySave, StoresOK, OwnerLocalsOK
<1>7. CASE SaveFinalRecord(p)
  BY <1>7, SaveRecordType DEF SaveFinalRecord, StoresOK, OwnerLocalsOK
<1>8. CASE GrantOnApproval(p)
  <2>1. orec[p].secret \in Secrets /\ orec[p].from \in Calls
    BY <1>8 DEF GrantOnApproval, OwnerLocalsOK, Records
  <2>. QED
    BY <1>8, <2>1, CallOfType, NoRecordKept DEF GrantOnApproval, StoresOK
<1>9. CASE CutApproval(p)
  BY <1>9, NoRecordKept
     DEF CutApproval, AppendAudit, StoresOK, OwnerLocalsOK, Facts, Records
<1>. QED
  BY <1>1, <1>2, <1>3, <1>4, <1>5, <1>6, <1>7, <1>8, <1>9
     DEF ApprovalStep, ContinueApproval, BeginApproval, ReadApprovedSecret,
         LoadApprovedMaterial, SendApproved

\* An approval keeps the history typed.
LEMMA ApprovalHistory ==
  ASSUME HistoryOK, OwnersOK, OwnerLocalsOK, NEW p \in Owners, ApprovalStep(p)
  PROVE  HistoryOK'
<1> USE DEF OwnerStep, OwnerAt, ApprovalPCs
<1>1. CASE UNCHANGED history
  BY <1>1 DEF HistoryOK, history
<1>2. CASE Settle(p) /\ oreq[p] \in RequestIds
  BY <1>2 DEF Settle, HistoryOK
<1>3. CASE DenySave(p)
  BY <1>2, <1>3 DEF DenySave, OwnerLocalsOK
<1>4. CASE SendApproved(p)
  BY <1>2, <1>4 DEF SendApproved, OwnerLocalsOK
<1>. QED
  BY <1>1, <1>3, <1>4
     DEF ApprovalStep, ContinueApproval, BeginApproval, DenyAudit,
         ReadApprovedSecret, GrantOnApproval, AuditGrant,
         LoadApprovedMaterial,
         SaveFinalRecord, AuditApproval, AuditApprovedDispatch, CutApproval

\* An approval knows at its next segment what that segment uses.
LEMMA ApprovalOwners ==
  ASSUME StoresOK, OwnersOK, OwnerLocalsOK, NEW p \in Owners, ApprovalStep(p)
  PROVE  OwnersOK' /\ OwnerLocalsOK'
<1> USE DEF OwnerStep, OwnerAt, OwnerGoto, OwnerLocals
<1>1. CASE \E r \in RequestIds, d \in Decisions : BeginApproval(p, r, d)
  <2>1. PICK r \in RequestIds, d \in Decisions : BeginApproval(p, r, d)
    BY <1>1
  <2>2. requests[r] \in Records
    BY <2>1 DEF BeginApproval, StoresOK, NoRecord
  <2>3. OwnersOK'
    BY <2>1, <2>2 DEF BeginApproval, OwnersOK, OwnerPCs, ApprovalPCs
  <2>4. OwnerLocalsOK'
    BY <2>1, <2>2 DEF BeginApproval, OwnersOK, OwnerLocalsOK, ApprovalPCs,
       AgentGrantOf, DestGrantOf
  <2>. QED  BY <2>3, <2>4
<1>2. CASE DenyAudit(p)
  BY <1>2, OwnerReturnTypes DEF DenyAudit
<1>3. CASE AuditApprovedDispatch(p)
  BY <1>3, OwnerReturnTypes DEF AuditApprovedDispatch
<1>4. CASE DenySave(p)
  <2>1. OwnersOK'
    BY <1>4 DEF DenySave, OwnersOK, OwnerLocalsOK, OwnerPCs, ApprovalPCs
  <2>2. OwnerLocalsOK'
    BY <1>4 DEF DenySave, OwnersOK, OwnerLocalsOK, ApprovalPCs,
          AgentGrantOf, DestGrantOf
  <2>. QED  BY <2>1, <2>2
<1>5. CASE ReadApprovedSecret(p)
  <2>1. CASE OwnerReturn(p)
    BY <2>1, OwnerReturnTypes
  <2>2. CASE orec[p].secret \in active
    <3>1. OwnersOK'
      BY <1>5, <2>2 DEF ReadApprovedSecret, OwnersOK, OwnerPCs, ApprovalPCs
    <3>2. OwnerLocalsOK'
      BY <1>5, <2>2 DEF ReadApprovedSecret, StoresOK, OwnersOK, OwnerLocalsOK,
         ApprovalPCs, AgentGrantOf, DestGrantOf
    <3>. QED  BY <3>1, <3>2
  <2>. QED  BY <1>5, <2>1, <2>2 DEF ReadApprovedSecret
<1>6. CASE GrantOnApproval(p)
  <2>1. OwnersOK'
    BY <1>6 DEF GrantOnApproval, OwnersOK, OwnerLocalsOK, OwnerPCs,
          ApprovalPCs
  <2>2. OwnerLocalsOK'
    BY <1>6 DEF GrantOnApproval, OwnersOK, OwnerLocalsOK, ApprovalPCs,
          AgentGrantOf, DestGrantOf
  <2>. QED  BY <2>1, <2>2
<1>7. CASE AuditGrant(p)
  <2>1. OwnersOK'
    BY <1>7 DEF AuditGrant, OwnersOK, OwnerLocalsOK, OwnerPCs, ApprovalPCs
  <2>2. OwnerLocalsOK'
    BY <1>7 DEF AuditGrant, OwnersOK, OwnerLocalsOK, ApprovalPCs,
          AgentGrantOf, DestGrantOf
  <2>. QED  BY <2>1, <2>2
<1>8. CASE LoadApprovedMaterial(p)
  <2>1. CASE OwnerReturn(p)
    BY <2>1, OwnerReturnTypes
  <2>2. CASE orec[p].secret \in material
    <3>1. OwnersOK'
      BY <1>8, <2>2 DEF LoadApprovedMaterial, OwnersOK, OwnerPCs, ApprovalPCs
    <3>2. OwnerLocalsOK'
      BY <1>8, <2>2 DEF LoadApprovedMaterial, StoresOK, OwnersOK,
            OwnerLocalsOK,
         ApprovalPCs, AgentGrantOf, DestGrantOf
    <3>. QED  BY <3>1, <3>2
  <2>. QED  BY <1>8, <2>1, <2>2 DEF LoadApprovedMaterial
<1>9. CASE SendApproved(p)
  <2>1. OwnersOK'
    BY <1>9 DEF SendApproved, OwnersOK, OwnerLocalsOK, OwnerPCs,
          ApprovalPCs, Records, Executed, Statuses, Terminal
  <2>2. OwnerLocalsOK'
    BY <1>9 DEF SendApproved, OwnersOK, OwnerLocalsOK, ApprovalPCs,
          AgentGrantOf, DestGrantOf, Records, Executed, Statuses, Terminal
  <2>. QED  BY <2>1, <2>2
<1>10. CASE SaveFinalRecord(p)
  <2>1. OwnersOK'
    BY <1>10 DEF SaveFinalRecord, OwnersOK, OwnerLocalsOK, OwnerPCs,
          ApprovalPCs
  <2>2. OwnerLocalsOK'
    BY <1>10 DEF SaveFinalRecord, OwnersOK, OwnerLocalsOK, ApprovalPCs,
          AgentGrantOf, DestGrantOf
  <2>. QED  BY <2>1, <2>2
<1>11. CASE AuditApproval(p)
  <2>1. OwnersOK'
    BY <1>11 DEF AuditApproval, OwnersOK, OwnerLocalsOK, OwnerPCs, ApprovalPCs
  <2>2. OwnerLocalsOK'
    BY <1>11 DEF AuditApproval, OwnersOK, OwnerLocalsOK, ApprovalPCs,
          AgentGrantOf, DestGrantOf
  <2>. QED  BY <2>1, <2>2
<1>12. CASE CutApproval(p)
  BY <1>12, OwnerReturnTypes DEF CutApproval
<1>. QED
  BY <1>1, <1>2, <1>3, <1>4, <1>5, <1>6, <1>7, <1>8, <1>9, <1>10, <1>11,
     <1>12 DEF ApprovalStep, ContinueApproval
-----------------------------------------------------------------------------
(* The other owner operations.                                             *)

\* The other owner operations touch no record, audit entry or dispatch.
LEMMA AdminFrame ==
  ASSUME NEW p \in Owners, AdminStep(p)
  PROVE  UNCHANGED <<UnchangedByAdmin>>
<1>1. CASE BeginAdmin(p)
  BY <1>1 DEF BeginAdmin, BeginAgentGrant, BeginDestGrant,
     BeginDestRevocation, CreateSite, BeginUpdateSite, BeginDeleteSite,
     BeginRemoveSecret, UnchangedByAdmin, durable
<1>2. CASE ContinueAdmin(p)
  BY <1>2 DEF ContinueAdmin, UpsertAgentGrant, DeleteAgentGrant,
     ResolveGrantSite, ResolveRevokeSite, UpsertDestGrant, DeleteDestGrant,
     SaveSite, DropDestGrants, ListDestGrants, ListOrphans, DropOrphans,
     DropSite, ListGrants, DropListedAgentGrant, DropListedDestGrant,
     SaveRemoved, DestroyMaterial, UnchangedByAdmin, durable
<1>. QED  BY <1>1, <1>2 DEF AdminStep

\* The other owner operations keep the stores typed.
LEMMA AdminStores ==
  ASSUME StoresOK, OwnersOK, OwnerLocalsOK, NEW p \in Owners, AdminStep(p)
  PROVE  StoresOK'
<1>1. UNCHANGED <<requests, audit>>
  BY AdminFrame DEF UnchangedByAdmin
<1>2. CASE UNCHANGED durable
  BY <1>2 DEF StoresOK, durable
<1>3. CASE UpsertAgentGrant(p)
  BY <1>1, <1>3 DEF UpsertAgentGrant, OwnerAt, StoresOK, OwnerLocalsOK
<1>4. CASE UpsertDestGrant(p)
  <2>1. DestGrantOf(p) \in Secrets \X SiteIds
    BY <1>4 DEF UpsertDestGrant, OwnerAt, OwnerLocalsOK
  <2>. QED
    BY <1>1, <1>4, <2>1 DEF UpsertDestGrant, StoresOK
<1>5. CASE SaveSite(p)
  BY <1>1, <1>5 DEF SaveSite, OwnerAt, StoresOK, OwnerLocalsOK
<1>6. CASE \E s \in SiteIds, d \in Domains : CreateSite(p, s, d)
  BY <1>1, <1>6 DEF CreateSite, StoresOK
<1>7. CASE /\ active' \subseteq active /\ material' \subseteq material
           /\ agentGrants' \subseteq agentGrants
           /\ destGrants' \subseteq destGrants
           /\ liveSites' \subseteq liveSites /\ UNCHANGED siteDomain
  BY <1>1, <1>7 DEF StoresOK
<1>. QED
  <2>1. CASE BeginAdmin(p)
    BY <1>2, <1>6, <2>1 DEF BeginAdmin, BeginAgentGrant, BeginDestGrant,
       BeginDestRevocation, BeginUpdateSite, BeginDeleteSite,
       BeginRemoveSecret
  <2>2. CASE ContinueAdmin(p)
    BY <1>2, <1>3, <1>4, <1>5, <1>7, <2>2 DEF ContinueAdmin,
       DeleteAgentGrant, ResolveGrantSite, ResolveRevokeSite,
       DeleteDestGrant, DropDestGrants, ListDestGrants, ListOrphans,
       DropOrphans, DropSite, ListGrants, DropListedAgentGrant,
       DropListedDestGrant, SaveRemoved, DestroyMaterial
  <2>. QED  BY <2>1, <2>2 DEF AdminStep

\* An operation that notes a target of its kind and goes to its first step.
LEMMA BeginTypes ==
  ASSUME OwnersOK, OwnerLocalsOK, NEW p \in Owners, NEW op,
         NEW first \in AdminPCs, NEW target \in Targets,
         Begin(p, op, first, target), DOMAIN otodo' = DOMAIN otodo,
         \A q \in Owners : q # p => otodo'[q] = otodo[q],
         first = "grantAgent"
           => target.agent \in Agents /\ target.secret \in Secrets,
         first = "grantDestSite" => target.secret \in Secrets,
         first # "grantDest",
         first = "saveSite"
           => target.site \in SiteIds /\ otodo'[p] \subseteq Domains
  PROVE  OwnersOK' /\ OwnerLocalsOK'
<1> USE DEF Begin, OwnerStep, OwnerAt, OwnerGoto
<1>1. OwnersOK'
  BY DEF OwnersOK, OwnerPCs
<1>2. opc' = [opc EXCEPT ![p] = first] /\ first \notin ApprovalPCs
  BY DEF AdminPCs, ApprovalPCs
<1>3. first \notin {"okGrant", "okSave", "okAudit", "okAgentAudit"}
  BY DEF AdminPCs
<1>4. OwnerLocalsOK'
  BY <1>2, <1>3 DEF OwnersOK, OwnerLocalsOK, AgentGrantOf, DestGrantOf
<1>. QED  BY <1>1, <1>4

\* An owner operation begins with a target of its kind.
LEMMA BeginAdminOwners ==
  ASSUME StoresOK, OwnersOK, OwnerLocalsOK, NEW p \in Owners, BeginAdmin(p)
  PROVE  OwnersOK' /\ OwnerLocalsOK'
<1> USE DEF NoTarget, Targets, AdminPCs
<1>1. CASE \E a \in Agents, s \in Secrets : BeginAgentGrant(p, a, s)
  BY <1>1, BeginTypes DEF BeginAgentGrant
<1>2. CASE \E s \in Secrets, d \in Domains : BeginDestGrant(p, s, d)
  BY <1>2, BeginTypes DEF BeginDestGrant
<1>3. CASE \E s \in Secrets, w \in Domains \cup SiteIds :
             BeginDestRevocation(p, s, w)
  BY <1>3, BeginTypes DEF BeginDestRevocation
<1>4. CASE \E s \in SiteIds, d \in Domains : CreateSite(p, s, d)
  BY <1>4, OwnersFrame DEF CreateSite
<1>5. CASE \E s \in SiteIds, d \in Domains : BeginUpdateSite(p, s, d)
  <2>1. PICK s \in SiteIds, d \in Domains : BeginUpdateSite(p, s, d)
    BY <1>5
  <2>2. otodo' = [otodo EXCEPT ![p] = {d}] /\ DOMAIN otodo = Owners
    BY <2>1 DEF BeginUpdateSite, OwnersOK
  <2>3. /\ DOMAIN otodo' = DOMAIN otodo /\ otodo'[p] \subseteq Domains
        /\ \A q \in Owners : q # p => otodo'[q] = otodo[q]
    BY <2>2
  <2>4. [NoTarget EXCEPT !.site = s] \in Targets
    BY DEF NoTarget, Targets
  <2>5. [NoTarget EXCEPT !.site = s].site \in SiteIds
    BY DEF NoTarget
  <2>. QED
    BY <2>1, <2>3, <2>4, <2>5, BeginTypes DEF BeginUpdateSite
<1>6. CASE \E s \in SiteIds \cup Domains : BeginDeleteSite(p, s)
  <2>1. PICK s \in SiteIds \cup Domains : BeginDeleteSite(p, s)
    BY <1>6
  <2>2. /\ DOMAIN otodo' = DOMAIN otodo
        /\ \A q \in Owners : q # p => otodo'[q] = otodo[q]
    BY <2>1 DEF BeginDeleteSite, OwnersOK
  <2>3. [NoTarget EXCEPT !.site = s] \in Targets
    BY DEF NoTarget, Targets
  <2>. QED
    BY <2>1, <2>2, <2>3, BeginTypes DEF BeginDeleteSite
<1>7. CASE \E s \in Secrets : BeginRemoveSecret(p, s)
  BY <1>7, BeginTypes DEF BeginRemoveSecret
<1>. QED
  BY <1>1, <1>2, <1>3, <1>4, <1>5, <1>6, <1>7 DEF BeginAdmin

\* A step inside an operation that needs nothing of its locals.
LEMMA AdminGotoTypes ==
  ASSUME OwnersOK, OwnerLocalsOK, NEW p \in Owners,
         NEW next \in {"revokeDest", "listDest", "listOrphans", "dropOrphans",
                       "dropSite", "dropListed", "destroyMaterial"},
         OwnerGoto(p, next), UNCHANGED <<oreq, odecision, orec>>,
         otarget' \in [Owners -> Targets], DOMAIN otodo' = DOMAIN otodo,
         \A q \in Owners :
           q # p => otodo'[q] = otodo[q] /\ otarget'[q] = otarget[q]
  PROVE  OwnersOK' /\ OwnerLocalsOK'
<1>1. OwnersOK'
  BY DEF OwnerGoto, OwnersOK, OwnerPCs, AdminPCs
<1>2. OwnerLocalsOK'
  BY DEF OwnerGoto, OwnersOK, OwnerLocalsOK, ApprovalPCs, AgentGrantOf,
     DestGrantOf
<1>. QED  BY <1>1, <1>2

\* An owner operation keeps a target of the kind its next segment uses.
LEMMA ContinueAdminOwners ==
  ASSUME StoresOK, OwnersOK, OwnerLocalsOK, NEW p \in Owners,
         ContinueAdmin(p)
  PROVE  OwnersOK' /\ OwnerLocalsOK'
<1> USE DEF OwnerStep, OwnerAt
<1>1. CASE OwnerReturn(p)
  BY <1>1, OwnerReturnTypes
<1>2. CASE ResolveGrantSite(p)
  <2>1. CASE /\ OwnerGoto(p, "grantDest")
             /\ \E s \in SitesOf(otarget[p].site) :
                  otarget' = [otarget EXCEPT ![p].site = s]
             /\ UNCHANGED <<oreq, odecision, orec, otodo>>
    <3>1. PICK s \in SiteIds : otarget' = [otarget EXCEPT ![p].site = s]
      BY <2>1 DEF SitesOf, StoresOK
    <3>2. otarget[p].secret \in Secrets
      BY <1>2 DEF ResolveGrantSite, OwnerLocalsOK
    <3>3. OwnersOK'
      <4>1. [otarget[p] EXCEPT !.site = s] \in Targets
        BY DEF OwnersOK, Targets
      <4>2. otarget' \in [Owners -> Targets]
        BY <3>1, <4>1 DEF OwnersOK
      <4>. QED
        BY <2>1, <4>2 DEF OwnerGoto, OwnersOK, OwnerPCs, AdminPCs
    <3>4. OwnerLocalsOK'
      BY <2>1, <3>1, <3>2 DEF OwnerGoto, OwnersOK, OwnerLocalsOK, Targets,
         ApprovalPCs, AgentGrantOf, DestGrantOf
    <3>. QED  BY <3>3, <3>4
  <2>. QED  BY <1>1, <1>2, <2>1 DEF ResolveGrantSite
<1>3. CASE ResolveRevokeSite(p)
  <2>1. PICK s \in Targets :
          otarget' = [otarget EXCEPT ![p].site = s.site]
    <3>1. otarget[p] \in Targets
      BY DEF OwnersOK
    <3>2. PICK w \in SiteIds \cup Domains \cup {Nil} :
            otarget' = [otarget EXCEPT ![p].site = w]
      BY <1>3, <3>1 DEF ResolveRevokeSite, SitesOf, StoresOK, Targets
    <3>3. [otarget[p] EXCEPT !.site = w] \in Targets
      BY <3>1, <3>2 DEF Targets
    <3>. QED  BY <3>1, <3>2, <3>3 DEF Targets
  <2>2. otarget' \in [Owners -> Targets]
    BY <2>1 DEF OwnersOK, Targets
  <2>. QED
    BY <1>3, <2>1, <2>2, AdminGotoTypes DEF ResolveRevokeSite, OwnersOK
<1>4. CASE DropDestGrants(p)
  BY <1>4, AdminGotoTypes DEF DropDestGrants, OwnersOK
<1>5. CASE ListDestGrants(p)
  BY <1>5, AdminGotoTypes DEF ListDestGrants, OwnersOK
<1>6. CASE ListOrphans(p)
  BY <1>6, AdminGotoTypes DEF ListOrphans, OwnersOK
<1>7. CASE DropOrphans(p)
  BY <1>7, AdminGotoTypes DEF DropOrphans, OwnersOK
<1>8. CASE ListGrants(p)
  BY <1>8, AdminGotoTypes DEF ListGrants, OwnersOK
<1>9. CASE DropListedAgentGrant(p)
  BY <1>9, AdminGotoTypes DEF DropListedAgentGrant, OwnersOK
<1>10. CASE DropListedDestGrant(p)
  BY <1>10, AdminGotoTypes DEF DropListedDestGrant, OwnersOK
<1>11. CASE SaveRemoved(p)
  BY <1>11, AdminGotoTypes DEF SaveRemoved, OwnerLocals, OwnersOK
<1>. QED
  BY <1>1, <1>2, <1>3, <1>4, <1>5, <1>6, <1>7, <1>8, <1>9, <1>10, <1>11
     DEF ContinueAdmin, UpsertAgentGrant, DeleteAgentGrant, UpsertDestGrant,
         DeleteDestGrant, SaveSite, DropSite, DestroyMaterial

-----------------------------------------------------------------------------
(* The whole vault.                                                        *)

\* The type invariant holds initially.
LEMMA InitTypes == Init => TypeInv
<1> SUFFICES ASSUME Init PROVE TypeInv
  OBVIOUS
<1>1. StoresOK
  BY DEF Init, StoresOK
<1>2. CallsOK
  BY DEF Init, CallsOK, CallPCs
<1>3. OwnersOK
  BY DEF Init, OwnersOK, OwnerPCs, NoTarget, Targets
<1>4. HistoryOK
  BY DEF Init, HistoryOK
<1>5. CallLocalsOK /\ OwnerLocalsOK
  BY DEF Init, CallLocalsOK, RecordedPCs, OwnerLocalsOK, ApprovalPCs
<1>. QED  BY <1>1, <1>2, <1>3, <1>4, <1>5 DEF TypeInv, TypeOK

\* The death of the process keeps the type invariant.
LEMMA CrashTypes ==
  ASSUME TypeInv, Crash
  PROVE  TypeInv'
<1> USE DEF TypeInv, TypeOK
<1>1. StoresOK'
  BY DEF Crash, durable, StoresOK
<1>2. CallsOK'
  BY DEF Crash, CallsOK, CallPCs
<1>3. OwnersOK'
  BY DEF Crash, OwnersOK, OwnerPCs, NoTarget, Targets
<1>4. HistoryOK'
  BY DEF Crash, HistoryOK
<1>5. CallLocalsOK' /\ OwnerLocalsOK'
  BY DEF Crash, CallLocalsOK, RecordedPCs, OwnerLocalsOK, ApprovalPCs
<1>. QED  BY <1>1, <1>2, <1>3, <1>4, <1>5

\* Every step keeps the type invariant.
LEMMA TypeStep ==
  ASSUME TypeInv, [Next]_vars
  PROVE  TypeInv'
<1> USE DEF TypeInv, TypeOK
<1>1. CASE UNCHANGED <<callVars, ownVars, history>> /\ UNCHANGED durable
           /\ seen' \subseteq seen
  <2>1. StoresOK' /\ RecordsKept
    BY <1>1, NoRecordKept DEF StoresOK, durable
  <2>2. HistoryOK'
    BY <1>1 DEF HistoryOK, history
  <2>. QED  BY <1>1, <2>1, <2>2, CallsFrame, OwnersFrame
<1>2. ASSUME NEW c \in Calls, DispatchStep(c) PROVE TypeInv'
  <2>1. StoresOK' /\ RecordsKept
    BY <1>2, DispatchStores
  <2>. QED
    BY <1>2, <2>1, DispatchCalls, DispatchHistory, DispatchFrame, OwnersFrame
<1>3. ASSUME NEW p \in Owners, ApprovalStep(p) PROVE TypeInv'
  <2>1. StoresOK' /\ RecordsKept
    BY <1>3, ApprovalStores
  <2>2. UNCHANGED callVars /\ seen' \subseteq seen
    BY <1>3, ApprovalFrame
  <2>. QED
    BY <1>3, <2>1, <2>2, ApprovalOwners, ApprovalHistory, CallsFrame
<1>4. ASSUME NEW p \in Owners, AdminStep(p) PROVE TypeInv'
  <2>1. UNCHANGED <<requests, seen, callVars, history>>
    BY <1>4, AdminFrame DEF UnchangedByAdmin
  <2>2. StoresOK' /\ RecordsKept
    BY <1>4, <2>1, AdminStores, NoRecordKept
  <2>3. OwnersOK' /\ OwnerLocalsOK'
    BY <1>4, BeginAdminOwners, ContinueAdminOwners DEF AdminStep
  <2>4. HistoryOK'
    BY <2>1 DEF HistoryOK, history
  <2>. QED  BY <2>1, <2>2, <2>3, <2>4, CallsFrame
<1>5. CASE Crash
  BY <1>5, CrashTypes
<1>6. CASE \E key \in Agents \X RequestIds : Forget(key)
  BY <1>1, <1>6 DEF Forget
<1>7. CASE UNCHANGED vars
  BY <1>1, <1>7 DEF vars
<1>. QED  BY <1>2, <1>3, <1>4, <1>5, <1>6, <1>7 DEF Next

(***************************************************************************)
(* Every reachable state of the vault is well typed, and every handler     *)
(* finds the record, the target and the outcome its next segment uses.     *)
(***************************************************************************)
THEOREM TypeCorrect == Spec => []TypeInv
<1>1. TypeInv /\ [Next]_vars => TypeInv'
  BY TypeStep
<1>. QED  BY InitTypes, <1>1, PTL DEF Spec

\* Every variable has its type in every reachable state.
THEOREM TypesHold == Spec => []TypeOK
<1>1. TypeInv => TypeOK
  BY DEF TypeInv
<1>. QED  BY TypeCorrect, <1>1, PTL
=============================================================================
