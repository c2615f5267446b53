------------------------- MODULE VaultDispatchProofs -------------------------
(***************************************************************************)
(* Proofs about VaultDispatch: the credits a request was issued cover what *)
(* was settled for it and everything that still may be, so the vault       *)
(* implements ExecutionLedger; what happened is logged; a record nobody    *)
(* works on was stranded for a reason; and, as long as certain owner calls *)
(* do not overlap, the vault implements RequestLife and leaves no dangling *)
(* grant.                                                                  *)
(***************************************************************************)
EXTENDS VaultDispatchTypes, FiniteSetTheorems

-----------------------------------------------------------------------------
(***************************************************************************)
(* Who still may settle a request.  A dispatch handler holds the credit of *)
(* its delivery until it executes, denies or hands it to the record by     *)
(* saving AWAITING_APPROVAL.  An owner call takes the claim over when it   *)
(* reads that status and keeps it until it settles; what it then finds in  *)
(* the record, until it has saved its own result over it, is void.         *)
(***************************************************************************)
HoldingPCs ==
  {"secret", "agentGrant", "site", "destGrant", "record", "announce",
   "askRead", "askSave", "recheck", "load", "send"}

HoldersIn(f, r) == {c \in Calls : Id(c) = r /\ f[c] \in HoldingPCs}
Holders(r) == HoldersIn(pc, r)

ClaimingPCs ==
  {"denySave", "okSecret", "okGrant", "okGrantAudit", "okLoad", "okSend"}

HasClaim(p, r) ==
  IF oreq[p] = r /\ opc[p] \in ClaimingPCs \cup {"okSave"}
    THEN opc[p] \in ClaimingPCs
    ELSE requests[r].status = "AWAITING_APPROVAL"

Claim(p, r) == IF HasClaim(p, r) THEN 1 ELSE 0

(***************************************************************************)
(* Credits cover what was settled and everything that still may be: what   *)
(* makes SettledWithinAccepted inductive over the handlers' segments.      *)
(***************************************************************************)
CreditsCoverClaims ==
  \A p \in Owners, r \in RequestIds :
    dispatchSends[r] + settled[<<p, r>>] + Cardinality(Holders(r)) + Claim(p, r)
      <= accepted[r] + crashes

-----------------------------------------------------------------------------

(* The handlers that hold a credit of a request.                           *)

\* The holders of a request can be counted.
LEMMA HoldersFinite ==
  ASSUME NEW f, NEW r
  PROVE  /\ IsFiniteSet(HoldersIn(f, r))
         /\ Cardinality(HoldersIn(f, r)) \in Nat
BY CallsAssumption, FS_Subset, FS_CardinalityType DEF HoldersIn

\* Fewer handlers hold fewer credits.
LEMMA FewerHolders ==
  ASSUME NEW f, NEW g, NEW r, HoldersIn(g, r) \subseteq HoldersIn(f, r)
  PROVE  Cardinality(HoldersIn(g, r)) <= Cardinality(HoldersIn(f, r))
BY HoldersFinite, FS_Subset

\* A handler that stops holding takes one from the count.
LEMMA HolderLeaves ==
  ASSUME NEW f, NEW g, NEW r, NEW c \in HoldersIn(f, r),
         HoldersIn(g, r) = HoldersIn(f, r) \ {c}
  PROVE  Cardinality(HoldersIn(g, r)) = Cardinality(HoldersIn(f, r)) - 1
BY HoldersFinite, FS_RemoveElement

\* A handler that begins to hold adds one to the count.
LEMMA HolderComes ==
  ASSUME NEW f, NEW g, NEW r, NEW c, c \notin HoldersIn(f, r),
         HoldersIn(g, r) = HoldersIn(f, r) \cup {c}
  PROVE  Cardinality(HoldersIn(g, r)) = Cardinality(HoldersIn(f, r)) + 1
BY HoldersFinite, FS_AddElement

\* A handler that moves changes the holders of its own request only.
LEMMA Moves ==
  ASSUME CallsOK, NEW c \in Calls, NEW next, pc' = [pc EXCEPT ![c] = next]
  PROVE  /\ \A r \in RequestIds : r # Id(c) => HoldersIn(pc', r) = Holders(r)
         /\ next \in HoldingPCs
              => HoldersIn(pc', Id(c)) = Holders(Id(c)) \cup {c}
         /\ c \in Holders(Id(c)) <=> pc[c] \in HoldingPCs
BY DEF CallsOK, Holders, HoldersIn

\* A move out of the holding positions takes one holder away.
LEMMA MovesOut ==
  ASSUME CallsOK, NEW c \in Calls, NEW next, pc' = [pc EXCEPT ![c] = next],
         pc[c] \in HoldingPCs, next \notin HoldingPCs
  PROVE  /\ c \in Holders(Id(c))
         /\ HoldersIn(pc', Id(c)) = Holders(Id(c)) \ {c}
BY DEF CallsOK, Holders, HoldersIn

\* A move that does not enter the holding positions adds no holder.
LEMMA MovesWithin ==
  ASSUME CallsOK, NEW c \in Calls, NEW next, pc' = [pc EXCEPT ![c] = next],
         next \in HoldingPCs => pc[c] \in HoldingPCs
  PROVE  \A r \in RequestIds : HoldersIn(pc', r) \subseteq Holders(r)
BY DEF CallsOK, Holders, HoldersIn

-----------------------------------------------------------------------------
(* Claims of owner calls.                                                  *)

\* A claim counts for one or nothing, before a step and after it.
LEMMA ClaimIsBit ==
  ASSUME NEW p, NEW r
  PROVE  /\ Claim(p, r) \in {0, 1} /\ Claim(p, r)' \in {0, 1}
         /\ Claim(p, r) = 1 <=> HasClaim(p, r)
         /\ Claim(p, r)' = 1 <=> HasClaim(p, r)'
BY DEF Claim

NoNewClaim ==
  \A p \in Owners, r \in RequestIds : HasClaim(p, r)' => HasClaim(p, r)

\* What a handler leaves to the owners: it may void a claim, not make one.
LEMMA HandlerClaims ==
  ASSUME UNCHANGED ownVars,
         \A r \in RequestIds :
           requests'[r].status = "AWAITING_APPROVAL"
             => requests[r].status = "AWAITING_APPROVAL"
  PROVE  NoNewClaim
BY DEF NoNewClaim, HasClaim, ownVars

\* A step that issues and spends nothing, and makes no holder and no claim.
LEMMA Uneventful ==
  ASSUME TypeOK, CreditsCoverClaims, UNCHANGED history, NoNewClaim,
         \A r \in RequestIds : HoldersIn(pc', r) \subseteq Holders(r)
  PROVE  CreditsCoverClaims'
<1> SUFFICES ASSUME NEW p \in Owners, NEW r \in RequestIds
             PROVE  dispatchSends[r] + settled[<<p, r>>]
                      + Cardinality(HoldersIn(pc', r)) + Claim(p, r)'
                      <= accepted[r] + crashes
  BY DEF CreditsCoverClaims, Holders, history
<1>1. Cardinality(HoldersIn(pc', r)) <= Cardinality(Holders(r))
  BY FewerHolders DEF Holders
<1>2. Claim(p, r)' <= Claim(p, r)
  BY DEF NoNewClaim, Claim
<1>3. dispatchSends[r] + settled[<<p, r>>] + Cardinality(Holders(r))
        + Claim(p, r) <= accepted[r] + crashes
  BY DEF CreditsCoverClaims
<1>4. /\ dispatchSends[r] \in Nat /\ settled[<<p, r>>] \in Nat
      /\ accepted[r] \in Nat /\ crashes \in Nat
  BY DEF TypeOK, HistoryOK
<1>5. /\ Cardinality(HoldersIn(pc', r)) \in Nat
      /\ Cardinality(Holders(r)) \in Nat
  BY HoldersFinite DEF Holders
<1>. QED
  BY <1>1, <1>2, <1>3, <1>4, <1>5, ClaimIsBit

\* The sums of CreditsCoverClaims are sums of naturals.
LEMMA SumsAreNat ==
  ASSUME TypeOK, NEW p \in Owners, NEW r \in RequestIds
  PROVE  /\ dispatchSends[r] \in Nat /\ settled[<<p, r>>] \in Nat
         /\ accepted[r] \in Nat /\ crashes \in Nat
         /\ Cardinality(Holders(r)) \in Nat
         /\ Cardinality(HoldersIn(pc', r)) \in Nat
BY HoldersFinite DEF TypeOK, HistoryOK, Holders

-----------------------------------------------------------------------------
(* Dispatch handlers.                                                      *)

\* A delivery the replay guard lets through comes with its credit.
LEMMA AcceptedIsCovered ==
  ASSUME TypeInv, CreditsCoverClaims, NEW c \in Calls, AssertNotReplayed(c)
  PROVE  CreditsCoverClaims'
<1> USE DEF TypeInv, TypeOK
<1>1. NoNewClaim
  BY HandlerClaims DEF AssertNotReplayed, durable
<1>2. pc[c] \notin HoldingPCs
  BY DEF AssertNotReplayed, Step, At, HoldingPCs
<1>3. CASE ReplayKey(c) \in seen
  <2>1. pc' = [pc EXCEPT ![c] = "reject"] /\ UNCHANGED history
    BY <1>3 DEF AssertNotReplayed, Step, Goto, history
  <2>2. \A r \in RequestIds : HoldersIn(pc', r) \subseteq Holders(r)
    <3>1. "reject" \notin HoldingPCs
      BY DEF HoldingPCs
    <3>. QED  BY <2>1, <3>1, MovesWithin
  <2>. QED  BY <1>1, <2>1, <2>2, Uneventful
<1>4. CASE ReplayKey(c) \notin seen
  <2>1. /\ pc' = [pc EXCEPT ![c] = "secret"]
        /\ accepted' = [accepted EXCEPT ![Id(c)] = @ + 1]
        /\ UNCHANGED <<dispatchSends, settled, crashes>>
    BY <1>4 DEF AssertNotReplayed, Step, Goto
  <2>2. SUFFICES ASSUME NEW p \in Owners, NEW r \in RequestIds
                 PROVE  dispatchSends[r] + settled[<<p, r>>]
                          + Cardinality(HoldersIn(pc', r)) + Claim(p, r)'
                          <= accepted'[r] + crashes
    BY <2>1 DEF CreditsCoverClaims, Holders
  <2>3. Claim(p, r)' <= Claim(p, r)
    BY <1>1 DEF NoNewClaim, Claim
  <2>4. dispatchSends[r] + settled[<<p, r>>] + Cardinality(Holders(r))
          + Claim(p, r) <= accepted[r] + crashes
    BY DEF CreditsCoverClaims
  <2>5. CASE r = Id(c)
    <3>1. c \notin Holders(r) /\ HoldersIn(pc', r) = Holders(r) \cup {c}
      BY <1>2, <2>1, <2>5, Moves DEF HoldingPCs
    <3>2. Cardinality(HoldersIn(pc', r)) = Cardinality(Holders(r)) + 1
      BY <3>1, HolderComes DEF Holders
    <3>3. accepted'[r] = accepted[r] + 1
      BY <2>1, <2>5 DEF HistoryOK
    <3>. QED
      BY <2>3, <2>4, <3>2, <3>3, ClaimIsBit, SumsAreNat
  <2>6. CASE r # Id(c)
    <3>1. HoldersIn(pc', r) = Holders(r) /\ accepted'[r] = accepted[r]
      BY <2>1, <2>6, Moves DEF HistoryOK
    <3>. QED
      BY <2>3, <2>4, <3>1, ClaimIsBit, SumsAreNat
  <2>. QED  BY <2>5, <2>6
<1>. QED  BY <1>3, <1>4

\* Saving AWAITING_APPROVAL turns the handler's credit into claims.
LEMMA AskedIsCovered ==
  ASSUME TypeInv, CreditsCoverClaims, NEW c \in Calls, AskSave(c)
  PROVE  CreditsCoverClaims'
<1> USE DEF TypeInv, TypeOK
<1>1. /\ pc[c] \in HoldingPCs /\ pc' = [pc EXCEPT ![c] = "askAudit"]
      /\ UNCHANGED <<ownVars, history>>
      /\ \A r \in RequestIds : r # Id(c) => requests'[r] = requests[r]
  BY DEF AskSave, Step, At, Goto, HoldingPCs, SaveRecord, history, StoresOK
<1>2. SUFFICES ASSUME NEW p \in Owners, NEW r \in RequestIds
               PROVE  dispatchSends[r] + settled[<<p, r>>]
                        + Cardinality(HoldersIn(pc', r)) + Claim(p, r)'
                        <= accepted[r] + crashes
  BY <1>1 DEF CreditsCoverClaims, Holders, history
<1>3. dispatchSends[r] + settled[<<p, r>>] + Cardinality(Holders(r))
        + Claim(p, r) <= accepted[r] + crashes
  BY DEF CreditsCoverClaims
<1>4. CASE r = Id(c)
  <2>1. c \in Holders(r) /\ HoldersIn(pc', r) = Holders(r) \ {c}
    <3>1. "askAudit" \notin HoldingPCs
      BY DEF HoldingPCs
    <3>. QED  BY <1>1, <1>4, <3>1, MovesOut
  <2>2. Cardinality(HoldersIn(pc', r)) = Cardinality(Holders(r)) - 1
    BY <2>1, HolderLeaves DEF Holders
  <2>. QED
    BY <1>3, <2>2, ClaimIsBit, SumsAreNat
<1>5. CASE r # Id(c)
  <2>1. HoldersIn(pc', r) = Holders(r)
    BY <1>1, <1>5, Moves
  <2>2. HasClaim(p, r)' <=> HasClaim(p, r)
    BY <1>1, <1>5 DEF HasClaim, ownVars
  <2>3. Claim(p, r)' <= Claim(p, r)
    BY <2>2 DEF Claim
  <2>. QED
    BY <1>3, <2>1, <2>3, ClaimIsBit, SumsAreNat
<1>. QED  BY <1>4, <1>5

\* An execution spends the credit its handler held.
LEMMA SentIsCovered ==
  ASSUME TypeInv, CreditsCoverClaims, NEW c \in Calls, Send(c)
  PROVE  CreditsCoverClaims'
<1> USE DEF TypeInv, TypeOK
<1>1. /\ pc[c] \in HoldingPCs /\ pc' = [pc EXCEPT ![c] = "outAudit"]
      /\ dispatchSends' = [dispatchSends EXCEPT ![Id(c)] = @ + 1]
      /\ UNCHANGED <<ownVars, requests, accepted, settled, crashes>>
  BY DEF Send, Step, At, Goto, HoldingPCs, durable
<1>2. NoNewClaim
  BY <1>1, HandlerClaims
<1>3. SUFFICES ASSUME NEW p \in Owners, NEW r \in RequestIds
               PROVE  dispatchSends'[r] + settled[<<p, r>>]
                        + Cardinality(HoldersIn(pc', r)) + Claim(p, r)'
                        <= accepted[r] + crashes
  BY <1>1 DEF CreditsCoverClaims, Holders
<1>4. dispatchSends[r] + settled[<<p, r>>] + Cardinality(Holders(r))
        + Claim(p, r) <= accepted[r] + crashes
  BY DEF CreditsCoverClaims
<1>5. Claim(p, r)' <= Claim(p, r)
  BY <1>2 DEF NoNewClaim, Claim
<1>6. CASE r = Id(c)
  <2>1. c \in Holders(r) /\ HoldersIn(pc', r) = Holders(r) \ {c}
    <3>1. "outAudit" \notin HoldingPCs
      BY DEF HoldingPCs
    <3>. QED  BY <1>1, <1>6, <3>1, MovesOut
  <2>2. Cardinality(HoldersIn(pc', r)) = Cardinality(Holders(r)) - 1
    BY <2>1, HolderLeaves DEF Holders
  <2>3. dispatchSends'[r] = dispatchSends[r] + 1
    BY <1>1, <1>6 DEF HistoryOK
  <2>. QED
    BY <1>4, <1>5, <2>2, <2>3, ClaimIsBit, SumsAreNat
<1>7. CASE r # Id(c)
  <2>1. HoldersIn(pc', r) = Holders(r) /\ dispatchSends'[r] = dispatchSends[r]
    BY <1>1, <1>7, Moves DEF HistoryOK
  <2>. QED
    BY <1>4, <1>5, <2>1, ClaimIsBit, SumsAreNat
<1>. QED  BY <1>6, <1>7

\* Every other step of a handler moves it to a place that holds no credit,
\* or between two places that do, and makes no record await approval.
LEMMA HandlerIsUneventful ==
  ASSUME TypeInv, NEW c \in Calls, DispatchStep(c),
         ~AssertNotReplayed(c), ~AskSave(c), ~Send(c)
  PROVE  /\ UNCHANGED history
         /\ \E next \in CallPCs :
              /\ pc' = [pc EXCEPT ![c] = next]
              /\ next \in HoldingPCs => pc[c] \in HoldingPCs
         /\ \A r \in RequestIds :
              requests'[r].status = "AWAITING_APPROVAL"
                => requests[r].status = "AWAITING_APPROVAL"
<1> USE DEF Step, At, Goto, End, Return, HoldingPCs, CallPCs, history, durable
<1>1. CASE Verify(c) \/ RejectDelivery(c)
  BY <1>1 DEF Verify, RejectDelivery
<1>2. CASE ReadSecret(c) \/ ReadAgentGrant(c)
  BY <1>2 DEF ReadSecret, ReadAgentGrant
<1>3. CASE ReadSite(c) \/ ReadDestGrant(c)
  BY <1>3 DEF ReadSite, ReadDestGrant
<1>4. CASE RecordRequest(c)
  BY <1>4 DEF RecordRequest, SaveRecord, TypeInv, TypeOK, StoresOK
<1>5. CASE AnnounceRequest(c)
  BY <1>5 DEF AnnounceRequest
<1>6. CASE AskRead(c) \/ AskAudit(c)
  BY <1>6 DEF AskRead, AskAudit
<1>7. CASE RecheckSecret(c) \/ LoadMaterial(c)
  BY <1>7 DEF RecheckSecret, LoadMaterial
<1>8. CASE OutcomeAudit(c) \/ OutcomeRead(c)
  BY <1>8 DEF OutcomeAudit, OutcomeRead
<1>9. CASE OutcomeSave(c)
  <2>1. outcome[c] # "AWAITING_APPROVAL" /\ base[c] \in Records
    BY <1>9 DEF OutcomeSave, TypeInv, CallLocalsOK, Terminal, Executed
  <2>2. [base[c] EXCEPT !.status = outcome[c]].status # "AWAITING_APPROVAL"
    BY <2>1 DEF Records
  <2>. QED
    BY <1>9, <2>2 DEF OutcomeSave, SaveRecord, TypeInv, TypeOK, StoresOK
<1>10. CASE CutShort(c)
  BY <1>10 DEF CutShort
<1>. QED
  BY <1>1, <1>2, <1>3, <1>4, <1>5, <1>6, <1>7, <1>8, <1>9, <1>10
     DEF DispatchStep

\* A dispatch handler keeps credits ahead of claims.
LEMMA DispatchIsCovered ==
  ASSUME TypeInv, CreditsCoverClaims, NEW c \in Calls, DispatchStep(c)
  PROVE  CreditsCoverClaims'
<1>1. CASE AssertNotReplayed(c)
  BY <1>1, AcceptedIsCovered
<1>2. CASE AskSave(c)
  BY <1>2, AskedIsCovered
<1>3. CASE Send(c)
  BY <1>3, SentIsCovered
<1>4. CASE ~AssertNotReplayed(c) /\ ~AskSave(c) /\ ~Send(c)
  <2>1. NoNewClaim
    BY <1>4, HandlerIsUneventful, DispatchFrame, HandlerClaims
  <2>2. PICK next \in CallPCs :
          /\ pc' = [pc EXCEPT ![c] = next]
          /\ next \in HoldingPCs => pc[c] \in HoldingPCs
    BY <1>4, HandlerIsUneventful
  <2>3. \A r \in RequestIds : HoldersIn(pc', r) \subseteq Holders(r)
    BY <2>2, MovesWithin DEF TypeInv, TypeOK
  <2>. QED
    BY <1>4, <2>1, <2>3, HandlerIsUneventful, Uneventful DEF TypeInv
<1>. QED  BY <1>1, <1>2, <1>3, <1>4

-----------------------------------------------------------------------------
(* Owner calls.                                                            *)

\* An owner call concerns its own claims and what the record says.
LEMMA OwnerClaims ==
  ASSUME NEW p \in Owners,
         \A q \in Owners : q # p => opc'[q] = opc[q] /\ oreq'[q] = oreq[q],
         \A r \in RequestIds :
           requests'[r].status = "AWAITING_APPROVAL"
             => requests[r].status = "AWAITING_APPROVAL",
         \A r \in RequestIds : HasClaim(p, r)' => HasClaim(p, r)
  PROVE  NoNewClaim
<1> SUFFICES ASSUME NEW q \in Owners, NEW r \in RequestIds, HasClaim(q, r)'
             PROVE  HasClaim(q, r)
  BY DEF NoNewClaim
<1>1. CASE q = p
  BY <1>1
<1>2. CASE q # p
  BY <1>2 DEF HasClaim
<1>. QED  BY <1>1, <1>2

\* A settlement spends the claim of the call that makes it.
LEMMA SettlementIsCovered ==
  ASSUME TypeInv, CreditsCoverClaims, NEW p \in Owners,
         oreq[p] \in RequestIds, Settle(p), UNCHANGED <<pc, oreq>>, NoNewClaim,
         HasClaim(p, oreq[p]), ~HasClaim(p, oreq[p])'
  PROVE  CreditsCoverClaims'
<1> DEFINE r0 == oreq[p]
<1> USE DEF TypeInv, TypeOK
<1>1. /\ settled' = [settled EXCEPT ![<<p, r0>>] = @ + 1]
      /\ UNCHANGED <<accepted, dispatchSends, crashes>>
  BY DEF Settle
<1>2. SUFFICES ASSUME NEW q \in Owners, NEW r \in RequestIds
               PROVE  dispatchSends[r] + settled'[<<q, r>>]
                        + Cardinality(Holders(r)) + Claim(q, r)'
                        <= accepted[r] + crashes
  BY <1>1 DEF CreditsCoverClaims, Holders
<1>3. dispatchSends[r] + settled[<<q, r>>] + Cardinality(Holders(r))
        + Claim(q, r) <= accepted[r] + crashes
  BY DEF CreditsCoverClaims
<1>4. CASE q = p /\ r = r0
  <2>1. settled'[<<q, r>>] = settled[<<q, r>>] + 1
    BY <1>1, <1>4 DEF HistoryOK
  <2>2. Claim(q, r) = 1
    BY <1>4 DEF Claim
  <2>3. Claim(q, r)' = 0
    BY <1>4 DEF Claim, HasClaim
  <2>. QED
    BY <1>3, <2>1, <2>2, <2>3, SumsAreNat
<1>5. CASE ~(q = p /\ r = r0)
  <2>1. <<q, r>> # <<p, r0>>
    BY <1>5
  <2>2. settled'[<<q, r>>] = settled[<<q, r>>]
    BY <1>1, <2>1 DEF HistoryOK
  <2>3. Claim(q, r)' <= Claim(q, r)
    BY DEF NoNewClaim, Claim
  <2>. QED
    BY <1>3, <2>2, <2>3, ClaimIsBit, SumsAreNat
<1>. QED  BY <1>4, <1>5

\* A denial spends the claim its owner call holds.
LEMMA DenialIsCovered ==
  ASSUME TypeInv, CreditsCoverClaims, NEW p \in Owners, DenySave(p)
  PROVE  CreditsCoverClaims'
<1> USE DEF TypeInv, TypeOK
<1>1. /\ opc[p] = "denySave" /\ opc' = [opc EXCEPT ![p] = "denyAudit"]
      /\ UNCHANGED <<oreq, pc>> /\ Settle(p)
  BY DEF DenySave, OwnerStep, OwnerAt, OwnerGoto, callVars, OwnerLocals
<1>2. oreq[p] \in RequestIds /\ orec[p] \in Records
  BY <1>1 DEF OwnerLocalsOK, ApprovalPCs
<1>3. /\ requests'[oreq[p]].status = "DENIED"
      /\ \A r \in RequestIds : r # oreq[p] => requests'[r] = requests[r]
  BY <1>2 DEF DenySave, SaveRecord, StoresOK, Records
<1>4. /\ opc'[p] = "denyAudit"
      /\ \A q \in Owners : q # p => opc'[q] = opc[q]
  BY <1>1 DEF OwnersOK
<1>5. HasClaim(p, oreq[p]) /\ ~HasClaim(p, oreq[p])'
  BY <1>1, <1>3, <1>4 DEF HasClaim, ClaimingPCs
<1>6. NoNewClaim
  <2>1. \A r \in RequestIds : HasClaim(p, r)' => HasClaim(p, r)
    BY <1>1, <1>3, <1>4 DEF HasClaim, ClaimingPCs
  <2>. QED  BY <1>1, <1>3, <1>4, <2>1, OwnerClaims
<1>. QED  BY <1>1, <1>2, <1>5, <1>6, SettlementIsCovered

\* An approved execution spends the claim its owner call holds.
LEMMA ApprovedSendIsCovered ==
  ASSUME TypeInv, CreditsCoverClaims, NEW p \in Owners, SendApproved(p)
  PROVE  CreditsCoverClaims'
<1> USE DEF TypeInv, TypeOK
<1>1. /\ opc[p] = "okSend" /\ opc' = [opc EXCEPT ![p] = "okSave"]
      /\ UNCHANGED <<oreq, pc, requests>> /\ Settle(p)
  BY DEF SendApproved, OwnerStep, OwnerAt, OwnerGoto, callVars, durable
<1>2. oreq[p] \in RequestIds
  BY <1>1 DEF OwnerLocalsOK, ApprovalPCs
<1>3. /\ opc'[p] = "okSave"
      /\ \A q \in Owners : q # p => opc'[q] = opc[q]
  BY <1>1 DEF OwnersOK
<1>4. HasClaim(p, oreq[p]) /\ ~HasClaim(p, oreq[p])'
  BY <1>1, <1>3 DEF HasClaim, ClaimingPCs
<1>5. NoNewClaim
  <2>1. \A r \in RequestIds : HasClaim(p, r)' => HasClaim(p, r)
    BY <1>1, <1>3 DEF HasClaim, ClaimingPCs
  <2>. QED  BY <1>1, <1>3, <2>1, OwnerClaims
<1>. QED  BY <1>1, <1>2, <1>4, <1>5, SettlementIsCovered

\* The other steps of an approval take a claim over, keep it, give it back
\* or, once it is spent, save the result it was spent on.
LEMMA ApprovalIsUneventful ==
  ASSUME TypeInv, NEW p \in Owners, ApprovalStep(p),
         ~DenySave(p), ~SendApproved(p)
  PROVE  UNCHANGED history /\ NoNewClaim
<1> USE DEF TypeInv, TypeOK, OwnersOK, OwnerStep, OwnerAt, OwnerGoto,
            OwnerReturn, OwnerLocals, durable
<1>1. CASE \E r \in RequestIds, d \in Decisions : BeginApproval(p, r, d)
  <2>1. PICK r \in RequestIds, d \in Decisions : BeginApproval(p, r, d)
    BY <1>1
  <2>2. \A s \in RequestIds : HasClaim(p, s)' => HasClaim(p, s)
    BY <2>1 DEF BeginApproval, HasClaim, ClaimingPCs
  <2>. QED  BY <2>1, <2>2, OwnerClaims DEF BeginApproval
<1>2. CASE DenyAudit(p)
  <2>1. \A r \in RequestIds : HasClaim(p, r)' => HasClaim(p, r)
    BY <1>2 DEF DenyAudit, HasClaim, ClaimingPCs
  <2>. QED  BY <1>2, <2>1, OwnerClaims DEF DenyAudit
<1>3. CASE ReadApprovedSecret(p)
  <2>1. \A r \in RequestIds : HasClaim(p, r)' => HasClaim(p, r)
    BY <1>3 DEF ReadApprovedSecret, HasClaim, ClaimingPCs
  <2>. QED  BY <1>3, <2>1, OwnerClaims DEF ReadApprovedSecret
<1>4. CASE GrantOnApproval(p)
  <2>1. \A r \in RequestIds : HasClaim(p, r)' => HasClaim(p, r)
    BY <1>4 DEF GrantOnApproval, HasClaim, ClaimingPCs
  <2>. QED  BY <1>4, <2>1, OwnerClaims DEF GrantOnApproval
<1>5. CASE AuditGrant(p)
  <2>1. \A r \in RequestIds : HasClaim(p, r)' => HasClaim(p, r)
    BY <1>5 DEF AuditGrant, HasClaim, ClaimingPCs
  <2>. QED  BY <1>5, <2>1, OwnerClaims DEF AuditGrant
<1>6. CASE LoadApprovedMaterial(p)
  <2>1. \A r \in RequestIds : HasClaim(p, r)' => HasClaim(p, r)
    BY <1>6 DEF LoadApprovedMaterial, HasClaim, ClaimingPCs
  <2>. QED  BY <1>6, <2>1, OwnerClaims DEF LoadApprovedMaterial
<1>7. CASE SaveFinalRecord(p)
  <2>1. oreq[p] \in RequestIds /\ orec[p].status \in Executed
    BY <1>7 DEF SaveFinalRecord, OwnerLocalsOK, ApprovalPCs
  <2>2. /\ requests'[oreq[p]].status \in Executed
        /\ \A r \in RequestIds : r # oreq[p] => requests'[r] = requests[r]
    BY <1>7, <2>1 DEF SaveFinalRecord, SaveRecord, StoresOK
  <2>3. \A r \in RequestIds : HasClaim(p, r)' => HasClaim(p, r)
    BY <1>7, <2>2 DEF SaveFinalRecord, HasClaim, ClaimingPCs, Executed
  <2>. QED
    BY <1>7, <2>2, <2>3, OwnerClaims DEF SaveFinalRecord, Executed
<1>8. CASE AuditApproval(p)
  <2>1. \A r \in RequestIds : HasClaim(p, r)' => HasClaim(p, r)
    BY <1>8 DEF AuditApproval, HasClaim, ClaimingPCs
  <2>. QED  BY <1>8, <2>1, OwnerClaims DEF AuditApproval
<1>9. CASE AuditApprovedDispatch(p)
  <2>1. \A r \in RequestIds : HasClaim(p, r)' => HasClaim(p, r)
    BY <1>9 DEF AuditApprovedDispatch, HasClaim, ClaimingPCs
  <2>. QED  BY <1>9, <2>1, OwnerClaims DEF AuditApprovedDispatch
<1>10. CASE CutApproval(p)
  <2>1. \A r \in RequestIds : HasClaim(p, r)' => HasClaim(p, r)
    BY <1>10 DEF CutApproval, HasClaim, ClaimingPCs
  <2>. QED  BY <1>10, <2>1, OwnerClaims DEF CutApproval
<1>. QED
  BY <1>1, <1>2, <1>3, <1>4, <1>5, <1>6, <1>7, <1>8, <1>9, <1>10
     DEF ApprovalStep, ContinueApproval

\* An approval keeps credits ahead of claims.
LEMMA ApprovalIsCovered ==
  ASSUME TypeInv, CreditsCoverClaims, NEW p \in Owners, ApprovalStep(p)
  PROVE  CreditsCoverClaims'
<1>1. CASE DenySave(p)
  BY <1>1, DenialIsCovered
<1>2. CASE SendApproved(p)
  BY <1>2, ApprovedSendIsCovered
<1>3. CASE ~DenySave(p) /\ ~SendApproved(p)
  <2>1. UNCHANGED pc
    BY ApprovalFrame DEF callVars
  <2>2. \A r \in RequestIds : HoldersIn(pc', r) \subseteq Holders(r)
    BY <2>1 DEF Holders
  <2>. QED
    BY <1>3, <2>2, ApprovalIsUneventful, Uneventful DEF TypeInv
<1>. QED  BY <1>1, <1>2, <1>3

\* The other operations claim nothing.
LEMMA AdminClaims ==
  ASSUME OwnersOK, NEW p \in Owners, AdminStep(p)
  PROVE  /\ opc[p] \notin ClaimingPCs \cup {"okSave"}
         /\ opc'[p] \notin ClaimingPCs \cup {"okSave"}
         /\ \A q \in Owners : q # p => opc'[q] = opc[q] /\ oreq'[q] = oreq[q]
<1> USE DEF OwnersOK, OwnerStep, OwnerAt, OwnerGoto, OwnerReturn,
            OwnerLocals, ClaimingPCs
<1>1. CASE BeginAdmin(p)
  BY <1>1 DEF BeginAdmin, Begin, BeginAgentGrant, BeginDestGrant,
     BeginDestRevocation, CreateSite, BeginUpdateSite, BeginDeleteSite,
     BeginRemoveSecret, ownVars
<1>2. CASE ContinueAdmin(p)
  BY <1>2 DEF ContinueAdmin, UpsertAgentGrant, DeleteAgentGrant,
     ResolveGrantSite, ResolveRevokeSite, UpsertDestGrant, DeleteDestGrant,
     SaveSite, DropDestGrants, ListDestGrants, ListOrphans, DropOrphans,
     DropSite, ListGrants, DropListedAgentGrant, DropListedDestGrant,
     SaveRemoved, DestroyMaterial
<1>. QED  BY <1>1, <1>2 DEF AdminStep

\* The other owner operations settle nothing.
LEMMA AdminIsCovered ==
  ASSUME TypeInv, CreditsCoverClaims, NEW p \in Owners, AdminStep(p)
  PROVE  CreditsCoverClaims'
<1>1. UNCHANGED <<requests, pc, history>>
  BY AdminFrame DEF UnchangedByAdmin, callVars
<1>2. NoNewClaim
  <2>1. \A r \in RequestIds : HasClaim(p, r)' => HasClaim(p, r)
    BY <1>1, AdminClaims DEF HasClaim, TypeInv, TypeOK
  <2>. QED  BY <1>1, <2>1, AdminClaims, OwnerClaims DEF TypeInv, TypeOK
<1>3. \A r \in RequestIds : HoldersIn(pc', r) \subseteq Holders(r)
  BY <1>1 DEF Holders
<1>. QED  BY <1>1, <1>2, <1>3, Uneventful DEF TypeInv

-----------------------------------------------------------------------------
(* The whole vault.                                                        *)

\* Nothing is settled or claimed initially.
LEMMA InitIsCovered == Init => CreditsCoverClaims
<1> SUFFICES ASSUME Init, NEW p \in Owners, NEW r \in RequestIds
             PROVE  dispatchSends[r] + settled[<<p, r>>]
                      + Cardinality(Holders(r)) + Claim(p, r)
                      <= accepted[r] + crashes
  BY DEF CreditsCoverClaims
<1>1. Holders(r) = {}
  BY DEF Init, Holders, HoldersIn, HoldingPCs
<1>2. Claim(p, r) = 0
  BY NilAssumption DEF Init, Claim, HasClaim, NoRecord
<1>. QED  BY <1>1, <1>2, FS_EmptySet DEF Init

\* The process dies: no handler is left, and the credit a death issues
\* covers the claim an owner may have who asks again.
LEMMA CrashIsCovered ==
  ASSUME TypeInv, CreditsCoverClaims, Crash
  PROVE  CreditsCoverClaims'
<1> USE DEF TypeInv, TypeOK
<1>1. UNCHANGED <<accepted, dispatchSends, settled>> /\ crashes' = crashes + 1
  BY DEF Crash
<1>2. SUFFICES ASSUME NEW p \in Owners, NEW r \in RequestIds
               PROVE  dispatchSends[r] + settled[<<p, r>>]
                        + Cardinality(HoldersIn(pc', r)) + Claim(p, r)'
                        <= accepted[r] + crashes'
  BY <1>1 DEF CreditsCoverClaims, Holders
<1>3. dispatchSends[r] + settled[<<p, r>>] + Cardinality(Holders(r))
        + Claim(p, r) <= accepted[r] + crashes
  BY DEF CreditsCoverClaims
<1>4. HoldersIn(pc', r) = {}
  BY DEF Crash, HoldersIn, HoldingPCs
<1>5. Cardinality(HoldersIn(pc', r)) = 0
  BY <1>4, FS_EmptySet
<1>. QED  BY <1>1, <1>3, <1>5, ClaimIsBit, SumsAreNat

\* Every step keeps credits ahead of claims.
LEMMA CoveredStep ==
  ASSUME TypeInv, CreditsCoverClaims, [Next]_vars
  PROVE  CreditsCoverClaims'
<1>1. CASE UNCHANGED <<pc, oreq, opc, requests, history>>
  <2>1. NoNewClaim
    BY <1>1 DEF NoNewClaim, HasClaim
  <2>2. \A r \in RequestIds : HoldersIn(pc', r) \subseteq Holders(r)
    BY <1>1 DEF Holders
  <2>. QED  BY <1>1, <2>1, <2>2, Uneventful DEF TypeInv
<1>2. CASE \E key \in Agents \X RequestIds : Forget(key)
  BY <1>1, <1>2 DEF Forget, callVars, ownVars, durable
<1>3. CASE UNCHANGED vars
  BY <1>1, <1>3 DEF vars, callVars, ownVars, durable
<1>. QED
  BY <1>2, <1>3, DispatchIsCovered, ApprovalIsCovered, AdminIsCovered,
     CrashIsCovered
     DEF Next

(***************************************************************************)
(* The credits a request was issued cover what was settled and everything  *)
(* that handlers and owners may still settle, in every reachable state.    *)
(***************************************************************************)
THEOREM CreditsCover == Spec => [](TypeInv /\ CreditsCoverClaims)
<1>1. Init => TypeInv /\ CreditsCoverClaims
  BY InitTypes, InitIsCovered
<1>2. TypeInv /\ CreditsCoverClaims /\ [Next]_vars
        => (TypeInv /\ CreditsCoverClaims)'
  BY TypeStep, CoveredStep
<1>. QED  BY <1>1, <1>2, PTL DEF Spec

(***************************************************************************)
(* Executions are paid for: whatever agents and owners do at the same time *)
(* and wherever the process dies, what one owner call slot and the         *)
(* handlers settle of a request stays within its acceptances and deaths.   *)
(***************************************************************************)
THEOREM ExecutionsArePaid == Spec => []SettledWithinAccepted
<1>1. TypeInv /\ CreditsCoverClaims => SettledWithinAccepted
  <2> SUFFICES ASSUME TypeInv, CreditsCoverClaims,
                      NEW p \in Owners, NEW r \in RequestIds
               PROVE  dispatchSends[r] + settled[<<p, r>>]
                        <= accepted[r] + crashes
    BY DEF SettledWithinAccepted
  <2>1. dispatchSends[r] + settled[<<p, r>>] + Cardinality(Holders(r))
          + Claim(p, r) <= accepted[r] + crashes
    BY DEF CreditsCoverClaims
  <2>. QED  BY <2>1, ClaimIsBit, SumsAreNat DEF TypeInv
<1>. QED  BY CreditsCover, <1>1, PTL

-----------------------------------------------------------------------------
(***************************************************************************)
(* The vault implements ExecutionLedger: initial states map to initial     *)
(* states, and every step to an Issue, a Spend or a stutter.               *)
(***************************************************************************)
\* What the steps of the vault do to the history the ledger is mapped from.
Accept(c) ==
  /\ accepted' = [accepted EXCEPT ![Id(c)] = @ + 1]
  /\ UNCHANGED <<dispatchSends, settled, crashes>>

SettlePCs == {"denySave", "okSend"}

\* The steps that issue or spend credits.
LEMMA HistorySteps ==
  ASSUME TypeInv, [Next]_vars
  PROVE  \/ UNCHANGED history
         \/ \E c \in Calls : Accept(c)
         \/ \E c \in Calls : Send(c)
         \/ \E p \in Owners : Settle(p) /\ opc[p] \in SettlePCs
         \/ Crash
<1>1. ASSUME NEW c \in Calls, DispatchStep(c)
      PROVE  UNCHANGED history \/ Accept(c) \/ Send(c)
  <2>1. CASE AssertNotReplayed(c)
    BY <2>1 DEF AssertNotReplayed, Accept, history
  <2>. QED  BY <1>1, <2>1, HandlerIsUneventful DEF AskSave, history
<1>2. ASSUME NEW p \in Owners, ApprovalStep(p)
      PROVE  UNCHANGED history \/ (Settle(p) /\ opc[p] \in SettlePCs)
  <2>1. CASE DenySave(p) \/ SendApproved(p)
    BY <2>1 DEF DenySave, SendApproved, OwnerStep, OwnerAt, SettlePCs
  <2>. QED  BY <1>2, <2>1, ApprovalIsUneventful
<1>3. ASSUME NEW p \in Owners, AdminStep(p) PROVE UNCHANGED history
  BY <1>3, AdminFrame DEF UnchangedByAdmin
<1>4. CASE \E key \in Agents \X RequestIds : Forget(key)
  BY <1>4 DEF Forget
<1>. QED  BY <1>1, <1>2, <1>3, <1>4 DEF Next, vars

-----------------------------------------------------------------------------
Issued == [k \in Accounts |-> accepted[k[2]] + crashes]
Spent == [k \in Accounts |-> dispatchSends[k[2]] + settled[k]]

\* An account with a holder or a claim left has credit left.
LEMMA CreditLeft ==
  ASSUME TypeInv, CreditsCoverClaims, NEW p \in Owners, NEW r \in RequestIds,
         Holders(r) # {} \/ HasClaim(p, r)
  PROVE  Spent[<<p, r>>] < Issued[<<p, r>>]
<1>1. dispatchSends[r] + settled[<<p, r>>] + Cardinality(Holders(r))
        + Claim(p, r) <= accepted[r] + crashes
  BY DEF CreditsCoverClaims
<1>2. Cardinality(Holders(r)) > 0 \/ Claim(p, r) > 0
  <2>1. CASE Holders(r) # {}
    BY <2>1, FS_EmptySet, HoldersFinite DEF Holders
  <2>2. CASE HasClaim(p, r)
    BY <2>2 DEF Claim
  <2>. QED  BY <2>1, <2>2
<1>3. dispatchSends[r] + settled[<<p, r>>] < accepted[r] + crashes
  BY <1>1, <1>2, ClaimIsBit, SumsAreNat DEF TypeInv
<1>. QED  BY <1>3 DEF Spent, Issued, Accounts

\* An accepted delivery issues a credit to every account of its request.
LEMMA AcceptIssues ==
  ASSUME TypeInv, NEW c \in Calls, Accept(c)
  PROVE  Ledger!Issue({k \in Accounts : k[2] = Id(c)})
<1>1. ASSUME NEW k \in Accounts
      PROVE  accepted'[k[2]] + crashes' =
               IF k[2] = Id(c) THEN (accepted[k[2]] + crashes) + 1
                               ELSE accepted[k[2]] + crashes
  <2>1. k[2] \in RequestIds
    BY DEF Accounts
  <2>2. /\ accepted[k[2]] \in Nat /\ crashes \in Nat /\ crashes' = crashes
        /\ accepted'[k[2]] = IF k[2] = Id(c) THEN accepted[k[2]] + 1
                                             ELSE accepted[k[2]]
    BY <2>1 DEF Accept, TypeInv, TypeOK, HistoryOK
  <2>. QED  BY <2>2
<1>2. UNCHANGED Spent
  BY DEF Accept, Spent
<1>. QED
  BY <1>1, <1>2 DEF Ledger!Issue, Ledger!Increment, Spent

\* A death of the process issues a credit to every account.
LEMMA CrashIssues ==
  ASSUME TypeInv, Crash
  PROVE  Ledger!Issue(Accounts)
<1>1. ASSUME NEW k \in Accounts
      PROVE  accepted'[k[2]] + crashes' = (accepted[k[2]] + crashes) + 1
  <2>1. k[2] \in RequestIds
    BY DEF Accounts
  <2>2. accepted[k[2]] \in Nat /\ crashes \in Nat
    BY <2>1 DEF TypeInv, TypeOK, HistoryOK
  <2>3. crashes' = crashes + 1 /\ accepted' = accepted
    BY DEF Crash
  <2>. QED  BY <2>2, <2>3
<1>2. UNCHANGED Spent
  BY DEF Crash, Spent
<1>. QED
  BY <1>1, <1>2 DEF Ledger!Issue, Ledger!Increment, Spent

\* An execution by a handler spends a credit of every account of its request.
LEMMA SendSpends ==
  ASSUME TypeInv, CreditsCoverClaims, NEW c \in Calls, Send(c)
  PROVE  Ledger!Spend({k \in Accounts : k[2] = Id(c)})
<1>1. Holders(Id(c)) # {}
  BY DEF Send, Step, At, Holders, HoldersIn, HoldingPCs
<1>2. \A k \in Accounts : k[2] = Id(c) => Spent[k] < Issued[k]
  BY <1>1, CreditLeft DEF Accounts
<1>3. ASSUME NEW k \in Accounts
      PROVE  dispatchSends'[k[2]] + settled'[k] =
               IF k[2] = Id(c) THEN (dispatchSends[k[2]] + settled[k]) + 1
                               ELSE dispatchSends[k[2]] + settled[k]
  <2>1. k[2] \in RequestIds
    BY DEF Accounts
  <2>2. dispatchSends[k[2]] \in Nat /\ settled[k] \in Nat
    BY <2>1 DEF TypeInv, TypeOK, HistoryOK, Accounts
  <2>3. dispatchSends'[k[2]] = IF k[2] = Id(c) THEN dispatchSends[k[2]] + 1
                                               ELSE dispatchSends[k[2]]
    BY <2>1 DEF Send, TypeInv, TypeOK, HistoryOK
  <2>. QED  BY <2>2, <2>3 DEF Send
<1>4. UNCHANGED Issued
  BY DEF Send, Issued
<1>. QED
  BY <1>2, <1>3, <1>4 DEF Ledger!Spend, Ledger!Increment, Spent, Issued

\* An execution or denial by an owner call spends a credit of its account.
LEMMA SettleSpends ==
  ASSUME TypeInv, CreditsCoverClaims, NEW p \in Owners,
         NEW r \in RequestIds, r = oreq[p], Settle(p), opc[p] \in SettlePCs
  PROVE  Ledger!Spend({<<p, r>>})
<1>2. HasClaim(p, r)
  BY DEF SettlePCs, HasClaim, ClaimingPCs
<1>3. Spent[<<p, r>>] < Issued[<<p, r>>]
  BY <1>2, CreditLeft
<1>4. ASSUME NEW k \in Accounts
      PROVE  dispatchSends'[k[2]] + settled'[k] =
               IF k \in {<<p, r>>}
                 THEN (dispatchSends[k[2]] + settled[k]) + 1
                 ELSE dispatchSends[k[2]] + settled[k]
  <2>1. k[2] \in RequestIds /\ k \in Owners \X RequestIds
    BY DEF Accounts
  <2>2. dispatchSends[k[2]] \in Nat /\ settled[k] \in Nat
    BY <2>1 DEF TypeInv, TypeOK, HistoryOK
  <2>3. settled'[k] = IF k \in {<<p, r>>} THEN settled[k] + 1
                                                ELSE settled[k]
    BY <2>1 DEF Settle, TypeInv, TypeOK, HistoryOK
  <2>. QED  BY <2>2, <2>3 DEF Settle
<1>5. UNCHANGED Issued
  BY DEF Settle, Issued
<1>6. <<p, r>> \in Accounts
  BY DEF Accounts
<1>. QED
  BY <1>3, <1>4, <1>5, <1>6 DEF Ledger!Spend, Ledger!Increment, Spent, Issued

(***************************************************************************)
(* The vault implements the ledger: no execution and no denial happens     *)
(* without a credit left for it in every account it is settled from.       *)
(***************************************************************************)
THEOREM LedgerImplemented == Spec => ImplementsLedger
<1>1. Init => Ledger!Init
  BY DEF Init, Ledger!Init, Accounts
<1>2. TypeInv /\ CreditsCoverClaims /\ [Next]_vars
        => [Ledger!Next]_<<Issued, Spent>>
  <2> SUFFICES ASSUME TypeInv, CreditsCoverClaims, [Next]_vars
               PROVE  [Ledger!Next]_<<Issued, Spent>>
    OBVIOUS
  <2>1. CASE UNCHANGED history
    BY <2>1 DEF history, Issued, Spent
  <2>2. ASSUME NEW c \in Calls, Accept(c) PROVE Ledger!Next
    BY <2>2, AcceptIssues DEF Ledger!Next
  <2>3. ASSUME NEW c \in Calls, Send(c) PROVE Ledger!Next
    BY <2>3, SendSpends DEF Ledger!Next
  <2>4. ASSUME NEW p \in Owners, Settle(p), opc[p] \in SettlePCs
        PROVE  Ledger!Next
    <3>1. PICK r \in RequestIds : r = oreq[p]
      BY <2>4 DEF TypeInv, OwnerLocalsOK, SettlePCs, ApprovalPCs
    <3>2. {<<p, r>>} \in SUBSET Accounts
      BY DEF Accounts
    <3>3. Ledger!Spend({<<p, r>>})
      BY <2>4, <3>1, SettleSpends
    <3>. QED  BY <3>2, <3>3 DEF Ledger!Next
  <2>5. CASE Crash
    BY <2>5, CrashIssues DEF Ledger!Next
  <2>. QED  BY <2>1, <2>2, <2>3, <2>4, <2>5, HistorySteps
<1>. QED
  BY <1>1, <1>2, CreditsCover, PTL
     DEF Spec, ImplementsLedger, Ledger!Spec, Issued, Spent

-----------------------------------------------------------------------------
(* What a step does, as the proofs below use it: where a handler goes, and *)
(* what it saves.                                                          *)

CallEdges ==
  {<<"new", "verified">>, <<"new", "reject">>,
   <<"verified", "secret">>, <<"verified", "reject">>, <<"reject", "done">>,
   <<"secret", "agentGrant">>, <<"secret", "record">>,
   <<"agentGrant", "site">>, <<"site", "destGrant">>, <<"site", "record">>,
   <<"destGrant", "record">>, <<"record", "announce">>,
   <<"announce", "outAudit">>, <<"announce", "askRead">>,
   <<"announce", "recheck">>, <<"announce", "cut">>,
   <<"askRead", "askSave">>, <<"askSave", "askAudit">>, <<"askAudit", "done">>,
   <<"recheck", "load">>, <<"recheck", "done">>,
   <<"load", "send">>, <<"load", "done">>, <<"send", "outAudit">>,
   <<"outAudit", "outRead">>, <<"outAudit", "cut">>,
   <<"outRead", "outSave">>, <<"outSave", "done">>}

\* A dispatch handler moves along the edges of its code.
LEMMA CallMoves ==
  ASSUME NEW c \in Calls, DispatchStep(c)
  PROVE  \E next : <<pc[c], next>> \in CallEdges /\ pc' = [pc EXCEPT ![c] = next]
<1> USE DEF CallEdges, Step, At, Goto, Return, End
<1>1. CASE Verify(c) \/ AssertNotReplayed(c) \/ RejectDelivery(c)
  BY <1>1 DEF Verify, AssertNotReplayed, RejectDelivery
<1>2. CASE ReadSecret(c) \/ ReadAgentGrant(c) \/ ReadSite(c) \/ ReadDestGrant(c)
  BY <1>2 DEF ReadSecret, ReadAgentGrant, ReadSite, ReadDestGrant
<1>3. CASE RecordRequest(c) \/ AnnounceRequest(c) \/ AskRead(c) \/ AskSave(c)
  BY <1>3 DEF RecordRequest, AnnounceRequest, AskRead, AskSave
<1>4. CASE AskAudit(c) \/ RecheckSecret(c) \/ LoadMaterial(c) \/ Send(c)
  BY <1>4 DEF AskAudit, RecheckSecret, LoadMaterial, Send
<1>5. CASE OutcomeAudit(c) \/ OutcomeRead(c) \/ OutcomeSave(c) \/ CutShort(c)
  BY <1>5 DEF OutcomeAudit, OutcomeRead, OutcomeSave, CutShort
<1>. QED  BY <1>1, <1>2, <1>3, <1>4, <1>5 DEF DispatchStep

\* A dispatch handler writes one record, and knows what it writes.
LEMMA CallSaves ==
  ASSUME TypeInv, NEW c \in Calls, DispatchStep(c)
  PROVE  /\ \A r \in RequestIds : r # Id(c) => requests'[r] = requests[r]
         /\ \/ UNCHANGED requests
            \/ /\ RecordRequest(c)
               /\ requests'[Id(c)] = [status |-> "IN_PROGRESS", from |-> c,
                                      secret |-> ResolvedSecret(c)]
            \/ AskSave(c) /\ requests'[Id(c)].status = "AWAITING_APPROVAL"
            \/ OutcomeSave(c) /\ requests'[Id(c)].status = outcome[c]
<1> USE CallOfType DEF SaveRecord, TypeInv, TypeOK, StoresOK
<1>1. CASE RecordRequest(c)
  BY <1>1 DEF RecordRequest
<1>2. CASE AskSave(c)
  BY <1>2 DEF AskSave, Step, At, CallLocalsOK, Records
<1>3. CASE OutcomeSave(c)
  BY <1>3 DEF OutcomeSave, At, CallLocalsOK, Records
<1>4. CASE UNCHANGED requests
  BY <1>4
<1>. QED
  BY <1>1, <1>2, <1>3, <1>4
     DEF DispatchStep, Verify, AssertNotReplayed, RejectDelivery, ReadSecret,
         ReadAgentGrant, ReadSite, ReadDestGrant, AnnounceRequest, AskRead,
         AskAudit, RecheckSecret, LoadMaterial, Send, OutcomeAudit,
         OutcomeRead, CutShort, durable

ApprovalEdges ==
  {<<"idle", "denySave">>, <<"idle", "okSecret">>,
   <<"denySave", "denyAudit">>, <<"denyAudit", "idle">>,
   <<"okSecret", "okGrant">>, <<"okSecret", "okLoad">>, <<"okSecret", "idle">>,
   <<"okGrant", "okGrantAudit">>, <<"okGrantAudit", "okLoad">>,
   <<"okGrantAudit", "idle">>, <<"okLoad", "okSend">>, <<"okLoad", "idle">>,
   <<"okSend", "okSave">>, <<"okSave", "okAudit">>,
   <<"okAudit", "okAgentAudit">>, <<"okAudit", "idle">>,
   <<"okAgentAudit", "idle">>}

\* Call p goes to next, along an edge, and keeps its request until it returns.
ApprovalMove(p, next) ==
  /\ <<opc[p], next>> \in ApprovalEdges
  /\ opc' = [opc EXCEPT ![p] = next]
  /\ \A q \in Owners : q # p => oreq'[q] = oreq[q]
  /\ opc[p] # "idle" /\ next # "idle" => oreq' = oreq
  /\ next = "idle" => oreq'[p] = Nil

\* So does an approval.
LEMMA ApprovalMoves ==
  ASSUME TypeInv, NEW p \in Owners, ApprovalStep(p)
  PROVE  \E next : ApprovalMove(p, next)
<1> USE DEF OwnerStep, OwnerAt, OwnerGoto,
            OwnerLocals, TypeInv, TypeOK, OwnersOK
<1>1. ASSUME NEW r \in RequestIds, NEW d \in Decisions, BeginApproval(p, r, d)
      PROVE  \E next : ApprovalMove(p, next)
  <2>1. /\ oreq' = [oreq EXCEPT ![p] = r] /\ opc[p] = "idle"
        /\ opc' = [opc EXCEPT ![p] = "denySave"]
             \/ opc' = [opc EXCEPT ![p] = "okSecret"]
    BY <1>1 DEF BeginApproval
  <2>2. ApprovalMove(p, "denySave") \/ ApprovalMove(p, "okSecret")
    BY <2>1 DEF ApprovalMove, ApprovalEdges
  <2>. QED  BY <2>2
<1>2. ASSUME OwnerReturn(p), <<opc[p], "idle">> \in ApprovalEdges
      PROVE  \E next : ApprovalMove(p, next)
  <2>1. opc' = [opc EXCEPT ![p] = "idle"] /\ oreq' = [oreq EXCEPT ![p] = Nil]
    BY <1>2 DEF OwnerReturn
  <2>2. ApprovalMove(p, "idle")
    BY <1>2, <2>1 DEF ApprovalMove
  <2>. QED  BY <2>2
<1>3. ASSUME NEW next, <<opc[p], next>> \in ApprovalEdges, next # "idle",
             opc' = [opc EXCEPT ![p] = next], UNCHANGED oreq
      PROVE  \E n : ApprovalMove(p, n)
  <2>1. ApprovalMove(p, next)
    BY <1>3 DEF ApprovalMove
  <2>. QED  BY <2>1
<1>4. CASE DenySave(p)
  <2>1. /\ <<opc[p], "denyAudit">> \in ApprovalEdges
        /\ opc' = [opc EXCEPT ![p] = "denyAudit"] /\ UNCHANGED oreq
    BY <1>4 DEF DenySave, ApprovalEdges
  <2>. QED  BY <1>3, <2>1
<1>5. CASE DenyAudit(p) \/ AuditApprovedDispatch(p) \/ CutApproval(p)
  <2>1. OwnerReturn(p)
    BY <1>5 DEF DenyAudit, AuditApprovedDispatch, CutApproval
  <2>2. <<opc[p], "idle">> \in ApprovalEdges
    BY <1>5 DEF DenyAudit, AuditApprovedDispatch, CutApproval, ApprovalEdges
  <2>. QED  BY <1>2, <2>1, <2>2
<1>6. CASE ReadApprovedSecret(p)
  <2>1. CASE OwnerReturn(p)
    BY <1>2, <1>6, <2>1 DEF ReadApprovedSecret, ApprovalEdges
  <2>2. CASE ~OwnerReturn(p)
    BY <1>3, <1>6, <2>2 DEF ReadApprovedSecret, ApprovalEdges
  <2>. QED  BY <2>1, <2>2
<1>7. CASE GrantOnApproval(p) \/ AuditGrant(p)
  BY <1>3, <1>7 DEF GrantOnApproval, AuditGrant, ApprovalEdges
<1>8. CASE LoadApprovedMaterial(p)
  BY <1>2, <1>3, <1>8 DEF LoadApprovedMaterial, ApprovalEdges
<1>9. CASE SendApproved(p) \/ SaveFinalRecord(p) \/ AuditApproval(p)
  BY <1>3, <1>9 DEF SendApproved, SaveFinalRecord, AuditApproval, ApprovalEdges
<1>. QED
  BY <1>1, <1>4, <1>5, <1>6, <1>7, <1>8, <1>9
     DEF ApprovalStep, ContinueApproval

\* And it writes the record of its request, with its result.
LEMMA ApprovalSaves ==
  ASSUME TypeInv, NEW p \in Owners, ApprovalStep(p)
  PROVE  \/ UNCHANGED requests
         \/ /\ DenySave(p) \/ SaveFinalRecord(p)
            /\ oreq[p] \in RequestIds
            /\ \A r \in RequestIds : r # oreq[p] => requests'[r] = requests[r]
            /\ requests'[oreq[p]].status \in Terminal
            /\ DenySave(p) => requests'[oreq[p]].status = "DENIED"
            /\ SaveFinalRecord(p) => requests'[oreq[p]] = orec[p]
<1> USE DEF SaveRecord, TypeInv, TypeOK, StoresOK, OwnerStep, OwnerAt,
            OwnerGoto, OwnerLocalsOK, ApprovalPCs
<1>1. CASE DenySave(p)
  <2>1. oreq[p] \in RequestIds /\ orec[p] \in Records /\ opc[p] # "okSave"
    BY <1>1 DEF DenySave
  <2>2. requests'[oreq[p]].status = "DENIED"
    BY <1>1, <2>1 DEF DenySave, Records
  <2>. QED  BY <1>1, <2>1, <2>2 DEF DenySave, SaveFinalRecord, Terminal
<1>2. CASE SaveFinalRecord(p)
  <2>1. /\ oreq[p] \in RequestIds /\ orec[p].status \in Executed
        /\ opc[p] # "denySave"
    BY <1>2 DEF SaveFinalRecord
  <2>. QED  BY <1>2, <2>1 DEF DenySave, SaveFinalRecord, Terminal
<1>3. CASE UNCHANGED requests
  BY <1>3
<1>. QED
  BY <1>1, <1>2, <1>3
     DEF ApprovalStep, ContinueApproval, BeginApproval, DenyAudit,
         ReadApprovedSecret, GrantOnApproval, AuditGrant, LoadApprovedMaterial,
         SendApproved, AuditApproval, AuditApprovedDispatch, CutApproval,
         durable

\* The other operations neither are approvals nor touch any.
LEMMA AdminElsewhere ==
  ASSUME TypeInv, NEW p \in Owners, AdminStep(p)
  PROVE  /\ opc[p] \notin ApprovalPCs /\ opc'[p] \notin ApprovalPCs
         /\ \A q \in Owners : q # p => /\ opc'[q] = opc[q] /\ oreq'[q] = oreq[q]
                                       /\ orec'[q] = orec[q]
<1> USE DEF TypeInv, TypeOK, OwnersOK, OwnerStep, OwnerAt, OwnerGoto,
            OwnerReturn, OwnerLocals, ApprovalPCs
<1>1. CASE BeginAdmin(p)
  BY <1>1 DEF BeginAdmin, Begin, BeginAgentGrant, BeginDestGrant,
     BeginDestRevocation, CreateSite, BeginUpdateSite, BeginDeleteSite,
     BeginRemoveSecret, ownVars
<1>2. CASE ContinueAdmin(p)
  BY <1>2 DEF ContinueAdmin, UpsertAgentGrant, DeleteAgentGrant,
     ResolveGrantSite, ResolveRevokeSite, UpsertDestGrant, DeleteDestGrant,
     SaveSite, DropDestGrants, ListDestGrants, ListOrphans, DropOrphans,
     DropSite, ListGrants, DropListedAgentGrant, DropListedDestGrant,
     SaveRemoved, DestroyMaterial
<1>. QED  BY <1>1, <1>2 DEF AdminStep

\* An approval touches no other.
LEMMA ApprovalElsewhere ==
  ASSUME TypeInv, NEW p \in Owners, ApprovalStep(p)
  PROVE  \A q \in Owners : q # p => /\ opc'[q] = opc[q] /\ oreq'[q] = oreq[q]
                                    /\ orec'[q] = orec[q]
<1> USE DEF TypeInv, TypeOK, OwnersOK, OwnerStep, OwnerAt, OwnerGoto,
            OwnerReturn, OwnerLocals
<1>. QED
  BY DEF ApprovalStep, ContinueApproval, BeginApproval, DenySave, DenyAudit,
     ReadApprovedSecret, GrantOnApproval, AuditGrant, LoadApprovedMaterial,
     SendApproved, SaveFinalRecord, AuditApproval, AuditApprovedDispatch,
     CutApproval

-----------------------------------------------------------------------------
(***************************************************************************)
(* The log.  What has happened to a request is in the log, or a handler    *)
(* stands right before the entry: a dispatch that has executed, an owner   *)
(* that has saved a decision.                                              *)
(***************************************************************************)
AboutToLog(p, r) ==
  /\ oreq[p] = r
  /\ \/ opc[p] = "denyAudit" /\ requests[r].status = "DENIED"
     \/ opc[p] = "okAudit" /\ requests[r].status = orec[p].status

StatusLogged(r) ==
  \/ Logged("agentDispatchSecret", r, {requests[r].status})
  \/ Logged("ownerApproveDispatch", r, {requests[r].status})
  \/ \E p \in Owners : AboutToLog(p, r)

SendLogged(r) ==
  \/ Logged("agentDispatchSecret", r, Executed)
  \/ \E c \in Calls : Id(c) = r /\ pc[c] = "outAudit" /\ outcome[c] \in Executed

SettlementLogged(p, r) ==
  \/ Logged("ownerApproveDispatch", r, Terminal)
  \/ oreq[p] = r /\ opc[p] \in {"denyAudit", "okSave", "okAudit"}

OutcomesLogged ==
  \A c \in Calls :
    pc[c] \in {"outRead", "outSave"} =>
      Logged("agentDispatchSecret", Id(c), {outcome[c]})

FatesLogged ==
  crashes = 0 => \A r \in RequestIds :
    /\ requests[r].status \in Terminal => StatusLogged(r)
    /\ dispatchSends[r] > 0 => SendLogged(r)
    /\ \A p \in Owners : settled[<<p, r>>] > 0 => SettlementLogged(p, r)

LogOK == OutcomesLogged /\ FatesLogged

\* Entries are never deleted.
LEMMA LogGrows ==
  ASSUME [Next]_vars
  PROVE  audit \subseteq audit'
<1>1. ASSUME NEW c \in Calls, DispatchStep(c)  PROVE audit \subseteq audit'
  BY <1>1 DEF DispatchStep, Verify, AssertNotReplayed, RejectDelivery,
     ReadSecret, ReadAgentGrant, ReadSite, ReadDestGrant, RecordRequest,
     AnnounceRequest, AskRead, AskSave, AskAudit, RecheckSecret, LoadMaterial,
     Send, OutcomeAudit, OutcomeRead, OutcomeSave, CutShort, AppendAudit,
     durable
<1>2. ASSUME NEW p \in Owners, ApprovalStep(p)  PROVE audit \subseteq audit'
  BY <1>2 DEF ApprovalStep, ContinueApproval, BeginApproval, DenySave,
     DenyAudit, ReadApprovedSecret, GrantOnApproval, AuditGrant,
     LoadApprovedMaterial, SendApproved, SaveFinalRecord, AuditApproval,
     AuditApprovedDispatch, CutApproval, AppendAudit, durable
<1>3. ASSUME NEW p \in Owners, AdminStep(p)  PROVE audit \subseteq audit'
  BY <1>3, AdminFrame DEF UnchangedByAdmin
<1>4. CASE Crash \/ UNCHANGED vars \/ \E k \in Agents \X RequestIds : Forget(k)
  BY <1>4 DEF Crash, Forget, vars, durable
<1>. QED  BY <1>1, <1>2, <1>3, <1>4 DEF Next

LEMMA StaysLogged ==
  ASSUME [Next]_vars, NEW fn, NEW r, NEW statuses, Logged(fn, r, statuses)
  PROVE  \E s \in statuses : [fn |-> fn, id |-> r, status |-> s] \in audit'
BY LogGrows DEF Logged

\* A dispatch handler touches no other; once it has its decision it keeps it
\* until it ends, and its outcome too.
LEMMA CallElsewhere ==
  ASSUME TypeInv, NEW c \in Calls, DispatchStep(c)
  PROVE  /\ \A d \in Calls : d # c => /\ pc'[d] = pc[d]
                                      /\ outcome'[d] = outcome[d]
                                      /\ decision'[d] = decision[d]
         /\ pc[c] \in RecordedPCs \cup {"record"} /\ pc'[c] \notin {"done", "cut"}
              => decision'[c] = decision[c]
         /\ pc[c] \in {"outAudit", "outRead"} /\ pc'[c] # "cut"
              => outcome'[c] = outcome[c]
<1> USE DEF TypeInv, TypeOK, CallsOK, RecordedPCs, Step, At, Goto, Return, End
<1>1. CASE Verify(c) \/ AssertNotReplayed(c) \/ RejectDelivery(c)
  BY <1>1 DEF Verify, AssertNotReplayed, RejectDelivery
<1>2. CASE ReadSecret(c) \/ ReadAgentGrant(c) \/ ReadSite(c) \/ ReadDestGrant(c)
  BY <1>2 DEF ReadSecret, ReadAgentGrant, ReadSite, ReadDestGrant
<1>3. CASE RecordRequest(c) \/ AnnounceRequest(c) \/ AskRead(c) \/ AskSave(c)
  BY <1>3 DEF RecordRequest, AnnounceRequest, AskRead, AskSave
<1>4. CASE AskAudit(c) \/ RecheckSecret(c) \/ LoadMaterial(c) \/ Send(c)
  BY <1>4 DEF AskAudit, RecheckSecret, LoadMaterial, Send
<1>5. CASE OutcomeAudit(c) \/ OutcomeRead(c) \/ OutcomeSave(c) \/ CutShort(c)
  BY <1>5 DEF OutcomeAudit, OutcomeRead, OutcomeSave, CutShort
<1>. QED  BY <1>1, <1>2, <1>3, <1>4, <1>5 DEF DispatchStep

\* What a dispatch handler counts.
LEMMA CallCounts ==
  ASSUME TypeInv, NEW c \in Calls, DispatchStep(c)
  PROVE  /\ UNCHANGED <<settled, crashes>>
         /\ \A r \in RequestIds : r # Id(c) => /\ dispatchSends'[r] = dispatchSends[r]
                                               /\ accepted'[r] = accepted[r]
         /\ UNCHANGED dispatchSends \/ Send(c)
<1>1. CASE AssertNotReplayed(c)
  BY <1>1, CallOfType DEF AssertNotReplayed, TypeInv, TypeOK, HistoryOK
<1>2. CASE Send(c)
  BY <1>2, CallOfType DEF Send, TypeInv, TypeOK, HistoryOK
<1>3. CASE AskSave(c)
  BY <1>3 DEF AskSave, history
<1>. QED
  BY <1>1, <1>2, <1>3, HandlerIsUneventful DEF history

\* A dispatch handler logs its outcome before it saves it.
LEMMA DispatchLogsOutcome ==
  ASSUME TypeInv, OutcomesLogged, NEW c \in Calls, DispatchStep(c)
  PROVE  OutcomesLogged'
<1>1. ASSUME NEW d \in Calls, pc'[d] \in {"outRead", "outSave"}
      PROVE  [fn |-> "agentDispatchSecret", id |-> Id(d),
              status |-> outcome'[d]] \in audit'
  <2>1. CASE pc[d] \in {"outRead", "outSave"} /\ outcome'[d] = outcome[d]
    <3>1. Logged("agentDispatchSecret", Id(d), {outcome[d]})
      BY <2>1 DEF OutcomesLogged
    <3>2. audit \subseteq audit'
      BY LogGrows DEF Next
    <3>. QED  BY <2>1, <3>1, <3>2 DEF Logged
  <2>2. CASE d # c
    BY <1>1, <2>1, <2>2, CallElsewhere
  <2>3. CASE d = c
    <3>1. pc[c] \in {"outAudit", "outRead"}
      BY <1>1, <2>3, CallMoves DEF CallEdges, TypeInv, TypeOK, CallsOK
    <3>2. outcome'[c] = outcome[c]
      BY <1>1, <2>3, <3>1, CallElsewhere
    <3>3. CASE pc[c] = "outAudit"
      <4>1. OutcomeAudit(c)
        BY <1>1, <2>3, <3>3
           DEF DispatchStep, Verify, AssertNotReplayed, RejectDelivery,
               ReadSecret, ReadAgentGrant, ReadSite, ReadDestGrant,
               RecordRequest, AnnounceRequest, AskRead, AskSave, AskAudit,
               RecheckSecret, LoadMaterial, Send, OutcomeRead, OutcomeSave,
               CutShort, End, Step, At, Goto, TypeInv, TypeOK, CallsOK
      <4>. QED  BY <2>3, <3>2, <4>1 DEF OutcomeAudit, AppendAudit
    <3>. QED  BY <2>1, <2>3, <3>1, <3>2, <3>3
  <2>. QED  BY <2>2, <2>3
<1>. QED  BY <1>1 DEF OutcomesLogged, Logged

\* A dispatch handler leaves the fate of no request untold.
LEMMA DispatchLogsFate ==
  ASSUME TypeInv, LogOK, NEW c \in Calls, DispatchStep(c)
  PROVE  FatesLogged'
<1> SUFFICES ASSUME crashes' = 0, NEW r \in RequestIds
             PROVE  /\ requests'[r].status \in Terminal => StatusLogged(r)'
                    /\ dispatchSends'[r] > 0 => SendLogged(r)'
                    /\ \A p \in Owners :
                         settled'[<<p, r>>] > 0 => SettlementLogged(p, r)'
  BY DEF FatesLogged
<1>1. UNCHANGED <<ownVars, settled, crashes>>
  BY DispatchFrame, CallCounts
<1>2. /\ requests[r].status \in Terminal => StatusLogged(r)
      /\ dispatchSends[r] > 0 => SendLogged(r)
      /\ \A p \in Owners : settled[<<p, r>>] > 0 => SettlementLogged(p, r)
  BY <1>1 DEF LogOK, FatesLogged
<1>3. requests'[r].status \in Terminal => StatusLogged(r)'
  <2>1. CASE requests'[r] = requests[r]
    <3>1. ASSUME NEW fn, Logged(fn, r, {requests[r].status})
          PROVE  Logged(fn, r, {requests[r].status})'
      BY <2>1, <3>1, StaysLogged DEF Logged, Next
    <3>2. ASSUME NEW p \in Owners, AboutToLog(p, r)  PROVE AboutToLog(p, r)'
      BY <1>1, <2>1, <3>2 DEF AboutToLog, ownVars
    <3>. QED  BY <1>2, <2>1, <3>1, <3>2 DEF StatusLogged
  <2>2. CASE requests'[r] # requests[r] /\ requests'[r].status \in Terminal
    <3>1. r = Id(c) /\ OutcomeSave(c) /\ requests'[r].status = outcome[c]
      <4>1. r = Id(c) /\ ~UNCHANGED requests
        BY <2>2, CallSaves
      <4>2. requests'[r].status \notin {"IN_PROGRESS", "AWAITING_APPROVAL"}
        BY <2>2 DEF Terminal, Executed
      <4>3. \/ requests'[Id(c)] = [status |-> "IN_PROGRESS", from |-> c,
                                   secret |-> ResolvedSecret(c)]
            \/ requests'[Id(c)].status = "AWAITING_APPROVAL"
            \/ OutcomeSave(c) /\ requests'[Id(c)].status = outcome[c]
        BY <4>1, CallSaves
      <4>. QED  BY <4>1, <4>2, <4>3
    <3>2. Logged("agentDispatchSecret", r, {outcome[c]})
      BY <3>1 DEF LogOK, OutcomesLogged, OutcomeSave, At
    <3>3. audit \subseteq audit'
      BY LogGrows DEF Next
    <3>4. Logged("agentDispatchSecret", r, {requests[r].status})'
      BY <3>1, <3>2, <3>3 DEF Logged
    <3>. QED  BY <3>4 DEF StatusLogged
  <2>. QED  BY <2>1, <2>2
<1>4. dispatchSends'[r] > 0 => SendLogged(r)'
  <2>1. CASE Send(c) /\ r = Id(c)
    <3>1. pc'[c] = "outAudit" /\ outcome'[c] \in Executed
      BY <2>1 DEF Send, Step, Goto, TypeInv, TypeOK, CallsOK
    <3>. QED  BY <2>1, <3>1 DEF SendLogged
  <2>2. CASE dispatchSends'[r] = dispatchSends[r] /\ dispatchSends[r] > 0
    <3>1. CASE Logged("agentDispatchSecret", r, Executed)
      <4>1. Logged("agentDispatchSecret", r, Executed)'
        BY <3>1, StaysLogged DEF Logged, Next
      <4>. QED  BY <4>1 DEF SendLogged
    <3>2. ASSUME NEW d \in Calls, Id(d) = r, pc[d] = "outAudit",
                 outcome[d] \in Executed
          PROVE  SendLogged(r)'
      <4>1. CASE d # c
        BY <3>2, <4>1, CallElsewhere DEF SendLogged
      <4>2. CASE d = c
        <5>1. OutcomeAudit(c) \/ CutShort(c)
          BY <3>2, <4>2
             DEF DispatchStep, Verify, AssertNotReplayed, RejectDelivery,
                 ReadSecret, ReadAgentGrant, ReadSite, ReadDestGrant,
                 RecordRequest, AnnounceRequest, AskRead, AskSave, AskAudit,
                 RecheckSecret, LoadMaterial, Send, OutcomeRead, OutcomeSave,
                 Step, At
        <5>2. [fn |-> "agentDispatchSecret", id |-> r, status |-> outcome[c]]
                \in audit'
          BY <3>2, <4>2, <5>1 DEF OutcomeAudit, CutShort, At, AppendAudit
        <5>3. Logged("agentDispatchSecret", r, Executed)'
          BY <3>2, <4>2, <5>2 DEF Logged
        <5>. QED  BY <5>3 DEF SendLogged
      <4>. QED  BY <4>1, <4>2
    <3>. QED  BY <1>2, <2>2, <3>1, <3>2 DEF SendLogged
  <2>. QED  BY <2>1, <2>2, CallCounts
<1>5. ASSUME NEW p \in Owners, settled'[<<p, r>>] > 0
      PROVE  SettlementLogged(p, r)'
  <2>1. SettlementLogged(p, r)
    BY <1>1, <1>2, <1>5
  <2>2. CASE Logged("ownerApproveDispatch", r, Terminal)
    <3>1. Logged("ownerApproveDispatch", r, Terminal)'
      BY <2>2, StaysLogged DEF Logged, Next
    <3>. QED  BY <3>1 DEF SettlementLogged
  <2>. QED  BY <1>1, <2>1, <2>2 DEF SettlementLogged, ownVars
<1>. QED  BY <1>3, <1>4, <1>5

\* What an approval does where it owes the log an entry.
LEMMA ApprovalEntries ==
  ASSUME TypeInv, NEW p \in Owners, ApprovalStep(p)
  PROVE  /\ opc[p] = "denyAudit" =>
              [fn |-> "ownerApproveDispatch", id |-> oreq[p],
               status |-> "DENIED"] \in audit'
         /\ opc[p] = "okAudit" =>
              [fn |-> "ownerApproveDispatch", id |-> oreq[p],
               status |-> orec[p].status] \in audit'
         /\ opc[p] = "okSave" => SaveFinalRecord(p)
<1> USE DEF OwnerStep, OwnerAt
<1>1. CASE opc[p] = "denyAudit"
  <2>1. DenyAudit(p)
    BY <1>1 DEF ApprovalStep, ContinueApproval, BeginApproval, DenySave,
       ReadApprovedSecret, GrantOnApproval, AuditGrant, LoadApprovedMaterial,
       SendApproved, SaveFinalRecord, AuditApproval, AuditApprovedDispatch,
       CutApproval
  <2>. QED  BY <1>1, <2>1 DEF DenyAudit, AppendAudit
<1>2. CASE opc[p] = "okAudit"
  <2>1. AuditApproval(p) \/ CutApproval(p)
    BY <1>2 DEF ApprovalStep, ContinueApproval, BeginApproval, DenySave,
       ReadApprovedSecret, GrantOnApproval, AuditGrant, LoadApprovedMaterial,
       SendApproved, SaveFinalRecord, DenyAudit, AuditApprovedDispatch
  <2>. QED  BY <1>2, <2>1 DEF AuditApproval, CutApproval, AppendAudit
<1>3. CASE opc[p] = "okSave"
  BY <1>3 DEF ApprovalStep, ContinueApproval, BeginApproval, DenySave,
     ReadApprovedSecret, GrantOnApproval, AuditGrant, LoadApprovedMaterial,
     SendApproved, DenyAudit, AuditApproval, AuditApprovedDispatch, CutApproval
<1>. QED  BY <1>1, <1>2, <1>3

\* What an approval counts: it is about to log what it has settled.
LEMMA ApprovalCounts ==
  ASSUME TypeInv, NEW p \in Owners, ApprovalStep(p)
  PROVE  /\ UNCHANGED <<accepted, dispatchSends, crashes>>
         /\ \/ UNCHANGED settled
            \/ /\ Settle(p) /\ UNCHANGED oreq /\ oreq[p] \in RequestIds
               /\ opc'[p] \in {"denyAudit", "okSave"}
<1>1. CASE DenySave(p) \/ SendApproved(p)
  BY <1>1 DEF DenySave, SendApproved, Settle, OwnerStep, OwnerAt, OwnerGoto,
     OwnerLocals, TypeInv, TypeOK, OwnersOK, OwnerLocalsOK, ApprovalPCs
<1>2. CASE ~DenySave(p) /\ ~SendApproved(p)
  BY <1>2, ApprovalIsUneventful DEF history
<1>. QED  BY <1>1, <1>2

\* An approval leaves no fate untold.
LEMMA ApprovalLogsFate ==
  ASSUME TypeInv, LogOK, NEW p \in Owners, ApprovalStep(p)
  PROVE  LogOK'
<1>1. UNCHANGED callVars /\ audit \subseteq audit'
  BY ApprovalFrame, LogGrows DEF Next
<1>2. OutcomesLogged'
  BY <1>1 DEF LogOK, OutcomesLogged, Logged, callVars
<1>3. SUFFICES ASSUME crashes' = 0, NEW r \in RequestIds
               PROVE  /\ requests'[r].status \in Terminal => StatusLogged(r)'
                      /\ dispatchSends'[r] > 0 => SendLogged(r)'
                      /\ \A q \in Owners :
                           settled'[<<q, r>>] > 0 => SettlementLogged(q, r)'
  BY <1>2 DEF LogOK, FatesLogged
<1>4. UNCHANGED <<accepted, dispatchSends, crashes>>
  BY ApprovalCounts
<1>5. /\ requests[r].status \in Terminal => StatusLogged(r)
      /\ dispatchSends[r] > 0 => SendLogged(r)
      /\ \A q \in Owners : settled[<<q, r>>] > 0 => SettlementLogged(q, r)
  BY <1>3, <1>4 DEF LogOK, FatesLogged
<1>6. requests'[r].status \in Terminal => StatusLogged(r)'
  <2>1. CASE requests'[r] = requests[r] /\ requests[r].status \in Terminal
    <3>1. CASE \/ Logged("agentDispatchSecret", r, {requests[r].status})
               \/ Logged("ownerApproveDispatch", r, {requests[r].status})
      <4>1. \/ Logged("agentDispatchSecret", r, {requests[r].status})'
            \/ Logged("ownerApproveDispatch", r, {requests[r].status})'
        BY <1>1, <2>1, <3>1 DEF Logged
      <4>. QED  BY <4>1 DEF StatusLogged
    <3>2. ASSUME NEW q \in Owners, q # p, AboutToLog(q, r)
          PROVE  StatusLogged(r)'
      BY <2>1, <3>2, ApprovalElsewhere DEF AboutToLog, StatusLogged
    <3>3. CASE AboutToLog(p, r)
      <4>1. [fn |-> "ownerApproveDispatch", id |-> r,
             status |-> requests[r].status] \in audit'
        BY <3>3, ApprovalEntries DEF AboutToLog
      <4>2. Logged("ownerApproveDispatch", r, {requests[r].status})'
        BY <2>1, <4>1 DEF Logged
      <4>. QED  BY <4>2 DEF StatusLogged
    <3>. QED  BY <1>5, <2>1, <3>1, <3>2, <3>3 DEF StatusLogged
  <2>2. CASE requests'[r] # requests[r]
    <3>1. /\ DenySave(p) \/ SaveFinalRecord(p)
          /\ r = oreq[p]
          /\ DenySave(p) => requests'[r].status = "DENIED"
          /\ SaveFinalRecord(p) => requests'[r] = orec[p]
      BY <2>2, ApprovalSaves
    <3>2. AboutToLog(p, r)'
      BY <3>1 DEF DenySave, SaveFinalRecord, OwnerStep, OwnerGoto, OwnerLocals,
         AboutToLog, TypeInv, TypeOK, OwnersOK
    <3>. QED  BY <3>2 DEF StatusLogged
  <2>. QED  BY <2>1, <2>2
<1>7. dispatchSends'[r] > 0 => SendLogged(r)'
  BY <1>1, <1>4, <1>5 DEF SendLogged, Logged, callVars
<1>8. ASSUME NEW q \in Owners, settled'[<<q, r>>] > 0
      PROVE  SettlementLogged(q, r)'
  <2>1. CASE settled'[<<q, r>>] # settled[<<q, r>>]
    <3>1. /\ Settle(p) /\ UNCHANGED oreq
          /\ opc'[p] \in {"denyAudit", "okSave"}
      BY <2>1, ApprovalCounts
    <3>2. q = p /\ r = oreq[p]
      BY <2>1, <3>1 DEF Settle, TypeInv, TypeOK, HistoryOK
    <3>. QED  BY <3>1, <3>2 DEF SettlementLogged
  <2>2. CASE Logged("ownerApproveDispatch", r, Terminal)
    BY <1>1, <2>2 DEF SettlementLogged, Logged
  <2>3. CASE q # p /\ oreq[q] = r /\ opc[q] \in {"denyAudit", "okSave", "okAudit"}
    BY <2>3, ApprovalElsewhere DEF SettlementLogged
  <2>4. CASE q = p /\ oreq[p] = r /\ opc[p] = "okSave"
    BY <2>4, ApprovalEntries DEF SaveFinalRecord, OwnerStep, OwnerGoto,
       OwnerLocals, TypeInv, TypeOK, OwnersOK, SettlementLogged
  <2>5. CASE q = p /\ oreq[p] = r /\ opc[p] \in {"denyAudit", "okAudit"}
    <3>1. PICK s \in Terminal :
            [fn |-> "ownerApproveDispatch", id |-> r, status |-> s] \in audit'
      BY <2>5, ApprovalEntries DEF TypeInv, OwnerLocalsOK, Terminal
    <3>2. Logged("ownerApproveDispatch", r, Terminal)'
      BY <3>1 DEF Logged
    <3>. QED  BY <3>2 DEF SettlementLogged
  <2>. QED  BY <1>5, <1>8, <2>1, <2>2, <2>3, <2>4, <2>5 DEF SettlementLogged
<1>. QED  BY <1>6, <1>7, <1>8

\* Neither does a step that saves and counts nothing and no approval takes.
LEMMA OtherLogsFate ==
  ASSUME LogOK, UNCHANGED <<requests, dispatchSends, settled, crashes>>,
         UNCHANGED callVars, audit \subseteq audit',
         \A p \in Owners : opc[p] \in {"denyAudit", "okSave", "okAudit"} =>
           opc'[p] = opc[p] /\ oreq'[p] = oreq[p] /\ orec'[p] = orec[p]
  PROVE  LogOK'
<1>1. OutcomesLogged'
  BY DEF LogOK, OutcomesLogged, Logged, callVars
<1>2. SUFFICES ASSUME crashes' = 0, NEW r \in RequestIds
               PROVE  /\ requests'[r].status \in Terminal => StatusLogged(r)'
                      /\ dispatchSends'[r] > 0 => SendLogged(r)'
                      /\ \A q \in Owners :
                           settled'[<<q, r>>] > 0 => SettlementLogged(q, r)'
  BY <1>1 DEF LogOK, FatesLogged
<1>3. /\ requests[r].status \in Terminal => StatusLogged(r)
      /\ dispatchSends[r] > 0 => SendLogged(r)
      /\ \A q \in Owners : settled[<<q, r>>] > 0 => SettlementLogged(q, r)
  BY <1>2 DEF LogOK, FatesLogged
<1>4. requests'[r].status \in Terminal => StatusLogged(r)'
  BY <1>3 DEF StatusLogged, AboutToLog, Logged
<1>5. dispatchSends'[r] > 0 => SendLogged(r)'
  BY <1>3 DEF SendLogged, Logged, callVars
<1>6. \A q \in Owners : settled'[<<q, r>>] > 0 => SettlementLogged(q, r)'
  BY <1>3 DEF SettlementLogged, Logged
<1>. QED  BY <1>4, <1>5, <1>6

LEMMA InitLogs == Init => LogOK
BY CallOfType DEF Init, LogOK, OutcomesLogged, FatesLogged, NoRecord,
   Terminal, Executed

LEMMA LogStep ==
  ASSUME TypeInv, LogOK, [Next]_vars
  PROVE  LogOK'
<1>1. ASSUME NEW c \in Calls, DispatchStep(c)  PROVE LogOK'
  BY <1>1, DispatchLogsOutcome, DispatchLogsFate DEF LogOK
<1>2. ASSUME NEW p \in Owners, ApprovalStep(p)  PROVE LogOK'
  BY <1>2, ApprovalLogsFate
<1>3. ASSUME NEW p \in Owners, AdminStep(p)  PROVE LogOK'
  <2>1. UNCHANGED <<requests, audit, callVars, history>>
    BY <1>3, AdminFrame DEF UnchangedByAdmin
  <2>2. \A q \in Owners : opc[q] \in ApprovalPCs =>
          opc'[q] = opc[q] /\ oreq'[q] = oreq[q] /\ orec'[q] = orec[q]
    BY <1>3, AdminElsewhere
  <2>. QED  BY <2>1, <2>2, OtherLogsFate DEF history, ApprovalPCs
<1>4. CASE Crash
  <2>1. crashes' # 0
    BY <1>4 DEF Crash, TypeInv, TypeOK, HistoryOK
  <2>2. OutcomesLogged'
    BY <1>4 DEF Crash, OutcomesLogged, TypeInv, TypeOK, CallsOK
  <2>. QED  BY <2>1, <2>2 DEF LogOK, FatesLogged
<1>5. CASE UNCHANGED <<durable, callVars, ownVars, history>>
  BY <1>5, OtherLogsFate DEF durable, ownVars, history
<1>. QED
  BY <1>1, <1>2, <1>3, <1>4, <1>5 DEF Next, Forget, vars

(***************************************************************************)
(* The log tells what happened to a request nobody works on, for any       *)
(* number of deliveries, owner calls and requests.                         *)
(***************************************************************************)
THEOREM OutcomesAreLogged == Spec => []OutcomeIsLogged
<1>1. TypeInv /\ LogOK => OutcomeIsLogged
  <2> SUFFICES ASSUME TypeInv, LogOK, NEW r \in RequestIds, crashes = 0, Quiet(r)
               PROVE  /\ requests[r].status \in Terminal =>
                           \/ Logged("agentDispatchSecret", r,
                                     {requests[r].status})
                           \/ Logged("ownerApproveDispatch", r,
                                     {requests[r].status})
                      /\ dispatchSends[r] > 0 =>
                           Logged("agentDispatchSecret", r, Executed)
                      /\ (\E p \in Owners : settled[<<p, r>>] > 0) =>
                           Logged("ownerApproveDispatch", r, Terminal)
    BY DEF OutcomeIsLogged
  <2>1. /\ requests[r].status \in Terminal => StatusLogged(r)
        /\ dispatchSends[r] > 0 => SendLogged(r)
        /\ \A p \in Owners : settled[<<p, r>>] > 0 => SettlementLogged(p, r)
    BY DEF LogOK, FatesLogged
  <2>2. /\ \A p \in Owners : oreq[p] # r
        /\ \A c \in Calls : Id(c) = r => pc[c] # "outAudit"
    BY DEF Quiet
  <2>. QED
    BY <2>1, <2>2 DEF StatusLogged, SendLogged, SettlementLogged, AboutToLog
<1>2. TypeInv /\ LogOK /\ [Next]_vars => LogOK'
  BY LogStep
<1>. QED  BY <1>1, <1>2, InitLogs, TypeCorrect, PTL DEF Spec

-----------------------------------------------------------------------------
(***************************************************************************)
(* Material.  A secret that is active has its material: a removal destroys *)
(* it last, and nothing makes a secret active again.                       *)
(***************************************************************************)
MaterialOK ==
  /\ active \subseteq material
  /\ \A p \in Owners :
       opc[p] = "destroyMaterial" => otarget[p].secret \notin active

\* An owner call keeps its target and its list to itself.
LEMMA TargetsElsewhere ==
  ASSUME TypeInv, NEW p \in Owners, ApprovalStep(p) \/ AdminStep(p)
  PROVE  \A q \in Owners : q # p => /\ opc'[q] = opc[q]
                                    /\ otarget'[q] = otarget[q]
                                    /\ otodo'[q] = otodo[q]
<1> USE DEF TypeInv, TypeOK, OwnersOK, OwnerStep, OwnerAt, OwnerGoto,
            OwnerReturn, OwnerLocals
<1>1. CASE ApprovalStep(p)
  BY <1>1 DEF ApprovalStep, ContinueApproval, BeginApproval, DenySave,
     DenyAudit, ReadApprovedSecret, GrantOnApproval, AuditGrant,
     LoadApprovedMaterial, SendApproved, SaveFinalRecord, AuditApproval,
     AuditApprovedDispatch, CutApproval
<1>2. CASE BeginAdmin(p)
  BY <1>2 DEF BeginAdmin, Begin, BeginAgentGrant, BeginDestGrant,
     BeginDestRevocation, CreateSite, BeginUpdateSite, BeginDeleteSite,
     BeginRemoveSecret, ownVars
<1>3. CASE ContinueAdmin(p)
  BY <1>3 DEF ContinueAdmin, UpsertAgentGrant, DeleteAgentGrant,
     ResolveGrantSite, ResolveRevokeSite, UpsertDestGrant, DeleteDestGrant,
     SaveSite, DropDestGrants, ListDestGrants, ListOrphans, DropOrphans,
     DropSite, ListGrants, DropListedAgentGrant, DropListedDestGrant,
     SaveRemoved, DestroyMaterial
<1>. QED  BY <1>1, <1>2, <1>3 DEF AdminStep

\* Of the administration, only a removal that ends touches secrets.
LEMMA AdminSecrets ==
  ASSUME TypeInv, NEW p \in Owners, AdminStep(p)
  PROVE  \/ UNCHANGED <<active, material>> /\ opc'[p] # "destroyMaterial"
         \/ SaveRemoved(p) /\ UNCHANGED material
         \/ DestroyMaterial(p) /\ UNCHANGED active
<1> USE DEF TypeInv, TypeOK, OwnersOK, OwnerStep, OwnerAt, OwnerGoto,
            OwnerReturn
<1>1. CASE BeginAdmin(p)
  BY <1>1 DEF BeginAdmin, Begin, BeginAgentGrant, BeginDestGrant,
     BeginDestRevocation, CreateSite, BeginUpdateSite, BeginDeleteSite,
     BeginRemoveSecret, durable, ownVars
<1>2. CASE ContinueAdmin(p)
  BY <1>2 DEF ContinueAdmin, UpsertAgentGrant, DeleteAgentGrant,
     ResolveGrantSite, ResolveRevokeSite, UpsertDestGrant, DeleteDestGrant,
     SaveSite, DropDestGrants, ListDestGrants, ListOrphans, DropOrphans,
     DropSite, ListGrants, DropListedAgentGrant, DropListedDestGrant,
     SaveRemoved, DestroyMaterial, durable
<1>. QED  BY <1>1, <1>2 DEF AdminStep

LEMMA MaterialStep ==
  ASSUME TypeInv, MaterialOK, [Next]_vars
  PROVE  MaterialOK' /\ active' \subseteq active
<1>1. CASE UNCHANGED <<active, material, ownVars>>
  BY <1>1 DEF MaterialOK, ownVars
<1>2. ASSUME NEW c \in Calls, DispatchStep(c)
      PROVE  UNCHANGED <<active, material, ownVars>>
  BY <1>2, DispatchFrame
     DEF DispatchStep, Verify, AssertNotReplayed, RejectDelivery, ReadSecret,
         ReadAgentGrant, ReadSite, ReadDestGrant, RecordRequest,
         AnnounceRequest, AskRead, AskSave, AskAudit, RecheckSecret,
         LoadMaterial, Send, OutcomeAudit, OutcomeRead, OutcomeSave, CutShort,
         durable
<1>3. ASSUME NEW p \in Owners, ApprovalStep(p)
      PROVE  MaterialOK' /\ active' \subseteq active
  <2>1. UNCHANGED <<active, material>>
    BY <1>3, ApprovalFrame
  <2>2. opc'[p] # "destroyMaterial"
    BY <1>3, ApprovalMoves DEF ApprovalMove, ApprovalEdges, TypeInv, TypeOK,
       OwnersOK
  <2>. QED  BY <1>3, <2>1, <2>2, TargetsElsewhere DEF MaterialOK
<1>4. ASSUME NEW p \in Owners, AdminStep(p)
      PROVE  MaterialOK' /\ active' \subseteq active
  <2>1. CASE UNCHANGED <<active, material>> /\ opc'[p] # "destroyMaterial"
    BY <1>4, <2>1, TargetsElsewhere DEF MaterialOK
  <2>2. CASE SaveRemoved(p) /\ UNCHANGED material
    <3>1. /\ active' = active \ {otarget[p].secret} /\ otarget' = otarget
      BY <2>2 DEF SaveRemoved, OwnerLocals
    <3>. QED  BY <1>4, <2>2, <3>1, TargetsElsewhere DEF MaterialOK
  <2>3. CASE DestroyMaterial(p) /\ UNCHANGED active
    <3>1. /\ material' = material \ {otarget[p].secret}
          /\ otarget[p].secret \notin active
          /\ opc'[p] # "destroyMaterial"
      BY <2>3 DEF DestroyMaterial, OwnerAt, OwnerReturn, OwnerGoto, MaterialOK,
         TypeInv, TypeOK, OwnersOK
    <3>. QED  BY <1>4, <2>3, <3>1, TargetsElsewhere DEF MaterialOK
  <2>. QED  BY <1>4, <2>1, <2>2, <2>3, AdminSecrets
<1>5. CASE Crash
  BY <1>5 DEF Crash, MaterialOK, durable
<1>. QED
  BY <1>1, <1>2, <1>3, <1>4, <1>5 DEF Next, Forget, vars, durable, MaterialOK

-----------------------------------------------------------------------------
(***************************************************************************)
(* Progress.  Unless the process has died, a record IN_PROGRESS belongs to *)
(* the handler that saved it last, which is still under way, was cut short *)
(* or has found the secret removed.                                        *)
(***************************************************************************)
WorkingPCs == RecordedPCs \ {"askAudit"}

IsWorkedOn(r) ==
  LET c == requests[r].from
  IN  /\ Id(c) = r
      /\ \/ pc[c] \in WorkingPCs /\ requests[r].secret = ResolvedSecret(c)
         \/ pc[c] = "cut"
         \/ requests[r].secret \in Secrets \ active

ProgressOK ==
  /\ MaterialOK
  /\ \A c \in Calls : pc[c] \in {"recheck", "load"} => decision[c] = "allow"
  /\ crashes = 0 =>
       \A r \in RequestIds : requests[r].status = "IN_PROGRESS" => IsWorkedOn(r)

\* What a handler that works on a record leaves behind.
LEMMA CallLeaves ==
  ASSUME TypeInv, ProgressOK, NEW c \in Calls, DispatchStep(c),
         pc[c] \in WorkingPCs
  PROVE  \/ /\ pc'[c] \in WorkingPCs /\ ResolvedSecret(c)' = ResolvedSecret(c)
         \/ pc'[c] = "cut"
         \/ decision[c] = "allow" /\ CallOf[c].secret \notin active
         \/ requests'[Id(c)].status # "IN_PROGRESS"
<1>1. CASE AskSave(c) \/ OutcomeSave(c)
  <2>1. requests'[Id(c)].status # "IN_PROGRESS"
    BY <1>1, CallOfType DEF AskSave, OutcomeSave, Step, At, SaveRecord,
       TypeInv, TypeOK, StoresOK, CallLocalsOK, Records, Terminal, Executed
  <2>. QED  BY <2>1
<1>2. CASE RecheckSecret(c) \/ LoadMaterial(c)
  <2>1. CASE Return(c)
    BY <1>2, <2>1 DEF RecheckSecret, LoadMaterial, At, Return, End, Goto,
       ProgressOK, MaterialOK, TypeInv, TypeOK, CallsOK
  <2>2. CASE ~Return(c)
    BY <1>2, <2>2 DEF RecheckSecret, LoadMaterial, At, Goto, WorkingPCs,
       RecordedPCs, ResolvedSecret, TypeInv, TypeOK, CallsOK
  <2>. QED  BY <2>1, <2>2
<1>3. CASE ~AskSave(c) /\ ~OutcomeSave(c) /\ ~RecheckSecret(c) /\ ~LoadMaterial(c)
  <2>1. pc'[c] \in WorkingPCs \cup {"cut"}
    BY <1>3 DEF DispatchStep, Verify, AssertNotReplayed, RejectDelivery,
       ReadSecret, ReadAgentGrant, ReadSite, ReadDestGrant, RecordRequest,
       AnnounceRequest, AskRead, AskAudit, Send, OutcomeAudit, OutcomeRead,
       CutShort, End, Step, At, Goto, WorkingPCs, RecordedPCs, TypeInv,
       TypeOK, CallsOK
  <2>2. pc'[c] # "cut" => decision'[c] = decision[c]
    BY <2>1, CallElsewhere DEF WorkingPCs, RecordedPCs
  <2>. QED  BY <2>1, <2>2 DEF ResolvedSecret
<1>. QED  BY <1>1, <1>2, <1>3

\* Only the decision to allow leads to the secret being read again.
LEMMA AllowedOnly ==
  ASSUME TypeInv, ProgressOK, NEW c \in Calls, DispatchStep(c), NEW d \in Calls,
         pc'[d] \in {"recheck", "load"}
  PROVE  decision'[d] = "allow"
<1>1. CASE d # c
  BY <1>1, CallElsewhere DEF ProgressOK
<1>2. CASE d = c
  <2>1. <<pc[c], pc'[c]>> \in CallEdges
    BY CallMoves DEF TypeInv, TypeOK, CallsOK
  <2>2. pc[c] \in {"announce", "recheck"}
    BY <1>2, <2>1 DEF CallEdges
  <2>3. decision'[c] = decision[c]
    BY <1>2, <2>2, CallElsewhere DEF RecordedPCs
  <2>4. CASE pc[c] = "announce"
    BY <1>2, <2>3, <2>4
       DEF DispatchStep, Verify, AssertNotReplayed, RejectDelivery, ReadSecret,
           ReadAgentGrant, ReadSite, ReadDestGrant, RecordRequest,
           AnnounceRequest, AskRead, AskSave, AskAudit, RecheckSecret,
           LoadMaterial, Send, OutcomeAudit, OutcomeRead, OutcomeSave, CutShort,
           End, Step, At, Goto, TypeInv, TypeOK, CallsOK
  <2>. QED  BY <1>2, <2>2, <2>3, <2>4 DEF ProgressOK
<1>. QED  BY <1>1, <1>2

LEMMA DispatchProgress ==
  ASSUME TypeInv, ProgressOK, NEW c \in Calls, DispatchStep(c)
  PROVE  ProgressOK'
<1>1. MaterialOK' /\ active' \subseteq active
  BY MaterialStep DEF Next, ProgressOK
<1>2. \A d \in Calls : pc'[d] \in {"recheck", "load"} => decision'[d] = "allow"
  BY AllowedOnly
<1>3. SUFFICES ASSUME crashes' = 0, NEW r \in RequestIds,
                      requests'[r].status = "IN_PROGRESS"
               PROVE  IsWorkedOn(r)'
  BY <1>1, <1>2 DEF ProgressOK
<1>4. CASE requests'[r] = requests[r]
  <2> DEFINE d == requests[r].from
  <2>1. requests[r].status = "IN_PROGRESS" /\ IsWorkedOn(r)
    BY <1>3, <1>4, CallCounts DEF ProgressOK
  <2>2. /\ Id(d) = r /\ d \in Calls /\ requests[r].secret \in Secrets \cup {Nil}
        /\ requests'[r].from = d /\ requests'[r].secret = requests[r].secret
    BY <1>4, <2>1 DEF IsWorkedOn, TypeInv, TypeOK, StoresOK, Records, NoRecord
  <2>3. CASE requests[r].secret \in Secrets \ active
    BY <1>1, <2>2, <2>3 DEF IsWorkedOn
  <2>4. CASE pc[d] = "cut"
    <3>1. pc'[d] = "cut"
      BY <2>2, <2>4, CallMoves DEF CallEdges, TypeInv, TypeOK, CallsOK
    <3>. QED  BY <2>2, <3>1 DEF IsWorkedOn
  <2>5. CASE pc[d] \in WorkingPCs /\ requests[r].secret = ResolvedSecret(d)
    <3>1. CASE d # c
      <4>1. pc'[d] = pc[d] /\ ResolvedSecret(d)' = ResolvedSecret(d)
        BY <2>2, <3>1, CallElsewhere DEF ResolvedSecret
      <4>. QED  BY <2>2, <2>5, <4>1 DEF IsWorkedOn
    <3>2. CASE d = c
      <4>1. CASE pc'[c] \in WorkingPCs /\ ResolvedSecret(c)' = ResolvedSecret(c)
        BY <2>2, <2>5, <3>2, <4>1 DEF IsWorkedOn
      <4>2. CASE pc'[c] = "cut"
        BY <2>2, <3>2, <4>2 DEF IsWorkedOn
      <4>3. CASE decision[c] = "allow" /\ CallOf[c].secret \notin active
        <5>1. requests[r].secret \in Secrets \ active
          BY <2>5, <3>2, <4>3, CallOfType DEF ResolvedSecret
        <5>. QED  BY <2>3, <5>1
      <4>. QED  BY <1>3, <2>2, <2>5, <3>2, <4>1, <4>2, <4>3, CallLeaves
    <3>. QED  BY <3>1, <3>2
  <2>. QED  BY <2>1, <2>3, <2>4, <2>5 DEF IsWorkedOn
<1>5. CASE requests'[r] # requests[r]
  <2>1. r = Id(c) /\ ~UNCHANGED requests
    BY <1>5, CallSaves
  <2>2. ~AskSave(c) /\ ~OutcomeSave(c)
    BY <1>3, <2>1 DEF AskSave, OutcomeSave, Step, At, SaveRecord, TypeInv,
       TypeOK, StoresOK, CallLocalsOK, Records, Terminal, Executed
  <2>3. RecordRequest(c) /\ requests'[r] = [status |-> "IN_PROGRESS",
                                            from |-> c,
                                            secret |-> ResolvedSecret(c)]
    BY <2>1, <2>2, CallSaves
  <2>4. /\ pc'[c] = "announce"
        /\ ResolvedSecret(c)' = ResolvedSecret(c)
    BY <2>3 DEF RecordRequest, Step, Goto, ResolvedSecret, TypeInv, TypeOK,
       CallsOK
  <2>5. /\ requests'[r].from = c /\ requests'[r].secret = ResolvedSecret(c)'
        /\ pc'[c] \in WorkingPCs
    BY <2>3, <2>4 DEF WorkingPCs, RecordedPCs
  <2>. QED  BY <2>1, <2>5 DEF IsWorkedOn
<1>. QED  BY <1>4, <1>5

LEMMA ProgressStep ==
  ASSUME TypeInv, ProgressOK, [Next]_vars
  PROVE  ProgressOK'
<1>1. MaterialOK' /\ active' \subseteq active
  BY MaterialStep DEF ProgressOK
<1>2. ASSUME UNCHANGED <<callVars, crashes>>,
             \A r \in RequestIds : requests'[r].status = "IN_PROGRESS"
                                     => requests'[r] = requests[r]
      PROVE  ProgressOK'
  <2>1. \A c \in Calls : pc'[c] \in {"recheck", "load"} => decision'[c] = "allow"
    BY <1>2 DEF ProgressOK, callVars
  <2>2. ASSUME crashes' = 0, NEW r \in RequestIds,
               requests'[r].status = "IN_PROGRESS"
        PROVE  IsWorkedOn(r)'
    <3>1. requests'[r] = requests[r] /\ IsWorkedOn(r)
      BY <1>2, <2>2 DEF ProgressOK
    <3>. QED  BY <1>1, <1>2, <3>1 DEF IsWorkedOn, ResolvedSecret, callVars
  <2>. QED  BY <1>1, <2>1, <2>2 DEF ProgressOK
<1>3. ASSUME NEW p \in Owners, ApprovalStep(p)  PROVE ProgressOK'
  <2>1. UNCHANGED <<callVars, crashes>>
    BY <1>3, ApprovalFrame, ApprovalCounts
  <2>2. \A r \in RequestIds : requests'[r].status = "IN_PROGRESS"
                                => requests'[r] = requests[r]
    BY <1>3, ApprovalSaves DEF Terminal, Executed
  <2>. QED  BY <1>2, <2>1, <2>2
<1>4. ASSUME NEW p \in Owners, AdminStep(p)  PROVE ProgressOK'
  BY <1>2, <1>4, AdminFrame DEF UnchangedByAdmin, history
<1>5. CASE Crash
  <2>1. crashes' # 0 /\ \A c \in Calls : pc'[c] \notin {"recheck", "load"}
    BY <1>5 DEF Crash, TypeInv, TypeOK, HistoryOK
  <2>. QED  BY <1>1, <2>1 DEF ProgressOK
<1>6. CASE UNCHANGED <<durable, callVars, ownVars, history>>
  BY <1>2, <1>6 DEF durable, history
<1>. QED
  BY DispatchProgress, <1>3, <1>4, <1>5, <1>6 DEF Next, Forget, vars

(***************************************************************************)
(* A record is left IN_PROGRESS with nobody behind it only for one of the  *)
(* three reasons, for any number of deliveries, owner calls and requests.  *)
(***************************************************************************)
THEOREM InProgressIsExplained == Spec => []InProgressIsWorkedOn
<1>1. Init => ProgressOK
  BY DEF Init, ProgressOK, MaterialOK, NoRecord
<1>2. TypeInv /\ ProgressOK /\ [Next]_vars => ProgressOK'
  BY ProgressStep
<1>3. TypeInv /\ ProgressOK => InProgressIsWorkedOn
  <2> SUFFICES ASSUME TypeInv, ProgressOK, NEW r \in RequestIds,
                      requests[r].status = "IN_PROGRESS", Quiet(r), crashes = 0
               PROVE  WasCut(r) \/ requests[r].secret \in Secrets \ active
    BY DEF InProgressIsWorkedOn
  <2>1. IsWorkedOn(r) /\ requests[r].from \in Calls
    BY DEF ProgressOK, TypeInv, TypeOK, StoresOK, Records, NoRecord
  <2>2. \A c \in Calls : Id(c) = r => pc[c] \notin WorkingPCs
    BY DEF Quiet, WorkingPCs, RecordedPCs
  <2>. QED  BY <2>1, <2>2 DEF IsWorkedOn, WasCut
<1>. QED  BY <1>1, <1>2, <1>3, TypeCorrect, PTL DEF Spec

-----------------------------------------------------------------------------
(***************************************************************************)
(* The life of a request, as long as no two owner calls decide it at once. *)
(* Of a request accepted once, one delivery at most is being served, and   *)
(* the status of the record says how far it is; an owner call that decides *)
(* it finds it awaiting approval until it has saved its decision.          *)
(***************************************************************************)
DecidingPCs == ClaimingPCs \cup {"okSave"}

DecisionsApart ==
  \A p, q \in Owners :
    /\ opc[p] \in DecidingPCs /\ opc[q] \in DecidingPCs
    /\ oreq[p] = oreq[q]
    => p = q

AuthorizingPCs == {"secret", "agentGrant", "site", "destGrant", "record"}
ServingPCs == AuthorizingPCs \cup WorkingPCs

LifeOf(r) ==
  /\ accepted[r] = 0 => requests[r].status = "NONE"
  /\ \A c \in Calls : Id(c) = r =>
       /\ pc[c] \in AuthorizingPCs => requests[r].status = "NONE"
       /\ pc[c] \in WorkingPCs => requests[r].status = "IN_PROGRESS"
       /\ pc[c] \in ServingPCs =>
            /\ accepted[r] = 1
            /\ \A d \in Calls : Id(d) = r /\ pc[d] \in ServingPCs => d = c
  /\ \A p \in Owners :
       oreq[p] = r /\ opc[p] \in DecidingPCs
         => requests[r].status = "AWAITING_APPROVAL"

LifeOK == \A r \in RequestIds : accepted[r] <= 1 => LifeOf(r)

\* Where the steps that save or count stand, and that nothing else happens
\* there.
LEMMA CallAt ==
  ASSUME NEW c \in Calls, DispatchStep(c)
  PROVE  /\ pc[c] = "verified" => AssertNotReplayed(c)
         /\ pc[c] = "record" => RecordRequest(c)
         /\ AskSave(c) => pc[c] = "askSave"
         /\ OutcomeSave(c) => pc[c] = "outSave"
<1> USE DEF Step, At
<1>1. ASSUME pc[c] \in {"verified", "record"}
      PROVE  AssertNotReplayed(c) \/ RecordRequest(c)
  BY <1>1 DEF DispatchStep, Verify, RejectDelivery, ReadSecret, ReadAgentGrant,
     ReadSite, ReadDestGrant, AnnounceRequest, AskRead, AskSave, AskAudit,
     RecheckSecret, LoadMaterial, Send, OutcomeAudit, OutcomeRead, OutcomeSave,
     CutShort
<1>. QED
  BY <1>1 DEF AssertNotReplayed, RecordRequest, AskSave, OutcomeSave

\* A handler serves a delivery from its acceptance on, and works on its
\* record from the moment it has saved it.
LEMMA CallServes ==
  ASSUME TypeInv, NEW c \in Calls, DispatchStep(c)
  PROVE  /\ pc'[c] \in AuthorizingPCs
              => \/ pc[c] \in AuthorizingPCs
                 \/ /\ pc'[c] = "secret"
                    /\ accepted' = [accepted EXCEPT ![Id(c)] = @ + 1]
         /\ pc'[c] \in WorkingPCs => pc[c] \in WorkingPCs \/ RecordRequest(c)
         /\ AskSave(c) \/ OutcomeSave(c) =>
              pc[c] \in WorkingPCs /\ pc'[c] \notin ServingPCs
         /\ RecordRequest(c) => pc[c] = "record" /\ pc'[c] = "announce"
<1>1. <<pc[c], pc'[c]>> \in CallEdges
  BY CallMoves DEF TypeInv, TypeOK, CallsOK
<1>2. CASE AssertNotReplayed(c)
  BY <1>1, <1>2 DEF AssertNotReplayed, Step, At, Goto, TypeInv, TypeOK, CallsOK,
     AuthorizingPCs, WorkingPCs, RecordedPCs, CallEdges, AskSave, OutcomeSave,
     RecordRequest
<1>3. CASE RecordRequest(c)
  BY <1>3 DEF RecordRequest, Step, At, Goto, TypeInv, TypeOK, CallsOK,
     AuthorizingPCs, WorkingPCs, RecordedPCs, AskSave, OutcomeSave
<1>4. CASE pc[c] \notin {"verified", "record"}
  <2>1. AskSave(c) => pc[c] = "askSave" /\ pc'[c] = "askAudit"
    BY DEF AskSave, Step, At, Goto, TypeInv, TypeOK, CallsOK
  <2>2. OutcomeSave(c) => pc[c] = "outSave" /\ pc'[c] = "done"
    BY DEF OutcomeSave, At, Return, End, Goto, TypeInv, TypeOK, CallsOK
  <2>3. ~RecordRequest(c)
    BY <1>4 DEF RecordRequest, Step, At
  <2>. QED
    BY <1>1, <1>4, <2>1, <2>2, <2>3
       DEF CallEdges, AuthorizingPCs, WorkingPCs, RecordedPCs, ServingPCs
<1>. QED  BY <1>2, <1>3, <1>4, CallAt

\* Acceptance is counted, and nothing is counted down.
LEMMA AcceptedGrows ==
  ASSUME TypeInv, [Next]_vars, NEW r \in RequestIds
  PROVE  accepted[r] <= accepted'[r]
<1>1. accepted[r] \in Nat
  BY DEF TypeInv, TypeOK, HistoryOK
<1>2. CASE UNCHANGED accepted
  BY <1>1, <1>2
<1>3. ASSUME NEW c \in Calls, Accept(c)  PROVE accepted[r] <= accepted'[r]
  BY <1>1, <1>3 DEF Accept, TypeInv, TypeOK, HistoryOK
<1>. QED
  BY <1>2, <1>3, HistorySteps DEF history, Send, Settle, Crash

LEMMA DispatchLives ==
  ASSUME TypeInv, LifeOK, NEW c \in Calls, DispatchStep(c)
  PROVE  LifeOK'
<1> SUFFICES ASSUME NEW r \in RequestIds, accepted'[r] <= 1
             PROVE  LifeOf(r)'
  BY DEF LifeOK
<1>1. /\ accepted[r] \in Nat /\ accepted'[r] \in Nat /\ accepted[r] <= accepted'[r]
      /\ [Next]_vars
  <2>1. [Next]_vars
    BY DEF Next
  <2>. QED
    BY <2>1, AcceptedGrows, TypeStep DEF TypeInv, TypeOK, HistoryOK
<1>2. LifeOf(r)
  BY <1>1 DEF LifeOK
<1>3. UNCHANGED <<opc, oreq>>
  BY DispatchFrame DEF ownVars
<1>4. CASE r # Id(c)
  <2>1. /\ requests'[r] = requests[r] /\ accepted'[r] = accepted[r]
        /\ \A d \in Calls : Id(d) = r => pc'[d] = pc[d]
    BY <1>4, CallSaves, CallCounts, CallElsewhere
  <2>. QED  BY <1>2, <1>3, <2>1 DEF LifeOf
<1>5. ASSUME r = Id(c), accepted'[r] # accepted[r]
      PROVE  LifeOf(r)'
  <2>1. AssertNotReplayed(c) /\ accepted' = [accepted EXCEPT ![r] = @ + 1]
    <3>1. AssertNotReplayed(c)
      BY <1>5, HandlerIsUneventful DEF history, AskSave, Send
    <3>. QED  BY <1>5, <3>1 DEF AssertNotReplayed
  <2>2. /\ accepted[r] = 0 /\ accepted'[r] = 1
        /\ requests'[r] = requests[r]
        /\ pc'[c] \in {"secret", "reject"}
    <3>1. accepted'[r] = accepted[r] + 1
      BY <2>1 DEF TypeInv, TypeOK, HistoryOK
    <3>2. accepted[r] = 0 /\ accepted'[r] = 1
      BY <1>1, <3>1
    <3>3. requests'[r] = requests[r]
      BY <2>1 DEF AssertNotReplayed, durable
    <3>4. pc'[c] = "secret" \/ pc'[c] = "reject"
      BY <2>1 DEF AssertNotReplayed, Step, Goto, TypeInv, TypeOK, CallsOK
    <3>. QED  BY <3>2, <3>3, <3>4
  <2>3. /\ requests[r].status = "NONE"
        /\ \A d \in Calls : Id(d) = r => pc[d] \notin ServingPCs
    BY <1>2, <2>2 DEF LifeOf
  <2>4. \A d \in Calls : Id(d) = r /\ pc'[d] \in ServingPCs =>
          d = c /\ pc'[d] \in AuthorizingPCs
    BY <2>2, <2>3, CallElsewhere DEF ServingPCs, AuthorizingPCs, WorkingPCs,
       RecordedPCs
  <2>. QED
    BY <1>2, <1>3, <2>2, <2>3, <2>4
       DEF LifeOf, ServingPCs, AuthorizingPCs, WorkingPCs, RecordedPCs
<1>6. ASSUME r = Id(c), accepted'[r] = accepted[r]
      PROVE  LifeOf(r)'
  <2>1. /\ pc'[c] \in AuthorizingPCs => pc[c] \in AuthorizingPCs
        /\ pc'[c] \in WorkingPCs => pc[c] \in WorkingPCs \/ RecordRequest(c)
        /\ AskSave(c) \/ OutcomeSave(c) =>
              pc[c] \in WorkingPCs /\ pc'[c] \notin ServingPCs
        /\ RecordRequest(c) => pc[c] = "record" /\ pc'[c] = "announce"
    <3>1. accepted' # [accepted EXCEPT ![r] = @ + 1]
      BY <1>1, <1>6 DEF TypeInv, TypeOK, HistoryOK
    <3>. QED  BY <1>6, <3>1, CallServes
  <2>2. \A d \in Calls : d # c => pc'[d] = pc[d]
    BY CallElsewhere
  <2>3. CASE RecordRequest(c)
    <3>1. /\ pc[c] = "record" /\ pc'[c] = "announce"
          /\ requests'[r].status = "IN_PROGRESS"
      BY <1>6, <2>1, <2>3, CallOfType
         DEF RecordRequest, SaveRecord, TypeInv, TypeOK, StoresOK
    <3>2. /\ accepted[r] = 1 /\ requests[r].status = "NONE"
          /\ \A d \in Calls : Id(d) = r /\ pc[d] \in ServingPCs => d = c
      BY <1>2, <1>6, <3>1 DEF LifeOf, ServingPCs, AuthorizingPCs
    <3>3. \A d \in Calls : Id(d) = r /\ pc'[d] \in ServingPCs =>
            d = c /\ pc'[d] \notin AuthorizingPCs
      BY <2>2, <3>1, <3>2 DEF AuthorizingPCs
    <3>. QED
      BY <1>2, <1>3, <1>6, <3>1, <3>2, <3>3 DEF LifeOf, ServingPCs
  <2>4. CASE AskSave(c) \/ OutcomeSave(c)
    <3>1. /\ accepted[r] = 1 /\ requests[r].status = "IN_PROGRESS"
          /\ \A d \in Calls : Id(d) = r /\ pc[d] \in ServingPCs => d = c
      BY <1>2, <1>6, <2>1, <2>4 DEF LifeOf, ServingPCs
    <3>2. \A d \in Calls : Id(d) = r => pc'[d] \notin ServingPCs
      BY <2>1, <2>2, <2>4, <3>1
    <3>. QED
      BY <1>2, <1>3, <1>6, <3>1, <3>2 DEF LifeOf, ServingPCs
  <2>5. CASE UNCHANGED requests /\ ~RecordRequest(c)
    <3>1. \A d \in Calls : /\ pc'[d] \in AuthorizingPCs => pc[d] \in AuthorizingPCs
                           /\ pc'[d] \in WorkingPCs => pc[d] \in WorkingPCs
                           /\ pc'[d] \in ServingPCs => pc[d] \in ServingPCs
      BY <2>1, <2>2, <2>5 DEF ServingPCs
    <3>. QED  BY <1>2, <1>3, <1>6, <2>5, <3>1 DEF LifeOf
  <2>. QED  BY <2>3, <2>4, <2>5, CallSaves
<1>. QED  BY <1>4, <1>5, <1>6

LEMMA ApprovalLives ==
  ASSUME TypeInv, DecisionsApart, LifeOK, NEW p \in Owners, ApprovalStep(p)
  PROVE  LifeOK'
<1>1. UNCHANGED <<pc, accepted>>
  BY ApprovalFrame, ApprovalCounts DEF callVars
<1>2. SUFFICES ASSUME NEW r \in RequestIds, accepted'[r] <= 1
               PROVE  LifeOf(r)'
  BY DEF LifeOK
<1>3. LifeOf(r)
  BY <1>1, <1>2 DEF LifeOK
<1>4. \A q \in Owners : q # p => opc'[q] = opc[q] /\ oreq'[q] = oreq[q]
  BY ApprovalElsewhere
<1>5. PICK next : ApprovalMove(p, next)
  BY ApprovalMoves
<1>6. opc[p] \in OwnerPCs /\ opc'[p] = next
  BY <1>5 DEF ApprovalMove, TypeInv, TypeOK, OwnersOK
<1>7. CASE requests'[r] # requests[r]
  <2>1. /\ r = oreq[p] /\ requests'[r].status \in Terminal
        /\ \/ opc[p] = "denySave" /\ opc'[p] = "denyAudit"
           \/ opc[p] = "okSave" /\ opc'[p] = "okAudit"
    <3>1. r = oreq[p] /\ requests'[r].status \in Terminal
      BY <1>7, ApprovalSaves
    <3>2. DenySave(p) \/ SaveFinalRecord(p)
      BY <1>7, ApprovalSaves
    <3>. QED
      BY <3>1, <3>2 DEF DenySave, SaveFinalRecord, OwnerStep, OwnerAt,
         OwnerGoto, TypeInv, TypeOK, OwnersOK
  <2>2. requests[r].status = "AWAITING_APPROVAL"
    BY <1>3, <2>1 DEF LifeOf, DecidingPCs, ClaimingPCs
  <2>3. \A q \in Owners : opc'[q] \in DecidingPCs => oreq'[q] # r
    <3>1. opc[p] \in DecidingPCs /\ opc'[p] \notin DecidingPCs
      BY <2>1 DEF DecidingPCs, ClaimingPCs
    <3>. QED  BY <1>4, <2>1, <3>1 DEF DecisionsApart
  <2>4. \A c \in Calls : Id(c) = r => pc[c] \notin ServingPCs
    BY <1>3, <2>2 DEF LifeOf, ServingPCs
  <2>5. accepted[r] # 0
    BY <1>3, <2>2 DEF LifeOf
  <2>. QED  BY <1>1, <2>3, <2>4, <2>5 DEF LifeOf, ServingPCs
<1>8. CASE requests'[r] = requests[r]
  <2>1. ASSUME oreq'[p] = r, opc'[p] \in DecidingPCs
        PROVE  requests[r].status = "AWAITING_APPROVAL"
    <3>1. CASE opc[p] = "idle"
      <4>1. \E q \in RequestIds, d \in Decisions : BeginApproval(p, q, d)
        BY <3>1 DEF ApprovalStep, ContinueApproval, DenySave, DenyAudit,
           ReadApprovedSecret, GrantOnApproval, AuditGrant,
           LoadApprovedMaterial, SendApproved, SaveFinalRecord, AuditApproval,
           AuditApprovedDispatch, CutApproval, OwnerStep, OwnerAt
      <4>. QED  BY <2>1, <4>1 DEF BeginApproval, TypeInv, TypeOK, OwnersOK
    <3>2. CASE opc[p] # "idle"
      <4>1. <<opc[p], next>> \in ApprovalEdges /\ next # "idle"
        BY <1>5, <1>6, <2>1 DEF ApprovalMove, DecidingPCs, ClaimingPCs
      <4>2. oreq[p] = r
        BY <1>5, <2>1, <3>2, <4>1 DEF ApprovalMove
      <4>3. opc[p] \in DecidingPCs
        BY <1>6, <2>1, <3>2, <4>1 DEF ApprovalEdges, DecidingPCs, ClaimingPCs
      <4>. QED  BY <1>3, <4>2, <4>3 DEF LifeOf
    <3>. QED  BY <3>1, <3>2
  <2>. QED  BY <1>1, <1>3, <1>4, <1>8, <2>1 DEF LifeOf
<1>. QED  BY <1>7, <1>8

LEMMA LifeStep ==
  ASSUME TypeInv, DecisionsApart, LifeOK, [Next]_vars
  PROVE  LifeOK'
<1>1. ASSUME UNCHANGED <<requests, pc, accepted>>,
             \A p \in Owners : opc'[p] \in DecidingPCs
                                 => opc'[p] = opc[p] /\ oreq'[p] = oreq[p]
      PROVE  LifeOK'
  BY <1>1 DEF LifeOK, LifeOf
<1>2. ASSUME NEW p \in Owners, AdminStep(p)  PROVE LifeOK'
  <2>1. UNCHANGED <<requests, pc, accepted>>
    BY <1>2, AdminFrame DEF UnchangedByAdmin, callVars, history
  <2>2. \A q \in Owners : opc'[q] \in DecidingPCs
                            => opc'[q] = opc[q] /\ oreq'[q] = oreq[q]
    BY <1>2, AdminElsewhere DEF ApprovalPCs, DecidingPCs, ClaimingPCs
  <2>. QED  BY <1>1, <2>1, <2>2
<1>3. CASE Crash
  <2>1. /\ UNCHANGED <<requests, accepted>>
        /\ \A c \in Calls : pc'[c] \notin ServingPCs
        /\ \A p \in Owners : opc'[p] = "idle"
    BY <1>3 DEF Crash, durable, ServingPCs, AuthorizingPCs, WorkingPCs,
       RecordedPCs, TypeInv, TypeOK, CallsOK
  <2>. QED
    BY <2>1 DEF LifeOK, LifeOf, ServingPCs, DecidingPCs, ClaimingPCs
<1>4. CASE UNCHANGED <<durable, callVars, ownVars, history>>
  BY <1>1, <1>4 DEF durable, callVars, ownVars, history
<1>. QED
  BY DispatchLives, ApprovalLives, <1>2, <1>3, <1>4 DEF Next, Forget, vars

\* The status as an agent sees it, and the turns it may take.
Shown == [r \in RequestIds |-> IF accepted[r] <= 1 THEN requests[r].status
                                                   ELSE "WITHDRAWN"]

Turns ==
  {<<"NONE", "IN_PROGRESS">>}
    \cup {"IN_PROGRESS"} \X (Terminal \cup {"AWAITING_APPROVAL"})
    \cup {"AWAITING_APPROVAL"} \X Terminal

\* A step that turns one record the right way is a step of RequestLife.
LEMMA TurnIsLife ==
  ASSUME TypeInv, UNCHANGED accepted, NEW r \in RequestIds,
         \A q \in RequestIds : q # r => requests'[q] = requests[q],
         accepted[r] <= 1 => <<requests[r].status, requests'[r].status>> \in Turns
  PROVE  [Life!Next]_Shown
<1>1. CASE accepted[r] <= 1
  <2> DEFINE to == requests'[r].status
  <2>1. Shown' = [Shown EXCEPT ![r] = to]
    BY <1>1 DEF Shown
  <2>2. Shown[r] = requests[r].status
    BY <1>1 DEF Shown
  <2>3. CASE requests[r].status = "NONE" /\ to = "IN_PROGRESS"
    BY <2>1, <2>2, <2>3 DEF Life!Next, Life!Appear, Life!Turn, Shown
  <2>4. CASE /\ requests[r].status = "IN_PROGRESS"
             /\ to \in Terminal \cup {"AWAITING_APPROVAL"}
    BY <2>1, <2>2, <2>4 DEF Life!Next, Life!Advance, Life!Turn, Life!Ends,
       Terminal, Executed, Shown
  <2>5. CASE requests[r].status = "AWAITING_APPROVAL" /\ to \in Terminal
    BY <2>1, <2>2, <2>5 DEF Life!Next, Life!Decide, Life!Turn, Life!Ends,
       Terminal, Executed, Shown
  <2>. QED  BY <1>1, <2>3, <2>4, <2>5 DEF Turns
<1>2. CASE ~(accepted[r] <= 1)
  BY <1>2 DEF Shown
<1>. QED  BY <1>1, <1>2

\* A request accepted again is withdrawn.
LEMMA AcceptIsLife ==
  ASSUME TypeInv, UNCHANGED requests, NEW c \in Calls, Accept(c)
  PROVE  [Life!Next]_Shown
<1> DEFINE r == Id(c)
<1>1. r \in RequestIds /\ accepted[r] \in Nat
  BY CallOfType DEF TypeInv, TypeOK, HistoryOK
<1>2. accepted' = [accepted EXCEPT ![r] = accepted[r] + 1]
  BY DEF Accept
<1>3. \A q \in RequestIds : accepted'[q] =
                              IF q = r THEN accepted[r] + 1 ELSE accepted[q]
  BY <1>2 DEF TypeInv, TypeOK, HistoryOK
<1>4. CASE accepted[r] = 1
  <2>1. ASSUME NEW q \in RequestIds
        PROVE  Shown'[q] = IF q = r THEN "WITHDRAWN" ELSE Shown[q]
    <3>1. CASE q = r
      <4>1. ~(accepted'[q] <= 1)
        BY <1>1, <1>3, <1>4, <3>1
      <4>. QED  BY <3>1, <4>1 DEF Shown
    <3>2. CASE q # r
      BY <1>3, <3>2 DEF Shown
    <3>. QED  BY <3>1, <3>2
  <2>2. Shown' = [Shown EXCEPT ![r] = "WITHDRAWN"]
    BY <2>1 DEF Shown
  <2>. QED  BY <1>1, <2>2 DEF Life!Next, Life!Withdraw, Shown
<1>5. CASE accepted[r] # 1
  <2>1. accepted[r] <= 1 <=> accepted[r] + 1 <= 1
    BY <1>1, <1>5
  <2>2. Shown' = Shown
    BY <1>1, <1>3, <2>1 DEF Shown
  <2>. QED  BY <2>2
<1>. QED  BY <1>4, <1>5

LEMMA DispatchIsLife ==
  ASSUME TypeInv, LifeOK, NEW c \in Calls, DispatchStep(c)
  PROVE  [Life!Next]_Shown
<1>1. Id(c) \in RequestIds
  BY CallOfType
<1>2. CASE AssertNotReplayed(c)
  <2>1. UNCHANGED requests
    BY <1>2 DEF AssertNotReplayed, durable
  <2>2. UNCHANGED accepted \/ Accept(c)
    BY <1>2 DEF AssertNotReplayed, Accept
  <2>3. CASE UNCHANGED accepted
    BY <2>1, <2>3 DEF Shown
  <2>. QED  BY <2>1, <2>2, <2>3, AcceptIsLife
<1>3. CASE ~AssertNotReplayed(c)
  <2>1. UNCHANGED accepted
    BY <1>3, HandlerIsUneventful DEF history, AskSave, Send
  <2>2. CASE UNCHANGED requests
    BY <2>1, <2>2 DEF Shown
  <2>3. CASE RecordRequest(c)
    <3>1. pc[c] = "record" /\ requests'[Id(c)].status = "IN_PROGRESS"
      BY <1>1, <2>3 DEF RecordRequest, Step, At, SaveRecord, TypeInv, TypeOK,
         StoresOK
    <3>2. accepted[Id(c)] <= 1 => requests[Id(c)].status = "NONE"
      BY <1>1, <3>1 DEF LifeOK, LifeOf, AuthorizingPCs
    <3>. QED  BY <1>1, <2>1, <3>1, <3>2, CallSaves, TurnIsLife DEF Turns
  <2>4. CASE AskSave(c) \/ OutcomeSave(c)
    <3>1. pc[c] \in {"askSave", "outSave"}
      BY <2>4, CallAt
    <3>2. requests'[Id(c)].status \in Terminal \cup {"AWAITING_APPROVAL"}
      BY <1>1, <2>4 DEF AskSave, OutcomeSave, Step, At, SaveRecord, TypeInv,
         TypeOK, StoresOK, CallLocalsOK, Records
    <3>3. accepted[Id(c)] <= 1 => requests[Id(c)].status = "IN_PROGRESS"
      BY <1>1, <3>1 DEF LifeOK, LifeOf, WorkingPCs, RecordedPCs
    <3>. QED  BY <1>1, <2>1, <3>2, <3>3, CallSaves, TurnIsLife DEF Turns
  <2>. QED  BY <2>2, <2>3, <2>4, CallSaves
<1>. QED  BY <1>2, <1>3

LEMMA ApprovalIsLife ==
  ASSUME TypeInv, LifeOK, NEW p \in Owners, ApprovalStep(p)
  PROVE  [Life!Next]_Shown
<1>1. UNCHANGED accepted
  BY ApprovalCounts
<1>2. CASE UNCHANGED requests
  BY <1>1, <1>2 DEF Shown
<1>3. CASE ~UNCHANGED requests
  <2>1. /\ DenySave(p) \/ SaveFinalRecord(p)
        /\ oreq[p] \in RequestIds
        /\ \A r \in RequestIds : r # oreq[p] => requests'[r] = requests[r]
        /\ requests'[oreq[p]].status \in Terminal
    BY <1>3, ApprovalSaves
  <2>2. opc[p] \in DecidingPCs
    BY <2>1 DEF DenySave, SaveFinalRecord, OwnerStep, OwnerAt, DecidingPCs,
       ClaimingPCs
  <2>3. accepted[oreq[p]] <= 1 => requests[oreq[p]].status = "AWAITING_APPROVAL"
    BY <2>1, <2>2 DEF LifeOK, LifeOf
  <2>. QED  BY <1>1, <2>1, <2>3, TurnIsLife DEF Turns
<1>. QED  BY <1>2, <1>3

(***************************************************************************)
(* As long as no two owner calls decide the same request at once, for any  *)
(* number of deliveries, owner calls and requests: the records follow      *)
(* RequestLife.                                                            *)
(***************************************************************************)
THEOREM RequestLifeFollowed ==
  Spec /\ []DecisionsApart => FollowsRequestLife
<1>1. Init => LifeOK /\ Shown = [r \in RequestIds |-> "NONE"]
  BY DEF Init, LifeOK, LifeOf, NoRecord, Shown, ServingPCs, AuthorizingPCs,
     WorkingPCs, RecordedPCs, DecidingPCs, ClaimingPCs
<1>2. TypeInv /\ DecisionsApart /\ LifeOK /\ [Next]_vars => LifeOK'
  BY LifeStep
<1>3. TypeInv /\ LifeOK /\ [Next]_vars => [Life!Next]_Shown
  <2> SUFFICES ASSUME TypeInv, LifeOK, [Next]_vars PROVE [Life!Next]_Shown
    OBVIOUS
  <2>1. ASSUME NEW p \in Owners, AdminStep(p)  PROVE UNCHANGED Shown
    BY <2>1, AdminFrame DEF UnchangedByAdmin, history, Shown
  <2>2. CASE Crash \/ UNCHANGED <<durable, history>>
    BY <2>2 DEF Crash, durable, history, Shown
  <2>. QED
    BY DispatchIsLife, ApprovalIsLife, <2>1, <2>2 DEF Next, Forget, vars
<1>. QED
  BY <1>1, <1>2, <1>3, TypeCorrect, PTL
     DEF Spec, FollowsRequestLife, Life!Spec, Life!Init, Shown

-----------------------------------------------------------------------------
(***************************************************************************)
(* Grants, as long as nobody grants a secret while it is being removed.  A *)
(* grant is on its way only for an active secret; once a removal has       *)
(* listed the grants of its secret, all there are are on the list, and     *)
(* none is left when the material goes.                                    *)
(***************************************************************************)
GrantingPCs == {"grantAgent", "grantDestSite", "grantDest", "okGrant"}
RemovingPCs == {"dropListed", "destroyMaterial"}

GrantedSecret(p) ==
  IF opc[p] = "okGrant" THEN orec[p].secret ELSE otarget[p].secret

GrantsAvoidRemovals ==
  \A p, q \in Owners :
    opc[p] \in GrantingPCs /\ opc[q] \in RemovingPCs
      => GrantedSecret(p) # otarget[q].secret

GrantsAt(p) ==
  /\ opc[p] \in GrantingPCs => GrantedSecret(p) \in active
  /\ opc[p] = "dropListed" =>
       /\ \A g \in agentGrants :
            g[2] = otarget[p].secret => <<"agent", g>> \in otodo[p]
       /\ \A g \in destGrants :
            g[1] = otarget[p].secret => <<"dest", g>> \in otodo[p]
  /\ opc[p] = "destroyMaterial" =>
       /\ \A g \in agentGrants : g[2] # otarget[p].secret
       /\ \A g \in destGrants : g[1] # otarget[p].secret

GrantsOK ==
  /\ MaterialOK
  /\ NoGrantOutlivesSecret
  /\ \A p \in Owners : GrantsAt(p)

\* A step that adds no grant and leads to no such place keeps it.
LEMMA GrantsKept ==
  ASSUME GrantsOK, material' = material,
         agentGrants' \subseteq agentGrants, destGrants' \subseteq destGrants,
         NEW p \in Owners, opc'[p] \notin GrantingPCs \cup RemovingPCs
  PROVE  NoGrantOutlivesSecret' /\ GrantsAt(p)'
BY DEF GrantsOK, NoGrantOutlivesSecret, GrantsAt, GrantingPCs, RemovingPCs

\* Who adds a grant, and who takes a secret from the active ones.
LEMMA GrantSteps ==
  ASSUME TypeInv, NEW p \in Owners, ApprovalStep(p) \/ AdminStep(p)
  PROVE  /\ \A s \in active \ active' :
              opc[p] \in RemovingPCs /\ s = otarget[p].secret
         /\ \A g \in agentGrants' \ agentGrants :
              opc[p] \in GrantingPCs /\ g[2] = GrantedSecret(p)
         /\ \A g \in destGrants' \ destGrants :
              opc[p] \in GrantingPCs /\ g[1] = GrantedSecret(p)
<1> USE DEF GrantingPCs, RemovingPCs, GrantedSecret, OwnerStep, OwnerAt
<1>1. CASE GrantOnApproval(p)
  BY <1>1 DEF GrantOnApproval
<1>2. CASE ApprovalStep(p) /\ ~GrantOnApproval(p)
  <2>1. UNCHANGED <<agentGrants, destGrants>>
    BY <1>2 DEF ApprovalStep, ContinueApproval, BeginApproval, DenySave,
       DenyAudit, ReadApprovedSecret, AuditGrant, LoadApprovedMaterial,
       SendApproved, SaveFinalRecord, AuditApproval, AuditApprovedDispatch,
       CutApproval, durable
  <2>. QED  BY <1>2, <2>1, ApprovalFrame
<1>3. CASE BeginAdmin(p)
  BY <1>3 DEF BeginAdmin, BeginAgentGrant, BeginDestGrant, BeginDestRevocation,
     CreateSite, BeginUpdateSite, BeginDeleteSite, BeginRemoveSecret, durable
<1>4. CASE \/ UpsertAgentGrant(p) \/ UpsertDestGrant(p) \/ SaveRemoved(p)
  BY <1>4 DEF UpsertAgentGrant, UpsertDestGrant, SaveRemoved, AgentGrantOf,
     DestGrantOf
<1>5. CASE /\ ContinueAdmin(p)
           /\ ~(UpsertAgentGrant(p) \/ UpsertDestGrant(p) \/ SaveRemoved(p))
  <2>1. /\ active' = active
        /\ agentGrants' \subseteq agentGrants /\ destGrants' \subseteq destGrants
    BY <1>5 DEF ContinueAdmin, DeleteAgentGrant, ResolveGrantSite,
       ResolveRevokeSite, DeleteDestGrant, SaveSite, DropDestGrants,
       ListDestGrants, ListOrphans, DropOrphans, DropSite, ListGrants,
       DropListedAgentGrant, DropListedDestGrant, DestroyMaterial, durable
  <2>. QED  BY <2>1
<1>. QED  BY <1>1, <1>2, <1>3, <1>4, <1>5 DEF AdminStep

\* What one owner call has made sure of, another does not undo.
LEMMA OthersGrants ==
  ASSUME TypeInv, GrantsAvoidRemovals, GrantsOK,
         NEW p \in Owners, ApprovalStep(p) \/ AdminStep(p),
         NEW q \in Owners, q # p
  PROVE  GrantsAt(q)'
<1>1. /\ opc'[q] = opc[q] /\ orec'[q] = orec[q]
      /\ otarget'[q] = otarget[q] /\ otodo'[q] = otodo[q]
  BY TargetsElsewhere, ApprovalElsewhere, AdminElsewhere
<1>2. GrantsAt(q) /\ GrantedSecret(q)' = GrantedSecret(q)
  BY <1>1 DEF GrantsOK, GrantedSecret
<1>3. opc[q] \in GrantingPCs => GrantedSecret(q) \in active'
  BY <1>2, GrantSteps DEF GrantsAt, GrantsAvoidRemovals
<1>4. opc[q] \in RemovingPCs =>
        /\ \A g \in agentGrants' : g[2] = otarget[q].secret => g \in agentGrants
        /\ \A g \in destGrants' : g[1] = otarget[q].secret => g \in destGrants
  BY GrantSteps DEF GrantsAvoidRemovals
<1>. QED  BY <1>1, <1>2, <1>3, <1>4 DEF GrantsAt, RemovingPCs

LEMMA ApprovalGrants ==
  ASSUME TypeInv, GrantsOK, NEW p \in Owners, ApprovalStep(p)
  PROVE  NoGrantOutlivesSecret' /\ GrantsAt(p)'
<1> USE DEF TypeInv, TypeOK, OwnersOK, OwnerStep, OwnerAt, OwnerGoto
<1>1. UNCHANGED <<active, material>>
  BY ApprovalFrame
<1>2. GrantsAt(p)
  BY DEF GrantsOK
<1>3. CASE GrantOnApproval(p)
  <2> DEFINE s == orec[p].secret
  <2>1. /\ s \in material /\ opc'[p] = "okGrantAudit"
        /\ \A g \in agentGrants' : g \in agentGrants \/ g[2] = s
        /\ \A g \in destGrants' : g \in destGrants \/ g[1] = s
    BY <1>2, <1>3
       DEF GrantOnApproval, GrantsOK, GrantsAt, MaterialOK, GrantingPCs,
           GrantedSecret
  <2>. QED
    BY <1>1, <2>1
       DEF GrantsOK, GrantsAt, NoGrantOutlivesSecret, GrantingPCs
<1>4. CASE ReadApprovedSecret(p) /\ opc'[p] = "okGrant"
  <2>1. /\ orec[p].secret \in active /\ UNCHANGED OwnerLocals
        /\ UNCHANGED durable
    BY <1>4 DEF ReadApprovedSecret, OwnerReturn
  <2>. QED
    BY <1>1, <1>4, <2>1
       DEF GrantsOK, GrantsAt, NoGrantOutlivesSecret, OwnerLocals, durable,
           GrantedSecret
<1>5. CASE ~GrantOnApproval(p) /\ ~(ReadApprovedSecret(p) /\ opc'[p] = "okGrant")
  <2>1. UNCHANGED <<agentGrants, destGrants>>
    BY <1>5 DEF ApprovalStep, ContinueApproval, BeginApproval, DenySave,
       DenyAudit, ReadApprovedSecret, AuditGrant, LoadApprovedMaterial,
       SendApproved, SaveFinalRecord, AuditApproval, AuditApprovedDispatch,
       CutApproval, durable
  <2>2. opc'[p] # "okGrant"
    BY <1>5 DEF ApprovalStep, ContinueApproval, BeginApproval, DenySave,
       DenyAudit, AuditGrant, LoadApprovedMaterial, SendApproved,
       SaveFinalRecord, AuditApproval, AuditApprovedDispatch, CutApproval,
       OwnerReturn
  <2>3. <<opc[p], opc'[p]>> \in ApprovalEdges
    BY ApprovalMoves DEF ApprovalMove
  <2>4. opc'[p] \notin GrantingPCs \cup RemovingPCs
    BY <2>2, <2>3 DEF ApprovalEdges, GrantingPCs, RemovingPCs
  <2>. QED  BY <1>1, <2>1, <2>4, GrantsKept
<1>. QED  BY <1>3, <1>4, <1>5

LEMMA AdminGrants ==
  ASSUME TypeInv, GrantsOK, NEW p \in Owners, AdminStep(p)
  PROVE  NoGrantOutlivesSecret' /\ GrantsAt(p)'
<1> USE DEF TypeInv, TypeOK, OwnersOK, OwnerStep, OwnerAt, OwnerGoto
<1>1. GrantsAt(p)
  BY DEF GrantsOK
<1>2. CASE \/ \E a \in Agents, s \in Secrets : BeginAgentGrant(p, a, s)
           \/ \E s \in Secrets, d \in Domains : BeginDestGrant(p, s, d)
  <2>1. /\ UNCHANGED durable
        /\ opc'[p] \notin GrantingPCs \cup RemovingPCs
           \/ /\ otarget'[p].secret \in active
                                      /\ opc'[p] \in {"grantAgent",
                                                      "grantDestSite"}
    <3>1. ASSUME NEW a \in Agents, NEW s \in Secrets, BeginAgentGrant(p, a, s)
          PROVE  /\ UNCHANGED durable
                 /\ opc'[p] \in {"grantAgent", "revokeAgent"}
                 /\ otarget'[p].secret \in active
      BY <3>1 DEF BeginAgentGrant, Begin, NoTarget
    <3>2. ASSUME NEW s \in Secrets, NEW d \in Domains, BeginDestGrant(p, s, d)
          PROVE  /\ UNCHANGED durable /\ opc'[p] = "grantDestSite"
                 /\ otarget'[p].secret \in active
      BY <3>2 DEF BeginDestGrant, Begin, NoTarget
    <3>. QED  BY <1>2, <3>1, <3>2 DEF GrantingPCs, RemovingPCs
  <2>. QED  BY <1>1, <2>1 DEF GrantsOK, GrantsAt, NoGrantOutlivesSecret, GrantingPCs,
       GrantedSecret, durable, RemovingPCs
<1>3. CASE \/ \E s \in Secrets, w \in Domains \cup SiteIds :
                BeginDestRevocation(p, s, w)
           \/ \E s \in SiteIds, d \in Domains : CreateSite(p, s, d)
           \/ \E s \in SiteIds, d \in Domains : BeginUpdateSite(p, s, d)
           \/ \E s \in SiteIds \cup Domains : BeginDeleteSite(p, s)
           \/ \E s \in Secrets : BeginRemoveSecret(p, s)
  <2>1. UNCHANGED <<material, agentGrants, destGrants>> /\ opc'[p] \notin GrantingPCs \cup RemovingPCs
    BY <1>3 DEF BeginDestRevocation, CreateSite, BeginUpdateSite,
       BeginDeleteSite, BeginRemoveSecret, Begin, durable, ownVars, GrantingPCs, RemovingPCs
  <2>. QED  BY <1>1, <2>1, GrantsKept
<1>4. CASE UpsertAgentGrant(p) \/ UpsertDestGrant(p)
  <2> DEFINE s == otarget[p].secret
  <2>1. s \in material /\ material' = material /\ opc'[p] = "idle"
    BY <1>1, <1>4 DEF UpsertAgentGrant, UpsertDestGrant, OwnerReturn, GrantsOK,
       GrantsAt, GrantingPCs, GrantedSecret, MaterialOK
  <2>2. /\ \A g \in agentGrants' : g \in agentGrants \/ g[2] = s
        /\ \A g \in destGrants' : g \in destGrants \/ g[1] = s
    BY <1>4 DEF UpsertAgentGrant, UpsertDestGrant, AgentGrantOf, DestGrantOf
  <2>. QED
    BY <1>1, <2>1, <2>2 DEF GrantsOK, GrantsAt, NoGrantOutlivesSecret, GrantingPCs,
       GrantedSecret
<1>5. CASE ResolveGrantSite(p)
  <2>1. /\ UNCHANGED durable
        /\ \/ opc'[p] = "idle"
           \/ /\ opc[p] = "grantDestSite" /\ opc'[p] = "grantDest"
              /\ otarget'[p].secret = otarget[p].secret
    BY <1>5 DEF ResolveGrantSite, OwnerReturn, Targets
  <2>. QED  BY <1>1, <2>1 DEF GrantsOK, GrantsAt, NoGrantOutlivesSecret, GrantingPCs,
       GrantedSecret, durable
<1>6. CASE ListGrants(p)
  <2> DEFINE s == otarget[p].secret
  <2>1. /\ UNCHANGED <<durable, otarget>> /\ opc'[p] = "dropListed"
        /\ otodo'[p] = {<<"agent", g>> : g \in {h \in agentGrants : h[2] = s}}
                         \cup
                       {<<"dest", g>> : g \in {h \in destGrants : h[1] = s}}
    BY <1>6 DEF ListGrants
  <2>. QED  BY <1>1, <2>1 DEF GrantsOK, GrantsAt, NoGrantOutlivesSecret, GrantingPCs,
       GrantedSecret, durable
<1>7. CASE DropListedAgentGrant(p)
  <2>1. PICK t \in otodo[p] :
          /\ t[1] = "agent" /\ agentGrants' = agentGrants \ {t[2]}
          /\ otodo'[p] = otodo[p] \ {t}
    BY <1>7 DEF DropListedAgentGrant, Listed
  <2>2. /\ UNCHANGED <<material, active, destGrants, otarget>>
        /\ opc[p] = "dropListed" /\ opc'[p] = "dropListed"
    BY <1>7 DEF DropListedAgentGrant
  <2>. QED  BY <1>1, <2>1, <2>2 DEF GrantsOK, GrantsAt, NoGrantOutlivesSecret, GrantingPCs,
       GrantedSecret
<1>8. CASE DropListedDestGrant(p)
  <2>1. PICK t \in otodo[p] :
          /\ t[1] = "dest" /\ destGrants' = destGrants \ {t[2]}
          /\ otodo'[p] = otodo[p] \ {t}
    BY <1>8 DEF DropListedDestGrant, Listed
  <2>2. /\ UNCHANGED <<material, active, agentGrants, otarget>>
        /\ opc[p] = "dropListed" /\ opc'[p] = "dropListed"
    BY <1>8 DEF DropListedDestGrant
  <2>. QED  BY <1>1, <2>1, <2>2 DEF GrantsOK, GrantsAt, NoGrantOutlivesSecret, GrantingPCs,
       GrantedSecret
<1>9. CASE SaveRemoved(p)
  <2>1. /\ UNCHANGED <<material, agentGrants, destGrants, otarget>>
        /\ opc[p] = "dropListed" /\ opc'[p] = "destroyMaterial"
        /\ otodo[p] = {}
    BY <1>9 DEF SaveRemoved, OwnerLocals
  <2>. QED  BY <1>1, <2>1 DEF GrantsOK, GrantsAt, NoGrantOutlivesSecret, GrantingPCs,
       GrantedSecret
<1>10. CASE DestroyMaterial(p)
  <2>1. /\ UNCHANGED <<agentGrants, destGrants>>
        /\ material' = material \ {otarget[p].secret}
        /\ opc[p] = "destroyMaterial" /\ opc'[p] = "idle"
    BY <1>10 DEF DestroyMaterial, OwnerReturn
  <2>. QED  BY <1>1, <2>1 DEF GrantsOK, GrantsAt, NoGrantOutlivesSecret, GrantingPCs,
       GrantedSecret
<1>11. CASE \/ DeleteAgentGrant(p) \/ ResolveRevokeSite(p) \/ DeleteDestGrant(p)
            \/ SaveSite(p) \/ DropDestGrants(p) \/ ListDestGrants(p)
            \/ ListOrphans(p) \/ DropOrphans(p) \/ DropSite(p)
  <2>1. /\ material' = material
        /\ agentGrants' \subseteq agentGrants /\ destGrants' \subseteq destGrants
        /\ opc'[p] \notin GrantingPCs \cup RemovingPCs
    BY <1>11 DEF DeleteAgentGrant, ResolveRevokeSite, DeleteDestGrant, SaveSite,
       DropDestGrants, ListDestGrants, ListOrphans, DropOrphans, DropSite,
       OwnerReturn, durable, GrantingPCs, RemovingPCs
  <2>. QED  BY <1>1, <2>1, GrantsKept
<1>. QED
  BY <1>2, <1>3, <1>4, <1>5, <1>6, <1>7, <1>8, <1>9, <1>10, <1>11
     DEF AdminStep, BeginAdmin, ContinueAdmin

\* A dispatch handler writes no grant, no site and no secret.
LEMMA DispatchGrantsNothing ==
  ASSUME NEW c \in Calls, DispatchStep(c)
  PROVE  UNCHANGED <<active, material, agentGrants, destGrants, liveSites>>
BY DEF DispatchStep, Verify, AssertNotReplayed, RejectDelivery, ReadSecret,
   ReadAgentGrant, ReadSite, ReadDestGrant, RecordRequest, AnnounceRequest,
   AskRead, AskSave, AskAudit, RecheckSecret, LoadMaterial, Send, OutcomeAudit,
   OutcomeRead, OutcomeSave, CutShort, durable

LEMMA GrantsStep ==
  ASSUME TypeInv, GrantsAvoidRemovals, GrantsOK, [Next]_vars
  PROVE  GrantsOK'
<1>1. MaterialOK'
  BY MaterialStep DEF GrantsOK
<1>2. CASE UNCHANGED <<active, material, agentGrants, destGrants, ownVars>>
  BY <1>1, <1>2 DEF GrantsOK, GrantsAt, GrantedSecret, NoGrantOutlivesSecret,
     ownVars
<1>3. CASE Crash
  <2>1. UNCHANGED durable /\ \A p \in Owners : opc'[p] = "idle"
    BY <1>3 DEF Crash
  <2>. QED
    BY <1>1, <2>1 DEF GrantsOK, GrantsAt, GrantingPCs, NoGrantOutlivesSecret,
       durable
<1>4. ASSUME NEW c \in Calls, DispatchStep(c)
      PROVE  UNCHANGED <<active, material, agentGrants, destGrants, ownVars>>
  BY <1>4, DispatchGrantsNothing, DispatchFrame
<1>5. ASSUME NEW p \in Owners, ApprovalStep(p) \/ AdminStep(p)
      PROVE  GrantsOK'
  BY <1>1, <1>5, ApprovalGrants, AdminGrants, OthersGrants DEF GrantsOK
<1>. QED
  BY <1>2, <1>3, <1>4, <1>5 DEF Next, Forget, vars, durable

(***************************************************************************)
(* As long as nobody grants a secret while it is being removed, and        *)
(* whatever the agents and the other owners do: nothing is granted for a   *)
(* secret whose material is destroyed.                                     *)
(***************************************************************************)
THEOREM GrantsEndWithSecret ==
  Spec /\ []GrantsAvoidRemovals => []NoGrantOutlivesSecret
<1>1. Init => GrantsOK
  BY DEF Init, GrantsOK, GrantsAt, GrantingPCs, MaterialOK,
     NoGrantOutlivesSecret
<1>2. TypeInv /\ GrantsAvoidRemovals /\ GrantsOK /\ [Next]_vars => GrantsOK'
  BY GrantsStep
<1>3. GrantsOK => NoGrantOutlivesSecret
  BY DEF GrantsOK
<1>. QED  BY <1>1, <1>2, <1>3, TypeCorrect, PTL DEF Spec

-----------------------------------------------------------------------------
(***************************************************************************)
(* Sites, as long as nobody grants a destination under a site while it is  *)
(* being deleted.  A destination grant is on its way only for a site that  *)
(* exists; a deletion that has listed the grants of its site deletes them  *)
(* all before it deletes the site.                                         *)
(***************************************************************************)
DeletingPCs == {"dropDest", "listDest", "listOrphans", "dropOrphans", "dropSite"}

GrantsAvoidDeletions ==
  \A p, q \in Owners :
    opc[p] = "grantDest" /\ opc[q] \in DeletingPCs
      => otarget[p].site # otarget[q].site

SitesAt(p) ==
  /\ opc[p] = "grantDest" => otarget[p].site \in liveSites
  /\ opc[p] \in DeletingPCs =>
       \A g \in destGrants :
         g[2] = otarget[p].site =>
           g[2] \in Domains \/ (opc[p] = "dropDest" /\ g \in otodo[p])

SitesOK == GrantedSitesExist /\ \A p \in Owners : SitesAt(p)

SitePCs == {"grantDest"} \cup DeletingPCs

\* A step that adds no grant and deletes no site keeps it, if it leads to no
\* such place.
LEMMA SitesKept ==
  ASSUME SitesOK, destGrants' \subseteq destGrants, liveSites \subseteq liveSites',
         NEW p \in Owners, opc'[p] \notin SitePCs
  PROVE  GrantedSitesExist' /\ SitesAt(p)'
BY DEF SitesOK, SitesAt, GrantedSitesExist, SitePCs

\* Who deletes a site, and who adds a grant under one.
LEMMA SiteSteps ==
  ASSUME TypeInv, NEW p \in Owners, ApprovalStep(p) \/ AdminStep(p)
  PROVE  /\ \A s \in liveSites \ liveSites' :
              opc[p] \in DeletingPCs /\ s = otarget[p].site
         /\ \A g \in destGrants' \ destGrants :
              g[2] \notin Domains
                => opc[p] = "grantDest" /\ g[2] = otarget[p].site
<1> USE DEF DeletingPCs, OwnerStep, OwnerAt
<1>1. CASE GrantOnApproval(p)
  <2>1. Domain(orec[p].from) \in Domains
    BY <1>1, CallOfType DEF GrantOnApproval, TypeInv, OwnerLocalsOK,
       ApprovalPCs, Records
  <2>. QED  BY <1>1, <2>1, ApprovalFrame DEF GrantOnApproval, ApprovalStep,
            ContinueApproval
<1>2. CASE ApprovalStep(p) /\ ~GrantOnApproval(p)
  <2>1. UNCHANGED destGrants
    BY <1>2 DEF ApprovalStep, ContinueApproval, BeginApproval, DenySave,
       DenyAudit, ReadApprovedSecret, AuditGrant, LoadApprovedMaterial,
       SendApproved, SaveFinalRecord, AuditApproval, AuditApprovedDispatch,
       CutApproval, durable
  <2>. QED  BY <1>2, <2>1, ApprovalFrame
<1>3. CASE BeginAdmin(p)
  BY <1>3 DEF BeginAdmin, BeginAgentGrant, BeginDestGrant, BeginDestRevocation,
     CreateSite, BeginUpdateSite, BeginDeleteSite, BeginRemoveSecret, durable
<1>4. CASE UpsertDestGrant(p) \/ DropSite(p)
  BY <1>4 DEF UpsertDestGrant, DropSite, DestGrantOf
<1>5. CASE ContinueAdmin(p) /\ ~(UpsertDestGrant(p) \/ DropSite(p))
  <2>1. destGrants' \subseteq destGrants /\ liveSites \subseteq liveSites'
    BY <1>5 DEF ContinueAdmin, UpsertAgentGrant, DeleteAgentGrant,
       ResolveGrantSite, ResolveRevokeSite, DeleteDestGrant, SaveSite,
       DropDestGrants, ListDestGrants, ListOrphans, DropOrphans, ListGrants,
       DropListedAgentGrant, DropListedDestGrant, SaveRemoved,
       DestroyMaterial, durable
  <2>. QED  BY <2>1
<1>. QED  BY <1>1, <1>2, <1>3, <1>4, <1>5 DEF AdminStep

\* What one owner call has made sure of, another does not undo.
LEMMA OthersSites ==
  ASSUME TypeInv, GrantsAvoidDeletions, SitesOK,
         NEW p \in Owners, ApprovalStep(p) \/ AdminStep(p),
         NEW q \in Owners, q # p
  PROVE  SitesAt(q)'
<1>1. opc'[q] = opc[q] /\ otarget'[q] = otarget[q] /\ otodo'[q] = otodo[q]
  BY TargetsElsewhere
<1>2. SitesAt(q)
  BY DEF SitesOK
<1>3. opc[q] = "grantDest" => otarget[q].site \in liveSites'
  BY <1>2, SiteSteps DEF SitesAt, GrantsAvoidDeletions
<1>4. opc[q] \in DeletingPCs =>
        \A g \in destGrants' :
          g[2] = otarget[q].site => g \in destGrants \/ g[2] \in Domains
  BY SiteSteps DEF GrantsAvoidDeletions
<1>. QED  BY <1>1, <1>2, <1>3, <1>4 DEF SitesAt

LEMMA ApprovalSites ==
  ASSUME TypeInv, SitesOK, NEW p \in Owners, ApprovalStep(p)
  PROVE  GrantedSitesExist' /\ SitesAt(p)'
<1> USE DEF TypeInv, TypeOK, OwnersOK
<1>1. UNCHANGED liveSites
  BY ApprovalFrame
<1>2. <<opc[p], opc'[p]>> \in ApprovalEdges
  BY ApprovalMoves DEF ApprovalMove
<1>3. opc[p] # "grantDest" /\ opc'[p] \notin SitePCs
  BY <1>2 DEF ApprovalEdges, SitePCs, DeletingPCs
<1>4. \A g \in destGrants' : g \in destGrants \/ g[2] \in Domains
  BY <1>3, SiteSteps
<1>. QED
  BY <1>1, <1>3, <1>4 DEF SitesOK, SitesAt, GrantedSitesExist, SitePCs

LEMMA AdminSites ==
  ASSUME TypeInv, SitesOK, NEW p \in Owners, AdminStep(p)
  PROVE  GrantedSitesExist' /\ SitesAt(p)'
<1> USE DEF TypeInv, TypeOK, OwnersOK, OwnerStep, OwnerAt, OwnerGoto
<1>1. SitesAt(p)
  BY DEF SitesOK
<1>2. CASE BeginAdmin(p) /\ ~\E s \in SiteIds \cup Domains : BeginDeleteSite(p, s)
  <2>1. /\ UNCHANGED destGrants /\ liveSites \subseteq liveSites'
        /\ opc'[p] \notin SitePCs
    BY <1>2 DEF BeginAdmin, BeginAgentGrant, BeginDestGrant,
       BeginDestRevocation, CreateSite, BeginUpdateSite, BeginRemoveSecret,
       Begin, durable, ownVars, SitePCs, DeletingPCs
  <2>. QED  BY <1>1, <2>1, SitesKept
<1>3. CASE \E s \in SiteIds \cup Domains : BeginDeleteSite(p, s)
  <2>1. PICK s \in SiteIds \cup Domains : BeginDeleteSite(p, s)
    BY <1>3
  <2>2. /\ UNCHANGED durable /\ opc'[p] = "dropDest" /\ otarget'[p].site = s
        /\ otodo'[p] = {g \in destGrants : g[2] = s}
    BY <2>1 DEF BeginDeleteSite, Begin, NoTarget
  <2>. QED  BY <1>1, <2>2 DEF SitesOK, SitesAt, GrantedSitesExist, DeletingPCs, durable
<1>4. CASE ResolveGrantSite(p)
  <2>1. /\ UNCHANGED durable
        /\ \/ opc'[p] = "idle"
           \/ opc'[p] = "grantDest" /\ otarget'[p].site \in liveSites
    BY <1>4 DEF ResolveGrantSite, OwnerReturn, SitesOf, Targets
  <2>. QED  BY <1>1, <2>1 DEF SitesOK, SitesAt, GrantedSitesExist, DeletingPCs, durable
<1>5. CASE UpsertDestGrant(p)
  <2>1. /\ \A g \in destGrants' : g \in destGrants \/ g[2] = otarget[p].site
        /\ UNCHANGED liveSites /\ opc[p] = "grantDest" /\ opc'[p] = "idle"
    BY <1>5 DEF UpsertDestGrant, DestGrantOf, OwnerReturn
  <2>. QED  BY <1>1, <2>1 DEF SitesOK, SitesAt, GrantedSitesExist, DeletingPCs
<1>6. CASE DropDestGrants(p)
  <2>1. /\ destGrants' = destGrants \ otodo[p] /\ UNCHANGED <<liveSites, otarget>>
        /\ opc[p] = "dropDest" /\ opc'[p] = "listDest"
    BY <1>6 DEF DropDestGrants
  <2>. QED  BY <1>1, <2>1 DEF SitesOK, SitesAt, GrantedSitesExist, DeletingPCs
<1>7. CASE ListDestGrants(p) \/ ListOrphans(p) \/ DropOrphans(p)
  <2>1. /\ UNCHANGED <<destGrants, liveSites, otarget>>
        /\ opc[p] \in {"listDest", "listOrphans", "dropOrphans"}
        /\ opc'[p] \in {"listOrphans", "dropOrphans", "dropSite"}
    BY <1>7 DEF ListDestGrants, ListOrphans, DropOrphans, durable
  <2>. QED  BY <1>1, <2>1 DEF SitesOK, SitesAt, GrantedSitesExist, DeletingPCs
<1>8. CASE DropSite(p)
  <2>1. /\ liveSites' = liveSites \ {otarget[p].site} /\ UNCHANGED destGrants
        /\ opc[p] = "dropSite" /\ opc'[p] = "idle"
    BY <1>8 DEF DropSite, OwnerReturn
  <2>. QED  BY <1>1, <2>1 DEF SitesOK, SitesAt, GrantedSitesExist, DeletingPCs
<1>9. CASE \/ UpsertAgentGrant(p) \/ DeleteAgentGrant(p) \/ ResolveRevokeSite(p)
           \/ DeleteDestGrant(p) \/ SaveSite(p) \/ ListGrants(p)
           \/ DropListedAgentGrant(p) \/ DropListedDestGrant(p)
           \/ SaveRemoved(p) \/ DestroyMaterial(p)
  <2>1. /\ destGrants' \subseteq destGrants /\ liveSites \subseteq liveSites'
        /\ opc'[p] \notin SitePCs
    BY <1>9 DEF UpsertAgentGrant, DeleteAgentGrant, ResolveRevokeSite,
       DeleteDestGrant, SaveSite, ListGrants, DropListedAgentGrant,
       DropListedDestGrant, SaveRemoved, DestroyMaterial, OwnerReturn, durable,
       SitePCs, DeletingPCs
  <2>. QED  BY <1>1, <2>1, SitesKept
<1>. QED
  BY <1>2, <1>3, <1>4, <1>5, <1>6, <1>7, <1>8, <1>9
     DEF AdminStep, ContinueAdmin

LEMMA SitesStep ==
  ASSUME TypeInv, GrantsAvoidDeletions, SitesOK, [Next]_vars
  PROVE  SitesOK'
<1>1. CASE UNCHANGED <<destGrants, liveSites, ownVars>>
  BY <1>1 DEF SitesOK, SitesAt, GrantedSitesExist, ownVars
<1>2. CASE Crash
  <2>1. UNCHANGED durable /\ \A p \in Owners : opc'[p] = "idle"
    BY <1>2 DEF Crash
  <2>. QED
    BY <2>1 DEF SitesOK, SitesAt, DeletingPCs, GrantedSitesExist, durable
<1>3. ASSUME NEW c \in Calls, DispatchStep(c)
      PROVE  UNCHANGED <<destGrants, liveSites, ownVars>>
  BY <1>3, DispatchGrantsNothing, DispatchFrame
<1>4. ASSUME NEW p \in Owners, ApprovalStep(p) \/ AdminStep(p)
      PROVE  SitesOK'
  BY <1>4, ApprovalSites, AdminSites, OthersSites DEF SitesOK
<1>. QED
  BY <1>1, <1>2, <1>3, <1>4 DEF Next, Forget, vars, durable

(***************************************************************************)
(* As long as nobody grants a destination under a site while it is being   *)
(* deleted: ownerDeleteSite leaves no destination grant behind, whatever   *)
(* id it was given.                                                        *)
(***************************************************************************)
THEOREM GrantsNameSites ==
  Spec /\ []GrantsAvoidDeletions => []GrantedSitesExist
<1>1. Init => SitesOK
  BY DEF Init, SitesOK, SitesAt, DeletingPCs, GrantedSitesExist
<1>2. TypeInv /\ GrantsAvoidDeletions /\ SitesOK /\ [Next]_vars => SitesOK'
  BY SitesStep
<1>3. SitesOK => GrantedSitesExist
  BY DEF SitesOK
<1>. QED  BY <1>1, <1>2, <1>3, TypeCorrect, PTL DEF Spec

-----------------------------------------------------------------------------
(***************************************************************************)
(* The premises of the last three theorems ask for less than owner calls   *)
(* that follow each other, however many owners there are.                  *)
(***************************************************************************)
OneCallAtATime ==
  \A p, q \in Owners : opc[p] # "idle" /\ opc[q] # "idle" => p = q

\* One owner call at a time, whoever makes it, meets all three premises.
LEMMA OneCallSuffices ==
  ASSUME OneCallAtATime
  PROVE  DecisionsApart /\ GrantsAvoidRemovals /\ GrantsAvoidDeletions
BY DEF OneCallAtATime, DecisionsApart, GrantsAvoidRemovals,
   GrantsAvoidDeletions, DecidingPCs, ClaimingPCs, GrantingPCs, RemovingPCs,
   DeletingPCs
=============================================================================
