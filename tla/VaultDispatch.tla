---------------------------- MODULE VaultDispatch ----------------------------
(***************************************************************************)
(* The vault core serving agent deliveries and owner calls at the same     *)
(* time, with the death of its process and the replay guard's forgetting.  *)
(***************************************************************************)
EXTENDS AgentDispatch, OwnerAdmin

Init ==
  /\ active = Secrets /\ material = Secrets
  /\ agentGrants = {} /\ destGrants = {}
  /\ siteDomain = [s \in SiteIds |-> Nil] /\ liveSites = {}
  /\ requests = [r \in RequestIds |-> NoRecord]
  /\ audit = {}
  /\ seen = {}
  /\ pc = [c \in Calls |-> "new"]
  /\ agentOk = [c \in Calls |-> FALSE]
  /\ site = [c \in Calls |-> Nil]
  /\ decision = [c \in Calls |-> "none"]
  /\ base = [c \in Calls |-> NoRecord]
  /\ outcome = [c \in Calls |-> "none"]
  /\ opc = [p \in Owners |-> "idle"]
  /\ oreq = [p \in Owners |-> Nil]
  /\ odecision = [p \in Owners |-> "none"]
  /\ orec = [p \in Owners |-> NoRecord]
  /\ otarget = [p \in Owners |-> NoTarget]
  /\ otodo = [p \in Owners |-> {}]
  /\ accepted = [r \in RequestIds |-> 0]
  /\ dispatchSends = [r \in RequestIds |-> 0]
  /\ settled = [k \in Owners \X RequestIds |-> 0]
  /\ crashes = 0

(***************************************************************************)
(* The process dies: the calls it was serving, the owner calls and the     *)
(* replay guard go with it; a delivery that had not arrived still may.     *)
(***************************************************************************)
Crash ==
  /\ crashes < MaxCrashes
  /\ crashes' = crashes + 1
  /\ seen' = {}
  /\ pc' = [c \in Calls |-> IF pc[c] = "new" THEN "new" ELSE "done"]
  /\ agentOk' = [c \in Calls |-> FALSE]
  /\ site' = [c \in Calls |-> Nil]
  /\ decision' = [c \in Calls |-> "none"]
  /\ base' = [c \in Calls |-> NoRecord]
  /\ outcome' = [c \in Calls |-> "none"]
  /\ opc' = [p \in Owners |-> "idle"]
  /\ oreq' = [p \in Owners |-> Nil]
  /\ odecision' = [p \in Owners |-> "none"]
  /\ orec' = [p \in Owners |-> NoRecord]
  /\ otarget' = [p \in Owners |-> NoTarget]
  /\ otodo' = [p \in Owners |-> {}]
  /\ UNCHANGED <<durable, accepted, dispatchSends, settled>>

\* The entry of the replay guard outlives its TTL and is purged.
Forget(key) ==
  /\ Expiry
  /\ key \in seen
  /\ seen' = seen \ {key}
  /\ UNCHANGED <<durable, callVars, ownVars, history>>

Next ==
  \/ \E c \in Calls : DispatchStep(c)
  \/ \E p \in Owners : ApprovalStep(p) \/ AdminStep(p)
  \/ Crash
  \/ \E key \in Agents \X RequestIds : Forget(key)

Spec == Init /\ [][Next]_vars

(***************************************************************************)
(* The event loop runs every handler it has started to its end: the ports  *)
(* answer, the executor too (fetch is given no limit by this code, but the *)
(* transport has its own).  Whether a delivery arrives, an owner calls or  *)
(* the process dies is up to the environment.                              *)
(***************************************************************************)
Fairness ==
  /\ \A c \in Calls : WF_vars(pc[c] # "new" /\ DispatchStep(c))
  /\ \A p \in Owners : WF_vars(ContinueApproval(p) \/ ContinueAdmin(p))

FairSpec == Spec /\ Fairness
-----------------------------------------------------------------------------
(* The type invariant, store by store.                                     *)
Facts ==
  [fn: {"dispatch", "agentDispatchSecret", "ownerApproveDispatch",
        "ownerApproveDispatch_grant"},
   id: RequestIds,
   status: Statuses \cup {"ERROR", "GRANTED"}]

StoresOK ==
  /\ active \subseteq Secrets /\ material \subseteq Secrets
  /\ agentGrants \subseteq Agents \X Secrets
  /\ destGrants \subseteq Secrets \X (SiteIds \cup Domains)
  /\ siteDomain \in [SiteIds -> Domains \cup {Nil}]
  /\ liveSites \subseteq SiteIds
  /\ requests \in [RequestIds -> Records \cup {NoRecord}]
  /\ audit \subseteq Facts

CallsOK ==
  /\ seen \subseteq Agents \X RequestIds
  /\ pc \in [Calls -> CallPCs]
  /\ agentOk \in [Calls -> BOOLEAN]
  /\ site \in [Calls -> SiteIds \cup {Nil}]
  /\ decision \in [Calls -> {"none", "deny", "pending", "allow"}]
  /\ base \in [Calls -> Records \cup {NoRecord}]
  /\ outcome \in [Calls -> Terminal \cup {"none"}]

Targets == [agent: Agents \cup {Nil}, secret: Secrets \cup {Nil},
            site: SiteIds \cup Domains \cup {Nil}]

OwnersOK ==
  /\ opc \in [Owners -> OwnerPCs]
  /\ oreq \in [Owners -> RequestIds \cup {Nil}]
  /\ odecision \in [Owners -> Decisions \cup {"none"}]
  /\ orec \in [Owners -> Records \cup {NoRecord}]
  /\ otarget \in [Owners -> Targets]
  /\ DOMAIN otodo = Owners

HistoryOK ==
  /\ accepted \in [RequestIds -> Nat]
  /\ dispatchSends \in [RequestIds -> Nat]
  /\ settled \in [Owners \X RequestIds -> Nat]
  /\ crashes \in Nat

\* Every variable has its type: the stores hold what their tables can hold,
\* each handler the local variables of its code.
TypeOK == StoresOK /\ CallsOK /\ OwnersOK /\ HistoryOK
-----------------------------------------------------------------------------
(* What the dispatch protocol guarantees.                                  *)

(***************************************************************************)
(* Executions are paid for.  For each owner call slot and request, the     *)
(* executions by dispatch handlers plus the executions and denials by that *)
(* owner never outnumber the deliveries the replay guard accepted plus the *)
(* crashes: the status check of ownerApproveDispatch and the branches of   *)
(* agentDispatchSecret let one acceptance lead to one outcome, whatever    *)
(* the other owners do, and only a death between execution and record      *)
(* allows one more.                                                        *)
(***************************************************************************)
SettledWithinAccepted ==
  \A p \in Owners, r \in RequestIds :
    dispatchSends[r] + settled[<<p, r>>] <= accepted[r] + crashes

\* No handler works on the request.
Quiet(r) ==
  /\ \A c \in Calls : Id(c) = r => pc[c] \in {"new", "done", "cut"}
  /\ \A p \in Owners : oreq[p] # r

Logged(fn, r, statuses) ==
  \E s \in statuses : [fn |-> fn, id |-> r, status |-> s] \in audit

(***************************************************************************)
(* The log tells what happened.  When the process has not died and nobody  *)
(* works on a request, its final status is in the log, and so are an       *)
(* execution and an owner's decision if there was one -- although          *)
(* dispatches log before they save, approvals after, and handlers of the   *)
(* same request overtake each other, and though a subscriber of the log    *)
(* may cut them short.                                                     *)
(***************************************************************************)
OutcomeIsLogged ==
  \A r \in RequestIds : crashes = 0 /\ Quiet(r) =>
    /\ requests[r].status \in Terminal =>
         \/ Logged("agentDispatchSecret", r, {requests[r].status})
         \/ Logged("ownerApproveDispatch", r, {requests[r].status})
    /\ dispatchSends[r] > 0 => Logged("agentDispatchSecret", r, Executed)
    /\ (\E p \in Owners : settled[<<p, r>>] > 0)
         => Logged("ownerApproveDispatch", r, Terminal)

(***************************************************************************)
(* A record is left IN_PROGRESS with no handler behind it only if the      *)
(* process died, a subscriber cut a handler short, or the secret was       *)
(* removed after it was authorized (the two throws of the allow branch).   *)
(***************************************************************************)
WasCut(r) == \E c \in Calls : Id(c) = r /\ pc[c] = "cut"

InProgressIsWorkedOn ==
  \A r \in RequestIds :
    requests[r].status = "IN_PROGRESS" /\ Quiet(r) /\ crashes = 0
      => WasCut(r) \/ requests[r].secret \in Secrets \ active

(***************************************************************************)
(* Unless somebody grants a secret while it is being removed, nothing is   *)
(* granted for a secret whose material is destroyed: the removal deletes   *)
(* the grants it listed, and nobody adds one between its list and its end. *)
(***************************************************************************)
NoGrantOutlivesSecret ==
  /\ \A g \in agentGrants : g[2] \in material
  /\ \A g \in destGrants : g[1] \in material

(***************************************************************************)
(* Unless somebody grants a destination under a site while it is being     *)
(* deleted, a destination grant under a site id belongs to a site that     *)
(* exists: ownerDeleteSite leaves none behind.                             *)
(***************************************************************************)
GrantedSitesExist ==
  \A g \in destGrants : g[2] \in liveSites \cup Domains

(***************************************************************************)
(* An accepted delivery whose agent and destination are granted is         *)
(* executed without an owner being asked, unless its secret is removed or  *)
(* a subscriber cuts it short -- provided that nobody revokes a grant or   *)
(* changes the site.                                                       *)
(***************************************************************************)
BothGranted(c) ==
  /\ <<CallOf[c].agent, CallOf[c].secret>> \in agentGrants
  /\ \E s \in SitesOf(Domain(c)) : <<CallOf[c].secret, s>> \in destGrants

GrantedDispatchIsExecuted ==
  \A c \in Calls :
    pc[c] = "secret" /\ BothGranted(c)
      ~> \/ outcome[c] \in Executed
         \/ CallOf[c].secret \notin active \/ pc[c] = "cut"

(***************************************************************************)
(* A request that entered the vault leaves IN_PROGRESS, unless its secret  *)
(* was removed or a subscriber cut it short: it is executed, denied or put *)
(* to the owner.                                                           *)
(***************************************************************************)
DispatchIsAnswered ==
  \A r \in RequestIds :
    requests[r].status = "IN_PROGRESS"
      ~> \/ requests[r].status # "IN_PROGRESS"
         \/ requests[r].secret \in Secrets \ active \/ WasCut(r)
-----------------------------------------------------------------------------
(***************************************************************************)
(* How the vault is seen as a ledger: deliveries and crashes issue         *)
(* credits, executions and denials spend them.                             *)
(***************************************************************************)
Accounts == Owners \X RequestIds

Ledger ==
  INSTANCE ExecutionLedger
    WITH issued <- [k \in Accounts |-> accepted[k[2]] + crashes],
         spent <- [k \in Accounts |-> dispatchSends[k[2]] + settled[k]]

\* Every behaviour of the vault is one of the ledger: no execution or denial
\* without an acceptance or a death of the process to pay for it.
ImplementsLedger == Ledger!Spec

(***************************************************************************)
(* How an agent sees its requests: by the status of their records, unless  *)
(* the replay guard has let one through twice.                             *)
(***************************************************************************)
Life ==
  INSTANCE RequestLife
    WITH Requests <- RequestIds,
         status <- [r \in RequestIds |->
                      IF accepted[r] <= 1 THEN requests[r].status
                                          ELSE "WITHDRAWN"]

(***************************************************************************)
(* As long as no two owner calls decide it at once, the record of a        *)
(* request accepted once goes through the life of RequestLife: no handler  *)
(* that saves what it read two awaits before, no approval and no death     *)
(* takes it back, and a terminal status is final.                          *)
(***************************************************************************)
FollowsRequestLife == Life!Spec
-----------------------------------------------------------------------------
(* What the documentation says and the code does not do.                   *)

\* "Execute once": two owner calls do not both execute a request that was
\* accepted once.
ExecutedOnce ==
  \A p, q \in Owners :
    /\ p # q /\ oreq[p] = oreq[q]
    /\ opc[p] = "okSave" /\ opc[q] = "okSave"
    => accepted[oreq[p]] > 1

\* "Add to the permanent whitelist": a dispatch is not put to the owner when
\* its agent is granted and an approval has granted its destination.
WhitelistedIsNotAsked ==
  [][\A c \in Calls :
       agentOk[c] /\ <<CallOf[c].secret, Domain(c)>> \in destGrants
         => decision'[c] # "pending"]_decision
=============================================================================
