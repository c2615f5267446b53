# A verification project for the cbio vault runtime

TLA+ models of the vault of this repository (`src/`, the package
`@the-ai-company/cbio-node-runtime`), model-checked with TLC on small instances,
with theorems proved by TLAPS for every value of the constants.

The vault keeps an owner's secrets and uses them on behalf of agents: an agent
asks it to *dispatch* an HTTP request with a secret, and the vault executes the
request, denies it, or puts it to the owner, depending on two grants (agent to
secret, secret to destination). One `VaultCore` serves agents and owners at the
same time over asynchronous stores, so its handlers interleave at every `await`,
its process may die between two of them, and a delivery may arrive twice. That is
what the project is about.

Paths below are relative to the repository; line numbers are those of this commit.

## 1. Inventory

| component | state | operations | how it interacts |
|---|---|---|---|
| **Agent dispatch handler** `src/vault-core/core.ts:292-448` | the request record; local variables across awaits | `agentDispatchSecret`, `agentAuthorizeDispatch` | reads grants, sites, secrets and custody; writes requests and audit; calls the executor |
| **Owner approval** `core.ts:450-574` | as above | `ownerApproveDispatch` (`allow_once`, `allow_and_grant`, `deny`) | reads a record, writes grants, record and audit, calls the executor |
| **Grants, sites and removal** `core.ts:97-288, 815-849`, `src/clients/owner/client.ts:397-516, 643-700` | grants, sites, secrets | grant and revoke (agent, destination), create/update/delete site, `ownerRemoveSecret` | the owner client resolves aliases and domains with list calls before it calls the core |
| **Vault service** `src/vault-core/index.ts`, `core.ts:55-98` | the composition of the handlers | - | all handlers share the stores of `createPersistentVaultCoreDependencies` |
| **Replay guard and proof window** `src/vault-core/defaults.ts:487-573` | `_seen`, in memory | `verify`, `assertNotReplayed` | first two awaits of every agent call |
| **Secret lifecycle** `core.ts:744-898`, `client.ts:114-224` | the secrets table and the custody table | create, update, remove, export, each also in batches | phase 1 of the client reads a list, phase 2 starts a handler per item |
| **Agent identities and session tokens** `core.ts:677-742, 941-968`, `client.ts:276-352`, `persistence.ts:203-260, 416-440` | agent rows, private keys, tokens | register, update, remove, issue, revoke, issue all | tokens authenticate a dispatch without a signature; a removal takes tokens and grants along |
| **Audit log and subscriptions** `core.ts:969-989`, `persistence.ts:129-202`, `src/vault-ingress/server-utils.ts:98-242` | the log, subscribers | append, query, subscribe, unsubscribe | every handler appends; a pending-dispatch subscriber reads the record at each entry of a dispatch |
| **Owner session** `src/runtime/owner-session.ts:37-114` | promises of a recovered vault and of its owner client | get, reload, invalidate, `withOwnerClient` | recovers the vault, which reads the profile and opens a core over the tables |
| **Vault profile and bootstrap** `src/runtime/bootstrap.ts:120-342`, `src/runtime/vault-metadata.ts`, `src/sealed/json-repo.ts`, `src/storage/fs.ts:37-57` | the sealed and the public profile, two files | create, recover, update metadata, list | read, merge and write back, in place and without a lock |
| **Persistence adapters** `src/vault-core/persistence.ts` | SQLite tables | one statement per port call | UNIQUE constraints refuse second aliases and domains |
| **Agent client** `src/clients/agent/client.ts:57-207` | the token it was made with | `agentDispatch`, `agentListRequests`, `agentGetRequest` | a dispatch lists the secrets, resolves its alias and posts a second request |
| **HTTP ingress and transports** `src/vault-ingress` | none of their own | one post per call, one handler per delivery | ask for a token, route to the core, wrap its answer or its error |
| **Owner client** `src/clients/owner/client.ts` | none of its own | list calls and commands | resolves aliases and domains, splits batches |
| **Executor** `defaults.ts:613-659` | none | `dispatch` | `fetch`; answers SUCCEEDED or FAILED, does not throw |
| **Cryptography, sealing, types, policies, tool metadata** | none | pure functions | - |

What is hard, and what must be right, component by component:

* *Dispatch and approval*: status check, execution and save are several awaits
  apart, an HTTP call among them; each handler saves a copy of the record it read
  earlier; a death loses the result of an execution. An acceptance must not pay
  for more than one outcome, a decision must stay, the log must tell what
  happened, and every accepted request must be answered.
* *Subscribers of the audit log* run inside `append`: one that throws cuts the
  handler off between two of its steps, after an execution too.
* *Grants, sites, removal*: removals list first and delete later, in several
  steps, while a grant may be on its way. No grant may outlive its secret or site.
* *Replay guard*: a memory that forgets, and two clock readings at different
  awaits. A signed request must not be accepted again once its entry is purged.
* *Secret lifecycle*: a row and a plaintext written at different awaits, batches
  whose items run in parallel and which return at the first failure. A secret at
  rest must have both or none.
* *Agents and tokens*: four stores written at separate awaits, nothing checks that
  an agent exists before it is given something. A removal must leave no token alive
  that was issued before it.
* *Subscriptions*: the record, its entries and the subscription are three things
  with no common step. An owner must hear of every request that waits for it.
* *Agent client and network*: a dispatch is two requests, with a name resolved
  between them and a token that may be replaced between them; posts are repeated,
  late or lost, and so are answers. The secret used must be one the caller named, and
  what the caller was told must be true and stay so.
* *Profile*: two files, each truncated at one await and filled at a later one, and
  updates that read before they write. It must stay readable, and an update must
  not be lost, wherever the code can keep them so.
* *Session*: promises that are cached before they settle, while callers wait at two
  awaits and a reload or an invalidation comes between. One vault must be opened at
  a time, and the session must tell the nickname the vault has.

`PROJECT.json` lists the hazards with their lines and the properties that would
catch each of them.

## 2. Modules

| module | models |
|---|---|
| `VaultState` | the stores behind one core, the positions and local variables of the calls in it, the helpers all handlers use |
| `AgentDispatch` | `agentDispatchSecret`, one action per await segment |
| `OwnerApproval` | `ownerApproveDispatch` and its three decisions |
| `OwnerAdmin` | grants, revocations, sites, removal, with the client's resolution steps |
| `VaultDispatch` | the composition with process deaths and a replay guard that may forget; all properties of the dispatch protocol, the fairness |
| `ExecutionLedger` | abstract specification: acceptances issue credits, outcomes spend them |
| `RequestLife` | abstract specification: the statuses of a request as an agent that polls it may see them |
| `SecretLifecycle` | create, update, remove, export over rows and plaintexts; client batches; process deaths |
| `ReplayGuard` | the skew check and the guard over one clock |
| `SeenGuard` | abstract specification: a guard without a clock, a set of keys that may be forgotten |
| `AgentAccess` | agents with their rows, keys, tokens and grants: registration, update, removal with its orphan cleanup, issue and revocation; process deaths |
| `PendingEvents` | the audit log as subscribers of pending dispatches see it: saves and entries of a dispatch, replay, callbacks, delivery, cursor; process deaths |
| `AgentChannel` | calls of the agent client, their posts, deliveries and answers, down to the record; tokens, renames, decisions and deaths beside them |
| `VaultProfile` | the files of a vault's profile: creation, updates, what a recovery and the list of vaults find in them |
| `OwnerSession` | one session over `VaultProfile`: cached promises, reload, invalidation, calls of `withOwnerClient`; process deaths |
| `MCVaultDispatch`, `MCSecretLifecycle`, `MCReplayGuard`, `MCAgentAccess`, `MCPendingEvents`, `MCAgentChannel`, `MCOwnerSession` | small instances for TLC |
| `VaultDispatchTypes`, `VaultDispatchProofs`, `SecretLifecycleProofs`, `ReplayGuardProofs`, `AgentAccessProofs`, `PendingEventsProofs`, `AgentChannelProofs`, `OwnerSessionProofs` | theorems and proofs |

`AgentDispatch` and `OwnerApproval` extend `VaultState`, `OwnerAdmin` extends
`OwnerApproval`, `VaultDispatch` composes them and instantiates `ExecutionLedger` and
`RequestLife`; `ReplayGuard` instantiates `SeenGuard`.
`OwnerSession` extends `VaultProfile` and composes the two.
`SecretLifecycle`, `ReplayGuard`, `AgentAccess`, `PendingEvents` and `AgentChannel`
stand alone: each looks closer at something `VaultDispatch` abstracts (a secret is two
bits there that only a removal clears, the guard is a set that may forget, agents are
always registered, the log has neither order nor readers, a delivery comes from
nowhere). `AgentChannel` composes client, network, ingress and core and pays for it
with coarser handlers: one step for each state another party can tell apart, and both
grants of a secret as one.

### How state and actions correspond to the code

*An action is the code from one await to the next port call, the body of that
call included.* The SQLite and in-memory ports do all their work before they first
yield, so a port call takes effect at the moment it is made. The position of a
handler (`pc`, `opc`, `wpc`) names the segment it will run next and the other
per-call variables are the local variables that live across an await; a handler
that returns or throws resets them. The stores are sets and functions: a grant is
a member of a set (only "approved" grants are ever stored), a request record keeps
its status, the payload it was created from and the secret it resolved, the audit
log is the set of facts (function, request, status) it contains.

*How free the interleaving is.* The ports are interfaces with asynchronous
methods, and the models let every handler be overtaken at each await. With the
shipped ports, whose bodies run synchronously, handlers of one process that are
started together advance in step, one microtask each, and fewer orders occur: what
remains are calls started at different moments, the real waits (the executor's
`fetch`, the HTTP round trips of a client between its list call and its command)
and the parallel items of a batch. The models are exact for ports that wait, and
otherwise allow more orders than the shipped ones produce. All passing properties
hold for both. None of the findings needs an order the shipped ports cannot
produce: one arises while an approval waits for the executor's `fetch`, the batch
finding because all items start at once, and the other two need no overlap.

*What is abstracted.* Of a request, everything but its id, agent, secret and host
(grants look at nothing else). Of a secret, the plaintext's value and version. The
verdict of the proof check is free in `AgentDispatch`; `ReplayGuard` models its
timing. Results of the executor are SUCCEEDED or FAILED, freely. Owner-password
checks, validation of arguments and audit entries that name no request change
no modelled store and are left out.

*Subscribers that throw.* `append` calls the subscribers of the audit log before it
returns (`persistence.ts:146-149`), so one that throws makes the handler reject there,
its entry written. `CutShort` and `CutApproval` are those exits; the constant `Throwing`
says whether an instance has such subscribers.

*Calls and deliveries.* In `AgentChannel` a call (`cpc`) waits for the answer to one
post at a time; a post of a leg has up to `MaxCopies` deliveries (`hpc`), of which the
client makes the first and the network, by `Duplicate`, the others. An answer that
comes when its call waits for something else is dropped. The vault is described by what
another party can find in it: the record, the grant, the token, the row of the secret.

*History variables* are read by no handler: `accepted`, `dispatchSends`,
`settled`, `crashes` in `VaultDispatch`, `clean`, `tainted` and `crashes` in
`SecretLifecycle`, `accepted` and `crashes` in `ReplayGuard`, `issued`, `earlier`,
`dead`, `given`, `tainted` and `crashes` in `AgentAccess`, `from`, `heard`, `got` and
`crashes` in `PendingEvents` (`last` is kept by the consumer, who resumes with it),
`issued`, `carried`, `used`, `accepted`, `sentDead`, `ownerCalls` and `crashes` in
`AgentChannel`, `fresh`, `alone`, `kept`, `cut`, `collided`, `crashes` and `reloads` in `VaultProfile` and
`OwnerSession`.

## 3. Runs

Every run is a module and a `.cfg` of the same directory; `CHECK_DEADLOCK FALSE`
because every instance legitimately comes to rest when its deliveries are served,
its ids are used up or its clock is at its bound.

| run | cfg | checks | shows |
|---|---|---|---|
| redelivery | `dispatch_redelivery` | `TypeOK`, `OutcomeIsLogged`, `ImplementsLedger` | one request delivered twice, two owner calls that decide it, a guard that may forget, subscribers that throw and a death: the vault implements the ledger, so an acceptance pays for at most one outcome per owner call slot, and the log tells each |
| admin | `dispatch_admin` | `NoGrantOutlivesSecret`, `GrantedSitesExist`, `FollowsRequestLife` | all owner operations, one at a time, with a dispatch in between and a death: removals leave no dangling grants, and the record of a request implements `RequestLife`: no step back, and an end is final |
| answers | `dispatch_answers` | `InProgressIsWorkedOn`, `GrantedDispatchIsExecuted`, `DispatchIsAnswered` | two requests while an owner grants, decides and removes and subscribers may throw: a record stays IN_PROGRESS with nobody working on it only if its secret was removed or a subscriber threw; liveness under the fairness of section 5 |
| channel | `agent_channel` | `TypeOK`, `NoRedirect`, `AnswersAgree`, `RefusedIsNotExecuted`, `DeadTokenDoesNothing`, `CallsReturn` | a dispatch from the client to the record over a network that repeats, delays and loses, beside a read, secrets that are renamed, removed and created, tokens that are replaced, decisions and a death |
| lifecycle | `lifecycle` | `TypeOK`, `SettledSecretIsWhole`, `PlaintextHasRow`, `CheckedBatchIsWritten`, `ExportIsComplete`, `RemovalIsFinal` | two clients with batches that overlap and a death: row and plaintext agree wherever the handlers of a secret ran one at a time and to their end; a call that has the vault to itself does what phase 1 promised, and its export misses nothing |
| replay_guard | `replay_guard` | `AcceptancesFarApart`, `SignedOnce`, `ImplementsSeenGuard` | two deliveries at a time, signatures and tokens: how often a key and a signed request are accepted, and that the timed guard implements the untimed one |
| agents | `agent_access` | `TypeOK`, `TokensDieWithAgent`, `SettledAgentIsWhole`, `DoomedSitesAreUnused` | two owner calls that register, update or remove two agents, or warm up a session, while tokens are issued and revoked and grants come and go, and a death: a removal kills every earlier token, and an agent written by one call at a time has its row and key or nothing |
| events | `pending_events` | `TypeOK`, `PendingIsHeard`, `RepeatsOnlyByReplay`, `PendingReachesOwner` | two dispatches and an owner who decides one of them, a consumer that subscribes at any moment, leaves and resumes after the last event it got, and a death: it hears of every pending request it should, and is given it |
| session | `owner_session` | `TypeOK`, `ProfileIsReadable`, `FieldsAreKept`, `ListTellsNickname`, `OneVaultPerReload`, `ClientNotOlder`, `ReloadTellsNickname`, `CallsReturn` | a vault is created, a session recovers it at any moment, two updates overlap or not, and a death or a reload: when the profile is readable, what it keeps and when the list tells its nickname, what a session hands out and which nickname it tells |

Three runs check statements of the documentation that the code does not meet; TLC
finds a counterexample in each (section 7): `once`, `whitelist`, `lifecycle_batch`.

Each property is also tested against a mutation of the code it is about, such as a
dropped check, a swapped order or a lookup under another key, which TLC must refute
under the same configuration. The mutated definitions stand beside the originals
and say "Mutant of" in their comment.

### Bounds, and why they are enough

* *Dispatch*: one agent, one secret, one or two hosts and sites. Grants, sites and
  secrets are looked up by key and never compared with each other but for equality
  of keys, so a second agent or secret runs beside the first and does not meet it;
  two sites are needed for a site that moves to another's host and one that is
  deleted while the other's grants stay (`admin`). Two deliveries are the least
  for a redelivery and for a second request that finds the first one's grants; two
  owner calls at a time are the least for any overlap of owners. One death, which
  may cut an execution off and leave the record to be approved again.
* *Lifecycle*: two handlers at a time are what two conflicting writes need, and a
  batch of two fills them; two ids and two names let a secret be renamed, a batch
  repeat a name and a removed secret hold one that is wanted.
* *Guard*: windows of two ticks, a clock of eight and a delay of one between the
  two checks let a key be accepted up to three times and a request be verified
  before its neighbour's entry is purged and be judged after it.
* *Agents*: two agents and two calls, so that a removal meets the removal, update or
  registration of its own agent and of another; two tokens let a token replace
  another, which is what a removal that has listed the first must not miss.
* *Events*: two requests are needed for an order of event ids that is not the order
  of their entries; one consumer, as subscribers do not meet; a replay of three
  entries in a log of up to seven has subscriptions on both sides of the limit
  (the code's limit is 1000).
* *Channel*: requests have records and keys of their own and do not meet, so one
  dispatch; it is posted up to twice, its list and a read once. Two secrets and two
  names let a name move to another secret between the list and an approval; two
  tokens let one replace the other. `Scenes` keeps the instance small by using up
  bounds beforehand: the dispatch alone with two calls of the owner and a death, with
  and without a grant, or beside a read that polls it with one call of the owner.
* *Session*: a creation and two updates are what a collision and a lost update need. The
  creator names the vault; one update gives another name and, in its metadata, a
  `nickname` that is no string, so that the two files part; the other names nothing, so
  that it has to carry on what it read. A session with two recoveries has one
  reload that may overtake the first; one call that waits, beside callers that do not.
  The run has the death or the reload, not both (`CrashOrReload`): a death ends the
  session.

Cfg bounds: `MaxCrashes`, `MaxBatch`, `MaxDelay`, `MaxClock`, `MaxTime`, `MaxLog`,
`Decidable`, `ReplayLimit`, `MaxReloads`, `MaxCopies`, `MaxOwnerCalls`, `Given`,
`Starts`, `Scenes`; ids and tokens are handed out from finite sets. The theorems of section 6 need none of them.

Symmetry (`RedeliverySymmetry`, `LifecycleSymmetry`, `GuardSymmetry`,
`AccessSymmetry`) permutes sets of
interchangeable model values and is used in runs of safety properties only.

## 4. The properties

*Executions are paid for* (`SettledWithinAccepted`). For each owner call slot and
request, what dispatch handlers executed plus what that slot executed or denied
never exceeds the accepted deliveries plus the deaths. This is the strongest bound
the code gives: each owner call checks the status when it begins, so one slot can
settle an acceptance once, but two slots that begin together can each do it
(`once`). A death after the execution and before the save costs one more. It is
proved (section 6), and TLC checks the refinement of `ExecutionLedger`, whose accounts
say the same.

*The log tells what happened* (`OutcomeIsLogged`). A dispatch logs its outcome
before it saves the record, an approval after; still, when nobody works on a
request, its final status, every execution and every decision is in the log. The run
has no sites, so nothing is executed in it without an approval; that what a granted
dispatch executes is in the log rests on the theorem `OutcomesAreLogged`.

*Nobody is forgotten* (`InProgressIsWorkedOn`, `DispatchIsAnswered`,
`GrantedDispatchIsExecuted`). The allow branch can throw after the record was
announced; it strands the record only when the secret was removed or a subscriber of
the audit log threw.

*Requests live forward* (`FollowsRequestLife`), as long as no two owner calls decide
the same request at once, and for one acceptance: an agent that polls sees IN_PROGRESS, perhaps AWAITING_APPROVAL, then one
end that stays, whatever the handlers save over each other's copies of the record and
wherever a death cuts them off. The premises are needed: a second acceptance of the
same id saves a new IN_PROGRESS record over a decided one (`RequestLife` withdraws its
promise then), and two owner calls may each decide (`once`).

*No dangling grants* (`NoGrantOutlivesSecret`, `GrantedSitesExist`), unless a secret is
granted while it is being removed, or a destination under a site that is being deleted.
The run has one owner slot, so that no two calls overlap; the theorems have any number
of owners and exclude those two overlaps only.

*A secret is whole* (`SettledSecretIsWhole`, `PlaintextHasRow`, `RemovalIsFinal`).
A secret whose handlers never overlapped and were never cut short by a death
(`tainted` records the others) is ACTIVE if and only if its plaintext is stored,
also after an update that threw on a taken alias or a batch that returned early;
and a plaintext without a row never occurs, whatever happens.

*Batches and exports* (`CheckedBatchIsWritten`, `ExportIsComplete`): what phase 1
is good for in a call that has the vault to itself from beginning to end, and that
a full export by such a call finds a plaintext for everything it listed.

*Replay* (`AcceptancesFarApart`, `SignedOnce`, `ImplementsSeenGuard`): acceptances of
one key are more
than the TTL apart; a signed request accepted no earlier than its own timestamp
(plus the delay between the two checks, with equal windows) is not accepted again.
A request dated ahead of the vault's clock can be: its key is purged while its
timestamp is still in range. `SignedOnce` states exactly from when on it cannot.
The model's clock does not go back; the code uses `Date`, which may. Seen from the
dispatch, the guard is the set of the keys it would refuse now: `ImplementsSeenGuard`
says that a key is let through only while it is out, is in with that very call, and
that the call, which purges first, drops no other key. `AgentDispatch!AssertNotReplayed`,
`VaultDispatch!Forget` and the guard's part of `VaultDispatch!Crash` are the actions
of `SeenGuard`; so what `VaultDispatch` promises over an untimed guard is not lost to
the windows the code has.

*Access* (`TokensDieWithAgent`, `SettledAgentIsWhole`). A token is replaced by the
next one and revoked by a removal that listed it; if another is issued between the
list and the revocation, the first is gone anyway and the second is younger than the
removal. So no token from before the removal is good afterwards, whatever overlaps
it. A token issued *while* a removal runs does outlive it, as does a grant: nothing
checks that the agent is registered. `tainted` notes the agents to which such a
thing happened, or which two calls wrote at once, or whose writer died; all others
have row and key, or nothing.

*Orphan cleanup* (`DoomedSitesAreUnused`). A removal lists the agent grants, lists the
destination grants and deletes those of secrets no agent has; only a grant given
after the first list can lose its sites.

*Owners hear* (`PendingIsHeard`, `PendingReachesOwner`, `RepeatsOnlyByReplay`). The
record says AWAITING_APPROVAL before the second entry is appended, and a death may
keep that entry from ever being appended: then the first one, replayed, still finds
the record pending. Whoever is subscribed, however late, has heard of each pending
request whose handler is not between save and entry; a live subscription hears it
once. Events whose id is not after the subscription's cursor, and entries past the
replay limit, are excepted; ids begin with the clock, events arrive in the order of
their entries, so a consumer that resumes after the last event it got may have an
undelivered one with a smaller id withheld for good (`core.ts:978`).

*Profile* (`ProfileIsReadable`, `FieldsAreKept`, `ListTellsNickname`). The write is in
place, so a death or a second write between truncating and filling a file loses it,
and every recovery and update then refuses it; `ProfileIsReadable` says that nothing
else does. Of overlapping updates one may be lost; what a call gave that ran alone is
never lost, not even to updates that overlap later, because each of them read it.
Three things leave the list with another nickname than the vault: a death between the
two files, overlapping updates, and metadata that names a `nickname`, which goes into
the sealed file only (`Sealed`; `bootstrap.ts:212`, `:337`). `ListTellsNickname` says
that after any other call that runs alone the two agree again, whatever was before, and
that after one with such metadata the sealed file has that name.

*Session* (`OneVaultPerReload`, `ClientNotOlder`, `ReloadTellsNickname`,
`CallsReturn`). The promises are cached before anything is awaited, so callers share
one recovery; a reload drops both, so a caller that got its vault before the reload
may get a younger client with it, never an older one. The nickname is set by whichever
recovery answers last, so a recovery that a reload has overtaken can set it back
(`owner-session.ts:77`); after one that overlapped with no other, and with no write
since it began, it is the one of the sealed profile.

*The secret a dispatch is executed with* (`NoRedirect`). The client resolves a name to
an id, the vault keeps the id in the record and an approval uses the record. So a
dispatch is executed with the secret given by id, or with one that carried the name at
some moment between the call and the answer to its list, however the names move while
it is posted, awaits approval and is approved. That need not be the secret that carries
the name when the owner approves: the alias in the record may be stale.

*What the agent was told* (`AnswersAgree`, `RefusedIsNotExecuted`). A final status
told for a dispatch that was accepted once is the record's from then on, and
AWAITING_APPROVAL stays or is decided, in whatever order answers and polls arrive. The
premise is needed: a second acceptance saves a new record over the first. A refusal
means nothing was executed and nothing will be, so that a new dispatch is safe, but
only if no subscriber of the audit log throws and the post was delivered once: of two
deliveries one may be executed while the other is refused as a replay, and the refusal
may come first. A *lost* answer says nothing, and agents have only a read to find out. A subscriber that throws breaks both
(its handler refuses what it has executed, and what it answered is not the record);
`AgentChannel` has none, `VaultDispatch` says what is left then.

*A dead token* (`DeadTokenDoesNothing`). The token is verified for each delivery and not
for each call: a dispatch whose token was revoked or replaced before its own post, the
list answered or not, leaves no record, however often the post is repeated later.

## 5. Fairness

Four runs assume any. `answers` (`VaultDispatch!FairSpec`): a dispatch handler that
has begun and an owner call that has begun take their next step eventually (weak
fairness per call). `events` (`PendingEvents!FairSpec`): a dispatch that has begun
goes on, unless the process dies, and a read of a record that was made resolves.
`session` (`OwnerSession!FairSpec`): a read of the profile is answered, and the
client and the calls that wait for it go on. `channel` (`AgentChannel!FairSpec`): some
delivery that a handler has goes on while one can, and for some call that waits the
network brings its post or its answer, or `fetch` rejects; a call whose delivery is at
work waits for its handler. Calls and deliveries are finite in number, so none of them
is starved by the others. The event loop of Node runs every continuation whose port has
answered, the ports are local, and the executor answers or fails when its transport
gives up. Elsewhere nothing obliges a delivery to arrive, and nowhere an owner to
call, the guard to forget, the process to die, an update to go on, a consumer to
subscribe or to leave, an agent to call or a post to be repeated, and none of these has
fairness.

## 6. Proofs

Checked by TLAPS from the named assumptions on the constants alone
(`CallsAssumption`, `DomainsAssumption`, `NilAssumption`, `BoundsAssumption`,
`LifecycleNil`, `LifecycleBounds`, `GuardRequests`, `GuardTimes`, `GuardNil`,
`AccessNil`, `AccessBounds`, `RequestsAssumption`, `EventBounds`, `EventNil`,
`ProfileNil`, `ProfileCalls`, `ProfileArgs`, `SessionBounds`, `SessionScenes`,
`ChannelCalls`, `ChannelNames`, `ChannelNil`, `ChannelBounds`, `ChannelStarts`), for any
number of agents, tokens, secrets, sites, requests, calls, owners, clients, handlers,
deliveries, subscribers, updates and recoveries.

| theorem | module | statement |
|---|---|---|
| `TypeCorrect`, `TypesHold` | `VaultDispatchTypes` | `Spec => []TypeInv`, `Spec => []TypeOK` |
| `CreditsCover`, `ExecutionsArePaid` | `VaultDispatchProofs` | `Spec => []CreditsCoverClaims`, `Spec => []SettledWithinAccepted` |
| `LedgerImplemented` | `VaultDispatchProofs` | `Spec => ImplementsLedger` |
| `OutcomesAreLogged`, `InProgressIsExplained` | `VaultDispatchProofs` | `Spec => []OutcomeIsLogged`, `Spec => []InProgressIsWorkedOn` |
| `RequestLifeFollowed` | `VaultDispatchProofs` | `Spec /\ []DecisionsApart => FollowsRequestLife` |
| `GrantsEndWithSecret` | `VaultDispatchProofs` | `Spec /\ []GrantsAvoidRemovals => []NoGrantOutlivesSecret` |
| `GrantsNameSites` | `VaultDispatchProofs` | `Spec /\ []GrantsAvoidDeletions => []GrantedSitesExist` |
| `LifecycleTypes` | `SecretLifecycleProofs` | `Spec => []TypeOK` |
| `PlaintextOwned`, `SettledIsWhole`, `RemovedIsFinal` | `SecretLifecycleProofs` | `Spec => []PlaintextHasRow`, `Spec => []SettledSecretIsWhole`, `Spec => RemovalIsFinal` |
| `CheckedBatchSucceeds`, `ExportFindsAll` | `SecretLifecycleProofs` | `Spec => []CheckedBatchIsWritten`, `Spec => []ExportIsComplete` |
| `GuardTypes`, `FarApart`, `SignedRequestOnce` | `ReplayGuardProofs` | `Spec => []TypeOK`, `Spec => []AcceptancesFarApart`, `Spec => []SignedOnce` |
| `GuardIsSeenGuard` | `ReplayGuardProofs` | `Spec => ImplementsSeenGuard` |
| `AccessTypes`, `RemovalKillsTokens`, `SettledAgentsAreWhole`, `CleanupSparesUsedSites` | `AgentAccessProofs` | `Spec => []TypeOK`, `Spec => []TokensDieWithAgent`, `Spec => []SettledAgentIsWhole`, `Spec => []DoomedSitesAreUnused` |
| `EventTypes`, `PendingHeard`, `HeardOnce` | `PendingEventsProofs` | `Spec => []TypeOK`, `Spec => []PendingIsHeard`, `Spec => []RepeatsOnlyByReplay` |
| `SessionTypes` | `OwnerSessionProofs` | `Spec => []TypeOK` |
| `ReadableProfile`, `LoneUpdatesKept`, `NicknameListed` | `OwnerSessionProofs` | `Spec => []ProfileIsReadable`, `Spec => []FieldsAreKept`, `Spec => []ListTellsNickname` |
| `OneVault`, `ClientsNotOlder`, `NicknameTold` | `OwnerSessionProofs` | `Spec => []OneVaultPerReload`, `Spec => []ClientNotOlder`, `Spec => []ReloadTellsNickname` |
| `ChannelTypes`, `ChannelHolds` | `AgentChannelProofs` | `Spec => []TypeOK`, `Spec => []ChannelInv` |
| `DispatchIsNotRedirected`, `DeadTokensStayOut` | `AgentChannelProofs` | `Spec => []NoRedirect`, `Spec => []DeadTokenDoesNothing` |
| `RefusalIsFinal`, `AnswersStayTrue` | `AgentChannelProofs` | `Spec => []RefusedIsNotExecuted`, `Spec => []AnswersAgree` |

*Types.* `TypeOK` is not inductive: a handler that saves needs the record it has
read. `TypeInv` adds what each handler knows where it stands (`CallLocalsOK`,
`OwnerLocalsOK`). The proof has one lemma per side (handlers, approvals, owner
operations) and frame lemmas for what the one leaves to the other.

*Credits.* `SettledWithinAccepted` is not inductive either: it does not say who
still may settle. `CreditsCoverClaims` counts, for one owner slot and request, the
settled outcomes, the *holders* (dispatch handlers between their acceptance and
their outcome or their AWAITING_APPROVAL record) and the *claim* of the slot: an
owner call holds a claim from the moment it reads AWAITING_APPROVAL until it
settles; outside a call the claim is the record itself, as the slot may begin one.
The sum is at most acceptances plus deaths. An acceptance adds a holder and a
credit; saving AWAITING_APPROVAL turns a holder into a claim; settling turns a
claim into an outcome; what an owner call finds in the record between its
execution and its save is void, because it overwrites it. A death removes all
holders and running claims, may leave a record that can be claimed again, and
issues one credit. Most steps are `Uneventful`: they issue and spend nothing and
create neither holder nor claim.

*Ledger.* An acceptance maps to `Issue` of the accounts of its request, a death to
`Issue` of all, an execution by a dispatch handler to `Spend` of the accounts of
its request, a decision to `Spend` of one; the guard of `Spend` is
`CreditsCoverClaims` with the holder or claim at hand.

*The log.* `LogOK` follows what happened to its entry, as long as the process lives: an
execution by a handler, and an execution or denial by an owner call, is in the log or its
call stands where the entry comes next; a final status in a record is logged, or an owner
call that has saved it is about to log it. A handler that is going to save its outcome
has logged that very outcome. A subscriber that throws does no harm, as it is called
after the entry; a death does, which is why the property ends with the first one.

*Nobody is forgotten.* `ProgressOK`: before the first death, a record IN_PROGRESS has a
handler that will save it, one that a subscriber cut off, or a secret that is no longer
active. A handler of the allow branch throws when it finds no material; `MaterialOK`
(what is active has material, and what is being destroyed is not active) makes that the
third case.

*Request life.* As long as no two owner calls decide the same request at once
(`DecisionsApart`, the overlap run `once` shows), `LifeOK` says, of a request accepted
once, which status its record can have while its handler, or the owner call that
decides it, stands where it stands. So every save is a turn `RequestLife` allows: the
handler that saves last finds its own IN_PROGRESS record, the owner call its
AWAITING_APPROVAL. A second acceptance ends the promise before it can save anything.

*Grants.* Both invariants say what each owner call at work has made sure of. `GrantsOK`:
from its lookup to its save, a grant names an active secret; while a removal deletes,
every grant of its secret is in its list, and none is left when it destroys the
material. `SitesOK` says the same of a grant's site and of the deletion of a site.
Another owner call undoes neither (`OthersGrants`, `OthersSites`), unless it adds a
grant of the secret between the list of a removal and its end, or removes the secret of a
grant on its way (`GrantsAvoidRemovals`), or does the same to a site
(`GrantsAvoidDeletions`). These premises exclude the overlap that breaks the property
(section 7) and no other: any number of owners, of approvals, grants, updates, removals
and deletions that are not of the same secret or site may overlap, and so may two
removals of one secret. Owner calls that follow each other meet all three premises
(`OneCallSuffices`). Agents are not restricted at all.

*Lifecycle.* `LifecycleInv` says where the only writer of an untainted secret
stands: the row exists without plaintext just before the first store, is REMOVED
with plaintext just before the destruction, and otherwise row and plaintext agree
(`InStep`). `StepSafe` reduces every action to the one secret it touches. A second
reader that intends to write taints the secret, as does a death under a writer.

*Batches and exports.* `CallInv` adds three parts. `NamesOK`: a row that was ever saved
keeps its name to itself, as `UNIQUE(alias)` has it, so a name that is taken and not
listed is a removed secret's. `AwaitedOK`: one call waits for a handler, and an export
or a removal is a call of its own. `CleanOK`: while a call has the vault to itself all
handlers at work are its own (`AloneOK`), a secret an export has listed is still active
(`ExportsOK`), and each item of a batch still finds the names as phase 1 found them
(`CreateOK`, `UpdateOK`), since the rows the other items save carry names of their own
commands only (`SavesOwn`). An item can then fail on a taken name only, and an export
has no writer beside it, so that `SettledSecretIsWhole` gives it every plaintext.

*Guard.* `Remembered`: an acceptance of a key that is no longer in `_seen` is more
than the TTL old, one of a key that is in it is not younger than the entry.
`InTime`: a signed request waits at the guard only with a timestamp it had in
range, hence is accepted no later than `at + Skew + MaxDelay`. For `SeenGuard` the
guard is the set `Refused` of the keys whose entry is not older than the TTL, purged or
not: a purge is then a stuttering step, time passing is `Forget`, an acceptance
`LetThrough`, a death `Restart`.

*Access.* Three inductive invariants over the types. `TokensInv`: agents hold tokens
of their own, and a removal that is past its list has the agent's token either
listed, if it is an earlier one, or not among the earlier ones. `WholeInv` says, for
an untainted agent, that it has one writer at most and what that writer has left of
it at each step (`Stands`); steps of other calls leave it alone (`KeepWhole`), and
what is given to an agent being removed taints it (`GiveWhole`). `DoomedInv`: from
the list of grants on, every grant is in the list or noted as given.

*Events.* `PendingIsHeard` needs `HeardInv`: a request that is pending, or will be by
the next save of its handler, has an entry in the log, so that a subscription that
comes later is replayed one or was withheld it by the limit or its cursor; and one
that was live at the entry heard it. `RepeatInv`: a record is pending only between
its save and its decision, and when a subscriber has heard of it live after the save,
its handler has no entry left to append.

*Profile.* `ProfileInv` follows a write: what a call is about to write is whole in both
files, which have one nickname unless its metadata names another, contains its own
fields and, until it has written, all that were ever kept (`DocsOK`); without a
collision the one call that fills the file finds it empty (`FillingOK`); a call alone
finds the files as it left them (`AloneOK`).

*Session.* `SessionInv`: the cache holds the last recovery and its client, or nothing
before the first one and after an invalidation (`CacheOK`); while the last recovery is
fresh, the profile it has read, or will, is the file's.

*Channel.* None of the four safety properties is inductive. `ChannelInv` adds what a
delivery's place says of its call (`WireOK`), that what was not posted has left no trace
(`PostedOK`), and one strengthening for each property. `CarriedOK`: every secret a
dispatch may still end with, in an answer under way, resolved, recorded or being decided,
has carried the name. `DeadOK`: a token that is not the agent's never is again, as tokens
are issued once, so no delivery of the dispatch is inside. `RefusedOK`: as long as the
only delivery has not settled anything, there is nothing an owner could approve.
`AgreeOK`: of a dispatch accepted once at most one delivery or one decision is at work
(`OneAtWork`), and every answer under way is true already. The proof looks at a step from
the side of one dispatch, one delivery and one call (`DispatchFrame`, `DeliveryFrame`,
`CallFrame`), so that each strengthening needs the few steps that touch it.

The strengthenings are defined in the proof modules, next to their proofs; each was
model-checked on the run of its property before it was proved.

Only model-checked: the liveness properties `DispatchIsAnswered`,
`GrantedDispatchIsExecuted`, `PendingReachesOwner` and the two `CallsReturn`, as
fairness and `ENABLED` are outside the prover. Every safety property a passing run
checks is proved, the three refinements included.

## 7. Where the code and its documents disagree

| run | document | code |
|---|---|---|
| `whitelist` | `README.md:138` "Execute and add to the permanent whitelist"; `tests/smoke/hitl-approval.js:86` expects the second request to be whitelisted | `core.ts:493` stores the destination grant under the host name, `core.ts:310-330` looks it up under a site id: it never allows anything |
| `once` | `README.md:137` "Execute once" | two approvals that both read AWAITING_APPROVAL both execute (`core.ts:461`) |
| `lifecycle_batch` | `docs/REFERENCE.md:28` "If any check fails, nothing is written" | phase 1 never compares the items of a batch with each other; a repeated alias writes one item and fails with the other (`client.ts:134`) |

Also noticed while modelling, and why some properties carry a premise; these need
two owner calls, or an owner call and a dispatch, that overtake each other at an
await. An approval saves its result over a denial that another owner call has saved
while it was waiting for the executor (`core.ts:550`). The two grants of a dispatch
are read at two awaits, and the first may be revoked by the time the second is read
(`core.ts:310`). A grant whose client call resolved the alias before the secret was
removed is saved after the removal has listed the grants (`core.ts:819`):
`NoGrantOutlivesSecret` needs `GrantsAvoidRemovals`. So with a grant whose client call
resolved the site before its deletion (`core.ts:261`). An update saves the
row it read earlier, ACTIVE status included, over a removal (`core.ts:805`):
`SettledSecretIsWhole` excepts secrets whose handlers overlapped.

And of profile and session. `src/storage/fs.ts:2` says "Uses node:fs with atomic
write", but the write truncates the file in place (`fs.ts:49`): a death in the middle
of an update makes the vault unrecoverable (`cut` in `ProfileIsReadable`).
`src/storage/provider.ts:13` offers `withLock` "to serialize read-modify-write
sequences across writers", and `updateVaultMetadata` does not take it
(`bootstrap.ts:332`): overlapping updates are lost or tear the file (`collided`).
A metadata key named `nickname` overrides the nickname of the sealed profile and not
the public one (`bootstrap.ts:212`, `:337`), so the list and the vault disagree after a
single call; `Args` has such calls and `ListTellsNickname` excepts them. A rejected recovery stays cached until a reload
(`owner-session.ts:76`), a recovery that a reload has overtaken still sets the
session's nickname (`:77`), and a callback may start after an invalidation that came
while its client was awaited (`:95`). A reload opens a second core on the same tables
with a replay guard of its own (`persistence.ts:545`); the subscribers are static and
shared by both (`:130`, `:350`).

And of subscriptions: `docs/REFERENCE.md:47` offers "persisted pending-dispatch events",
but a new subscription replays the *oldest* 1000 entries of all functions
(`persistence.ts:164`), so in a longer log later pending requests are not replayed.
`PendingIsHeard` excepts entries past the limit.

And of clients and transports. `README.md:93` waits for a status `PENDING`, which the
runtime does not have. The control plane has no case for the `list_grants` a remote agent
sends and answers with no result. The owner's passes the alias of a `list_grants` filter
on as a secret id (`src/vault-ingress/index.ts:418`). The server of
`examples/process-isolation.ts` serves `/dispatch` only, while a dispatch by the client
begins with a list on the control endpoint. Requests with a session token have no check
of their timestamp, so only the guard's memory bounds their replay. A dispatch whose
answer is lost leaves its caller without the request id: a retry is a new request, and
may be executed beside the first.

And of the adapters. Tables and in-memory stores differ: a removed secret keeps its
alias, and a domain has one site, only in SQLite; the in-memory pending subscription
ignores the cursor once it is live. `ON CONFLICT(request_id)` leaves the column
`root_agent_id` of the first writer (`persistence.ts:354`). The migration of private keys
stored in plaintext runs inside `get` and `list`, unserialised (`:213-245`).

## 8. Not modelled yet, and the plan

Built so far, in this order: `VaultState`, `AgentDispatch`, `OwnerApproval`,
`OwnerAdmin`, `VaultDispatch` with `ExecutionLedger` and their proofs; then
`SecretLifecycle`, `ReplayGuard`, `AgentAccess`, `PendingEvents`, `VaultProfile` and
`OwnerSession` with theirs; then subscribers that throw, the nickname of a session, and
`AgentChannel` with its proofs; then `RequestLife` and `SeenGuard` and the proofs of the
remaining safety properties. Next:

1. Two cores over one set of tables, as a reload makes them: a replay guard per core,
   so that a request may be accepted once by each. `VaultDispatch` has such a second
   acceptance already, by `Forget`.
2. Runs for the two disagreements about the profile (section 7).
3. The failures of a store in the middle of a handler (a port that throws), which only
   the UNIQUE constraints of `SecretLifecycle` represent so far.

Left out of the modules above: audit subscriptions themselves (`ownerOnAudit`
compares entry ids that are made by `src/internal/id-factory`, which is not in the
repository), `subscribePending` of the request registries (nothing calls it), and the
migration of private keys that earlier releases stored in plaintext.

Of the agent client, the manifest (a read of static tool metadata) and the audit ping;
of the ingress, the owner side, which routes a call to a handler and wraps its result;
of `AgentChannel`, the second grant, the audit log and its subscribers, and overlapping
decisions of one request, which `VaultDispatch` has.

Not planned: the cryptography and sealing (pure calls into a library), templates and
header injection of the executor, types and tool metadata.
