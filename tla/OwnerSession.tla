---------------------------- MODULE OwnerSession ----------------------------
(***************************************************************************)
(* DefaultOwnerSession: one session of a vault caches the promise of the   *)
(* recovered vault and the promise of the owner client made for it, and    *)
(* hands them out until it is told to reload or is invalidated, while      *)
(* calls of the profile's module write what the recoveries read.           *)
(*                                                                         *)
(* Recoveries are numbered as they start.  Between two resets the session  *)
(* makes one client, for the vault it has cached, so a client has the      *)
(* number of its vault; 0 stands for undefined.                            *)
(***************************************************************************)
EXTENDS VaultProfile

CONSTANTS
  Users,     \* calls of withOwnerClient at the same time
  MaxReloads,  \* bound: calls of reloadVault
  Scenes     \* how much of the bounds is used up before: [crashes, reloads]

ASSUME SessionBounds == MaxReloads \in Nat /\ MaxCrashes \in Nat
ASSUME SessionScenes == Scenes \subseteq [crashes: Nat, reloads: Nat]

VARIABLES
  invalidated,
  vaultPromise, clientPromise,  \* what is cached
  loads,     \* recoveries begun
  load,      \* where each is: "none", "reading", "read", "ok", "failed"
  profile,   \* the sealed profile each has read
  nickname,  \* of the recovered vault that answered last
  client,    \* the promise of each client: "none", "waiting", "ok", "failed"
  pc, vault, \* where each call of withOwnerClient is, the vault it got and
  got,       \* the client it waits for
  reloads,   \* history: calls of reloadVault
  fresh      \* history: the last recovery overlapped with no other, and no
             \* call has written the profile since it began

recovered == <<profile, nickname>>
cache == <<vaultPromise, clientPromise, loads, load, client, fresh>>
users == <<pc, vault, got>>
session == <<invalidated, cache, recovered, users, reloads>>
vars == <<profileVars, crashes, session>>

Ids == 1..(MaxReloads + 1)

Init ==
  /\ ProfileInit
  /\ invalidated = FALSE
  /\ vaultPromise = 0 /\ clientPromise = 0 /\ loads = 0
  /\ load = [i \in Ids |-> "none"]
  /\ client = [i \in Ids |-> "none"]
  /\ pc = [w \in Users |-> "idle"]
  /\ vault = [w \in Users |-> 0]
  /\ got = [w \in Users |-> 0]
  /\ profile = [i \in Ids |-> Absent]
  /\ nickname = Nil
  /\ \E scene \in Scenes : reloads = scene.reloads /\ crashes = scene.crashes
  /\ fresh = FALSE

Unanswered == {i \in Ids : load[i] \in {"reading", "read"}}

\* The first step of a recovery, and of one that is not made again.
Recover(i, new) ==
  /\ vaultPromise' = i
  /\ loads' = IF new THEN i ELSE loads
  /\ load' = IF new THEN [load EXCEPT ![i] = "reading"] ELSE load
  /\ fresh' = IF new THEN Running = {} /\ Unanswered = {} ELSE fresh

\* Mutant of GetVault: the cache is filled when the vault has been read.
GetVaultLate(cached) ==
  LET new == cached = 0 \/ cached \in Unanswered
      i == IF new THEN loads + 1 ELSE cached
  IN ~invalidated /\ i \in Ids /\ Recover(i, new)

(***************************************************************************)
(* getVault and getOwnerClient up to their first await: both throw after   *)
(* an invalidation, and fill the cache before they yield.                  *)
(***************************************************************************)
GetVault(cached) ==
  LET i == IF cached = 0 THEN loads + 1 ELSE cached
  IN ~invalidated /\ i \in Ids /\ Recover(i, cached = 0)

GetOwnerClient ==
  /\ ~invalidated
  /\ IF clientPromise # 0
       THEN UNCHANGED cache
       ELSE /\ GetVault(vaultPromise)
            /\ clientPromise' = vaultPromise'
            /\ client' = [client EXCEPT ![vaultPromise'] = "waiting"]

\* getVault and getOwnerClient, called by themselves.
CallGetVault ==
  /\ GetVault(vaultPromise)
  /\ UNCHANGED <<clientPromise, client, recovered, invalidated, users, reloads>>

CallGetOwnerClient ==
  /\ GetOwnerClient
  /\ UNCHANGED <<recovered, invalidated, users, reloads>>

\* Mutant of ReloadVault: the client of the old vault stays.
ReloadVaultOnly ==
  /\ reloads < MaxReloads
  /\ GetVault(0)
  /\ reloads' = reloads + 1
  /\ UNCHANGED <<clientPromise, client, recovered, invalidated, users>>

ReloadVault ==
  /\ reloads < MaxReloads
  /\ GetVault(0)
  /\ clientPromise' = 0
  /\ reloads' = reloads + 1
  /\ UNCHANGED <<client, recovered, invalidated, users>>

Invalidate ==
  /\ invalidated' = TRUE
  /\ vaultPromise' = 0 /\ clientPromise' = 0
  /\ UNCHANGED <<loads, load, client, recovered, fresh, users, reloads>>

(***************************************************************************)
(* recoverVault reads the sealed profile; it answers later, in any order   *)
(* with other recoveries, and throws unless the profile was whole.  The    *)
(* session takes the nickname of every answer, also of a recovery that a   *)
(* reload or an invalidation has dropped from the cache.                   *)
(***************************************************************************)
ReadVault(i) ==
  /\ load[i] = "reading"
  /\ load' = [load EXCEPT ![i] = "read"]
  /\ profile' = [profile EXCEPT ![i] = sealed]
  /\ UNCHANGED <<nickname, vaultPromise, clientPromise, loads, client, fresh,
                 invalidated, users, reloads, profileVars, crashes>>

Answer(i, taken) ==
  /\ load[i] = "read"
  /\ LET ok == profile[i].kind = "whole"
     IN /\ load' = [load EXCEPT ![i] = IF ok THEN "ok" ELSE "failed"]
        /\ opened' = (opened \/ ok)
        /\ nickname' = IF ok /\ taken THEN profile[i].nick ELSE nickname
  /\ profile' = [profile EXCEPT ![i] = Absent]
  /\ UNCHANGED <<vaultPromise, clientPromise, loads, client, fresh, invalidated,
                 users, reloads, sealed, public, wpc, doc, alone, kept, cut,
                 collided, crashes>>

\* Mutant of Recovered: a nickname that is there is not replaced.
RecoveredFirst(i) == Answer(i, nickname = Nil)

Recovered(i) == Answer(i, TRUE)

\* Mutant of CreateClient: the vault is not waited for.
CreateClientEarly(i) ==
  /\ client[i] = "waiting"
  /\ client' = [client EXCEPT ![i] = load[i]]
  /\ UNCHANGED <<vaultPromise, clientPromise, loads, load, fresh, recovered,
                 invalidated, users, reloads>>

\* _createClient for a vault that was read, or the rejection handed on; a
\* warmup that fails is caught.
CreateClient(i) ==
  /\ client[i] = "waiting" /\ load[i] \in {"ok", "failed"}
  /\ client' = [client EXCEPT ![i] = load[i]]
  /\ UNCHANGED <<vaultPromise, clientPromise, loads, load, fresh, recovered,
                 invalidated, users, reloads>>

\* withOwnerClient: getVault, then _assertValid and getOwnerClient, then the
\* callback; a rejection ends the call at each of them.
WithOwnerClient(w) ==
  /\ pc[w] = "idle"
  /\ GetVault(vaultPromise)
  /\ pc' = [pc EXCEPT ![w] = "vault"]
  /\ vault' = [vault EXCEPT ![w] = vaultPromise']
  /\ UNCHANGED <<clientPromise, client, recovered, invalidated, got, reloads>>

Return(w) ==
  /\ pc' = [pc EXCEPT ![w] = "idle"]
  /\ vault' = [vault EXCEPT ![w] = 0]
  /\ got' = [got EXCEPT ![w] = 0]

\* Mutant of HasVault: a vault that could not be read is waited for.
HasVaultOrWaits(w) ==
  /\ pc[w] = "vault" /\ load[vault[w]] = "ok"
  /\ IF invalidated
       THEN Return(w) /\ UNCHANGED cache
       ELSE /\ GetOwnerClient
            /\ pc' = [pc EXCEPT ![w] = "client"]
            /\ got' = [got EXCEPT ![w] = clientPromise']
            /\ UNCHANGED vault
  /\ UNCHANGED <<recovered, invalidated, reloads>>

HasVault(w) ==
  /\ pc[w] = "vault" /\ load[vault[w]] \in {"ok", "failed"}
  /\ IF load[vault[w]] = "failed" \/ invalidated
       THEN Return(w) /\ UNCHANGED cache
       ELSE /\ GetOwnerClient
            /\ pc' = [pc EXCEPT ![w] = "client"]
            /\ got' = [got EXCEPT ![w] = clientPromise']
            /\ UNCHANGED vault
  /\ UNCHANGED <<recovered, invalidated, reloads>>

\* The callback runs with the client, or the call throws.
HasClient(w) ==
  /\ pc[w] = "client" /\ client[got[w]] \in {"ok", "failed"}
  /\ Return(w)
  /\ UNCHANGED <<cache, recovered, invalidated, reloads>>

\* The process dies; the next one opens a session of its own.
Crash ==
  /\ ProfileCrash
  /\ invalidated' = FALSE
  /\ vaultPromise' = 0 /\ clientPromise' = 0 /\ loads' = 0
  /\ load' = [i \in Ids |-> "none"]
  /\ client' = [i \in Ids |-> "none"]
  /\ pc' = [w \in Users |-> "idle"]
  /\ vault' = [w \in Users |-> 0]
  /\ got' = [w \in Users |-> 0]
  /\ profile' = [i \in Ids |-> Absent]
  /\ nickname' = Nil
  /\ fresh' = FALSE
  /\ UNCHANGED reloads

UserStep(w) == HasVault(w) \/ HasClient(w)

SessionStep ==
  \/ CallGetVault
  \/ CallGetOwnerClient
  \/ ReloadVault
  \/ Invalidate
  \/ \E i \in Ids : CreateClient(i)
  \/ \E w \in Users : WithOwnerClient(w) \/ UserStep(w)

Next ==
  \/ /\ ProfileStep
     /\ fresh' = (fresh /\ Running' = {})
     /\ UNCHANGED <<vaultPromise, clientPromise, loads, load, client, recovered,
                    invalidated, users, reloads>>
  \/ SessionStep /\ UNCHANGED <<profileVars, crashes>>
  \/ \E i \in Ids : ReadVault(i) \/ Recovered(i)
  \/ Crash

Spec == Init /\ [][Next]_vars
-----------------------------------------------------------------------------
\* A read of the profile that was begun is answered, and the calls that wait
\* for it go on.
FairSpec ==
  /\ Spec
  /\ WF_vars(\E i \in Ids :
               \/ ReadVault(i) \/ Recovered(i)
               \/ CreateClient(i) /\ UNCHANGED <<profileVars, crashes>>)
  /\ \A w \in Users : WF_vars(UserStep(w) /\ UNCHANGED <<profileVars, crashes>>)
-----------------------------------------------------------------------------
\* Every variable has its type.
TypeOK ==
  /\ ProfileTypes
  /\ invalidated \in BOOLEAN
  /\ vaultPromise \in 0..loads /\ clientPromise \in 0..loads
  /\ loads \in 0..(MaxReloads + 1)
  /\ load \in [Ids -> {"none", "reading", "read", "ok", "failed"}]
  /\ profile \in [Ids -> Files] /\ nickname \in Names
  /\ client \in [Ids -> {"none", "waiting", "ok", "failed"}]
  /\ pc \in [Users -> {"idle", "vault", "client"}]
  /\ vault \in [Users -> 0..loads] /\ got \in [Users -> 0..loads]
  /\ reloads \in Nat /\ fresh \in BOOLEAN

(***************************************************************************)
(* However many callers ask at once, the vault is opened once, and once    *)
(* more for each reload: every recovery opens another core over the same   *)
(* tables.                                                                 *)
(***************************************************************************)
OneVaultPerReload == loads <= reloads + 1

(***************************************************************************)
(* A callback never gets a client that is older than the vault it gets     *)
(* with it, though a reload may come between the two awaits.               *)
(***************************************************************************)
ClientNotOlder == \A w \in Users : pc[w] = "client" => vault[w] <= got[w]

(***************************************************************************)
(* After a recovery that overlapped with no other one, begun when no call  *)
(* was writing the profile, the session tells the nickname of the sealed   *)
(* profile until the next call writes it: a reload after an update shows   *)
(* the update, whatever came before.                                       *)
(***************************************************************************)
ReloadTellsNickname ==
  fresh /\ vaultPromise # 0 /\ load[vaultPromise] = "ok"
    => Readable /\ nickname = sealed.nick

(***************************************************************************)
(* Every call of withOwnerClient comes to its callback or throws, also     *)
(* when the vault cannot be read or the session is invalidated meanwhile.  *)
(***************************************************************************)
CallsReturn == \A w \in Users : pc[w] # "idle" ~> pc[w] = "idle"
=============================================================================
