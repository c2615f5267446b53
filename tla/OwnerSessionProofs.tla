------------------------- MODULE OwnerSessionProofs -------------------------
(***************************************************************************)
(* Proofs about VaultProfile and OwnerSession, for any number of updates,  *)
(* calls and recoveries and for all arguments.                             *)
(***************************************************************************)
EXTENDS OwnerSession, TLAPS

-----------------------------------------------------------------------------
(* The inductive strengthening of the properties of VaultProfile.          *)

\* The nicknames of the files that a call writes.
NicksOK(u, sealedNick, publicNick) ==
  IF Args[u].meta = NotGiven THEN publicNick = sealedNick
                             ELSE sealedNick = Args[u].meta

\* What a call is about to write.
DocsOK ==
  \A u \in Running :
    /\ doc[u].sealed.kind = "whole" /\ doc[u].public.kind = "whole"
    /\ NicksOK(u, doc[u].sealed.nick, doc[u].public.nick)
    /\ Args[u].fields \subseteq doc[u].sealed.fields
    /\ wpc[u] \in {"truncSealed", "fillSealed"} => kept \subseteq doc[u].sealed.fields

\* Without a collision the one call that fills the sealed file finds it empty.
FillingOK ==
  ~collided => /\ Filling # {} => sealed.kind = "empty"
               /\ \A u, v \in Filling : u = v

\* A call that runs alone finds the files as it has left them.
AloneOK ==
  \A u \in alone :
    /\ Running \subseteq {u}
    /\ wpc[u] = "fillSealed" => sealed.kind = "empty"
    /\ wpc[u] \in {"truncPublic", "fillPublic"} => sealed = doc[u].sealed
    /\ wpc[u] = "fillPublic" => public.kind = "empty"

\* Before the vault is created there is nothing.
NewbornOK ==
  wpc[Creator] = "new"
    => sealed = Absent /\ ~opened /\ kept = {} /\ \A u \in Writers : wpc[u] = "new"

ProfileInv ==
  /\ DocsOK /\ FillingOK /\ AloneOK /\ NewbornOK
  /\ ProfileIsReadable /\ FieldsAreKept /\ ListTellsNickname
-----------------------------------------------------------------------------
(* The inductive strengthening: the cache holds the last recovery and its  *)
(* client, until an invalidation empties it for good.                      *)

CacheOK ==
  /\ vaultPromise \in {0, loads} /\ clientPromise \in {0, vaultPromise}
  /\ invalidated => vaultPromise = 0
  /\ ~invalidated /\ vaultPromise = 0
       => loads = 0 /\ \A w \in Users : pc[w] = "idle"

\* A profile is read when there is one.
ReadOK == \A i \in Ids : profile[i].kind = "whole" => wpc[Creator] # "new"

\* The last recovery is the only one at work, on the profile as it is.
FreshOK ==
  fresh /\ vaultPromise # 0 =>
    /\ Running = {} /\ Unanswered \subseteq {vaultPromise}
    /\ load[vaultPromise] = "read" => profile[vaultPromise] = sealed
    /\ ReloadTellsNickname

SessionInv == CacheOK /\ OneVaultPerReload /\ ClientNotOlder

-----------------------------------------------------------------------------

USE ProfileNil, ProfileCalls, ProfileArgs, SessionBounds, SessionScenes

-----------------------------------------------------------------------------
(* Types.                                                                  *)

LEMMA FileTypes ==
  /\ Absent \in Files /\ Empty \in Files /\ Torn \in Files
  /\ \A n \in Names, f \in SUBSET Fields : Whole(n, f) \in Files
  /\ NoDocs \in [sealed: Files, public: Files]
<1>1. Nil \in Names
  BY DEF Names
<1>. QED  BY <1>1 DEF Files, Absent, Empty, Torn, Whole, File, NoDocs, Docs

\* What a call writes that has this nickname and these fields.
LEMMA DocsTypes ==
  ASSUME NEW u \in Writers, NEW n \in Names, NEW f \in SUBSET Fields
  PROVE  Docs(Sealed(u, n, f), Whole(n, {})) \in [sealed: Files, public: Files]
<1>1. Args[u].meta \in Names \cup {NotGiven}
  BY DEF Writers
<1>2. Sealed(u, n, f) \in Files
  BY <1>1, FileTypes DEF Sealed
<1>3. Whole(n, {}) \in Files
  BY FileTypes
<1>. QED  BY <1>2, <1>3 DEF Docs

\* The calls of the profile's module.
LEMMA ProfileKeepsTypes ==
  ASSUME ProfileTypes, ProfileStep
  PROVE  ProfileTypes'
<1>. USE DEF ProfileTypes, Writers
<1>1. CASE CreateVault
  <2>1. Args[Creator].nick \in Names /\ Args[Creator].fields \in SUBSET Fields
    BY DEF Names
  <2>. QED  BY <1>1, <2>1, DocsTypes DEF CreateVault, BeginWrite
<1>2. ASSUME NEW u \in Updates, UpdateMetadata(u)
      PROVE  ProfileTypes'
  <2>1. NickFor(u) \in Names
    BY DEF NickFor, Names, Files
  <2>2. sealed.fields \cup Args[u].fields \in SUBSET Fields
    BY DEF Files
  <2>3. Merged(u) \in [sealed: Files, public: Files]
    BY <2>1, <2>2, DocsTypes DEF Merged
  <2>. QED  BY <1>2, <2>3 DEF UpdateMetadata, BeginWrite
<1>3. ASSUME NEW u \in Writers, WriteStep(u)
      PROVE  ProfileTypes'
  <2>1. CASE TruncateSealed(u)
    BY <2>1, FileTypes DEF TruncateSealed
  <2>2. CASE FillSealed(u)
    BY <1>3, <2>2, FileTypes DEF FillSealed, Filled
  <2>3. CASE TruncatePublic(u)
    BY <2>3, FileTypes DEF TruncatePublic
  <2>4. CASE FillPublic(u)
    <3>1. public' \in Files
      BY <1>3, <2>4, FileTypes DEF FillPublic, Filled
    <3>2. doc' \in [Writers -> [sealed: Files, public: Files]]
      BY <2>4, FileTypes DEF FillPublic
    <3>3. kept' \subseteq Fields /\ opened' \in BOOLEAN
      BY <2>4 DEF FillPublic
    <3>. QED  BY <1>3, <2>4, <3>1, <3>2, <3>3 DEF FillPublic
  <2>. QED  BY <1>3, <2>1, <2>2, <2>3, <2>4 DEF WriteStep
<1>. QED  BY <1>1, <1>2, <1>3 DEF ProfileStep

LEMMA InitTypes == Init => TypeOK
<1>. SUFFICES ASSUME Init
              PROVE  TypeOK
  OBVIOUS
<1>2. /\ loads = 0 /\ 0 \in 0..(MaxReloads + 1) /\ 0 \in 0..0
      /\ reloads \in Nat /\ crashes \in Nat
  BY DEF Init
<1>3. /\ load \in [Ids -> {"none", "reading", "read", "ok", "failed"}]
      /\ client \in [Ids -> {"none", "waiting", "ok", "failed"}]
      /\ pc \in [Users -> {"idle", "vault", "client"}]
      /\ vault \in [Users -> 0..0] /\ got \in [Users -> 0..0]
  BY <1>2 DEF Init
<1>4. /\ invalidated = FALSE /\ vaultPromise = 0 /\ clientPromise = 0
      /\ profile \in [Ids -> Files] /\ nickname \in Names /\ fresh = FALSE
  BY FileTypes DEF Init, Names
<1>1. ProfileTypes
  BY <1>2, FileTypes DEF Init, ProfileInit, ProfileTypes
<1>. QED  BY <1>1, <1>2, <1>3, <1>4 DEF TypeOK

\* What a call of getVault or getOwnerClient leaves in the cache.
LEMMA GetVaultTypes ==
  ASSUME TypeOK, NEW cached \in 0..loads, GetVault(cached)
  PROVE  /\ loads' \in 0..(MaxReloads + 1) /\ loads <= loads'
         /\ vaultPromise' \in 1..loads'
         /\ load' \in [Ids -> {"none", "reading", "read", "ok", "failed"}]
         /\ fresh' \in BOOLEAN
<1>. DEFINE i == IF cached = 0 THEN loads + 1 ELSE cached
<1>1. i \in Ids /\ Recover(i, cached = 0)
  BY DEF GetVault
<1>2. fresh' \in BOOLEAN
  BY <1>1, Zenon DEF Recover, TypeOK
<1>3. load' \in [Ids -> {"none", "reading", "read", "ok", "failed"}]
  BY <1>1 DEF Recover, TypeOK
<1>. QED  BY <1>1, <1>2, <1>3 DEF TypeOK, Recover, Ids

LEMMA GetOwnerClientTypes ==
  ASSUME TypeOK, GetOwnerClient
  PROVE  /\ loads' \in 0..(MaxReloads + 1) /\ loads <= loads'
         /\ vaultPromise' \in 0..loads' /\ clientPromise' \in 0..loads'
         /\ load' \in [Ids -> {"none", "reading", "read", "ok", "failed"}]
         /\ client' \in [Ids -> {"none", "waiting", "ok", "failed"}]
         /\ fresh' \in BOOLEAN
<1>1. CASE clientPromise # 0
  BY <1>1 DEF TypeOK, GetOwnerClient, cache
<1>2. CASE clientPromise = 0
  <2>1. vaultPromise \in 0..loads /\ GetVault(vaultPromise)
    BY <1>2 DEF GetOwnerClient, TypeOK
  <2>2. /\ loads' \in 0..(MaxReloads + 1) /\ loads <= loads' /\ vaultPromise' \in 1..loads'
        /\ load' \in [Ids -> {"none", "reading", "read", "ok", "failed"}]
        /\ fresh' \in BOOLEAN
    BY <2>1, GetVaultTypes
  <2>3. /\ clientPromise' = vaultPromise'
        /\ client' = [client EXCEPT ![vaultPromise'] = "waiting"]
    BY <1>2 DEF GetOwnerClient
  <2>4. client' \in [Ids -> {"none", "waiting", "ok", "failed"}]
    BY <2>3 DEF TypeOK
  <2>. QED  BY <2>2, <2>3, <2>4 DEF TypeOK
<1>. QED  BY <1>1, <1>2

LEMMA SessionKeepsTypes ==
  ASSUME TypeOK, SessionStep, UNCHANGED <<profileVars, crashes>>
  PROVE  TypeOK'
<1>1. ProfileTypes'
  BY DEF TypeOK, ProfileTypes, profileVars
<1>2. vaultPromise \in 0..loads /\ 0 \in 0..loads
  BY DEF TypeOK
<1>3. CASE CallGetVault
  BY <1>1, <1>2, <1>3, GetVaultTypes DEF CallGetVault, TypeOK, users, recovered
<1>4. CASE CallGetOwnerClient
  BY <1>1, <1>4, GetOwnerClientTypes DEF CallGetOwnerClient, TypeOK, users, recovered
<1>5. CASE ReloadVault
  BY <1>1, <1>2, <1>5, GetVaultTypes DEF ReloadVault, TypeOK, users, recovered
<1>6. CASE Invalidate
  BY <1>1, <1>6 DEF Invalidate, TypeOK, users, recovered
<1>7. ASSUME NEW i \in Ids, CreateClient(i)
      PROVE  TypeOK'
  BY <1>1, <1>7 DEF CreateClient, TypeOK, users, recovered
<1>8. ASSUME NEW w \in Users, WithOwnerClient(w)
      PROVE  TypeOK'
  BY <1>1, <1>2, <1>8, GetVaultTypes DEF WithOwnerClient, TypeOK, recovered
<1>9. ASSUME NEW w \in Users, HasVault(w)
      PROVE  TypeOK'
  <2>1. CASE load[vault[w]] = "failed" \/ invalidated
    BY <1>1, <1>9, <2>1 DEF HasVault, Return, TypeOK, cache, recovered
  <2>2. CASE ~(load[vault[w]] = "failed" \/ invalidated)
    <3>1. GetOwnerClient
      BY <1>9, <2>2 DEF HasVault
    <3>2. /\ loads' \in 0..(MaxReloads + 1) /\ loads <= loads'
          /\ vaultPromise' \in 0..loads' /\ clientPromise' \in 0..loads'
          /\ load' \in [Ids -> {"none", "reading", "read", "ok", "failed"}]
          /\ client' \in [Ids -> {"none", "waiting", "ok", "failed"}]
          /\ fresh' \in BOOLEAN
      BY <3>1, GetOwnerClientTypes
    <3>. QED  BY <1>1, <1>9, <2>2, <3>2 DEF HasVault, TypeOK, recovered
  <2>. QED  BY <2>1, <2>2
<1>10. ASSUME NEW w \in Users, HasClient(w)
       PROVE  TypeOK'
  BY <1>1, <1>10 DEF HasClient, Return, TypeOK, cache, recovered
<1>. QED
  BY <1>3, <1>4, <1>5, <1>6, <1>7, <1>8, <1>9, <1>10 DEF SessionStep, UserStep

LEMMA NextTypes == TypeOK /\ [Next]_vars => TypeOK'
<1>. SUFFICES ASSUME TypeOK, [Next]_vars
              PROVE  TypeOK'
  OBVIOUS
<1>1. CASE /\ ProfileStep /\ fresh' = (fresh /\ Running' = {})
           /\ UNCHANGED <<vaultPromise, clientPromise, loads, load, client,
                          recovered, invalidated, users, reloads>>
  <2>1. ProfileTypes' /\ fresh' \in BOOLEAN
    BY <1>1, ProfileKeepsTypes DEF TypeOK
  <2>. QED  BY <1>1, <2>1 DEF TypeOK, recovered, users
<1>2. CASE SessionStep /\ UNCHANGED <<profileVars, crashes>>
  BY <1>2, SessionKeepsTypes
<1>3. ASSUME NEW i \in Ids, ReadVault(i)
      PROVE  TypeOK'
  BY <1>3 DEF ReadVault, TypeOK, ProfileTypes, profileVars, users
<1>6. ASSUME NEW i \in Ids, Recovered(i)
      PROVE  TypeOK'
  <2>1. nickname' \in Names
    BY <1>6 DEF Recovered, Answer, TypeOK, Files
  <2>2. opened' \in BOOLEAN
    BY <1>6 DEF Recovered, Answer, TypeOK, ProfileTypes
  <2>3. ProfileTypes'
    BY <1>6, <2>2 DEF Recovered, Answer, TypeOK, ProfileTypes
  <2>4. profile' \in [Ids -> Files]
    BY <1>6, FileTypes DEF Recovered, Answer, TypeOK
  <2>5. load' \in [Ids -> {"none", "reading", "read", "ok", "failed"}]
    BY <1>6 DEF Recovered, Answer, TypeOK
  <2>. QED
    BY <1>6, <2>1, <2>3, <2>4, <2>5 DEF Recovered, Answer, TypeOK, users
<1>4. CASE Crash
  <2>1. ProfileTypes'
    <3>1. /\ wpc' = [u \in Writers |-> IF u \in Running THEN "done" ELSE wpc[u]]
          /\ doc' = [u \in Writers |-> NoDocs] /\ crashes' = crashes + 1
          /\ opened' = FALSE /\ alone' \subseteq Writers /\ cut' \in BOOLEAN
          /\ UNCHANGED <<sealed, public, kept, collided>>
      BY <1>4 DEF Crash, ProfileCrash, TypeOK, ProfileTypes
    <3>2. ProfileTypes
      BY DEF TypeOK
    <3>3. wpc' \in [Writers -> {"new", "truncSealed", "fillSealed", "truncPublic",
                               "fillPublic", "done"}]
      BY <3>1, <3>2 DEF ProfileTypes
    <3>4. doc' \in [Writers -> [sealed: Files, public: Files]]
      BY <3>1, FileTypes
    <3>5. crashes' \in Nat
      BY <3>1, <3>2 DEF ProfileTypes
    <3>6. /\ sealed' \in Files /\ public' \in Files /\ kept' \subseteq Fields
          /\ opened' \in BOOLEAN /\ alone' \subseteq Writers
          /\ cut' \in BOOLEAN /\ collided' \in BOOLEAN
      BY <3>1, <3>2, Zenon DEF ProfileTypes
    <3>. QED  BY <3>3, <3>4, <3>5, <3>6 DEF ProfileTypes
  <2>2. /\ loads' = 0 /\ 0 \in 0..(MaxReloads + 1) /\ 0 \in 0..0
        /\ reloads' \in Nat
    BY <1>4 DEF Crash, TypeOK
  <2>3. /\ load' \in [Ids -> {"none", "reading", "read", "ok", "failed"}]
        /\ client' \in [Ids -> {"none", "waiting", "ok", "failed"}]
        /\ pc' \in [Users -> {"idle", "vault", "client"}]
        /\ vault' \in [Users -> 0..0] /\ got' \in [Users -> 0..0]
    BY <1>4, <2>2 DEF Crash
  <2>4. /\ invalidated' = FALSE /\ vaultPromise' = 0 /\ clientPromise' = 0
        /\ profile' \in [Ids -> Files] /\ nickname' \in Names /\ fresh' = FALSE
    BY <1>4, FileTypes DEF Crash, Names
  <2>. QED  BY <2>1, <2>2, <2>3, <2>4 DEF TypeOK
<1>5. CASE UNCHANGED vars
  BY <1>5 DEF vars, profileVars, session, cache, users, recovered, TypeOK, ProfileTypes
<1>. QED  BY <1>1, <1>2, <1>3, <1>4, <1>5, <1>6 DEF Next

(***************************************************************************)
(* Every variable keeps its type: the files are absent, truncated, torn or *)
(* whole, and no promise has a number that was not given out.              *)
(***************************************************************************)
THEOREM SessionTypes == Spec => []TypeOK
<1>. QED  BY InitTypes, NextTypes, PTL DEF Spec
-----------------------------------------------------------------------------
(* The profile.                                                            *)

LEMMA Kinds ==
  /\ Absent.kind = "absent" /\ Absent.nick = Nil /\ Absent.fields = {}
  /\ Empty.kind = "empty" /\ Torn.kind = "torn"
  /\ \A n, f : /\ Whole(n, f).kind = "whole" /\ Whole(n, f).nick = n
              /\ Whole(n, f).fields = f
BY DEF Absent, Empty, Torn, Whole, File

\* What a call writes that has this nickname and these fields.
LEMMA DocsWhole ==
  ASSUME NEW u \in Writers, NEW n, NEW f, NEW docs,
         docs = Docs(Sealed(u, n, f), Whole(n, {}))
  PROVE  /\ docs.sealed.kind = "whole" /\ docs.public.kind = "whole"
         /\ NicksOK(u, docs.sealed.nick, docs.public.nick)
         /\ docs.sealed.fields = f
<1>1. docs.sealed = Sealed(u, n, f) /\ docs.public = Whole(n, {})
  BY DEF Docs
<1>. QED  BY <1>1, Kinds DEF Sealed, NicksOK

\* What a call leaves that begins to write.
LEMMA BeginKeeps ==
  ASSUME TypeOK, ProfileInv, NEW u \in Writers, NEW n, NEW f, NEW docs,
         docs = Docs(Sealed(u, n, f), Whole(n, {})), BeginWrite(u, docs),
         Args[u].fields \subseteq f, kept \subseteq f,
         u = Creator \/ wpc[Creator] # "new"
  PROVE  ProfileInv'
<1>. USE DEF ProfileInv
<1>1. /\ wpc' = [wpc EXCEPT ![u] = "truncSealed"] /\ wpc[u] = "new"
      /\ doc' = [doc EXCEPT ![u] = docs]
      /\ alone' = IF Running = {} THEN {u} ELSE {}
      /\ UNCHANGED <<sealed, public, opened, kept, cut, collided>>
      /\ wpc \in [Writers -> {"new", "truncSealed", "fillSealed", "truncPublic",
                              "fillPublic", "done"}]
      /\ doc \in [Writers -> [sealed: Files, public: Files]]
  BY DEF BeginWrite, TypeOK, ProfileTypes
<1>2. /\ Running' = Running \cup {u} /\ u \notin Running
      /\ Filling' = Filling /\ u \notin Filling
  BY <1>1 DEF Running, Filling
<1>3. DocsOK'
  <2>1. \A v \in Running : doc'[v] = doc[v] /\ wpc'[v] = wpc[v]
    BY <1>1, <1>2 DEF Running
  <2>2. \A v \in Running' : v = u \/ v \in Running
    BY <1>2
  <2>3. doc'[u] = docs
    BY <1>1
  <2>. QED  BY <1>1, <2>1, <2>2, <2>3, DocsWhole DEF DocsOK, NicksOK
<1>4. FillingOK' /\ ProfileIsReadable' /\ FieldsAreKept' /\ ListTellsNickname'
  BY <1>1, <1>2 DEF FillingOK, ProfileIsReadable, FieldsAreKept, Readable,
       ListTellsNickname
<1>5. AloneOK'
  BY <1>1, <1>2 DEF AloneOK, Running
<1>6. NewbornOK'
  BY <1>1 DEF NewbornOK, Writers
<1>. QED  BY <1>3, <1>4, <1>5, <1>6

LEMMA CreateKeeps ==
  ASSUME TypeOK, ProfileInv, CreateVault
  PROVE  ProfileInv'
<1>1. wpc[Creator] = "new"
  BY DEF CreateVault, BeginWrite
<1>2. kept = {}
  BY <1>1 DEF ProfileInv, NewbornOK
<1>. QED  BY <1>2, BeginKeeps DEF CreateVault, Writers

LEMMA UpdateKeeps ==
  ASSUME TypeOK, ProfileInv, NEW u \in Updates, UpdateMetadata(u)
  PROVE  ProfileInv'
<1>1. opened /\ Readable /\ BeginWrite(u, Merged(u))
  BY DEF UpdateMetadata
<1>2. kept \subseteq sealed.fields /\ wpc[Creator] # "new"
  BY <1>1 DEF ProfileInv, FieldsAreKept, NewbornOK
<1>. QED  BY <1>1, <1>2, BeginKeeps DEF Merged, Writers

LEMMA TruncateSealedKeeps ==
  ASSUME TypeOK, ProfileInv, NEW u \in Writers, TruncateSealed(u)
  PROVE  ProfileInv'
<1>. USE DEF ProfileInv
<1>1. /\ wpc' = [wpc EXCEPT ![u] = "fillSealed"] /\ wpc[u] = "truncSealed"
      /\ sealed' = Empty /\ collided' = (collided \/ Filling # {})
      /\ UNCHANGED <<public, doc, opened, alone, kept, cut>>
      /\ wpc \in [Writers -> {"new", "truncSealed", "fillSealed", "truncPublic",
                              "fillPublic", "done"}]
  BY DEF TruncateSealed, TypeOK, ProfileTypes
<1>2. Running' = Running /\ u \in Running /\ Filling' = Filling \cup {u}
  BY <1>1 DEF Running, Filling
<1>3. sealed'.kind = "empty"
  BY <1>1, Kinds
<1>4. DocsOK'
  BY <1>1, <1>2 DEF DocsOK, Running
<1>5. FillingOK'
  BY <1>1, <1>2, <1>3 DEF FillingOK
<1>6. ProfileIsReadable' /\ FieldsAreKept' /\ ListTellsNickname'
  BY <1>1, <1>2, <1>3 DEF ProfileIsReadable, FieldsAreKept, Readable, ListTellsNickname
<1>7. AloneOK'
  BY <1>1, <1>2, <1>3 DEF AloneOK, Running
<1>8. NewbornOK'
  BY <1>1 DEF NewbornOK, Writers
<1>. QED  BY <1>4, <1>5, <1>6, <1>7, <1>8

LEMMA FillSealedKeeps ==
  ASSUME TypeOK, ProfileInv, NEW u \in Writers, FillSealed(u)
  PROVE  ProfileInv'
<1>. USE DEF ProfileInv
<1>1. /\ wpc' = [wpc EXCEPT ![u] = "truncPublic"] /\ wpc[u] = "fillSealed"
      /\ sealed' \in Filled(sealed, doc[u].sealed)
      /\ UNCHANGED <<public, doc, opened, alone, kept, cut, collided>>
      /\ wpc \in [Writers -> {"new", "truncSealed", "fillSealed", "truncPublic",
                              "fillPublic", "done"}]
  BY DEF FillSealed, TypeOK, ProfileTypes
<1>2. Running' = Running /\ u \in Running /\ Filling' = Filling \ {u} /\ u \in Filling
  BY <1>1 DEF Running, Filling
<1>3. /\ doc[u].sealed.kind = "whole" /\ kept \subseteq doc[u].sealed.fields
      /\ sealed' = doc[u].sealed \/ (sealed' = Torn /\ sealed.kind # "empty")
  BY <1>1, <1>2 DEF DocsOK, Filled
<1>4. DocsOK'
  BY <1>1, <1>2 DEF DocsOK, Running
<1>5. FillingOK'
  BY <1>1, <1>2 DEF FillingOK
<1>6. sealed'.kind # "empty" /\ (sealed'.kind = "torn" => collided)
  BY <1>2, <1>3, Kinds DEF FillingOK
<1>7. ProfileIsReadable' /\ FieldsAreKept' /\ ListTellsNickname'
  BY <1>1, <1>2, <1>3, <1>6, Kinds DEF ProfileIsReadable, FieldsAreKept, Readable,
       ListTellsNickname
<1>8. AloneOK'
  BY <1>1, <1>2, <1>3 DEF AloneOK, Running
<1>9. NewbornOK'
  BY <1>1 DEF NewbornOK, Writers
<1>. QED  BY <1>4, <1>5, <1>7, <1>8, <1>9

LEMMA TruncatePublicKeeps ==
  ASSUME TypeOK, ProfileInv, NEW u \in Writers, TruncatePublic(u)
  PROVE  ProfileInv'
<1>. USE DEF ProfileInv
<1>1. /\ wpc' = [wpc EXCEPT ![u] = "fillPublic"] /\ wpc[u] = "truncPublic"
      /\ public' = Empty
      /\ UNCHANGED <<sealed, doc, opened, alone, kept, cut, collided>>
      /\ wpc \in [Writers -> {"new", "truncSealed", "fillSealed", "truncPublic",
                              "fillPublic", "done"}]
  BY DEF TruncatePublic, TypeOK, ProfileTypes
<1>2. Running' = Running /\ u \in Running /\ Filling' = Filling
  BY <1>1 DEF Running, Filling
<1>3. DocsOK' /\ FillingOK' /\ ProfileIsReadable' /\ FieldsAreKept'
      /\ ListTellsNickname'
  BY <1>1, <1>2 DEF DocsOK, Running, FillingOK, ProfileIsReadable, FieldsAreKept,
       Readable, ListTellsNickname
<1>4. AloneOK'
  BY <1>1, <1>2, Kinds DEF AloneOK, Running
<1>5. NewbornOK'
  BY <1>1 DEF NewbornOK, Writers
<1>. QED  BY <1>3, <1>4, <1>5

LEMMA FillPublicKeeps ==
  ASSUME TypeOK, ProfileInv, NEW u \in Writers, FillPublic(u)
  PROVE  ProfileInv'
<1>. USE DEF ProfileInv
<1>1. /\ wpc' = [wpc EXCEPT ![u] = "done"] /\ wpc[u] = "fillPublic"
      /\ doc' = [doc EXCEPT ![u] = NoDocs]
      /\ public' \in Filled(public, doc[u].public)
      /\ kept' = IF u \in alone THEN kept \cup Args[u].fields ELSE kept
      /\ UNCHANGED <<sealed, alone, cut, collided>>
      /\ wpc \in [Writers -> {"new", "truncSealed", "fillSealed", "truncPublic",
                              "fillPublic", "done"}]
      /\ doc \in [Writers -> [sealed: Files, public: Files]]
  BY DEF FillPublic, TypeOK, ProfileTypes
<1>2. Running' = Running \ {u} /\ u \in Running /\ Filling' = Filling
  BY <1>1 DEF Running, Filling
<1>3. /\ \A v \in alone : v = u /\ Running = {u}
      /\ u \in alone => sealed = doc[u].sealed /\ public.kind = "empty"
  BY <1>1, <1>2 DEF AloneOK
<1>4. /\ doc[u].sealed.kind = "whole" /\ doc[u].public.kind = "whole"
      /\ NicksOK(u, doc[u].sealed.nick, doc[u].public.nick)
      /\ Args[u].fields \subseteq doc[u].sealed.fields
  BY <1>2 DEF DocsOK
<1>5. DocsOK'
  BY <1>1, <1>2, <1>3 DEF DocsOK, Running
<1>6. FillingOK' /\ ProfileIsReadable'
  BY <1>1, <1>2 DEF FillingOK, ProfileIsReadable
<1>7. FieldsAreKept'
  BY <1>1, <1>3, <1>4 DEF FieldsAreKept, Readable
<1>8. ListTellsNickname'
  <2>1. u \in alone => public' = doc[u].public
    BY <1>1, <1>3 DEF Filled
  <2>. QED
    BY <1>1, <1>3, <1>4, <2>1 DEF ListTellsNickname, Readable, ListedNick, NicksOK
<1>9. AloneOK'
  BY <1>1, <1>2, <1>3 DEF AloneOK, Running
<1>10. NewbornOK'
  BY <1>1 DEF NewbornOK, Writers
<1>. QED  BY <1>5, <1>6, <1>7, <1>8, <1>9, <1>10

LEMMA CrashKeepsProfile ==
  ASSUME TypeOK, ProfileInv, ProfileCrash
  PROVE  ProfileInv'
<1>. USE DEF ProfileInv
<1>1. /\ wpc' = [u \in Writers |-> IF u \in Running THEN "done" ELSE wpc[u]]
      /\ opened' = FALSE
      /\ alone' = (IF Running = {} THEN alone ELSE {}) /\ cut' = (cut \/ Filling # {})
      /\ UNCHANGED <<sealed, public, kept, collided>>
      /\ wpc \in [Writers -> {"new", "truncSealed", "fillSealed", "truncPublic",
                              "fillPublic", "done"}]
  BY DEF ProfileCrash, TypeOK, ProfileTypes
<1>2. \A u \in Writers : wpc'[u] \in {"new", "done"} /\ (wpc'[u] = "new" <=> wpc[u] = "new")
  BY <1>1 DEF Running
<1>3. Running' = {} /\ Filling' = {} /\ alone' \subseteq Writers
  BY <1>1, <1>2 DEF Running, Filling, TypeOK, ProfileTypes
<1>4. DocsOK' /\ FillingOK' /\ AloneOK'
  BY <1>2, <1>3 DEF DocsOK, FillingOK, AloneOK
<1>5. ProfileIsReadable' /\ FieldsAreKept' /\ ListTellsNickname'
  BY <1>1, <1>3 DEF ProfileIsReadable, FieldsAreKept, Readable, ListTellsNickname,
       ListedNick
<1>6. NewbornOK'
  BY <1>1, <1>2 DEF NewbornOK, Writers
<1>. QED  BY <1>4, <1>5, <1>6

LEMMA InitProfile == Init => ProfileInv /\ ReadOK
<1>. SUFFICES ASSUME Init
              PROVE  ProfileInv
  BY Kinds DEF Init, ReadOK
<1>1. Running = {} /\ Filling = {} /\ alone = {} /\ kept = {} /\ ~opened /\ sealed = Absent
  BY DEF Init, ProfileInit, Running, Filling
<1>. QED
  BY <1>1, Kinds DEF Init, ProfileInit, ProfileInv, DocsOK, FillingOK, AloneOK,
       NewbornOK, ProfileIsReadable, FieldsAreKept, ListTellsNickname

\* A step that leaves the files and their writers alone.
LEMMA ProfileAlone ==
  ASSUME ProfileInv,
         UNCHANGED <<sealed, public, wpc, doc, alone, kept, cut, collided>>,
         opened' = opened \/ wpc[Creator] # "new"
  PROVE  ProfileInv'
<1>1. Running' = Running /\ Filling' = Filling
  BY DEF Running, Filling
<1>. QED
  BY <1>1 DEF ProfileInv, DocsOK, FillingOK, AloneOK, NewbornOK, ProfileIsReadable,
       FieldsAreKept, ListTellsNickname, Readable, ListedNick

\* A recovery reads a profile that is there.
LEMMA NextRead == TypeOK /\ ProfileInv /\ ReadOK /\ [Next]_vars => ReadOK'
<1>. SUFFICES ASSUME TypeOK, ProfileInv, ReadOK, [Next]_vars
              PROVE  ReadOK'
  OBVIOUS
<1>. USE DEF ReadOK
<1>1. CASE ProfileStep /\ UNCHANGED profile
  <2>1. wpc' = wpc \/ \E u \in Writers, x \in {"truncSealed", "fillSealed",
          "truncPublic", "fillPublic", "done"} : wpc' = [wpc EXCEPT ![u] = x]
    BY <1>1 DEF ProfileStep, CreateVault, UpdateMetadata, BeginWrite, WriteStep,
         TruncateSealed, FillSealed, TruncatePublic, FillPublic, Writers
  <2>2. wpc[Creator] # "new" => wpc'[Creator] # "new"
    BY <2>1 DEF TypeOK, ProfileTypes, Writers
  <2>. QED  BY <1>1, <2>2
<1>2. CASE UNCHANGED <<profile, wpc>>
  BY <1>2
<1>3. ASSUME NEW i \in Ids, ReadVault(i)
      PROVE  ReadOK'
  <2>1. sealed.kind = "whole" => wpc[Creator] # "new"
    BY Kinds DEF ProfileInv, NewbornOK
  <2>. QED  BY <1>3, <2>1 DEF ReadVault, profileVars, TypeOK
<1>4. ASSUME NEW i \in Ids, Recovered(i)
      PROVE  ReadOK'
  BY <1>4, Kinds DEF Recovered, Answer, TypeOK
<1>5. CASE Crash
  BY <1>5, Kinds DEF Crash
<1>6. CASE SessionStep /\ UNCHANGED profileVars
  BY <1>2, <1>6 DEF SessionStep, UserStep, CallGetVault, CallGetOwnerClient,
     ReloadVault, Invalidate, CreateClient, WithOwnerClient, HasVault, HasClient,
     recovered, profileVars
<1>. QED
  BY <1>1, <1>2, <1>3, <1>4, <1>5, <1>6 DEF Next, vars, profileVars, session,
     recovered

LEMMA NextProfile == TypeOK /\ ProfileInv /\ ReadOK /\ [Next]_vars => ProfileInv'
<1>. SUFFICES ASSUME TypeOK, ProfileInv, ReadOK, [Next]_vars
              PROVE  ProfileInv'
  OBVIOUS
<1>1. CASE ProfileStep
  BY <1>1, CreateKeeps, UpdateKeeps, TruncateSealedKeeps, FillSealedKeeps,
     TruncatePublicKeeps, FillPublicKeeps DEF ProfileStep, WriteStep
<1>2. CASE UNCHANGED <<profileVars, crashes>>
  BY <1>2, ProfileAlone DEF profileVars
<1>3. ASSUME NEW i \in Ids, ReadVault(i)
      PROVE  ProfileInv'
  BY <1>3, ProfileAlone DEF ReadVault, profileVars
<1>4. ASSUME NEW i \in Ids, Recovered(i)
      PROVE  ProfileInv'
  <2>1. opened' = opened \/ wpc[Creator] # "new"
    <3>1. opened' = (opened \/ profile[i].kind = "whole")
      BY <1>4, Zenon DEF Recovered, Answer
    <3>2. CASE profile[i].kind = "whole"
      BY <3>2 DEF ReadOK
    <3>3. CASE profile[i].kind # "whole"
      BY <3>1, <3>3, Zenon DEF TypeOK, ProfileTypes
    <3>. QED  BY <3>2, <3>3
  <2>. QED  BY <1>4, <2>1, ProfileAlone DEF Recovered, Answer
<1>5. CASE Crash
  BY <1>5, CrashKeepsProfile DEF Crash
<1>. QED  BY <1>1, <1>2, <1>3, <1>4, <1>5 DEF Next, vars

\* The inductive invariant of the profile.
LEMMA ProfileInvariant == Spec => [](ProfileInv /\ ReadOK)
<1>. QED  BY InitTypes, NextTypes, InitProfile, NextProfile, NextRead, PTL DEF Spec

(***************************************************************************)
(* The profile is unreadable only while a call fills it, after a death in  *)
(* the middle of that, or after two calls filled it at once.               *)
(***************************************************************************)
THEOREM ReadableProfile == Spec => []ProfileIsReadable
<1>1. ProfileInv => ProfileIsReadable
  BY DEF ProfileInv
<1>. QED  BY <1>1, ProfileInvariant, PTL

(***************************************************************************)
(* A call that runs alone is never lost to a later one, not even to        *)
(* overlapping ones.                                                       *)
(***************************************************************************)
THEOREM LoneUpdatesKept == Spec => []FieldsAreKept
<1>1. ProfileInv => FieldsAreKept
  BY DEF ProfileInv
<1>. QED  BY <1>1, ProfileInvariant, PTL

(***************************************************************************)
(* Once a call that ran alone has returned, both files are whole, and the  *)
(* list of vaults shows the nickname of the sealed profile, unless the     *)
(* call's metadata named another one, which the sealed profile then has.   *)
(***************************************************************************)
THEOREM NicknameListed == Spec => []ListTellsNickname
<1>1. ProfileInv => ListTellsNickname
  BY DEF ProfileInv
<1>. QED  BY <1>1, ProfileInvariant, PTL
-----------------------------------------------------------------------------
(* The session.                                                            *)

LEMMA InitSession == Init => SessionInv
BY DEF Init, SessionInv, CacheOK, OneVaultPerReload, ClientNotOlder

\* What a call of getVault or getOwnerClient leaves in the cache of a valid
\* session: the last recovery, which is a new one only after a reset.
LEMMA GetVaultKeeps ==
  ASSUME TypeOK, SessionInv, GetVault(vaultPromise)
  PROVE  /\ ~invalidated /\ vaultPromise' = loads' /\ loads' # 0 /\ loads <= loads'
         /\ loads' <= reloads + 1 /\ clientPromise \in {0, vaultPromise'}
<1>1. /\ loads \in Nat /\ reloads \in Nat /\ loads <= reloads + 1
      /\ vaultPromise \in {0, loads} /\ clientPromise \in {0, vaultPromise}
      /\ ~invalidated /\ vaultPromise = 0 => loads = 0
  BY DEF TypeOK, SessionInv, CacheOK, OneVaultPerReload
<1>. QED  BY <1>1 DEF GetVault, Recover

LEMMA GetOwnerClientKeeps ==
  ASSUME TypeOK, SessionInv, GetOwnerClient
  PROVE  /\ ~invalidated /\ vaultPromise' = loads' /\ loads' # 0 /\ loads <= loads'
         /\ loads' <= reloads + 1 /\ clientPromise' = loads'
<1>1. CASE clientPromise # 0
  BY <1>1 DEF GetOwnerClient, cache, TypeOK, SessionInv, CacheOK, OneVaultPerReload
<1>2. CASE clientPromise = 0
  BY <1>2, GetVaultKeeps DEF GetOwnerClient
<1>. QED  BY <1>1, <1>2

LEMMA NextSession == TypeOK /\ SessionInv /\ [Next]_vars => SessionInv'
<1>. SUFFICES ASSUME TypeOK, SessionInv, [Next]_vars
              PROVE  SessionInv'
  OBVIOUS
<1>. USE DEF SessionInv
<1>1. /\ loads \in Nat /\ reloads \in Nat
      /\ \A w \in Users : vault[w] \in 0..loads /\ got[w] \in 0..loads
      /\ pc \in [Users -> {"idle", "vault", "client"}]
      /\ vault \in [Users -> 0..loads] /\ got \in [Users -> 0..loads]
  BY DEF TypeOK
<1>2. CASE UNCHANGED <<invalidated, vaultPromise, clientPromise, loads, users, reloads>>
  BY <1>2 DEF users, CacheOK, OneVaultPerReload, ClientNotOlder
<1>3. CASE CallGetVault
  BY <1>3, GetVaultKeeps
     DEF CallGetVault, users, CacheOK, OneVaultPerReload, ClientNotOlder
<1>4. CASE CallGetOwnerClient
  BY <1>4, GetOwnerClientKeeps
     DEF CallGetOwnerClient, users, CacheOK, OneVaultPerReload, ClientNotOlder
<1>5. CASE ReloadVault
  BY <1>1, <1>5
     DEF ReloadVault, GetVault, Recover, users, CacheOK, OneVaultPerReload, ClientNotOlder
<1>6. CASE Invalidate
  BY <1>6 DEF Invalidate, users, CacheOK, OneVaultPerReload, ClientNotOlder
<1>7. ASSUME NEW i \in Ids, CreateClient(i)
      PROVE  SessionInv'
  BY <1>7 DEF CreateClient, users, CacheOK, OneVaultPerReload, ClientNotOlder
<1>8. ASSUME NEW w \in Users, WithOwnerClient(w)
      PROVE  SessionInv'
  <2>1. /\ ~invalidated /\ vaultPromise' = loads' /\ loads' # 0
        /\ loads' <= reloads + 1 /\ clientPromise \in {0, vaultPromise'}
    BY <1>8, GetVaultKeeps DEF WithOwnerClient
  <2>2. \A x \in Users : pc'[x] = "client" => pc[x] = "client" /\ x # w
    BY <1>1, <1>8 DEF WithOwnerClient
  <2>3. ClientNotOlder'
    BY <1>1, <1>8, <2>2 DEF WithOwnerClient, ClientNotOlder
  <2>. QED  BY <1>8, <2>1, <2>3 DEF WithOwnerClient, CacheOK, OneVaultPerReload
<1>9. ASSUME NEW w \in Users, HasVault(w)
      PROVE  SessionInv'
  <2>1. CASE load[vault[w]] = "failed" \/ invalidated
    <3>1. /\ pc' = [pc EXCEPT ![w] = "idle"] /\ vault' = [vault EXCEPT ![w] = 0]
          /\ got' = [got EXCEPT ![w] = 0] /\ UNCHANGED <<cache, invalidated, reloads>>
      BY <1>9, <2>1 DEF HasVault, Return
    <3>. QED  BY <1>1, <3>1 DEF cache, CacheOK, OneVaultPerReload, ClientNotOlder
  <2>2. CASE ~(load[vault[w]] = "failed" \/ invalidated)
    <3>1. /\ GetOwnerClient /\ pc' = [pc EXCEPT ![w] = "client"]
          /\ got' = [got EXCEPT ![w] = clientPromise']
          /\ UNCHANGED <<vault, invalidated, reloads>>
      BY <1>9, <2>2 DEF HasVault
    <3>2. /\ ~invalidated /\ vaultPromise' = loads' /\ loads' # 0 /\ loads <= loads'
          /\ loads' <= reloads + 1 /\ clientPromise' = loads'
      BY <3>1, GetOwnerClientKeeps
    <3>3. vault[w] <= got'[w]
      <4>1. loads' \in Nat
        BY NextTypes DEF TypeOK
      <4>2. got'[w] = loads'
        BY <1>1, <3>1, <3>2
      <4>. QED  BY <1>1, <3>2, <4>1, <4>2
    <3>4. ClientNotOlder'
      BY <1>1, <3>1, <3>3 DEF ClientNotOlder
    <3>. QED  BY <3>1, <3>2, <3>4 DEF CacheOK, OneVaultPerReload
  <2>. QED  BY <2>1, <2>2
<1>10. ASSUME NEW w \in Users, HasClient(w)
       PROVE  SessionInv'
  <2>1. /\ pc' = [pc EXCEPT ![w] = "idle"] /\ vault' = [vault EXCEPT ![w] = 0]
        /\ got' = [got EXCEPT ![w] = 0] /\ UNCHANGED <<cache, invalidated, reloads>>
    BY <1>10 DEF HasClient, Return
  <2>. QED  BY <1>1, <2>1 DEF cache, CacheOK, OneVaultPerReload, ClientNotOlder
<1>11. ASSUME NEW i \in Ids, ReadVault(i) \/ Recovered(i)
       PROVE  SessionInv'
  BY <1>2, <1>11 DEF ReadVault, Recovered, Answer
<1>12. CASE Crash
  BY <1>1, <1>12 DEF Crash, CacheOK, OneVaultPerReload, ClientNotOlder
<1>. QED
  BY <1>2, <1>3, <1>4, <1>5, <1>6, <1>7, <1>8, <1>9, <1>10, <1>11, <1>12
     DEF Next, SessionStep, UserStep, vars, session, cache, users

LEMMA SessionInvariant == Spec => []SessionInv
<1>. QED  BY InitTypes, NextTypes, InitSession, NextSession, PTL DEF Spec

(***************************************************************************)
(* However many callers ask at once, a session opens the vault once and    *)
(* once more for each reload.                                              *)
(***************************************************************************)
THEOREM OneVault == Spec => []OneVaultPerReload
<1>1. SessionInv => OneVaultPerReload
  BY DEF SessionInv
<1>. QED  BY <1>1, SessionInvariant, PTL

(***************************************************************************)
(* A callback never gets a client older than its vault.                    *)
(***************************************************************************)
THEOREM ClientsNotOlder == Spec => []ClientNotOlder
<1>1. SessionInv => ClientNotOlder
  BY DEF SessionInv
<1>. QED  BY <1>1, SessionInvariant, PTL

-----------------------------------------------------------------------------
(* The nickname.                                                           *)

LEMMA InitFresh == Init => FreshOK
BY DEF Init, FreshOK

\* A recovery that starts, and one that is cached.
LEMMA RecoverKeepsFresh ==
  ASSUME TypeOK, FreshOK, NEW i \in Ids, NEW new \in BOOLEAN, Recover(i, new),
         ~new => i = vaultPromise /\ i # 0,
         UNCHANGED <<profileVars, recovered>>
  PROVE  FreshOK'
<1>1. Running' = Running
  BY DEF Running, profileVars
<1>2. CASE new
  <2>1. load'[i] = "reading" /\ Unanswered' \subseteq Unanswered \cup {i}
    BY <1>2 DEF Recover, Unanswered, TypeOK
  <2>. QED
    BY <1>1, <1>2, <2>1 DEF Recover, FreshOK, ReloadTellsNickname
<1>3. CASE ~new
  BY <1>1, <1>3 DEF Recover, FreshOK, ReloadTellsNickname, Unanswered, Readable,
     recovered, profileVars
<1>. QED  BY <1>2, <1>3

LEMMA GetVaultKeepsFresh ==
  ASSUME TypeOK, FreshOK, NEW cached \in {0, vaultPromise}, GetVault(cached),
         UNCHANGED <<profileVars, recovered>>
  PROVE  FreshOK'
BY RecoverKeepsFresh DEF GetVault

LEMMA GetOwnerClientKeepsFresh ==
  ASSUME TypeOK, FreshOK, GetOwnerClient, UNCHANGED <<profileVars, recovered>>
  PROVE  FreshOK'
<1>1. CASE UNCHANGED cache
  BY <1>1 DEF cache, recovered, profileVars, FreshOK, ReloadTellsNickname, Running,
     Unanswered, Readable
<1>2. CASE GetVault(vaultPromise)
  BY <1>2, GetVaultKeepsFresh
<1>. QED  BY <1>1, <1>2 DEF GetOwnerClient

LEMMA NextFresh == TypeOK /\ SessionInv /\ FreshOK /\ [Next]_vars => FreshOK'
<1>. SUFFICES ASSUME TypeOK, SessionInv, FreshOK, [Next]_vars
              PROVE  FreshOK'
  OBVIOUS
\* A writer at work spoils it, and without one there is none to go on.
<1>1. CASE ProfileStep /\ fresh' = (fresh /\ Running' = {})
           /\ UNCHANGED <<vaultPromise, load>>
  <2>1. Running # {} \/ Running' # {}
    BY <1>1 DEF ProfileStep, CreateVault, UpdateMetadata, BeginWrite, WriteStep,
       TruncateSealed, FillSealed, TruncatePublic, FillPublic, Running, Writers,
       TypeOK, ProfileTypes
  <2>. QED  BY <1>1, <2>1 DEF FreshOK
<1>2. CASE UNCHANGED <<vaultPromise, load, fresh, recovered, profileVars>>
  BY <1>2 DEF recovered, profileVars, FreshOK, ReloadTellsNickname, Running,
     Unanswered, Readable
<1>3. CASE SessionStep /\ UNCHANGED profileVars
  <2>1. CASE CallGetVault \/ ReloadVault \/ \E w \in Users : WithOwnerClient(w)
    BY <1>3, <2>1, GetVaultKeepsFresh DEF CallGetVault, ReloadVault, WithOwnerClient
  <2>2. CASE CallGetOwnerClient
    BY <1>3, <2>2, GetOwnerClientKeepsFresh DEF CallGetOwnerClient
  <2>3. CASE Invalidate
    BY <2>3 DEF Invalidate, FreshOK
  <2>4. CASE \E i \in Ids : CreateClient(i)
    BY <1>2, <1>3, <2>4 DEF CreateClient
  <2>5. CASE \E w \in Users : HasVault(w)
    BY <1>2, <1>3, <2>5, GetOwnerClientKeepsFresh DEF HasVault, cache
  <2>6. CASE \E w \in Users : HasClient(w)
    BY <1>2, <1>3, <2>6 DEF HasClient, cache
  <2>. QED  BY <1>3, <2>1, <2>2, <2>3, <2>4, <2>5, <2>6 DEF SessionStep, UserStep
<1>4. ASSUME NEW i \in Ids, ReadVault(i)
      PROVE  FreshOK'
  <2>1. Running' = Running /\ Unanswered' = Unanswered
    BY <1>4 DEF ReadVault, profileVars, Running, Unanswered, TypeOK
  <2>. QED
    BY <1>4, <2>1 DEF ReadVault, profileVars, FreshOK, ReloadTellsNickname, Readable,
       Unanswered, TypeOK
<1>5. ASSUME NEW i \in Ids, Recovered(i)
      PROVE  FreshOK'
  <2>1. /\ Running' = Running /\ Unanswered' \subseteq Unanswered \ {i}
        /\ i \in Unanswered
    BY <1>5 DEF Recovered, Answer, Running, Unanswered, TypeOK
  <2>. QED
    BY <1>5, <2>1 DEF Recovered, Answer, FreshOK, ReloadTellsNickname, Readable,
       Unanswered, TypeOK
<1>6. CASE Crash
  BY <1>6 DEF Crash, FreshOK
<1>. QED
  BY <1>1, <1>2, <1>3, <1>4, <1>5, <1>6 DEF Next, vars, session, cache

(***************************************************************************)
(* After a recovery that overlapped with no other one, begun when no call  *)
(* was writing the profile, the session tells the nickname of the sealed   *)
(* profile until the next call writes it.                                  *)
(***************************************************************************)
THEOREM NicknameTold == Spec => []ReloadTellsNickname
<1>1. FreshOK => ReloadTellsNickname
  BY DEF FreshOK, ReloadTellsNickname
<1>2. Spec => []FreshOK
  BY InitTypes, NextTypes, InitFresh, NextFresh, SessionInvariant, PTL DEF Spec
<1>. QED  BY <1>1, <1>2, PTL
=============================================================================
