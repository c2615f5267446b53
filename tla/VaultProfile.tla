---------------------------- MODULE VaultProfile ----------------------------
(***************************************************************************)
(* The profile of a vault: the sealed file every recovery reads and the    *)
(* public file the list of vaults reads, both written in place by          *)
(* FsStorageProvider.write, which truncates a file at one await and fills  *)
(* it at a later one.  createVault writes them first; updateVaultMetadata  *)
(* merges what it reads with its arguments and writes them again.  Nobody  *)
(* calls withLock.                                                         *)
(*                                                                         *)
(* A profile is a nickname and a set of metadata fields, whose values do   *)
(* not matter.  Metadata may name a nickname too: the sealed file then has *)
(* that one and the public file the other.  MemoryStorage has the          *)
(* behaviours in which no step comes between truncating and filling.       *)
(***************************************************************************)
EXTENDS Naturals

CONSTANTS
  Nicks,       \* nicknames
  Others,      \* what else metadata may name as one: values that are no strings
  Fields,      \* names of the other metadata fields
  Updates,     \* calls of updateVaultMetadata, each made once
  Creator,     \* the call of createVault
  Args,        \* the arguments of each call: options.nickname, which may be
               \* Nil, metadata.nickname, which may be NotGiven or a Nil that
               \* is given, and the fields metadata names beside it
  MaxCrashes,  \* bound: how often the process dies
  Nil, NotGiven

\* What a profile may have for a nickname.
Names == Nicks \cup Others \cup {Nil}

ASSUME ProfileNil ==
  /\ Nil \notin Nicks \cup Others /\ NotGiven \notin Names
  /\ Nicks \cap Others = {}
ASSUME ProfileCalls == Creator \notin Updates
ASSUME ProfileArgs ==
  Args \in [Updates \cup {Creator} ->
             [nick: Nicks \cup {Nil}, meta: Names \cup {NotGiven},
              fields: SUBSET Fields]]

VARIABLES
  sealed, public,  \* the files profile.sealed and the public profile
  wpc,             \* where each call that writes them is
  doc,             \* what it writes into them
  opened,          \* this process holds a handle of the vault
  \* history: the call under way, or the last one, if no other overlapped
  \* it; the fields given by calls that ran alone; whether a death came
  \* between truncating and filling the sealed file, and whether two calls
  \* were between them at once
  alone, kept, cut, collided, crashes

profileVars ==
  <<sealed, public, wpc, doc, opened, alone, kept, cut, collided>>

Writers == Updates \cup {Creator}

File(kind, nick, fields) == [kind |-> kind, nick |-> nick, fields |-> fields]
Absent == File("absent", Nil, {})
Empty  == File("empty", Nil, {})   \* truncated
Torn   == File("torn", Nil, {})    \* shorter text over longer one
Whole(nick, fields) == File("whole", nick, fields)

Docs(sealedFile, publicFile) == [sealed |-> sealedFile, public |-> publicFile]
NoDocs == Docs(Absent, Absent)

\* SealedJsonRepository.read answers; it throws for a truncated or torn file,
\* and recoverVault does for an absent one.
Readable == sealed.kind = "whole"

\* What filling a file leaves in it: another call may have filled it since
\* it was truncated, with a text that may be longer.
Filled(file, new) == IF file.kind = "empty" THEN {new} ELSE {new, Torn}

\* listVaultEntries, readVaultPublicProfile: a file that does not parse, or
\* is not there, is a vault without nickname, and so is one whose nickname is
\* not a string.
Shown(name) == IF name \in Nicks THEN name ELSE Nil
ListedNick == Shown(public.nick)

Running == {u \in Writers : wpc[u] \notin {"new", "done"}}
Filling == {u \in Writers : wpc[u] = "fillSealed"}

ProfileInit ==
  /\ sealed = Absent /\ public = Absent
  /\ wpc = [u \in Writers |-> "new"]
  /\ doc = [u \in Writers |-> NoDocs]
  /\ opened = FALSE
  /\ alone = {} /\ kept = {}
  /\ cut = FALSE /\ collided = FALSE

\* Metadata is spread after the nickname: one it names goes into the sealed
\* file in the place of the call's.
Sealed(u, nick, fields) ==
  LET meta == Args[u].meta
  IN  Whole(IF meta = NotGiven THEN nick ELSE meta, fields)

BeginWrite(u, docs) ==
  /\ wpc[u] = "new"
  /\ wpc' = [wpc EXCEPT ![u] = "truncSealed"]
  /\ doc' = [doc EXCEPT ![u] = docs]
  /\ alone' = IF Running = {} THEN {u} ELSE {}
  /\ UNCHANGED <<sealed, public, opened, kept, cut, collided, crashes>>

CreateVault ==
  LET nick == Args[Creator].nick
  IN  BeginWrite(Creator, Docs(Sealed(Creator, nick, Args[Creator].fields),
                               Whole(nick, {})))

\* options.nickname ?? current.nickname
NickFor(u) == IF Args[u].nick = Nil THEN sealed.nick ELSE Args[u].nick

\* Mutant of Merged: without what the profile already has.
MergedAfresh(u) ==
  Docs(Sealed(u, NickFor(u), Args[u].fields), Whole(NickFor(u), {}))

\* Mutant of Merged: the public file gets the nickname of the call only.
MergedInPart(u) ==
  Docs(Sealed(u, NickFor(u), sealed.fields \cup Args[u].fields),
       Whole(Args[u].nick, {}))

\* updateVaultMetadata: the read throws unless the file is whole; a handle was
\* opened on a profile, so there is one.
Merged(u) ==
  Docs(Sealed(u, NickFor(u), sealed.fields \cup Args[u].fields),
       Whole(NickFor(u), {}))

UpdateMetadata(u) ==
  /\ opened /\ Readable
  /\ BeginWrite(u, Merged(u))

TruncateSealed(u) ==
  /\ wpc[u] = "truncSealed"
  /\ sealed' = Empty
  /\ wpc' = [wpc EXCEPT ![u] = "fillSealed"]
  /\ collided' = (collided \/ Filling # {})
  /\ UNCHANGED <<public, doc, opened, alone, kept, cut, crashes>>

\* Mutant of FillSealed: the public key in the place of the sealed one.
FillSealedElsewhere(u) ==
  /\ wpc[u] = "fillSealed"
  /\ public' \in Filled(public, doc[u].sealed)
  /\ wpc' = [wpc EXCEPT ![u] = "truncPublic"]
  /\ UNCHANGED <<sealed, doc, opened, alone, kept, cut, collided, crashes>>

FillSealed(u) ==
  /\ wpc[u] = "fillSealed"
  /\ sealed' \in Filled(sealed, doc[u].sealed)
  /\ wpc' = [wpc EXCEPT ![u] = "truncPublic"]
  /\ UNCHANGED <<public, doc, opened, alone, kept, cut, collided, crashes>>

TruncatePublic(u) ==
  /\ wpc[u] = "truncPublic"
  /\ public' = Empty
  /\ wpc' = [wpc EXCEPT ![u] = "fillPublic"]
  /\ UNCHANGED <<sealed, doc, opened, alone, kept, cut, collided, crashes>>

\* The call returns; the creator has a handle.
FillPublic(u) ==
  /\ wpc[u] = "fillPublic"
  /\ public' \in Filled(public, doc[u].public)
  /\ wpc' = [wpc EXCEPT ![u] = "done"]
  /\ doc' = [doc EXCEPT ![u] = NoDocs]
  /\ opened' = (opened \/ u = Creator)
  /\ kept' = IF u \in alone THEN kept \cup Args[u].fields ELSE kept
  /\ UNCHANGED <<sealed, alone, cut, collided, crashes>>

WriteStep(u) ==
  TruncateSealed(u) \/ FillSealed(u) \/ TruncatePublic(u) \/ FillPublic(u)

ProfileStep ==
  \/ CreateVault
  \/ \E u \in Updates : UpdateMetadata(u)
  \/ \E u \in Writers : WriteStep(u)

\* What a death leaves: the files.
ProfileCrash ==
  /\ crashes < MaxCrashes
  /\ crashes' = crashes + 1
  /\ wpc' = [u \in Writers |-> IF u \in Running THEN "done" ELSE wpc[u]]
  /\ doc' = [u \in Writers |-> NoDocs]
  /\ opened' = FALSE
  /\ alone' = IF Running = {} THEN alone ELSE {}
  /\ cut' = (cut \/ Filling # {})
  /\ UNCHANGED <<sealed, public, kept, collided>>
-----------------------------------------------------------------------------
Files == [kind: {"absent", "empty", "torn", "whole"}, nick: Names,
          fields: SUBSET Fields]

ProfileTypes ==
  /\ sealed \in Files /\ public \in Files
  /\ wpc \in [Writers -> {"new", "truncSealed", "fillSealed", "truncPublic",
                          "fillPublic", "done"}]
  /\ doc \in [Writers -> [sealed: Files, public: Files]]
  /\ kept \subseteq Fields /\ alone \subseteq Writers
  /\ opened \in BOOLEAN
  /\ cut \in BOOLEAN /\ collided \in BOOLEAN
  /\ crashes \in Nat

(***************************************************************************)
(* The profile can be read unless a call is filling it, a death came in    *)
(* the middle of that, or two calls were filling it at once.               *)
(***************************************************************************)
ProfileIsReadable ==
  /\ sealed.kind = "empty" => Filling # {} \/ cut
  /\ sealed.kind = "torn" => collided

(***************************************************************************)
(* What a call gave the vault that ran alone stays in the profile,         *)
(* whatever overlaps later: every later write started from a read that had *)
(* it.                                                                     *)
(***************************************************************************)
FieldsAreKept == Readable => kept \subseteq sealed.fields

(***************************************************************************)
(* Once a call that ran alone has returned, both files are whole, and the  *)
(* list of vaults shows the nickname of the sealed profile, unless the     *)
(* call's metadata named another one: deaths, overlaps and such metadata   *)
(* of earlier calls, which set the two apart, are healed by the next call  *)
(* that runs alone.                                                        *)
(***************************************************************************)
ListTellsNickname ==
  \A u \in alone : Running = {} =>
    /\ Readable /\ public.kind = "whole"
    /\ IF Args[u].meta = NotGiven THEN ListedNick = Shown(sealed.nick)
                                  ELSE sealed.nick = Args[u].meta
=============================================================================
