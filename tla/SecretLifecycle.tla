--------------------------- MODULE SecretLifecycle ---------------------------
(***************************************************************************)
(* How secrets are created, updated, removed and exported: the row of a    *)
(* secret and its plaintext are two stores (SqliteSecretRepository and     *)
(* SqliteSecretCustody), each handler of the core touches them at separate *)
(* awaits, and the owner client checks a batch against one list before it  *)
(* starts a handler per item, all in parallel.                             *)
(*                                                                         *)
(* A batch returns at its first failure (Promise.all) while its other      *)
(* handlers go on.  The grants a removal deletes are in OwnerAdmin; here   *)
(* its handler is only between two awaits while it does.  Audit entries    *)
(* and the check of the owner's password change neither store.             *)
(***************************************************************************)
EXTENDS Naturals, FiniteSets

CONSTANTS
  SecretIds,   \* ids newSecretId hands out, each once
  Aliases,     \* names of secrets
  Clients,     \* owner clients
  Workers,     \* handlers that run in the core at the same time
  MaxBatch,    \* bound: the items of a batch
  Ops,         \* what the clients call
  MaxCrashes,  \* bound: how often the vault process dies
  Nil

AllOps == {"create", "update", "remove", "export"}

\* What a handler keeps of the row it has read or written.
Held == [id: SecretIds, alias: Aliases]

ASSUME LifecycleNil == Nil \notin SecretIds \cup Aliases \cup Held
ASSUME LifecycleBounds ==
  /\ MaxBatch \in Nat /\ MaxCrashes \in Nat
  /\ Ops \subseteq AllOps

VARIABLES
  rows,     \* the secrets table: status and alias of each id
  custody,  \* ids whose plaintext is stored
  wpc,      \* where each handler is
  job,      \* the command it serves
  held,     \* the row it has read or written: [id, alias]
  todo,     \* an export: the secrets still to load
  missing,  \* exports that answered "MISSING" for a secret
  waiting,  \* the handlers each client's call waits for
  \* history, read by no handler: calls that have had the vault to
  \* themselves; secrets two handlers wrote at the same time, or a death
  \* cut short
  clean, tainted, crashes

stores  == <<rows, custody>>
working == <<wpc, job, held, todo, missing>>
history == <<clean, tainted, crashes>>
vars    == <<stores, working, waiting, history>>

Statuses == {"none", "ACTIVE", "REMOVED"}
NoRow == [status |-> "none", alias |-> Nil]

Active == {i \in SecretIds : rows[i].status = "ACTIVE"}
ListedAliases == {rows[i].alias : i \in Active}

\* Mutant of ByAlias: the row is not filtered by its status.
AnyByAlias(a) == {i \in SecretIds : rows[i].alias = a}

\* getByAlias finds active secrets only; UNIQUE(alias) counts removed ones.
ByAlias(a) == {i \in Active : rows[i].alias = a}
Taken(a, id) == \E i \in SecretIds \ {id} : rows[i].alias = a

CreateCommands ==
  [op: {"create"}, alias: Aliases, new: {Nil}, rotates: {TRUE}]
UpdateCommands ==
  [op: {"update"}, alias: Aliases, new: Aliases, rotates: BOOLEAN]
RemoveCommands ==
  [op: {"remove"}, alias: Aliases, new: {Nil}, rotates: {FALSE}]
ExportCommands ==
  [op: {"export"}, alias: Aliases \cup {Nil}, new: {Nil}, rotates: {FALSE}]
Commands ==
  CreateCommands \cup UpdateCommands \cup RemoveCommands \cup ExportCommands

Free == {w \in Workers : wpc[w] = "idle"}
WorkerPCs ==
  {"idle", "lookup", "dup", "rotate", "save", "store", "destroy", "load",
   "ok", "failed"}

Init ==
  /\ rows = [i \in SecretIds |-> NoRow]
  /\ custody = {}
  /\ wpc = [w \in Workers |-> "idle"]
  /\ job = [w \in Workers |-> Nil]
  /\ held = [w \in Workers |-> Nil]
  /\ todo = [w \in Workers |-> {}]
  /\ missing = {}
  /\ waiting = [p \in Clients |-> {}]
  /\ clean = [p \in Clients |-> FALSE]
  /\ tainted = {}
  /\ crashes = 0

-----------------------------------------------------------------------------
(* The owner client: one call at a time, a batch of commands in a call.    *)

\* Phase 2: a handler is started for each item of the batch.
Start(p, batch) ==
  /\ waiting[p] = {}
  /\ waiting' = [waiting EXCEPT ![p] = DOMAIN batch]
  /\ wpc' = [w \in Workers |-> IF w \in DOMAIN batch THEN "lookup" ELSE wpc[w]]
  /\ job' = [w \in Workers |-> IF w \in DOMAIN batch THEN batch[w] ELSE job[w]]
  /\ clean' = [q \in Clients |-> q = p /\ Free = Workers]
  /\ UNCHANGED <<stores, held, todo, missing, tainted, crashes>>

Batches(commands) ==
  UNION {[W -> commands] :
           W \in {V \in SUBSET Free : Cardinality(V) \in 1..MaxBatch}}

\* Mutant of BeginCreate: no list, no check.
BeginCreateUnchecked(p) ==
  /\ "create" \in Ops
  /\ \E batch \in Batches(CreateCommands) : Start(p, batch)

\* Phase 1 of ownerCreateSecret: no alias may be listed.
BeginCreate(p) ==
  /\ "create" \in Ops
  /\ \E batch \in Batches(CreateCommands) :
       /\ \A w \in DOMAIN batch : batch[w].alias \notin ListedAliases
       /\ Start(p, batch)

Renames(command) == command.new # command.alias

\* Phase 1 of ownerUpdateSecret: every alias listed, no new one.
BeginUpdate(p) ==
  /\ "update" \in Ops
  /\ \E batch \in Batches(UpdateCommands) :
       /\ \A w \in DOMAIN batch :
            /\ batch[w].alias \in ListedAliases
            /\ Renames(batch[w]) => batch[w].new \notin ListedAliases
       /\ Start(p, batch)

\* ownerRemoveSecret and ownerExportSecret are not checked first.
BeginOne(p, op, commands) ==
  /\ op \in Ops
  /\ \E w \in Free, command \in commands : Start(p, [v \in {w} |-> command])

BeginRemove(p) == BeginOne(p, "remove", RemoveCommands)
BeginExport(p) == BeginOne(p, "export", ExportCommands)

(***************************************************************************)
(* Promise.all: the call returns when all its handlers have, or one threw. *)
(***************************************************************************)
Finished == {w \in Workers : wpc[w] \in {"ok", "failed"}}

Return(p) ==
  LET ended == waiting[p] \cap Finished
  IN  /\ waiting[p] # {}
      /\ \/ waiting[p] \subseteq Finished
         \/ \E w \in waiting[p] : wpc[w] = "failed"
      /\ waiting' = [waiting EXCEPT ![p] = {}]
      /\ wpc' = [w \in Workers |-> IF w \in ended THEN "idle" ELSE wpc[w]]
      /\ job' = [w \in Workers |-> IF w \in ended THEN Nil ELSE job[w]]
      /\ missing' = missing \ ended
      /\ clean' = [clean EXCEPT ![p] = FALSE]
      /\ UNCHANGED <<stores, held, todo, tainted, crashes>>

-----------------------------------------------------------------------------
(* The handlers.                                                           *)

Serves(w, op, here) == wpc[w] = here /\ job[w].op = op
Goto(w, next) == wpc' = [wpc EXCEPT ![w] = next]

\* A handler returns or throws; nobody may be waiting any more.
Finish(w, result) ==
  LET awaited == \E p \in Clients : w \in waiting[p]
  IN  /\ wpc' = [wpc EXCEPT ![w] = IF awaited THEN result ELSE "idle"]
      /\ job' = [job EXCEPT ![w] = IF awaited THEN @ ELSE Nil]
      /\ held' = [held EXCEPT ![w] = Nil]

Unmoved == <<todo, missing, waiting, clean, crashes>>

\* The handlers that have read or written a secret in order to change it.
Writers(id) == {w \in Workers : held[w] # Nil /\ held[w].id = id}

\* getByAlias of a handler that is going to write.
Hold(w, id) ==
  /\ held' = [held EXCEPT ![w] = [id |-> id, alias |-> rows[id].alias]]
  /\ tainted' = IF Writers(id) = {} THEN tainted ELSE tainted \cup {id}

CreateLookup(w) ==
  /\ Serves(w, "create", "lookup")
  /\ IF ByAlias(job[w].alias) # {}
       THEN Finish(w, "failed")
       ELSE Goto(w, "save") /\ UNCHANGED <<job, held>>
  /\ UNCHANGED <<stores, tainted, Unmoved>>

\* Mutant of CreateSave: the plaintext is stored before the row.
CreateSaveLast(w) ==
  /\ Serves(w, "create", "save")
  /\ \E id \in {i \in SecretIds : rows[i] = NoRow /\ i \notin custody} :
       /\ custody' = custody \cup {id}
       /\ IF Taken(job[w].alias, id)
            THEN Finish(w, "failed") /\ UNCHANGED rows
            ELSE /\ rows' = [rows EXCEPT
                      ![id] = [status |-> "ACTIVE", alias |-> job[w].alias]]
                 /\ held' = [held EXCEPT
                      ![w] = [id |-> id, alias |-> job[w].alias]]
                 /\ Goto(w, "store")
                 /\ UNCHANGED job
  /\ UNCHANGED <<tainted, Unmoved>>

\* The row of a new secret.  UNIQUE(alias) makes it throw for an alias any
\* other row has, a removed one too.
CreateSave(w) ==
  /\ Serves(w, "create", "save")
  /\ \E id \in {i \in SecretIds : rows[i] = NoRow} :
       IF Taken(job[w].alias, id)
         THEN Finish(w, "failed") /\ UNCHANGED rows
         ELSE /\ rows' = [rows EXCEPT
                   ![id] = [status |-> "ACTIVE", alias |-> job[w].alias]]
              /\ held' = [held EXCEPT
                   ![w] = [id |-> id, alias |-> job[w].alias]]
              /\ Goto(w, "store")
              /\ UNCHANGED job
  /\ UNCHANGED <<custody, tainted, Unmoved>>

CreateStore(w) ==
  /\ Serves(w, "create", "store")
  /\ custody' = custody \cup {held[w].id}
  /\ Finish(w, "ok")
  /\ UNCHANGED <<rows, tainted, Unmoved>>

\* Where an update goes once its names are checked.
Write(command) == IF command.rotates THEN "rotate" ELSE "save"

\* Mutant of UpdateLookup: the row that was found is not kept.
UpdateLookupOnly(w) ==
  /\ Serves(w, "update", "lookup")
  /\ IF ByAlias(job[w].alias) = {}
       THEN Finish(w, "failed")
       ELSE /\ Goto(w, IF Renames(job[w]) THEN "dup" ELSE Write(job[w]))
            /\ UNCHANGED <<job, held>>
  /\ UNCHANGED <<stores, tainted, Unmoved>>

UpdateLookup(w) ==
  /\ Serves(w, "update", "lookup")
  /\ IF ByAlias(job[w].alias) = {}
       THEN Finish(w, "failed") /\ UNCHANGED tainted
       ELSE /\ \E id \in ByAlias(job[w].alias) : Hold(w, id)
            /\ Goto(w, IF Renames(job[w]) THEN "dup" ELSE Write(job[w]))
            /\ UNCHANGED job
  /\ UNCHANGED <<stores, Unmoved>>

UpdateDuplicate(w) ==
  /\ Serves(w, "update", "dup")
  /\ IF ByAlias(job[w].new) # {}
       THEN Finish(w, "failed")
       ELSE Goto(w, Write(job[w])) /\ UNCHANGED <<job, held>>
  /\ UNCHANGED <<stores, tainted, Unmoved>>

\* The new plaintext is stored before the row.
UpdateRotate(w) ==
  /\ Serves(w, "update", "rotate")
  /\ custody' = custody \cup {held[w].id}
  /\ Goto(w, "save")
  /\ UNCHANGED <<rows, job, held, tainted, Unmoved>>

\* The row as it was read, with the new alias: ACTIVE whatever it is now.
UpdateSave(w) ==
  /\ Serves(w, "update", "save")
  /\ IF Taken(job[w].new, held[w].id)
       THEN Finish(w, "failed") /\ UNCHANGED rows
       ELSE /\ rows' = [rows EXCEPT
                 ![held[w].id] = [status |-> "ACTIVE", alias |-> job[w].new]]
            /\ Finish(w, "ok")
  /\ UNCHANGED <<custody, tainted, Unmoved>>

RemoveLookup(w) ==
  /\ Serves(w, "remove", "lookup")
  /\ IF ByAlias(job[w].alias) = {}
       THEN Finish(w, "failed") /\ UNCHANGED tainted
       ELSE /\ \E id \in ByAlias(job[w].alias) : Hold(w, id)
            /\ Goto(w, "save")
            /\ UNCHANGED job
  /\ UNCHANGED <<stores, Unmoved>>

\* Mutant of RemoveSave: the row is saved as it was read.
RemoveSaveUnchanged(w) ==
  /\ Serves(w, "remove", "save")
  /\ Goto(w, "destroy")
  /\ UNCHANGED <<stores, job, held, tainted, Unmoved>>

\* The row as it was read, alias included, with the status REMOVED.
RemoveSave(w) ==
  /\ Serves(w, "remove", "save")
  /\ IF Taken(held[w].alias, held[w].id)
       THEN Finish(w, "failed") /\ UNCHANGED rows
       ELSE /\ rows' = [rows EXCEPT ![held[w].id] =
                 [status |-> "REMOVED", alias |-> held[w].alias]]
            /\ Goto(w, "destroy")
            /\ UNCHANGED <<job, held>>
  /\ UNCHANGED <<custody, tainted, Unmoved>>

\* Mutant of RemoveDestroy: the plaintext stays in custody.
RemoveKeepsPlaintext(w) ==
  /\ Serves(w, "remove", "destroy")
  /\ Finish(w, "ok")
  /\ UNCHANGED <<stores, tainted, Unmoved>>

RemoveDestroy(w) ==
  /\ Serves(w, "remove", "destroy")
  /\ custody' = custody \ {held[w].id}
  /\ Finish(w, "ok")
  /\ UNCHANGED <<rows, tainted, Unmoved>>

ExportList(w) ==
  /\ Serves(w, "export", "lookup")
  /\ \/ /\ job[w].alias = Nil
        /\ todo' = [todo EXCEPT ![w] = Active]
        /\ Goto(w, "load")
        /\ UNCHANGED <<job, held>>
     \/ /\ job[w].alias # Nil
        /\ ByAlias(job[w].alias) # {}
        /\ todo' = [todo EXCEPT ![w] = ByAlias(job[w].alias)]
        /\ Goto(w, "load")
        /\ UNCHANGED <<job, held>>
     \/ /\ job[w].alias # Nil
        /\ ByAlias(job[w].alias) = {}
        /\ Finish(w, "failed")
        /\ UNCHANGED todo
  /\ UNCHANGED <<stores, missing, waiting, history>>

\* custody.load of every listed secret: the loads start together.  The
\* export answers "MISSING" where there is no plaintext.
ExportLoad(w) ==
  /\ Serves(w, "export", "load")
  /\ todo' = [todo EXCEPT ![w] = {}]
  /\ missing' = IF todo[w] \subseteq custody THEN missing ELSE missing \cup {w}
  /\ Finish(w, "ok")
  /\ UNCHANGED <<stores, waiting, history>>

\* The process dies with everything it was doing.
Crash ==
  /\ crashes < MaxCrashes
  /\ crashes' = crashes + 1
  /\ tainted' = tainted \cup {i \in SecretIds : Writers(i) # {}}
  /\ wpc' = [w \in Workers |-> "idle"]
  /\ job' = [w \in Workers |-> Nil]
  /\ held' = [w \in Workers |-> Nil]
  /\ todo' = [w \in Workers |-> {}]
  /\ missing' = {}
  /\ waiting' = [p \in Clients |-> {}]
  /\ clean' = [p \in Clients |-> FALSE]
  /\ UNCHANGED stores

Call(p) ==
  BeginCreate(p) \/ BeginUpdate(p) \/ BeginRemove(p) \/ BeginExport(p)

Handle(w) ==
  \/ CreateLookup(w) \/ CreateSave(w)      \/ CreateStore(w)
  \/ UpdateLookup(w) \/ UpdateDuplicate(w) \/ UpdateRotate(w) \/ UpdateSave(w)
  \/ RemoveLookup(w) \/ RemoveSave(w)      \/ RemoveDestroy(w)
  \/ ExportList(w)   \/ ExportLoad(w)

Next ==
  \/ \E p \in Clients : Call(p) \/ Return(p)
  \/ \E w \in Workers : Handle(w)
  \/ Crash

Spec == Init /\ [][Next]_vars
-----------------------------------------------------------------------------
HoldingPCs == {"dup", "rotate", "store", "destroy"}

StoresOK ==
  /\ rows \in [SecretIds -> [status: Statuses, alias: Aliases \cup {Nil}]]
  /\ custody \subseteq SecretIds

\* A handler that writes to a secret knows which.
WritesHeld(pc, command) ==
  pc \in HoldingPCs \/ (pc = "save" /\ command.op # "create")

WorkersOK ==
  /\ wpc \in [Workers -> WorkerPCs]
  /\ job \in [Workers -> Commands \cup {Nil}]
  /\ held \in [Workers -> Held \cup {Nil}]
  /\ todo \in [Workers -> SUBSET SecretIds]
  /\ missing \subseteq Workers
  /\ \A w \in Workers :
       /\ wpc[w] # "idle" => job[w] \in Commands
       /\ WritesHeld(wpc[w], job[w]) => held[w] \in Held

ClientsOK ==
  /\ waiting \in [Clients -> SUBSET Workers]
  /\ clean \in [Clients -> BOOLEAN]
  /\ tainted \subseteq SecretIds
  /\ crashes \in Nat

\* Every variable has its type, and a handler that writes to a secret has
\* the row getByAlias returned or the one it has just saved.
TypeOK == StoresOK /\ WorkersOK /\ ClientsOK

(***************************************************************************)
(* A secret no handler is writing, whose handlers never overlapped and     *)
(* were never cut short by a death of the process, is whole: its plaintext *)
(* is in custody if and only if it is active -- also after an update that  *)
(* threw half way, a create that lost its alias, or a batch that returned  *)
(* before its handlers.                                                    *)
(***************************************************************************)
SettledSecretIsWhole ==
  \A id \in SecretIds \ tainted :
    Writers(id) = {} => (rows[id].status = "ACTIVE" <=> id \in custody)

(***************************************************************************)
(* No plaintext is stored for an id without a row, whatever overlaps and   *)
(* whenever the process dies: a secret nobody can name is never kept.      *)
(***************************************************************************)
PlaintextHasRow == \A id \in custody : rows[id].status # "none"

(***************************************************************************)
(* A removed secret stays removed, unless handlers of it have overlapped   *)
(* (ownerUpdateSecret saves what it read as ACTIVE).                       *)
(***************************************************************************)
RemovalIsFinal ==
  [][\A id \in SecretIds \ tainted :
       rows[id].status = "REMOVED" => rows'[id].status = "REMOVED"]_rows

\* The names a command is about.
Names(command) == {command.alias, command.new} \ {Nil}

RemovedAliases == {rows[i].alias : i \in {j \in SecretIds :
                                            rows[j].status = "REMOVED"}}

(***************************************************************************)
(* A batch that has the vault to itself and passed phase 1 is written in   *)
(* full, unless two of its items share a name or one takes the name of a   *)
(* removed secret.                                                         *)
(***************************************************************************)
CheckedBatchIsWritten ==
  \A p \in Clients : \A w \in waiting[p] :
    /\ clean[p]
    /\ wpc[w] = "failed"
    /\ job[w].op \in {"create", "update"}
    => \/ \E u, v \in waiting[p] :
            u # v /\ Names(job[u]) \cap Names(job[v]) # {}
       \/ Names(job[w]) \cap RemovedAliases # {}

(***************************************************************************)
(* An export that has the vault to itself finds every plaintext, unless a  *)
(* death, or handlers that overlapped, have spoiled a secret before.       *)
(***************************************************************************)
ExportIsComplete ==
  \A p \in Clients : \A w \in waiting[p] :
    clean[p] /\ w \in missing => tainted # {}
-----------------------------------------------------------------------------
(* What the documentation says and the code does not do.                   *)

\* "If any check fails, nothing is written": a batch does not fail with one
\* item and write another.
BatchIsAtomic ==
  \A p \in Clients : \A u, v \in waiting[p] :
    ~ (wpc[u] = "failed" /\ wpc[v] = "ok")
=============================================================================
