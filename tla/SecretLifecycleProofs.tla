------------------------ MODULE SecretLifecycleProofs ------------------------
(***************************************************************************)
(* Proofs about SecretLifecycle: types, no plaintext without a row, the    *)
(* wholeness of every secret whose handlers neither overlapped nor were    *)
(* cut short, and what a call can rely on that has the vault to itself.    *)
(***************************************************************************)
EXTENDS SecretLifecycle, TLAPS

-----------------------------------------------------------------------------
(* The inductive strengthening of the safety properties of the module.     *)

\* A handler holds a secret only where its command writes one.
WriterOK ==
  \A w \in Workers : held[w] # Nil =>
    /\ rows[held[w].id].status # "none"
    /\ \/ wpc[w] = "store" /\ job[w].op = "create"
       \/ wpc[w] \in {"dup", "rotate", "save"} /\ job[w].op = "update"
       \/ wpc[w] \in {"save", "destroy"} /\ job[w].op = "remove"

Whole(id) == rows[id].status = "ACTIVE" <=> id \in custody

\* What the only writer of a secret has made of it so far.
InStep(w, id) ==
  /\ wpc[w] = "store" => rows[id].status = "ACTIVE" /\ id \notin custody
  /\ wpc[w] \in {"dup", "rotate", "save"}
       => rows[id].status = "ACTIVE" /\ id \in custody
  /\ wpc[w] = "destroy" => rows[id].status = "REMOVED" /\ id \in custody

SecretOK(id) ==
  /\ \A v, w \in Writers(id) : v = w
  /\ \A w \in Writers(id) : InStep(w, id)
  /\ Writers(id) = {} => Whole(id)

Safe ==
  /\ PlaintextHasRow
  /\ WriterOK
  /\ \A id \in SecretIds \ tainted : SecretOK(id)

LifecycleInv == TypeOK /\ Safe

-----------------------------------------------------------------------------

\* A step of handler w leaves it at q with command j and secret h.
Moved(w, q, j, h) ==
  /\ wpc' = [wpc EXCEPT ![w] = q]
  /\ job' = [job EXCEPT ![w] = j]
  /\ held' = [held EXCEPT ![w] = h]

\* A handler that returns or throws keeps nothing.
LEMMA FinishMoves ==
  ASSUME WorkersOK, NEW w \in Workers, NEW result, Finish(w, result)
  PROVE  \/ Moved(w, result, job[w], Nil)
         \/ Moved(w, "idle", Nil, Nil)
  <1>1. job' = [job EXCEPT ![w] = job[w]] \/ job' = [job EXCEPT ![w] = Nil]
    BY DEF Finish, WorkersOK
  <1>. QED  BY <1>1 DEF Finish, Moved, WorkersOK

\* A handler that goes on keeps its command and its secret.
LEMMA GotoMoves ==
  ASSUME WorkersOK, NEW w \in Workers, NEW next, Goto(w, next),
         UNCHANGED <<job, held>>
  PROVE  Moved(w, next, job[w], held[w])
  BY DEF Goto, Moved, WorkersOK

\* What a step of a handler may leave in its variables.
LEMMA MovedTypes ==
  ASSUME WorkersOK, NEW w \in Workers, NEW q \in WorkerPCs,
         NEW j \in Commands \cup {Nil}, NEW h \in Held \cup {Nil},
         Moved(w, q, j, h), q # "idle" => j \in Commands,
         WritesHeld(q, j) => h \in Held,
         todo' \in [Workers -> SUBSET SecretIds], missing' \subseteq Workers
  PROVE  WorkersOK'
  <1>1. /\ wpc' \in [Workers -> WorkerPCs]
        /\ job' \in [Workers -> Commands \cup {Nil}]
        /\ held' \in [Workers -> Held \cup {Nil}]
    BY DEF Moved, WorkersOK
  <1>2. ASSUME NEW v \in Workers
        PROVE  /\ wpc'[v] # "idle" => job'[v] \in Commands
               /\ WritesHeld(wpc'[v], job'[v]) => held'[v] \in Held
    <2>1. CASE v = w  BY <2>1 DEF Moved, WorkersOK
    <2>2. CASE v # w  BY <2>2 DEF Moved, WorkersOK
    <2>. QED  BY <2>1, <2>2
  <1>. QED  BY <1>1, <1>2 DEF WorkersOK, WritesHeld

\* A handler that is done is well typed.
LEMMA FinishTypes ==
  ASSUME WorkersOK, NEW w \in Workers, NEW result \in {"ok", "failed"},
         wpc[w] # "idle", Finish(w, result),
         todo' \in [Workers -> SUBSET SecretIds], missing' \subseteq Workers
  PROVE  WorkersOK'
  <1>1. job[w] \in Commands  BY DEF WorkersOK
  <1>2. CASE Moved(w, result, job[w], Nil)
    BY <1>1, <1>2, MovedTypes DEF WorkerPCs, WritesHeld, HoldingPCs
  <1>3. CASE Moved(w, "idle", Nil, Nil)
    BY <1>3, MovedTypes DEF WorkerPCs, WritesHeld, HoldingPCs
  <1>. QED  BY <1>2, <1>3, FinishMoves

\* The commands of each kind name what their handlers use.
LEMMA CommandTypes ==
  ASSUME NEW j \in Commands
  PROVE  /\ j.op \in {"create", "update", "remove"} => j.alias \in Aliases
         /\ j.op = "update" => j.new \in Aliases
  BY DEF Commands, CreateCommands, UpdateCommands, RemoveCommands,
     ExportCommands

\* A handler that goes on to a position where it writes nothing, or with
\* the secret it holds, is well typed.
LEMMA GotoTypes ==
  ASSUME WorkersOK, NEW w \in Workers, NEW next \in WorkerPCs \ {"idle"},
         wpc[w] # "idle", Goto(w, next), UNCHANGED <<job, held, todo, missing>>,
         WritesHeld(next, job[w]) => held[w] \in Held
  PROVE  WorkersOK'
  <1>1. job[w] \in Commands /\ held[w] \in Held \cup {Nil}
    BY DEF WorkersOK
  <1>2. Moved(w, next, job[w], held[w])  BY GotoMoves
  <1>. QED  BY <1>1, <1>2, MovedTypes DEF WorkersOK

\* A handler that found its secret holds it.
LEMMA HoldTypes ==
  ASSUME TypeOK, NEW w \in Workers, NEW next \in WorkerPCs \ {"idle"},
         wpc[w] # "idle", NEW a \in Aliases, NEW id \in ByAlias(a),
         Hold(w, id), Goto(w, next), UNCHANGED <<job, todo, missing>>
  PROVE  WorkersOK' /\ tainted' \subseteq SecretIds
  <1> DEFINE h == [id |-> id, alias |-> rows[id].alias]
  <1>1. id \in SecretIds /\ rows[id].alias = a  BY DEF ByAlias, Active
  <1>2. h \in Held  BY <1>1 DEF Held
  <1>3. job[w] \in Commands  BY DEF TypeOK, WorkersOK
  <1>4. Moved(w, next, job[w], h)
    BY DEF Goto, Hold, Moved, TypeOK, WorkersOK
  <1>5. WorkersOK'
    BY <1>2, <1>3, <1>4, MovedTypes DEF TypeOK, WorkersOK
  <1>. QED  BY <1>1, <1>5 DEF Hold, TypeOK, ClientsOK

\* A handler of the core keeps the types.
LEMMA HandleTypes ==
  ASSUME TypeOK, NEW w \in Workers, Handle(w)
  PROVE  TypeOK'
  <1> USE DEF Unmoved, stores, history
  <1>0. /\ wpc[w] # "idle" => job[w] \in Commands
        /\ todo \in [Workers -> SUBSET SecretIds] /\ missing \subseteq Workers
    BY DEF TypeOK, WorkersOK
  <1>1. CASE CreateLookup(w)
    <2>1. wpc[w] = "lookup" /\ job[w].op = "create"
      BY <1>1 DEF CreateLookup, Serves
    <2>2. WorkersOK'
      BY <1>0, <1>1, <2>1, FinishTypes, GotoTypes
         DEF CreateLookup, TypeOK, WorkerPCs, WritesHeld, HoldingPCs
    <2>. QED  BY <1>1, <2>2 DEF CreateLookup, TypeOK, StoresOK, ClientsOK
  <1>2. CASE CreateSave(w)
    <2>1. wpc[w] = "save" /\ job[w].op = "create" /\ job[w].alias \in Aliases
      BY <1>0, <1>2, CommandTypes DEF CreateSave, Serves
    <2>2. PICK id \in SecretIds :
            IF Taken(job[w].alias, id)
              THEN Finish(w, "failed") /\ UNCHANGED rows
              ELSE /\ rows' = [rows EXCEPT ![id] =
                         [status |-> "ACTIVE", alias |-> job[w].alias]]
                   /\ held' = [held EXCEPT
                        ![w] = [id |-> id, alias |-> job[w].alias]]
                   /\ Goto(w, "store")
                   /\ UNCHANGED job
      BY <1>2 DEF CreateSave
    <2>3. UNCHANGED <<custody, tainted, Unmoved>>  BY <1>2 DEF CreateSave
    <2>4. CASE Taken(job[w].alias, id)
      <3>1. WorkersOK'
        BY <1>0, <2>1, <2>2, <2>3, <2>4, FinishTypes DEF TypeOK
      <3>. QED  BY <2>2, <2>3, <2>4, <3>1 DEF TypeOK, StoresOK, ClientsOK
    <2>5. CASE ~ Taken(job[w].alias, id)
      <3> DEFINE h == [id |-> id, alias |-> job[w].alias]
      <3>1. h \in Held  BY <2>1 DEF Held
      <3>2. job[w] \in Commands  BY <1>0, <2>1
      <3>3. Moved(w, "store", job[w], h)
        BY <2>2, <2>5 DEF Goto, Moved, TypeOK, WorkersOK
      <3>4. WorkersOK'
        BY <1>0, <2>3, <3>1, <3>2, <3>3, MovedTypes DEF TypeOK, WorkerPCs
      <3>5. StoresOK'
        BY <2>1, <2>2, <2>3, <2>5 DEF TypeOK, StoresOK, Statuses
      <3>. QED  BY <2>3, <3>4, <3>5 DEF TypeOK, ClientsOK
    <2>. QED  BY <2>4, <2>5
  <1>3. CASE CreateStore(w)
    <2>1. wpc[w] = "store"  BY <1>3 DEF CreateStore, Serves
    <2>2. held[w].id \in SecretIds
      BY <2>1 DEF TypeOK, WorkersOK, WritesHeld, HoldingPCs, Held
    <2>3. WorkersOK'
      BY <1>0, <1>3, <2>1, FinishTypes DEF CreateStore, TypeOK
    <2>. QED  BY <1>3, <2>2, <2>3 DEF CreateStore, TypeOK, StoresOK, ClientsOK
  <1>4. CASE UpdateLookup(w)
    <2>1. wpc[w] = "lookup" /\ job[w].alias \in Aliases
      BY <1>0, <1>4, CommandTypes DEF UpdateLookup, Serves
    <2>2. UNCHANGED <<rows, custody, Unmoved>>  BY <1>4 DEF UpdateLookup
    <2>3. CASE ByAlias(job[w].alias) = {}
      <3>1. WorkersOK' /\ UNCHANGED tainted
        BY <1>0, <1>4, <2>1, <2>2, <2>3, FinishTypes DEF UpdateLookup, TypeOK
      <3>. QED  BY <2>2, <3>1 DEF TypeOK, StoresOK, ClientsOK
    <2>4. CASE ByAlias(job[w].alias) # {}
      <3>1. PICK id \in ByAlias(job[w].alias) : Hold(w, id)
        BY <1>4, <2>4 DEF UpdateLookup
      <3>2. PICK next \in {"dup", "rotate", "save"} : Goto(w, next)
        BY <1>4, <2>4 DEF UpdateLookup, Write
      <3>3. UNCHANGED job  BY <1>4, <2>4 DEF UpdateLookup
      <3>4. WorkersOK' /\ tainted' \subseteq SecretIds
        BY <2>1, <2>2, <3>1, <3>2, <3>3, HoldTypes DEF WorkerPCs
      <3>. QED  BY <2>2, <3>4 DEF TypeOK, StoresOK, ClientsOK
    <2>. QED  BY <2>3, <2>4
  <1>5. CASE UpdateDuplicate(w)
    <2>1. wpc[w] = "dup" /\ held[w] \in Held
      BY <1>5 DEF UpdateDuplicate, Serves, TypeOK, WorkersOK, WritesHeld,
         HoldingPCs
    <2>2. CASE ByAlias(job[w].new) # {}
      BY <1>0, <1>5, <2>1, <2>2, FinishTypes
         DEF UpdateDuplicate, TypeOK, StoresOK, ClientsOK
    <2>3. CASE ByAlias(job[w].new) = {}
      <3>1. PICK next \in {"rotate", "save"} : Goto(w, next)
        BY <1>5, <2>3 DEF UpdateDuplicate, Write
      <3>2. WorkersOK'
        BY <1>5, <2>1, <2>3, <3>1, GotoTypes
           DEF UpdateDuplicate, TypeOK, WorkerPCs
      <3>. QED  BY <1>5, <2>3, <3>2
                DEF UpdateDuplicate, TypeOK, StoresOK, ClientsOK
    <2>. QED  BY <2>2, <2>3
  <1>6. CASE UpdateRotate(w)
    <2>1. wpc[w] = "rotate" /\ held[w] \in Held
      BY <1>6 DEF UpdateRotate, Serves, TypeOK, WorkersOK, WritesHeld,
         HoldingPCs
    <2>2. WorkersOK'
      BY <1>6, <2>1, GotoTypes DEF UpdateRotate, TypeOK, WorkerPCs
    <2>. QED  BY <1>6, <2>1, <2>2
              DEF UpdateRotate, Held, TypeOK, StoresOK, ClientsOK
  <1>7. CASE UpdateSave(w)
    <2>1. wpc[w] = "save" /\ held[w].id \in SecretIds /\ job[w].new \in Aliases
      BY <1>0, <1>7, CommandTypes
         DEF UpdateSave, Serves, TypeOK, WorkersOK, WritesHeld, Held
    <2>2. WorkersOK'
      BY <1>0, <1>7, <2>1, FinishTypes DEF UpdateSave, TypeOK
    <2>. QED  BY <1>7, <2>1, <2>2
              DEF UpdateSave, TypeOK, StoresOK, ClientsOK, Statuses
  <1>8. CASE RemoveLookup(w)
    <2>1. wpc[w] = "lookup" /\ job[w].alias \in Aliases
      BY <1>0, <1>8, CommandTypes DEF RemoveLookup, Serves
    <2>2. UNCHANGED <<rows, custody, Unmoved>>  BY <1>8 DEF RemoveLookup
    <2>3. CASE ByAlias(job[w].alias) = {}
      <3>1. WorkersOK' /\ UNCHANGED tainted
        BY <1>0, <1>8, <2>1, <2>2, <2>3, FinishTypes DEF RemoveLookup, TypeOK
      <3>. QED  BY <2>2, <3>1 DEF TypeOK, StoresOK, ClientsOK
    <2>4. CASE ByAlias(job[w].alias) # {}
      <3>1. PICK id \in ByAlias(job[w].alias) : Hold(w, id)
        BY <1>8, <2>4 DEF RemoveLookup
      <3>2. WorkersOK' /\ tainted' \subseteq SecretIds
        BY <1>8, <2>1, <2>2, <2>4, <3>1, HoldTypes DEF RemoveLookup, WorkerPCs
      <3>. QED  BY <2>2, <3>2 DEF TypeOK, StoresOK, ClientsOK
    <2>. QED  BY <2>3, <2>4
  <1>9. CASE RemoveSave(w)
    <2>1. wpc[w] = "save" /\ held[w] \in Held
      BY <1>9 DEF RemoveSave, Serves, TypeOK, WorkersOK, WritesHeld
    <2>2. WorkersOK'
      BY <1>0, <1>9, <2>1, FinishTypes, GotoTypes
         DEF RemoveSave, TypeOK, WorkerPCs
    <2>. QED  BY <1>9, <2>1, <2>2
              DEF RemoveSave, Held, TypeOK, StoresOK, ClientsOK, Statuses
  <1>10. CASE RemoveDestroy(w)
    <2>1. wpc[w] = "destroy"  BY <1>10 DEF RemoveDestroy, Serves
    <2>2. WorkersOK'
      BY <1>0, <1>10, <2>1, FinishTypes DEF RemoveDestroy, TypeOK
    <2>. QED  BY <1>10, <2>2 DEF RemoveDestroy, TypeOK, StoresOK, ClientsOK
  <1>11. CASE ExportList(w)
    <2>1. wpc[w] = "lookup" /\ job[w] \in Commands
      BY <1>0, <1>11 DEF ExportList, Serves
    <2>2. todo' \in [Workers -> SUBSET SecretIds] /\ UNCHANGED missing
      BY <1>0, <1>11 DEF ExportList, ByAlias, Active
    <2>3. held[w] \in Held \cup {Nil}  BY DEF TypeOK, WorkersOK
    <2>4. CASE Goto(w, "load") /\ UNCHANGED <<job, held>>
      <3>1. Moved(w, "load", job[w], held[w])
        BY <2>4, GotoMoves DEF TypeOK
      <3>2. WorkersOK'
        BY <1>0, <2>1, <2>2, <2>3, <3>1, MovedTypes
           DEF TypeOK, WorkerPCs, WritesHeld, HoldingPCs
      <3>. QED  BY <1>11, <3>2 DEF ExportList, TypeOK, StoresOK, ClientsOK
    <2>5. CASE Finish(w, "failed")
      <3>1. WorkersOK'
        BY <1>0, <2>1, <2>2, <2>5, FinishTypes DEF TypeOK
      <3>. QED  BY <1>11, <3>1 DEF ExportList, TypeOK, StoresOK, ClientsOK
    <2>. QED  BY <1>11, <2>4, <2>5 DEF ExportList
  <1>12. CASE ExportLoad(w)
    <2>1. wpc[w] = "load"  BY <1>12 DEF ExportLoad, Serves
    <2>2. todo' \in [Workers -> SUBSET SecretIds] /\ missing' \subseteq Workers
      BY <1>0, <1>12 DEF ExportLoad
    <2>3. WorkersOK'
      BY <1>0, <1>12, <2>1, <2>2, FinishTypes DEF ExportLoad, TypeOK
    <2>. QED  BY <1>12, <2>3 DEF ExportLoad, TypeOK, StoresOK, ClientsOK
  <1>. QED  BY <1>1, <1>2, <1>3, <1>4, <1>5, <1>6, <1>7, <1>8, <1>9, <1>10,
               <1>11, <1>12 DEF Handle

\* A call that starts a handler per command keeps the types.
LEMMA StartTypes ==
  ASSUME TypeOK, NEW p \in Clients, NEW W \in SUBSET Free,
         NEW batch \in [W -> Commands], Start(p, batch)
  PROVE  TypeOK'
  <1>1. DOMAIN batch = W /\ W \subseteq Workers  BY DEF Free
  <1>2. WorkersOK'
    <2>1. /\ wpc' \in [Workers -> WorkerPCs]
          /\ job' \in [Workers -> Commands \cup {Nil}]
      BY <1>1 DEF Start, TypeOK, WorkersOK, WorkerPCs
    <2>2. ASSUME NEW w \in Workers
          PROVE  /\ wpc'[w] # "idle" => job'[w] \in Commands
                 /\ WritesHeld(wpc'[w], job'[w]) => held'[w] \in Held
      <3>1. CASE w \in W
        BY <1>1, <3>1 DEF Start, WritesHeld, HoldingPCs
      <3>2. CASE w \notin W
        BY <1>1, <3>2 DEF Start, TypeOK, WorkersOK
      <3>. QED  BY <3>1, <3>2
    <2>. QED  BY <2>1, <2>2 DEF Start, TypeOK, WorkersOK, WritesHeld
  <1>3. ClientsOK'
    BY <1>1 DEF Start, TypeOK, ClientsOK
  <1>. QED  BY <1>2, <1>3 DEF Start, stores, TypeOK, StoresOK

\* Each call starts its handlers on free workers, with commands.
LEMMA CallStarts ==
  ASSUME NEW p \in Clients, Call(p)
  PROVE  \E W \in SUBSET Free : \E batch \in [W -> Commands] : Start(p, batch)
  <1> USE DEF Batches, Commands
  <1>1. CASE BeginCreate(p)  BY <1>1 DEF BeginCreate
  <1>2. CASE BeginUpdate(p)  BY <1>2 DEF BeginUpdate
  <1>3. CASE BeginRemove(p)
    <2>1. PICK w \in Free, command \in RemoveCommands :
            Start(p, [v \in {w} |-> command])
      BY <1>3 DEF BeginRemove, BeginOne
    <2>2. [v \in {w} |-> command] \in [{w} -> Commands]  OBVIOUS
    <2>. QED  BY <2>1, <2>2
  <1>4. CASE BeginExport(p)
    <2>1. PICK w \in Free, command \in ExportCommands :
            Start(p, [v \in {w} |-> command])
      BY <1>4 DEF BeginExport, BeginOne
    <2>2. [v \in {w} |-> command] \in [{w} -> Commands]  OBVIOUS
    <2>. QED  BY <2>1, <2>2
  <1>. QED  BY <1>1, <1>2, <1>3, <1>4 DEF Call

\* The return of a call keeps the types.
LEMMA ReturnTypes ==
  ASSUME TypeOK, NEW p \in Clients, Return(p)
  PROVE  TypeOK'
  <1>1. /\ wpc' \in [Workers -> WorkerPCs]
        /\ job' \in [Workers -> Commands \cup {Nil}]
    BY DEF Return, TypeOK, WorkersOK, WorkerPCs
  <1>2. ASSUME NEW w \in Workers
        PROVE  /\ wpc'[w] # "idle" => job'[w] \in Commands
               /\ WritesHeld(wpc'[w], job'[w]) => held'[w] \in Held
    <2>1. CASE w \in waiting[p] \cap Finished
      BY <2>1 DEF Return, WritesHeld, HoldingPCs
    <2>2. CASE w \notin waiting[p] \cap Finished
      BY <2>2 DEF Return, TypeOK, WorkersOK
    <2>. QED  BY <2>1, <2>2
  <1>3. WorkersOK'
    BY <1>1, <1>2 DEF Return, TypeOK, WorkersOK, WritesHeld
  <1>. QED  BY <1>3 DEF Return, stores, TypeOK, StoresOK, ClientsOK

\* A death of the process keeps the types.
LEMMA CrashTypes ==
  ASSUME TypeOK, Crash
  PROVE  TypeOK'
  <1>1. WorkersOK'
    BY DEF Crash, WorkersOK, WorkerPCs, WritesHeld, HoldingPCs
  <1>2. ClientsOK'
    BY DEF Crash, TypeOK, ClientsOK
  <1>. QED  BY <1>1, <1>2 DEF Crash, stores, TypeOK, StoresOK

\* Initially every variable has its type.
LEMMA InitTypes == Init => TypeOK
  BY DEF Init, TypeOK, StoresOK, WorkersOK, ClientsOK, NoRow, Statuses,
     WorkerPCs, WritesHeld, HoldingPCs

\* Every step keeps the types.
LEMMA NextTypes == TypeOK /\ [Next]_vars => TypeOK'
  <1> SUFFICES ASSUME TypeOK, [Next]_vars  PROVE TypeOK'
    OBVIOUS
  <1>1. ASSUME NEW p \in Clients, Call(p)  PROVE TypeOK'
    BY <1>1, CallStarts, StartTypes
  <1>2. ASSUME NEW p \in Clients, Return(p)  PROVE TypeOK'
    BY <1>2, ReturnTypes
  <1>3. ASSUME NEW w \in Workers, Handle(w)  PROVE TypeOK'
    BY <1>3, HandleTypes
  <1>4. CASE Crash
    BY <1>4, CrashTypes
  <1>5. CASE UNCHANGED vars
    BY <1>5 DEF vars, stores, working, history, TypeOK, StoresOK, WorkersOK,
       ClientsOK
  <1>. QED  BY <1>1, <1>2, <1>3, <1>4, <1>5 DEF Next

(***************************************************************************)
(* Every variable keeps its type, and a handler that writes to a secret    *)
(* always has the row it read, for any number of clients and handlers.     *)
(***************************************************************************)
THEOREM LifecycleTypes == Spec => []TypeOK
  BY InitTypes, NextTypes, PTL DEF Spec

-----------------------------------------------------------------------------
\* A handler that holds no secret is the writer of none; one that holds a
\* secret is among its writers.
LEMMA WritersHold ==
  ASSUME TypeOK, NEW w \in Workers, held[w] # Nil
  PROVE  held[w] \in Held /\ held[w].id \in SecretIds /\ w \in Writers(held[w].id)
  BY DEF TypeOK, WorkersOK, Held, Writers

\* A step that moves no handler holding a secret keeps Safe.
LEMMA FrameSafe ==
  ASSUME TypeOK, Safe, UNCHANGED <<stores, held, tainted>>,
         \A v \in Workers : held[v] # Nil => wpc'[v] = wpc[v] /\ job'[v] = job[v]
  PROVE  Safe'
  <1> USE DEF stores
  <1>1. PlaintextHasRow'  BY DEF Safe, PlaintextHasRow
  <1>2. WriterOK'  BY DEF Safe, WriterOK
  <1>3. ASSUME NEW id \in SecretIds \ tainted'  PROVE SecretOK(id)'
    <2>1. SecretOK(id)  BY <1>3 DEF Safe
    <2>2. Writers(id)' = Writers(id)  BY DEF Writers
    <2>3. ASSUME NEW w \in Writers(id)  PROVE InStep(w, id)'
      <3>1. wpc'[w] = wpc[w]  BY <2>3 DEF Writers
      <3>. QED  BY <2>1, <2>3, <3>1 DEF SecretOK, InStep
    <2>. QED  BY <2>1, <2>2, <2>3 DEF SecretOK, Whole
  <1>. QED  BY <1>1, <1>2, <1>3 DEF Safe

\* Where a handler that holds a secret may be.
Writing(q, op) ==
  \/ q = "store" /\ op = "create"
  \/ q \in {"dup", "rotate", "save"} /\ op = "update"
  \/ q \in {"save", "destroy"} /\ op = "remove"

\* A step of handler w that touches no secret but a keeps Safe, if a is
\* tainted or w was its only writer and leaves it in step, or whole.
LEMMA StepSafe ==
  ASSUME TypeOK, Safe, NEW w \in Workers, NEW q, NEW j,
         NEW h \in Held \cup {Nil}, NEW a \in SecretIds,
         Moved(w, q, j, h), StoresOK',
         held[w] # Nil => held[w].id = a,
         h # Nil => h.id = a /\ Writing(q, j.op) /\ rows'[a].status # "none",
         \A i \in SecretIds \ {a} :
           rows'[i] = rows[i] /\ (i \in custody' <=> i \in custody),
         rows[a].status # "none" => rows'[a].status # "none",
         a \in custody' => rows'[a].status # "none",
         tainted' \in {tainted, tainted \cup {a}},
         a \notin tainted' =>
           /\ Writers(a) \subseteq {w}
           /\ h = Nil => Whole(a)'
           /\ h # Nil => InStep(w, a)'
  PROVE  Safe'
  <1>1. PlaintextHasRow'
    BY DEF Safe, PlaintextHasRow, TypeOK, StoresOK
  <1>2. /\ wpc'[w] = q /\ job'[w] = j /\ held'[w] = h
        /\ \A v \in Workers \ {w} :
             wpc'[v] = wpc[v] /\ job'[v] = job[v] /\ held'[v] = held[v]
    BY DEF Moved, TypeOK, WorkersOK
  <1>3. WriterOK'
    <2> SUFFICES ASSUME NEW v \in Workers, held'[v] # Nil
                 PROVE  rows'[held'[v].id].status # "none"
                        /\ Writing(wpc'[v], job'[v].op)
      BY DEF WriterOK, Writing
    <2>1. CASE v = w  BY <1>2, <2>1
    <2>2. CASE v # w
      <3>1. held'[v] = held[v] /\ wpc'[v] = wpc[v] /\ job'[v] = job[v]
        BY <1>2, <2>2
      <3>2. held[v].id \in SecretIds  BY <3>1, WritersHold
      <3>3. rows[held[v].id].status # "none" /\ Writing(wpc[v], job[v].op)
        BY <3>1 DEF Safe, WriterOK, Writing
      <3>. QED  BY <3>1, <3>2, <3>3
    <2>. QED  BY <2>1, <2>2
  <1>4. ASSUME NEW id \in SecretIds \ tainted'  PROVE SecretOK(id)'
    <2>1. SecretOK(id)  BY <1>4 DEF Safe
    <2>2. CASE id = a
      <3>1. Writers(a)' = IF h = Nil THEN {} ELSE {w}
        BY <1>2, <1>4, <2>2 DEF Writers
      <3>. QED  BY <1>4, <2>2, <3>1 DEF SecretOK
    <2>3. CASE id # a
      <3>1. Writers(id)' = Writers(id) /\ w \notin Writers(id)
        BY <1>2, <2>3 DEF Writers
      <3>2. rows'[id] = rows[id] /\ (id \in custody' <=> id \in custody)
        BY <2>3
      <3>3. ASSUME NEW v \in Writers(id)  PROVE InStep(v, id)'
        <4>1. wpc'[v] = wpc[v]  BY <1>2, <3>1, <3>3 DEF Writers
        <4>. QED  BY <2>1, <3>2, <3>3, <4>1 DEF SecretOK, InStep
      <3>. QED  BY <2>1, <3>1, <3>2, <3>3 DEF SecretOK, Whole
    <2>. QED  BY <2>2, <2>3
  <1>. QED  BY <1>1, <1>3, <1>4 DEF Safe

\* A handler that holds no secret and touches no store keeps Safe.
LEMMA IdleSafe ==
  ASSUME TypeOK, Safe, NEW w \in Workers, held[w] = Nil,
         UNCHANGED <<stores, tainted>>, NEW q,
         Finish(w, q) \/ (Goto(w, q) /\ UNCHANGED <<job, held>>)
  PROVE  Safe'
  <1>1. /\ held' = held
        /\ \A v \in Workers \ {w} : wpc'[v] = wpc[v] /\ job'[v] = job[v]
    BY DEF Finish, Goto, TypeOK, WorkersOK
  <1>. QED  BY <1>1, FrameSafe

\* A handler that looks for its secret, and one that creates, hold none.
LEMMA ReaderHolds ==
  ASSUME Safe, NEW w \in Workers,
         wpc[w] \in {"lookup", "load"} \/ Serves(w, "create", "save")
  PROVE  held[w] = Nil
  BY DEF Safe, WriterOK, Serves

\* A handler that writes is in step with its secret, if that is untainted.
LEMMA WriterStep ==
  ASSUME TypeOK, Safe, NEW w \in Workers, WritesHeld(wpc[w], job[w])
  PROVE  /\ held[w] \in Held /\ held[w].id \in SecretIds
         /\ rows[held[w].id].status # "none"
         /\ held[w].id \notin tainted =>
              Writers(held[w].id) = {w} /\ InStep(w, held[w].id)
  <1>1. held[w] \in Held /\ held[w] # Nil
    BY LifecycleNil DEF TypeOK, WorkersOK
  <1>2. held[w].id \in SecretIds /\ w \in Writers(held[w].id)
    BY <1>1, WritersHold
  <1>. QED  BY <1>1, <1>2 DEF Safe, WriterOK, SecretOK

\* A handler that has just read the secret it will write keeps Safe.
LEMMA HoldSafe ==
  ASSUME TypeOK, Safe, TypeOK', NEW w \in Workers, wpc[w] = "lookup",
         NEW a \in Aliases, NEW id \in ByAlias(a), Hold(w, id),
         NEW next \in {"dup", "rotate", "save"}, Goto(w, next),
         Writing(next, job[w].op), UNCHANGED <<stores, job>>
  PROVE  Safe'
  <1> DEFINE h == [id |-> id, alias |-> rows[id].alias]
  <1>1. id \in SecretIds /\ rows[id].status = "ACTIVE" /\ rows[id].alias = a
    BY DEF ByAlias, Active
  <1>2. h \in Held /\ h # Nil /\ h.id = id  BY <1>1, LifecycleNil DEF Held
  <1>3. Moved(w, next, job[w], h)
    BY DEF Goto, Hold, Moved, TypeOK, WorkersOK
  <1>4. held[w] = Nil  BY ReaderHolds
  <1>5. rows' = rows /\ custody' = custody  BY DEF stores
  <1>6. tainted' \in {tainted, tainted \cup {id}}  BY DEF Hold
  <1>7. ASSUME id \notin tainted'
        PROVE  Writers(id) \subseteq {w} /\ InStep(w, id)'
    <2>1. Writers(id) = {} /\ id \notin tainted  BY <1>7 DEF Hold
    <2>2. id \in custody  BY <1>1, <2>1 DEF Safe, SecretOK, Whole
    <2>3. wpc'[w] = next  BY DEF Goto, TypeOK, WorkersOK
    <2>. QED  BY <1>1, <1>5, <2>1, <2>2, <2>3 DEF InStep
  <1>8. StoresOK' /\ (id \in custody' => rows'[id].status # "none")
    BY <1>1, <1>5 DEF TypeOK
  <1>. QED  BY <1>1, <1>2, <1>3, <1>4, <1>5, <1>6, <1>7, <1>8, StepSafe

\* A handler that ends keeps Safe if it leaves its secret whole.
LEMMA EndSafe ==
  ASSUME TypeOK, Safe, TypeOK', NEW w \in Workers,
         WritesHeld(wpc[w], job[w]), NEW result, Finish(w, result),
         NEW a, a = held[w].id,
         \A i \in SecretIds \ {a} :
           rows'[i] = rows[i] /\ (i \in custody' <=> i \in custody),
         rows'[a].status # "none", tainted' = tainted,
         a \notin tainted => Whole(a)'
  PROVE  Safe'
  <1>1. a \in SecretIds /\ (a \notin tainted => Writers(a) = {w})
    BY WriterStep
  <1>2. PICK q, j : Moved(w, q, j, Nil)
    BY FinishMoves DEF TypeOK
  <1>3. StoresOK'  BY DEF TypeOK
  <1>. QED  BY <1>1, <1>2, <1>3, StepSafe

\* A handler that goes on writing the secret it holds keeps Safe.
LEMMA GoSafe ==
  ASSUME TypeOK, Safe, TypeOK', NEW w \in Workers,
         WritesHeld(wpc[w], job[w]), NEW next, Goto(w, next),
         UNCHANGED <<job, held>>, Writing(next, job[w].op),
         NEW a, a = held[w].id,
         \A i \in SecretIds \ {a} :
           rows'[i] = rows[i] /\ (i \in custody' <=> i \in custody),
         rows'[a].status # "none", tainted' = tainted,
         a \notin tainted => InStep(w, a)'
  PROVE  Safe'
  <1>1. a \in SecretIds /\ held[w] \in Held /\ held[w] # Nil
        /\ (a \notin tainted => Writers(a) = {w})
    BY WriterStep, LifecycleNil
  <1>2. Moved(w, next, job[w], held[w])
    BY GotoMoves DEF TypeOK
  <1>3. StoresOK'  BY DEF TypeOK
  <1>. QED  BY <1>1, <1>2, <1>3, StepSafe

\* A handler of the core keeps Safe.
LEMMA HandleSafe ==
  ASSUME TypeOK, Safe, NEW w \in Workers, Handle(w)
  PROVE  Safe'
  <1>0. TypeOK'  BY HandleTypes
  <1>a. wpc[w] # "idle" => job[w] \in Commands  BY DEF TypeOK, WorkersOK
  <1>b. PICK a : a = held[w].id  OBVIOUS
  <1>1. CASE CreateLookup(w)
    <2>1. held[w] = Nil  BY <1>1, ReaderHolds DEF CreateLookup, Serves
    <2>. QED  BY <1>1, <2>1, IdleSafe DEF CreateLookup
  <1>2. CASE CreateSave(w)
    <2>1. wpc[w] = "save" /\ job[w].op = "create" /\ job[w].alias \in Aliases
      BY <1>2, <1>a, CommandTypes DEF CreateSave, Serves
    <2>2. held[w] = Nil  BY <1>2, ReaderHolds DEF CreateSave
    <2>3. PICK id \in SecretIds :
            /\ rows[id] = NoRow
            /\ IF Taken(job[w].alias, id)
                 THEN Finish(w, "failed") /\ UNCHANGED rows
                 ELSE /\ rows' = [rows EXCEPT ![id] =
                            [status |-> "ACTIVE", alias |-> job[w].alias]]
                      /\ held' = [held EXCEPT
                           ![w] = [id |-> id, alias |-> job[w].alias]]
                      /\ Goto(w, "store")
                      /\ UNCHANGED job
      BY <1>2 DEF CreateSave
    <2>4. UNCHANGED <<custody, tainted>>  BY <1>2 DEF CreateSave
    <2>5. CASE Taken(job[w].alias, id)
      BY <2>2, <2>3, <2>4, <2>5, IdleSafe DEF stores
    <2>6. CASE ~ Taken(job[w].alias, id)
      <3> DEFINE h == [id |-> id, alias |-> job[w].alias]
      <3>1. h \in Held /\ h # Nil /\ h.id = id
        BY <2>1, LifecycleNil DEF Held
      <3>2. Moved(w, "store", job[w], h)
        BY <2>3, <2>6 DEF Goto, Moved, TypeOK, WorkersOK
      <3>3. /\ rows'[id].status = "ACTIVE"
            /\ \A i \in SecretIds \ {id} : rows'[i] = rows[i]
        BY <2>3, <2>6 DEF TypeOK, StoresOK
      <3>4. Writers(id) = {} /\ id \notin custody
        BY <2>3, WritersHold DEF Safe, WriterOK, PlaintextHasRow, Writers,
              NoRow
      <3>5. wpc'[w] = "store"  BY <2>3, <2>6 DEF Goto, TypeOK, WorkersOK
      <3>6. InStep(w, id)'  BY <2>4, <3>3, <3>4, <3>5 DEF InStep
      <3>7. StoresOK' /\ Writing("store", job[w].op)
        BY <1>0, <2>1 DEF TypeOK, Writing
      <3>. QED  BY <2>2, <2>4, <3>1, <3>2, <3>3, <3>4, <3>6, <3>7, StepSafe
    <2>. QED  BY <2>5, <2>6
  <1>3. CASE CreateStore(w)
    <2>1. wpc[w] = "store"  BY <1>3 DEF CreateStore, Serves
    <2>2. WritesHeld(wpc[w], job[w])  BY <2>1 DEF WritesHeld, HoldingPCs
    <2>3. a \notin tainted => Whole(a)'
      BY <1>3, <2>1, <2>2, <1>b, WriterStep DEF CreateStore, InStep, Whole
    <2>. QED  BY <1>0, <1>3, <2>2, <2>3, <1>b, WriterStep, EndSafe DEF CreateStore
  <1>4. CASE UpdateLookup(w)
    <2>1. /\ wpc[w] = "lookup" /\ job[w].op = "update"
          /\ job[w].alias \in Aliases
      BY <1>4, <1>a, CommandTypes DEF UpdateLookup, Serves
    <2>2. CASE ByAlias(job[w].alias) = {}
      BY <1>4, <2>1, <2>2, ReaderHolds, IdleSafe DEF UpdateLookup
    <2>3. CASE ByAlias(job[w].alias) # {}
      <3>1. PICK id \in ByAlias(job[w].alias) : Hold(w, id)
        BY <1>4, <2>3 DEF UpdateLookup
      <3>2. PICK next \in {"dup", "rotate", "save"} : Goto(w, next)
        BY <1>4, <2>3 DEF UpdateLookup, Write
      <3>3. UNCHANGED <<stores, job>>  BY <1>4, <2>3 DEF UpdateLookup
      <3>4. Writing(next, job[w].op)  BY <2>1 DEF Writing
      <3>. QED  BY <1>0, <2>1, <3>1, <3>2, <3>3, <3>4, HoldSafe
    <2>. QED  BY <2>2, <2>3
  <1>5. CASE UpdateDuplicate(w)
    <2>1. wpc[w] = "dup" /\ job[w].op = "update"
      BY <1>5 DEF UpdateDuplicate, Serves
    <2>2. WritesHeld(wpc[w], job[w])  BY <2>1 DEF WritesHeld, HoldingPCs
    <2>3. UNCHANGED <<rows, custody, tainted>>
      BY <1>5 DEF UpdateDuplicate, stores
    <2>4. CASE ByAlias(job[w].new) # {}
      <3>1. Finish(w, "failed")  BY <1>5, <2>4 DEF UpdateDuplicate
      <3>2. a \notin tainted => Whole(a)'
        BY <2>1, <2>2, <2>3, <1>b, WriterStep DEF InStep, Whole
      <3>. QED  BY <1>0, <2>2, <2>3, <3>1, <3>2, <1>b, WriterStep, EndSafe
    <2>5. CASE ByAlias(job[w].new) = {}
      <3>1. UNCHANGED <<job, held>>  BY <1>5, <2>5 DEF UpdateDuplicate
      <3>2. PICK next \in {"rotate", "save"} : Goto(w, next)
        BY <1>5, <2>5 DEF UpdateDuplicate, Write
      <3>3. wpc'[w] = next  BY <3>2 DEF Goto, TypeOK, WorkersOK
      <3>4. a \notin tainted => InStep(w, a)'
        BY <2>1, <2>2, <2>3, <3>1, <3>3, <1>b, WriterStep DEF InStep
      <3>5. Writing(next, job[w].op)  BY <2>1 DEF Writing
      <3>. QED  BY <1>0, <2>2, <2>3, <3>1, <3>2, <3>4, <3>5, <1>b,
                   WriterStep, GoSafe
    <2>. QED  BY <2>4, <2>5
  <1>6. CASE UpdateRotate(w)
    <2>1. wpc[w] = "rotate" /\ job[w].op = "update"
      BY <1>6 DEF UpdateRotate, Serves
    <2>2. WritesHeld(wpc[w], job[w])  BY <2>1 DEF WritesHeld, HoldingPCs
    <2>3. /\ Goto(w, "save") /\ UNCHANGED <<rows, job, held, tainted>>
          /\ custody' = custody \cup {held[w].id}
      BY <1>6 DEF UpdateRotate
    <2>4. wpc'[w] = "save"  BY <2>3 DEF Goto, TypeOK, WorkersOK
    <2>5. a \notin tainted => InStep(w, a)'
      BY <2>1, <2>2, <2>3, <2>4, <1>b, WriterStep DEF InStep
    <2>6. Writing("save", job[w].op)  BY <2>1 DEF Writing
    <2>. QED  BY <1>0, <2>2, <2>3, <2>5, <2>6, <1>b, WriterStep, GoSafe
  <1>7. CASE UpdateSave(w)
    <2>1. wpc[w] = "save" /\ job[w].op = "update"
      BY <1>7 DEF UpdateSave, Serves
    <2>2. WritesHeld(wpc[w], job[w])  BY <2>1 DEF WritesHeld
    <2>3. UNCHANGED <<custody, tainted>>  BY <1>7 DEF UpdateSave
    <2>4. CASE Taken(job[w].new, held[w].id)
      <3>1. Finish(w, "failed") /\ UNCHANGED rows
        BY <1>7, <2>4 DEF UpdateSave
      <3>2. a \notin tainted => Whole(a)'
        BY <2>1, <2>2, <2>3, <3>1, <1>b, WriterStep DEF InStep, Whole
      <3>. QED  BY <1>0, <2>2, <2>3, <3>1, <3>2, <1>b, WriterStep, EndSafe
    <2>5. CASE ~ Taken(job[w].new, held[w].id)
      <3>1. /\ Finish(w, "ok")
            /\ rows' = [rows EXCEPT ![held[w].id] =
                          [status |-> "ACTIVE", alias |-> job[w].new]]
        BY <1>7, <2>5 DEF UpdateSave
      <3>2. /\ rows'[held[w].id].status = "ACTIVE"
            /\ \A i \in SecretIds \ {held[w].id} : rows'[i] = rows[i]
        BY <2>2, <3>1, <1>b, WriterStep DEF TypeOK, StoresOK
      <3>3. a \notin tainted => Whole(a)'
        BY <2>1, <2>2, <2>3, <3>2, <1>b, WriterStep DEF InStep, Whole
      <3>. QED  BY <1>0, <2>2, <2>3, <3>1, <3>2, <3>3, <1>b, WriterStep, EndSafe
    <2>. QED  BY <2>4, <2>5
  <1>8. CASE RemoveLookup(w)
    <2>1. /\ wpc[w] = "lookup" /\ job[w].op = "remove"
          /\ job[w].alias \in Aliases
      BY <1>8, <1>a, CommandTypes DEF RemoveLookup, Serves
    <2>2. CASE ByAlias(job[w].alias) = {}
      BY <1>8, <2>1, <2>2, ReaderHolds, IdleSafe DEF RemoveLookup
    <2>3. CASE ByAlias(job[w].alias) # {}
      <3>1. PICK id \in ByAlias(job[w].alias) : Hold(w, id)
        BY <1>8, <2>3 DEF RemoveLookup
      <3>2. Goto(w, "save") /\ UNCHANGED <<stores, job>>
        BY <1>8, <2>3 DEF RemoveLookup
      <3>3. Writing("save", job[w].op)  BY <2>1 DEF Writing
      <3>. QED  BY <1>0, <2>1, <3>1, <3>2, <3>3, HoldSafe
    <2>. QED  BY <2>2, <2>3
  <1>9. CASE RemoveSave(w)
    <2>1. wpc[w] = "save" /\ job[w].op = "remove"
      BY <1>9 DEF RemoveSave, Serves
    <2>2. WritesHeld(wpc[w], job[w])  BY <2>1 DEF WritesHeld
    <2>3. UNCHANGED <<custody, tainted>>  BY <1>9 DEF RemoveSave
    <2>4. CASE Taken(held[w].alias, held[w].id)
      <3>1. Finish(w, "failed") /\ UNCHANGED rows
        BY <1>9, <2>4 DEF RemoveSave
      <3>2. a \notin tainted => Whole(a)'
        BY <2>1, <2>2, <2>3, <3>1, <1>b, WriterStep DEF InStep, Whole
      <3>. QED  BY <1>0, <2>2, <2>3, <3>1, <3>2, <1>b, WriterStep, EndSafe
    <2>5. CASE ~ Taken(held[w].alias, held[w].id)
      <3>1. /\ Goto(w, "destroy") /\ UNCHANGED <<job, held>>
            /\ rows' = [rows EXCEPT ![held[w].id] =
                          [status |-> "REMOVED", alias |-> held[w].alias]]
        BY <1>9, <2>5 DEF RemoveSave
      <3>2. /\ rows'[held[w].id].status = "REMOVED"
            /\ \A i \in SecretIds \ {held[w].id} : rows'[i] = rows[i]
        BY <2>2, <3>1, <1>b, WriterStep DEF TypeOK, StoresOK
      <3>3. wpc'[w] = "destroy"  BY <3>1 DEF Goto, TypeOK, WorkersOK
      <3>4. a \notin tainted => InStep(w, a)'
        BY <2>1, <2>2, <2>3, <3>1, <3>2, <3>3, <1>b, WriterStep DEF InStep
      <3>5. Writing("destroy", job[w].op)  BY <2>1 DEF Writing
      <3>. QED  BY <1>0, <2>2, <2>3, <3>1, <3>2, <3>4, <3>5, <1>b, WriterStep, GoSafe
    <2>. QED  BY <2>4, <2>5
  <1>10. CASE RemoveDestroy(w)
    <2>1. wpc[w] = "destroy"  BY <1>10 DEF RemoveDestroy, Serves
    <2>2. WritesHeld(wpc[w], job[w])  BY <2>1 DEF WritesHeld, HoldingPCs
    <2>3. a \notin tainted => Whole(a)'
      BY <1>10, <2>1, <2>2, <1>b, WriterStep DEF RemoveDestroy, InStep, Whole
    <2>. QED  BY <1>0, <1>10, <2>2, <2>3, <1>b, WriterStep, EndSafe
              DEF RemoveDestroy
  <1>11. CASE ExportList(w)
    <2>1. held[w] = Nil  BY <1>11, ReaderHolds DEF ExportList, Serves
    <2>. QED  BY <1>11, <2>1, IdleSafe DEF ExportList, history
  <1>12. CASE ExportLoad(w)
    <2>1. held[w] = Nil  BY <1>12, ReaderHolds DEF ExportLoad, Serves
    <2>. QED  BY <1>12, <2>1, IdleSafe DEF ExportLoad, history
  <1>. QED  BY <1>1, <1>2, <1>3, <1>4, <1>5, <1>6, <1>7, <1>8, <1>9, <1>10,
               <1>11, <1>12 DEF Handle

\* The clients' calls and returns move no handler that holds a secret.
LEMMA ClientSafe ==
  ASSUME TypeOK, Safe, NEW p \in Clients, Call(p) \/ Return(p)
  PROVE  Safe'
  <1>1. CASE Call(p)
    <2>1. PICK W \in SUBSET Free : \E batch \in [W -> Commands] : Start(p, batch)
      BY <1>1, CallStarts
    <2>2. PICK batch \in [W -> Commands] : Start(p, batch)
      BY <2>1
    <2>3. ASSUME NEW v \in Workers, held[v] # Nil
          PROVE  wpc'[v] = wpc[v] /\ job'[v] = job[v]
      <3>1. v \notin W  BY <2>3 DEF Free, Safe, WriterOK
      <3>. QED  BY <2>2, <3>1 DEF Start
    <2>. QED  BY <2>2, <2>3, FrameSafe DEF Start
  <1>2. CASE Return(p)
    <2>1. ASSUME NEW v \in Workers, held[v] # Nil
          PROVE  wpc'[v] = wpc[v] /\ job'[v] = job[v]
      <3>1. v \notin Finished  BY <2>1 DEF Finished, Safe, WriterOK
      <3>. QED  BY <1>2, <3>1 DEF Return
    <2>. QED  BY <1>2, <2>1, FrameSafe DEF Return
  <1>. QED  BY <1>1, <1>2

\* A death of the process leaves no handler; it taints what they wrote.
LEMMA CrashSafe ==
  ASSUME TypeOK, Safe, Crash
  PROVE  Safe'
  <1>1. UNCHANGED <<rows, custody>> /\ held' = [w \in Workers |-> Nil]
    BY DEF Crash, stores
  <1>2. PlaintextHasRow' /\ WriterOK'
    BY <1>1 DEF Safe, PlaintextHasRow, WriterOK
  <1>3. ASSUME NEW id \in SecretIds \ tainted'  PROVE SecretOK(id)'
    <2>1. id \notin tainted /\ Writers(id) = {}  BY <1>3 DEF Crash
    <2>2. Whole(id)  BY <2>1 DEF Safe, SecretOK
    <2>3. Writers(id)' = {}  BY <1>1 DEF Writers
    <2>. QED  BY <1>1, <2>2, <2>3 DEF SecretOK, Whole
  <1>. QED  BY <1>2, <1>3 DEF Safe

LEMMA InitInv == Init => LifecycleInv
  <1>1. Init => Safe
    BY DEF Init, Safe, PlaintextHasRow, WriterOK, SecretOK, Writers, Whole,
       NoRow
  <1>. QED  BY <1>1, InitTypes DEF LifecycleInv

\* Every step keeps the inductive invariant.
LEMMA NextInv == LifecycleInv /\ [Next]_vars => LifecycleInv'
  <1> SUFFICES ASSUME LifecycleInv, [Next]_vars  PROVE LifecycleInv'
    OBVIOUS
  <1> USE DEF LifecycleInv
  <1>0. TypeOK'  BY NextTypes
  <1>1. ASSUME NEW p \in Clients, Call(p) \/ Return(p)  PROVE Safe'
    BY <1>1, ClientSafe
  <1>2. ASSUME NEW w \in Workers, Handle(w)  PROVE Safe'
    BY <1>2, HandleSafe
  <1>3. CASE Crash
    BY <1>0, <1>3, CrashSafe
  <1>4. CASE UNCHANGED vars
    BY <1>0, <1>4, FrameSafe DEF vars, working, history
  <1>. QED  BY <1>0, <1>1, <1>2, <1>3, <1>4 DEF Next

LEMMA InvHolds == Spec => []LifecycleInv
  BY InitInv, NextInv, PTL DEF Spec

(***************************************************************************)
(* A plaintext in custody always belongs to a row of the secrets table,    *)
(* however the handlers overlap and whenever the process dies.             *)
(***************************************************************************)
THEOREM PlaintextOwned == Spec => []PlaintextHasRow
  <1>1. LifecycleInv => PlaintextHasRow  BY DEF LifecycleInv, Safe
  <1>. QED  BY <1>1, InvHolds, PTL

(***************************************************************************)
(* A secret at rest is active if and only if its plaintext is stored, as   *)
(* long as its handlers ran one at a time and to their end, whatever the   *)
(* handlers of other secrets did.                                          *)
(***************************************************************************)
THEOREM SettledIsWhole == Spec => []SettledSecretIsWhole
  <1>1. LifecycleInv => SettledSecretIsWhole
    BY DEF LifecycleInv, Safe, SecretOK, Whole, SettledSecretIsWhole
  <1>. QED  BY <1>1, InvHolds, PTL

\* A step takes no untainted secret out of REMOVED.
LEMMA NextKeepsRemoved ==
  ASSUME LifecycleInv, Next, NEW id \in SecretIds \ tainted,
         rows[id].status = "REMOVED"
  PROVE  rows'[id].status = "REMOVED"
  <1>1. TypeOK /\ Safe  BY DEF LifecycleInv
  <1>2. CASE UNCHANGED rows
    BY <1>2
  <1>3. ASSUME NEW w \in Workers, CreateSave(w)  PROVE rows'[id] = rows[id]
    BY <1>1, <1>3 DEF CreateSave, NoRow, TypeOK, StoresOK
  <1>4. ASSUME NEW w \in Workers, UpdateSave(w)  PROVE rows'[id] = rows[id]
    <2>1. WritesHeld(wpc[w], job[w]) /\ wpc[w] = "save"
      BY <1>4 DEF UpdateSave, Serves, WritesHeld
    <2>2. id # held[w].id
      BY <1>1, <2>1, WriterStep DEF InStep
    <2>. QED  BY <1>1, <1>4, <2>2 DEF UpdateSave, TypeOK, StoresOK
  <1>5. ASSUME NEW w \in Workers, RemoveSave(w)
        PROVE  rows'[id].status = "REMOVED"
    BY <1>1, <1>5 DEF RemoveSave, TypeOK, StoresOK
  <1>6. ASSUME NEW w \in Workers, Handle(w)
        PROVE  UNCHANGED rows \/ CreateSave(w) \/ UpdateSave(w) \/ RemoveSave(w)
    BY <1>6 DEF Handle, CreateLookup, CreateStore, UpdateLookup,
       UpdateDuplicate, UpdateRotate, RemoveLookup, RemoveDestroy, ExportList,
       ExportLoad, stores
  <1>7. ASSUME NEW p \in Clients, Call(p)  PROVE UNCHANGED rows
    BY <1>7, CallStarts DEF Start, stores
  <1>8. ASSUME NEW p \in Clients, Return(p)  PROVE UNCHANGED rows
    BY <1>8 DEF Return, stores
  <1>9. Crash => UNCHANGED rows  BY DEF Crash, stores
  <1>. QED  BY <1>2, <1>3, <1>4, <1>5, <1>6, <1>7, <1>8, <1>9 DEF Next

(***************************************************************************)
(* A removed secret stays removed, as long as its handlers ran one at a    *)
(* time and to their end.                                                  *)
(***************************************************************************)
THEOREM RemovedIsFinal == Spec => RemovalIsFinal
  <1>1. LifecycleInv /\ [Next]_vars =>
          [\A id \in SecretIds \ tainted :
             rows[id].status = "REMOVED" => rows'[id].status = "REMOVED"]_rows
    BY NextKeepsRemoved DEF vars, stores
  <1>. QED  BY <1>1, InvHolds, PTL DEF Spec, RemovalIsFinal

-----------------------------------------------------------------------------
(***************************************************************************)
(* Names.  A row that was ever saved keeps a name to itself.               *)
(***************************************************************************)
NamesOK ==
  /\ \A i \in SecretIds : rows[i].status = "none" => rows[i].alias = Nil
  /\ \A i, j \in SecretIds :
       rows[i].alias = rows[j].alias /\ rows[i].alias # Nil => i = j

\* What a handler saves: one row, under a name no other row has.
LEMMA RowSaved ==
  ASSUME TypeOK, Safe, NEW w \in Workers, Handle(w), rows' # rows
  PROVE  \E id \in SecretIds, s \in {"ACTIVE", "REMOVED"}, a \in Aliases :
           /\ ~Taken(a, id)
           /\ rows' = [rows EXCEPT ![id] = [status |-> s, alias |-> a]]
  <1>1. CreateSave(w) \/ UpdateSave(w) \/ RemoveSave(w)
    BY DEF Handle, CreateLookup, CreateStore, UpdateLookup, UpdateDuplicate,
       UpdateRotate, RemoveLookup, RemoveDestroy, ExportList, ExportLoad, stores
  <1>2. job[w] \in Commands
    BY <1>1 DEF CreateSave, UpdateSave, RemoveSave, Serves, TypeOK, WorkersOK
  <1>3. CASE CreateSave(w)
    <2>1. job[w].alias \in Aliases
      BY <1>2, <1>3, CommandTypes DEF CreateSave, Serves
    <2>. QED  BY <1>3, <2>1 DEF CreateSave
  <1>4. CASE UpdateSave(w)
    <2>1. job[w].new \in Aliases
      BY <1>2, <1>4, CommandTypes DEF UpdateSave, Serves
    <2>2. held[w].id \in SecretIds
      BY <1>4, WriterStep DEF UpdateSave, Serves, WritesHeld
    <2>. QED  BY <1>4, <2>1, <2>2 DEF UpdateSave
  <1>5. CASE RemoveSave(w)
    <2>1. held[w].id \in SecretIds /\ held[w].alias \in Aliases
      BY <1>5, WriterStep DEF RemoveSave, Serves, WritesHeld, Held
    <2>. QED  BY <1>5, <2>1 DEF RemoveSave
  <1>. QED  BY <1>1, <1>3, <1>4, <1>5

LEMMA NamesStep ==
  ASSUME TypeOK, Safe, NamesOK, [Next]_vars
  PROVE  NamesOK'
  <1>1. CASE UNCHANGED rows  BY <1>1 DEF NamesOK
  <1>2. ASSUME NEW w \in Workers, Handle(w), rows' # rows  PROVE NamesOK'
    <2>1. PICK id \in SecretIds, s \in {"ACTIVE", "REMOVED"}, a \in Aliases :
            /\ ~Taken(a, id)
            /\ rows' = [rows EXCEPT ![id] = [status |-> s, alias |-> a]]
      BY <1>2, RowSaved
    <2>2. /\ rows'[id] = [status |-> s, alias |-> a]
          /\ \A i \in SecretIds \ {id} : rows'[i] = rows[i] /\ rows[i].alias # a
      BY <2>1 DEF TypeOK, StoresOK, Taken
    <2>. QED  BY <2>2 DEF NamesOK
  <1>. QED
    BY <1>1, <1>2 DEF Next, Call, BeginCreate, BeginUpdate, BeginRemove,
       BeginExport, BeginOne, Start, Return, Crash, stores, vars

-----------------------------------------------------------------------------
(***************************************************************************)
(* Calls.  A handler somebody waits for is at work or has its result; one  *)
(* call waits for it; an export or a removal is a call of its own.         *)
(***************************************************************************)
AwaitedOK ==
  /\ \A p \in Clients : \A w \in waiting[p] :
       /\ wpc[w] # "idle"
       /\ \A q \in Clients : w \in waiting[q] => q = p
       /\ job[w].op \in {"remove", "export"} => waiting[p] = {w}
  /\ \A w \in Workers :
       wpc[w] # "idle" /\ job[w].op = "export" => \E p \in Clients : w \in waiting[p]
  /\ \A w \in missing : wpc[w] = "ok" /\ job[w].op = "export"

Checked(command) ==
  /\ command.op = "create" => command.alias \notin ListedAliases
  /\ command.op = "update" =>
       /\ command.alias \in ListedAliases
       /\ Renames(command) => command.new \notin ListedAliases

\* What phase 1 of a call has made sure of.
LEMMA CallChecks ==
  ASSUME NEW p \in Clients, Call(p)
  PROVE  \E W \in SUBSET Free : \E batch \in [W -> Commands] :
           /\ Start(p, batch)
           /\ \A w \in W : /\ Checked(batch[w])
                           /\ batch[w].op \in {"remove", "export"} => W = {w}
  <1>1. CASE BeginCreate(p)
    <2>1. PICK W \in SUBSET Free : \E batch \in [W -> CreateCommands] :
            /\ \A w \in W : batch[w].alias \notin ListedAliases
            /\ Start(p, batch)
      BY <1>1 DEF BeginCreate, Batches
    <2>2. PICK batch \in [W -> CreateCommands] :
            /\ \A w \in W : batch[w].alias \notin ListedAliases
            /\ Start(p, batch)
      BY <2>1
    <2>3. batch \in [W -> Commands]
      BY DEF Commands
    <2>4. \A w \in W : batch[w].op = "create"
      BY DEF CreateCommands
    <2>. QED  BY <2>2, <2>3, <2>4 DEF Checked
  <1>2. CASE BeginUpdate(p)
    <2>1. PICK W \in SUBSET Free : \E batch \in [W -> UpdateCommands] :
            /\ \A w \in W :
                 /\ batch[w].alias \in ListedAliases
                 /\ Renames(batch[w]) => batch[w].new \notin ListedAliases
            /\ Start(p, batch)
      BY <1>2 DEF BeginUpdate, Batches
    <2>2. PICK batch \in [W -> UpdateCommands] :
            /\ \A w \in W :
                 /\ batch[w].alias \in ListedAliases
                 /\ Renames(batch[w]) => batch[w].new \notin ListedAliases
            /\ Start(p, batch)
      BY <2>1
    <2>3. batch \in [W -> Commands]
      BY DEF Commands
    <2>4. \A w \in W : batch[w].op = "update"
      BY DEF UpdateCommands
    <2>. QED  BY <2>2, <2>3, <2>4 DEF Checked
  <1>3. CASE BeginRemove(p) \/ BeginExport(p)
    <2>1. PICK w \in Free, command \in RemoveCommands \cup ExportCommands :
            Start(p, [v \in {w} |-> command])
      BY <1>3 DEF BeginRemove, BeginExport, BeginOne
    <2>2. /\ command \in Commands /\ command.op \in {"remove", "export"}
      BY DEF Commands, RemoveCommands, ExportCommands
    <2>3. [v \in {w} |-> command] \in [{w} -> Commands]
      BY <2>2
    <2>4. \A v \in {w} : [u \in {w} |-> command][v] = command
      OBVIOUS
    <2>5. {w} \in SUBSET Free
      OBVIOUS
    <2>. QED  BY <2>1, <2>2, <2>3, <2>4, <2>5 DEF Checked
  <1>. QED  BY <1>1, <1>2, <1>3 DEF Call

\* What a step of a handler leaves alone, and what it keeps of its own.
LEMMA HandleFrame ==
  ASSUME TypeOK, NEW w \in Workers, Handle(w)
  PROVE  /\ UNCHANGED <<waiting, clean>> /\ tainted \subseteq tainted'
         /\ wpc[w] \notin {"idle", "ok", "failed"}
         /\ \A v \in Workers \ {w} : /\ wpc'[v] = wpc[v] /\ job'[v] = job[v]
                                     /\ held'[v] = held[v] /\ todo'[v] = todo[v]
         /\ \/ wpc'[w] # "idle" /\ job'[w] = job[w]
            \/ wpc'[w] = "idle" /\ \A p \in Clients : w \notin waiting[p]
         /\ missing' # missing =>
              missing' = missing \cup {w} /\ job[w].op = "export" /\ ExportLoad(w)
  <1> USE DEF TypeOK, WorkersOK, Serves, Finish, Goto, Unmoved
  <1>1. CASE CreateLookup(w) \/ CreateSave(w) \/ CreateStore(w)
    BY <1>1 DEF CreateLookup, CreateSave, CreateStore
  <1>2. CASE UpdateLookup(w) \/ UpdateDuplicate(w) \/ UpdateRotate(w) \/ UpdateSave(w)
    BY <1>2 DEF UpdateLookup, UpdateDuplicate, UpdateRotate, UpdateSave, Write,
       Hold
  <1>3. CASE RemoveLookup(w) \/ RemoveSave(w) \/ RemoveDestroy(w)
    BY <1>3 DEF RemoveLookup, RemoveSave, RemoveDestroy, Hold
  <1>4. CASE ExportList(w)
    BY <1>4 DEF ExportList, history
  <1>5. CASE ExportLoad(w)
    BY <1>5 DEF ExportLoad, history
  <1>. QED  BY <1>1, <1>2, <1>3, <1>4, <1>5 DEF Handle

LEMMA HandleAwaited ==
  ASSUME TypeOK, AwaitedOK, NEW w \in Workers, Handle(w)
  PROVE  AwaitedOK'
  <1> USE DEF TypeOK, ClientsOK
  <1>1. /\ UNCHANGED waiting /\ wpc[w] \notin {"idle", "ok", "failed"}
        /\ \A v \in Workers \ {w} : wpc'[v] = wpc[v] /\ job'[v] = job[v]
        /\ \/ wpc'[w] # "idle" /\ job'[w] = job[w]
           \/ wpc'[w] = "idle" /\ \A p \in Clients : w \notin waiting[p]
    BY HandleFrame
  <1>2. ASSUME NEW p \in Clients, NEW v \in waiting[p]
        PROVE  /\ wpc'[v] # "idle"
               /\ \A q \in Clients : v \in waiting[q] => q = p
               /\ job'[v].op \in {"remove", "export"} => waiting[p] = {v}
    <2>1. v \in Workers /\ wpc'[v] # "idle" /\ job'[v] = job[v]
      BY <1>1, <1>2 DEF AwaitedOK
    <2>. QED  BY <1>2, <2>1 DEF AwaitedOK
  <1>3. ASSUME NEW v \in Workers, wpc'[v] # "idle", job'[v].op = "export"
        PROVE  \E p \in Clients : v \in waiting[p]
    BY <1>1, <1>3 DEF AwaitedOK
  <1>4. ASSUME NEW v \in missing'
        PROVE  wpc'[v] = "ok" /\ job'[v].op = "export"
    <2>1. CASE v # w
      BY <1>1, <1>4, <2>1, HandleFrame DEF AwaitedOK, WorkersOK
    <2>2. CASE v = w
      <3>1. w \notin missing
        BY <1>1 DEF AwaitedOK
      <3>2. job[w].op = "export" /\ ExportLoad(w)
        BY <1>4, <2>2, <3>1, HandleFrame
      <3>3. \E p \in Clients : w \in waiting[p]
        BY <1>1, <3>2 DEF AwaitedOK
      <3>. QED
        BY <2>2, <3>2, <3>3 DEF ExportLoad, Finish, WorkersOK
    <2>. QED  BY <2>1, <2>2
  <1>. QED  BY <1>1, <1>2, <1>3, <1>4 DEF AwaitedOK

LEMMA CallAwaited ==
  ASSUME TypeOK, AwaitedOK, NEW p \in Clients, Call(p)
  PROVE  AwaitedOK'
  <1>1. PICK W \in SUBSET Free : \E batch \in [W -> Commands] :
          /\ Start(p, batch)
          /\ \A w \in W : batch[w].op \in {"remove", "export"} => W = {w}
    BY CallChecks
  <1>2. PICK batch \in [W -> Commands] :
          /\ Start(p, batch)
          /\ \A w \in W : batch[w].op \in {"remove", "export"} => W = {w}
    BY <1>1
  <1>3. /\ W \subseteq Workers /\ \A w \in W : wpc[w] = "idle"
        /\ waiting[p] = {} /\ waiting' = [waiting EXCEPT ![p] = W]
        /\ missing' = missing
        /\ \A w \in Workers :
             /\ wpc'[w] = IF w \in W THEN "lookup" ELSE wpc[w]
             /\ job'[w] = IF w \in W THEN batch[w] ELSE job[w]
    BY <1>2 DEF Start, Free
  <1>4. /\ waiting'[p] = W
        /\ \A q \in Clients : q # p => waiting'[q] = waiting[q]
        /\ \A q \in Clients : waiting[q] \cap W = {} /\ waiting[q] \subseteq Workers
        /\ missing \cap W = {} /\ missing \subseteq Workers
    BY <1>3 DEF TypeOK, ClientsOK, WorkersOK, AwaitedOK
  <1>5. ASSUME NEW q \in Clients, NEW w \in waiting'[q]
        PROVE  /\ wpc'[w] # "idle"
               /\ \A x \in Clients : w \in waiting'[x] => x = q
               /\ job'[w].op \in {"remove", "export"} => waiting'[q] = {w}
    <2>1. CASE q = p
      BY <1>2, <1>3, <1>4, <1>5, <2>1
    <2>2. CASE q # p
      BY <1>3, <1>4, <1>5, <2>2 DEF AwaitedOK
    <2>. QED  BY <2>1, <2>2
  <1>6. ASSUME NEW w \in Workers, wpc'[w] # "idle", job'[w].op = "export"
        PROVE  \E q \in Clients : w \in waiting'[q]
    <2>1. CASE w \in W
      BY <1>4, <2>1
    <2>2. CASE w \notin W
      <3>1. PICK q \in Clients : w \in waiting[q]
        BY <1>3, <1>6, <2>2 DEF AwaitedOK
      <3>. QED  BY <1>3, <1>4, <3>1
    <2>. QED  BY <2>1, <2>2
  <1>7. \A w \in missing' : wpc'[w] = "ok" /\ job'[w].op = "export"
    BY <1>3, <1>4 DEF AwaitedOK
  <1>. QED  BY <1>5, <1>6, <1>7 DEF AwaitedOK

LEMMA ReturnAwaited ==
  ASSUME TypeOK, AwaitedOK, NEW p \in Clients, Return(p)
  PROVE  AwaitedOK'
  <1> DEFINE ended == waiting[p] \cap Finished
  <1>1. /\ waiting' = [waiting EXCEPT ![p] = {}] /\ missing' = missing \ ended
        /\ \A w \in Workers :
             /\ wpc'[w] = IF w \in ended THEN "idle" ELSE wpc[w]
             /\ job'[w] = IF w \in ended THEN Nil ELSE job[w]
    BY DEF Return
  <1>2. /\ waiting'[p] = {} /\ \A q \in Clients : q # p => waiting'[q] = waiting[q]
        /\ \A q \in Clients : waiting[q] \subseteq Workers
        /\ missing \subseteq Workers
    BY <1>1 DEF TypeOK, ClientsOK, WorkersOK
  <1>3. ASSUME NEW q \in Clients, NEW w \in waiting'[q]
        PROVE  /\ wpc'[w] # "idle"
               /\ \A x \in Clients : w \in waiting'[x] => x = q
               /\ job'[w].op \in {"remove", "export"} => waiting'[q] = {w}
    <2>1. q # p /\ w \in waiting[q] /\ w \in Workers
      BY <1>2, <1>3
    <2>2. w \notin ended
      BY <2>1 DEF AwaitedOK
    <2>. QED  BY <1>1, <1>2, <2>1, <2>2 DEF AwaitedOK
  <1>4. ASSUME NEW w \in Workers, wpc'[w] # "idle", job'[w].op = "export"
        PROVE  \E q \in Clients : w \in waiting'[q]
    <2>1. w \notin ended /\ wpc[w] # "idle" /\ job[w].op = "export"
      BY <1>1, <1>4
    <2>2. PICK q \in Clients : w \in waiting[q]
      BY <2>1 DEF AwaitedOK
    <2>3. CASE q = p
      <3>1. waiting[p] = {w}
        BY <2>1, <2>2, <2>3 DEF AwaitedOK
      <3>. QED  BY <2>1, <3>1 DEF Return, Finished
    <2>4. CASE q # p  BY <1>2, <2>2, <2>4
    <2>. QED  BY <2>3, <2>4
  <1>5. \A w \in missing' : wpc'[w] = "ok" /\ job'[w].op = "export"
    BY <1>1, <1>2 DEF AwaitedOK
  <1>. QED  BY <1>3, <1>4, <1>5 DEF AwaitedOK

LEMMA AwaitedStep ==
  ASSUME TypeOK, AwaitedOK, [Next]_vars
  PROVE  AwaitedOK'
  <1>1. CASE Crash  BY <1>1 DEF Crash, AwaitedOK
  <1>2. CASE UNCHANGED vars  BY <1>2 DEF vars, working, AwaitedOK
  <1>. QED
    BY <1>1, <1>2, HandleAwaited, CallAwaited, ReturnAwaited DEF Next

-----------------------------------------------------------------------------
(***************************************************************************)
(* A call that has the vault to itself.  While it lasts, only its own      *)
(* handlers are at work; an export knows of active secrets only; and each  *)
(* item of a batch still finds what phase 1 found, if no two items share a *)
(* name.                                                                   *)
(***************************************************************************)
Alone(p) == \A w \in Workers : wpc[w] # "idle" => w \in waiting[p]

ExportOK(w) ==
  /\ wpc[w] = "load" => job[w].op = "export" /\ todo[w] \subseteq Active
  /\ w \in missing => tainted # {}

Apart(p) ==
  \A u, v \in waiting[p] : u # v => Names(job[u]) \cap Names(job[v]) = {}

CreateOK(w) ==
  job[w].op = "create" =>
    /\ wpc[w] \in {"lookup", "save"} => job[w].alias \notin ListedAliases
    /\ wpc[w] = "failed" => Names(job[w]) \cap RemovedAliases # {}

UpdateOK(w) ==
  job[w].op = "update" =>
    /\ wpc[w] = "lookup" => job[w].alias \in ListedAliases
    /\ wpc[w] \in {"dup", "rotate", "save"} =>
         rows[held[w].id] = [status |-> "ACTIVE", alias |-> job[w].alias]
    /\ wpc[w] \in {"lookup", "dup", "rotate", "save"} /\ Renames(job[w])
         => job[w].new \notin ListedAliases
    /\ wpc[w] = "dup" => Renames(job[w])
    /\ wpc[w] = "failed" => Names(job[w]) \cap RemovedAliases # {}

AloneOK  == \A p \in Clients : clean[p] => Alone(p)
ExportsOK == \A p \in Clients : clean[p] => \A w \in waiting[p] : ExportOK(w)
WritesOK ==
  \A p \in Clients : clean[p] /\ Apart(p) =>
    \A w \in waiting[p] : CreateOK(w) /\ UpdateOK(w)

CleanOK == AloneOK /\ ExportsOK /\ WritesOK

\* A handler at work in a vault a call has to itself is one of the call's,
\* and an export or a removal is the whole call.
LEMMA AloneHandler ==
  ASSUME TypeOK, AwaitedOK, AloneOK, NEW p \in Clients, clean[p],
         NEW w \in Workers, Handle(w)
  PROVE  /\ w \in waiting[p]
         /\ wpc'[w] # "idle" /\ job'[w] = job[w] /\ job[w] \in Commands
         /\ job[w].op \in {"remove", "export"} => waiting[p] = {w}
  <1>1. wpc[w] # "idle"
    BY HandleFrame
  <1>2. w \in waiting[p]
    BY <1>1 DEF AloneOK, Alone
  <1>. QED  BY <1>1, <1>2, HandleFrame DEF AwaitedOK, TypeOK, WorkersOK

LEMMA HandleAlone ==
  ASSUME TypeOK, AloneOK, NEW w \in Workers, Handle(w)
  PROVE  AloneOK'
  <1>1. /\ UNCHANGED <<waiting, clean>> /\ wpc[w] # "idle"
        /\ \A v \in Workers \ {w} : wpc'[v] = wpc[v]
    BY HandleFrame
  <1>. QED  BY <1>1 DEF AloneOK, Alone

\* With no writer at work and no secret spoiled, what is active is stored.
LEMMA QuietIsWhole ==
  ASSUME TypeOK, Safe, tainted = {}, \A u \in Workers : held[u] = Nil
  PROVE  Active \subseteq custody
  <1>1. \A i \in SecretIds : Writers(i) = {}
    BY DEF Writers
  <1>. QED  BY <1>1 DEF Safe, SecretOK, Whole, Active

LEMMA HandleExports ==
  ASSUME TypeOK, Safe, AwaitedOK, AloneOK, ExportsOK, NEW w \in Workers, Handle(w)
  PROVE  ExportsOK'
  <1> SUFFICES ASSUME NEW p \in Clients, clean'[p], NEW v \in waiting'[p]
               PROVE  ExportOK(v)'
    BY DEF ExportsOK
  <1>1. /\ waiting' = waiting /\ clean' = clean /\ tainted \subseteq tainted'
        /\ wpc[w] \notin {"idle", "ok", "failed"}
        /\ missing' # missing =>
             missing' = missing \cup {w} /\ job[w].op = "export" /\ ExportLoad(w)
        /\ v \in Workers \ {w} => wpc'[v] = wpc[v] /\ job'[v] = job[v]
    BY HandleFrame
  <1>2. v \in waiting[p] /\ clean[p] /\ v \in Workers
    BY <1>1 DEF TypeOK, ClientsOK
  <1>3. /\ w \in waiting[p] /\ wpc'[w] # "idle" /\ job'[w] = job[w]
        /\ job[w].op \in {"remove", "export"} => waiting[p] = {w}
    BY <1>2, AloneHandler
  <1>4. missing = {} \/ v # w \/ w \notin missing
    BY <1>1 DEF AwaitedOK
  <1>5. CASE v # w
    <2>1. job[v].op # "export"
      BY <1>2, <1>3, <1>5 DEF AwaitedOK
    <2>2. wpc[v] # "load"
      BY <1>2, <2>1 DEF ExportsOK, ExportOK
    <2>3. v \notin missing'
      BY <1>1, <1>5, <2>1 DEF AwaitedOK
    <2>. QED  BY <1>1, <1>2, <1>5, <2>2, <2>3 DEF ExportOK
  <1>6. CASE v = w /\ ExportLoad(w)
    <2>1. wpc[w] = "load" /\ job[w].op = "export"
      BY <1>6 DEF ExportLoad, Serves
    <2>2. todo[w] \subseteq Active
      BY <1>2, <1>6, <2>1 DEF ExportsOK, ExportOK
    <2>3. wpc'[w] # "load"
      BY <1>6 DEF ExportLoad, Finish, TypeOK, WorkersOK
    <2>4. ASSUME w \in missing', tainted = {}  PROVE FALSE
      <3>1. ~(todo[w] \subseteq custody)
        BY <1>1, <1>6, <2>1, <2>4 DEF ExportLoad, AwaitedOK
      <3>2. ASSUME NEW u \in Workers  PROVE held[u] = Nil
        <4>1. CASE u = w  BY <2>1, <4>1, ReaderHolds
        <4>2. CASE u # w
          <5>1. wpc[u] = "idle"
            BY <1>2, <1>3, <2>1, <4>2 DEF AloneOK, Alone
          <5>. QED  BY <5>1 DEF Safe, WriterOK
        <4>. QED  BY <4>1, <4>2
      <3>. QED  BY <2>2, <2>4, <3>1, <3>2, QuietIsWhole
    <2>5. tainted' = tainted
      BY <1>6 DEF ExportLoad, history
    <2>. QED  BY <1>6, <2>3, <2>4, <2>5 DEF ExportOK
  <1>7. CASE v = w /\ ~ExportLoad(w)
    <2>1. v \notin missing'
      BY <1>1, <1>7 DEF AwaitedOK
    <2>2. ASSUME wpc'[w] = "load"
          PROVE  job[w].op = "export" /\ todo'[w] \subseteq Active'
      <3>1. ExportList(w)
        <4> USE DEF Serves, Finish, Goto, TypeOK, WorkersOK
        <4>1. ~CreateLookup(w) /\ ~CreateSave(w) /\ ~CreateStore(w)
          BY <2>2 DEF CreateLookup, CreateSave, CreateStore
        <4>2. ~UpdateLookup(w) /\ ~UpdateDuplicate(w) /\ ~UpdateRotate(w)
              /\ ~UpdateSave(w)
          BY <2>2 DEF UpdateLookup, UpdateDuplicate, UpdateRotate, UpdateSave,
             Write
        <4>3. ~RemoveLookup(w) /\ ~RemoveSave(w) /\ ~RemoveDestroy(w)
          BY <2>2 DEF RemoveLookup, RemoveSave, RemoveDestroy
        <4>. QED  BY <1>7, <4>1, <4>2, <4>3 DEF Handle
      <3>2. job[w].op = "export" /\ rows' = rows
        BY <3>1 DEF ExportList, Serves, stores
      <3>3. todo' = [todo EXCEPT ![w] = Active]
            \/ todo' = [todo EXCEPT ![w] = ByAlias(job[w].alias)]
        BY <2>2, <3>1 DEF ExportList, Finish, TypeOK, WorkersOK
      <3>4. todo'[w] \subseteq Active
        BY <3>3 DEF ByAlias, TypeOK, WorkersOK
      <3>. QED  BY <3>2, <3>4 DEF Active
    <2>. QED  BY <1>3, <1>7, <2>1, <2>2 DEF ExportOK
  <1>. QED  BY <1>5, <1>6, <1>7

\* What a handler of a batch saves: a name of its own command, in a new row
\* or in the row its command is about.
SavesOwn(w) ==
  \/ rows' = rows
  \/ \E id \in SecretIds, a \in Names(job[w]) :
       /\ rows' = [rows EXCEPT ![id] = [status |-> "ACTIVE", alias |-> a]]
       /\ \/ rows[id] = NoRow
          \/ rows[id] = [status |-> "ACTIVE", alias |-> job[w].alias]

LEMMA BatchSaves ==
  ASSUME TypeOK, Safe, NEW w \in Workers, Handle(w), job[w] \in Commands,
         job[w].op \in {"create", "update"}, UpdateOK(w)
  PROVE  SavesOwn(w)
  <1>1. rows' = rows \/ CreateSave(w) \/ UpdateSave(w)
    BY DEF Handle, CreateLookup, CreateStore, UpdateLookup, UpdateDuplicate,
       UpdateRotate, RemoveLookup, RemoveSave, RemoveDestroy, ExportList,
       ExportLoad, stores, Serves
  <1>2. job[w].alias \in Aliases \ {Nil}
    BY CommandTypes, LifecycleNil
  <1>3. CASE CreateSave(w)
    <2>1. job[w].alias \in Names(job[w])  BY <1>2 DEF Names
    <2>. QED  BY <1>3, <2>1 DEF CreateSave, SavesOwn
  <1>4. CASE UpdateSave(w)
    <2>1. wpc[w] = "save" /\ job[w].op = "update"
      BY <1>4 DEF UpdateSave, Serves
    <2>2. held[w].id \in SecretIds
      BY <2>1, WriterStep DEF WritesHeld
    <2>3. rows[held[w].id] = [status |-> "ACTIVE", alias |-> job[w].alias]
      BY <2>1 DEF UpdateOK
    <2>4. job[w].new \in Names(job[w])
      BY <2>1, CommandTypes, LifecycleNil DEF Names
    <2>. QED  BY <1>4, <2>2, <2>3, <2>4 DEF UpdateSave, SavesOwn
  <1>. QED  BY <1>1, <1>3, <1>4 DEF SavesOwn

\* Such a save leaves every name of another command as it was.
LEMMA OthersNames ==
  ASSUME TypeOK, NEW w \in Workers, job[w] \in Commands,
         job[w].op \in {"create", "update"}, SavesOwn(w),
         NEW a \in Aliases, a \notin Names(job[w])
  PROVE  /\ a \in ListedAliases' <=> a \in ListedAliases
         /\ RemovedAliases \subseteq RemovedAliases'
         /\ \A i \in SecretIds : rows[i].status = "ACTIVE" /\ rows[i].alias = a
              => rows'[i] = rows[i]
  <1>1. job[w].alias \in Names(job[w])
    BY CommandTypes, LifecycleNil DEF Names
  <1>2. ASSUME NEW id \in SecretIds, NEW b \in Names(job[w]),
               rows' = [rows EXCEPT ![id] = [status |-> "ACTIVE", alias |-> b]],
               \/ rows[id] = NoRow
               \/ rows[id] = [status |-> "ACTIVE", alias |-> job[w].alias]
        PROVE  /\ \A i \in SecretIds \ {id} : rows'[i] = rows[i]
               /\ rows'[id].status = "ACTIVE" /\ rows'[id].alias # a
               /\ rows[id].status # "REMOVED"
               /\ rows[id].status = "ACTIVE" => rows[id].alias # a
    BY <1>1, <1>2 DEF TypeOK, StoresOK, NoRow
  <1>3. CASE rows' = rows
    BY <1>3 DEF ListedAliases, Active, RemovedAliases
  <1>4. ASSUME NEW id \in SecretIds, \A i \in SecretIds \ {id} : rows'[i] = rows[i],
               rows'[id].status = "ACTIVE", rows'[id].alias # a,
               rows[id].status # "REMOVED",
               rows[id].status = "ACTIVE" => rows[id].alias # a
        PROVE  /\ a \in ListedAliases' <=> a \in ListedAliases
               /\ RemovedAliases \subseteq RemovedAliases'
               /\ \A i \in SecretIds : rows[i].status = "ACTIVE" /\ rows[i].alias = a
                    => rows'[i] = rows[i]
    <2>1. a \in ListedAliases' <=> a \in ListedAliases
      BY <1>4 DEF ListedAliases, Active
    <2>2. RemovedAliases \subseteq RemovedAliases'
      BY <1>4 DEF RemovedAliases
    <2>. QED  BY <1>4, <2>1, <2>2
  <1>. QED  BY <1>2, <1>3, <1>4 DEF SavesOwn

\* The other items of the batch still find what phase 1 found.
LEMMA OthersOK ==
  ASSUME TypeOK, Safe, NEW w \in Workers, NEW v \in Workers \ {w},
         job[w] \in Commands, job[w].op \in {"create", "update"}, SavesOwn(w),
         job[v] \in Commands, Names(job[v]) \cap Names(job[w]) = {},
         wpc'[v] = wpc[v], job'[v] = job[v], held'[v] = held[v],
         CreateOK(v), UpdateOK(v)
  PROVE  CreateOK(v)' /\ UpdateOK(v)'
  <1>1. CASE job[v].op = "create"
    <2>1. job[v].alias \in Aliases /\ job[v].alias \notin Names(job[w])
      BY <1>1, CommandTypes, LifecycleNil DEF Names
    <2>2. /\ job[v].alias \in ListedAliases' <=> job[v].alias \in ListedAliases
          /\ RemovedAliases \subseteq RemovedAliases'
      BY <2>1, OthersNames
    <2>. QED  BY <1>1, <2>2 DEF CreateOK, UpdateOK
  <1>2. CASE job[v].op = "update"
    <2>1. /\ job[v].alias \in Aliases /\ job[v].alias \notin Names(job[w])
          /\ job[v].new \in Aliases /\ job[v].new \notin Names(job[w])
      BY <1>2, CommandTypes, LifecycleNil DEF Names
    <2>2. /\ job[v].alias \in ListedAliases' <=> job[v].alias \in ListedAliases
          /\ RemovedAliases \subseteq RemovedAliases'
          /\ \A i \in SecretIds :
               rows[i].status = "ACTIVE" /\ rows[i].alias = job[v].alias
                 => rows'[i] = rows[i]
      BY <2>1, OthersNames
    <2>3. job[v].new \in ListedAliases' <=> job[v].new \in ListedAliases
      BY <2>1, OthersNames
    <2>4. ASSUME wpc[v] \in {"dup", "rotate", "save"}
          PROVE  rows'[held[v].id] = rows[held[v].id]
      <3>1. held[v].id \in SecretIds
        BY <1>2, <2>4, WriterStep DEF WritesHeld, HoldingPCs
      <3>2. rows[held[v].id] = [status |-> "ACTIVE", alias |-> job[v].alias]
        BY <1>2, <2>4 DEF UpdateOK
      <3>. QED  BY <2>2, <3>1, <3>2
    <2>. QED  BY <1>2, <2>2, <2>3, <2>4 DEF CreateOK, UpdateOK
  <1>. QED  BY <1>1, <1>2 DEF CreateOK, UpdateOK

\* A name that is taken and not listed is the name of a removed secret.
LEMMA TakenIsRemoved ==
  ASSUME TypeOK, NamesOK, NEW a \in Aliases, NEW id, Taken(a, id),
         a \notin ListedAliases
  PROVE  a \in RemovedAliases
  <1>1. PICK i \in SecretIds : rows[i].alias = a
    BY DEF Taken
  <1>2. rows[i].status \in Statuses /\ rows[i].status # "none"
    BY <1>1, LifecycleNil DEF TypeOK, StoresOK, NamesOK
  <1>3. rows[i].status # "ACTIVE"
    BY <1>1 DEF ListedAliases, Active
  <1>. QED  BY <1>1, <1>2, <1>3 DEF RemovedAliases, Statuses

\* An item of a checked batch fails on a removed secret's name only.
LEMMA CreateStepOK ==
  ASSUME TypeOK, NamesOK, NEW w \in Workers, Handle(w), job[w] \in Commands,
         job[w].op = "create", CreateOK(w), job'[w] = job[w], wpc'[w] # "idle"
  PROVE  CreateOK(w)'
  <1>0. /\ job[w].alias \in Aliases /\ job[w].alias \in Names(job[w])
        /\ wpc \in [Workers -> WorkerPCs]
    BY CommandTypes, LifecycleNil DEF Names, TypeOK, WorkersOK
  <1>1. CASE CreateLookup(w)
    <2>1. wpc[w] = "lookup" /\ rows' = rows
      BY <1>1 DEF CreateLookup, Serves, stores
    <2>2. ByAlias(job[w].alias) = {}
      BY <2>1 DEF CreateOK, ByAlias, ListedAliases
    <2>3. wpc'[w] = "save"
      BY <1>0, <1>1, <2>2 DEF CreateLookup, Goto
    <2>. QED  BY <2>1, <2>3 DEF CreateOK, ListedAliases, Active
  <1>2. CASE CreateSave(w)
    <2>1. wpc[w] = "save"
      BY <1>2 DEF CreateSave, Serves
    <2>2. PICK id \in SecretIds :
            IF Taken(job[w].alias, id)
              THEN Finish(w, "failed") /\ UNCHANGED rows
              ELSE Goto(w, "store")
      BY <1>2 DEF CreateSave
    <2>3. CASE Taken(job[w].alias, id)
      <3>1. job[w].alias \in RemovedAliases
        BY <1>0, <2>1, <2>3, TakenIsRemoved DEF CreateOK
      <3>2. wpc'[w] = "failed" /\ rows' = rows
        BY <1>0, <2>2, <2>3 DEF Finish
      <3>. QED  BY <1>0, <3>1, <3>2 DEF CreateOK, RemovedAliases
    <2>4. CASE ~Taken(job[w].alias, id)
      <3>1. wpc'[w] = "store"
        BY <1>0, <2>2, <2>4 DEF Goto
      <3>. QED  BY <3>1 DEF CreateOK
    <2>. QED  BY <2>3, <2>4
  <1>3. CASE CreateStore(w)
    <2>1. wpc'[w] = "ok"
      BY <1>0, <1>3 DEF CreateStore, Finish
    <2>. QED  BY <2>1 DEF CreateOK
  <1>. QED
    BY <1>1, <1>2, <1>3 DEF Handle, UpdateLookup, UpdateDuplicate, UpdateRotate,
       UpdateSave, RemoveLookup, RemoveSave, RemoveDestroy, ExportList,
       ExportLoad, Serves, CreateOK

LEMMA UpdateStepOK ==
  ASSUME TypeOK, Safe, NamesOK, NEW w \in Workers, Handle(w),
         job[w] \in Commands, job[w].op = "update", UpdateOK(w),
         job'[w] = job[w], wpc'[w] # "idle"
  PROVE  UpdateOK(w)'
  <1>0. /\ job[w].alias \in Aliases /\ job[w].alias \in Names(job[w])
        /\ job[w].new \in Aliases /\ job[w].new \in Names(job[w])
        /\ wpc \in [Workers -> WorkerPCs] /\ held \in [Workers -> Held \cup {Nil}]
    BY CommandTypes, LifecycleNil DEF Names, TypeOK, WorkersOK
  <1>1. CASE UpdateLookup(w)
    <2>1. wpc[w] = "lookup" /\ rows' = rows
      BY <1>1 DEF UpdateLookup, Serves, stores
    <2>2. ByAlias(job[w].alias) # {}
      BY <2>1 DEF UpdateOK, ByAlias, ListedAliases
    <2>3. PICK id \in ByAlias(job[w].alias) : Hold(w, id)
      BY <1>1, <2>2 DEF UpdateLookup
    <2>4. id \in SecretIds
          /\ rows[id] = [status |-> "ACTIVE", alias |-> job[w].alias]
      BY <2>3 DEF ByAlias, Active, TypeOK, StoresOK
    <2>5. held'[w].id = id
      BY <1>0, <2>3 DEF Hold
    <2>6. wpc'[w] = IF Renames(job[w]) THEN "dup" ELSE Write(job[w])
      BY <1>0, <1>1, <2>2 DEF UpdateLookup, Goto
    <2>. QED
      BY <2>1, <2>4, <2>5, <2>6 DEF UpdateOK, Write, ListedAliases, Active
  <1>2. CASE UpdateDuplicate(w)
    <2>1. wpc[w] = "dup" /\ rows' = rows
      BY <1>2 DEF UpdateDuplicate, Serves, stores
    <2>2. ByAlias(job[w].new) = {}
      BY <2>1 DEF UpdateOK, ByAlias, ListedAliases
    <2>3. wpc'[w] = Write(job[w]) /\ held'[w] = held[w]
      BY <1>0, <1>2, <2>2 DEF UpdateDuplicate, Goto
    <2>. QED  BY <2>1, <2>3 DEF UpdateOK, Write, ListedAliases, Active
  <1>3. CASE UpdateRotate(w)
    <2>1. /\ wpc[w] = "rotate" /\ rows' = rows /\ held'[w] = held[w]
          /\ wpc'[w] = "save"
      BY <1>0, <1>3 DEF UpdateRotate, Serves, Goto
    <2>. QED  BY <2>1 DEF UpdateOK, ListedAliases, Active
  <1>4. CASE UpdateSave(w)
    <2>1. wpc[w] = "save"
      BY <1>4 DEF UpdateSave, Serves
    <2>2. held[w].id \in SecretIds
          /\ rows[held[w].id] = [status |-> "ACTIVE", alias |-> job[w].alias]
      BY <2>1, WriterStep DEF UpdateOK, WritesHeld
    <2>3. CASE Taken(job[w].new, held[w].id)
      <3>1. Renames(job[w])
        BY <1>0, <2>2, <2>3, LifecycleNil DEF Taken, NamesOK, Renames
      <3>2. job[w].new \in RemovedAliases
        BY <1>0, <2>1, <2>3, <3>1, TakenIsRemoved DEF UpdateOK
      <3>3. wpc'[w] = "failed" /\ rows' = rows
        BY <1>0, <1>4, <2>3 DEF UpdateSave, Finish
      <3>. QED  BY <1>0, <3>2, <3>3 DEF UpdateOK, RemovedAliases
    <2>4. CASE ~Taken(job[w].new, held[w].id)
      <3>1. wpc'[w] = "ok"
        BY <1>0, <1>4, <2>4 DEF UpdateSave, Finish
      <3>. QED  BY <3>1 DEF UpdateOK
    <2>. QED  BY <2>3, <2>4
  <1>. QED
    BY <1>1, <1>2, <1>3, <1>4 DEF Handle, CreateLookup, CreateSave, CreateStore,
       RemoveLookup, RemoveSave, RemoveDestroy, ExportList, ExportLoad, Serves,
       UpdateOK

LEMMA HandleWrites ==
  ASSUME TypeOK, Safe, NamesOK, AwaitedOK, AloneOK, WritesOK,
         NEW w \in Workers, Handle(w)
  PROVE  WritesOK'
  <1>1. /\ waiting' = waiting /\ clean' = clean
        /\ \A v \in Workers \ {w} :
             wpc'[v] = wpc[v] /\ job'[v] = job[v] /\ held'[v] = held[v]
        /\ \A p \in Clients : waiting[p] \subseteq Workers
    BY HandleFrame DEF TypeOK, ClientsOK
  <1>2. SUFFICES ASSUME NEW p \in Clients, clean[p], Apart(p)',
                        NEW v \in waiting[p]
                 PROVE  CreateOK(v)' /\ UpdateOK(v)'
    BY <1>1 DEF WritesOK
  <1>3. /\ w \in waiting[p] /\ wpc'[w] # "idle" /\ job'[w] = job[w]
        /\ job[w] \in Commands
        /\ job[w].op \in {"remove", "export"} => waiting[p] = {w}
    BY <1>2, AloneHandler
  <1>4. \A u \in waiting[p] : job'[u] = job[u] /\ u \in Workers
    BY <1>1, <1>3
  <1>5. Apart(p)
    BY <1>1, <1>2, <1>4 DEF Apart
  <1>6. CreateOK(w) /\ UpdateOK(w) /\ CreateOK(v) /\ UpdateOK(v)
    BY <1>2, <1>3, <1>5 DEF WritesOK
  <1>7. CASE v = w
    <2>1. job[w].op # "create" => CreateOK(w)'
      BY <1>3 DEF CreateOK
    <2>2. job[w].op # "update" => UpdateOK(w)'
      BY <1>3 DEF UpdateOK
    <2>. QED
      BY <1>3, <1>6, <1>7, <2>1, <2>2, CreateStepOK, UpdateStepOK
  <1>8. CASE v # w
    <2>1. job[w].op \in {"create", "update"}
      BY <1>2, <1>3, <1>8 DEF Commands, CreateCommands, UpdateCommands,
         RemoveCommands, ExportCommands
    <2>2. v \in Workers /\ job[v] \in Commands
      BY <1>2, <1>4 DEF AwaitedOK, TypeOK, WorkersOK
    <2>3. SavesOwn(w)
      BY <1>3, <1>6, <2>1, BatchSaves
    <2>4. Names(job[v]) \cap Names(job[w]) = {}
      BY <1>2, <1>3, <1>5, <1>8 DEF Apart
    <2>. QED
      BY <1>1, <1>3, <1>6, <1>8, <2>1, <2>2, <2>3, <2>4, OthersOK
  <1>. QED  BY <1>7, <1>8

\* A call that finds nobody at work has the vault to itself; phase 1 has
\* just checked its commands.
LEMMA CallClean ==
  ASSUME TypeOK, AwaitedOK, NEW p \in Clients, Call(p)
  PROVE  CleanOK'
  <1>1. PICK W \in SUBSET Free : \E batch \in [W -> Commands] :
          /\ Start(p, batch)
          /\ \A w \in W : Checked(batch[w])
    BY CallChecks
  <1>2. PICK batch \in [W -> Commands] :
          /\ Start(p, batch)
          /\ \A w \in W : Checked(batch[w])
    BY <1>1
  <1>3. /\ rows' = rows /\ missing' = missing
        /\ waiting' = [waiting EXCEPT ![p] = W]
        /\ \A q \in Clients : clean'[q] => q = p /\ Free = Workers
        /\ \A w \in Workers :
             /\ wpc'[w] = IF w \in W THEN "lookup" ELSE wpc[w]
             /\ job'[w] = IF w \in W THEN batch[w] ELSE job[w]
    BY <1>2 DEF Start, stores
  <1>4. waiting'[p] = W /\ W \subseteq Workers
    BY <1>3 DEF TypeOK, ClientsOK, Free
  <1>5. AloneOK'
    BY <1>3, <1>4 DEF AloneOK, Alone, Free
  <1>6. missing \cap W = {}
    BY DEF AwaitedOK, Free
  <1>7. ExportsOK'
    BY <1>3, <1>4, <1>6 DEF ExportsOK, ExportOK
  <1>8. ListedAliases' = ListedAliases
    BY <1>3 DEF ListedAliases, Active
  <1>9. ASSUME NEW w \in W  PROVE CreateOK(w)' /\ UpdateOK(w)'
    <2>1. wpc'[w] = "lookup" /\ job'[w] = batch[w] /\ Checked(job'[w])
      BY <1>2, <1>3, <1>4
    <2>. QED  BY <1>8, <2>1 DEF CreateOK, UpdateOK, Checked
  <1>10. WritesOK'
    BY <1>3, <1>4, <1>9 DEF WritesOK
  <1>. QED  BY <1>5, <1>7, <1>10 DEF CleanOK

\* A call that has the vault to itself is the only one.
LEMMA ReturnClean ==
  ASSUME TypeOK, AwaitedOK, CleanOK, NEW p \in Clients, Return(p)
  PROVE  CleanOK'
  <1>1. ASSUME NEW q \in Clients  PROVE ~clean'[q]
    <2>1. CASE q = p
      BY <2>1 DEF Return, TypeOK, ClientsOK
    <2>2. CASE q # p
      <3>1. PICK w \in waiting[p] : TRUE
        BY DEF Return
      <3>2. w \in Workers /\ wpc[w] # "idle" /\ w \notin waiting[q]
        BY <2>2, <3>1 DEF AwaitedOK, TypeOK, ClientsOK
      <3>3. ~clean[q]
        BY <3>2 DEF CleanOK, AloneOK, Alone
      <3>. QED  BY <2>2, <3>3 DEF Return, TypeOK, ClientsOK
    <2>. QED  BY <2>1, <2>2
  <1>. QED  BY <1>1 DEF CleanOK, AloneOK, ExportsOK, WritesOK

LEMMA CleanStep ==
  ASSUME TypeOK, Safe, NamesOK, AwaitedOK, CleanOK, [Next]_vars
  PROVE  CleanOK'
  <1>1. ASSUME NEW w \in Workers, Handle(w)  PROVE CleanOK'
    BY <1>1, HandleAlone, HandleExports, HandleWrites DEF CleanOK
  <1>2. CASE Crash
    BY <1>2 DEF Crash, CleanOK, AloneOK, ExportsOK, WritesOK
  <1>3. CASE UNCHANGED vars
    <2>1. AloneOK'
      BY <1>3 DEF vars, working, history, CleanOK, AloneOK, Alone
    <2>2. ExportsOK'
      BY <1>3 DEF vars, stores, working, history, CleanOK, ExportsOK, ExportOK,
         Active
    <2>3. WritesOK'
      BY <1>3 DEF vars, stores, working, history, CleanOK, WritesOK, Apart,
         CreateOK, UpdateOK, ListedAliases, RemovedAliases, Active
    <2>. QED  BY <2>1, <2>2, <2>3 DEF CleanOK
  <1>. QED  BY <1>1, <1>2, <1>3, CallClean, ReturnClean DEF Next

\* The invariant of a client's call, with what it rests on.
CallInv == LifecycleInv /\ NamesOK /\ AwaitedOK /\ CleanOK

LEMMA CallInvHolds == Spec => []CallInv
  <1>1. Init => CallInv
    <2> SUFFICES ASSUME Init  PROVE CallInv
      OBVIOUS
    <2>1. NamesOK
      BY LifecycleNil DEF Init, NamesOK, NoRow
    <2>2. AwaitedOK /\ CleanOK
      BY DEF Init, AwaitedOK, CleanOK, AloneOK, ExportsOK, WritesOK
    <2>. QED  BY <2>1, <2>2, InitInv DEF CallInv
  <1>2. CallInv /\ [Next]_vars => CallInv'
    BY NextInv, NamesStep, AwaitedStep, CleanStep DEF CallInv, LifecycleInv
  <1>. QED  BY <1>1, <1>2, PTL DEF Spec

(***************************************************************************)
(* Phase 1 is enough for a batch that has the vault to itself: an item     *)
(* fails only if two items share a name or it takes a removed secret's     *)
(* name, which phase 1 does not look at.                                   *)
(***************************************************************************)
THEOREM CheckedBatchSucceeds == Spec => []CheckedBatchIsWritten
  <1>1. CallInv => CheckedBatchIsWritten
    <2> SUFFICES ASSUME CallInv, NEW p \in Clients, NEW w \in waiting[p],
                        clean[p], wpc[w] = "failed",
                        job[w].op \in {"create", "update"}, Apart(p)
                 PROVE  Names(job[w]) \cap RemovedAliases # {}
      BY DEF CheckedBatchIsWritten, Apart
    <2>. QED  BY DEF CallInv, CleanOK, WritesOK, CreateOK, UpdateOK
  <1>. QED  BY <1>1, CallInvHolds, PTL

(***************************************************************************)
(* An export that has the vault to itself reports no secret MISSING unless *)
(* a crash, or handlers that overlapped, spoiled one before.               *)
(***************************************************************************)
THEOREM ExportFindsAll == Spec => []ExportIsComplete
  <1>1. CallInv => ExportIsComplete
    BY DEF CallInv, CleanOK, ExportsOK, ExportOK, ExportIsComplete
  <1>. QED  BY <1>1, CallInvHolds, PTL
=============================================================================
