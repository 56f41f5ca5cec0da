----------------------------- MODULE SchemaSync -----------------------------
(***************************************************************************)
(* TiFlash's copy of the schema: TiDBSchemaSyncer, SchemaBuilder, and the  *)
(* task of SchemaSyncService that syncs and then drops tables for good.    *)
(*                                                                         *)
(* A storage has a tombstone (0: alive), the definition in its table info  *)
(* (info: how many columns have been added; parts) and the columns that it *)
(* really has (cols).  Alters are written to the create statement on disk, *)
(* so storages survive a restart; cur_version and last_gc_safe_point do    *)
(* not.                                                                    *)
(***************************************************************************)
EXTENDS SchemaVersions, SequencesExt

CONSTANTS
    NoStorage,          \* what an id is mapped to when TiFlash has no such storage
    MaxNumberOfDiffs    \* maxNumberOfDiffs

VARIABLES
    storage,        \* ManagedStorages
    curVersion,     \* cur_version
    sync,           \* the call of syncSchemas that holds schema_mutex
    service,        \* the task of SchemaSyncService
    lastSafePoint,  \* gc_context.last_gc_safe_point
    unrecovered,    \* history: tombstones that a full sync met and TiDB has the table of
    stale,          \* history: storages whose RECOVER was not applied to the columns
    faults          \* restarts and failing calls so far

syncVars == <<storage, curVersion, sync, service, lastSafePoint, unrecovered, stale, faults>>
vars == <<ddlVars, syncVars>>

MaxFaults == scenario.faults    \* bound on restarts and failing calls

Steps == {"create", "tombstone", "setParts", "alter", "diff", "table", "unmapped"}
Step(op, id, cols, parts) == [op |-> op, id |-> id, cols |-> cols, parts |-> parts]
Idle == [by |-> "none", target |-> 0, mode |-> "none", todo |-> <<>>]
Waiting == [pc |-> "idle", safePoint |-> 0, id |-> NoTable]

Exists(id) == storage[id] # NoStorage
IsTombstone(id) == Exists(id) /\ storage[id].tombstone # 0

-----------------------------------------------------------------------------
\* SchemaBuilder: the steps on storages that every operation consists of.

ForParts(op, parts, cols) == [i \in 1..Cardinality(parts) |-> Step(op, SetToSeq(parts)[i], cols, {})]

\* applyCreateLogicalTable: partitions first.
CreateLogicalTable(t, info) ==
    ForParts("create", info.parts, info.cols) \o <<Step("create", t, info.cols, info.parts)>>

\* applyDropTable: the partitions that the storage knows of first.
DropTableSteps(t) ==
    IF ~Exists(t) THEN <<>>
    ELSE ForParts("tombstone", storage[t].parts, 0) \o <<Step("tombstone", t, 0, {})>>

\* Mutant: the partitions keep their columns.
AlterLogicalTableAlone(t, info) == <<Step("alter", t, info.cols, {})>>

\* applyAlterLogicalTable: the logical table first.
AlterLogicalTable(t, info) ==
    <<Step("alter", t, info.cols, {})>> \o ForParts("alter", info.parts, info.cols)

\* applyPartitionDiff: new partitions have the columns of TiFlash's table info.
PartitionDiff(t, info) ==
    IF storage[t].parts = info.parts THEN <<>>
    ELSE ForParts("tombstone", storage[t].parts \ info.parts, 0)
         \o ForParts("create", info.parts \ storage[t].parts, storage[t].info)
         \o <<Step("setParts", t, 0, info.parts)>>

\* applyDiff: every diff is applied with the tables of the target version.
DiffThrows(diff, schema) ==
    /\ diff.type \in {"alter", "partition"}
    /\ schema[diff.table] = NoTable \/ ~Exists(diff.table)

ApplyDiff(diff, schema) ==
    LET t == diff.table
        create == IF schema[t] = NoTable THEN <<>> ELSE CreateLogicalTable(t, schema[t])
    IN  CASE diff.type \in {"create", "recover"} -> create
          [] diff.type = "drop" -> DropTableSteps(t)
          [] diff.type = "truncate" -> DropTableSteps(diff.old) \o create
          [] diff.type = "alter" -> AlterLogicalTable(t, schema[t])
          [] diff.type = "partition" -> PartitionDiff(t, schema[t])

\* syncAllSchema: the tables of TiDB, then the storages TiDB has no table for.
AllSchema(schema) ==
    LET tables == {t \in Tables : schema[t] # NoTable}
    IN  ForParts("table", tables, 0) \o <<Step("unmapped", NoTable, 0, {})>>

SyncTable(t, info) ==
    IF ~Exists(t) THEN CreateLogicalTable(t, info) \o AlterLogicalTable(t, info)
    ELSE PartitionDiff(t, info) \o AlterLogicalTable(t, info)

Unmapped(schema) == ForParts("tombstone", {id \in Ids : Exists(id)} \ IdsOf(schema), 0)

-----------------------------------------------------------------------------
SyncInit ==
    /\ storage = [id \in Ids |-> NoStorage]
    /\ curVersion = 0
    /\ sync = Idle
    /\ service = Waiting
    /\ lastSafePoint = 0
    /\ unrecovered = {} /\ stale = {}
    /\ faults = 0

Init == DDLInit /\ SyncInit

\* isTooOldSchema
TooOld(version) == curVersion = 0 \/ version - curVersion > MaxNumberOfDiffs

\* syncSchemas, called by the service or by a query, up to the list of what to do.
SyncStart(by) ==
    /\ sync = Idle
    /\ by = "service" => service.pc = "fetched"
    /\ Latest > curVersion
    /\ sync' = [by |-> by, target |-> Latest,
                mode |-> IF TooOld(Latest) THEN "all" ELSE "diffs",
                todo |-> IF TooOld(Latest) THEN AllSchema(Schema)
                         ELSE [i \in 1..(Latest - curVersion) |-> Step("diff", curVersion + i, 0, {})]]
    /\ service' = IF by = "service" THEN [service EXCEPT !.pc = "sync"] ELSE service
    /\ UNCHANGED <<ddlVars, storage, curVersion, lastSafePoint, unrecovered, stale, faults>>

\* syncSchemas of the service returns at once: there is nothing new.
SyncNothing ==
    /\ sync = Idle /\ service.pc = "fetched"
    /\ Latest <= curVersion
    /\ service' = [service EXCEPT !.pc = "gc"]
    /\ UNCHANGED <<ddlVars, storage, curVersion, sync, lastSafePoint, unrecovered, stale, faults>>

Todo == Head(sync.todo)
Target == SchemaAt(sync.target)
Doing(op) == sync.todo # <<>> /\ Todo.op = op
Done == sync' = [sync EXCEPT !.todo = Tail(@)]

\* An exception: tryLoadSchemaDiffs turns to loadAllSchema, which throws to the caller.
Throw ==
    IF sync.mode = "diffs"
    THEN /\ sync' = [sync EXCEPT !.mode = "all", !.todo = AllSchema(Target)]
         /\ UNCHANGED service
    ELSE /\ sync' = Idle
         /\ service' = IF sync.by = "service" THEN Waiting ELSE service

StartDiff ==
    /\ Doing("diff")
    /\ LET diff == versions[Todo.id]
       IN  IF DiffThrows(diff, Target) THEN Throw
           ELSE /\ sync' = [sync EXCEPT !.todo = ApplyDiff(diff, Target) \o Tail(@)]
                /\ UNCHANGED service
    /\ UNCHANGED <<ddlVars, storage, curVersion, lastSafePoint, unrecovered, stale, faults>>

\* A tombstone that the loop of syncAllSchema meets stays one.
StartTable ==
    /\ Doing("table")
    /\ LET t == Todo.id
       IN  /\ sync' = [sync EXCEPT !.todo = SyncTable(t, Target[t]) \o Tail(@)]
           /\ unrecovered' = unrecovered \cup
                 IF Exists(t) THEN {id \in {t} \cup Target[t].parts : IsTombstone(id)} ELSE {}
    /\ UNCHANGED <<ddlVars, storage, curVersion, service, lastSafePoint, stale, faults>>

StartUnmapped ==
    /\ Doing("unmapped")
    /\ sync' = [sync EXCEPT !.todo = Unmapped(Target)]
    /\ UNCHANGED <<ddlVars, storage, curVersion, service, lastSafePoint, unrecovered, stale, faults>>

\* applyCreatePhysicalTable: create, or RECOVER a tombstone, which sets the
\* table info and leaves the columns.
CreatePhysicalTable ==
    /\ Doing("create") /\ Done
    /\ LET id == Todo.id
       IN  IF ~Exists(id)
           THEN /\ storage' = [storage EXCEPT ![id] =
                      [tombstone |-> 0, info |-> Todo.cols, parts |-> Todo.parts, cols |-> 1..Todo.cols]]
                /\ unrecovered' = unrecovered \ {id} /\ stale' = stale \ {id}
           ELSE IF ~IsTombstone(id) THEN UNCHANGED <<storage, unrecovered, stale>>
           ELSE /\ storage' = [storage EXCEPT ![id] =
                      [@ EXCEPT !.tombstone = 0, !.info = Todo.cols, !.parts = Todo.parts]]
                /\ unrecovered' = unrecovered \ {id}
                /\ stale' = IF storage[id].info = Todo.cols THEN stale ELSE stale \cup {id}
    /\ UNCHANGED <<ddlVars, curVersion, service, lastSafePoint, faults>>

\* Mutant: a tombstone is not made again.
DropPhysicalTableOnce ==
    /\ Doing("tombstone") /\ Done
    /\ IF Exists(Todo.id) /\ ~IsTombstone(Todo.id)
       THEN /\ storage' = [storage EXCEPT ![Todo.id].tombstone = now + 1]
            /\ now' = now + 1
       ELSE UNCHANGED <<storage, now>>
    /\ UNCHANGED <<scenario, versions, dropTs, safePoint, curVersion, service, lastSafePoint, unrecovered, stale, faults>>

\* applyDropPhysicalTable: the tombstone is a timestamp after TiDB's drop.
DropPhysicalTable ==
    /\ Doing("tombstone") /\ Done
    /\ IF Exists(Todo.id)
       THEN /\ storage' = [storage EXCEPT ![Todo.id].tombstone = now + 1]
            /\ now' = now + 1
       ELSE UNCHANGED <<storage, now>>
    /\ unrecovered' = unrecovered \ {Todo.id}
    /\ UNCHANGED <<scenario, versions, dropTs, safePoint, curVersion, service, lastSafePoint, stale, faults>>

\* The end of applyPartitionDiff.
AlterPartitions ==
    /\ Doing("setParts") /\ Done
    /\ storage' = IF Exists(Todo.id) THEN [storage EXCEPT ![Todo.id].parts = Todo.parts] ELSE storage
    /\ UNCHANGED <<ddlVars, curVersion, service, lastSafePoint, unrecovered, stale, faults>>

\* applyAlterPhysicalTable: the columns between the two table infos are added;
\* one that the storage lacks although its table info has it stays away.
AlterPhysicalTable ==
    /\ Doing("alter")
    /\ LET id == Todo.id
       IN  IF ~Exists(id) THEN Throw /\ UNCHANGED storage
           ELSE /\ Done /\ UNCHANGED service
                /\ storage' = [storage EXCEPT ![id] =
                      [@ EXCEPT !.info = Todo.cols, !.cols = @ \cup ((storage[id].info + 1)..Todo.cols)]]
    /\ UNCHANGED <<ddlVars, curVersion, lastSafePoint, unrecovered, stale, faults>>

\* Mutant: off by one in the version.
SyncEndNext ==
    /\ sync # Idle /\ sync.todo = <<>>
    /\ curVersion' = sync.target + 1
    /\ sync' = Idle
    /\ service' = IF sync.by = "service" THEN [service EXCEPT !.pc = "gc"] ELSE service
    /\ UNCHANGED <<ddlVars, storage, lastSafePoint, unrecovered, stale, faults>>

\* syncSchemas returns.
SyncEnd ==
    /\ sync # Idle /\ sync.todo = <<>>
    /\ curVersion' = sync.target
    /\ sync' = Idle
    /\ service' = IF sync.by = "service" THEN [service EXCEPT !.pc = "gc"] ELSE service
    /\ UNCHANGED <<ddlVars, storage, lastSafePoint, unrecovered, stale, faults>>

-----------------------------------------------------------------------------
\* The task of SchemaSyncService: safe point, sync, gc.
GetGCSafePoint ==
    /\ service.pc = "idle"
    /\ service' = [Waiting EXCEPT !.pc = "fetched", !.safePoint = safePoint]
    /\ UNCHANGED <<ddlVars, storage, curVersion, sync, lastSafePoint, unrecovered, stale, faults>>

\* Mutant: the safe point is read after the sync.
GcCandidateNow(id) == IsTombstone(id) /\ storage[id].tombstone < safePoint

GcCandidate(id) == IsTombstone(id) /\ storage[id].tombstone < service.safePoint

\* gc takes the next storage to drop ...
GcPick(id) ==
    /\ service.pc = "gc" /\ service.safePoint # lastSafePoint
    /\ GcCandidate(id)
    /\ service' = [service EXCEPT !.pc = "picked", !.id = id]
    /\ UNCHANGED <<ddlVars, storage, curVersion, sync, lastSafePoint, unrecovered, stale, faults>>

\* ... waits for schema_mutex, which getDBInfoByMappedName takes ...
GcLookup ==
    /\ service.pc = "picked" /\ sync = Idle
    /\ service' = [service EXCEPT !.pc = "drop"]
    /\ UNCHANGED <<ddlVars, storage, curVersion, sync, lastSafePoint, unrecovered, stale, faults>>

\* ... and drops the storage, whatever a sync has made of it since.
GcDrop ==
    /\ service.pc = "drop"
    /\ storage' = [storage EXCEPT ![service.id] = NoStorage]
    /\ service' = [service EXCEPT !.pc = "gc", !.id = NoTable]
    /\ UNCHANGED <<ddlVars, curVersion, sync, lastSafePoint, unrecovered, stale, faults>>

GcEnd ==
    /\ service.pc = "gc"
    /\ service.safePoint # lastSafePoint => \A id \in Ids : ~GcCandidate(id)
    /\ lastSafePoint' = service.safePoint
    /\ service' = Waiting
    /\ UNCHANGED <<ddlVars, storage, curVersion, sync, unrecovered, stale, faults>>

\* Mutant: a gc that fails counts as done.
CallFailsCounts ==
    /\ faults < MaxFaults /\ faults' = faults + 1
    /\ \/ sync # Idle /\ Throw /\ UNCHANGED lastSafePoint
       \/ /\ service.pc \in {"fetched", "gc", "picked", "drop"} /\ service' = Waiting
          /\ lastSafePoint' = service.safePoint /\ UNCHANGED sync
    /\ UNCHANGED <<ddlVars, storage, curVersion, unrecovered, stale>>

\* TiKV, PD or a drop fails with an exception.
CallFails ==
    /\ faults < MaxFaults /\ faults' = faults + 1
    /\ \/ sync # Idle /\ Throw
       \/ service.pc \in {"fetched", "gc", "picked", "drop"} /\ service' = Waiting /\ UNCHANGED sync
    /\ UNCHANGED <<ddlVars, storage, curVersion, lastSafePoint, unrecovered, stale>>

Restart ==
    /\ faults < MaxFaults /\ faults' = faults + 1
    /\ curVersion' = 0 /\ lastSafePoint' = 0
    /\ sync' = Idle /\ service' = Waiting
    /\ UNCHANGED <<ddlVars, storage, unrecovered, stale>>

SyncStep ==
    \/ StartDiff \/ StartTable \/ StartUnmapped
    \/ CreatePhysicalTable \/ DropPhysicalTable \/ AlterPartitions \/ AlterPhysicalTable
    \/ SyncEnd

ServiceStep ==
    \/ GetGCSafePoint \/ SyncStart("service") \/ SyncNothing
    \/ \E id \in Ids : GcPick(id)
    \/ GcLookup \/ GcDrop \/ GcEnd

Next ==
    \/ DDLNext /\ UNCHANGED syncVars
    \/ SyncStart("query")
    \/ SyncStep
    \/ ServiceStep
    \/ CallFails
    \/ Restart

Spec == Init /\ [][Next]_vars
FairSpec == Spec /\ WF_vars(SyncStep) /\ WF_vars(ServiceStep)

-----------------------------------------------------------------------------
Storages == [tombstone : Nat, info : Nat, parts : SUBSET Partitions, cols : SUBSET (1..MaxVersion)]

\* Types: a storage's tombstone is a timestamp PD has given out, a storage has
\* no column that its table info lacks, and no sync is ahead of TiDB.
TypeOK ==
    /\ storage \in [Ids -> Storages \cup {NoStorage}]
    /\ \A id \in Ids : Exists(id) => storage[id].tombstone <= now /\ storage[id].cols \subseteq 1..storage[id].info
    /\ curVersion \in 0..Latest /\ sync.target \in 0..Latest
    /\ \A i \in 1..Len(sync.todo) : sync.todo[i].op \in Steps
    /\ service.pc \in {"idle", "fetched", "sync", "gc", "picked", "drop"}
    /\ service.id \in Ids \cup {NoTable}
    /\ service.safePoint <= safePoint /\ lastSafePoint <= safePoint
    /\ unrecovered \subseteq Ids /\ stale \subseteq Ids

\* A partition that no logical table lists: left behind when a sync fails
\* between the partitions and their table, and hidden with it.
Orphan(id) == \A t \in Tables : id # t /\ (Exists(t) => id \notin storage[t].parts)

\* What TiDB has: a table or partition of its schema, or one that RECOVER TABLE
\* can still bring back.
Needed(id) ==
    \/ id \in IdsOf(Schema)
    \/ \E t \in Tables : Recoverable(t) /\ id \in {t} \cup LastInfo(t).parts /\ ~Orphan(id)
Dropped(id) == Exists(id) /\ storage'[id] = NoStorage

\* gc drops nothing that TiDB has or can recover, although it decides with the
\* safe point from before the sync (SchemaSyncService.cpp:26), waits for
\* schema_mutex between the decision and the drop, and a sync of a query may run
\* meanwhile.  Exempt are the tombstones in `unrecovered`, which TiDB has
\* recovered and a full sync has passed over (see GcRule), and, among what RECOVER
\* TABLE can bring back, partitions that no storage lists (Orphan): RECOVER
\* creates those again.
GcAfterTiDB == [][\A id \in Ids : Dropped(id) => id \in unrecovered \/ ~Needed(id)]_vars

\* The rule of applyDropPhysicalTable without the first exemption: "In such way
\* our table will be GC-ed later than TiDB, which is safe and correct."  The full
\* sync leaves a recovered table a tombstone, and gc drops it.
GcRule == [][\A id \in Ids : Dropped(id) => ~Needed(id)]_vars

\* When syncSchemas moves cur_version, whatever it applied (diffs with the
\* tables of a later version, everything after a failing diff, on top of what
\* an earlier call left half done), storages are TiDB's tables at that
\* version, and the others are tombstones.  Exempt are tombstones that a full
\* sync has passed over (`unrecovered`); the columns, not the table info, of a
\* storage that was recovered with a newer table info (`stale`); and partitions
\* that no storage lists (Orphan), which are alive after a sync that failed.
Matches(id, cols, parts) ==
    \/ id \in unrecovered
    \/ /\ Exists(id) /\ ~IsTombstone(id)
       /\ storage[id].info = cols /\ storage[id].parts = parts
       /\ storage[id].cols = 1..cols \/ id \in stale
MatchesSchema(schema) ==
    /\ \A t \in Tables : schema[t] # NoTable =>
          /\ Matches(t, schema[t].cols, schema[t].parts)
          /\ \A p \in schema[t].parts : Matches(p, schema[t].cols, {})
    /\ \A id \in Ids \ IdsOf(schema) : Exists(id) => IsTombstone(id) \/ Orphan(id)
SyncedStoragesMatch ==
    [][curVersion' > curVersion => MatchesSchema(SchemaAt(curVersion'))]_vars

\* gc catches up: again and again there is no storage left whose tombstone the
\* safe point has passed, although gc returns at once for a safe point that it
\* has used before (SchemaSyncService.cpp:65) and may fail half way.
Passed(id) == IsTombstone(id) /\ storage[id].tombstone < safePoint
GcCatchesUp == []<>(\A id \in Ids : ~Passed(id))

=============================================================================
