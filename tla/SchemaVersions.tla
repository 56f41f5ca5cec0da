--------------------------- MODULE SchemaVersions ---------------------------
(***************************************************************************)
(* TiDB's schema as TiFlash reads it from TiKV: a version per DDL job, the *)
(* diff of each version and the tables at that version; PD's timestamps    *)
(* and GC safe point.  External: modelled from how SchemaGetter,           *)
(* SchemaBuilder and SchemaSyncService use it.                             *)
(*                                                                         *)
(* The tables are those of one database.  The definition of a table is a   *)
(* number, changed by every DDL that alters columns, and the set of its    *)
(* partitions.  Ids of tables and of partitions are never used twice.      *)
(***************************************************************************)
EXTENDS Naturals, Sequences, FiniteSets, FiniteSetsExt

CONSTANTS
    Tables,         \* ids of tables
    PartIds,        \* the ids of the partitions a table may have, for every table
    NoTable,        \* what a table's id is mapped to when TiDB has no such table
    Scenarios       \* the tables at first, the DDL jobs to come and their bounds

Partitions == UNION {PartIds[t] : t \in Tables}
Ids == Tables \cup Partitions

ASSUME SchemaAssumption ==
    /\ Tables \cap Partitions = {}
    /\ \A t \in Tables, u \in Tables : t # u => PartIds[t] \cap PartIds[u] = {}
    /\ \A s \in Scenarios : s.versions \in Nat \ {0} /\ s.faults \in Nat

VARIABLES
    scenario,   \* the scenario of this behaviour
    versions,   \* diff and schema of every version
    dropTs,     \* when TiDB last dropped a table or partition, 0 for never
    now,        \* the last timestamp PD gave out
    safePoint   \* PD's GC safe point

ddlVars == <<scenario, versions, dropTs, now, safePoint>>

FirstSchema == scenario.first       \* the tables before the first sync
Jobs == scenario.jobs               \* kinds of DDL jobs
MaxVersion == scenario.versions     \* bound on schema versions

\* isLogicalPartitionTable
Partitioned(t) == PartIds[t] # {}

Latest == Len(versions)
SchemaAt(v) == versions[v].schema
Schema == SchemaAt(Latest)

\* The tables and partitions of a schema.
IdsOf(schema) ==
    LET tables == {t \in Tables : schema[t] # NoTable}
    IN  tables \cup UNION {schema[t].parts : t \in tables}

Used == UNION {IdsOf(SchemaAt(v)) : v \in 1..Latest}

\* The definition of a table that was dropped.
LastInfo(t) == SchemaAt(Max({v \in 1..Latest : SchemaAt(v)[t] # NoTable}))[t]

\* Can RECOVER TABLE still bring the table back?
Recoverable(t) == t \in Used /\ Schema[t] = NoTable /\ safePoint <= dropTs[t]

DDLInit ==
    /\ scenario \in Scenarios
    /\ versions = <<[type |-> "none", table |-> NoTable, old |-> NoTable, schema |-> FirstSchema]>>
    /\ dropTs = [id \in Ids |-> 0]
    /\ now = 1
    /\ safePoint = 0

\* A DDL job ends: the version goes up by one, and what it drops is dropped now.
Job(type, table, old, schema) ==
    /\ type \in Jobs /\ Latest < MaxVersion
    /\ versions' = Append(versions, [type |-> type, table |-> table, old |-> old, schema |-> schema])
    /\ LET gone == IdsOf(Schema) \ IdsOf(schema)
       IN  /\ dropTs' = [id \in Ids |-> IF id \in gone THEN now + 1 ELSE dropTs[id]]
           /\ now' = IF gone = {} THEN now ELSE now + 1
    /\ UNCHANGED <<scenario, safePoint>>

NewTable(t, parts) ==
    /\ t \notin Used
    /\ parts \in SUBSET PartIds[t]
    /\ Partitioned(t) <=> parts # {}

CreateTable(t, parts) ==
    /\ NewTable(t, parts)
    /\ Job("create", t, NoTable, [Schema EXCEPT ![t] = [cols |-> 0, parts |-> parts]])

DropTable(t) ==
    /\ Schema[t] # NoTable
    /\ Job("drop", t, NoTable, [Schema EXCEPT ![t] = NoTable])

RecoverTable(t) ==
    /\ Recoverable(t)
    /\ Job("recover", t, NoTable, [Schema EXCEPT ![t] = LastInfo(t)])

TruncateTable(t, u, parts) ==
    /\ Schema[t] # NoTable
    /\ Partitioned(t) <=> Partitioned(u)
    /\ NewTable(u, parts)
    /\ Job("truncate", u, t, [Schema EXCEPT ![t] = NoTable, ![u] = [cols |-> Schema[t].cols, parts |-> parts]])

AddColumn(t) ==
    /\ Schema[t] # NoTable
    /\ Job("alter", t, NoTable, [Schema EXCEPT ![t].cols = @ + 1])

\* Add, drop and truncate of partitions.
ChangePartitions(t, dropped, added) ==
    /\ Schema[t] # NoTable
    /\ dropped \subseteq Schema[t].parts /\ added \subseteq PartIds[t] \ Used
    /\ dropped \cup added # {}
    /\ (Schema[t].parts \ dropped) \cup added # {}
    /\ Job("partition", t, NoTable, [Schema EXCEPT ![t].parts = (@ \ dropped) \cup added])

\* TiDB's GC worker moves the safe point.
AdvanceSafePoint(sp) ==
    /\ safePoint < sp /\ sp <= now
    /\ safePoint' = sp
    /\ UNCHANGED <<scenario, versions, dropTs, now>>

DDLNext ==
    \/ \E t \in Tables, parts \in SUBSET Partitions : CreateTable(t, parts)
    \/ \E t \in Tables : DropTable(t)
    \/ \E t \in Tables : RecoverTable(t)
    \/ \E t \in Tables, u \in Tables, parts \in SUBSET Partitions : TruncateTable(t, u, parts)
    \/ \E t \in Tables : AddColumn(t)
    \/ \E t \in Tables, dropped \in SUBSET Partitions, added \in SUBSET Partitions :
          ChangePartitions(t, dropped, added)
    \/ \E sp \in 1..now : AdvanceSafePoint(sp)

=============================================================================
