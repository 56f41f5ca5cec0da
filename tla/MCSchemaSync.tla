---------------------------- MODULE MCSchemaSync ----------------------------
(***************************************************************************)
(* A table t1, a partitioned table t2, and an id for what TRUNCATE or      *)
(* CREATE makes.                                                           *)
(***************************************************************************)
EXTENDS SchemaSync

CONSTANTS t1, t2, t3, p1, p2

MCPartIds == [t \in Tables |-> IF t = t2 THEN {p1, p2} ELSE {}]
Only(tables) ==
    [t \in Tables |-> IF t \notin tables THEN NoTable
                      ELSE [cols |-> 0, parts |-> IF t = t2 THEN {p1} ELSE {}]]

Scenario(tables, jobs, maxVersion, maxFaults) ==
    [first |-> Only(tables), jobs |-> jobs, versions |-> maxVersion, faults |-> maxFaults]

MCScenarios == {
    Scenario({t1}, {"drop", "recover", "alter"}, 4, 1),
    Scenario({t2}, {"drop", "recover"}, 3, 1),
    Scenario({t2}, {"drop", "recover", "partition"}, 4, 0),
    Scenario({t2}, {"alter", "partition"}, 3, 1),
    Scenario({t2}, {"drop", "alter", "partition"}, 3, 0),
    Scenario({t1}, {"create", "drop", "truncate"}, 3, 0)}

\* A partitioned table that is dropped and recovered while a call fails.
RecoverScenario == {Scenario({t2}, {"drop", "recover"}, 3, 1)}
=============================================================================
