--------------------------- MODULE MCLearnerRead ---------------------------
(***************************************************************************)
(* LearnerRead for TLC.  The scenarios keep apart what would be too much   *)
(* together.                                                               *)
(***************************************************************************)
EXTENDS LearnerRead

CONSTANTS t1, t2, t3, q1, q2

Quiet == [txns |-> {t1, t2}, imported |-> {}, writeFirst |-> FALSE, splits |-> FALSE, compacts |-> 0,
          log |-> 3, bgFlush |-> FALSE, crashes |-> 0, snapshots |-> 0, destroys |-> 0,
          failing |-> {}, failures |-> 0, queries |-> {}]

OneQuery == [Quiet EXCEPT !.queries = {q1}]
OneImport == [OneQuery EXCEPT !.txns = {t2}, !.imported = {t2}, !.log = 2]

\* With queries: a split, a crash, a removal with return; an import beside a
\* snapshot, a split with a failing write, a removal; two imports read by two
\* queries.
ReadScenarios == {
    [OneQuery EXCEPT !.splits = TRUE],
    [OneQuery EXCEPT !.txns = {t1}, !.crashes = 1, !.compacts = 1],
    [OneImport EXCEPT !.snapshots = 1, !.compacts = 1],
    [OneImport EXCEPT !.splits = TRUE, !.failures = 1, !.failing = {"write"}],
    [OneImport EXCEPT !.snapshots = 1, !.destroys = 1],
    [OneQuery EXCEPT !.txns = {t1}, !.snapshots = 1, !.destroys = 1],
    [Quiet EXCEPT !.txns = {t2, t3}, !.imported = {t2, t3}, !.log = 2, !.queries = {q1, q2}]}

\* A snapshot whose write or flush may fail.
FailingSnapshot == [Quiet EXCEPT !.compacts = 1, !.snapshots = 1, !.failures = 1, !.failing = {"write", "flush"}]

\* Without queries: longer logs with an import in any order and a failing
\* write; snapshots, also with calls of the storage that fail; the background
\* flush of TxnMergeTree, beside imports and beside snapshots.
RowsScenarios == {
    [Quiet EXCEPT !.imported = {t1}, !.writeFirst = TRUE, !.splits = TRUE, !.compacts = 1, !.log = 4,
                  !.crashes = 1, !.failures = 1, !.failing = {"write"}],
    [Quiet EXCEPT !.imported = {t1}, !.compacts = 1, !.crashes = 1, !.snapshots = 1, !.destroys = 1],
    [FailingSnapshot EXCEPT !.imported = {t1}, !.crashes = 1],
    [Quiet EXCEPT !.bgFlush = TRUE, !.imported = {t1}, !.compacts = 1, !.log = 4, !.crashes = 1],
    [FailingSnapshot EXCEPT !.bgFlush = TRUE, !.crashes = 1]}

\* A snapshot whose write fails, and nothing else.
FailingWrite == {[FailingSnapshot EXCEPT !.txns = {t1}, !.failing = {"write"}]}

AllScenarios == ReadScenarios \cup RowsScenarios

\* One of each kind, for liveness.
EndScenarios == {
    [OneQuery EXCEPT !.txns = {t1}, !.log = 2, !.crashes = 1, !.snapshots = 1, !.destroys = 1],
    [OneQuery EXCEPT !.txns = {t2}, !.log = 2, !.imported = {t2}, !.splits = TRUE]}
=============================================================================
