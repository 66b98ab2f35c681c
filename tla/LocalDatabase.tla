--------------------------- MODULE LocalDatabase ---------------------------
(***************************************************************************)
(* The local database and the checkpoints its host keeps over it: DML      *)
(* calls executed row by row inside one storage transaction, and units of  *)
(* work begun, committed and rolled back around them.                      *)
(*                                                                         *)
(* The rows of a call are chosen as they are executed; the outcomes of     *)
(* earlier rows cannot change which rows the caller passed, so this is the *)
(* same set of behaviours as fixing the whole request first.               *)
(***************************************************************************)
EXTENDS Records, Sequences

CONSTANTS
    Fixtures,         \* the record sets a host may be configured with
    MaxCheckpoints,   \* bound: units open at once
    MaxRows           \* bound: rows of one DML call

ASSUME FixturesAssumption == \A fixture \in Fixtures : IsTable(fixture)

VARIABLES
    db,            \* the database as committed storage holds it
    checkpoints,   \* its snapshots, innermost last (RecordingHost.checkpoints)
    op,            \* the operation of the DML call being executed, or "none"
    work,          \* that call's transaction and copies of bin and sequences
    outcomes       \* the statuses of the rows it has executed

vars == <<db, checkpoints, op, work, outcomes>>

\* A fixture is loaded when the host creates the database: the records are
\* written as they are, and the bin and the sequences start empty.
Init ==
    /\ \E fixture \in Fixtures :
           db = [live     |-> fixture,
                 bin      |-> [id \in {} |-> Blank],
                 sequence |-> [o \in Objects |-> 0]]
    /\ checkpoints = <<>>
    /\ op = "none"
    /\ work = db
    /\ outcomes = <<>>

-----------------------------------------------------------------------------
(* One DML call: LocalDatabase::execute_dml.                               *)

BeginDml ==
    /\ op = "none"
    /\ op' \in Operations
    /\ work' = db
    /\ UNCHANGED <<db, checkpoints, outcomes>>

ExecuteRow ==
    /\ op # "none"
    /\ Len(outcomes) < MaxRows
    /\ \E row \in Rows :
           /\ DrawsId(op, row) => CanDraw(work, row.object)
           /\ LET result == RowResult(work, op, row)
              IN  /\ work' = result.db
                  /\ outcomes' = Append(outcomes, result.status)
    /\ UNCHANGED <<db, checkpoints, op>>

\* Rows may have failed: what the others did is committed all the same.
CommitDml ==
    /\ op # "none"
    /\ db' = work
    /\ op' = "none"
    /\ outcomes' = <<>>
    /\ UNCHANGED <<checkpoints, work>>

\* A DatabaseError from any row drops the transaction and both copies.
FailDml ==
    /\ op # "none"
    /\ work' = db
    /\ op' = "none"
    /\ outcomes' = <<>>
    /\ UNCHANGED <<db, checkpoints>>

-----------------------------------------------------------------------------
(* Units of work: RecordingHost::{begin,commit,rollback}_unit.             *)

BeginUnit ==
    /\ op = "none"
    /\ Len(checkpoints) < MaxCheckpoints
    /\ checkpoints' = Append(checkpoints, db)
    /\ UNCHANGED <<db, op, work, outcomes>>

Enclosing == SubSeq(checkpoints, 1, Len(checkpoints) - 1)

\* Mutant: every open unit is committed at once.
CommitAllUnits ==
    /\ op = "none"
    /\ checkpoints # <<>>
    /\ checkpoints' = <<>>
    /\ UNCHANGED <<db, op, work, outcomes>>

CommitUnit ==
    /\ op = "none"
    /\ checkpoints # <<>>
    /\ checkpoints' = Enclosing
    /\ UNCHANGED <<db, op, work, outcomes>>

RollbackUnit ==
    /\ op = "none"
    /\ checkpoints # <<>>
    /\ db' = checkpoints[Len(checkpoints)]
    /\ work' = db'
    /\ checkpoints' = Enclosing
    /\ UNCHANGED <<op, outcomes>>

Next ==
    \/ BeginDml \/ ExecuteRow \/ CommitDml \/ FailDml
    \/ BeginUnit \/ CommitUnit \/ RollbackUnit

Spec == Init /\ [][Next]_vars

-----------------------------------------------------------------------------
(* Properties                                                              *)

\* The database, its snapshots and the working copy keep their shape, and
\* outside a DML call the working copy is the database.
TypeOK ==
    /\ IsDatabase(db)
    /\ IsDatabase(work)
    /\ checkpoints \in Seq(Range(checkpoints))
    /\ \A d \in Range(checkpoints) : IsDatabase(d)
    /\ op \in Operations \cup {"none"}
    /\ op = "none" => work = db
    /\ outcomes \in Seq(Statuses)

\* Every database a reader may come to see: the committed one, the one the
\* call in progress would commit, and every one a rollback would bring back.
Views == {db, work} \cup Range(checkpoints)

\* Of one set of records.
HasDistinctUniqueValues(t) ==
    \A i, j \in DOMAIN t : \A f \in UniqueFields :
        i # j /\ i[1] = j[1] => ~SameValue(t[i][f], t[j][f])

HasRequiredFields(t) == \A i \in DOMAIN t : ~MissingRequired(t[i])

HasValidRecords(t) == HasDistinctUniqueValues(t) /\ HasRequiredFields(t)

\* Of one database.
HasDisjointIds(d) == DOMAIN d.live \cap DOMAIN d.bin = {}

HasDrawnIds(d) ==
    \A id \in DOMAIN d.live \cup DOMAIN d.bin : id[2] <= d.sequence[id[1]]

\* No interleaving of inserts, merging updates, undeletes and rollbacks leaves
\* two live records of an object with one unique value (in any letter case),
\* or a live record without a required field: validate_and_write guards every
\* write, an undelete included, whose value may have been taken meanwhile.
LiveRecordsAreValid == \A d \in Views : HasValidRecords(d.live)

\* An Id names a live record or a recycled one, never both, although a new Id
\* is checked against the live records only and rollbacks rewind sequences.
LiveAndRecycledAreDisjoint == \A d \in Views : HasDisjointIds(d)

\* Every Id in use has been drawn: what makes the check against live records
\* in assign_generated_id enough to avoid the recycled Ids as well.
IdsAreDrawn == \A d \in Views : HasDrawnIds(d)

RowStep == op # "none" /\ op' = op

\* A row that fails changes no stored and no recycled record: the undeleted
\* record it took out of the bin is back, and only a drawn number is spent.
FailedRowsLeaveNoRecord ==
    [][RowStep /\ outcomes'[Len(outcomes')] # "OK" =>
           work'.live = work.live /\ work'.bin = work.bin]_vars

\* Deleted records keep their fields and Ids: a row takes a record out of the
\* bin only by making it live again, and overwrites none of those it leaves.
RecycledRecordsAreRetained ==
    [][RowStep => \A id \in DOMAIN work.bin :
           \/ id \in DOMAIN work'.bin /\ work'.bin[id] = work.bin[id]
           \/ id \in DOMAIN work'.live \ DOMAIN work.live]_vars

Units == INSTANCE UnitsOfWork WITH copies <- Append(checkpoints, db)

\* Snapshots taken of the one database, and put back, give nested units of
\* work: each as if it had a private copy (see UnitsOfWork).
ImplementsUnitsOfWork == Units!Spec

=============================================================================
