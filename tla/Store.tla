-------------------------------- MODULE Store --------------------------------
(***************************************************************************)
(* The generic repository Store[T], seen as what its statements do to one  *)
(* row.  A row is a record                                                 *)
(*     [status, version, contents, deleted]                                *)
(* where contents stands for every business field an update overwrites and *)
(* deleted for a set deleted_at.  A code that was never inserted has the   *)
(* row NoRow.  Rows are named by their code: the code never changes and    *)
(* its unique index ignores deleted_at, so a code names one row for ever.  *)
(*                                                                         *)
(* Every service operation reads outside a transaction (Get, FindByCode)   *)
(* and writes in one (CreateAudited, UpdateAudited, DeleteAudited): the    *)
(* row and its audit entry change together or not at all.                  *)
(***************************************************************************)
EXTENDS Naturals

CONSTANT NoContents     \* what a row that was never inserted contains

NoStatus == "none"     \* also stands for the empty beforeState of a creation

NoRow == [status |-> NoStatus, version |-> 0, contents |-> NoContents, deleted |-> FALSE]

RowType(Status, Contents, Versions) ==
    [status   : Status \cup {NoStatus},
     version  : Versions,
     contents : Contents \cup {NoContents},
     deleted  : BOOLEAN]

Exists(row) == row.status # NoStatus

\* What Get and FindByCode find: soft-deleted rows are invisible to them.
Found(row) == Exists(row) /\ ~row.deleted

\* Mutant of CanInsert: the index covers live rows only.
CanInsertOverDeleted(row) == ~Found(row)

\* The unique index on code refuses a code that any row has, deleted or not.
CanInsert(row) == ~Exists(row)

Inserted(initial, contents) ==
    [status |-> initial, version |-> 1, contents |-> contents, deleted |-> FALSE]

CanUpdateAnyVersion(row, expected) == Found(row)    \* mutant of CanUpdate

\* The predicate of updateRecord: the version the client sent, and GORM's
\* own deleted_at IS NULL.
CanUpdate(row, expected) == Found(row) /\ row.version = expected

\* Mutant of Updated: the version column is left out of the statement.
UpdatedSameVersion(row, status, contents, expected) ==
    [status |-> status, version |-> expected, contents |-> contents, deleted |-> row.deleted]

\* All columns of the row but id, code, created_at and deleted_at are overwritten.
Updated(row, status, contents, expected) ==
    [status |-> status, version |-> expected + 1, contents |-> contents, deleted |-> row.deleted]

\* deleteRecord: no version in its predicate.
CanDelete(row) == Found(row)

SoftDeleted(row) == [row EXCEPT !.deleted = TRUE]

\* An audit entry, abstracted to what it says happened to the record.
Entry(action, before, after) == [action |-> action, before |-> before, after |-> after]
=============================================================================
