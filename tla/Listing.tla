------------------------------- MODULE Listing -------------------------------
(***************************************************************************)
(* One table as the list route serves it: the live rows, the one updated   *)
(* last first, cut into pages.  The total is counted in a statement before *)
(* the one that finds the page, and others write in between.  What others  *)
(* may do to a row is what the services let them: AuditedService has it in *)
(* full, here it counts that the row moves towards the front of the list,  *)
(* and that its version grows with every change.                           *)
(***************************************************************************)
EXTENDS StatusGraphs, Naturals, SequencesExt

CONSTANTS
    Records,        \* the records, those not created yet included
    Seeded,         \* the records there are when the workbench opens, in order
    SeedStatus,     \* SeedStatus[r]: the status of a seeded record
    FirstStatus,    \* the status in which a record is created
    Graph,          \* the edges the service allows
    MaxChanges      \* bound: changes of rows

\* The statuses a row can have: every one of them is reached by an edge, or first.
RowStatuses == {FirstStatus} \cup {e[2] : e \in Graph}

ASSUME ListingAssumption ==
    /\ Seeded \in Seq(Records) /\ IsInjective(Seeded)
    /\ \A r \in ToSet(Seeded) : SeedStatus[r] \in RowStatuses
    /\ MaxChanges \in Nat

VARIABLES
    row,            \* row[r]: status and version of record r
    list,           \* the live records, the one updated last first
    changes         \* how many changes of rows there have been

listing == <<row, list, changes>>

Absent == [status |-> FirstStatus, version |-> 0]

ListingInit ==
    /\ list = Seeded
    /\ row = [r \in Records |->
                IF r \in ToSet(Seeded) THEN [status |-> SeedStatus[r], version |-> 1] ELSE Absent]
    /\ changes = 0

LiveRecords == ToSet(list)

Ascending(r) == {Append(RemoveFirst(list, r), r)}    \* mutant of Reordered: oldest first

ServedTwice(r) == {<<r>> \o list}                    \* mutant of Reordered: a row served twice

\* The lists there may be after a write to r: ORDER BY updated_at DESC, id DESC.  The
\* write is stamped before it is committed, so it can be overtaken by others and come
\* to a place behind theirs; but not behind its own old place, whose stamp it has read.
Reordered(r) ==
    {InsertAt(RemoveFirst(list, r), i, r) : i \in {j \in 1..(Len(list) + 1) : \A k \in 1..(j - 1) : list[k] # r}}

Smaller(m, n) == IF m < n THEN m ELSE n

\* OFFSET (page - 1) * size LIMIT size, as the records with what is shown of them.
Page(page, size) ==
    [i \in 1..(Smaller(page * size, Len(list)) - Smaller((page - 1) * size, Len(list))) |->
        LET r == list[(page - 1) * size + i]
        IN [record |-> r, status |-> row[r].status, version |-> row[r].version]]

Count == changes < MaxChanges /\ changes' = changes + 1

\* A record is written in status: an edit keeps its own.
Write(r, status) ==
    /\ Count
    /\ row' = [row EXCEPT ![r] = [status |-> status, version |-> @.version + 1]]
    /\ list' \in Reordered(r)

Insert(r) ==
    /\ row[r].version = 0
    /\ Count
    /\ row' = [row EXCEPT ![r].version = 1]
    /\ list' \in Reordered(r)

Discard(r) ==
    /\ r \in LiveRecords
    /\ Count
    /\ list' = RemoveFirst(list, r)
    /\ UNCHANGED row

\* Another user edits a record, or moves it on.
Touch(r) ==
    /\ r \in LiveRecords
    /\ \E status \in {row[r].status} \cup {e[2] : e \in {g \in Graph : g[1] = row[r].status}} :
           Write(r, status)
=============================================================================
