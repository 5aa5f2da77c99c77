---------------------------- MODULE AuditedLedger ----------------------------
(***************************************************************************)
(* What an audited aggregate under optimistic locking promises, whatever   *)
(* requests are in flight: each of its records is created once, in the     *)
(* initial status; moves only along the status graph; has its contents     *)
(* changed only by an edit, in an editable status; counts its changes in   *)
(* its version; once removed never changes again; and every change is      *)
(* explained by exactly one audit entry, which says what the record was    *)
(* before and after.  A removal is weaker: its entry says a status the     *)
(* record had at some time, in which it could be removed, and not that it  *)
(* still had it.                                                           *)
(***************************************************************************)
EXTENDS Naturals, Sequences, StatusGraphs, Store

CONSTANTS
    Records,        \* the codes of the records
    RecordContents, \* the business contents of a record
    Statuses,       \* the statuses a record can have
    Graph,          \* the status graph, a set of edges
    FirstStatus,    \* the status of a new record
    Seeds,          \* the statuses in which start-up seeds a record
    Editable,       \* the statuses in which an edit is accepted
    Removable,      \* the statuses in which a removal is accepted
    MaxVersion      \* bound: the highest version a record reaches

ASSUME LedgerAssumption ==
    /\ FirstStatus \in Statuses
    /\ Seeds \subseteq Statuses
    /\ NoStatus \notin Statuses
    /\ Removable \subseteq Statuses
    /\ Graph \subseteq Statuses \X Statuses

ASSUME VersionAssumption == MaxVersion \in Nat \ {0}

VARIABLES
    rows,           \* the table, by code
    trail           \* the audit entries of each record, oldest first

ledgerVars == <<rows, trail>>

\* The first start of the server seeds some records, without audit entries.
SeededRows == {Inserted(status, contents) : status \in Seeds, contents \in RecordContents}

LedgerInit ==
    /\ rows \in [Records -> {NoRow} \cup SeededRows]
    /\ trail = [k \in Records |-> <<>>]

Change(k, row, entry) ==
    /\ rows' = [rows EXCEPT ![k] = row]
    /\ trail' = [trail EXCEPT ![k] = Append(@, entry)]

Create(k) ==
    /\ CanInsert(rows[k])
    /\ \E contents \in RecordContents :
        Change(k, Inserted(FirstStatus, contents), Entry("create", NoStatus, FirstStatus))

Edit(k) ==
    /\ Found(rows[k])
    /\ rows[k].version < MaxVersion
    /\ rows[k].status \in Editable
    /\ \E contents \in RecordContents :
        Change(k, Updated(rows[k], rows[k].status, contents, rows[k].version),
               Entry("update", rows[k].status, rows[k].status))

Move(k) ==
    /\ Found(rows[k])
    /\ rows[k].version < MaxVersion
    /\ \E status \in Statuses :
        /\ CanTransition(Graph, rows[k].status, status)
        /\ Change(k, Updated(rows[k], status, rows[k].contents, rows[k].version),
                  Entry("transition", rows[k].status, status))

HasBeen(k, status) ==
    \/ rows[k].status = status
    \/ \E i \in 1..Len(trail[k]) : trail[k][i].before = status

Remove(k) ==
    /\ CanDelete(rows[k])
    /\ \E status \in Removable :
        /\ HasBeen(k, status)
        /\ Change(k, SoftDeleted(rows[k]), Entry("delete", status, "deleted"))

LedgerNext == \E k \in Records : Create(k) \/ Edit(k) \/ Move(k) \/ Remove(k)

LedgerSpec == LedgerInit /\ [][LedgerNext]_ledgerVars
-----------------------------------------------------------------------------
Entries == [action : {"create", "update", "transition", "delete"},
            before : Statuses \cup {NoStatus},
            after  : Statuses \cup {"deleted"}]

LedgerTypeOK ==
    /\ rows \in [Records -> RowType(Statuses, RecordContents, 0..MaxVersion)]
    /\ trail \in [Records -> Seq(Entries)]

\* A code that was never inserted has the untouched row.
NoRows == \A k \in Records : CanInsert(rows[k]) => rows[k] = NoRow

\* What the entry at position i of a trail must say, given the one before it:
\* it starts from the status where that one ended, an update keeps the status
\* and a transition moves it along the graph.
EntryFollows(t, i) ==
    /\ t[i].action \in {"update", "transition"}
    /\ t[i].before = t[i-1].after
    /\ t[i].action = "update" => t[i].after = t[i].before
    /\ t[i].action = "transition" => CanTransition(Graph, t[i].before, t[i].after)

\* t tells the history of row from its insertion in status first: one entry
\* for each version and at most one for a removal; the first is the creation,
\* each later one follows from the one before, and the last one before a
\* removal ends in the status the row has.
Tells(t, first, row) ==
    /\ Exists(row) <=> row.version > 0
    /\ Len(t) = IF row.deleted THEN row.version + 1 ELSE row.version
    /\ Exists(row) => /\ t[1] = Entry("create", NoStatus, first)
                      /\ t[row.version].after = row.status
    /\ \A i \in 2..row.version : EntryFollows(t, i)
    /\ row.deleted => Exists(row) /\ t[row.version + 1].action = "delete"

\* The trail of a seeded record lacks its first entry, and no other.
WithSeed(t, status) == <<Entry("create", NoStatus, status)>> \o t

Explains(t, row) ==
    \/ Tells(t, FirstStatus, row)
    \/ \E status \in Seeds : Tells(WithSeed(t, status), status, row)

\* The audit trail of a record tells its history without a gap, which is what
\* the single transaction of CreateAudited, UpdateAudited and DeleteAudited
\* is for.
TrailExplainsRow == \A k \in Records : Explains(trail[k], rows[k])
=============================================================================
