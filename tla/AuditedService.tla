---------------------------- MODULE AuditedService ----------------------------
(***************************************************************************)
(* What the four services have in common: how HTTP requests, each served   *)
(* by a goroutine of its own, work on one audited aggregate.  A request    *)
(* reads the record outside any transaction and checks it, looks up        *)
(* records of other aggregates, and commits one transaction; between any   *)
(* two of these every other request may take steps.  The services differ   *)
(* in their graph, in the statuses in which they accept edits and          *)
(* removals, and in their lookups, which are left open here: a request may *)
(* go from any lookup to any other, to its commit, or end.                 *)
(*                                                                         *)
(* A request that is refused changes nothing; one that is refused before   *)
(* its first lookup is a stuttering step.  The read after a commit, which  *)
(* builds the answer, changes nothing either and is left out.              *)
(***************************************************************************)
EXTENDS AuditedLedger

CONSTANTS
    Requests,       \* requests that can be in flight at once
    Stages,         \* the lookups a request may have to make
    Ahead           \* how far above the version it was served a client's
                    \* expectedVersion may be; 0 for a client that waits

ASSUME AheadAssumption == Ahead \in Nat

ASSUME StagesAssumption == "idle" \notin Stages /\ "commit" \notin Stages

VARIABLE inflight   \* inflight[r]: what request r has read and has still to do

serviceVars == <<rows, trail, inflight>>
-----------------------------------------------------------------------------
(***************************************************************************)
(* A request: before is the status it read; status and contents are what   *)
(* it will write, the contents it read or the client's new ones; expected  *)
(* is the client's expectedVersion (0 for create and delete, which take    *)
(* none).                                                                  *)
(***************************************************************************)
Idle == [stage |-> "idle"]

WriteRequest ==
    [stage    : Stages \cup {"commit"},
     op       : {"create", "update", "transition"},
     record   : Records,
     before   : Statuses \cup {NoStatus},
     status   : Statuses,
     contents : RecordContents,
     expected : 0..(MaxVersion - 1)]

DeleteRequest ==
    [stage    : {"commit"},
     op       : {"delete"},
     record   : Records,
     before   : Statuses,
     status   : {"deleted"},
     contents : {NoContents},
     expected : {0}]

Request == WriteRequest \cup DeleteRequest

Init ==
    /\ LedgerInit
    /\ inflight = [r \in Requests |-> Idle]
-----------------------------------------------------------------------------
(* Reading and checking                                                    *)

Start(r, request) ==
    /\ inflight[r] = Idle
    /\ inflight' = [inflight EXCEPT ![r] = request]
    /\ UNCHANGED <<rows, trail>>

\* What a client may send as expectedVersion for a row: a version it was
\* served, or, when Ahead > 0, one it foresees.
ClientVersions(row) == {e \in 1..(row.version + Ahead) : e < MaxVersion}

BeginCreate(r, k, contents, stage) ==
    Start(r, [stage |-> stage, op |-> "create", record |-> k,
              before |-> NoStatus, status |-> FirstStatus, contents |-> contents,
              expected |-> 0])

BeginUpdate(r, k, contents, expected, stage) ==
    /\ Found(rows[k])
    /\ rows[k].status \in Editable
    /\ expected \in ClientVersions(rows[k])
    /\ Start(r, [stage |-> stage, op |-> "update", record |-> k,
                 before |-> rows[k].status, status |-> rows[k].status,
                 contents |-> contents, expected |-> expected])

BeginTransition(r, k, target, expected, stage) ==
    /\ Found(rows[k])
    /\ CanTransition(Graph, rows[k].status, target)
    /\ expected \in ClientVersions(rows[k])
    /\ Start(r, [stage |-> stage, op |-> "transition", record |-> k,
                 before |-> rows[k].status, status |-> target,
                 contents |-> rows[k].contents, expected |-> expected])

BeginDelete(r, k) ==
    /\ Found(rows[k])
    /\ rows[k].status \in Removable
    /\ Start(r, [stage |-> "commit", op |-> "delete", record |-> k,
                 before |-> rows[k].status, status |-> "deleted",
                 contents |-> NoContents, expected |-> 0])
-----------------------------------------------------------------------------
(* Looking up, ending and committing                                       *)

\* The request ends and its answer, whatever it is, goes to the client.
Finish(r) == inflight' = [inflight EXCEPT ![r] = Idle]

\* A lookup succeeds, and the request goes on.
Advance(r, stage) ==
    /\ inflight[r].stage \in Stages
    /\ inflight' = [inflight EXCEPT ![r].stage = stage]
    /\ UNCHANGED <<rows, trail>>

\* A lookup fails; or the client disconnects, a statement fails, or the server
\* shuts down or crashes: nothing of the request is committed.
End(r) ==
    /\ inflight[r] # Idle
    /\ Finish(r)
    /\ UNCHANGED <<rows, trail>>

\* One transaction: the row and its audit entry.
Write(r, row) ==
    LET q == inflight[r] IN Change(q.record, row, Entry(q.op, q.before, q.status))

\* The statement matches no row, or breaks the unique index: rolled back.
RollBack == UNCHANGED <<rows, trail>>

CommitCreate(r) ==
    LET q == inflight[r] IN
    /\ q.stage = "commit" /\ q.op = "create"
    /\ IF CanInsert(rows[q.record]) THEN Write(r, Inserted(q.status, q.contents)) ELSE RollBack
    /\ Finish(r)

\* Mutant of CommitSave: the audit entry is written in a transaction of its own.
CommitSaveSplit(r) ==
    LET q == inflight[r]
        hit == CanUpdate(rows[q.record], q.expected) IN
    /\ q.stage = "commit" /\ q.op \in {"update", "transition"}
    /\ rows' = [rows EXCEPT ![q.record] =
                   IF hit THEN Updated(rows[q.record], q.status, q.contents, q.expected) ELSE @]
    /\ trail' = [trail EXCEPT ![q.record] = Append(@, Entry(q.op, q.before, q.status))]
    /\ Finish(r)

CommitSave(r) ==
    LET q == inflight[r] IN
    /\ q.stage = "commit" /\ q.op \in {"update", "transition"}
    /\ IF CanUpdate(rows[q.record], q.expected)
       THEN Write(r, Updated(rows[q.record], q.status, q.contents, q.expected))
       ELSE RollBack
    /\ Finish(r)

\* Mutant of CommitDelete: the status column is overwritten, not deleted_at.
CommitDeleteByStatus(r) ==
    LET q == inflight[r] IN
    /\ q.stage = "commit" /\ q.op = "delete"
    /\ IF CanDelete(rows[q.record])
       THEN Write(r, [rows[q.record] EXCEPT !.status = q.status])
       ELSE RollBack
    /\ Finish(r)

CommitDelete(r) ==
    LET q == inflight[r] IN
    /\ q.stage = "commit" /\ q.op = "delete"
    /\ IF CanDelete(rows[q.record]) THEN Write(r, SoftDeleted(rows[q.record])) ELSE RollBack
    /\ Finish(r)
-----------------------------------------------------------------------------
(* The whole                                                               *)

Begin(r) ==
    \E k \in Records, stage \in Stages \cup {"commit"} :
        \/ \E contents \in RecordContents : BeginCreate(r, k, contents, stage)
        \/ \E contents \in RecordContents, e \in 1..MaxVersion :
               BeginUpdate(r, k, contents, e, stage)
        \/ \E target \in Statuses, e \in 1..MaxVersion : BeginTransition(r, k, target, e, stage)
        \/ BeginDelete(r, k)

Lookup(r) == \E stage \in Stages \cup {"commit"} : Advance(r, stage)

Commit(r) == CommitCreate(r) \/ CommitSave(r) \/ CommitDelete(r)

RequestStep(r) == Begin(r) \/ Lookup(r) \/ Commit(r) \/ End(r)

Next == \E r \in Requests : RequestStep(r)

Spec == Init /\ [][Next]_serviceVars
-----------------------------------------------------------------------------
(* The properties                                                          *)

ServiceTypeOK ==
    /\ LedgerTypeOK
    /\ \A k \in Records : Exists(rows[k]) => rows[k].contents \in RecordContents
    /\ inflight \in [Requests -> Request \cup {Idle}]

\* q is a save that would still find the version its client expects.
WouldSave(q) ==
    q.op \in {"update", "transition"} /\ CanUpdate(rows[q.record], q.expected)

\* The row that q would overwrite is the row that q read.
ReadCurrent(q) ==
    WouldSave(q) => /\ rows[q.record].status = q.before
                    /\ q.op = "transition" => rows[q.record].contents = q.contents

\* Where optimistic locking has to be relied on: if a save in flight would
\* still find its expected version, then the row it is about to overwrite is
\* the row it read (Update and Transition of every service: the guards run on
\* a copy read outside the transaction).  Needs Ahead = 0.
ReadIsCurrent == \A r \in Requests : inflight[r] # Idle => ReadCurrent(inflight[r])

\* What a record says is changed by no request, however old, once the record
\* is in a status in which it cannot be edited (the guard of Update on a copy
\* that may be stale when it commits).
FrozenUnlessEditable ==
    [][\A k \in Records :
        rows[k].status \notin Editable \cup {NoStatus}
        => rows'[k].contents = rows[k].contents]_serviceVars

\* Requests that interleave at every statement have the effect of operations
\* that take place one at a time, at their commits: no commit is lost, doubled,
\* half done or based on a state that was never there, except that the entry of
\* a deletion may carry an earlier status (Create, Update, Transition, Delete).
ImplementsLedger == LedgerSpec

\* What a request in flight knows for certain, however long ago it read.
RequestSound(q) ==
    /\ q.op = "create" => q.before = NoStatus /\ q.status = FirstStatus
    /\ q.op = "update" => q.before \in Editable /\ q.status = q.before
    /\ q.op = "transition" => CanTransition(Graph, q.before, q.status)
    /\ q.op = "delete" => q.before \in Removable /\ HasBeen(q.record, q.before)
    /\ q.op # "create" => Exists(rows[q.record])
    /\ q.op \in {"update", "transition"} => q.expected <= rows[q.record].version

RequestInv(q) == RequestSound(q) /\ ReadCurrent(q)

\* The inductive invariant, for clients that wait (Ahead = 0).
ServiceInductive ==
    /\ ServiceTypeOK
    /\ NoRows
    /\ TrailExplainsRow
    /\ \A r \in Requests : inflight[r] # Idle => RequestInv(inflight[r])
=============================================================================
