------------------------------ MODULE Workbench ------------------------------
(***************************************************************************)
(* A page of the workbench with its EntityStore: lists, pages, the dialog  *)
(* that confirms a transition and the one that confirms a creation, while  *)
(* calls are awaited and others change the table (Listing).                *)
(*                                                                         *)
(* No button waits for an earlier answer: several calls can be under way,  *)
(* and are answered in any order.  The text to search for is left out.     *)
(***************************************************************************)
EXTENDS Listing

CONSTANTS
    Key,            \* which page: the key of its EntityConfig
    Calls,          \* calls that can be under way at once
    PageSize,       \* rows of a page (10)
    ReloadSize      \* rows of the list after a change, EntityStore's own (20)

ASSUME WorkbenchAssumption == PageSize \in Nat \ {0} /\ ReloadSize \in Nat \ {0}

\* types/status.ts: the transitions that the pages offer.
TRANSITIONS ==
    [wasteGenerator |->
        {<<"active", "restricted">>, <<"active", "suspended">>, <<"active", "expired">>,
         <<"restricted", "active">>, <<"restricted", "suspended">>, <<"restricted", "expired">>,
         <<"suspended", "active">>, <<"suspended", "expired">>},
     carrierProfile |->
        {<<"pending", "verified">>, <<"pending", "restricted">>, <<"pending", "expired">>,
         <<"verified", "restricted">>, <<"verified", "expired">>,
         <<"restricted", "pending">>, <<"restricted", "expired">>},
     transferManifest |->
        {<<"draft", "submitted">>, <<"submitted", "in_transit">>, <<"submitted", "rejected">>,
         <<"in_transit", "received">>, <<"in_transit", "rejected">>},
     complianceCheck |->
        {<<"pending", "pass">>, <<"pending", "fail">>, <<"pending", "escalated">>,
         <<"fail", "escalated">>}]

VARIABLES
    store,          \* EntityStore: items, total, size of the page, loading, error
    page,           \* the page that the pager is on
    pending,        \* the transition in the dialog, or Closed
    showCreate,     \* is the dialog that creates a record open?
    calls,          \* calls[c]: how far call c has come
    walk            \* history: what the user has seen since listing from page 1

vars == <<row, list, changes, store, page, pending, showCreate, calls, walk>>

Closed == [kind |-> "closed"]

Idle == [kind |-> "none", stage |-> "none"]

\* walk.seen are the records shown since the walk began, walk.touched those that
\* were written since; walk.spoiled says that a record was deleted, one was
\* created between a count and its find, a load failed or two calls overlapped.
\* walk.overlapped says that calls have overlapped since nothing was awaited, and
\* walk.own[r] is the last version of r that this page wrote since the walk began
\* or calls last overlapped.
Begun == [spoiled |-> FALSE, seen |-> {}, touched |-> {}, overlapped |-> FALSE,
          own |-> [r \in Records |-> 0]]

Spoilt(w) == [w EXCEPT !.spoiled = TRUE, !.seen = {}, !.touched = {}]

\* The walk with what another step adds to it, unless it is spoiled.
Walked(seen, touched) ==
    IF walk.spoiled THEN walk
    ELSE [walk EXCEPT !.seen = @ \cup seen, !.touched = @ \cup touched]

SpoiltIf(condition, w) == IF condition THEN Spoilt(w) ELSE w

Init ==
    /\ ListingInit
    /\ store = [items |-> <<>>, total |-> 0, size |-> ReloadSize, loading |-> FALSE, error |-> FALSE]
    /\ page = 1
    /\ pending = Closed /\ showCreate = FALSE
    /\ calls = [c \in Calls |-> Idle]
    /\ walk = Spoilt(Begun)

Quiet == \A c \in Calls : calls[c] = Idle

Goto(c, place) == calls' = [calls EXCEPT ![c] = place]

page_ui == <<page, pending, showCreate>>

\* A call is sent.
Send(c, call) ==
    /\ calls[c] = Idle
    /\ Goto(c, call)

Overlap ==
    IF Quiet THEN [walk EXCEPT !.overlapped = FALSE]
    ELSE [Spoilt(Begun) EXCEPT !.overlapped = TRUE]
-----------------------------------------------------------------------------
(* Lists                                                                   *)

Listed(p, size, closes) ==
    [kind |-> "load", stage |-> "sent", page |-> p, size |-> size, closes |-> closes]

\* A dialog covers the page: nothing under it can be clicked.
NoDialog == pending = Closed /\ ~showCreate

StartLoading == store' = [store EXCEPT !.loading = TRUE, !.error = FALSE]

Load(c, p) ==
    /\ NoDialog
    /\ Send(c, Listed(p, PageSize, "nothing"))
    /\ StartLoading
    /\ page' = p
    /\ UNCHANGED <<listing, pending, showCreate>>

\* The page is opened, or a query is made or reset.
Query(c) ==
    /\ Load(c, 1)
    /\ walk' = IF Quiet THEN Begun ELSE Overlap

Pages == IF store.total = 0 THEN 1 ELSE (store.total + PageSize - 1) \div PageSize

\* The pager is there when there are more rows than the list has room for.
PagerShown == store.total > store.size

NextPage(c) ==
    /\ PagerShown /\ page < Pages
    /\ Load(c, page + 1)
    /\ walk' = Overlap

PreviousPage(c) ==
    /\ PagerShown /\ page > 1
    /\ Load(c, page - 1)
    /\ walk' = Overlap

\* List on the server: one statement counts, another finds.
CountRows(c) ==
    /\ calls[c].kind = "load" /\ calls[c].stage = "sent"
    /\ Goto(c, [kind |-> "load", stage |-> "counted", page |-> calls[c].page, size |-> calls[c].size,
                closes |-> calls[c].closes, total |-> Len(list)])
    /\ UNCHANGED <<listing, store, page_ui, walk>>

FindRows(c) ==
    /\ calls[c].kind = "load" /\ calls[c].stage = "counted"
    /\ Goto(c, [kind |-> "load", stage |-> "answered", size |-> calls[c].size,
                closes |-> calls[c].closes, total |-> calls[c].total,
                items |-> Page(calls[c].page, calls[c].size)])
    /\ UNCHANGED <<listing, store, page_ui, walk>>

\* The dialog whose confirmation ends with this load is closed.
Close(what) ==
    /\ pending' = IF what = "transition" THEN Closed ELSE pending
    /\ showCreate' = (showCreate /\ what # "create")
    /\ UNCHANGED page

Loaded(c) ==
    /\ calls[c].kind = "load" /\ calls[c].stage = "answered"
    /\ Goto(c, Idle)
    /\ store' = [items |-> calls[c].items, total |-> calls[c].total, size |-> calls[c].size,
                 loading |-> FALSE, error |-> FALSE]
    /\ Close(calls[c].closes)
    /\ walk' = Walked({item.record : item \in ToSet(calls[c].items)}, {})
    /\ UNCHANGED listing

Failed == store' = [store EXCEPT !.loading = FALSE, !.error = TRUE]

\* Mutant of LoadFailed: the flag is not reset.
LoadFailedSpinning(c) ==
    /\ calls[c].kind = "load"
    /\ Goto(c, Idle)
    /\ store' = [store EXCEPT !.error = TRUE]
    /\ Close(calls[c].closes)
    /\ walk' = Spoilt(walk)
    /\ UNCHANGED listing

\* The call or its answer is lost, or the server cannot answer.  load does not
\* throw: after a change that could not be listed the dialog closes all the same.
LoadFailed(c) ==
    /\ calls[c].kind = "load"
    /\ Goto(c, Idle)
    /\ Failed
    /\ Close(calls[c].closes)
    /\ walk' = Spoilt(walk)
    /\ UNCHANGED listing
-----------------------------------------------------------------------------
(* Transitions and creations                                               *)

OpenTransition(item, target) ==
    /\ NoDialog
    /\ <<item.status, target>> \in TRANSITIONS[Key]
    /\ pending' = [kind |-> "transition", item |-> item, target |-> target]
    /\ UNCHANGED <<listing, store, page, showCreate, calls, walk>>

OpenCreate ==
    /\ NoDialog
    /\ showCreate' = TRUE
    /\ UNCHANGED <<listing, store, page, pending, calls, walk>>

Cancel ==
    /\ ~NoDialog
    /\ pending' = Closed /\ showCreate' = FALSE
    /\ UNCHANGED <<listing, store, page, calls, walk>>

Busy == store' = [store EXCEPT !.loading = TRUE]

\* The dialog stays open until the change is answered and listed, and its button
\* can be pressed again.
ConfirmTransition(c) ==
    /\ pending # Closed
    /\ Send(c, [kind |-> "transition", stage |-> "sent", item |-> pending.item, target |-> pending.target])
    /\ Busy
    /\ walk' = Overlap
    /\ UNCHANGED <<listing, page_ui>>

ConfirmCreate(c) ==
    /\ showCreate
    /\ Send(c, [kind |-> "create", stage |-> "sent"])
    /\ Busy
    /\ walk' = Overlap
    /\ UNCHANGED <<listing, page_ui>>

\* Mutant of Acceptable: the version is not compared.
AcceptableAnyVersion(item, target) ==
    item.record \in LiveRecords /\ CanTransition(Graph, row[item.record].status, target)

\* What the service accepts; its other conditions are left to ChangeFailed.
Acceptable(item, target) ==
    /\ item.record \in LiveRecords
    /\ item.version = row[item.record].version
    /\ CanTransition(Graph, row[item.record].status, target)

\* Others listing at the time may have counted before the row was created.
Torn == \E c \in Calls : calls[c].kind = "load" /\ calls[c].stage = "counted"

Written(r) == [Walked({}, {r}) EXCEPT !.own[r] = IF walk.overlapped THEN @ ELSE row'[r].version]

Answered(c) == Goto(c, [kind |-> "change", stage |-> "done", closes |-> calls[c].kind])

CommitTransition(c) ==
    /\ calls[c].kind = "transition"
    /\ LET item == calls[c].item IN
       /\ Acceptable(item, calls[c].target)
       /\ Write(item.record, calls[c].target)
       /\ walk' = Written(item.record)
    /\ Answered(c)
    /\ UNCHANGED <<store, page_ui>>

CommitCreate(c) ==
    /\ calls[c].kind = "create"
    /\ \E r \in Records :
           /\ Insert(r)
           /\ walk' = SpoiltIf(Torn, Written(r))
    /\ Answered(c)
    /\ UNCHANGED <<store, page_ui>>

\* Mutant of Changed: the list is not loaded again.
ChangedUnlisted(c) ==
    /\ calls[c].kind = "change"
    /\ Goto(c, Idle)
    /\ store' = [store EXCEPT !.loading = FALSE]
    /\ Close(calls[c].closes)
    /\ UNCHANGED <<listing, walk>>

\* After a change the store loads a list of its own, whatever page was shown.
Changed(c) ==
    /\ calls[c].kind = "change"
    /\ Goto(c, Listed(1, ReloadSize, calls[c].closes))
    /\ StartLoading
    /\ UNCHANGED <<listing, page_ui, walk>>

\* The service refuses the change (409, 422, 403), or the call is lost, or its
\* answer, though the change was made: the error is shown, and the dialog stays.
ChangeFailed(c) ==
    /\ calls[c].kind \in {"transition", "create", "change"}
    /\ Goto(c, Idle)
    /\ Failed
    /\ UNCHANGED <<listing, page_ui, walk>>
-----------------------------------------------------------------------------
(* The whole                                                               *)

Others ==
    /\ \E r \in Records :
        \/ Touch(r) /\ walk' = Walked({}, {r})
        \/ Insert(r) /\ walk' = SpoiltIf(Torn, Walked({}, {r}))
        \/ Discard(r) /\ walk' = Spoilt(walk)
    /\ UNCHANGED <<store, page_ui, calls>>

User ==
    \/ \E c \in Calls :
        Query(c) \/ NextPage(c) \/ PreviousPage(c) \/ ConfirmTransition(c) \/ ConfirmCreate(c)
    \/ \E item \in ToSet(store.items), edge \in TRANSITIONS[Key] : OpenTransition(item, edge[2])
    \/ OpenCreate \/ Cancel

ServerStep(c) ==
    \/ CountRows(c) \/ FindRows(c) \/ CommitTransition(c) \/ CommitCreate(c)

Receive(c) == Loaded(c) \/ LoadFailed(c) \/ Changed(c) \/ ChangeFailed(c)

Next == User \/ (\E c \in Calls : ServerStep(c) \/ Receive(c)) \/ Others

Spec == Init /\ [][Next]_vars
-----------------------------------------------------------------------------
(* The properties                                                          *)

Item == [record : Records, status : RowStatuses, version : Nat]

TypeOK ==
    /\ row \in [Records -> [status : RowStatuses, version : Nat]]
    /\ LiveRecords \subseteq Records /\ Len(list) = Cardinality(LiveRecords)
    /\ ToSet(store.items) \subseteq Item
    /\ page \in Nat \ {0}
    /\ pending = Closed \/ pending.item \in Item

\* The page says that data is being loaded only while something is awaited:
\* whatever becomes of calls that overlap, the sign goes away with the last of
\* them (each way out of load, createRecord and transition resets it).
SpinnerEnds == Quiet => ~store.loading

\* A transition that takes effect moves the record from the very status that the
\* user confirmed, and once for each dialog, although the dialog can be confirmed
\* twice and others move the record meanwhile (expectedVersion is that of the
\* item the dialog was opened for).
ConfirmedFromSeen ==
    [][\A c \in Calls :
        calls[c].kind = "transition" /\ calls'[c].kind = "change" /\ row' # row
        => LET item == calls[c].item
           IN /\ row[item.record].status = item.status
              /\ row'[item.record].status = calls[c].target]_vars

\* When all is answered, no error is shown and no two calls have overlapped, the
\* list does not show an older version of a record than this page wrote
\* (transition and createRecord load the list again).
ReadsOwnWrites ==
    Quiet /\ ~store.error /\ ~walk.overlapped =>
        \A item \in ToSet(store.items) : item.version >= walk.own[item.record]

\* Who has walked from the first page to the last, while others wrote, has seen
\* every record that was not written meanwhile: a write moves a record to the
\* front, towards pages already seen, and shifts the others only to pages yet
\* to come.  A deletion shifts the other way, and a creation between a count and
\* its find adds a page that the pager does not know of.
SeenUnlessTouched ==
    Quiet /\ ~walk.spoiled /\ (page = Pages \/ ~PagerShown) =>
        LiveRecords \ walk.touched \subseteq walk.seen
=============================================================================
