------------------------------ MODULE AuditTrail ------------------------------
(***************************************************************************)
(* The audit log as its readers see it: AuditedService with a clock, the   *)
(* time each entry says it was created, and the queries of the reviewers.  *)
(*                                                                         *)
(* An entry takes its time from newAuditLog, after the request has read    *)
(* and checked and before its transaction; the history of an entity is     *)
(* ordered by that time.  A summary is five statements, each of which sees *)
(* whatever has been committed until then; three of them are modelled, as  *)
(* the other two, the number of actors and the groups by entity type, are  *)
(* of the same kind.                                                       *)
(*                                                                         *)
(* One clock: two server processes are taken to agree on the time.         *)
(***************************************************************************)
EXTENDS AuditedService, FiniteSets

CONSTANTS
    Window,         \* how far back a summary reaches
    Horizon         \* bound: the last instant of the clock

ASSUME ClockAssumption == Window \in Nat /\ Horizon \in Nat

VARIABLES
    now,            \* the wall clock
    stamp,          \* stamp[r]: the created_at of the entry r is about to write
    times,          \* times[k][i]: the created_at of the entry trail[k][i]
    summary         \* a summary under way, or NoSummary

trailVars == <<rows, trail, inflight, now, stamp, times, summary>>

NoSummary == [stage |-> "none"]

TrailInit ==
    /\ Init
    /\ now = 0
    /\ stamp = [r \in Requests |-> 0]
    /\ times = [k \in Records |-> <<>>]
    /\ summary = NoSummary
-----------------------------------------------------------------------------
(* Writing                                                                 *)

\* The entry is made as an argument of the call that runs the transaction.
Stamp(r) == stamp' = [stamp EXCEPT ![r] = IF inflight'[r].stage = "commit" THEN now ELSE 0]

\* Whatever r appended to the log carries the time r stamped.
Date(r) ==
    times' = [k \in Records |->
                 IF trail'[k] = trail[k] THEN times[k] ELSE Append(times[k], stamp[r])]

Serve(r) == RequestStep(r) /\ Stamp(r) /\ Date(r) /\ UNCHANGED <<now, summary>>

Tick ==
    /\ now < Horizon
    /\ now' = now + 1
    /\ UNCHANGED <<rows, trail, inflight, stamp, times, summary>>
-----------------------------------------------------------------------------
(* Reading                                                                 *)

Logged == UNION {{<<k, i>> : i \in 1..Len(trail[k])} : k \in Records}

Counted(since, actions) ==
    Cardinality({e \in Logged : /\ times[e[1]][e[2]] >= since
                                /\ trail[e[1]][e[2]].action \in actions})

Actions == {"create", "update", "transition", "delete"}

RunQuery(result) ==
    /\ summary' = result
    /\ UNCHANGED <<rows, trail, inflight, now, stamp, times>>

WindowStart == IF now < Window THEN 0 ELSE now - Window

CountTotal ==
    /\ summary = NoSummary
    /\ RunQuery([stage |-> "total", since |-> WindowStart,
                 total |-> Counted(WindowStart, Actions)])

CountTransitions ==
    /\ summary.stage = "total"
    /\ RunQuery([stage |-> "transitions", since |-> summary.since, total |-> summary.total,
                 transitions |-> Counted(summary.since, {"transition"})])

\* Mutant of GroupByAction: the window is taken anew for the grouping.
GroupByActionAfresh ==
    /\ summary.stage = "transitions"
    /\ RunQuery([stage |-> "actions", since |-> summary.since, total |-> summary.total,
                 transitions |-> summary.transitions,
                 actions |-> [a \in Actions |-> Counted(WindowStart, {a})]])

GroupByAction ==
    /\ summary.stage = "transitions"
    /\ RunQuery([stage |-> "actions", since |-> summary.since, total |-> summary.total,
                 transitions |-> summary.transitions,
                 actions |-> [a \in Actions |-> Counted(summary.since, {a})]])

Summarized == summary.stage = "actions" /\ RunQuery(NoSummary)

Summarize == CountTotal \/ CountTransitions \/ GroupByAction \/ Summarized
-----------------------------------------------------------------------------
TrailNext == (\E r \in Requests : Serve(r)) \/ Tick \/ Summarize

TrailSpec == TrailInit /\ [][TrailNext]_trailVars
-----------------------------------------------------------------------------
(* The properties                                                          *)

\* The history of an entity, which EntityHistory orders by the time of the
\* entries, tells its creation, edits and transitions in the order in which
\* they took effect, although each entry is stamped before its transaction and
\* requests overtake one another.  Only a deletion, whose statement names no
\* version, can be listed before a change that it followed.
HistoryInOrder ==
    \A k \in Records : \A j \in 1..Len(trail[k]) :
        trail[k][j].action # "delete" => \A i \in 1..(j - 1) : times[k][i] <= times[k][j]

\* The numbers of one summary are of different moments, and later ones are never
\* behind: the groups add up to at least the total, and to more only by what was
\* written while the summary was made (SummarizeAudits fixes the window once and
\* nothing is ever removed from the log).
SummaryNested ==
    summary.stage = "actions" =>
        /\ summary.total <= summary.actions["create"] + summary.actions["update"]
                             + summary.actions["transition"] + summary.actions["delete"]
        /\ summary.transitions <= summary.actions["transition"]
=============================================================================
