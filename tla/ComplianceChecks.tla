--------------------------- MODULE ComplianceChecks ---------------------------
(***************************************************************************)
(* The compliance check service: AuditedService with the graph of checks,  *)
(* edits and removals of pending checks only, and one lookup, of the       *)
(* manifest that the check cites.  The manifests are those of              *)
(* ManifestBoard, and change meanwhile.                                    *)
(*                                                                         *)
(* A check is abstracted to its status and the manifest it cites.  Its     *)
(* evidence and the reason of a decision are left out: a request without   *)
(* them is refused, which changes nothing.                                 *)
(***************************************************************************)
EXTENDS Naturals, StatusGraphs

CONSTANTS
    NoContents,     \* what a row that was never inserted contains
    Checks,         \* codes of checks, one row each
    Manifests,      \* codes of manifests
    Requests,       \* requests that can be in flight at once
    MaxVersion,     \* bound: the highest version a row reaches
    Ahead           \* how far ahead of the versions it was served a client runs

ASSUME BoundsAssumption == MaxVersion \in Nat \ {0} /\ Ahead \in Nat

VARIABLES
    checks,         \* the table of checks, by code
    trail,          \* trail[c]: the audit entries of check c, oldest first
    inflight,       \* inflight[r]: what request r has read and has still to do
    manifests,      \* manifests[m]: how the manifest with code m stands
    submitted       \* history: the manifests that have ever been submitted

vars == <<checks, trail, inflight, manifests, submitted>>

Board == INSTANCE ManifestBoard WITH Codes <- Manifests, standing <- manifests

InitialStatus == "pending"

\* The statuses of the checks that the first start of the server seeds, each
\* citing a submitted or dispatched manifest.
SeedStatuses == {"pending", "pass", "fail"}

Service == INSTANCE AuditedService WITH
    Records <- Checks, RecordContents <- Manifests, Statuses <- AllCheckState,
    Graph <- ComplianceCheckTransitions, FirstStatus <- InitialStatus,
    Seeds <- SeedStatuses, Editable <- {"pending"}, Removable <- {"pending"},
    Stages <- {"manifest"}, rows <- checks

Init ==
    /\ Board!Init
    /\ Service!Init
    /\ \A c \in Checks : Service!Exists(checks[c]) =>
         manifests[checks[c].contents] \in {"submitted", "in_transit"}
    /\ submitted = {m \in Manifests : Board!OnFile(m) /\ manifests[m] # "draft"}

\* What every step of a request leaves alone.
Elsewhere == UNCHANGED <<manifests, submitted>>
-----------------------------------------------------------------------------
(* The requests                                                            *)

Create(r, c, manifest) == Service!BeginCreate(r, c, manifest, "manifest") /\ Elsewhere

Update(r, c, manifest, expected) ==
    Service!BeginUpdate(r, c, manifest, expected, "manifest") /\ Elsewhere

Transition(r, c, target, expected) ==
    Service!BeginTransition(r, c, target, expected, "manifest") /\ Elsewhere

Delete(r, c) == Service!BeginDelete(r, c) /\ Elsewhere

\* Mutant of ManifestAccepted: a check may pass on any manifest on file.
ManifestOnFile(request) == Board!OnFile(request.contents)

\* The manifest that the request is about (the client's new one for an edit,
\* the one that was read for a transition) is on file, and for a pass it is
\* under way or received.
ManifestAccepted(request) ==
    /\ Board!OnFile(request.contents)
    /\ request.op = "transition" /\ request.status = "pass"
       => manifests[request.contents] \in {"submitted", "in_transit", "received"}

LookupManifest(r) ==
    /\ inflight[r].stage = "manifest"
    /\ IF ManifestAccepted(inflight[r]) THEN Service!Advance(r, "commit") ELSE Service!End(r)
    /\ Elsewhere

CommitCreate(r) == Service!CommitCreate(r) /\ Elsewhere

CommitSave(r) == Service!CommitSave(r) /\ Elsewhere

CommitDelete(r) == Service!CommitDelete(r) /\ Elsewhere

Abandon(r) == Service!End(r) /\ Elsewhere

\* The history variable: no code.
Observe ==
    submitted' = submitted \cup {m \in Manifests : Board!OnFile(m)' /\ manifests'[m] # "draft"}

\* A commit of the manifest service.
ManifestStep == Board!Next /\ Observe /\ UNCHANGED <<checks, trail, inflight>>
-----------------------------------------------------------------------------
(* The whole                                                               *)

Begin(r) ==
    \E c \in Checks :
        \/ \E m \in Manifests : Create(r, c, m)
        \/ \E m \in Manifests, e \in 1..MaxVersion : Update(r, c, m, e)
        \/ \E target \in AllCheckState, e \in 1..MaxVersion : Transition(r, c, target, e)
        \/ Delete(r, c)

Commit(r) == CommitCreate(r) \/ CommitSave(r) \/ CommitDelete(r)

RequestStep(r) == Begin(r) \/ LookupManifest(r) \/ Commit(r) \/ Abandon(r)

Next == (\E r \in Requests : RequestStep(r)) \/ ManifestStep

Spec == Init /\ [][Next]_vars
-----------------------------------------------------------------------------
(* The properties                                                          *)

TypeOK == Service!ServiceTypeOK /\ Board!TypeOK /\ submitted \subseteq Manifests

\* A check that has passed cites a manifest that was submitted: not another
\* one put into the check after the lookup, nor one that was never more than a
\* draft.  Holds for every client of checks, as the save writes back the very
\* manifest that was looked up (Transition).
PassedWasSubmitted ==
    \A c \in Checks : checks[c].status = "pass" => checks[c].contents \in submitted

\* README.md:43: a decision is not taken back, and a failure can only be
\* escalated, also by a request that read the check before it was decided.
DecisionsStand ==
    [][\A c \in Checks :
        /\ checks[c].status \in {"pass", "escalated"} => checks'[c].status = checks[c].status
        /\ checks[c].status = "fail" => checks'[c].status \in {"fail", "escalated"}]_vars
=============================================================================
