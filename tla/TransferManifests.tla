-------------------------- MODULE TransferManifests --------------------------
(***************************************************************************)
(* The transfer manifest service: AuditedService with the graph of         *)
(* manifests, edits and removals of drafts only, and two lookups, of the   *)
(* linked generator and then of the linked carrier.  The lookups read      *)
(* tables that the licence services write meanwhile.                       *)
(***************************************************************************)
EXTENDS Naturals, StatusGraphs

CONSTANTS
    NoContents,     \* what a row that was never inserted contains
    Manifests,      \* codes of manifests, one row each
    Generators,     \* codes of waste generators
    Carriers,       \* codes of carriers
    Requests,       \* requests that can be in flight at once
    MaxVersion,     \* bound: the highest version a row reaches
    Ahead           \* how far ahead of the versions it was served a client runs

ASSUME BoundsAssumption == MaxVersion \in Nat \ {0} /\ Ahead \in Nat

VARIABLES
    manifests,      \* the table of manifests, by code
    trail,          \* trail[m]: the audit entries of manifest m, oldest first
    inflight,       \* inflight[r]: what request r has read and has still to do
    generators,     \* standing of each generator
    carriers,       \* standing of each carrier
    vouched         \* history: which parties named in m's row have been in
                    \* force at some moment since that row was written

vars == <<manifests, trail, inflight, generators, carriers, vouched>>

GeneratorRegister == INSTANCE Licences WITH Codes <- Generators, standing <- generators
CarrierRegister   == INSTANCE Licences WITH Codes <- Carriers, standing <- carriers
-----------------------------------------------------------------------------
(* The data                                                                *)

Contents == [generator : Generators, carrier : Carriers]

InitialStatus == "draft"

\* The statuses of the manifests that the first start of the server seeds,
\* naming an active generator and a verified carrier.
SeedStatuses == {"draft", "submitted", "in_transit"}

\* The statuses a manifest enters only with both parties in force.
Checked == {"submitted", "in_transit"}

Service == INSTANCE AuditedService WITH
    Records <- Manifests, RecordContents <- Contents, Statuses <- AllManifestState,
    Graph <- TransferManifestTransitions, FirstStatus <- InitialStatus,
    Seeds <- SeedStatuses, Editable <- {"draft"}, Removable <- {"draft"},
    Stages <- {"generator", "carrier"}, rows <- manifests

Init ==
    /\ GeneratorRegister!Init
    /\ CarrierRegister!Init
    /\ Service!Init
    /\ \A m \in Manifests : Service!Exists(manifests[m]) =>
         /\ GeneratorRegister!InForce(manifests[m].contents.generator)
         /\ CarrierRegister!InForce(manifests[m].contents.carrier)
    /\ vouched = [m \in Manifests |-> {}]

\* The parties of m's row that are in force.
InForceParties(m) ==
    {p \in {"generator", "carrier"} :
        /\ Service!Found(manifests[m])
        /\ IF p = "generator"
           THEN GeneratorRegister!InForce(manifests[m].contents.generator)
           ELSE CarrierRegister!InForce(manifests[m].contents.carrier)}

\* The history variable: no code.  It starts afresh when the row is written.
Observe ==
    vouched' = [m \in Manifests |->
                   InForceParties(m)' \cup
                   IF manifests'[m] = manifests[m] THEN vouched[m] ELSE {}]

\* What every step of a request leaves alone, and observes.
Elsewhere == UNCHANGED <<generators, carriers>> /\ Observe
-----------------------------------------------------------------------------
(* The requests                                                            *)

Create(r, m, contents) == Service!BeginCreate(r, m, contents, "generator") /\ Elsewhere

Update(r, m, contents, expected) ==
    Service!BeginUpdate(r, m, contents, expected, "generator") /\ Elsewhere

Transition(r, m, target, expected) ==
    /\ Service!BeginTransition(r, m, target, expected,
                               IF target \in Checked THEN "generator" ELSE "commit")
    /\ Elsewhere

Delete(r, m) == Service!BeginDelete(r, m) /\ Elsewhere

\* Mutant of CarrierAccepted: a transition accepts any carrier on file.
CarrierOnFile(request) == CarrierRegister!OnFile(request.contents.carrier)

\* Create and update ask only that the party is on file; a transition, that
\* it is in force.
GeneratorAccepted(request) ==
    IF request.op = "transition"
    THEN GeneratorRegister!InForce(request.contents.generator)
    ELSE GeneratorRegister!OnFile(request.contents.generator)

CarrierAccepted(request) ==
    IF request.op = "transition"
    THEN CarrierRegister!InForce(request.contents.carrier)
    ELSE CarrierRegister!OnFile(request.contents.carrier)

LookupGenerator(r) ==
    /\ inflight[r].stage = "generator"
    /\ IF GeneratorAccepted(inflight[r]) THEN Service!Advance(r, "carrier") ELSE Service!End(r)
    /\ Elsewhere

LookupCarrier(r) ==
    /\ inflight[r].stage = "carrier"
    /\ IF CarrierAccepted(inflight[r]) THEN Service!Advance(r, "commit") ELSE Service!End(r)
    /\ Elsewhere

CommitCreate(r) == Service!CommitCreate(r) /\ Elsewhere

CommitSave(r) == Service!CommitSave(r) /\ Elsewhere

CommitDelete(r) == Service!CommitDelete(r) /\ Elsewhere

Abandon(r) == Service!End(r) /\ Elsewhere

\* A commit of a licence service, or an expiry date passing.
GeneratorStep ==
    GeneratorRegister!Next /\ UNCHANGED <<manifests, trail, inflight, carriers>> /\ Observe

CarrierStep ==
    CarrierRegister!Next /\ UNCHANGED <<manifests, trail, inflight, generators>> /\ Observe
-----------------------------------------------------------------------------
(* The whole                                                               *)

Begin(r) ==
    /\ inflight[r] = Service!Idle
    /\ \E m \in Manifests :
        \/ \E contents \in Contents : Create(r, m, contents)
        \/ \E contents \in Contents, e \in 1..MaxVersion : Update(r, m, contents, e)
        \/ \E target \in AllManifestState, e \in 1..MaxVersion : Transition(r, m, target, e)
        \/ Delete(r, m)

Lookup(r) == LookupGenerator(r) \/ LookupCarrier(r)

Commit(r) == CommitCreate(r) \/ CommitSave(r) \/ CommitDelete(r)

RequestStep(r) == Begin(r) \/ Lookup(r) \/ Commit(r) \/ Abandon(r)

Next == (\E r \in Requests : RequestStep(r)) \/ GeneratorStep \/ CarrierStep

Spec == Init /\ [][Next]_vars
-----------------------------------------------------------------------------
(* The properties                                                          *)

TypeOK ==
    /\ Service!ServiceTypeOK
    /\ GeneratorRegister!TypeOK
    /\ CarrierRegister!TypeOK
    /\ vouched \in [Manifests -> SUBSET {"generator", "carrier"}]

\* A manifest is submitted, and later dispatched, only if each party it names
\* was found in force after the row last changed: the check before submission
\* does not serve for dispatch, and a check of the parties of an older draft
\* serves for nothing (Transition and validateLinkedParties).
PartiesReverified ==
    [][\A m \in Manifests :
        manifests'[m].status # manifests[m].status /\ manifests'[m].status \in Checked
        => vouched[m] = {"generator", "carrier"}]_vars

\* What the check service sees of a manifest.
Standing(m) ==
    IF ~Service!Exists(manifests[m]) THEN "absent"
    ELSE IF manifests[m].deleted THEN "deleted" ELSE manifests[m].status

Board == INSTANCE ManifestBoard WITH
    Codes <- Manifests, standing <- [m \in Manifests |-> Standing(m)]

\* To a service that looks manifests up by code, each is drafted once, moves
\* along the graph only, and does not come back once deleted, however stale
\* the copies that requests in flight hold (the four methods together).
ImplementsBoard == Board!Spec

\* A transition that would still be saved has had the row's present parties
\* vouched for, as far as its lookups have come.
SaveVouched(q) ==
    Service!WouldSave(q) /\ q.op = "transition" /\ q.status \in Checked
    => /\ q.stage \in {"carrier", "commit"} => "generator" \in vouched[q.record]
       /\ q.stage = "commit" => "carrier" \in vouched[q.record]

\* The inductive invariant, for clients that wait (Ahead = 0).
Inductive ==
    /\ TypeOK
    /\ Service!ServiceInductive
    /\ \A r \in Requests : inflight[r] # Service!Idle => SaveVouched(inflight[r])

\* README.md:44 and the service's own message: "submitted manifests must be
\* retained for compliance".
SubmittedRetained ==
    \A m \in Manifests : manifests[m].deleted => manifests[m].status = "draft"
=============================================================================
