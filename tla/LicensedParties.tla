--------------------------- MODULE LicensedParties ---------------------------
(***************************************************************************)
(* The waste generator and the carrier profile services: AuditedService    *)
(* with edits and removals in every status, no lookups, and a clock.  The  *)
(* two are the same but for the graph, the first and seeded statuses, and  *)
(* which status clears a party for transfers: active for a generator with  *)
(* its permit, verified for a carrier with its licence.                    *)
(*                                                                         *)
(* What a party's row says is abstracted to its document, permit or        *)
(* licence: its number, unique in the table, and when it expires.          *)
(***************************************************************************)
EXTENDS Naturals

CONSTANTS
    NoContents,     \* what a row that was never inserted contains
    Parties,        \* codes of generators, or of carriers, one row each
    Numbers,        \* numbers of permits, or of licences
    Statuses,       \* AllGeneratorState or AllCarrierState
    Graph,          \* WasteGeneratorTransitions or CarrierProfileTransitions
    FirstStatus,    \* the status in which a party is created
    Seeds,          \* the statuses of the parties that the first start seeds
    Cleared,        \* the status that clears a party for transfers
    Requests,       \* requests that can be in flight at once
    MaxVersion,     \* bound: the highest version a row reaches
    Horizon,        \* bound: the last instant of the clock
    Ahead           \* how far ahead of the versions it was served a client runs

ASSUME BoundsAssumption == MaxVersion \in Nat \ {0} /\ Horizon \in Nat /\ Ahead \in Nat

ASSUME StatusAssumption ==
    {FirstStatus, Cleared} \cup Seeds \subseteq Statuses /\ "none" \notin Statuses

ASSUME GraphAssumption == Graph \subseteq Statuses \X Statuses

VARIABLES
    parties,        \* the table of parties, by code
    trail,          \* trail[p]: the audit entries of party p, oldest first
    inflight,       \* inflight[r]: what request r has read and has still to do
    now,            \* the wall clock
    asked           \* history: asked[r], when request r read and checked

vars == <<parties, trail, inflight, now, asked>>

\* Documents that expire within the horizon, and documents that outlive it.
Document == [number : Numbers, expires : 1..(Horizon + 1)]

Service == INSTANCE AuditedService WITH
    Records <- Parties, RecordContents <- Document, Editable <- Statuses,
    Removable <- Statuses, Stages <- {}, rows <- parties

InDate(document) == document.expires > now

\* No other row, deleted ones included, has the number the request would write.
NumberFree(request) ==
    \A p \in Parties \ {request.record} :
        Service!Exists(parties[p]) => parties[p].contents.number # request.contents.number

Init ==
    /\ Service!Init
    /\ \A p, q \in Parties : Service!Exists(parties[p]) /\ Service!Exists(parties[q]) /\ p # q
         => parties[p].contents.number # parties[q].contents.number
    /\ now = 0
    /\ asked = [r \in Requests |-> 0]

Asks(r) == asked' = [asked EXCEPT ![r] = now] /\ UNCHANGED now

Answered(r) == asked' = [asked EXCEPT ![r] = 0] /\ UNCHANGED now
-----------------------------------------------------------------------------
(* The requests                                                            *)

\* The document a client sends must not have expired.
Create(r, p, document) ==
    InDate(document) /\ Service!BeginCreate(r, p, document, "commit") /\ Asks(r)

Update(r, p, document, expected) ==
    InDate(document) /\ Service!BeginUpdate(r, p, document, expected, "commit") /\ Asks(r)

\* Mutant of Transition: whoever is cleared, the document is not looked at.
TransitionUnchecked(r, p, target, expected) ==
    Service!BeginTransition(r, p, target, expected, "commit") /\ Asks(r)

\* Only clearing a party asks for a document in date.
Transition(r, p, target, expected) ==
    /\ Service!Found(parties[p])
    /\ target = Cleared => InDate(parties[p].contents)
    /\ Service!BeginTransition(r, p, target, expected, "commit")
    /\ Asks(r)

Delete(r, p) == Service!BeginDelete(r, p) /\ Asks(r)

\* Mutant of CommitSave: the audit entry of a refused save is kept.
CommitSaveLogged(r) ==
    LET q == inflight[r] IN
    /\ q # Service!Idle /\ q.op \in {"update", "transition"}
    /\ IF NumberFree(q) THEN Service!CommitSave(r)
       ELSE Service!Write(r, parties[q.record]) /\ Service!Finish(r)
    /\ Answered(r)

\* The unique index on numbers refuses a number that another row has: the
\* statement fails, and the transaction with it.
CommitCreate(r) ==
    /\ inflight[r] # Service!Idle /\ inflight[r].op = "create"
    /\ IF NumberFree(inflight[r]) THEN Service!CommitCreate(r) ELSE Service!End(r)
    /\ Answered(r)

CommitSave(r) ==
    /\ inflight[r] # Service!Idle /\ inflight[r].op \in {"update", "transition"}
    /\ IF NumberFree(inflight[r]) THEN Service!CommitSave(r) ELSE Service!End(r)
    /\ Answered(r)

CommitDelete(r) == Service!CommitDelete(r) /\ Answered(r)

Abandon(r) == Service!End(r) /\ Answered(r)

Tick == now < Horizon /\ now' = now + 1 /\ UNCHANGED <<parties, trail, inflight, asked>>
-----------------------------------------------------------------------------
(* The whole                                                               *)

Begin(r) ==
    \E p \in Parties :
        \/ \E document \in Document : Create(r, p, document)
        \/ \E document \in Document, e \in 1..MaxVersion : Update(r, p, document, e)
        \/ \E target \in Statuses, e \in 1..MaxVersion : Transition(r, p, target, e)
        \/ Delete(r, p)

Commit(r) == CommitCreate(r) \/ CommitSave(r) \/ CommitDelete(r)

RequestStep(r) == Begin(r) \/ Commit(r) \/ Abandon(r)

Next == (\E r \in Requests : RequestStep(r)) \/ Tick

Spec == Init /\ [][Next]_vars
-----------------------------------------------------------------------------
(* The properties                                                          *)

TypeOK ==
    /\ Service!ServiceTypeOK
    /\ now \in 0..Horizon
    /\ asked \in [Requests -> 0..Horizon]

\* How a party stands with the manifest service, which looks it up by code.
Standing(p) ==
    IF ~Service!Exists(parties[p]) THEN "absent"
    ELSE IF parties[p].deleted THEN "deleted"
    ELSE IF parties[p].status = Cleared /\ InDate(parties[p].contents) THEN "in_force"
    ELSE "blocked"

Register == INSTANCE Licences WITH
    Codes <- Parties, standing <- [p \in Parties |-> Standing(p)]

\* To the manifest service the parties are a register: each is enrolled once,
\* comes in and out of force one at a time except as the clock runs out, and
\* does not come back once deleted, however stale the copies that requests in
\* flight hold (the four methods together, and the look-up by code).
ImplementsRegister == Register!Spec

\* Requests that interleave, and contend for a number of which only the statement
\* finds out that another row has it, have the effect of operations on one party
\* at a time: a refused save leaves no trace, and no party is changed in passing.
ImplementsLedger == Service!LedgerSpec

\* A status from which the graph has no edge, expired, is final, also for
\* requests that read the party before it was reached (Update and Transition
\* write back the status of a copy that may be stale).
TerminalIsFinal ==
    [][\A p \in Parties :
        /\ Service!Exists(parties[p])
        /\ \A target \in Statuses : <<parties[p].status, target>> \notin Graph
        => parties'[p].status = parties[p].status]_vars

\* A party is cleared on a document that was in date when the request that
\* cleared it looked, and on the very document that its row then says, not on
\* one that an edit has replaced since: an expiry date that passes in between
\* is the only way to clear a party with an expired document (Transition).
ClearedInDate ==
    [][\A p \in Parties :
        /\ Service!Exists(parties[p]) /\ parties[p].status # Cleared
        /\ parties'[p].status = Cleared
        => /\ parties'[p].contents = parties[p].contents
           /\ \E r \in Requests :
                  /\ inflight[r] # inflight'[r]
                  /\ parties[p].contents.expires > asked[r]]_vars

\* README.md:55 and README.md:57: what may be edited is what is still to be
\* reviewed, so a party that stays cleared keeps the document it was cleared on.
ClearedAsReviewed ==
    [][\A p \in Parties :
        parties[p].status = Cleared /\ parties'[p].status = Cleared
        => parties'[p].contents = parties[p].contents]_vars
=============================================================================
