--------------------------- MODULE ComplianceProofs ---------------------------
(***************************************************************************)
(* Theorems about ComplianceChecks, and about Compliance, which puts the   *)
(* manifest service beside it, for any sets of checks, manifests, parties  *)
(* and concurrent requests and any bounds on versions.                     *)
(***************************************************************************)
EXTENDS Compliance, TLAPS

\* The proofs about every service, with the checks for its records.
P == INSTANCE AuditedServiceProofs WITH
    Records <- Checks, RecordContents <- Manifests, Statuses <- AllCheckState,
    Graph <- ComplianceCheckTransitions, FirstStatus <- InitialStatus,
    Seeds <- SeedStatuses, Editable <- {"pending"}, Removable <- {"pending"},
    Stages <- {"manifest"}, rows <- checks
-----------------------------------------------------------------------------
(* The check service is a service                                          *)

\* The assumptions of AuditedLedger and AuditedService hold of checks.
LEMMA ServiceAssumptions ==
    /\ InitialStatus \in AllCheckState
    /\ SeedStatuses \subseteq AllCheckState
    /\ P!NoStatus \notin AllCheckState
    /\ {"pending"} \subseteq AllCheckState
    /\ ComplianceCheckTransitions \subseteq AllCheckState \X AllCheckState
    /\ MaxVersion \in Nat \ {0}
    /\ Ahead \in Nat
    /\ "idle" \notin {"manifest"}
    /\ "commit" \notin {"manifest"}
BY BoundsAssumption
   DEF P!NoStatus, AllCheckState, ComplianceCheckTransitions, InitialStatus, SeedStatuses

\* The two instances of AuditedService are the same.
LEMMA SameState ==
    /\ P!Init <=> Service!Init
    /\ P!ServiceTypeOK <=> Service!ServiceTypeOK
<1>1. P!Init <=> Service!Init
  BY DEF P!Init, P!LedgerInit, P!SeededRows, P!Inserted, P!NoRow, P!NoStatus, P!Idle,
     Service!Init, Service!LedgerInit, Service!SeededRows, Service!Inserted, Service!NoRow,
     Service!NoStatus, Service!Idle
<1>2. P!ServiceTypeOK <=> Service!ServiceTypeOK
  BY DEF P!ServiceTypeOK, P!LedgerTypeOK, P!RowType, P!Entries, P!NoStatus, P!Exists,
     P!Request, P!WriteRequest, P!DeleteRequest, P!Idle,
     Service!ServiceTypeOK, Service!LedgerTypeOK, Service!RowType, Service!Entries,
     Service!NoStatus, Service!Exists, Service!Request, Service!WriteRequest,
     Service!DeleteRequest, Service!Idle
<1>. QED
  BY <1>1, <1>2

\* Its beginnings, lookups, commits and ends are those of a service.
LEMMA BeginIsServiceBegin ==
    ASSUME NEW r \in Requests, Begin(r)
    PROVE  P!Begin(r) /\ Elsewhere
<1>1. PICK c \in Checks :
        \/ \E m \in Manifests : Create(r, c, m)
        \/ \E m \in Manifests, e \in 1..MaxVersion : Update(r, c, m, e)
        \/ \E target \in AllCheckState, e \in 1..MaxVersion : Transition(r, c, target, e)
        \/ Delete(r, c)
  BY DEF Begin
<1>2. \A m \in Manifests : Create(r, c, m) =>
        P!BeginCreate(r, c, m, "manifest") /\ Elsewhere
  BY DEF Create, P!BeginCreate, P!Start, P!Idle, P!NoStatus,
     Service!BeginCreate, Service!Start, Service!Idle, Service!NoStatus
<1>3. \A m \in Manifests, e \in 1..MaxVersion : Update(r, c, m, e) =>
        P!BeginUpdate(r, c, m, e, "manifest") /\ Elsewhere
  BY DEF Update, P!BeginUpdate, P!Start, P!Idle, P!Found, P!Exists, P!NoStatus,
     P!ClientVersions, Service!BeginUpdate, Service!Start, Service!Idle, Service!Found,
     Service!Exists, Service!NoStatus, Service!ClientVersions
<1>4. \A target \in AllCheckState, e \in 1..MaxVersion : Transition(r, c, target, e) =>
        P!BeginTransition(r, c, target, e, "manifest") /\ Elsewhere
  BY DEF Transition, P!BeginTransition, P!Start, P!Idle, P!Found, P!Exists, P!NoStatus,
     P!CanTransition, P!ClientVersions, Service!BeginTransition, Service!Start,
     Service!Idle, Service!Found, Service!Exists, Service!NoStatus, Service!CanTransition,
     Service!ClientVersions
<1>5. Delete(r, c) => P!BeginDelete(r, c) /\ Elsewhere
  BY DEF Delete, P!BeginDelete, P!Start, P!Idle, P!Found, P!Exists, P!NoStatus,
     Service!BeginDelete, Service!Start, Service!Idle, Service!Found, Service!Exists,
     Service!NoStatus
<1>. QED
  BY <1>1, <1>2, <1>3, <1>4, <1>5 DEF P!Begin

LEMMA LookupIsServiceLookup ==
    ASSUME NEW r \in Requests, LookupManifest(r)
    PROVE  (P!Lookup(r) \/ P!End(r)) /\ Elsewhere
BY DEF LookupManifest, P!Lookup, P!Advance, P!End, P!Finish, P!Idle,
   Service!Advance, Service!End, Service!Finish, Service!Idle

LEMMA CommitIsServiceCommit ==
    ASSUME NEW r \in Requests, Commit(r)
    PROVE  P!Commit(r) /\ Elsewhere
BY DEF Commit, CommitCreate, CommitSave, CommitDelete,
   P!Commit, P!CommitCreate, P!CommitSave, P!CommitDelete, P!Finish, P!Idle, P!Write,
   P!RollBack, P!Change, P!Entry, P!CanInsert, P!CanUpdate, P!CanDelete, P!Found, P!Exists,
   P!NoStatus, P!Inserted, P!Updated, P!SoftDeleted,
   Service!CommitCreate, Service!CommitSave, Service!CommitDelete, Service!Finish,
   Service!Idle, Service!Write, Service!RollBack, Service!Change, Service!Entry,
   Service!CanInsert, Service!CanUpdate, Service!CanDelete, Service!Found, Service!Exists,
   Service!NoStatus, Service!Inserted, Service!Updated, Service!SoftDeleted

LEMMA AbandonIsServiceEnd ==
    ASSUME NEW r \in Requests, Abandon(r)
    PROVE  P!End(r) /\ Elsewhere
BY DEF Abandon, P!End, P!Finish, P!Idle, Service!End, Service!Finish, Service!Idle

\* Every step is a step of a service.
LEMMA StepIsServiceStep ==
    ASSUME [Next]_vars
    PROVE  [P!Next]_(P!serviceVars)
<1>1. ASSUME NEW r \in Requests, RequestStep(r)
      PROVE  P!RequestStep(r)
  BY <1>1, BeginIsServiceBegin, LookupIsServiceLookup, CommitIsServiceCommit,
     AbandonIsServiceEnd DEF RequestStep, P!RequestStep
<1>. QED
  BY <1>1 DEF Next, P!Next, vars, P!serviceVars, ManifestStep

\* What holds of every service holds of the check service.
LEMMA SpecIsServiceSpec == Spec => P!Spec
<1>1. Init => P!Init
  BY SameState DEF Init
<1>2. [Next]_vars => [P!Next]_(P!serviceVars)
  BY StepIsServiceStep
<1>. QED
  BY <1>1, <1>2, PTL DEF Spec, P!Spec

\* The service, with requests interleaving at every database statement,
\* implements the ledger, in which each operation is one step.
THEOREM ChecksImplementLedger == ASSUME Ahead = 0 PROVE Spec => P!ImplementsLedger
BY SpecIsServiceSpec, P!ServiceImplementsLedger, ServiceAssumptions, PTL

\* The audit trail explains every check, however requests interleave.
THEOREM TrailsExplainChecks == ASSUME Ahead = 0 PROVE Spec => []Service!TrailExplainsRow
<1>1. P!TrailExplainsRow => Service!TrailExplainsRow
  BY DEF P!TrailExplainsRow, P!Explains, P!Tells, P!WithSeed, P!EntryFollows,
     P!CanTransition, P!Entry, P!Exists, P!NoStatus,
     Service!TrailExplainsRow, Service!Explains, Service!Tells, Service!WithSeed,
     Service!EntryFollows, Service!CanTransition, Service!Entry, Service!Exists,
     Service!NoStatus
<1>. QED
  BY <1>1, SpecIsServiceSpec, P!TrailsExplainRecords, ServiceAssumptions, PTL

\* The service's own invariant, for clients that wait.
LEMMA ServiceHolds == ASSUME Ahead = 0 PROVE Spec => []P!ServiceInductive
BY SpecIsServiceSpec, P!ServiceInvariant, ServiceAssumptions, PTL

\* What a decided check says is changed by no request, however old.
THEOREM ChecksFreeze == ASSUME Ahead = 0 PROVE Spec =>
    [][\A c \in Checks : checks[c].status \in {"pass", "fail", "escalated"} =>
        checks'[c].contents = checks[c].contents]_vars
<1>1. ASSUME P!ServiceInductive, [Next]_vars, NEW c \in Checks,
             checks[c].status \in {"pass", "fail", "escalated"}
      PROVE  checks'[c].contents = checks[c].contents
  <2>1. P!LedgerTypeOK /\ (P!LedgerNext \/ UNCHANGED <<checks, trail>>)
    BY <1>1, StepIsServiceStep, P!StepIsLedgerStep, ServiceAssumptions
       DEF P!ServiceInductive, P!ServiceTypeOK
  <2>2. checks[c].status \notin {"pending"} \cup {P!NoStatus}
    BY <1>1, ServiceAssumptions DEF P!NoStatus
  <2>. QED
    BY <2>1, <2>2, P!FrozenStep, ServiceAssumptions
<1>2. P!ServiceInductive /\ [Next]_vars => [\A c \in Checks : checks[c].status \in {"pass", "fail", "escalated"} =>
        checks'[c].contents = checks[c].contents]_vars
  BY <1>1
<1>. QED
  BY <1>2, ServiceHolds, PTL DEF Spec
-----------------------------------------------------------------------------
(* Decisions                                                               *)

\* No request takes a decision back, however old the copy it works on.
THEOREM DecisionsAreFinal == ASSUME Ahead = 0 PROVE Spec => DecisionsStand
<1>1. ASSUME P!ServiceInductive, [Next]_vars, NEW c \in Checks,
             checks[c].status \in {"pass", "fail", "escalated"},
             checks'[c].status # checks[c].status
      PROVE  <<checks[c].status, checks'[c].status>> \in ComplianceCheckTransitions
  <2>1. P!LedgerNext \/ UNCHANGED <<checks, trail>>
    BY <1>1, StepIsServiceStep, P!StepIsLedgerStep, ServiceAssumptions
  <2>2. P!LedgerTypeOK
    BY <1>1 DEF P!ServiceInductive, P!ServiceTypeOK
  <2>3. P!Exists(checks[c])
    BY <1>1 DEF P!Exists, P!NoStatus
  <2>4. P!CanTransition(ComplianceCheckTransitions, checks[c].status, checks'[c].status)
    BY <1>1, <2>1, <2>2, <2>3, P!StatusStep, ServiceAssumptions
  <2>. QED
    BY <2>4 DEF P!CanTransition
<1>2. ASSUME NEW from, NEW to, <<from, to>> \in ComplianceCheckTransitions
      PROVE  from \notin {"pass", "escalated"} /\ (from = "fail" => to = "escalated")
  BY <1>2 DEF ComplianceCheckTransitions
<1>3. P!ServiceInductive /\ [Next]_vars => [\A c \in Checks :
        /\ checks[c].status \in {"pass", "escalated"} => checks'[c].status = checks[c].status
        /\ checks[c].status = "fail" => checks'[c].status \in {"fail", "escalated"}]_vars
  BY <1>1, <1>2
<1>. QED
  BY <1>3, ServiceHolds, PTL DEF Spec, DecisionsStand
-----------------------------------------------------------------------------
(* Passes                                                                  *)

\* The manifests keep their type, and those past their draft were submitted.
BoardSound ==
    /\ Board!TypeOK
    /\ submitted \subseteq Manifests
    /\ \A m \in Manifests : Board!OnFile(m) /\ manifests[m] # "draft" => m \in submitted

LEMMA BoardInit == Init => BoardSound
BY DEF Init, BoardSound, Board!Init, Board!TypeOK, Board!AllManifestState

LEMMA BoardStep ==
    ASSUME BoardSound, [Next]_vars
    PROVE  BoardSound' /\ submitted \subseteq submitted'
<1>1. CASE UNCHANGED <<manifests, submitted>>
  BY <1>1 DEF BoardSound, Board!TypeOK, Board!OnFile
<1>2. CASE ManifestStep
  <2>1. PICK k \in Manifests : Board!Step(k)
    BY <1>2 DEF ManifestStep, Board!Next
  <2>2. \E s \in Board!AllManifestState \cup {"deleted"} :
            manifests' = [manifests EXCEPT ![k] = s]
    BY <2>1 DEF Board!Step, Board!Draft, Board!Move, Board!Withdraw, Board!Set,
       Board!AllManifestState
  <2>3. Board!TypeOK'
    BY <2>2 DEF BoardSound, Board!TypeOK
  <2>4. submitted' = submitted \cup {m \in Manifests : Board!OnFile(m)' /\ manifests'[m] # "draft"}
    BY <1>2 DEF ManifestStep, Observe
  <2>. QED
    BY <2>3, <2>4 DEF BoardSound
<1>. QED
  BY <1>1, <1>2, BeginIsServiceBegin, LookupIsServiceLookup, CommitIsServiceCommit,
     AbandonIsServiceEnd DEF Next, RequestStep, Elsewhere, vars

LEMMA BoardHolds == Spec => []BoardSound
<1>1. BoardSound /\ [Next]_vars => BoardSound'
  BY BoardStep
<1>. QED
  BY <1>1, BoardInit, PTL DEF Spec

\* Every variable keeps its type, whatever clients send.
THEOREM TypeCorrect == Spec => []TypeOK
<1>1. P!ServiceTypeOK /\ BoardSound => TypeOK
  BY SameState DEF TypeOK, BoardSound
<1>. QED
  BY <1>1, BoardHolds, SpecIsServiceSpec, P!ServiceTypeCorrect, ServiceAssumptions, PTL

\* Only a transition writes a pass, and commits it only after its lookup.
PassSound(q) ==
    q.status = "pass" => q.op = "transition" /\ (q.stage = "commit" => q.contents \in submitted)

Sound == \A r \in Requests : inflight[r] # P!Idle => PassSound(inflight[r])

\* A request that has just begun is no pass, or has its lookup before it.
LEMMA BeginSound ==
    ASSUME P!ServiceTypeOK, NEW r \in Requests, Begin(r), NEW n, n = inflight'[r]
    PROVE  PassSound(n)'
<1>1. ASSUME NEW request, Service!Start(r, request)
      PROVE  n = request
  BY <1>1 DEF Service!Start, P!ServiceTypeOK
<1>2. PICK c \in Checks :
        \/ \E m \in Manifests : Create(r, c, m)
        \/ \E m \in Manifests, e \in 1..MaxVersion : Update(r, c, m, e)
        \/ \E target \in AllCheckState, e \in 1..MaxVersion : Transition(r, c, target, e)
        \/ Delete(r, c)
  BY DEF Begin
<1>3. CASE \E m \in Manifests : Create(r, c, m)
  <2>1. PICK m \in Manifests : Create(r, c, m)
    BY <1>3
  <2>2. n.status = "pending"
    BY <1>1, <2>1 DEF Create, Service!BeginCreate, InitialStatus
  <2>. QED
    BY <2>2 DEF PassSound
<1>4. CASE \E m \in Manifests, e \in 1..MaxVersion : Update(r, c, m, e)
  <2>1. PICK m \in Manifests, e \in 1..MaxVersion : Update(r, c, m, e)
    BY <1>4
  <2>2. n.status = "pending"
    BY <1>1, <2>1 DEF Update, Service!BeginUpdate
  <2>. QED
    BY <2>2 DEF PassSound
<1>5. CASE \E target \in AllCheckState, e \in 1..MaxVersion : Transition(r, c, target, e)
  <2>1. PICK target \in AllCheckState, e \in 1..MaxVersion : Transition(r, c, target, e)
    BY <1>5
  <2>2. n.op = "transition" /\ n.stage = "manifest"
    BY <1>1, <2>1 DEF Transition, Service!BeginTransition
  <2>. QED
    BY <2>2 DEF PassSound
<1>6. CASE Delete(r, c)
  <2>1. n.status = "deleted"
    BY <1>1, <1>6 DEF Delete, Service!BeginDelete
  <2>. QED
    BY <2>1 DEF PassSound
<1>. QED
  BY <1>2, <1>3, <1>4, <1>5, <1>6

\* A pass reaches its commit only if its manifest was found under way.
LEMMA LookupSound ==
    ASSUME P!ServiceTypeOK, BoardSound, Sound, NEW r \in Requests, LookupManifest(r),
           NEW n, n = inflight'[r], n # P!Idle
    PROVE  PassSound(n)'
<1>. PICK q : q = inflight[r]
  OBVIOUS
<1>1. q # P!Idle /\ q.stage = "manifest"
  BY DEF LookupManifest, P!Idle
<1>2. q \in P!WriteRequest /\ PassSound(q)
  BY <1>1 DEF Sound, P!ServiceTypeOK, P!Request, P!DeleteRequest
<1>3. ManifestAccepted(q) /\ n = [q EXCEPT !.stage = "commit"] /\ submitted' = submitted
  BY DEF LookupManifest, Service!Advance, Service!End, Service!Finish, Service!Idle, P!Idle,
     P!ServiceTypeOK, Elsewhere
<1>4. n.op = q.op /\ n.status = q.status /\ n.contents = q.contents /\ q.contents \in Manifests
  BY <1>2, <1>3 DEF P!WriteRequest
<1>5. q.op = "transition" /\ q.status = "pass" => q.contents \in submitted
  BY <1>3, <1>4 DEF ManifestAccepted, BoardSound
<1>. QED
  BY <1>2, <1>3, <1>4, <1>5 DEF PassSound

LEMMA SoundStep ==
    ASSUME P!ServiceTypeOK, BoardSound, Sound, [Next]_vars
    PROVE  Sound'
<1>1. ASSUME NEW s \in Requests, inflight'[s] # P!Idle
      PROVE  PassSound(inflight[s])'
  <2>. PICK n : n = inflight'[s]
    OBVIOUS
  <2>1. SUFFICES PassSound(n)'
    BY DEF PassSound
  <2>2. CASE inflight'[s] = inflight[s]
    <3>1. PassSound(n)
      BY <1>1, <2>2 DEF Sound
    <3>. QED
      BY <3>1, BoardStep DEF PassSound
  <2>3. CASE inflight'[s] # inflight[s]
    <3>1. PICK r \in Requests : RequestStep(r)
      BY <2>3 DEF Next, vars, ManifestStep
    <3>2. r = s
      BY <2>3, <3>1, BeginIsServiceBegin, LookupIsServiceLookup,
         CommitIsServiceCommit, AbandonIsServiceEnd
         DEF P!ServiceTypeOK, RequestStep, P!Begin, P!BeginCreate, P!BeginUpdate,
             P!BeginTransition, P!BeginDelete, P!Start, P!Lookup, P!Advance, P!Commit,
             P!CommitCreate, P!CommitSave, P!CommitDelete, P!End, P!Finish
    <3>3. CASE Begin(s)
      BY <3>3, BeginSound
    <3>4. CASE LookupManifest(s)
      BY <1>1, <3>4, LookupSound
    <3>5. CASE P!Commit(s) \/ P!End(s)
      BY <1>1, <3>5 DEF P!ServiceTypeOK, P!Commit, P!CommitCreate, P!CommitSave,
         P!CommitDelete, P!End, P!Finish
    <3>. QED
      BY <3>1, <3>2, <3>3, <3>4, <3>5, CommitIsServiceCommit, AbandonIsServiceEnd
         DEF RequestStep
  <2>. QED
    BY <2>2, <2>3
<1>. QED
  BY <1>1 DEF Sound, P!Idle

\* A commit that leaves a check passed wrote a manifest looked up before, or
\* left status and manifest alone.
LEMMA PassCommitted ==
    ASSUME P!ServiceTypeOK, Sound, PassedWasSubmitted, NEW r \in Requests, P!Commit(r),
           NEW c \in Checks, checks'[c].status = "pass"
    PROVE  checks'[c].contents \in submitted
<1>. DEFINE q == inflight[r]
<1>1. q # P!Idle /\ q.stage = "commit" /\ PassSound(q)
  BY DEF P!Commit, P!CommitCreate, P!CommitSave, P!CommitDelete, P!Idle, Sound
<1>2. CASE checks'[c] = checks[c]
  BY <1>2 DEF PassedWasSubmitted
<1>3. CASE checks'[c] # checks[c]
  <2>1. ~P!RollBack
    BY <1>3 DEF P!RollBack
  <2>2. ASSUME NEW row, P!Write(r, row)
        PROVE  q.record = c /\ checks'[c] = row
    BY <1>3, <2>2 DEF P!Write, P!Change, P!ServiceTypeOK, P!LedgerTypeOK
  <2>3. CASE P!Write(r, P!Inserted(q.status, q.contents))
    BY <1>1, <2>2, <2>3 DEF P!Inserted, PassSound
  <2>4. CASE P!Write(r, P!Updated(checks[q.record], q.status, q.contents, q.expected))
    BY <1>1, <2>2, <2>4 DEF P!Updated, PassSound
  <2>5. CASE P!Write(r, P!SoftDeleted(checks[q.record]))
    <3>1. checks'[c] = P!SoftDeleted(checks[c])
      BY <2>2, <2>5
    <3>2. checks'[c].status = checks[c].status /\ checks'[c].contents = checks[c].contents
      BY <3>1 DEF P!SoftDeleted, P!ServiceTypeOK, P!LedgerTypeOK, P!RowType
    <3>. QED
      BY <3>2 DEF PassedWasSubmitted
  <2>. QED
    BY <2>1, <2>3, <2>4, <2>5
       DEF P!Commit, P!CommitCreate, P!CommitSave, P!CommitDelete
<1>. QED
  BY <1>2, <1>3

\* Every check that passed cites a manifest that was submitted, whatever the
\* clients of the service send.
THEOREM PassesRestOnSubmissions == Spec => []PassedWasSubmitted
<1>1. Init => PassedWasSubmitted /\ Sound
  <2>. SUFFICES ASSUME Init PROVE PassedWasSubmitted /\ Sound
    OBVIOUS
  <2>1. Sound
    BY DEF Init, Sound, Service!Init, Service!Idle, P!Idle
  <2>2. ASSUME NEW c \in Checks, checks[c].status = "pass"
        PROVE  checks[c].contents \in submitted
    <3>1. Service!Exists(checks[c])
      BY <2>2 DEF Service!Exists, Service!NoStatus
    <3>2. checks[c].contents \in Manifests
      BY <3>1, <2>2, P!ServiceTypeInit, ServiceAssumptions, SameState
         DEF Init, P!ServiceTypeOK, P!Exists, Service!Exists, P!NoStatus, Service!NoStatus
    <3>. QED
      BY <3>1, <3>2 DEF Init, Board!OnFile
  <2>. QED
    BY <2>1, <2>2 DEF PassedWasSubmitted
<1>2. ASSUME P!ServiceTypeOK, BoardSound, Sound, PassedWasSubmitted, [Next]_vars
      PROVE  PassedWasSubmitted'
  <2>1. ASSUME NEW c \in Checks, checks'[c].status = "pass"
        PROVE  checks'[c].contents \in submitted
    <3>1. CASE checks' = checks
      BY <1>2, <2>1, <3>1 DEF PassedWasSubmitted
    <3>2. CASE checks' # checks
      <4>1. PICK r \in Requests : P!Commit(r)
        BY <1>2, <3>2, StepIsServiceStep
           DEF P!Next, P!serviceVars, P!RequestStep, P!Begin, P!BeginCreate, P!BeginUpdate,
               P!BeginTransition, P!BeginDelete, P!Start, P!Lookup, P!Advance, P!End
      <4>. QED
        BY <1>2, <2>1, <4>1, PassCommitted
    <3>. QED
      BY <3>1, <3>2
  <2>. QED
    BY <1>2, <2>1, BoardStep DEF PassedWasSubmitted
<1>3. P!ServiceTypeOK /\ BoardSound /\ Sound /\ [Next]_vars => Sound'
  BY SoundStep
<1>. QED
  BY <1>1, <1>2, <1>3, BoardHolds, SpecIsServiceSpec, P!ServiceTypeCorrect,
     ServiceAssumptions, PTL DEF Spec
-----------------------------------------------------------------------------
(* Beside the manifest service itself                                      *)

\* The proofs about the manifest service, with the rows of Compliance.
Drafts == INSTANCE TransferManifestsProofs WITH
    manifests <- rows, trail <- manifestTrail, inflight <- manifestInflight,
    Requests <- ManifestRequests, MaxVersion <- ManifestVersions

\* The two instances of TransferManifests are the same, as far as they are needed.
LEMMA SameParties ==
    /\ \A m : ManifestService!InForceParties(m) = Drafts!InForceParties(m)
    /\ \A m : ManifestService!InForceParties(m)' = Drafts!InForceParties(m)'
BY DEF ManifestService!InForceParties, ManifestService!Service!Found,
   ManifestService!Service!Exists, ManifestService!Service!NoStatus,
   ManifestService!GeneratorRegister!InForce, ManifestService!CarrierRegister!InForce,
   Drafts!InForceParties, Drafts!Service!Found,
   Drafts!Service!Exists, Drafts!Service!NoStatus,
   Drafts!GeneratorRegister!InForce, Drafts!CarrierRegister!InForce

LEMMA SameObserve == ManifestService!Elsewhere <=> Drafts!Elsewhere
BY SameParties DEF ManifestService!Elsewhere, ManifestService!Observe, Drafts!Elsewhere, Drafts!Observe

LEMMA SameInit == ManifestService!Init <=> Drafts!Init
BY DEF ManifestService!Init, ManifestService!Service!Init, ManifestService!Service!LedgerInit,
   ManifestService!Service!SeededRows, ManifestService!Service!Inserted,
   ManifestService!Service!NoRow, ManifestService!Service!NoStatus,
   ManifestService!Service!Exists, ManifestService!Service!Idle,
   ManifestService!GeneratorRegister!Init, ManifestService!CarrierRegister!Init,
   ManifestService!GeneratorRegister!InForce, ManifestService!CarrierRegister!InForce,
   ManifestService!SeedStatuses, ManifestService!Contents,
   Drafts!Init, Drafts!Service!Init, Drafts!Service!LedgerInit,
   Drafts!Service!SeededRows, Drafts!Service!Inserted,
   Drafts!Service!NoRow, Drafts!Service!NoStatus,
   Drafts!Service!Exists, Drafts!Service!Idle,
   Drafts!GeneratorRegister!Init, Drafts!CarrierRegister!Init,
   Drafts!GeneratorRegister!InForce, Drafts!CarrierRegister!InForce,
   Drafts!SeedStatuses, Drafts!Contents

LEMMA SameBegin ==
    ASSUME NEW r, ManifestService!Begin(r)
    PROVE  Drafts!Begin(r)
<1>1. \A m, contents : ManifestService!Create(r, m, contents) => Drafts!Create(r, m, contents)
  BY SameObserve
   DEF ManifestService!Create, ManifestService!InitialStatus,
       ManifestService!Service!BeginCreate, ManifestService!Service!Start,
       ManifestService!Service!Idle, ManifestService!Service!NoStatus,
       ManifestService!Service!Found, ManifestService!Service!Exists,
       ManifestService!Service!ClientVersions, ManifestService!Service!CanTransition,
       Drafts!Create, Drafts!InitialStatus, Drafts!Service!BeginCreate,
       Drafts!Service!Start, Drafts!Service!Idle, Drafts!Service!NoStatus,
       Drafts!Service!Found, Drafts!Service!Exists, Drafts!Service!ClientVersions,
       Drafts!Service!CanTransition
<1>2. \A m, contents, e : ManifestService!Update(r, m, contents, e)
                         => Drafts!Update(r, m, contents, e)
  BY SameObserve
   DEF ManifestService!Update, ManifestService!Service!BeginUpdate,
       ManifestService!Service!Start, ManifestService!Service!Idle,
       ManifestService!Service!NoStatus, ManifestService!Service!Found,
       ManifestService!Service!Exists, ManifestService!Service!ClientVersions,
       ManifestService!Service!CanTransition, Drafts!Update,
       Drafts!Service!BeginUpdate, Drafts!Service!Start, Drafts!Service!Idle,
       Drafts!Service!NoStatus, Drafts!Service!Found, Drafts!Service!Exists,
       Drafts!Service!ClientVersions, Drafts!Service!CanTransition
<1>3. \A m, target, e : ManifestService!Transition(r, m, target, e)
                       => Drafts!Transition(r, m, target, e)
  BY SameObserve
   DEF ManifestService!Transition, ManifestService!Checked,
       ManifestService!AllManifestState, ManifestService!TransferManifestTransitions,
       ManifestService!Service!BeginTransition, ManifestService!Service!Start,
       ManifestService!Service!Idle, ManifestService!Service!NoStatus,
       ManifestService!Service!Found, ManifestService!Service!Exists,
       ManifestService!Service!ClientVersions, ManifestService!Service!CanTransition,
       Drafts!Transition, Drafts!Checked, Drafts!AllManifestState,
       Drafts!TransferManifestTransitions, Drafts!Service!BeginTransition,
       Drafts!Service!Start, Drafts!Service!Idle, Drafts!Service!NoStatus,
       Drafts!Service!Found, Drafts!Service!Exists, Drafts!Service!ClientVersions,
       Drafts!Service!CanTransition
<1>4. \A m : ManifestService!Delete(r, m) => Drafts!Delete(r, m)
  BY SameObserve
   DEF ManifestService!Delete, ManifestService!Service!BeginDelete,
       ManifestService!Service!Start, ManifestService!Service!Idle,
       ManifestService!Service!NoStatus, ManifestService!Service!Found,
       ManifestService!Service!Exists, ManifestService!Service!ClientVersions,
       ManifestService!Service!CanTransition, Drafts!Delete,
       Drafts!Service!BeginDelete, Drafts!Service!Start, Drafts!Service!Idle,
       Drafts!Service!NoStatus, Drafts!Service!Found, Drafts!Service!Exists,
       Drafts!Service!ClientVersions, Drafts!Service!CanTransition
<1>. QED
  BY <1>1, <1>2, <1>3, <1>4
   DEF ManifestService!Begin, ManifestService!Contents,
       ManifestService!AllManifestState, ManifestService!Service!Idle, Drafts!Begin,
       Drafts!Contents, Drafts!AllManifestState, Drafts!Service!Idle

LEMMA SameRequestStep ==
    ASSUME NEW r, ManifestService!RequestStep(r)
    PROVE  Drafts!RequestStep(r)
<1>1. ManifestService!LookupGenerator(r) => Drafts!LookupGenerator(r)
  BY SameObserve
   DEF ManifestService!LookupGenerator, ManifestService!GeneratorAccepted,
       ManifestService!GeneratorRegister!InForce,
       ManifestService!GeneratorRegister!OnFile, ManifestService!Service!Advance,
       ManifestService!Service!End, ManifestService!Service!Finish,
       ManifestService!Service!Idle, Drafts!LookupGenerator, Drafts!GeneratorAccepted,
       Drafts!GeneratorRegister!InForce, Drafts!GeneratorRegister!OnFile,
       Drafts!Service!Advance, Drafts!Service!End, Drafts!Service!Finish,
       Drafts!Service!Idle
<1>2. ManifestService!LookupCarrier(r) => Drafts!LookupCarrier(r)
  BY SameObserve
   DEF ManifestService!LookupCarrier, ManifestService!CarrierAccepted,
       ManifestService!CarrierRegister!InForce, ManifestService!CarrierRegister!OnFile,
       ManifestService!Service!Advance, ManifestService!Service!End,
       ManifestService!Service!Finish, ManifestService!Service!Idle,
       Drafts!LookupCarrier, Drafts!CarrierAccepted, Drafts!CarrierRegister!InForce,
       Drafts!CarrierRegister!OnFile, Drafts!Service!Advance, Drafts!Service!End,
       Drafts!Service!Finish, Drafts!Service!Idle
<1>3. ManifestService!CommitCreate(r) => Drafts!CommitCreate(r)
  BY SameObserve
   DEF ManifestService!CommitCreate, ManifestService!Service!CommitCreate,
       ManifestService!Service!CanInsert, ManifestService!Service!Exists,
       ManifestService!Service!NoStatus, ManifestService!Service!Write,
       ManifestService!Service!Change, ManifestService!Service!Entry,
       ManifestService!Service!Inserted, ManifestService!Service!RollBack,
       ManifestService!Service!Finish, ManifestService!Service!Idle,
       Drafts!CommitCreate, Drafts!Service!CommitCreate, Drafts!Service!CanInsert,
       Drafts!Service!Exists, Drafts!Service!NoStatus, Drafts!Service!Write,
       Drafts!Service!Change, Drafts!Service!Entry, Drafts!Service!Inserted,
       Drafts!Service!RollBack, Drafts!Service!Finish, Drafts!Service!Idle
<1>4. ManifestService!CommitSave(r) => Drafts!CommitSave(r)
  BY SameObserve
   DEF ManifestService!CommitSave, ManifestService!Service!CommitSave,
       ManifestService!Service!CanUpdate, ManifestService!Service!Found,
       ManifestService!Service!Exists, ManifestService!Service!NoStatus,
       ManifestService!Service!Write, ManifestService!Service!Change,
       ManifestService!Service!Entry, ManifestService!Service!Updated,
       ManifestService!Service!RollBack, ManifestService!Service!Finish,
       ManifestService!Service!Idle, Drafts!CommitSave, Drafts!Service!CommitSave,
       Drafts!Service!CanUpdate, Drafts!Service!Found, Drafts!Service!Exists,
       Drafts!Service!NoStatus, Drafts!Service!Write, Drafts!Service!Change,
       Drafts!Service!Entry, Drafts!Service!Updated, Drafts!Service!RollBack,
       Drafts!Service!Finish, Drafts!Service!Idle
<1>5. ManifestService!CommitDelete(r) => Drafts!CommitDelete(r)
  BY SameObserve
   DEF ManifestService!CommitDelete, ManifestService!Service!CommitDelete,
       ManifestService!Service!CanDelete, ManifestService!Service!Found,
       ManifestService!Service!Exists, ManifestService!Service!NoStatus,
       ManifestService!Service!Write, ManifestService!Service!Change,
       ManifestService!Service!Entry, ManifestService!Service!SoftDeleted,
       ManifestService!Service!RollBack, ManifestService!Service!Finish,
       ManifestService!Service!Idle, Drafts!CommitDelete, Drafts!Service!CommitDelete,
       Drafts!Service!CanDelete, Drafts!Service!Found, Drafts!Service!Exists,
       Drafts!Service!NoStatus, Drafts!Service!Write, Drafts!Service!Change,
       Drafts!Service!Entry, Drafts!Service!SoftDeleted, Drafts!Service!RollBack,
       Drafts!Service!Finish, Drafts!Service!Idle
<1>6. ManifestService!Abandon(r) => Drafts!Abandon(r)
  BY SameObserve
   DEF ManifestService!Abandon, ManifestService!Service!End,
       ManifestService!Service!Finish, ManifestService!Service!Idle, Drafts!Abandon,
       Drafts!Service!End, Drafts!Service!Finish, Drafts!Service!Idle
<1>. QED
  BY <1>1, <1>2, <1>3, <1>4, <1>5, <1>6, SameBegin
   DEF ManifestService!RequestStep, ManifestService!Lookup, ManifestService!Commit,
       Drafts!RequestStep, Drafts!Lookup, Drafts!Commit

LEMMA SameNext == ManifestService!Next => Drafts!Next
<1>1. ManifestService!GeneratorStep => Drafts!GeneratorStep
  BY SameParties
   DEF ManifestService!GeneratorStep, ManifestService!Observe,
       ManifestService!GeneratorRegister!Next, ManifestService!GeneratorRegister!Step,
       ManifestService!GeneratorRegister!Enroll,
       ManifestService!GeneratorRegister!Block,
       ManifestService!GeneratorRegister!Restore,
       ManifestService!GeneratorRegister!Withdraw,
       ManifestService!GeneratorRegister!Set, ManifestService!GeneratorRegister!OnFile,
       Drafts!GeneratorStep, Drafts!Observe, Drafts!GeneratorRegister!Next,
       Drafts!GeneratorRegister!Step, Drafts!GeneratorRegister!Enroll,
       Drafts!GeneratorRegister!Block, Drafts!GeneratorRegister!Restore,
       Drafts!GeneratorRegister!Withdraw, Drafts!GeneratorRegister!Set,
       Drafts!GeneratorRegister!OnFile
<1>2. ManifestService!CarrierStep => Drafts!CarrierStep
  BY SameParties
   DEF ManifestService!CarrierStep, ManifestService!Observe,
       ManifestService!CarrierRegister!Next, ManifestService!CarrierRegister!Step,
       ManifestService!CarrierRegister!Enroll, ManifestService!CarrierRegister!Block,
       ManifestService!CarrierRegister!Restore,
       ManifestService!CarrierRegister!Withdraw, ManifestService!CarrierRegister!Set,
       ManifestService!CarrierRegister!OnFile, Drafts!CarrierStep, Drafts!Observe,
       Drafts!CarrierRegister!Next, Drafts!CarrierRegister!Step,
       Drafts!CarrierRegister!Enroll, Drafts!CarrierRegister!Block,
       Drafts!CarrierRegister!Restore, Drafts!CarrierRegister!Withdraw,
       Drafts!CarrierRegister!Set, Drafts!CarrierRegister!OnFile
<1>. QED
  BY <1>1, <1>2, SameRequestStep DEF ManifestService!Next, Drafts!Next

\* To the manifest service the checks do not exist.
LEMMA SpecIsManifestSpec == ComplianceSpec => Drafts!Spec
<1>1. ComplianceInit => Drafts!Init
  BY SameInit DEF ComplianceInit
<1>2. [ComplianceNext]_complianceVars => [Drafts!Next]_(Drafts!vars)
  BY SameNext DEF ComplianceNext, CheckServiceStep, ManifestServiceStep, complianceVars,
     manifestVars, Drafts!vars
<1>. QED
  BY <1>1, <1>2, PTL DEF ComplianceSpec, Drafts!Spec

LEMMA ManifestsKnown == ASSUME Ahead = 0 PROVE ComplianceSpec => []Drafts!Known
BY SpecIsManifestSpec, Drafts!KnownHolds, BoundsAssumption, VersionsAssumption, PTL

\* A step is one of a request to the check service, which leaves the manifests
\* and their parties alone, or one of the manifest service.
LEMMA ComplianceStep ==
    ASSUME [ComplianceNext]_complianceVars
    PROVE  \/ [Next]_vars /\ UNCHANGED <<manifests, submitted>> /\ UNCHANGED manifestVars
           \/ ManifestServiceStep /\ Drafts!Next
<1>1. ASSUME NEW r \in Requests, RequestStep(r)
      PROVE  Next /\ UNCHANGED <<manifests, submitted>>
  BY <1>1, BeginIsServiceBegin, LookupIsServiceLookup, CommitIsServiceCommit,
     AbandonIsServiceEnd DEF RequestStep, Next, Elsewhere
<1>. QED
  BY <1>1, SameNext DEF ComplianceNext, CheckServiceStep, ManifestServiceStep, complianceVars,
     vars

\* What the rows, the board and the history variables say of each other.
Linked ==
    /\ manifests = Standings
    /\ submitted \subseteq Manifests
    /\ \A m \in Manifests : Board!OnFile(m) /\ manifests[m] # "draft" => m \in submitted
    /\ backed \in [Manifests -> SUBSET {"generator", "carrier"}]
    /\ \A m \in Manifests : vouched[m] \subseteq backed[m]
    /\ \A m \in Manifests : Drafts!PastDraft(m) => backed[m] = {"generator", "carrier"}
    /\ \A m \in submitted : Drafts!PastDraft(m)

LEMMA LinkedInit == ComplianceInit => Linked
<1>. SUFFICES ASSUME ComplianceInit PROVE Linked
  OBVIOUS
<1>1. /\ manifests = Standings
      /\ backed = [m \in Manifests |-> Drafts!InForceParties(m)]
      /\ submitted = {m \in Manifests : Board!OnFile(m) /\ manifests[m] # "draft"}
      /\ vouched = [m \in Manifests |-> {}]
  BY SameInit, SameParties DEF ComplianceInit, Init, Drafts!Init
<1>2. backed \in [Manifests -> SUBSET {"generator", "carrier"}]
  BY <1>1 DEF Drafts!InForceParties
<1>3. ASSUME NEW m \in Manifests, Drafts!PastDraft(m)
      PROVE  backed[m] = {"generator", "carrier"}
  <2>1. Drafts!Service!Found(rows[m]) /\ Drafts!Service!Exists(rows[m])
    BY <1>3, SameInit DEF ComplianceInit, Drafts!Init, Drafts!PastDraft, Drafts!AllManifestState,
       Drafts!Service!Init, Drafts!Service!LedgerInit, Drafts!Service!SeededRows,
       Drafts!Service!Inserted, Drafts!Service!NoRow, Drafts!Service!NoStatus,
       Drafts!Service!Found, Drafts!Service!Exists
  <2>2. /\ Drafts!GeneratorRegister!InForce(rows[m].contents.generator)
        /\ Drafts!CarrierRegister!InForce(rows[m].contents.carrier)
    BY <2>1, SameInit DEF ComplianceInit, Drafts!Init
  <2>. QED
    BY <1>1, <2>1, <2>2 DEF Drafts!InForceParties
<1>4. ASSUME NEW m \in submitted
      PROVE  Drafts!PastDraft(m)
  <2>1. m \in Manifests /\ manifests[m] = ManifestService!Standing(m)
        /\ manifests[m] \in {"submitted", "in_transit"}
    BY <1>1, <1>4 DEF Standings, Board!OnFile, ComplianceInit, Init, Board!Init
  <2>. QED
    BY <2>1 DEF ManifestService!Standing, Drafts!PastDraft, Drafts!AllManifestState
<1>. QED
  BY <1>1, <1>2, <1>3, <1>4 DEF Linked

LEMMA LinkedStep ==
    ASSUME Linked, Drafts!Known, Drafts!Known', [ComplianceNext]_complianceVars
    PROVE  Linked'
<1>1. CASE UNCHANGED <<manifests, submitted>> /\ UNCHANGED manifestVars
  BY <1>1 DEF Linked, manifestVars, Standings, ManifestService!Standing,
     ManifestService!Service!Exists, Drafts!PastDraft, Board!OnFile
<1>2. CASE ManifestServiceStep /\ Drafts!Next
  <2>1. /\ manifests' = Standings'
        /\ submitted' = submitted \cup
               {m \in Manifests : Board!OnFile(m)' /\ manifests'[m] # "draft"}
        /\ backed' = [m \in Manifests |->
               Drafts!InForceParties(m)' \cup
               IF rows'[m].contents = rows[m].contents THEN backed[m] ELSE {}]
    BY <1>2, SameParties DEF ManifestServiceStep, Track, Observe
  <2>2. \A m \in Manifests :
            vouched'[m] \subseteq Drafts!InForceParties(m)' \cup
                                  (IF rows'[m] = rows[m] THEN vouched[m] ELSE {})
    <3>1. UNCHANGED Drafts!vars \/ Drafts!Observe
      BY <1>2, Drafts!StepIsServiceStep, BoundsAssumption, VersionsAssumption
    <3>. QED
      BY <3>1 DEF Drafts!vars, Drafts!Observe
  <2>3. \A m \in Manifests : vouched'[m] \subseteq backed'[m]
    BY <2>1, <2>2 DEF Linked
  <2>4. backed' \in [Manifests -> SUBSET {"generator", "carrier"}]
    BY <2>1 DEF Linked, Drafts!InForceParties
  <2>5. ASSUME NEW m \in Manifests
        PROVE  /\ Drafts!PastDraft(m) => Drafts!PastDraft(m)' /\ rows'[m].contents = rows[m].contents
               /\ Drafts!PastDraft(m)' /\ ~Drafts!PastDraft(m) =>
                    /\ vouched[m] = {"generator", "carrier"}
                    /\ rows'[m].contents = rows[m].contents
    BY <1>2, Drafts!PastDraftStep, BoundsAssumption, VersionsAssumption
  <2>6. ASSUME NEW m \in Manifests, Drafts!PastDraft(m)'
        PROVE  backed'[m] = {"generator", "carrier"}
    <3>1. backed[m] = {"generator", "carrier"} /\ rows'[m].contents = rows[m].contents
      BY <2>5, <2>6 DEF Linked
    <3>2. backed[m] \subseteq backed'[m]
      BY <2>1, <3>1
    <3>. QED
      BY <2>4, <3>1, <3>2
  <2>7. ASSUME NEW m \in submitted'
        PROVE  m \in Manifests /\ Drafts!PastDraft(m)'
    <3>1. CASE m \in submitted
      BY <2>5, <3>1 DEF Linked
    <3>2. CASE m \notin submitted
      <4>1. /\ m \in Manifests
            /\ ManifestService!Standing(m)' \notin {"absent", "deleted", "draft"}
        BY <2>1, <2>7, <3>2 DEF Board!OnFile, Standings
      <4>2. rows'[m].status \in Drafts!AllManifestState \cup {"none"}
        BY <4>1 DEF Drafts!Known, Drafts!TypeOK, Drafts!Service!ServiceTypeOK,
           Drafts!Service!LedgerTypeOK, Drafts!Service!RowType, Drafts!Service!NoStatus
      <4>. QED
        BY <4>1, <4>2 DEF ManifestService!Standing, ManifestService!Service!Exists,
           ManifestService!Service!NoStatus, Drafts!PastDraft
    <3>. QED
      BY <3>1, <3>2
  <2>. QED
    BY <2>1, <2>3, <2>4, <2>6, <2>7 DEF Linked
<1>. QED
  BY <1>1, <1>2, ComplianceStep

LEMMA LinkedHolds == ASSUME Ahead = 0 PROVE ComplianceSpec => []Linked
<1>1. Linked /\ Drafts!Known /\ Drafts!Known' /\ [ComplianceNext]_complianceVars => Linked'
  BY LinkedStep
<1>. QED
  BY <1>1, LinkedInit, ManifestsKnown, PTL DEF ComplianceSpec

\* The manifest service is what the check service takes it for: beside it, the
\* checks behave as they do on the board.
THEOREM ChecksOnManifests == ASSUME Ahead = 0 PROVE ComplianceSpec => Spec
<1>1. ComplianceInit => Init
  BY DEF ComplianceInit
<1>2. ASSUME Linked, Linked', Drafts!Known, [ComplianceNext]_complianceVars
      PROVE  [Next]_vars
  <2>1. CASE ManifestServiceStep /\ Drafts!Next
    <3>1. Drafts!Board!Next \/ UNCHANGED [m \in Manifests |-> Drafts!Standing(m)]
      BY <1>2, <2>1, Drafts!StepOnBoard, BoundsAssumption, VersionsAssumption
    <3>2. /\ manifests = [m \in Manifests |-> Drafts!Standing(m)]
          /\ manifests' = [m \in Manifests |-> Drafts!Standing(m)']
      BY <1>2 DEF Linked, Standings, ManifestService!Standing, Drafts!Standing,
         ManifestService!Service!Exists, ManifestService!Service!NoStatus,
         Drafts!Service!Exists, Drafts!Service!NoStatus
    <3>3. Observe /\ UNCHANGED <<checks, trail, inflight>>
      BY <2>1 DEF ManifestServiceStep
    <3>4. CASE Drafts!Board!Next
      <4>1. Board!Next
        BY <3>2, <3>4 DEF Board!Next, Board!Step, Board!Draft, Board!Move, Board!Withdraw,
           Board!OnFile, Board!Set, Board!CanTransition, Board!TransferManifestTransitions,
           Board!AllManifestState, Drafts!Board!Next, Drafts!Board!Step, Drafts!Board!Draft,
           Drafts!Board!Move, Drafts!Board!Withdraw, Drafts!Board!OnFile, Drafts!Board!Set,
           Drafts!Board!CanTransition, Drafts!Board!TransferManifestTransitions,
           Drafts!Board!AllManifestState
      <4>. QED
        BY <3>3, <4>1 DEF Next, ManifestStep
    <3>5. CASE UNCHANGED [m \in Manifests |-> Drafts!Standing(m)]
      <4>1. manifests' = manifests
        BY <3>2, <3>5
      <4>2. submitted' = submitted
        BY <1>2, <3>3, <4>1 DEF Observe, Linked, Board!OnFile
      <4>. QED
        BY <3>3, <4>1, <4>2 DEF vars
    <3>. QED
      BY <3>1, <3>4, <3>5
  <2>. QED
    BY <1>2, <2>1, ComplianceStep
<1>. QED
  BY <1>1, <1>2, LinkedHolds, ManifestsKnown, PTL DEF ComplianceSpec, Spec

\* A passed check rests on a manifest past its draft, and on parties each of
\* which was in force while the manifest named it.
THEOREM PassesRestOnParties == ASSUME Ahead = 0 PROVE ComplianceSpec => []PassRestsOnParties
<1>1. Linked /\ PassedWasSubmitted => PassRestsOnParties
  BY DEF Linked, PassedWasSubmitted, PassRestsOnParties, Drafts!PastDraft,
     Drafts!AllManifestState, AllManifestState
<1>. QED
  BY <1>1, LinkedHolds, ChecksOnManifests, PassesRestOnSubmissions, PTL

LEMMA EvidenceStep ==
    ASSUME Linked, Drafts!Known, P!ServiceInductive, PassedWasSubmitted, [Next]_vars,
           [ComplianceNext]_complianceVars, NEW c \in Checks, checks[c].status = "pass"
    PROVE  /\ checks'[c].contents = checks[c].contents
           /\ rows'[checks[c].contents].contents = rows[checks[c].contents].contents
<1>. DEFINE m == checks[c].contents
<1>1. checks'[c].contents = checks[c].contents
  <2>1. P!LedgerTypeOK /\ (P!LedgerNext \/ UNCHANGED <<checks, trail>>)
    BY StepIsServiceStep, P!StepIsLedgerStep, ServiceAssumptions
       DEF P!ServiceInductive, P!ServiceTypeOK
  <2>2. checks[c].status \notin {"pending"} \cup {P!NoStatus}
    BY DEF P!NoStatus
  <2>. QED
    BY <2>1, <2>2, P!FrozenStep, ServiceAssumptions
<1>2. m \in Manifests /\ Drafts!PastDraft(m)
  BY DEF Linked, PassedWasSubmitted
<1>3. rows'[m].contents = rows[m].contents
  <2>1. CASE UNCHANGED manifestVars
    BY <2>1 DEF manifestVars
  <2>2. CASE Drafts!Next
    BY <1>2, <2>2, Drafts!PastDraftStep, BoundsAssumption, VersionsAssumption
  <2>. QED
    BY <2>1, <2>2, ComplianceStep
<1>. QED
  BY <1>1, <1>3

\* Neither the manifest that a passed check cites nor the parties that the
\* manifest names are exchanged afterwards.
THEOREM PassedEvidenceStands == ASSUME Ahead = 0 PROVE ComplianceSpec => EvidenceStands
<1>1. Linked /\ Drafts!Known /\ P!ServiceInductive /\ PassedWasSubmitted /\ [Next]_vars
      /\ [ComplianceNext]_complianceVars =>
        [\A c \in Checks : checks[c].status = "pass" =>
            /\ checks'[c].contents = checks[c].contents
            /\ rows'[checks[c].contents].contents = rows[checks[c].contents].contents
        ]_complianceVars
  BY EvidenceStep
<1>. QED
  BY <1>1, LinkedHolds, ManifestsKnown, ChecksOnManifests, PassesRestOnSubmissions,
     ServiceHolds, PTL DEF ComplianceSpec, EvidenceStands, Spec
=============================================================================
