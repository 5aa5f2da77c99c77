----------------------- MODULE TransferManifestsProofs -----------------------
(***************************************************************************)
(* Theorems about TransferManifests, for any sets of manifests, parties    *)
(* and concurrent requests and any bound on versions.  What holds of every *)
(* service is taken from AuditedServiceProofs; what is left is the lookups *)
(* of the parties and the view of the manifests that other services have.  *)
(***************************************************************************)
EXTENDS TransferManifests, TLAPS

\* The proofs about every service, with the manifests for its records.
P == INSTANCE AuditedServiceProofs WITH
    Records <- Manifests, RecordContents <- Contents, Statuses <- AllManifestState,
    Graph <- TransferManifestTransitions, FirstStatus <- InitialStatus,
    Seeds <- SeedStatuses, Editable <- {"draft"}, Removable <- {"draft"},
    Stages <- {"generator", "carrier"}, rows <- manifests
-----------------------------------------------------------------------------
(* The manifest service is a service                                       *)

\* The assumptions of AuditedLedger and AuditedService hold of manifests.
LEMMA ServiceAssumptions ==
    /\ InitialStatus \in AllManifestState
    /\ SeedStatuses \subseteq AllManifestState
    /\ P!NoStatus \notin AllManifestState
    /\ {"draft"} \subseteq AllManifestState
    /\ TransferManifestTransitions \subseteq AllManifestState \X AllManifestState
    /\ MaxVersion \in Nat \ {0}
    /\ Ahead \in Nat
    /\ "idle" \notin {"generator", "carrier"}
    /\ "commit" \notin {"generator", "carrier"}
BY BoundsAssumption
   DEF P!NoStatus, AllManifestState, TransferManifestTransitions, InitialStatus, SeedStatuses

\* The two instances of AuditedService are the same.
LEMMA SameState ==
    /\ P!Init <=> Service!Init
    /\ P!ServiceTypeOK <=> Service!ServiceTypeOK
    /\ P!NoRows <=> Service!NoRows
    /\ P!TrailExplainsRow <=> Service!TrailExplainsRow
    /\ \A q : P!WouldSave(q) <=> Service!WouldSave(q)
<1>1. P!Init <=> Service!Init
  BY DEF P!Init, P!LedgerInit, P!SeededRows, P!Inserted, P!NoRow, P!NoStatus, P!Idle,
     Service!Init, Service!LedgerInit, Service!SeededRows, Service!Inserted, Service!NoRow,
     Service!NoStatus, Service!Idle
<1>2. P!ServiceTypeOK <=> Service!ServiceTypeOK
  BY DEF P!ServiceTypeOK, P!LedgerTypeOK, P!RowType, P!Entries, P!NoStatus, P!Exists,
     P!Request, P!WriteRequest, P!DeleteRequest, P!Idle,
     Service!ServiceTypeOK, Service!LedgerTypeOK, Service!RowType, Service!Entries,
     Service!NoStatus, Service!Exists, Service!Request, Service!WriteRequest,
     Service!DeleteRequest, Service!Idle
<1>3. P!NoRows <=> Service!NoRows
  BY DEF P!NoRows, P!CanInsert, P!Exists, P!NoRow, P!NoStatus,
     Service!NoRows, Service!CanInsert, Service!Exists, Service!NoRow, Service!NoStatus
<1>4. P!TrailExplainsRow <=> Service!TrailExplainsRow
  BY DEF P!TrailExplainsRow, P!Explains, P!Tells, P!WithSeed, P!EntryFollows,
     P!CanTransition, P!Entry, P!Exists, P!NoStatus,
     Service!TrailExplainsRow, Service!Explains, Service!Tells, Service!WithSeed,
     Service!EntryFollows, Service!CanTransition, Service!Entry, Service!Exists,
     Service!NoStatus
<1>5. \A q : P!WouldSave(q) <=> Service!WouldSave(q)
  BY DEF P!WouldSave, P!CanUpdate, P!Found, P!Exists, P!NoStatus,
     Service!WouldSave, Service!CanUpdate, Service!Found, Service!Exists, Service!NoStatus
<1>. QED
  BY <1>1, <1>2, <1>3, <1>4, <1>5

LEMMA SameInductive == P!ServiceInductive <=> Service!ServiceInductive
<1>1. \A q : P!RequestInv(q) <=> Service!RequestInv(q)
  BY DEF P!RequestInv, P!RequestSound, P!ReadCurrent, P!WouldSave, P!CanUpdate, P!Found,
     P!Exists, P!NoStatus, P!HasBeen, P!CanTransition,
     Service!RequestInv, Service!RequestSound, Service!ReadCurrent, Service!WouldSave,
     Service!CanUpdate, Service!Found, Service!Exists, Service!NoStatus, Service!HasBeen,
     Service!CanTransition
<1>2. P!Idle = Service!Idle
  BY DEF P!Idle, Service!Idle
<1>. QED
  BY <1>1, <1>2, SameState DEF P!ServiceInductive, Service!ServiceInductive

\* Its beginnings, lookups, commits and ends are those of a service.
LEMMA BeginIsServiceBegin ==
    ASSUME NEW r \in Requests, Begin(r)
    PROVE  P!Begin(r) /\ Elsewhere
<1>1. PICK m \in Manifests :
        \/ \E contents \in Contents : Create(r, m, contents)
        \/ \E contents \in Contents, e \in 1..MaxVersion : Update(r, m, contents, e)
        \/ \E target \in AllManifestState, e \in 1..MaxVersion : Transition(r, m, target, e)
        \/ Delete(r, m)
  BY DEF Begin
<1>2. \A contents \in Contents : Create(r, m, contents) =>
        P!BeginCreate(r, m, contents, "generator") /\ Elsewhere
  BY DEF Create, P!BeginCreate, P!Start, P!Idle, P!NoStatus,
     Service!BeginCreate, Service!Start, Service!Idle, Service!NoStatus
<1>3. \A contents \in Contents, e \in 1..MaxVersion : Update(r, m, contents, e) =>
        P!BeginUpdate(r, m, contents, e, "generator") /\ Elsewhere
  BY DEF Update, P!BeginUpdate, P!Start, P!Idle, P!Found, P!Exists, P!NoStatus,
     P!ClientVersions, Service!BeginUpdate, Service!Start, Service!Idle, Service!Found,
     Service!Exists, Service!NoStatus, Service!ClientVersions
<1>4. \A target \in AllManifestState, e \in 1..MaxVersion : Transition(r, m, target, e) =>
        \E stage \in {"generator", "commit"} :
            P!BeginTransition(r, m, target, e, stage) /\ Elsewhere
  BY DEF Transition, P!BeginTransition, P!Start, P!Idle, P!Found, P!Exists, P!NoStatus,
     P!CanTransition, P!ClientVersions, Service!BeginTransition, Service!Start,
     Service!Idle, Service!Found, Service!Exists, Service!NoStatus, Service!CanTransition,
     Service!ClientVersions
<1>5. Delete(r, m) => P!BeginDelete(r, m) /\ Elsewhere
  BY DEF Delete, P!BeginDelete, P!Start, P!Idle, P!Found, P!Exists, P!NoStatus,
     Service!BeginDelete, Service!Start, Service!Idle, Service!Found, Service!Exists,
     Service!NoStatus
<1>. QED
  BY <1>1, <1>2, <1>3, <1>4, <1>5 DEF P!Begin

LEMMA LookupIsServiceLookup ==
    ASSUME NEW r \in Requests, Lookup(r)
    PROVE  (P!Lookup(r) \/ P!End(r)) /\ Elsewhere
BY DEF Lookup, LookupGenerator, LookupCarrier, P!Lookup, P!Advance, P!End, P!Finish, P!Idle,
   Service!Advance, Service!End, Service!Finish, Service!Idle

LEMMA CommitIsServiceCommit ==
    ASSUME NEW r \in Requests, Commit(r)
    PROVE  P!Commit(r) /\ Elsewhere
BY DEF Commit, CommitCreate, CommitSave, CommitDelete,
   P!Commit, P!CommitCreate, P!CommitSave, P!CommitDelete, P!Finish, P!Idle, P!Write,
   P!RollBack, P!Change, P!Entry, P!CanInsert, P!CanUpdate, P!CanDelete, P!Found, P!Exists,
   P!NoStatus, P!Inserted, P!Updated, P!SoftDeleted,
   Service!CommitCreate, Service!CommitSave, Service!CommitDelete, Service!Finish,
   Service!Idle, Service!Write, Service!RollBack, Service!Change, Service!Entry,
   Service!CanInsert, Service!CanUpdate, Service!CanDelete, Service!Found, Service!Exists,
   Service!NoStatus, Service!Inserted, Service!Updated, Service!SoftDeleted

LEMMA AbandonIsServiceEnd ==
    ASSUME NEW r \in Requests, Abandon(r)
    PROVE  P!End(r) /\ Elsewhere
BY DEF Abandon, P!End, P!Finish, P!Idle, Service!End, Service!Finish, Service!Idle

\* Every step is a step of a service, observed by the history variable.
LEMMA StepIsServiceStep ==
    ASSUME [Next]_vars
    PROVE  /\ [P!Next]_(P!serviceVars)
           /\ UNCHANGED vars \/ Observe
<1>1. ASSUME NEW r \in Requests, RequestStep(r)
      PROVE  P!RequestStep(r) /\ Observe
  BY <1>1, BeginIsServiceBegin, LookupIsServiceLookup, CommitIsServiceCommit,
     AbandonIsServiceEnd DEF RequestStep, Elsewhere, P!RequestStep
<1>2. CASE UNCHANGED vars
  BY <1>2 DEF vars, P!serviceVars
<1>3. CASE GeneratorStep \/ CarrierStep
  BY <1>3 DEF GeneratorStep, CarrierStep, P!serviceVars
<1>. QED
  BY <1>1, <1>2, <1>3 DEF Next, P!Next

\* What holds of every service holds of the manifest service.
LEMMA SpecIsServiceSpec == Spec => P!Spec
<1>1. Init => P!Init
  BY SameState DEF Init
<1>2. [Next]_vars => [P!Next]_(P!serviceVars)
  BY StepIsServiceStep
<1>. QED
  BY <1>1, <1>2, PTL DEF Spec, P!Spec

\* The service, with requests interleaving at every database statement,
\* implements the ledger, in which each operation is one step.
THEOREM ManifestsImplementLedger == ASSUME Ahead = 0 PROVE Spec => P!ImplementsLedger
BY SpecIsServiceSpec, P!ServiceImplementsLedger, ServiceAssumptions, PTL

\* The audit trail explains every manifest, however requests interleave.
THEOREM TrailsExplainManifests == ASSUME Ahead = 0 PROVE Spec => []Service!TrailExplainsRow
<1>1. P!TrailExplainsRow => Service!TrailExplainsRow
  BY SameState
<1>. QED
  BY <1>1, SpecIsServiceSpec, P!TrailsExplainRecords, ServiceAssumptions, PTL

\* The service's own invariant, for clients that wait.
LEMMA ServiceHolds == ASSUME Ahead = 0 PROVE Spec => []P!ServiceInductive
BY SpecIsServiceSpec, P!ServiceInvariant, ServiceAssumptions, PTL

\* What a manifest says once it has left its draft is changed by no request,
\* however old the draft it works on.
THEOREM ManifestsFreeze == ASSUME Ahead = 0 PROVE Spec =>
    [][\A m \in Manifests : manifests[m].status \in AllManifestState \ {"draft"} =>
        manifests'[m].contents = manifests[m].contents]_vars
<1>1. ASSUME P!ServiceInductive, [Next]_vars, NEW m \in Manifests,
             manifests[m].status \in AllManifestState \ {"draft"}
      PROVE  manifests'[m].contents = manifests[m].contents
  <2>1. P!LedgerTypeOK /\ (P!LedgerNext \/ UNCHANGED <<manifests, trail>>)
    BY <1>1, StepIsServiceStep, P!StepIsLedgerStep, ServiceAssumptions
       DEF P!ServiceInductive, P!ServiceTypeOK
  <2>2. manifests[m].status \notin {"draft"} \cup {P!NoStatus}
    BY <1>1, ServiceAssumptions
  <2>. QED
    BY <2>1, <2>2, P!FrozenStep, ServiceAssumptions
<1>2. P!ServiceInductive /\ [Next]_vars => [\A m \in Manifests : manifests[m].status \in AllManifestState \ {"draft"} =>
        manifests'[m].contents = manifests[m].contents]_vars
  BY <1>1
<1>. QED
  BY <1>2, ServiceHolds, PTL DEF Spec
-----------------------------------------------------------------------------
(* Type correctness                                                        *)

LEMMA RegisterType ==
    Spec => [](/\ GeneratorRegister!TypeOK
               /\ CarrierRegister!TypeOK
               /\ vouched \in [Manifests -> SUBSET {"generator", "carrier"}])
<1>. DEFINE Types == /\ GeneratorRegister!TypeOK
                     /\ CarrierRegister!TypeOK
                     /\ vouched \in [Manifests -> SUBSET {"generator", "carrier"}]
<1>1. Init => Types
  BY DEF Init, GeneratorRegister!Init, GeneratorRegister!TypeOK, GeneratorRegister!Standings,
     CarrierRegister!Init, CarrierRegister!TypeOK, CarrierRegister!Standings
<1>2. ASSUME Types, [Next]_vars PROVE Types'
  <2>1. vouched' \in [Manifests -> SUBSET {"generator", "carrier"}]
    BY <1>2, StepIsServiceStep DEF vars, Observe, InForceParties
  <2>2. GeneratorRegister!TypeOK'
    <3>1. CASE GeneratorStep
      BY <1>2, <3>1 DEF GeneratorStep, GeneratorRegister!TypeOK, GeneratorRegister!Next,
         GeneratorRegister!Step, GeneratorRegister!Enroll, GeneratorRegister!Block,
         GeneratorRegister!Restore, GeneratorRegister!Withdraw, GeneratorRegister!Set,
         GeneratorRegister!Standings
    <3>2. CASE generators' = generators
      BY <1>2, <3>2 DEF GeneratorRegister!TypeOK
    <3>. QED
      BY <1>2, <3>1, <3>2, BeginIsServiceBegin, LookupIsServiceLookup,
         CommitIsServiceCommit, AbandonIsServiceEnd
         DEF Next, vars, RequestStep, Elsewhere, CarrierStep
  <2>3. CarrierRegister!TypeOK'
    <3>1. CASE CarrierStep
      BY <1>2, <3>1 DEF CarrierStep, CarrierRegister!TypeOK, CarrierRegister!Next,
         CarrierRegister!Step, CarrierRegister!Enroll, CarrierRegister!Block,
         CarrierRegister!Restore, CarrierRegister!Withdraw, CarrierRegister!Set,
         CarrierRegister!Standings
    <3>2. CASE carriers' = carriers
      BY <1>2, <3>2 DEF CarrierRegister!TypeOK
    <3>. QED
      BY <1>2, <3>1, <3>2, BeginIsServiceBegin, LookupIsServiceLookup,
         CommitIsServiceCommit, AbandonIsServiceEnd
         DEF Next, vars, RequestStep, Elsewhere, GeneratorStep
  <2>. QED
    BY <2>1, <2>2, <2>3
<1>. QED
  BY <1>1, <1>2, PTL DEF Spec

\* Every variable keeps its type, however many requests are in flight and
\* whatever their clients send.
THEOREM TypeCorrect == Spec => []TypeOK
<1>1. /\ P!ServiceTypeOK
      /\ GeneratorRegister!TypeOK
      /\ CarrierRegister!TypeOK
      /\ vouched \in [Manifests -> SUBSET {"generator", "carrier"}]
      => TypeOK
  BY SameState DEF TypeOK
<1>. QED
  BY <1>1, RegisterType, SpecIsServiceSpec, P!ServiceTypeCorrect, ServiceAssumptions, PTL
-----------------------------------------------------------------------------
(* What the lookups establish                                              *)

Vouched == \A r \in Requests : inflight[r] # P!Idle => SaveVouched(inflight[r])

\* A request that has just begun has looked nothing up.
LEMMA BeginVouched ==
    ASSUME P!ServiceTypeOK, NEW r \in Requests, Begin(r), NEW n, n = inflight'[r]
    PROVE  SaveVouched(n)'
<1>1. ASSUME NEW request, Service!Start(r, request)
      PROVE  n = request
  BY <1>1 DEF Service!Start, P!ServiceTypeOK
<1>2. PICK m \in Manifests :
        \/ \E contents \in Contents : Create(r, m, contents)
        \/ \E contents \in Contents, e \in 1..MaxVersion : Update(r, m, contents, e)
        \/ \E target \in AllManifestState, e \in 1..MaxVersion : Transition(r, m, target, e)
        \/ Delete(r, m)
  BY DEF Begin
<1>3. CASE \E contents \in Contents : Create(r, m, contents)
  BY <1>1, <1>3 DEF Create, Service!BeginCreate, SaveVouched
<1>4. CASE \E contents \in Contents, e \in 1..MaxVersion : Update(r, m, contents, e)
  BY <1>1, <1>4 DEF Update, Service!BeginUpdate, SaveVouched
<1>5. CASE \E target \in AllManifestState, e \in 1..MaxVersion : Transition(r, m, target, e)
  <2>1. PICK target \in AllManifestState, e \in 1..MaxVersion : Transition(r, m, target, e)
    BY <1>5
  <2>2. n.status = target /\ n.stage = IF target \in Checked THEN "generator" ELSE "commit"
    BY <1>1, <2>1 DEF Transition, Service!BeginTransition
  <2>. QED
    BY <2>2 DEF SaveVouched
<1>6. CASE Delete(r, m)
  BY <1>1, <1>6 DEF Delete, Service!BeginDelete, SaveVouched
<1>. QED
  BY <1>2, <1>3, <1>4, <1>5, <1>6

\* A lookup adds to what a request knows that the party it found in force,
\* which is the one the row still names if the save would still match, is.
LEMMA LookupVouched ==
    ASSUME P!ServiceInductive, Vouched, NEW r \in Requests, Lookup(r),
           NEW n, n = inflight'[r], n # P!Idle
    PROVE  SaveVouched(n)'
<1>. PICK q : q = inflight[r]
  OBVIOUS
<1>. DEFINE m == q.record
<1>1. P!ServiceTypeOK
  BY DEF P!ServiceInductive
<1>2. q # P!Idle
  BY DEF Lookup, LookupGenerator, LookupCarrier, P!Idle
<1>3. q \in P!Request /\ m \in Manifests /\ P!RequestInv(q) /\ SaveVouched(q)
  BY <1>1, <1>2, P!RequestShape, ServiceAssumptions DEF P!ServiceInductive, Vouched
<1>4. /\ manifests' = manifests
      /\ generators' = generators
      /\ carriers' = carriers
      /\ Observe
  BY LookupIsServiceLookup DEF Elsewhere, P!Lookup, P!Advance, P!End
<1>5. \/ q.stage = "generator" /\ GeneratorAccepted(q) /\ n = [q EXCEPT !.stage = "carrier"]
      \/ q.stage = "carrier" /\ CarrierAccepted(q) /\ n = [q EXCEPT !.stage = "commit"]
  BY <1>1 DEF Lookup, LookupGenerator, LookupCarrier, Service!Advance, Service!End,
     Service!Finish, Service!Idle, P!Idle, P!ServiceTypeOK
<1>6. /\ n.op = q.op /\ n.record = m /\ n.status = q.status
      /\ n.contents = q.contents /\ n.expected = q.expected
      /\ n.stage \in {"carrier", "commit"}
      /\ n.stage = "commit" => q.stage = "carrier" /\ CarrierAccepted(q)
      /\ n.stage = "carrier" => q.stage = "generator" /\ GeneratorAccepted(q)
  BY <1>3, <1>5 DEF P!Request, P!WriteRequest, P!DeleteRequest
<1>7. SUFFICES ASSUME Service!WouldSave(n)', n.op = "transition", n.status \in Checked
               PROVE  /\ "generator" \in vouched'[m]
                      /\ n.stage = "commit" => "carrier" \in vouched'[m]
  BY <1>6 DEF SaveVouched
<1>8. P!WouldSave(q) /\ Service!WouldSave(q)
  <2>1. Service!WouldSave(q)
    BY <1>4, <1>6, <1>7 DEF Service!WouldSave
  <2>. QED
    BY <2>1, SameState
<1>9. Service!Found(manifests[m]) /\ manifests[m].contents = q.contents
  BY <1>3, <1>6, <1>7, <1>8 DEF Service!WouldSave, Service!CanUpdate, P!RequestInv, P!ReadCurrent
<1>10. vouched'[m] = InForceParties(m)' \cup vouched[m]
  BY <1>3, <1>4 DEF Observe
<1>11. CASE n.stage = "carrier"
  <2>1. GeneratorRegister!InForce(manifests[m].contents.generator)
    BY <1>6, <1>7, <1>9, <1>11 DEF GeneratorAccepted
  <2>2. "generator" \in InForceParties(m)'
    BY <1>4, <1>9, <2>1 DEF InForceParties, GeneratorRegister!InForce
  <2>. QED
    BY <1>10, <1>11, <2>2
<1>12. CASE n.stage = "commit"
  <2>1. CarrierRegister!InForce(manifests[m].contents.carrier)
    BY <1>6, <1>7, <1>9, <1>12 DEF CarrierAccepted
  <2>2. "carrier" \in InForceParties(m)'
    BY <1>4, <1>9, <2>1 DEF InForceParties, CarrierRegister!InForce
  <2>3. "generator" \in vouched[m]
    BY <1>3, <1>6, <1>7, <1>8, <1>12 DEF SaveVouched
  <2>. QED
    BY <1>10, <2>2, <2>3
<1>. QED
  BY <1>6, <1>11, <1>12

\* Where a request that a step leaves alone would still be saved, the row has
\* not changed, so what was vouched for still is.
LEMMA VouchedPersists ==
    ASSUME P!ServiceInductive, [Next]_vars, NEW q \in P!Request, q.record \in Manifests,
           P!RequestInv(q), SaveVouched(q)
    PROVE  SaveVouched(q)'
<1>. DEFINE m == q.record
<1>1. [P!Next]_(P!serviceVars) /\ (UNCHANGED vars \/ Observe)
  BY StepIsServiceStep
<1>2. P!WouldSave(q)' => P!WouldSave(q) /\ manifests'[m] = manifests[m]
  BY <1>1, P!RequestPersists, ServiceAssumptions
<1>3. P!WouldSave(q)' <=> Service!WouldSave(q)'
  BY DEF P!WouldSave, P!CanUpdate, P!Found, P!Exists, P!NoStatus,
     Service!WouldSave, Service!CanUpdate, Service!Found, Service!Exists, Service!NoStatus
<1>4. P!WouldSave(q) <=> Service!WouldSave(q)
  BY SameState
<1>5. manifests'[m] = manifests[m] => vouched[m] \subseteq vouched'[m]
  BY <1>1 DEF vars, Observe
<1>. QED
  BY <1>2, <1>3, <1>4, <1>5 DEF SaveVouched

LEMMA VouchedStep ==
    ASSUME P!ServiceInductive, Vouched, [Next]_vars
    PROVE  Vouched'
<1>1. ASSUME NEW s \in Requests, inflight'[s] # P!Idle
      PROVE  SaveVouched(inflight[s])'
  <2>. PICK n : n = inflight'[s]
    OBVIOUS
  <2>1. SUFFICES SaveVouched(n)'
    BY DEF SaveVouched, Service!WouldSave
  <2>2. P!ServiceTypeOK
    BY DEF P!ServiceInductive
  <2>3. CASE inflight'[s] = inflight[s]
    <3>1. /\ n \in P!Request /\ n.record \in Manifests
          /\ P!RequestInv(n) /\ SaveVouched(n)
      BY <1>1, <2>2, <2>3, P!RequestShape, ServiceAssumptions DEF P!ServiceInductive, Vouched
    <3>. QED
      BY <3>1, VouchedPersists
  <2>4. CASE inflight'[s] # inflight[s]
    <3>1. PICK r \in Requests : RequestStep(r)
      BY <2>4 DEF Next, vars, GeneratorStep, CarrierStep
    <3>2. r = s
      BY <2>2, <2>4, <3>1, BeginIsServiceBegin, LookupIsServiceLookup,
         CommitIsServiceCommit, AbandonIsServiceEnd
         DEF P!ServiceTypeOK, RequestStep, P!Begin, P!BeginCreate, P!BeginUpdate,
             P!BeginTransition, P!BeginDelete, P!Start, P!Lookup, P!Advance, P!Commit,
             P!CommitCreate, P!CommitSave, P!CommitDelete, P!End, P!Finish
    <3>3. CASE Begin(s)
      BY <2>2, <3>3, BeginVouched
    <3>4. CASE Lookup(s)
      BY <1>1, <3>4, LookupVouched
    <3>5. CASE P!Commit(s) \/ P!End(s)
      BY <1>1, <2>2, <3>5 DEF P!ServiceTypeOK, P!Commit, P!CommitCreate, P!CommitSave,
         P!CommitDelete, P!End, P!Finish
    <3>. QED
      BY <3>1, <3>2, <3>3, <3>4, <3>5, CommitIsServiceCommit, AbandonIsServiceEnd
         DEF RequestStep
  <2>. QED
    BY <2>3, <2>4
<1>. QED
  BY <1>1 DEF Vouched, P!Idle

LEMMA VouchedHolds == ASSUME Ahead = 0 PROVE Spec => []Vouched
<1>1. Init => Vouched
  BY DEF Init, Vouched, Service!Init, Service!Idle, P!Idle
<1>2. P!ServiceInductive /\ Vouched /\ [Next]_vars => Vouched'
  BY VouchedStep
<1>. QED
  BY <1>1, <1>2, ServiceHolds, PTL DEF Spec

\* All that is known of a reachable state.
Known == P!ServiceInductive /\ TypeOK /\ Vouched

LEMMA KnownHolds == ASSUME Ahead = 0 PROVE Spec => []Known
BY ServiceHolds, TypeCorrect, VouchedHolds, PTL DEF Known

\* The inductive invariant as the module states it.
THEOREM InvariantHolds == ASSUME Ahead = 0 PROVE Spec => []Inductive
<1>1. Known => Inductive
  BY SameInductive DEF Known, Inductive, Vouched, P!Idle, Service!Idle
<1>. QED
  BY <1>1, KnownHolds, PTL
-----------------------------------------------------------------------------
(* Submission and dispatch                                                 *)

\* A commit that puts a manifest into a checked status finds both of its
\* parties vouched for.
LEMMA CommitReverified ==
    ASSUME P!ServiceInductive, TypeOK, Vouched, NEW r \in Requests, P!Commit(r),
           NEW m \in Manifests, manifests'[m].status # manifests[m].status,
           manifests'[m].status \in Checked
    PROVE  vouched[m] = {"generator", "carrier"}
<1>. DEFINE q == inflight[r]
<1>1. q # P!Idle /\ q.stage = "commit"
  BY DEF P!Commit, P!CommitCreate, P!CommitSave, P!CommitDelete, P!Idle
<1>2. P!ServiceTypeOK /\ P!RequestInv(q) /\ SaveVouched(q)
  BY <1>1 DEF P!ServiceInductive, Vouched
<1>3. ~P!RollBack
  BY DEF P!RollBack
<1>4. ASSUME NEW row, P!Write(r, row)
      PROVE  q.record = m /\ manifests'[m] = row
  BY <1>2, <1>4 DEF P!Write, P!Change, P!ServiceTypeOK, P!LedgerTypeOK
<1>5. CASE q.op = "create" /\ P!Write(r, P!Inserted(q.status, q.contents))
  BY <1>2, <1>4, <1>5 DEF P!RequestInv, P!RequestSound, P!Inserted, InitialStatus, Checked
<1>6. CASE /\ q.op \in {"update", "transition"}
           /\ P!CanUpdate(manifests[q.record], q.expected)
           /\ P!Write(r, P!Updated(manifests[q.record], q.status, q.contents, q.expected))
  <2>1. q.record = m /\ q.status \in Checked
    BY <1>4, <1>6 DEF P!Updated
  <2>2. q.op = "transition"
    BY <1>2, <1>6, <2>1 DEF P!RequestInv, P!RequestSound, Checked
  <2>3. Service!WouldSave(q)
    BY <1>6, SameState DEF P!WouldSave
  <2>4. {"generator", "carrier"} \subseteq vouched[m]
    BY <1>1, <1>2, <2>1, <2>2, <2>3 DEF SaveVouched
  <2>. QED
    BY <2>4 DEF TypeOK
<1>7. CASE P!Write(r, P!SoftDeleted(manifests[q.record]))
  <2>1. manifests'[m] = P!SoftDeleted(manifests[m])
    BY <1>4, <1>7
  <2>2. manifests'[m].status = manifests[m].status
    BY <1>2, <2>1 DEF P!SoftDeleted, P!ServiceTypeOK, P!LedgerTypeOK, P!RowType
  <2>. QED
    BY <2>2
<1>. QED
  BY <1>3, <1>5, <1>6, <1>7 DEF P!Commit, P!CommitCreate, P!CommitSave, P!CommitDelete

LEMMA StepReverified ==
    ASSUME Known, [Next]_vars, NEW m \in Manifests,
           manifests'[m].status # manifests[m].status, manifests'[m].status \in Checked
    PROVE  vouched[m] = {"generator", "carrier"}
<1>1. PICK r \in Requests : P!Commit(r)
  BY StepIsServiceStep
     DEF P!Next, P!serviceVars, P!RequestStep, P!Begin, P!BeginCreate, P!BeginUpdate,
         P!BeginTransition, P!BeginDelete, P!Start, P!Lookup, P!Advance, P!End
<1>. QED
  BY <1>1, CommitReverified DEF Known

\* Submission and dispatch each rest on a check, since the manifest was last
\* written, of the very parties it names.
THEOREM SubmissionsReverified == ASSUME Ahead = 0 PROVE Spec => PartiesReverified
<1>1. Known /\ [Next]_vars => [\A m \in Manifests :
        manifests'[m].status # manifests[m].status /\ manifests'[m].status \in Checked
        => vouched[m] = {"generator", "carrier"}]_vars
  BY StepReverified
<1>. QED
  BY <1>1, KnownHolds, PTL DEF Spec, PartiesReverified

LEMMA StepIsLedgerStep ==
    ASSUME Known, [Next]_vars
    PROVE  P!LedgerTypeOK /\ (P!LedgerNext \/ UNCHANGED <<manifests, trail>>)
BY StepIsServiceStep, P!StepIsLedgerStep, ServiceAssumptions
   DEF Known, P!ServiceInductive, P!ServiceTypeOK

PastDraft(m) == manifests[m].status \in AllManifestState \ {"draft"}

\* A manifest past its draft stays so and keeps its parties; one that leaves its
\* draft has had both vouched for, and keeps them.
LEMMA PastDraftStep ==
    ASSUME Known, [Next]_vars, NEW m \in Manifests
    PROVE  /\ PastDraft(m) => PastDraft(m)' /\ manifests'[m].contents = manifests[m].contents
           /\ PastDraft(m)' /\ ~PastDraft(m) =>
                /\ vouched[m] = {"generator", "carrier"}
                /\ manifests'[m].contents = manifests[m].contents
<1>1. P!LedgerTypeOK /\ (P!LedgerNext \/ UNCHANGED <<manifests, trail>>)
  BY StepIsLedgerStep
<1>2. CASE PastDraft(m)
  <2>1. manifests[m].status \notin {"draft"} \cup {P!NoStatus} /\ P!Exists(manifests[m])
    BY <1>2 DEF PastDraft, AllManifestState, P!NoStatus, P!Exists
  <2>2. manifests'[m].contents = manifests[m].contents
    BY <1>1, <2>1, P!FrozenStep, ServiceAssumptions
  <2>3. PastDraft(m)'
    <3>1. CASE manifests'[m].status = manifests[m].status
      BY <1>2, <3>1 DEF PastDraft
    <3>2. CASE manifests'[m].status # manifests[m].status
      BY <1>1, <2>1, <3>2, P!StatusStep, ServiceAssumptions
         DEF PastDraft, AllManifestState, P!CanTransition, TransferManifestTransitions
    <3>. QED
      BY <3>1, <3>2
  <2>. QED
    BY <1>2, <2>2, <2>3
<1>3. CASE PastDraft(m)' /\ ~PastDraft(m)
  <2>1. manifests'[m].status # manifests[m].status
    BY <1>3 DEF PastDraft
  <2>2. P!Exists(manifests[m])
    <3>1. SUFFICES ASSUME ~P!Exists(manifests[m]) PROVE FALSE
      OBVIOUS
    <3>2. PICK k \in Manifests : P!Create(k) \/ P!Edit(k) \/ P!Move(k) \/ P!Remove(k)
      BY <1>1, <2>1 DEF P!LedgerNext
    <3>3. ASSUME NEW row, NEW entry, P!Change(k, row, entry)
          PROVE  k = m /\ manifests'[m] = row
      BY <1>1, <2>1, <3>3 DEF P!Change, P!LedgerTypeOK
    <3>4. P!Create(k)
      BY <3>1, <3>2, <3>3 DEF P!Edit, P!Move, P!Remove, P!Found, P!CanDelete
    <3>5. manifests'[m].status = "draft"
      BY <3>3, <3>4 DEF P!Create, P!Inserted, InitialStatus
    <3>. QED
      BY <1>3, <3>5 DEF PastDraft
  <2>3. /\ <<manifests[m].status, manifests'[m].status>> \in TransferManifestTransitions
        /\ manifests'[m].contents = manifests[m].contents
    BY <1>1, <2>1, <2>2, P!StatusStep, ServiceAssumptions DEF P!CanTransition
  <2>4. manifests'[m].status \in Checked
    BY <1>3, <2>3 DEF PastDraft, AllManifestState, TransferManifestTransitions, Checked
  <2>. QED
    BY <1>3, <2>1, <2>3, <2>4, StepReverified
<1>. QED
  BY <1>2, <1>3
-----------------------------------------------------------------------------
(* What other services see                                                 *)

\* A step of the ledger is a step of the board, or invisible on it.
LEMMA LedgerStepOnBoard ==
    ASSUME P!LedgerTypeOK, P!LedgerNext
    PROVE  Board!Next \/ UNCHANGED [m \in Manifests |-> Standing(m)]
<1>. DEFINE board == [m \in Manifests |-> Standing(m)]
<1>1. PICK k \in Manifests : P!Create(k) \/ P!Edit(k) \/ P!Move(k) \/ P!Remove(k)
  BY DEF P!LedgerNext
<1>2. ASSUME NEW row, NEW entry, P!Change(k, row, entry)
      PROVE  manifests' = [manifests EXCEPT ![k] = row] /\ manifests'[k] = row
  BY <1>2 DEF P!Change, P!LedgerTypeOK
<1>3. ASSUME NEW s, manifests'[k].status # "none", ~manifests'[k].deleted,
             manifests'[k].status = s, NEW row, manifests' = [manifests EXCEPT ![k] = row]
      PROVE  board' = [board EXCEPT ![k] = s]
  BY <1>3 DEF Standing, P!LedgerTypeOK, Service!Exists, Service!NoStatus
<1>4. CASE P!Create(k)
  <2>1. /\ manifests'[k].status = "draft" /\ ~manifests'[k].deleted
        /\ \E row : manifests' = [manifests EXCEPT ![k] = row]
        /\ manifests[k].status = "none"
    BY <1>2, <1>4 DEF P!Create, P!CanInsert, P!Exists, P!NoStatus, P!Inserted, InitialStatus
  <2>2. board' = [board EXCEPT ![k] = "draft"] /\ board[k] = "absent"
    BY <1>3, <2>1 DEF Standing, Service!Exists, Service!NoStatus
  <2>3. Board!Draft(k)
    BY <2>2 DEF Board!Draft, Board!Set
  <2>. QED
    BY <2>3 DEF Board!Next, Board!Step
<1>5. CASE P!Edit(k)
  <2>1. /\ manifests'[k].status = manifests[k].status
        /\ manifests[k].status # "none" /\ ~manifests[k].deleted /\ ~manifests'[k].deleted
        /\ \E row : manifests' = [manifests EXCEPT ![k] = row]
    BY <1>2, <1>5 DEF P!Edit, P!Found, P!Exists, P!NoStatus, P!Updated
  <2>2. board' = [board EXCEPT ![k] = manifests[k].status] /\ board[k] = manifests[k].status
    BY <1>3, <2>1 DEF Standing, Service!Exists, Service!NoStatus
  <2>. QED
    BY <2>2
<1>6. CASE P!Move(k)
  <2>1. PICK s \in AllManifestState :
            /\ P!CanTransition(TransferManifestTransitions, manifests[k].status, s)
            /\ P!Change(k, P!Updated(manifests[k], s, manifests[k].contents, manifests[k].version),
                        P!Entry("transition", manifests[k].status, s))
    BY <1>6 DEF P!Move
  <2>2. /\ manifests'[k].status = s
        /\ s # "none"
        /\ manifests[k].status # "none" /\ ~manifests[k].deleted /\ ~manifests'[k].deleted
        /\ \E row : manifests' = [manifests EXCEPT ![k] = row]
    BY <1>2, <1>6, <2>1
       DEF P!Move, P!Found, P!Exists, P!NoStatus, P!Updated, AllManifestState
  <2>3. board' = [board EXCEPT ![k] = s] /\ board[k] = manifests[k].status
    BY <1>3, <2>2 DEF Standing, Service!Exists, Service!NoStatus
  <2>4. Board!Move(k)
    BY <2>1, <2>3 DEF Board!Move, Board!Set, Board!CanTransition, P!CanTransition,
       Board!AllManifestState, AllManifestState, Board!TransferManifestTransitions,
       TransferManifestTransitions
  <2>. QED
    BY <2>4 DEF Board!Next, Board!Step
<1>7. CASE P!Remove(k)
  <2>1. manifests' = [manifests EXCEPT ![k] = P!SoftDeleted(manifests[k])]
    BY <1>2, <1>7 DEF P!Remove
  <2>2. manifests[k].status # "none" /\ ~manifests[k].deleted
        /\ manifests[k].status \in AllManifestState
    BY <1>7 DEF P!Remove, P!CanDelete, P!Found, P!Exists, P!NoStatus, P!LedgerTypeOK, P!RowType
  <2>3. manifests'[k].deleted /\ manifests'[k].status = manifests[k].status
    BY <2>1 DEF P!SoftDeleted, P!LedgerTypeOK, P!RowType
  <2>4. board' = [board EXCEPT ![k] = "deleted"] /\ board[k] = manifests[k].status
    BY <2>1, <2>2, <2>3 DEF Standing, P!LedgerTypeOK, Service!Exists, Service!NoStatus
  <2>5. Board!Withdraw(k)
    BY <2>2, <2>4 DEF Board!Withdraw, Board!OnFile, Board!Set, AllManifestState
  <2>. QED
    BY <2>5 DEF Board!Next, Board!Step
<1>. QED
  BY <1>1, <1>4, <1>5, <1>6, <1>7

LEMMA StepOnBoard ==
    ASSUME Known, [Next]_vars
    PROVE  Board!Next \/ UNCHANGED [m \in Manifests |-> Standing(m)]
<1>1. CASE P!LedgerNext
  BY <1>1, StepIsLedgerStep, LedgerStepOnBoard
<1>2. CASE UNCHANGED <<manifests, trail>>
  BY <1>2 DEF Standing, Service!Exists
<1>. QED
  BY <1>1, <1>2, StepIsLedgerStep

LEMMA BoardStart == Init => Board!Init
BY DEF Init, Service!Init, Service!LedgerInit, Service!NoRow, Service!SeededRows,
   Service!Inserted, SeedStatuses, Board!Init, Standing, Service!Exists, Service!NoStatus

\* To a service that looks manifests up by code they behave like the board,
\* whatever races the four methods lose.
THEOREM BoardImplemented == ASSUME Ahead = 0 PROVE Spec => ImplementsBoard
<1>1. Known /\ [Next]_vars => [Board!Next]_([m \in Manifests |-> Standing(m)])
  BY StepOnBoard
<1>. QED
  BY <1>1, BoardStart, KnownHolds, PTL DEF Spec, ImplementsBoard, Board!Spec
=============================================================================
