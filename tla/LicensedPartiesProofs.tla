------------------------ MODULE LicensedPartiesProofs ------------------------
(***************************************************************************)
(* Theorems about LicensedParties, for any status graph, any sets of       *)
(* parties, document numbers and concurrent requests, and any bounds on    *)
(* versions and on the clock.                                              *)
(***************************************************************************)
EXTENDS LicensedParties, TLAPS

\* The proofs about every service, with the parties for its records.
P == INSTANCE AuditedServiceProofs WITH
    Records <- Parties, RecordContents <- Document, Editable <- Statuses,
    Removable <- Statuses, Stages <- {}, rows <- parties
-----------------------------------------------------------------------------
(* A licence service is a service                                          *)

\* The assumptions of AuditedLedger and AuditedService hold of parties.
LEMMA ServiceAssumptions ==
    /\ FirstStatus \in Statuses
    /\ Seeds \subseteq Statuses
    /\ P!NoStatus \notin Statuses
    /\ Statuses \subseteq Statuses
    /\ Graph \subseteq Statuses \X Statuses
    /\ MaxVersion \in Nat \ {0}
    /\ Ahead \in Nat
    /\ "idle" \notin {}
    /\ "commit" \notin {}
BY BoundsAssumption, StatusAssumption, GraphAssumption DEF P!NoStatus

\* The two instances of AuditedService are the same.
LEMMA SameState ==
    /\ P!Init <=> Service!Init
    /\ P!ServiceTypeOK <=> Service!ServiceTypeOK
<1>1. P!Init <=> Service!Init
  BY DEF P!Init, P!LedgerInit, P!SeededRows, P!Inserted, P!NoRow, P!NoStatus, P!Idle,
     Service!Init, Service!LedgerInit, Service!SeededRows, Service!Inserted, Service!NoRow,
     Service!NoStatus, Service!Idle
<1>2. P!ServiceTypeOK <=> Service!ServiceTypeOK
  BY DEF P!ServiceTypeOK, P!LedgerTypeOK, P!RowType, P!Entries, P!NoStatus, P!Exists,
     P!Request, P!WriteRequest, P!DeleteRequest, P!Idle,
     Service!ServiceTypeOK, Service!LedgerTypeOK, Service!RowType, Service!Entries,
     Service!NoStatus, Service!Exists, Service!Request, Service!WriteRequest,
     Service!DeleteRequest, Service!Idle
<1>. QED
  BY <1>1, <1>2

\* Its beginnings, commits and ends are those of a service.
LEMMA BeginIsServiceBegin ==
    ASSUME NEW r \in Requests, Begin(r)
    PROVE  P!Begin(r) /\ Asks(r)
<1>1. PICK p \in Parties :
        \/ \E document \in Document : Create(r, p, document)
        \/ \E document \in Document, e \in 1..MaxVersion : Update(r, p, document, e)
        \/ \E target \in Statuses, e \in 1..MaxVersion : Transition(r, p, target, e)
        \/ Delete(r, p)
  BY DEF Begin
<1>2. \A document \in Document : Create(r, p, document) =>
        P!BeginCreate(r, p, document, "commit") /\ Asks(r)
  BY DEF Create, P!BeginCreate, P!Start, P!Idle, P!NoStatus,
     Service!BeginCreate, Service!Start, Service!Idle, Service!NoStatus
<1>3. \A document \in Document, e \in 1..MaxVersion : Update(r, p, document, e) =>
        P!BeginUpdate(r, p, document, e, "commit") /\ Asks(r)
  BY DEF Update, P!BeginUpdate, P!Start, P!Idle, P!Found, P!Exists, P!NoStatus,
     P!ClientVersions, Service!BeginUpdate, Service!Start, Service!Idle, Service!Found,
     Service!Exists, Service!NoStatus, Service!ClientVersions
<1>4. \A target \in Statuses, e \in 1..MaxVersion : Transition(r, p, target, e) =>
        P!BeginTransition(r, p, target, e, "commit") /\ Asks(r)
  BY DEF Transition, P!BeginTransition, P!Start, P!Idle, P!Found, P!Exists, P!NoStatus,
     P!CanTransition, P!ClientVersions, Service!BeginTransition, Service!Start,
     Service!Idle, Service!Found, Service!Exists, Service!NoStatus, Service!CanTransition,
     Service!ClientVersions
<1>5. Delete(r, p) => P!BeginDelete(r, p) /\ Asks(r)
  BY DEF Delete, P!BeginDelete, P!Start, P!Idle, P!Found, P!Exists, P!NoStatus,
     Service!BeginDelete, Service!Start, Service!Idle, Service!Found, Service!Exists,
     Service!NoStatus
<1>. QED
  BY <1>1, <1>2, <1>3, <1>4, <1>5 DEF P!Begin

LEMMA EndIsServiceEnd ==
    ASSUME NEW r \in Requests
    PROVE  Service!End(r) <=> P!End(r)
BY DEF P!End, P!Finish, P!Idle, Service!End, Service!Finish, Service!Idle

\* A commit is one of the service, or is refused for its document's number.
LEMMA CommitIsServiceStep ==
    ASSUME NEW r \in Requests, Commit(r)
    PROVE  (P!Commit(r) \/ P!End(r)) /\ Answered(r)
<1>1. Service!CommitCreate(r) \/ Service!CommitSave(r) \/ Service!CommitDelete(r)
      => P!Commit(r)
  BY DEF P!Commit, P!CommitCreate, P!CommitSave, P!CommitDelete, P!Finish, P!Idle, P!Write,
     P!RollBack, P!Change, P!Entry, P!CanInsert, P!CanUpdate, P!CanDelete, P!Found, P!Exists,
     P!NoStatus, P!Inserted, P!Updated, P!SoftDeleted,
     Service!CommitCreate, Service!CommitSave, Service!CommitDelete, Service!Finish,
     Service!Idle, Service!Write, Service!RollBack, Service!Change, Service!Entry,
     Service!CanInsert, Service!CanUpdate, Service!CanDelete, Service!Found, Service!Exists,
     Service!NoStatus, Service!Inserted, Service!Updated, Service!SoftDeleted
<1>. QED
  BY <1>1, EndIsServiceEnd DEF Commit, CommitCreate, CommitSave, CommitDelete

\* Every step is a step of a service.
LEMMA StepIsServiceStep ==
    ASSUME [Next]_vars
    PROVE  [P!Next]_(P!serviceVars)
<1>1. ASSUME NEW r \in Requests, RequestStep(r)
      PROVE  P!RequestStep(r)
  BY <1>1, BeginIsServiceBegin, CommitIsServiceStep, EndIsServiceEnd
     DEF RequestStep, P!RequestStep, Abandon
<1>. QED
  BY <1>1 DEF Next, P!Next, vars, P!serviceVars, Tick

\* What holds of every service holds of a licence service.
LEMMA SpecIsServiceSpec == Spec => P!Spec
<1>1. Init => P!Init
  BY SameState DEF Init
<1>2. [Next]_vars => [P!Next]_(P!serviceVars)
  BY StepIsServiceStep
<1>. QED
  BY <1>1, <1>2, PTL DEF Spec, P!Spec

\* Its ledger is the ledger of the service.
LEMMA SameLedger ==
    /\ P!LedgerInit <=> Service!LedgerInit
    /\ [P!LedgerNext]_(P!ledgerVars) => [Service!LedgerNext]_(Service!ledgerVars)
<1>1. P!LedgerInit <=> Service!LedgerInit
  BY DEF P!LedgerInit, P!SeededRows, P!Inserted, P!NoRow, P!NoStatus,
     Service!LedgerInit, Service!SeededRows, Service!Inserted, Service!NoRow, Service!NoStatus
<1>2. \A p \in Parties : P!Create(p) => Service!Create(p)
  BY DEF P!Create, P!Change, P!CanInsert, P!Exists, P!Inserted, P!Entry, P!NoStatus,
     Service!Create, Service!Change, Service!CanInsert, Service!Exists, Service!Inserted,
     Service!Entry, Service!NoStatus
<1>3. \A p \in Parties : P!Edit(p) => Service!Edit(p)
  BY DEF P!Edit, P!Change, P!Found, P!Exists, P!Updated, P!Entry, P!NoStatus,
     Service!Edit, Service!Change, Service!Found, Service!Exists, Service!Updated,
     Service!Entry, Service!NoStatus
<1>4. \A p \in Parties : P!Move(p) => Service!Move(p)
  BY DEF P!Move, P!Change, P!Found, P!Exists, P!CanTransition, P!Updated, P!Entry, P!NoStatus,
     Service!Move, Service!Change, Service!Found, Service!Exists, Service!CanTransition,
     Service!Updated, Service!Entry, Service!NoStatus
<1>5. \A p \in Parties : P!Remove(p) => Service!Remove(p)
  BY DEF P!Remove, P!HasBeen, P!Change, P!CanDelete, P!Found, P!Exists, P!SoftDeleted, P!Entry,
     P!NoStatus, Service!Remove, Service!HasBeen, Service!Change, Service!CanDelete,
     Service!Found, Service!Exists, Service!SoftDeleted, Service!Entry, Service!NoStatus
<1>. QED
  BY <1>1, <1>2, <1>3, <1>4, <1>5
     DEF P!LedgerNext, Service!LedgerNext, P!ledgerVars, Service!ledgerVars

\* A licence service, with requests interleaving at every database statement and
\* refused by the index on numbers, implements the ledger, in which each operation
\* is one step.
THEOREM PartiesImplementLedger == ASSUME Ahead = 0 PROVE Spec => ImplementsLedger
<1>1. Spec => P!ImplementsLedger
  BY SpecIsServiceSpec, P!ServiceImplementsLedger, ServiceAssumptions, PTL
<1>2. P!ImplementsLedger => ImplementsLedger
  BY SameLedger, PTL DEF P!ImplementsLedger, P!LedgerSpec, ImplementsLedger, Service!LedgerSpec
<1>. QED
  BY <1>1, <1>2

\* The audit trail explains every party, however requests interleave.
THEOREM TrailsExplainParties == ASSUME Ahead = 0 PROVE Spec => []Service!TrailExplainsRow
<1>1. P!TrailExplainsRow => Service!TrailExplainsRow
  BY DEF P!TrailExplainsRow, P!Explains, P!Tells, P!WithSeed, P!EntryFollows,
     P!CanTransition, P!Entry, P!Exists, P!NoStatus,
     Service!TrailExplainsRow, Service!Explains, Service!Tells, Service!WithSeed,
     Service!EntryFollows, Service!CanTransition, Service!Entry, Service!Exists,
     Service!NoStatus
<1>. QED
  BY <1>1, SpecIsServiceSpec, P!TrailsExplainRecords, ServiceAssumptions, PTL

\* The service's own invariant, for clients that wait.
LEMMA ServiceHolds == ASSUME Ahead = 0 PROVE Spec => []P!ServiceInductive
BY SpecIsServiceSpec, P!ServiceInvariant, ServiceAssumptions, PTL

\* Every variable keeps its type, whatever clients send.
THEOREM TypeCorrect == Spec => []TypeOK
<1>. DEFINE Clock == now \in 0..Horizon /\ asked \in [Requests -> 0..Horizon]
<1>1. Init => Clock
  BY BoundsAssumption DEF Init
<1>2. Clock /\ [Next]_vars => Clock'
  <2>. SUFFICES ASSUME Clock, [Next]_vars PROVE Clock'
    OBVIOUS
  <2>1. CASE Tick
    BY <2>1, BoundsAssumption DEF Tick
  <2>2. CASE \E r \in Requests : Asks(r) \/ Answered(r)
    BY <2>2, BoundsAssumption DEF Asks, Answered
  <2>. QED
    BY <2>1, <2>2, BeginIsServiceBegin, CommitIsServiceStep
       DEF Next, RequestStep, Abandon, vars
<1>3. P!ServiceTypeOK /\ Clock => TypeOK
  BY SameState DEF TypeOK
<1>. QED
  BY <1>1, <1>2, <1>3, SpecIsServiceSpec, P!ServiceTypeCorrect, ServiceAssumptions, PTL
     DEF Spec
-----------------------------------------------------------------------------
(* What the manifest service sees                                          *)

Face == [p \in Parties |-> Standing(p)]

\* How Standing reads a row, spelt out.
LEMMA StandingOf ==
    ASSUME NEW p \in Parties
    PROVE  /\ Face[p] = Standing(p)
           /\ parties[p].status = "none" => Standing(p) = "absent"
           /\ parties[p].status # "none" /\ parties[p].deleted => Standing(p) = "deleted"
           /\ parties[p].status # "none" /\ ~parties[p].deleted =>
                Standing(p) \in {"blocked", "in_force"}
BY DEF Face, Standing, Service!Exists, Service!NoStatus

\* A write of one row changes the standing of that party only.
LEMMA OneStanding ==
    ASSUME P!ServiceTypeOK, now' = now, NEW k \in Parties, NEW row,
           parties' = [parties EXCEPT ![k] = row]
    PROVE  \E s : Standing(k)' = s /\ Face' = [Face EXCEPT ![k] = s]
<1>1. ASSUME NEW p \in Parties, p # k
      PROVE  Standing(p)' = Standing(p)
  <2>1. parties'[p] = parties[p]
    BY <1>1 DEF P!ServiceTypeOK, P!LedgerTypeOK
  <2>. QED
    BY <2>1 DEF Standing, Service!Exists, InDate
<1>2. PICK s : s = Standing(k)'
  OBVIOUS
<1>3. Face' = [Face EXCEPT ![k] = s]
  BY <1>1, <1>2 DEF Face
<1>. QED
  BY <1>2, <1>3

\* A commit enrolls a party, brings it in or out of force, or withdraws it.
LEMMA CommitOnRegister ==
    ASSUME P!ServiceTypeOK, NEW r \in Requests, P!Commit(r), now' = now
    PROVE  Register!Next \/ UNCHANGED Face
<1>. PICK q : q = inflight[r]
  OBVIOUS
<1>. DEFINE k == q.record
<1>1. q \in P!Request
  BY DEF P!Commit, P!CommitCreate, P!CommitSave, P!CommitDelete, P!ServiceTypeOK, P!Idle
<1>2. k \in Parties
  BY <1>1 DEF P!Request, P!WriteRequest, P!DeleteRequest
<1>3. ASSUME NEW row, P!Write(r, row)
      PROVE  /\ parties' = [parties EXCEPT ![k] = row]
             /\ parties'[k] = row
             /\ \E s : Standing(k)' = s /\ Face' = [Face EXCEPT ![k] = s]
  <2>1. parties' = [parties EXCEPT ![k] = row]
    BY <1>3 DEF P!Write, P!Change
  <2>. QED
    BY <1>2, <2>1, OneStanding DEF P!ServiceTypeOK, P!LedgerTypeOK
<1>4. CASE P!RollBack
  BY <1>4 DEF P!RollBack, Face, Standing, Service!Exists, InDate
<1>5. CASE q.op = "create" /\ P!CanInsert(parties[k]) /\ P!Write(r, P!Inserted(q.status, q.contents))
  <2>1. parties[k].status = "none"
    BY <1>5 DEF P!CanInsert, P!Exists, P!NoStatus
  <2>2. parties'[k].status # "none" /\ ~parties'[k].deleted
    BY <1>1, <1>3, <1>5, StatusAssumption
       DEF P!Inserted, P!Request, P!WriteRequest, P!DeleteRequest
  <2>3. PICK s : Standing(k)' = s /\ Face' = [Face EXCEPT ![k] = s]
    BY <1>3, <1>5
  <2>4. Face[k] = "absent"
    BY <1>2, <2>1, StandingOf
  <2>5. s \in {"blocked", "in_force"}
    BY <2>2, <2>3 DEF Standing, Service!Exists, Service!NoStatus
  <2>6. Register!Enroll(k)
    BY <2>3, <2>4, <2>5 DEF Register!Enroll, Register!Set, Face
  <2>. QED
    BY <1>2, <2>6 DEF Register!Next, Register!Step
<1>6. CASE /\ q.op \in {"update", "transition"}
           /\ P!CanUpdate(parties[k], q.expected)
           /\ P!Write(r, P!Updated(parties[q.record], q.status, q.contents, q.expected))
  <2>1. parties[k].status # "none" /\ ~parties[k].deleted
    BY <1>6 DEF P!CanUpdate, P!Found, P!Exists, P!NoStatus
  <2>2. parties'[k].status # "none" /\ ~parties'[k].deleted
    <3>1. parties'[k] = P!Updated(parties[k], q.status, q.contents, q.expected)
      BY <1>3, <1>6
    <3>2. parties'[k].status = q.status /\ parties'[k].deleted = parties[k].deleted
      BY <3>1 DEF P!Updated
    <3>3. q.status # "none"
      BY <1>1, <1>6, StatusAssumption DEF P!Request, P!WriteRequest, P!DeleteRequest
    <3>. QED
      BY <2>1, <3>2, <3>3
  <2>3. PICK s : Standing(k)' = s /\ Face' = [Face EXCEPT ![k] = s]
    BY <1>3, <1>6
  <2>4. Face[k] \in {"blocked", "in_force"}
    BY <1>2, <2>1, StandingOf
  <2>5. s \in {"blocked", "in_force"}
    BY <2>2, <2>3 DEF Standing, Service!Exists, Service!NoStatus
  <2>6. CASE s = Face[k]
    BY <2>3, <2>6 DEF Face
  <2>7. CASE Face[k] = "blocked" /\ s = "in_force"
    <3>1. Register!Restore(k)
      BY <2>3, <2>7 DEF Register!Restore, Register!Set, Face
    <3>. QED
      BY <1>2, <3>1 DEF Register!Next, Register!Step
  <2>8. CASE Face[k] = "in_force" /\ s = "blocked"
    <3>1. Register!Block({k})
      BY <1>2, <2>3, <2>8 DEF Register!Block, Face
    <3>. QED
      BY <1>2, <3>1 DEF Register!Next
  <2>. QED
    BY <2>4, <2>5, <2>6, <2>7, <2>8
<1>7. CASE P!CanDelete(parties[k]) /\ P!Write(r, P!SoftDeleted(parties[k]))
  <2>1. parties[k].status # "none" /\ ~parties[k].deleted
    BY <1>7 DEF P!CanDelete, P!Found, P!Exists, P!NoStatus
  <2>2. parties'[k].status # "none" /\ parties'[k].deleted
    <3>1. parties'[k] = P!SoftDeleted(parties[k])
      BY <1>3, <1>7
    <3>. QED
      BY <1>2, <2>1, <3>1 DEF P!SoftDeleted, P!ServiceTypeOK, P!LedgerTypeOK, P!RowType
  <2>3. PICK s : Standing(k)' = s /\ Face' = [Face EXCEPT ![k] = s]
    BY <1>3, <1>7
  <2>4. Face[k] \in {"blocked", "in_force"}
    BY <1>2, <2>1, StandingOf
  <2>5. s = "deleted"
    BY <2>2, <2>3 DEF Standing, Service!Exists, Service!NoStatus
  <2>6. Register!Withdraw(k)
    BY <2>3, <2>4, <2>5 DEF Register!Withdraw, Register!OnFile, Register!Set, Face
  <2>. QED
    BY <1>2, <2>6 DEF Register!Next, Register!Step
<1>. QED
  BY <1>4, <1>5, <1>6, <1>7 DEF P!Commit, P!CommitCreate, P!CommitSave, P!CommitDelete

\* As the clock advances, parties fall out of force, and nothing else.
LEMMA TickOnRegister ==
    ASSUME TypeOK, Tick
    PROVE  Register!Next \/ UNCHANGED Face
<1>. DEFINE S == {p \in Parties : Standing(p) = "in_force" /\ Standing(p)' # "in_force"}
<1>1. ASSUME NEW p \in Parties, Service!Exists(parties[p])
      PROVE  parties[p].contents.expires \in Nat
  BY <1>1 DEF TypeOK, Service!ServiceTypeOK, Document
<1>2. now \in Nat /\ now' = now + 1 /\ parties' = parties
  BY DEF Tick, TypeOK
<1>3. ASSUME NEW p \in Parties
      PROVE  Standing(p)' = IF p \in S THEN "blocked" ELSE Standing(p)
  BY <1>1, <1>2 DEF Standing, Service!Exists, InDate
<1>4. CASE S = {}
  BY <1>3, <1>4 DEF Face
<1>5. CASE S # {}
  <2>1. Register!Block(S)
    BY <1>3, <1>5 DEF Register!Block, Face
  <2>. QED
    BY <2>1 DEF Register!Next
<1>. QED
  BY <1>4, <1>5

\* To the manifest service the parties are a register of licences, whatever
\* their clients send: what TransferManifests takes for its environment.
THEOREM RegisterImplemented == Spec => ImplementsRegister
<1>1. Init => Register!Init
  <2>. SUFFICES ASSUME Init, NEW p \in Parties
                PROVE  Standing(p) \in {"absent", "blocked", "in_force"}
    BY DEF Register!Init
  <2>1. parties[p].status = "none" \/ ~parties[p].deleted
    BY DEF Init, Service!Init, Service!LedgerInit, Service!NoRow, Service!NoStatus,
       Service!SeededRows, Service!Inserted
  <2>. QED
    BY <2>1, StandingOf
<1>2. TypeOK /\ [Next]_vars => [Register!Next]_Face
  <2>. SUFFICES ASSUME TypeOK, [Next]_vars PROVE Register!Next \/ UNCHANGED Face
    OBVIOUS
  <2>1. P!ServiceTypeOK
    BY SameState DEF TypeOK
  <2>2. CASE Tick
    BY <2>2, TickOnRegister
  <2>3. CASE UNCHANGED <<parties, now>>
    BY <2>3 DEF Face, Standing, Service!Exists, InDate
  <2>4. ASSUME NEW r \in Requests, Begin(r)
        PROVE  UNCHANGED <<parties, now>>
    BY <2>4, BeginIsServiceBegin
       DEF P!Begin, P!BeginCreate, P!BeginUpdate, P!BeginTransition, P!BeginDelete, P!Start,
           Asks
  <2>5. ASSUME NEW r \in Requests, Commit(r) \/ Abandon(r)
        PROVE  (P!Commit(r) \/ P!End(r)) /\ now' = now
    BY <2>5, CommitIsServiceStep, EndIsServiceEnd DEF Abandon, Answered
  <2>6. ASSUME NEW r \in Requests, P!End(r), now' = now
        PROVE  UNCHANGED <<parties, now>>
    BY <2>6 DEF P!End
  <2>. QED
    BY <2>1, <2>2, <2>3, <2>4, <2>5, <2>6, CommitOnRegister DEF Next, RequestStep, vars
<1>. QED
  BY <1>1, <1>2, TypeCorrect, PTL DEF Spec, ImplementsRegister, Register!Spec, Face
-----------------------------------------------------------------------------
(* Final statuses                                                          *)

\* A party does not leave a status that the graph does not leave, however old
\* the copies that requests write back.
THEOREM FinalStatuses == ASSUME Ahead = 0 PROVE Spec => TerminalIsFinal
<1>1. ASSUME P!ServiceInductive, [Next]_vars, NEW p \in Parties, Service!Exists(parties[p]),
             parties'[p].status # parties[p].status
      PROVE  <<parties[p].status, parties'[p].status>> \in Graph
  <2>1. P!LedgerNext \/ UNCHANGED <<parties, trail>>
    BY <1>1, StepIsServiceStep, P!StepIsLedgerStep, ServiceAssumptions
  <2>2. P!LedgerTypeOK
    BY <1>1 DEF P!ServiceInductive, P!ServiceTypeOK
  <2>3. P!Exists(parties[p])
    BY <1>1 DEF P!Exists, P!NoStatus, Service!Exists, Service!NoStatus
  <2>4. P!CanTransition(Graph, parties[p].status, parties'[p].status)
    BY <1>1, <2>1, <2>2, <2>3, P!StatusStep, ServiceAssumptions
  <2>. QED
    BY <2>4 DEF P!CanTransition
<1>2. P!ServiceInductive /\ [Next]_vars => [\A p \in Parties :
        /\ Service!Exists(parties[p])
        /\ \A target \in Statuses : <<parties[p].status, target>> \notin Graph
        => parties'[p].status = parties[p].status]_vars
  BY <1>1, GraphAssumption
<1>. QED
  BY <1>2, ServiceHolds, PTL DEF Spec, TerminalIsFinal
-----------------------------------------------------------------------------
(* Clearing                                                                *)

\* A request under way that would clear a party, or keep it cleared, saw a
\* document in date when it looked.
Looked ==
    \A r \in Requests :
        inflight[r] # P!Idle /\ inflight[r].op = "transition" /\ inflight[r].status = Cleared
        => inflight[r].contents.expires > asked[r]

LEMMA BeginLooked ==
    ASSUME TypeOK, NEW r \in Requests, Begin(r), NEW n, n = inflight'[r],
           n.op = "transition", n.status = Cleared
    PROVE  n.contents.expires > asked'[r]
<1>1. ASSUME NEW request, Service!Start(r, request)
      PROVE  n = request
  BY <1>1 DEF Service!Start, TypeOK, Service!ServiceTypeOK
<1>2. asked'[r] = now
  BY BeginIsServiceBegin DEF Asks, TypeOK
<1>3. PICK p \in Parties :
        \/ \E document \in Document : Create(r, p, document)
        \/ \E document \in Document, e \in 1..MaxVersion : Update(r, p, document, e)
        \/ \E target \in Statuses, e \in 1..MaxVersion : Transition(r, p, target, e)
        \/ Delete(r, p)
  BY DEF Begin
<1>4. ~\E document \in Document : Create(r, p, document)
  <2>1. ASSUME NEW document \in Document, Create(r, p, document)
        PROVE  n.op = "create"
    BY <1>1, <2>1 DEF Create, Service!BeginCreate
  <2>. QED
    BY <2>1
<1>5. ~\E document \in Document, e \in 1..MaxVersion : Update(r, p, document, e)
  <2>1. ASSUME NEW document \in Document, NEW e \in 1..MaxVersion, Update(r, p, document, e)
        PROVE  n.op = "update"
    BY <1>1, <2>1 DEF Update, Service!BeginUpdate
  <2>. QED
    BY <2>1
<1>6. ~Delete(r, p)
  <2>1. ASSUME Delete(r, p) PROVE n.op = "delete"
    BY <1>1, <2>1 DEF Delete, Service!BeginDelete
  <2>. QED
    BY <2>1
<1>7. PICK target \in Statuses, e \in 1..MaxVersion : Transition(r, p, target, e)
  BY <1>3, <1>4, <1>5, <1>6
<1>8. n.status = target /\ n.contents = parties[p].contents
  BY <1>1, <1>7 DEF Transition, Service!BeginTransition
<1>. QED
  BY <1>2, <1>7, <1>8 DEF Transition, InDate

LEMMA LookedStep ==
    ASSUME TypeOK, Looked, [Next]_vars
    PROVE  Looked'
<1>1. P!ServiceTypeOK
  BY SameState DEF TypeOK
<1>2. ASSUME NEW s \in Requests, NEW n, n = inflight'[s], n # P!Idle,
             n.op = "transition", n.status = Cleared
      PROVE  n.contents.expires > asked'[s]
  <2>1. CASE inflight'[s] = inflight[s] /\ asked'[s] = asked[s]
    BY <1>2, <2>1 DEF Looked
  <2>2. CASE ~(inflight'[s] = inflight[s] /\ asked'[s] = asked[s])
    <3>1. PICK r \in Requests : RequestStep(r)
      BY <2>2 DEF Next, vars, Tick
    <3>2. CASE Begin(r)
      <4>1. r = s
        BY <1>1, <2>2, <3>2, BeginIsServiceBegin
           DEF P!Begin, P!BeginCreate, P!BeginUpdate, P!BeginTransition, P!BeginDelete,
               P!Start, P!ServiceTypeOK, Asks, TypeOK
      <4>. QED
        BY <1>2, <3>2, <4>1, BeginLooked
    <3>3. CASE Commit(r) \/ Abandon(r)
      <4>1. (P!Commit(r) \/ P!End(r)) /\ Answered(r)
        BY <3>3, CommitIsServiceStep, EndIsServiceEnd DEF Abandon
      <4>2. P!Finish(r)
        BY <4>1 DEF P!Commit, P!CommitCreate, P!CommitSave, P!CommitDelete, P!End
      <4>. QED
        BY <1>1, <1>2, <2>2, <4>1, <4>2 DEF P!Finish, P!ServiceTypeOK, Answered, TypeOK
    <3>. QED
      BY <3>1, <3>2, <3>3 DEF RequestStep
  <2>. QED
    BY <2>1, <2>2
<1>. QED
  BY <1>2 DEF Looked, P!Idle

\* The commit that clears a party is a transition's, and writes back the
\* document that it read and that the row still has.
LEMMA CommitClears ==
    ASSUME P!ServiceInductive, Looked, NEW r \in Requests, P!Commit(r),
           NEW p \in Parties, Service!Exists(parties[p]), parties[p].status # Cleared,
           parties'[p].status = Cleared
    PROVE  /\ parties'[p].contents = parties[p].contents
           /\ inflight[r] # inflight'[r]
           /\ parties[p].contents.expires > asked[r]
<1>. PICK q : q = inflight[r]
  OBVIOUS
<1>1. q # P!Idle /\ P!ServiceTypeOK /\ P!RequestInv(q)
  BY DEF P!Commit, P!CommitCreate, P!CommitSave, P!CommitDelete, P!Idle, P!ServiceInductive
<1>2. inflight'[r] = P!Idle
  BY <1>1 DEF P!Commit, P!CommitCreate, P!CommitSave, P!CommitDelete, P!Finish,
     P!ServiceTypeOK
<1>3. ASSUME NEW row, P!Write(r, row)
      PROVE  q.record = p /\ parties'[p] = row
  BY <1>1, <1>3 DEF P!Write, P!Change, P!ServiceTypeOK, P!LedgerTypeOK
<1>4. ~P!RollBack
  BY DEF P!RollBack
<1>5. ~(P!CanInsert(parties[q.record]) /\ P!Write(r, P!Inserted(q.status, q.contents)))
  BY <1>3 DEF P!CanInsert, P!Exists, P!NoStatus, Service!Exists, Service!NoStatus
<1>6. ~P!Write(r, P!SoftDeleted(parties[q.record]))
  <2>1. SUFFICES ASSUME P!Write(r, P!SoftDeleted(parties[q.record])) PROVE FALSE
    OBVIOUS
  <2>2. parties'[p] = P!SoftDeleted(parties[p])
    BY <1>3, <2>1
  <2>. QED
    BY <1>1, <2>2 DEF P!SoftDeleted, P!ServiceTypeOK, P!LedgerTypeOK, P!RowType
<1>7. /\ q.op \in {"update", "transition"}
      /\ P!CanUpdate(parties[q.record], q.expected)
      /\ P!Write(r, P!Updated(parties[q.record], q.status, q.contents, q.expected))
  BY <1>4, <1>5, <1>6 DEF P!Commit, P!CommitCreate, P!CommitSave, P!CommitDelete
<1>8. q.record = p /\ q.status = Cleared /\ parties'[p].contents = q.contents
  BY <1>3, <1>7 DEF P!Updated
<1>9. parties[p].status = q.before
  BY <1>1, <1>7, <1>8 DEF P!RequestInv, P!ReadCurrent, P!WouldSave
<1>10. q.op = "transition"
  BY <1>1, <1>7, <1>8, <1>9 DEF P!RequestInv, P!RequestSound
<1>11. parties[p].contents = q.contents
  BY <1>1, <1>7, <1>8, <1>10 DEF P!RequestInv, P!ReadCurrent, P!WouldSave
<1>12. q.contents.expires > asked[r]
  BY <1>1, <1>8, <1>10 DEF Looked
<1>. QED
  BY <1>1, <1>2, <1>8, <1>11, <1>12

\* A party is cleared on the document its row says, which was in date when the
\* request looked.
THEOREM ClearancesInDate == ASSUME Ahead = 0 PROVE Spec => ClearedInDate
<1>1. Init => Looked
  BY DEF Init, Looked, Service!Init, Service!Idle, P!Idle
<1>2. TypeOK /\ Looked /\ [Next]_vars => Looked'
  BY LookedStep
<1>3. ASSUME P!ServiceInductive, Looked, [Next]_vars, NEW p \in Parties,
             Service!Exists(parties[p]), parties[p].status # Cleared,
             parties'[p].status = Cleared
      PROVE  /\ parties'[p].contents = parties[p].contents
             /\ \E r \in Requests :
                    /\ inflight[r] # inflight'[r]
                    /\ parties[p].contents.expires > asked[r]
  <2>1. PICK r \in Requests : P!Commit(r)
    BY <1>3, StepIsServiceStep
       DEF P!Next, P!serviceVars, P!RequestStep, P!Begin, P!BeginCreate, P!BeginUpdate,
           P!BeginTransition, P!BeginDelete, P!Start, P!Lookup, P!Advance, P!End
  <2>. QED
    BY <1>3, <2>1, CommitClears
<1>4. P!ServiceInductive /\ Looked /\ [Next]_vars => [\A p \in Parties :
        /\ Service!Exists(parties[p]) /\ parties[p].status # Cleared
        /\ parties'[p].status = Cleared
        => /\ parties'[p].contents = parties[p].contents
           /\ \E r \in Requests :
                  /\ inflight[r] # inflight'[r]
                  /\ parties[p].contents.expires > asked[r]]_vars
  BY <1>3
<1>. QED
  BY <1>1, <1>2, <1>4, ServiceHolds, TypeCorrect, PTL DEF Spec, ClearedInDate
=============================================================================
