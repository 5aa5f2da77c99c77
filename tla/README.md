# Hazardous-waste transfer compliance: TLA+ models and proofs

This directory holds the formal models kept beside the hazardous-waste transfer
compliance system: a Go service (Gin, GORM over PostgreSQL, Redis) with an
Angular workbench. Paths below are relative to the repository's root.

## 1. Inventory

| component | source | state it keeps | operations | model |
|---|---|---|---|---|
| Status graphs | `backend/internal/constants/status.go` | none | `CanTransition` over four graphs | `StatusGraphs` |
| Store | `backend/internal/repository/*.go` | one table per aggregate (id, unique code, status, version, business fields, deleted_at) and the audit table | Get, FindByCode, List, CountByStatus; CreateAudited, UpdateAudited, DeleteAudited | `Store`, `AuditedLedger`, `AuditedService`; pages of a list in `Listing` |
| Transfer manifest service | `backend/internal/service/transfer_manifest.go`, its handler, DTOs and model | the manifests | Create, Update, Transition, Delete | `TransferManifests`, `ManifestBoard` |
| Compliance check service | `backend/internal/service/compliance_check.go` … | the checks | the same four | `ComplianceChecks`; beside the manifest service in `Compliance` |
| Waste generator service | `backend/internal/service/waste_generator.go` … | generators and their permits | the same four | `LicensedParties`, `Licences` |
| Carrier profile service | `backend/internal/service/carrier_profile.go` … | carriers and their licences | the same four | `LicensedParties`, `Licences` |
| Audit log | `backend/internal/service/security.go`, `repository/security.go`, `handler/system.go` | audit entries, append-only | written by the four services; queries, summaries, entity history | entries in `Store`/`AuditedLedger`, times, history and summaries in `AuditTrail` |
| Authentication and roles | `backend/internal/middleware/auth.go`, `service/security.go` | users; tokens held by clients | Login, Authenticate, RequireRoles, RequireMinimumRole | `Access` |
| Rate limiter | `backend/internal/middleware/ratelimit.go` | a Redis counter per client, route and minute; a local map as fallback | Middleware, increment, incrementLocal, cleanupLocal | `RateLimiter` |
| Startup and seeding | `backend/internal/database/database.go`, `cmd/server/main.go`, `config` | the database as a whole | Load, Validate, Open, migrate, Seed, shutdown | `Configuration`, `Startup` |
| Request context, routing, errors | `backend/internal/middleware/request.go`, `router`, `handler/errors.go`, `util` | none | request ids, route table, error to status code | routes and guards in `Access`; the rest is wiring |
| Workbench stores | `frontend/src/stores`, `api/client.ts`, `components/entity-page.component.ts` | items, total, loading, error per aggregate | load, create, transition; pages and dialogs | `Workbench` over `Listing` |
| Workbench session | `frontend/src/hooks/use-auth.ts`, `router/guards.ts` | token and user, in memory and in local storage | login, restore, logout, 401 handling | `Session` over `Access` |
| Workbench status lists | `frontend/src/types/status.ts` | none | TRANSITIONS, transitionRole | `Workbench`, `Session` |
| Presentation | `frontend/src/pages`, `utils`, `styles.css` | none beyond a view | rendering | not modelled |

**Interaction.** A request passes the request-id middleware, then the rate limiter, then
authentication (`router.go:51`), then a handler and one service method. The manifest service looks
up generators and carriers by code, the check service looks up manifests by
code; nothing else connects the aggregates (there are no foreign keys). All
shared state is in the database: the goroutines that serve requests interact
only through the statements they send.

**What is hard.** A service method reads its record *outside* a transaction,
evaluates every guard (status, graph, linked parties) on that copy, and only
then opens a transaction of two statements, the write and the audit entry. What
ties the write to the read is the version the *client* sent, in the predicate of
the update. A deletion has no version in its predicate at all. Between any two
of these statements every other request, a licence running out, and a crash can
come. Sections 2 and 3 say which promises survive that and which do not.

What makes each component correct:

* *Store*: a row and its audit entries change together; a code names one row for
  ever; an update applies to the version it expects or not at all.
* *Manifests*: status moves along the graph only; what a manifest says is fixed
  once it has left draft; both parties are checked before submission and again
  before dispatch; submitted manifests are kept.
* *Checks*: decisions are final, failures can only be escalated, a pass rests on
  a manifest that had been submitted.
* *Licences*: expired is final; nothing becomes active or verified with an
  expired document.
* *Audit*: each record's entries form a chain that ends in its status; the history lists
  them in the order of what happened; the numbers of a summary fit together.
* *Access*: a call is let through only in a role its account has lately held.
* *Rate limiter*: how many requests of a client a minute lets through when Redis fails
  and comes back; nobody is refused who kept to the limit; the map stays bounded.
* *Startup*: each table is seeded once, whoever starts together or crashes half-way; a
  process serves a whole database; what fails to start is started again and comes up,
  except over a table of deleted rows, over which nothing comes up again.
* *Workbench*: the pages show what the user has just written and lose no record from
  one page to the next; a confirmed transition is the one that was shown; waiting ends.
* *Session*: the tab acts as whom it shows, offers what the server allows, and a logout
  lasts.

## 2. The modules

```
              StatusGraphs   Store                    extended by all below
                        \     /
                     AuditedLedger
                           |
                     AuditedService <--- AuditTrail <--- MCAuditedService
                           |        <--- AuditedServiceProofs
        /                  |                  \
 LicensedParties   TransferManifests   ComplianceChecks
        \            /           \            /
   implements   looks up    implements   looks up
          \        /               \        /
           Licences               ManifestBoard

 Compliance = ComplianceChecks, with TransferManifests in the place of ManifestBoard
```

```
 RateLimiter     Configuration     Access      StatusGraphs
      |                |              |              |
 RateLimiterProofs  Startup        Session        Listing
                       |              |              |
                DatabaseProofs  SessionProofs    Workbench
                                                     |
                                              WorkbenchProofs
```

An arrow down is EXTENDS. Each specification that runs has an `MC...` module with its
small instances. `LicensedParties` and `TransferManifests` have a `...Proofs` module each;
`ComplianceProofs` is about `ComplianceChecks` and about `Compliance`, which extends it;
`DatabaseProofs` is about `Startup` and `AuditTrail`. The towers meet in the network only: a call of `Session` or `Workbench` passes the
limiter, then the guards of `Access`, then a service. Towers are joined by what one
takes of the other: `Session` lets any call fail (the limiter, a handler), `Workbench`
lets any change be refused, and `Listing` counts of the services that a change moves a
row towards the front and raises its version.

* **`StatusGraphs`** — the four graphs of `status.go` as sets of edges.
* **`Store`** — what the statements of `repository/base.go` do to one row:
  `Found` is the `deleted_at IS NULL` GORM adds to reads, `CanInsert` the unique
  index on code (which soft-deleted rows still occupy), `CanUpdate` the predicate
  `id = ? AND version = ?` of `updateRecord`, `CanDelete` that of `deleteRecord`,
  `Updated` its overwriting of every column but id, code, created_at and
  deleted_at, which stay as they are. A row is named by its code: ids and codes correspond one to one.
* **`AuditedLedger`** — the abstract specification of an audited aggregate, with
  atomic operations: Create, Edit, Move, Remove. Its parameters are the graph, the
  first status, the statuses in which edits and removals are accepted, and those in
  which start-up seeds records. Seeded records have no creation entry, so
  `Explains` accepts a trail that lacks its first entry and no other. Remove is as
  weak as the code's deletion: its audit entry carries *a* status the record has
  had, in which it could be removed, not necessarily the one it has.
* **`AuditedService`** — what the four services have in common, in detail:
  requests, each a goroutine, that read a record outside any transaction, make
  lookups in other tables, and commit one transaction. `inflight[r]` is what the
  goroutine serving request `r` holds: the operation, the record's code, the status it
  read (`before`), what it will write (`status`, `contents`), the client's
  `expectedVersion`, and what it does next (`stage`). As a specification of its own
  it leaves the lookups open: any may succeed or end the request, in any order. Each
  service is an instance of it with its lookups pinned down.

  | action | code |
  |---|---|
  | `BeginCreate` / `BeginUpdate` / `BeginTransition` / `BeginDelete` | binding, `Get`, the guards evaluated on the copy |
  | `Advance` | a lookup (`FindByCode` of another table) succeeds |
  | `CommitCreate` / `CommitSave` / `CommitDelete` | the transaction: the statement and the audit entry, or a roll-back |
  | `End` | a lookup fails, the request's context is cancelled, a statement fails, or the process stops |

  The read after a commit that builds the answer changes nothing and is left
  out, as are requests refused by validation. Several requests ended at once are a
  crash: no request has state beyond the database, so a restart adds nothing.
* **`TransferManifests`** — the manifest service: `AuditedService` over the manifests
  (contents: the generator and carrier a manifest names), with two lookups, for
  existence (Create, Update) or in force (Transition to submitted or in_transit,
  `validateLinkedParties`), over two registers that change meanwhile. `vouched` is a
  history variable: which of the parties a manifest names have been in force at some
  moment since its row was last written.
* **`LicensedParties`** — the generator service and the carrier service, which differ in
  their constants only: `AuditedService` with edits and removals in every status, no
  lookups, and a clock. What a row says is abstracted to its document, a number and an
  expiry date. The expiry is compared with the clock when the request checks (`Create`,
  `Update`, and `Transition` to the status that clears a party for transfers), and the
  clock can pass it before the commit. The unique index on document numbers covers
  soft-deleted rows and is consulted by the statement only: `CommitCreate` and
  `CommitSave` are refused if the number is taken. `asked` is a history variable: when
  each request in flight looked.
* **`Licences`** — generators and carriers as the manifest service sees them: absent,
  blocked, in force, deleted. Its steps are the effects of the licence
  services' commits and of time passing expiry dates. `LicensedParties` implements it
  (run `waste_generators`, theorem `RegisterImplemented`), which
  justifies its use as the environment of the manifests. It lets a blocked party
  come back even from expired, which the services do not: it allows more than the
  code, so safety properties carry over.
* **`ManifestBoard`** — manifests as the check service sees them by code: absent,
  deleted, or in a status. `TransferManifests` implements it (run
  `transfer_manifests`, theorem `BoardImplemented`), which justifies its use as the
  environment of the checks. Withdraw is allowed in every status because of finding 1.
* **`ComplianceChecks`** — the check service: `AuditedService` over the checks (contents:
  the manifest cited), with one lookup, over a `ManifestBoard`. `submitted` is a
  history variable: the manifests that have ever been submitted.
* **`Compliance`** — the check service beside the manifest service itself, as `router.New`
  puts them together: `ComplianceChecks` with `TransferManifests` for its environment. The
  two share the database only, so a step is one of either, and what the lookup of a check
  sees of a manifest (`manifests`) follows the manifest's row (`Standings`). The registers of
  generators and carriers stay `Licences`, which the licence services are proved to
  implement. `backed` is a history variable: which of the parties that a manifest's row
  names have been in force at some moment since they are named there. Unlike `vouched` it
  outlives a write that leaves the parties as they are, so that it can still be asked for
  when a check passes, long after the submission.

* **`RateLimiter`** — `middleware/ratelimit.go`: several server processes and one Redis.
  A request reads the clock for the name of its counter (`Arrive`), counts in Redis
  (`CountInRedis`, whose answer may be lost after the transaction was executed) or fails to
  (`RedisFails`), then counts in its process (`CountLocally`, one critical section under
  the lock, with a second reading of the clock), and is let through or refused
  (`Decide`). `Kept` is `cleanupLocal`. `Restart` empties the map of a process, whose
  requests are lost. Histories: `arrived` and `admitted` per key and minute, `starts` of
  processes. Redis itself is modelled from its use: INCR and EXPIRE are one atomic
  transaction, and the client does not repeat one it has sent. A transaction whose answer is
  lost is executed at once; later would raise the counter later, so that no other
  request gets a higher count. Headers and `Status` are left out.

* **`AuditTrail`** — `AuditedService` with a clock. An entry is stamped by `newAuditLog`
  when the request has passed its guards and lookups, and appended by its transaction,
  later. `Stamp` and `Date` are conjuncts of every request step, so stamping is never a
  step of its own. `EntityHistory` orders by the stamp. A summary is a sequence of
  statements (`CountTotal`, `CountTransitions`, `GroupByAction`), with the window fixed
  before the first, between which entries appear. Left out are two statements of the
  same kind, the limits of a page and the search. One clock: servers agree on the time.
* **`Configuration`** — `Load`, `intEnv`, `durationEnv` and `Validate` as operators.
* **`Startup`** — `main`, `Open`, `migrate` and `Seed`, one action per statement, for
  processes that share a database. A table is abstracted to what migration and seeding can
  tell of it: missing, empty, full, in part deleted, or *buried* (rows exist, none is
  live). AutoMigrate asks for a table (`Migrate`) and creates it if it is missing
  (`CreateTable`), which fails if another process has created it meanwhile. `CountsNone` is
  the count, which sees live rows; `CodesFree` is the unique index, which sees all. Between
  any two statements anything may happen: another process seeds, the database goes away,
  this process crashes. The context of the start is 35 seconds against the 20 of all
  attempts to connect, and pings wait under it: a start that had to wait for the database
  is `late`, and each of its later statements under that context may fail with the database
  up; one that connected at once is taken to have time enough, and AutoMigrate, which gets no
  context, does not fail of it. The ping of Redis is made if an address is configured.
  `Exit` is `os.Exit(1)`, after which Docker starts the container again. The table of audit
  entries, which nobody seeds, is left out.
* **`Access`** — `Login` as reading the account (`FindUser`) and signing (`Sign`), which are
  apart by the time bcrypt takes; `Authenticate` and the role guards as `Authorize`, which
  read the token only; the guards of all routes as sets of roles. `Administer` changes
  accounts, which happens in the database only. `held` is a history variable: when each
  account was last active in each role.
* **`Session`** — one tab, as a client of `Access`: the session on the screen (`signal`),
  the one in the local storage, `loading`, and what each call is awaited for. Answers
  come in any order; `Restored`, `LoggedIn` and `Clicked` are the continuations after
  the awaits of `restore`, `login` and every other request. `Reload` may come at any time.
* **`Listing`** — a table as `List` serves it: live rows, the one with the last stamp first,
  in pages, the count a statement before the find. A write is stamped when its statement is
  built and seen when it is committed, so another with a later stamp can be seen first:
  `Reordered` moves a row to any place in front of its old one, the first included. Equal
  stamps, which the id decides, are orders of that kind. The stamps are of one clock, and a
  row's own grow.
* **`Workbench`** — `EntityStore` and `EntityPageComponent`: calls that are sent, served
  and answered in any order, the pager, the two dialogs, and others who write. `walk` is
  a history variable: what was shown and what was written since the user listed from
  page 1. `TRANSITIONS` is `types/status.ts`.

The seeds of the first start are initial states: rows may exist, at version 1, in the
statuses that `database.go` seeds, with the links it seeds (manifests name parties in
force; checks cite a submitted or dispatched manifest).

### Clients

`Ahead` says how far above the version it was served a client's
`expectedVersion` may lie. With `Ahead = 0` every client waits for the answer to
a request before it sends one that depends on it, as the workbench does
(`EntityStore` sends `item.version`). With `Ahead = 1` a client may pipeline: send an
edit, and at once a transition with the version the edit will produce. The
service accepts either.

## 3. The runs

| run | instance | what it shows |
|---|---|---|
| `audited_service` | 1 record, 2 contents, check graph, 2 requests, 1 lookup, versions to 3, `Ahead = 0`, 2 instants, one window | types; `ReadIsCurrent`, `TrailExplainsRow`, `HistoryInOrder`, `SummaryNested`, `FrozenUnlessEditable`, `ImplementsLedger` |
| `transfer_manifests` | 1 manifest, 2 generators, 1 carrier, 2 requests, versions to 3, `Ahead = 0` | types; `PartiesReverified`, `ImplementsBoard` |
| `compliance_checks` | 1 check, 2 manifests, 2 requests, versions to 3, `Ahead = 0` | types; `PassedWasSubmitted`, `DecisionsStand` |
| `compliance` | 1 check, 1 manifest and 1 that stays as seeded, 2 generators, 1 carrier, 2 requests to each service in two scenes, versions to 2, `Ahead = 0` | `PassRestsOnParties`, `EvidenceStands` |
| `waste_generators` | 2 generators, 2 numbers, 2 requests, versions to 3, 2 instants, in two scenes, `Ahead = 0` | types; `ImplementsRegister`, `ImplementsLedger`, `ClearedInDate` |
| `rate_limiter` | 2 keys, limit 1, capacity 1, 1 process and 1 restart, 2 requests at a time, 2 minutes | types; `WithinLimit`, `RefusedForCause`, `MapBounded` |
| `startup` | 2 processes, 3 tables (accounts; one that can be buried; one that cannot), 7 environments, 2 attempts, 2 crashes | types; `SeededOnce`, `ServesSeeded`, `OutageLasts`, and `Recovers` under fairness |
| `session` | 1 account in 3 states, 2 calls, 3 routes, tokens of 1 instant out of 2, 1 reload | types; `StaleAtMostTTL`, `OfferedIsAllowed`, `ActsAsShown`, `LostOnlyByExpiry`, `LoggedOutStaysOut`, and `LoadingEnds` under fairness |
| `workbench` | the manifest page, 2 rows and 1 to be created, pages of 1, reloads of 2, 2 calls, 2 changes | types; `SpinnerEnds`, `ReadsOwnWrites`, `SeenUnlessTouched`, `ConfirmedFromSeen` |
| `carrier_edit_unreviewed` | 2 carriers, 2 numbers, 1 request, versions to 2, 2 instants | **violation** of `ClearedAsReviewed` |
| `manifest_delete_race` | 1 generator, versions to 3, `Ahead = 0` | **violation** of `SubmittedRetained` |
| `check_decision_reverted` | 1 check, 1 manifest, versions to 3, `Ahead = 1` | **violation** of `DecisionsStand` |

*Bounds.* Records of one aggregate do not interact, so one is enough to check (the proofs
take any set), except for licensed parties, which share the index on numbers and the clock.
`MCWasteGenerators` therefore has two scenes, which its initial states choose between: one
generator whose permit may run out, with versions to 3; and two generators that contend for
two numbers, seeded as active, with permits that outlive the run and versions to 2, in which
a save passes every check and is refused by the index. Both at once are left to the
theorems. With two instants a document either runs out during the run or outlives it, and it
can run out before, between and after a request's check and its commit. Two requests give
every pairwise race, and a third can only add another writer between the steps of the first,
which the second also does by being used again. Version 3 is the third write of a row:
created, edited, submitted; or, from a seed, two transitions; or pending, edited, decided.
With it an edit and a transition race from the same copy, and a check of parties made for an
older draft is a possibility. `MaxVersion` caps the client's `expectedVersion`. Two
generators let an edit move a manifest from a valid party to an invalid one; two manifests
let an edit put another one into a check after its lookup. Requests, generators, manifests
and contents are symmetric where they are declared so: no definition names one.

In `compliance` a check is written, edited and decided while its manifest is drafted,
edited, submitted and dispatched, and its parties come and go. All of it at once makes more
states than a run can hold, so `MCCompliance` has two scenes as well. In one the parties,
enrolled before, come and go, and each service has one request at a time, which is how the
services interleave with each other and with the registers. In the other the parties stay in
force and either service has two requests at a time: an edit that was prepared before a
decision or a submission can commit after it, and a check can be moved to another manifest,
one that was seeded. Three or more requests over both services are left to the theorems.
Version 2 is enough for a manifest that is created and then edited or submitted, or seeded
and then edited, submitted or dispatched, and likewise for a check. The view leaves out of a
state what neither a step nor a property reads: the trails, the history variables of the two
services' own properties, and what follows from the rows.

For the limiter: any number of requests can arrive, one after another; 2 is how many are
inside at once, which is where their order can matter. Counts above the limit are
alike, so they stop at `Limit + 1`, and admissions at one more than `WithinLimit` allows,
for the same reason. `Horizon` is the last minute: two suffice for a request that spans a
boundary. `MaxStarts` bounds restarts, each of which buys a client another limit; a
restarted process stands for a second one, whose counter also starts at nothing. Two
processes at once with two keys are beyond a run of minutes. The guard of `Tick` says that no request spends a whole
minute in the limiter: the Redis client gives up after seconds. Redis counters go when
their minute is two behind, which no request inside can name.

What `WithinLimit` says is the honest form of the limit: with Redis up it is the limit,
and every process that falls back adds one of its own, for each time it was started.

*Deadlock* is checked in every run, and there is none.

For the others: three tables give every order of a crash or a race between two tables,
and one of each kind; two attempts give the last one and one before. A token that lives
for one of two instants can be valid, and can be expired while its session is still on
the screen. Two calls give every order of two answers. A third state of accounts, a role
that is none, is left out of the instance of `session`, which it makes several times
larger; the theorems cover it. Three rows in pages of one, with reloads of two, give a
pager that is there or not, a first, an inner and a last page, and rows that cross a
boundary. `MaxChanges`, `MaxReloads`, `MaxCrashes` and `Horizon` are bounds of the
instances, and the theorems hold for any values of theirs.

*Fairness.* `Startup` assumes weak fairness of each process's own steps: a process that
runs goes on, and one that has exited is started again (`restart: unless-stopped`,
`docker-compose.yml:63`). Nothing is assumed of crashes, failures or users. `Recovers`
therefore has a condition: the database and Redis stay up from some time on, and no table
keeps being without a live row. The second half is not for convenience: once every generator has
been deleted, the count finds none, the insert of `WG-001` fails on the deleted row's
code, and the container restarts for ever (`database.go:129`). `OutageLasts` states it: once no
process is past such a table, none gets past it again, and as only a process that serves can
create a row, the table stays as it is. The two properties together say that this state, and
no other, is one a start cannot get over. `Session` assumes that each
call is answered, by the server or by the proxy that gives up on it, and that the event
loop delivers each answer. The services need no fairness: every step of a request is
one statement, so that a request ends would say nothing about this code.

*What overlapping calls do.* No button of a page waits for an answer. `SpinnerEnds` and
`ConfirmedFromSeen` hold all the same; `ReadsOwnWrites` and `SeenUnlessTouched` are
stated for calls that do not overlap, as an older list that is answered last stays on the
screen. After a change the store lists page 1 of 20 rows whatever page the pager is on,
and the pager keeps its number; `SeenUnlessTouched` speaks of walks from page 1 without a
change of the user's own. The history of an entity can list a deletion before a change that it
followed, since a deletion waits for no version, and `HistoryInOrder` excepts it.

### Findings

1. **A submitted manifest can be deleted, and so can a decided check.**
   (`manifest_delete_race`) An administrator's deletion reads a
   draft; the operator's submission commits; the deletion then soft-deletes the
   submitted manifest, and its audit entry says it was a draft. `README.md:44` and the
   error texts of the two deletions say that submitted manifests and decided checks
   are retained; the deletion of a check has the same order of steps. A status or version
   in the predicate of `deleteRecord` would close it.
2. **A pipelining client undoes a decision, or loses its own edit.**
   (`check_decision_reverted`) The update predicate compares the
   row with the client's version, and nothing compares it with the version of the copy
   that is written back. An edit of a check with version 2 that read it pending commits
   after its decision with version 1 and puts it back to pending. The other way round, an
   edit sent with version 1 and a transition with version 2, in flight together, end in a
   row with the transition's status and the contents from
   before the edit, while the trail shows both as applied. `model/base.go:9` promises optimistic locking
   for every aggregate, `README.md:43` that decisions are not taken back. Comparing
   `current.Version` with `ExpectedVersion` in the services would close both.
3. **A verified carrier's licence can be replaced without a review.**
   (`carrier_edit_unreviewed`) `carrierProfileService.Update` takes an edit in every
   status and keeps the status, and the route asks for an operator only. The README's
   role matrix (`README.md:55`, `README.md:57`) lets operators edit pending data and
   keeps the review of permits for reviewers. Sending an edited carrier back to pending
   would close it. The same holds of generators, whose first status is already active.

Beside these, the workbench's `TRANSITIONS` lists pending to escalated for checks and
pending to expired for carriers, which `constants/status.go` does not have, where
`README.md:138` asks for the two places to be kept in step. The services refuse both, so
nothing worse than an error comes of it. `MCWorkbench` assumes that these two are all the
difference, which TLC evaluates in every run of the workbench.

## 4. What is proved

All theorems hold for any sets of records, parties and requests and any version
bound, and are checked by TLAPS with SMT, Zenon and PTL. Those marked † assume
`Ahead = 0`, the hypothesis that finding 2 shows to be needed.

`AuditedServiceProofs`, first about every ledger (assuming that the first and the seeded
statuses, the graph's nodes and the removable statuses are statuses, and that "none" is
not one):

* `TrailAlwaysExplains` — `LedgerSpec => []TrailExplainsRow`. The invariant is made
  inductive by the types and by `NoRows` (a code that was never inserted has the
  untouched row). The work is in three lemmas about sequences, `ExplainsInserted`,
  `ExplainsUpdated` and `ExplainsRemoved`: appending the right entry to a trail
  that explains a row explains the changed row.

Then about every service of that shape, whatever its lookups:

* `ServiceTypeCorrect`.
* `ServiceInvariant`†, and from it `ReadsAreCurrent`†, `TrailsExplainRecords`†,
  `ServiceImplementsLedger`†, `RecordsFreeze`†.

  The argument: a request in flight knows (`RequestInv`) that its record exists and
  that the version it expects is not above the record's (`RequestSound`, where
  `Ahead = 0` is used), and that *if* the versions still match, the row is the one it
  read (`ReadCurrent`). Other requests keep this true because each commit is a step of
  the ledger (`CommitIsLedgerStep`) and a step of the ledger leaves a row alone,
  removes it or raises its version (`RowStep`, `RequestPersists`); a request's own
  lookups extend it (`LookupKnows`). A deletion, which has no version, knows only that
  its record has been in the status it read (`HasBeen`), and that never ceases to be
  true. The trail comes along by the ledger's own step lemmas.

`TransferManifestsProofs`, `ComplianceProofs` and `LicensedPartiesProofs` show that each step of the
service is a step of an `AuditedService` (`StepIsServiceStep`) and take the rest from
there by instantiation. Their own content:

* `TypeCorrect` of each; `ManifestsImplementLedger`†, `ChecksImplementLedger`†,
  `PartiesImplementLedger`† (`SameLedger`); `TrailsExplainManifests`†, `TrailsExplainChecks`†,
  `TrailsExplainParties`†; `ManifestsFreeze`†, `ChecksFreeze`†. The ledger's theorems hold of
  a licence service although the index on numbers refuses some of its commits: such a
  commit is the end of a request.
* `SubmissionsReverified`† — a transition that would still be saved has had the
  row's *present* parties vouched for, as far as its lookups have come
  (`SaveVouched`): where the versions still match the row has not changed since the
  read, by `RequestPersists`, so the history variable has not started afresh.
* `BoardImplemented`† — a step of the ledger is a step of the board or invisible on it.
* `DecisionsAreFinal`† — the ledger moves a status along the graph only (`StatusStep`),
  and the graph of checks has no edge back.
* `PassesRestOnSubmissions` — for every client: only a transition writes a pass, it
  writes the manifest it looked up (`PassSound`), and a manifest that has been
  submitted has been for ever.

and of the composition, whose theorems are the point of the two sides having been proved
apart:

* `ChecksOnManifests`† — `ComplianceSpec => Spec`: beside the real manifest service the check
  service is what `ComplianceChecks` says it is, so all of its theorems hold there too.
  A step of a request to the manifest service is a step of the board or leaves it alone, by
  the step lemma of `BoardImplemented` (`StepOnBoard`); the lemmas `Same...` say that the board that
  `ComplianceChecks` declares and the one that `TransferManifests` promises are the same.
* `PassesRestOnParties`† — inductive with `Linked`, beside the invariants of the two
  services: the board is the rows' standings; every manifest ever submitted has a row past
  its draft (deleted ones included, which keep their status); what the manifest service has
  vouched for is backed; and a row past its draft is backed by both parties. The last is
  where the services meet. A row leaves draft only by a submission, which at that moment
  has both parties vouched for (`SubmissionsReverified`), and past its draft it names
  the parties it named then (`PastDraftStep`, from the ledger). A pass rests on a manifest
  that had been submitted, which therefore is one of those.
* `PassedEvidenceStands`† — the check by `ChecksFreeze`'s argument, its manifest by
  `PastDraftStep`, and that it *is* past its draft by `Linked`.

Of the licence services:

* `RegisterImplemented` — for every client, graph and clock: a commit changes the standing
  of its own party only (`OneStanding`), from absent to on file, between blocked and
  in force, or to deleted (`CommitOnRegister`); a tick of the clock takes a set of
  parties out of force (`TickOnRegister`).
* `FinalStatuses`† — `TerminalIsFinal`, no request takes a party out of expired: from
  `StatusStep`, as for decisions. The run checks `ImplementsLedger`, from which it follows.
* `ClearancesInDate`† — a transition in flight that would clear a party saw a document
  in date when it looked (`Looked`); the commit that clears is a transition's, because
  an edit writes back the status the row still has (`ReadCurrent`), and the document
  it writes is the row's own (`CommitClears`).

`RateLimiterProofs` (assuming finitely many processes and requests at a time, and a limit
and capacity of at least one):

* `TypeCorrect`.
* `MapsBounded` — inductive with `MapInv`: maps are finite and hold no bucket of a minute
  to come. Below its capacity a map gains one key at most; at its capacity the buckets that
  are kept are of this minute, as is the one that is added (`CountedMap`).
* `OnlyRefusedForCause` — inductive with `CauseInv`. A counter of Redis plus the requests
  that are still to count in it never exceeds the requests that came (`RedisCause`); a
  bucket of a process plus the requests that may still fall into it, which are of its
  minute or the one before, never exceeds those that came in the two minutes
  (`LocalCause`; `PendCause` says it of a bucket that does not exist yet). The strengthening
  is needed because a request counted twice, or in the minute after its own, must not be
  charged to others. `Windows` is where the clock's bound on a request's stay enters.
* `AdmitsWithinLimit` — inductive with `RoomInv`, a potential: what was let through on a
  counter, plus the requests whose count lets them through, plus the counts up to the
  limit that Redis has not yet answered (`RedisRoom`) and that each process has not yet
  reached (`LocalRoom`), is at most the allowance. A request that wins uses up a count; a
  restart gives a process all its counts again, and the allowance grows by as many.
  Cleaning a map returns no room, as it keeps the buckets of the present minute.

`DatabaseProofs`, about the log and the start. Of `AuditTrail`:

* `HistoriesInOrder`† — inductive with `OrderInv`. A save that still finds the version it
  expects was stamped after all the entries of its record there are (`StampedAfter`):
  whoever writes to the record between the stamp and the save leaves it with another version
  or without its row (`StampsKept`), and then the save changes nothing. Hence the entry it
  appends is the last in time as in effect (`OrderAppended`).
* `SummariesNested` (assuming finitely many records, so that there is something to
  count) — inductive with `SummaryInv`. Nothing leaves the log or changes in it
  (`LogGrows`), so a later statement with the same bounds counts no fewer entries; and the
  four kinds of entries together are all there are (`CountedByAction`).

Of `Startup` (for any processes, tables, environments and bounds):

* `TypeCorrect`, `TablesSeededOnce`, `ServersServeSeeded`, all from `StartupInv`. A table that
  has had rows has been seeded, and one that is missing or empty has not (`Accounts`
  excepted); hence an insert whose codes are free is the first. The tables a process has
  behind it (`Passed`) have all been seeded, by it or before it counted. The insert needs
  no fact about its own count: the unique index is what makes it safe.
* `BlockedForGood` — that an outage lasts. Nobody serves while it does, so nobody creates a
  row and the table stays buried (`StaysBuried`); and the one step that could take a process
  past it, the count that finds a live row or the insert whose codes are free, is not
  enabled (`NobodyPasses`).

`SessionProofs` (for any accounts in any states, roles that are none included, any
number of calls, any routes with `/session` among them, any times):

* `AnyClientStaleAtMostTTL` — of `AccessSpec`, in which clients send any token that was
  issued; `SessionStaleAtMostTTL` is the same of the tab. `AccessInv` says that a
  token expires at most `TTL` after its account last held its role (`HeldUntil`), which
  carries over from the account read (`FindUser`) to the token signed (`Sign`) because no
  instant passes in between.
* `TypeCorrect`, `OffersAreAllowed`, `TabActsAsShown`, `SessionsLostByExpiry`,
  `NoLateLogin`, from `SessionInv`. The argument is about what an awaited call still means
  when its answer comes (`TabCall`): a restoration or a login holds the screen, so there is
  one of them at most and nobody logs in or out meanwhile (`LoadingInv`); an answer of
  401 means that a token that can be refused had been issued (`Spoiled`, which lasts);
  a route that was offered is in the guard of the token's role, by cases on the routes.

`WorkbenchProofs` (for any entity, records, graph, sizes of pages and reloads, and any number
of calls under way):

* `TypeCorrect`, and from it `SpinnerAlwaysEnds`: each step leaves a call awaited, or takes
  the sign of loading away.
* `TransitionsAsConfirmed` — from `Fitting`: whatever is at hand, in the list, in the dialog, in
  an answer that is on its way or in a confirmed transition that is not served yet, is true of the
  version it names. Versions only rise and a status changes with its version, so a
  transition that finds its version finds the status that was confirmed.
* `WritesAreShown` — with `OwnInv`. While no calls have overlapped there is one call at most, and
  unless it is a change or a load, after which the list is shown anew, the list
  shown has every record this page wrote, if at all, in no older version.
* `WalksMissNothing` — with `WalkInv`, about a walk that nothing has spoiled: one call at a time, the
  awaited page is the one after those seen, and every record that nobody has written
  since the walk began and that stands before the awaited page has been seen. What
  makes it inductive is about lists: a write moves its record towards the front and the untouched
  ones towards the end, wherever it comes in (`MovedUp`, `WriteShiftsOn`), so none
  crosses back over a boundary already passed; a page brings the rows at its places
  (`PageShows`, `PageBrings`); and the pager, whose total is as old as its last answer,
  offers a next page if one is left to see (`Leads`, `LastPage`).

Model-checked only: `Recovers` and `LoadingEnds`, as liveness and `ENABLED` are beyond the
prover. Every other property that a passing run checks is a theorem. The violations are
counterexamples, not proofs.

## 5. Not modelled

* The text to search for, filters by status, the counts by status of the overview, and
  pages of the audit log: they read only, and order nothing that a property is about.
* Other tabs. `Session` is one tab, with a storage of its own, where the browser gives all
  tabs of the origin one. A login in another tab makes this one send the other account's
  token while it still shows its own, so what `ActsAsShown` and `OfferedIsAllowed` say of one
  tab fails of two; a logout there, or an answer of 401, leaves this one showing a
  session it has lost, for another reason than `LostOnlyByExpiry` knows of. Nothing in
  the code addresses it: it does not listen to the storage's events.
* Clocks that differ, or are set back, between servers: the order of lists and histories is
  by stamps. Of entries with the same stamp `HistoryInOrder` says nothing, and of long
  histories only what is within the limit of the query is shown.
* The status in the audit entry of a deletion that lost a race: the ledger admits any the
  record has had, which is what the code does.
* A creation confirmed twice makes two records, as each confirmation makes up a new code.
  The model has it; nothing promises otherwise.
* The deletion of a manifest under a failed check, whose escalation then fails for want of
  a manifest: no promise covers it, and one that did would need reviewers who act.
* Request ids, headers, logging, the bodies of answers; layout and formatting.
* MinIO, which the code does not call; the inner workings of PostgreSQL and Redis, of
  which the models take what the statements sent to them do.

## 6. Plan

1. The licence services in `Compliance` in place of the two registers. Each is proved to
   implement its register, so safety carries over; together they would need one clock, and
   would say of a pass which documents it rests on and when they were in date.
