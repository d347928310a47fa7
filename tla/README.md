# A verification development for Mizan Labs v2

This directory holds TLA+ models of the Mizan back end (`src/backend/mizan`): its
concurrent core, its configuration data and its pure algorithms, the TLC configurations
that check them on small instances, and proofs of their main safety properties for every
instance. It is meant to be read beside
the code: each definition names the operation it stands for, and `PROJECT.json` maps each
definition to its lines.

Run everything from this directory: `tlc -config MCNumbering.cfg MCNumbering.tla` for a
run, `tlapm NumberingProofs.tla` for a proof module.

## 1. The system

Mizan is a multi-tenant laboratory back end: Django and Ninja over PostgreSQL, Procrastinate
(a job queue in the same database) for background work, an object store for documents, and
React front ends. Every request runs in one database transaction under READ COMMITTED, with
row-level security per tenant (`platform/db/tenancy.py`, `apps/identity/middleware.py`).
What makes it hard is therefore what happens between two statements of two transactions,
and between the transactions of one background job.

| Component | State it keeps | Operations | Hard behaviour | What makes it correct | Module |
| --- | --- | --- | --- | --- | --- |
| Numbering (`apps/config/numbering.py`) | scheme versions, counters, reservations | `allocate`, `reserve`, `activate`, `new_version`, `preview` | counter rows locked across a whole request, roll-backs, deadlocks, stale scheme objects | unique numbers, no holes in GAP_FREE series, used versions frozen | `Numbering`, `NumberRegister` |
| Sessions (`apps/identity/services.py`, `api.py`) | refresh tokens, account row | `login`, `refresh`, `logout`, `revoke_all_sessions`, `change_password`, `disable_user`, `PATCH /users` | several requests with one token, revocation racing rotation, full saves of stale objects | rotation is linear, an ended session stays ended, a disabled account starts nothing | `RefreshSessions`, `SessionChains` |
| Outbox (`platform/events.py`, `platform/tasks.py`) | jobs in the database | `emit`, `run_handler` | at-least-once execution, job retries, dead workers | an event is handled with its business write or not at all | `Notifications` |
| Deliveries (`apps/notify/dispatch.py`) | `notification_delivery` rows | `process_rule`, `deliver`, `fallback`, `retry` | two workers on one delivery, lost provider answers, two counters of attempts | settled once, SENT only if accepted, never left without a job | `Notifications`, `Promise` |
| Optimistic locking (`platform/db/models.py`) | `row_version` of every row | `save`, `soft_delete` | `queryset.update` and models without a version escape it | no lost update | all that save |
| Workflow engine (`apps/config/workflows.py`, `guards_effects.py`, `defaults/workflows.py`) | states, transitions, versions | `activate`, `perform`, `simulate` | guards on stale records, effects that fail after the state is saved | state, audit event, number and jobs move together; a review is by another | `Workflow`, `SerialWorkflow`, `DefaultWorkflows` |
| Configuration (`apps/config/api.py`, `services.py`) | versions, coded entries, prices, terms | create, version, activate, edit, retire, import | a conflict answered inside the transaction that has already written | no save lost, none unannounced, nothing in force without a successor | `Config` |
| Issuance and keys (`apps/documents/issuance.py`, `keys.py`) | registry rows, PDFs, keys | `issue_document`, `supersede`, `revoke`, `rotate` | object store writes before commit, first keys created twice | a registry row has its PDF; statuses only move forward; what begins later never signs with an older key | `Documents` |
| Transparency log (`apps/documents/transparency.py`) | leaves, signed heads | `append_leaf`, `publish_head` | appends under an advisory lock, publication without it | dense indexes, every head signs a prefix | `Documents`, `TransparencyLog` |
| Database schema (`*/migrations`, `platform/db/rls.py`) | tables, keys, policies | migrate, undo | an order that the dependencies allow and the tables do not, a table left out of the policies | no migration fails, tenants neither see nor collide with one another | `Schema` |
| Scheduler and digests (`platform/scheduler.py`, `apps/notify/digest.py`) | last start per job, digest deliveries | `tick`, `run_digests` | crash between start and work, overlapping runs, nested tenant scopes | a digest once per stamp, none missed in its window | `Digests` |
| Idempotency (`platform/api/idempotency.py`) | stored responses | `idempotent` | concurrent duplicates, expiry under a look-up | a key's view commits once | `Idempotency` |
| Permissions (`platform/authz`, `apps/identity/authz.py`, `roles.py`) | roles, memberships | `resolve_permissions`, `authorize`, `scope` | clauses of several grants combined in one query | no row beyond the grants, no grant lost | `Access`, `DefaultRoles` |
| Formula engine (`platform/formula`) | none | parse, evaluate, apply rules | exclusion and recomputation, precedence | exclusions are justified, an unblocked result is sound, the tree is the text's | `TestRun`, `FormulaParser` |
| Verification, throttling, JWT, audit, organisation, API plumbing, stream, front end | - | - | - | pure code, CRUD, counters or best effort | section 5 |

How they interact: a request writes business rows, an audit event and a Procrastinate job
in one transaction (`emit`). A worker takes the job and runs the handler under the event's
tenant; the notification handler plans deliveries and defers one job per delivery; the job
of a delivery sends a message between transactions of its own. Workflow transitions call
`allocate_number` inside the request's transaction (`Workflow` has the record's side of
that, `Numbering` the counter's). Issuing a document appends a leaf to the log in the
transaction of the registry row. Everything else shares state only through PostgreSQL.

## 2. The modules

| Module | What it models |
| --- | --- |
| `NumberRegister` | what number allocation promises (abstract) |
| `Numbering` | numbering schemes, statement by statement |
| `SessionChains` | what the refresh tokens of a user promise (abstract) |
| `RefreshSessions` | the tokens and the account row of one user |
| `Promise` | what the notification pipeline promises (abstract) |
| `Notifications` | outbox, dispatch, delivery, fallback, retry, and workers that die |
| `TransparencyLog` | what the log of issued documents promises (abstract) |
| `Documents` | issuance, correction, revocation, log, heads and keys of one branch |
| `DefaultWorkflows` | the default workflow of every kind of record, and the engine's pure parts |
| `SerialWorkflow` | what the workflow engine promises of one record (abstract) |
| `Workflow` | concurrent requests that move one record along its workflow |
| `Config` | the administration of one section of the configuration |
| `Schema` | tables, policies and the order of the migrations |
| `Digests` | the periodic scheduler and the digests it runs |
| `Idempotency` | requests with Idempotency-Keys |
| `DefaultRoles`, `Access` | the default roles, the grants of a user and the filter of rows |
| `TestRun` | the evaluation of the default test definitions with their rules |
| `FormulaParser` | the parser against trees written out by the grammar |
| `MC...` | instances for TLC; `MCPlatform` runs, one after the other, the parts that share no state |
| `...Proofs` | theorems about `Numbering`, `RefreshSessions`, `Notifications`, `Documents`, `Workflow`, `Config` and `Idempotency`; `PlatformProofs` about `Access`, `Digests` and `TestRun` |

### Numbering and NumberRegister

A request (`Allocator`, `Activator`, `Reserver`) is a transaction; `pc` is its next
statement. `base` is the committed value of each counter row and `value` the value its lock
holder sees, so that `INSERT ... ON CONFLICT DO UPDATE ... RETURNING` is one step
(`Increment`) that waits while another request holds the row, and `RollBack` puts `value`
back. A formatted number is the triple of pattern, date shown and sequence: two numbers are
equal exactly when these are. `LoadScheme` is `active_scheme()` called by the
`allocate_number` effect, `ReadReserved`, `SkipReserved`, `TakeNumber` and `MarkImmutable`
are `allocate()`, `CommitAllocation` is the end of the transition's transaction. An
activation is `LoadVersion` (the API loads the version), `ScanActive` and `RetireOthers`
(the snapshot and the row locks of one UPDATE), `SaveActive` (the save with its
`row_version`), `CommitActivation`; `StaleVersion` is the refusal `ConcurrentUpdate`.
`RollBack` may happen at any statement, for whatever reason.

`NumberRegister` is what a reader of committed rows sees: `HandOut` raises the counters of one
request at once and puts under each value passed exactly one number, or none if its number is
reserved; `Reserve` adds reservations. `HandedOutInOrder` says that every step of `Numbering`
is one of these or a stutter, under the identity mapping of `base`, `issued` and
`reservations`: drawing, locking and rolling back are invisible.

### RefreshSessions and SessionChains

One account, its committed row, its tokens. `refresh()` is `ReadToken` (own transaction),
then `Claim` and `CommitRefresh`, or `LoseClaim` and a revocation that `RefuseLoser` rolls
back. An UPDATE that revokes tokens is three kinds of steps: its snapshot (`ScanTokens`),
one `LockToken` per row in any order, and the commit. `login`, `disable_user`,
`change_password` and `PATCH /users` read the account (`ReadCredentials`, `ReadAccount`),
lock its row (`SaveAccount`) and commit what they save: one column, some columns (`Saved`),
or the whole object (`CommitPatch`). A process that dies is a `RollBack`.

`SessionChains` knows the tokens issued, those a refresh would accept and the session of each:
`Open`, `Swap` and `Close`. `SessionsAreSerial` says that every step of every request is one of
these or a stutter, under `usable = Live`. So no interleaving forks a session or revives a
token. The status of the account is not part of it: `NothingForDisabled` is about that.

### Notifications and Promise

`Notifications` follows one event, one rule and one recipient. A delivery is named by the
channels tried to get to it, so the name of a fallback or of an operator's retry is its
history; its row has a status, the attempts counted and the `row_version`. A job has its
delivery's name and the runs it has had; `Enqueue` has the queueing lock, which covers
waiting jobs only. `deliver()` is `ReadDelivery` and `SaveAttempt` (one transaction),
`Sent` or `SendFails` (a provider may accept a message and still fail to say so),
`RecordSent`, `RecordError`, or the transaction `RecordFailure` ... `CommitFailure` that
reads the channels used and creates the fallback; `Conflict` is `ConcurrentUpdate`.
`Crash` leaves the job marked as running and `Rescue` puts it back: an operator of the queue
may, but nothing in the repository does, which starts workers only (`entrypoint.sh`). Both,
with `TakeJob` and the outcome of a raised exception, model Procrastinate from how the code
uses it.

`Promise` knows only the outcome of each delivery: the rule's deliveries appear together,
each is settled once, another channel is tried exactly when one has failed. The property
`PromiseKept` says that every step of `Notifications` is a step of `Promise` or a stutter,
under the refinement mapping `outcome[d] = rows[d].status`.

### Documents and TransparencyLog

A request is one transaction; `pc` is its next statement and `tx` what it has read. Issuing
is `BeginIssue` (`ensure_branch_keys`, which creates a first key, and the load of the
document to be corrected), `StoreOriginal` (the sealed PDF goes to the object store, which
no roll-back undoes), `AppendLeaf` (the advisory lock, held to the end, and the index read
under it) and `CommitIssue` (row, leaf, status of the corrected document, key and
`document.rendered` job appear together, if the unique constraint and the `row_version`
admit it). `LoadDocument` and `Revoke` are `revoke()`; `ReadRoot` and `PublishHead` are
`publish_head()`, which takes no lock; `BeginRotation` and `CommitRotation` are `rotate()`.
`RollBack` may end any of them at any statement. A head is the sequence of the documents it
covers: hashes are collision free. Keys are numbered in the order of their `valid_from`, the
time at which they are created, whenever they are committed. `signedWith` is the key of a
registry row (`qr_key`). An issue takes its key when it begins and may be committed after a
rotation, signed with the key that has just been retired, which stays valid for verification
for 90 days: so `KeysNeverGoBack` is about what begins after a document has been registered or
a key retired. That must not sign with an older one.

`TransparencyLog` knows only the sequence of documents and what each head covers. The
property `LogIsAppendOnly` is its specification, under the identity mapping of `log` and
`heads`.

### DefaultWorkflows, Workflow and SerialWorkflow

`DefaultWorkflows` holds the seventeen default workflows as data, transition by transition
with their guards and effects, `Valid` (`validate_workflow`) and `Available`
(`available_transitions`). `Workflow` moves one record along one of them: `Load` is the
handler that loads the record, `Perform` is `perform()` to its guards, all about the record
as loaded, `Save` the save under `row_version` and the audit event, `RunEffects` the effects
in their order, `Commit` the end of the transaction. The engine's own guards
(`reason_required`, `actor_is_not_entrant`) and effects (`allocate_number`, `emit`) do what
they do; the others, which the business apps register and which are not in the repository,
hold or fail freely. Three named assumptions about the defaults, which TLC evaluates, say
that they are valid, that reviews are guarded, and that a transition that issues a document
of a numbered record allocates the number first.

`SerialWorkflow` has no requests, versions, locks or roll-backs: `Move` takes a record by one
whole transition, allowed for the record and actor as they then are, with its number, its audit
event and its outbox jobs. `MovesAreSerial` says that `Workflow` implements it, under the
mapping that forgets the `row_version` of the record. Permissions of users and the guards of
the business apps are free in both; that a SYSTEM transition is the system's own is not.

### Config

One section of the configuration, chosen at the start: the versions of a workflow, a test
definition or a document template, the payment terms of a branch, the rows of a price list,
or one coded entry. Each handler of `apps/config/api.py` and of the templates in
`apps/documents/api.py` is an action up to its first write; what follows is shared as the
code shares it: `Insert`, the UPDATE that retires what is in force (`Scan` its snapshot,
`Clear` one row at a time, once its lock is free), `Save`, `Replace`, `Import`. The ends of a
request differ: `Commit` with its audit events (one for an import, which saves a row as often
as the file lists it), `Conflict`, which answers inside the
transaction and keeps what was written outside an atomic block, `Refuse`
(`set_rollback`), `CheckTemplate`, and `RollBack`.

### Schema, Digests, Idempotency

`Schema` lists every table of the migrations with its tenant column, unique keys and foreign
keys, every policy, and every dependency between migrations. `Migrate` runs any migration
whose dependencies are applied, and fails when PostgreSQL would refuse it; `Undo` takes one
back that nothing needs.

`Digests` counts time in minutes, or in ticks of five; how often the job runs (`Every`), its
`Window` and the minutes at which a cron matches (`FireAt`, any at all) are constants, as is
the set of tenants that are active: a tenant created or suspended between two runs is not
covered. `FirstMatch` is `matches_window()`, which returns the first minute of the window only.
A cron that fires several times within 15 minutes therefore has one minute of each window
served; a minute is found once the window has lost the minute before it, so for minutes five
apart there are five for the run that serves it, as many as between two runs. One that fails or
comes late can leave a minute out for good.
`DigestWithinWindow` says exactly which minute a committed run must have served: the one in its
window whose earlier minutes are no longer there. `Tick` marks the job as started in a
transaction of its own, `Pass` is the digests of one tenant (the existence query,
`get_or_create` that waits for a run that has written the same key), `Finish` commits,
`Fail` is an exception or a crash. `VisibleTenants` is the bypass of `platform_scope()` that
stays on inside the `tenant_scope()` of each pass.

`Idempotency` has a step per statement of the decorator: `Purge`, `Lookup` (with `Replay`),
`RunView` or `Refuse`, `Store` under the unique key, `Commit`. `Expire` is the 24 hours that
pass at any time.

### DefaultRoles and Access

`DefaultRoles` is the permission catalogue and the default roles as data. In `Access`
memberships come and go and roles retire; `Bindings` is `resolve_permissions`, `Allows` the
guard of an operation, `Clauses` and `Visible` the filter. A Django Q object is its rows and
whether it is the empty one, which `|` and `&` both drop: that is what makes
`BranchesAreTheUnion` fail.

### TestRun and FormulaParser

`TestRun` evaluates a run of the default test definitions, rows of small integers: compute,
aggregate, and the rules in their order, with exclusion, recomputation, the limit of passes,
missing values and errors of formulas. Rounding is `round_half_up`, half away from zero. Its
inputs are natural numbers (`RunRow`): each number field of the default definitions has a
`min` of 0 (`defaults/test_definitions.py:97`). The engine itself does not look at `min`, so
what is said of percentages rests on the inputs respecting it.

`FormulaParser` translates the recursive descent level by level. Its trees grow by one
operator at a time (`Wrap`), are written out with the fewest parentheses the grammar allows
and parsed again. It has RECURSIVE operators, so nothing is proved about it.

### MCPlatform

`Schema`, `Digests`, `Idempotency`, `Access`, `TestRun` and `FormulaParser` share no state.
`MCPlatform` chooses one of them at the beginning; that one alone takes steps. Its states
are the sum, not the product, of theirs.

## 3. The runs

| Run | Instance | Shows |
| --- | --- | --- |
| `numbering_alloc` | 1 yearly scheme, 2 years, 2 allocators of up to 2 numbers, 1 reserver | `UniqueNumbers`, `GapFree`, `AllocatedIsFrozen`, `HandedOutInOrder`, `RequestsEnd` |
| `numbering_versions` | 3 versions, branch and department series, 1 allocator, 3 activators | `AllocatedIsFrozen`, `SeriesStaysNumbered` |
| `sessions` | 3 tokens, 2 requests | `LinearChain`, `EndedStaysEnded`, `NothingForDisabled`, `SessionsAreSerial` |
| `sessions_live` | 2 tokens, 2 requests, fairness | `RequestsEnd` |
| `notifications` | 2 rule channels and e-mail behind them, 2 workers, 2 attempts, 1 fault | `PromiseKept`, `SentWasAccepted`, `PendingHasJob` |
| `notifications_live` | 1 rule channel, 1 fallback, 2 workers, 1 fault, 1 operator retry, fairness | `EveryDeliverySettles` |
| `documents` | 3 documents, 2 requests, 3 keys, 2 heads | `IssuedTogether`, `NoIndexConflict`, `LogIsAppendOnly`, `StatusMovesForward`, `KeysNeverGoBack` |
| `workflow` | 5 kinds of record, 2 users and the system, 2 requests, 3 moves (5 for test runs) | `TrailIsThePath`, `ReviewedByAnother`, `NumberedOnce`, `JobsMatchTrail`, `MovesAreSerial` |
| `config` | every section, 3 rows, 2 requests, 3 saves of a row | `AnnouncedOnce`, `SeriesStaysInForce` |
| `platform` | see below | `NoMigrationFails`, `TenantRowsIsolated`, `KeysStayInTenant`, `DigestOnce`, `DigestWithinWindow`, `CreatedOnce`, `NothingBeyondGrants`, `ExclusionsAreJustified`, `TrustedIsSound`, `ParserFindsTheTree` |
| `sessions_reuse` | 3 tokens, 2 requests | counterexample to `ReuseRevokesSession` |
| `branches_union` | as `platform`, memberships only | counterexample to `BranchesAreTheUnion` |

`notifications` and `documents` check `TypeOK` as well. That of numbering, of sessions, of the
workflow and of the configuration is proved (the last as part of its invariant), for every
instance, and not run again. `MovesAreSerial`, `HandedOutInOrder`, `SessionsAreSerial`,
`PromiseKept` and `LogIsAppendOnly` are abstract specifications, checked as properties.

Bounds and why they are enough. Two requests are what a race on one row needs, and two counter
rows (two years) what a deadlock needs: each allocator draws from both. Three activators let
two of them race while a third makes a loaded version stale. In `numbering_alloc` two requests
mark one version immutable at once, each with a counter row of its own (two years); in
`numbering_versions` a version is retired while it gives a number out. `UsedVersionsAreFrozen`
is the theorem for both at once. Three tokens let a login be rotated while a second session, or
a second rotation, is under way. With two attempts a delivery has a first attempt, a retry and
a last attempt. `MaxTries` is the runs a job is granted: the code gives Procrastinate
`max_attempts=MAX_ATTEMPTS`, which are retries after the first run, so the job has one run more
than the delivery has attempts. `notifications_live` keeps exactly that margin (2 attempts, 3
runs) with one fault: one failed roll-over is absorbed, and so is one crash if the job is put
back. If it is not, the delivery stays PENDING, the exception that `EveryDeliverySettles`
makes. Two faults on one delivery are not absorbed, and it stays PENDING without a job;
`notifications` leaves the margin out (`MaxTries = 2`) and shows that without faults none is
needed.

`documents`: three documents are a correction of a correction, or two corrections of one
document; three keys a first key created twice and a rotation; two heads one to be covered
by the other. `workflow`: the five kinds include each with a review, a number, a document or
an action of the system, and five moves take a test run to its review, back and to review
again. `config`: three rows are a version in force and two that race to succeed it.

`platform`: all migrations, in every order of applying and undoing them. Two tenants and two
schedulers over six ticks of five minutes, with digests due at the first, the second and the
fifth: two that are in one window of three ticks and one that follows. A run may come late,
fail twice, or overlap another, within the window and beyond it. Three requests, two keys, two
bodies: two that race and one that follows or expires the key. Two memberships at a time, since
a third adds nothing that a pair does not, of four roles that between them have every scope but
those of the hands (`ASSIGNED_TO_ME`), department and account, which come with `TECHNICIAN` and
`CLIENT_USER`. Test runs of up to four specimens, three sieves or two portions, with missing
and failed values and loads on both sides of the threshold of exclusion. Every tree of three
operators at most, which is what it takes for an operand of an operand to need its parentheses.

Deadlock checking is on everywhere: `Finished`, `Quiet`, `NoMore`, `Rest`, `Done`, `Again`
and `List` are the stuttering steps of models whose requests or jobs have all ended.

Fairness. A request that has begun runs on (nothing makes one begin), and PostgreSQL's
deadlock detector ends a cycle of waiting requests: weak fairness of each request's next
statement and of `DeadlockVictim`. `RefreshSessions` reuses its requests for ever, so there
a request takes its next statement under strong fairness: PostgreSQL queues the waiters of a
row, so no stream of later requests overtakes one. Workers poll the queue and run what they
take (weak fairness of `Work`). No fairness makes a stalled job be put back, a provider answer,
an operator retry or a business transaction commit.

The new modules `Documents`, `Workflow`, `Config` and those of `platform` state safety only:
a request that dies is rolled back, and nothing makes a client try again.

### Where the code and its text disagree

Two runs of the list:

* `sessions_reuse`: a refresh that loses a race revokes the session and then raises inside
  the same `transaction.atomic()`: the revocation is rolled back.
* `branches_union`: permissions are said to be the union of the grants of all memberships.
  `predicate()` combines their clauses with `|`, which drops the empty `Q()` of a grant of
  every branch: a tenant administrator who has a second membership, as branch manager of one
  branch, is listed that branch only, fewer than with the first membership alone.

Seven more properties are in the modules with a configuration that shows their violation
(`tlc -config <cfg> <module>`), outside the list of runs:

* `MCNumberingReserved.cfg` (`MCNumbering`, `ReservedAreSkipped`): `allocate()` promises that
  reserved numbers are skipped, but reads them before it waits for the counter row.
  Reserving numbers while requests allocate gives a reserved number out.
* `MCVersionsOneActive.cfg` (`MCVersions`, `OneActiveVersion`): two concurrent activations of
  two drafts each retire what they see active, and both become active. `active_scheme()`
  then takes the highest version, so numbering goes on, with the version an administrator
  may not have meant. `workflows.activate`, `services.activate_definition`,
  `approve_template` and the default payment terms have the same statements.
* `MCRefreshSessionsLogout.cfg` (`LogoutEndsSession`): an UPDATE does not see rows inserted
  after its snapshot. The token a refresh in flight inserts survives the logout it raced
  with (and likewise a change of password).
* `MCRefreshSessionsPatch.cfg` (`PatchOnlySetsItsFields`): `PATCH /users` saves the whole
  object and `User` has no `row_version`: a concurrent disable or change of password is
  undone.
* `MCNotificationsTwice.cfg` (`ChannelUsedOnce`): two channels of a rule that fail at the same
  moment both fall back to the same channel; the recipient gets the message twice.
* `MCConfigTemplates.cfg` (`MCConfig`, `BrokenNeverApproved`): a new version of a template is
  saved before it is checked, the answer to a failed check does not undo it, and approval
  checks nothing.
* `MCPlatformDigests.cfg` (`MCPlatform`, `DigestStaysInTenant`): the periodic job runs the
  digests of each tenant in a `tenant_scope()` inside a `platform_scope()`, whose bypass
  stays on: the first tenant's pass writes the digests of all tenants' rules, as its own.
  `DigestOnce` holds all the same, because the passes that follow find them.

Also noticed, without a property: `validate_scheme` accepts a yearly or monthly reset whose
pattern shows no year or month, and then the same number is issued every period
(`UniqueNumbers` states the assumption); a new version of a scheme starts its counter at 1;
the throttle of `process_rule` counts committed rows, so concurrent events of one rule and
recipient pass it together; the counter of unknown verification tokens is read and written
in two cache calls and may skip the value at which it raises its alert; two concurrent
`replace_grants` of one role may leave the grants of both; `publish_head` marks as published
every leaf committed by then, under the head or not.

## 4. The proofs

| Module | Theorems |
| --- | --- |
| `NumberingProofs` | `NumberingTypeOK`, `NumbersAreUnique`, `NumbersAreGapFree`, `UsedVersionsAreFrozen`, `SeriesKeepAnActiveVersion`, `NumbersAreHandedOutInOrder` |
| `RefreshSessionsProofs` | `SessionsTypeOK`, `SessionsAreChains`, `EndedSessionsStayEnded`, `DisabledGetsNothingNew`, `RequestsKeepSessions` |
| `NotificationsProofs` | `TypeCorrect`, `NothingSentUnaccepted`, `NoDeliveryIsLeftBehind`, `PipelineKeepsPromise` |
| `DocumentsProofs` | `TypeCorrect`, `IssuedAsAWhole`, `IndexesAreDense`, `LogImplementsPromise`, `StatusesMoveForward`, `KeysOnlyGetYounger` |
| `WorkflowProofs` | `WorkflowTypeOK`, `TrailsJoinUp`, `ReviewsAreByOthers`, `RecordsAreNumberedOnce`, `EventsFollowTheTrail`, `RequestsAreSerial` |
| `ConfigProofs` | `SavesAreAnnouncedOnce`, `SeriesInForceStays` |
| `IdempotencyProofs` | `RowsAreCreatedOnce` |
| `PlatformProofs` | about `Access`: `GrantsAreNeverMixed`; about `Digests`: `DigestsAreWrittenOnce`, `DigestsAreNotMissed`; about `TestRun`: `OnlyOutliersAreExcluded`, `SignedResultsAreSound` |

Each states a property of a run for every value of the constants that satisfies the named
assumptions. All but `GrantsAreNeverMixed` rest on an inductive invariant (`IInv`; `RunInv` for
test runs) that adds to the property what a request holds between its statements.

`NumberingProofs` proves, for every set of schemes, series, dates and requests satisfying
`ConstantAssumption`, that `Spec` implies `[]TypeOK`, `[]UniqueNumbers`, `[]GapFree`,
`[]AllocatedIsFrozen`, the action property `SeriesStaysNumbered` and the refinement
`HandedOutInOrder`. The properties are not
inductive: nothing in `UniqueNumbers` says that a drawn value is not drawn again. `IInv` adds
what a request holds between its statements:

* `LockInv`, `TakenInv`: a counter differs from its committed value only while an allocator
  holds its row; the values a request has drawn lie above the committed value and are locked by
  it. So two requests never hold values of one row.
* `IssuedInv`, `DistinctInv`, `FormatInv`: issued values lie at or below the committed value,
  one allocation per row and value, the number is the format of its row and value. Together they
  give `UniqueNumbers`.
* `SeenInv`, `CoverInv`: every value up to the counter belongs to an allocation or was skipped
  because it is reserved. A roll-back gives back exactly the values above the committed one, so
  `GapFree` holds of the rest.
* `FrozenInv`: a request that marks a version immutable holds its row or finds it marked.
* `RetiringInv`: an activation retires versions of its own series only, and activates one in the
  same commit.

For the refinement, `OwnInv` adds that the numbers a request has taken carry its name.
`CommitHandsOut` is the one step that is neither a stutter nor a reservation: the committed
values of the counters go up to those of the rows the request locks, and `CoverInv` gives each
value passed its number or its reservation, `DistinctInv` no more than one.

`RefreshSessionsProofs` proves `[]TypeOK`, `[]LinearChain` and `EndedStaysEnded` for any number
of requests, tokens and passwords. The strengthening says that a token claimed is live and its
row locked by the claimant (`ClaimInv`, `LockInv`), that a token about to be inserted belongs to
one request (`NewInv`), and that a session is named after a token of the table (`SessionInv`):
so a commit replaces the live token of its session by one other, and a session without a live
token has none to claim. `NothingForDisabled` is about the tokens that a request will insert:
`DecidedStep` says that no step of a request whose account is not active adds to those decided
upon, and that what is inserted was decided before. `SessionsAreSerial` is a refinement of
`SessionChains`, action by action (`ChainsStep`), from the same invariant: a commit of a refresh
is a `Swap` because its token is still live and its new one is nobody else's.

`NotificationsProofs`. `Knows` says what a worker knows of the delivery it runs from the
statements behind it: what it has read is at most as young as the row, and if the row has the
`row_version` it read, nothing has happened to the delivery since, in particular it is PENDING.
`LockInv` gives a row that is being settled to the worker that holds its lock. So a save that is
not refused settles a PENDING delivery, and only after the provider has accepted it.
`PlannedInv` and `SkippedInv` say that the rows of a rule come at once and which.
`PendingHasJob` needs a second invariant, `JobInv`, of the runs without a fault: it follows each
pending delivery to the one place where its job is, in the queue or with one worker (`OnePlace`,
`KeptInv`), and ties the runs the job has had to the attempts the row counts, statement by
statement (`WaitingInv`, `CountsInv`). An attempt that fails leaves `runs < MaxAttempts`, so the
job has a run left as `MaxAttempts <= MaxTries`. With a fault the two counters part and the
property fails: the theorem is about what the handlers do by themselves, provider errors, lost
answers and operators' retries included. `PipelineKeepsPromise` is the refinement: `Init` maps
to `Promise`'s, and each action to `Plan`, `Send`, `Fail`, `Retry` or a stutter under
`outcome[d] = rows[d].status`.

`DocumentsProofs`. `PhaseInv` and `IssuingInv` say that the document a request issues is its
own, not registered, and stored from `AppendLeaf` on; `LockInv` that a request about to commit
holds the log's lock, so that its index is still the next one; `KeyInv` that the key of a
rotation is younger than the one it replaces; `SignatureInv` that every retired key is older
than some ACTIVE one, and that the key of a document, or of an issue under way that found its
key, is as old as some ACTIVE one or older; `SuccessorInv` that only a document that is not
CURRENT has a successor. The log implements `TransparencyLog` step by step: a leaf is new
because the registry and the leaves are the same set.

`WorkflowProofs`. `LoadedInv`: a loaded record with the committed `row_version` is the committed
record. `SavedInv`: one that has been saved is locked by its request, and the transition chosen
for it leaves the committed state. So each commit lengthens the trail at its end. `NumberInv`
adds the number: who holds the lock has the record's number, or the first one if there is none.
`JobsInv` says that the jobs are what a function that accumulates the events of each step of the
trail gives at its end, and that a request about to commit holds the events of its transition;
there is one such function (`OneAccumulation`), by induction over the length of the trail, done
as the least element of a set of numbers (`SetInduction`). `MoveInv` is what makes a commit a
`Move` of `SerialWorkflow`: the transition of a request that has saved is allowed for the
committed record, and one about to commit holds the number to be drawn (its events are in
`JobsInv`). `StepsAreSerial` is the refinement. That reviews are guarded, and that
numbers precede documents, are facts about the default workflows, named assumptions that TLC
evaluates.

`ConfigProofs`. `HeldInv`: no two requests hold a row. `OwnInv`: the row a request has written
is one `row_version` ahead of the committed one if `save()` wrote it, level with it if an
UPDATE of a set did, and then no longer in force; so no commit overwrites a save it has not
seen, and each announces the rows it saved. (An import may be several ahead, a row listed
several times; what it saved it announces by one event, so for prices the property is a bound.)
`CopyInv` says what the row as loaded still tells of the committed one, and `CommitInv` what a
request leaves behind: an activation an active version, a change of the default a default.
`SeriesStaysInForce` follows from these, action by action; which handlers a section has, and
which statements a handler (`StepInv`), is part of the invariant, because only together do they
show that nothing else takes a row out of force.

`PlatformProofs`, `Digests`. `WrittenOnce` is `DigestOnce` of everything written, committed or
not; `DoneInv` that a run has, or finds, the digests of the tenants it has done. Nothing is
assumed of the cron: a minute in the window whose predecessors have left it is the first match.

`IdempotencyProofs`. `PurgedInv`: an expired key is being deleted by one request at most.
`CommitInv`: a key about to be stored is not there, and no other request is about to store it.
`RowInv` and `StoredInv`: a key tells of the row that was created under it within its time;
`AnswerInv`: so do the answers given.

`PlatformProofs`, `Access`. No invariant is needed: `NothingBeyondGrants` is a fact about every
set of memberships. Lemmas say what each clause lets through and what `&` and `|` make of that.

`PlatformProofs`, `TestRun`. `MeanInv`: the mean is up to date whenever a rule is about to be
applied. `CountInv`: a rule that excludes is the first and counts its passes. `JustifiedInv` is
the property together with the fact that something is left, which holds because the mean of one
specimen is its own strength, so that a sole specimen is never an outlier; and the one outlier
is what `argmin` finds, since the others are nearer the mean. `RulesInv`: as long as nothing is
excluded or blocked, the rules applied so far have found nothing. For sieves this says that each
mass is at most the next, from which the percentages rise by a least counterexample and the
monotonicity of rounding. The lemmas below them say that the sum of a finite set of results is
an integer, and what `round_half_up` preserves.

Assumptions: the named assumptions on the constants, which TLC evaluates in every run, and
nothing else. The proofs are about the specifications without fairness. Beside sets that do not
overlap and numbers that are numbers, the assumptions are: the facts about the default workflows
(valid, reviews guarded, documents numbered, `EventsAreNames`), that a job has at least as many
runs as its delivery has attempts (`EnoughRuns`: both come from `MAX_ATTEMPTS`), that the rows
of a model have the same fields (`AccessAssumption`), and that a test run is a sequence of
rows of at most one input that is no less than the fields' `min` (`IsRunData`).

Only model-checked:

* `RequestsEnd`, `EveryDeliverySettles` and deadlock freedom: liveness and ENABLED are out of
  the proof system's reach.
* `NoMigrationFails`, `TenantRowsIsolated` and `KeysStayInTenant`: `Schema` has no constants,
  its run is exhaustive and a proof would add nothing.
* `ParserFindsTheTree`: `FormulaParser` has RECURSIVE operators, which the proof system cannot
  use.

## 5. What is not modelled

* Formatting, parsing and encodings (numbers, JWTs, QR payloads, tokens, cron fields), PDF
  rendering and sealing, calls to providers: their outcomes are inputs of the models.
* Of notifications: quiet hours only delay a job, and are covered by jobs that start late.
  Throttling, several recipients, `send_direct` and the synchronous handlers of `emit` are
  left out, as are channels, templates and the search for recipients.
* Of documents: the `published_at` mark of leaves, the Merkle proofs (data are hashes only),
  renditions, print profiles, fraud cases, and verification, which reads the registry and
  keeps a counter.
* Of workflows: the guards and effects that the business apps are to register. The repository
  has their names only, so they hold or fail freely.
* Of configuration: the contents of rows, and prices, taxes and due dates worked out from
  them, which write nothing.
* Of the schema: column types, indexes and check constraints.
* Of permissions: field groups, API keys, and the editing of a role's grants.
* Of formulas: functions that the default test definitions do not use, and the limits on
  size and time.
* The access token, valid until it expires whatever happens to the session.
* Audit trail (append only, by a trigger), organisation, API plumbing, the event stream, the
  command line and the front end: CRUD or best effort, without a hard invariant of their own.

## 6. Plan

Everything the first plan named is done, except the Merkle proofs, the nesting of scopes as
a machine of its own (`Digests` has the one nesting that the code has), and the counters of
throttling and verification. What would add most next:

1. `Throttle` and `Verification`: the two counters against their limits.
2. `MerkleProofs`: `inclusion_proof` and `verify_inclusion` against the definition of the tree.
3. The parser with recursive functions instead of operators, so that facts about it that need
   no induction over trees can be proved.
4. The business apps, once their guards and effects are in the repository.
