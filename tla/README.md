# A verification of MCP Ops Studio in TLA+

MCP Ops Studio lets a team write Functions, bind them to MCP tools, HTTP routes
and cron schedules of *runtime endpoints*, deploy them as immutable artifacts and
serve them. This directory models the parts of it where several processes, a
queue, a database and a clock have to agree, checks the models with TLC and
proves the results that matter most with TLAPS.

Paths are relative to the repository (`src/` in `PROJECT.json`).

## 1. The system

```
 operator ── UI ──> API (Fastify) ──tx──> PostgreSQL <──tx── worker (BullMQ consumer)
 MCP client ──────>     │                     ^                  │        │ HTTP
                        └── queue.add ──> Redis (jobs, locks) ───┘        v
 caller ──────────────────────────────────────────────────────> runtime ──> executor
                                                                            (process or
                                                                             container)
```

PostgreSQL is authoritative. Redis holds the BullMQ queues `deployments` and
`schedules`, the overlap locks of cron bindings, replay keys and caches. An API
process serves control-plane requests and the platform's own MCP server; every
worker replica runs a BullMQ consumer with several slots and a private runtime.

| Component | State | Operations | Hard because | Correct when |
|---|---|---|---|---|
| Deployment creation (`apps/api/src/routes-deployment-create.ts`, `development-deployment.ts`, `deployment-queue.ts`) | `ProjectDeployment`, `Deployment`, `ScheduleDeployment` rows; build jobs | compute versions, create rows in a transaction, then `queue.add` per artifact | reads and writes are separate steps; two stores; crash in between | unique versions, every accepted deployment gets its jobs |
| Artifact builds (`apps/worker/src/builder.ts`, `builder-persistence.ts`, `schedule-builder.ts`, `builder-validation.ts`) | artifact status and snapshot | read drafts, validate, bundle, store, finalize, fail | jobs are delivered at least once; drafts change between two reads | what is stored can run; nothing incomplete or failed is served; a deployment ends |
| Finalization (`apps/worker/src/project-deployment.ts`) | all of the above plus environment and endpoint pointers | readiness, failure, activation | several finalizers at once, failing or unacknowledged transactions | all or nothing, once |
| Release, rollback, enable/disable, archive (`routes-deployment-release.ts`, `routes-deployment-history.ts`, `api-operation-helpers.ts`, `routes-project-admin.ts`) | the same rows | read outside, write inside a transaction | stale reads against activations and each other | pointers name active deployments; a release copies what was live |
| Cron scheduler (`apps/worker/src/scheduler.ts`) | `ScheduledRun` rows, BullMQ job schedulers, Redis lock per binding | reconcile, claim, lock, invoke, record, sweep | leases, redelivery, worker and runtime death, stale reconciliations | one active run per binding, each at most once, every claim settled |
| Runtime invocation (`apps/runtime/src/invoke.ts`, `execution-repository.ts`) | `FunctionExecution` rows, heartbeat timers | begin, heartbeat, execute, nested calls, record, recover | recovery against a late answer, nested cancellation | one final outcome; an answer agrees with its record |
| Executors (`packages/sandbox/src/executor.ts`, `container-executor.ts`) | child process or container, files, pending capability calls | start, call, abort, grace, kill, clean up | timeout, cancellation, exit and a late container race | exactly one result; nothing left running |
| Runtime server and endpoint loading (`server.ts`, `endpoint-repository.ts`) | capacity slots; none | acquire and release; load, authenticate, route | releases, renames and rotations between two queries | never over the limit; what serves was in force |
| Authentication (`auth.ts`, `webhook-auth.ts`, `custom-auth.ts`) | replay keys in Redis | evaluate policies in order | replay at the boundary of the tolerance | a signed delivery is accepted once; it is not in the last second of its window, see section 11 |
| Drafts (`routes-functions.ts`, `routes-bindings.ts`, `routes-endpoint-auth.ts`, `routes-manifests.ts`, `reviewed-database-routes.ts`, `routes-cron-bindings.ts`, `platform-mcp*.ts`) | rows of Functions, libraries, bindings, policies, queries, cron bindings | create, patch, edit, order, delete, import | read, check and write are separate steps; two interfaces | histories without gaps, edits do not undo each other |
| Runtime capabilities (`collections.ts`, `storage-repository.ts`, `invocation-adapters.ts`, `reviewed-database.ts`, `network.ts`) | records, entries, connections, logs | create, replace, page, set, expire, query, fetch, prune | concurrent callers; expiry; failures half way | no lost update, complete pages, nothing left open |
| Users, sessions, setup, OAuth, platform MCP (`installation.ts`, `application.ts`, `routes-users.ts`, `oauth.ts`, `routes-oauth.ts`, `platform-mcp.ts`) | users, sessions, codes, tokens, selected Project | setup, login, role changes, consent, exchange, refresh, tools | two requests at once; authority that ends under way | one founder, credentials exchanged once, tools only for the entitled |
| Seed (`prisma/seed.ts`) | the demo Project | upserts, repeated | cut off anywhere, repeated over members' work | idempotent |
| Everything else (web console, views, formatting, plumbing, scripts) | - | - | - | - |

`PROJECT.json` lists every component with its status, and under `hazards` the
places in the code where an interleaving, a crash, a repetition or a stale value
can bite, with the properties that watch them; section 12 has those no property
covers.

## 2. Modules

| Modules | Abstract specification | Checked instance | Proofs |
|---|---|---|---|
| `ProjectDeployment` | `ActivationLedger` | `MCProjectDeployment` | `ProjectDeploymentProofs`, `ProjectArtifactProofs` |
| `CronScheduler` | `RunLedger` | `MCCronScheduler` | `CronSchedulerProofs` |
| `Invocation` | `ExecutionLedger` | `MCInvocation` | `InvocationProofs` |
| `Accounts` <- `PlatformAccess` <- `PlatformTools` | `CredentialLedger` | `MCPlatformAccess` | `PlatformAccessProofs` |
| `FunctionDrafts` <- `EndpointDrafts`, `QueryDrafts`, `ScheduleDrafts` <- `ProjectDrafts` | `VersionLedger` | `MCProjectDrafts` | `ProjectDraftsProofs` |
| `CapabilityCalls` <- `CollectionData`, `FunctionStorage`, `RuntimeLogs`, `Upstreams`, `Sandbox` <- `RuntimeCapabilities` | `RecordLedger` | `MCRuntimeCapabilities` | `RuntimeCapabilitiesProofs` |
| `ArtifactBuild`, `DevelopmentSeed`, `RuntimeGateway` <- `BuildAndServe` | - | `MCBuildAndServe` | `BuildAndServeProofs` |

An arrow points to the module that extends the others. Every `MC` module only
gives values to constants and names symmetries. `CHECK_DEADLOCK FALSE` everywhere:
when the bounds are used up and nobody asks for anything the system is at rest.
Mutants that need an operator of their own have it beside the definition they
change, marked as such.
## 3. Module ProjectDeployment

A Project deployment is `<<environment, version>>`, the unique key of its table;
its artifacts are *parts*: one per endpoint and one for the schedule. The content
of an artifact is the revision of the drafts it was built from (0 is the empty
snapshot of a new row). `child[p][x]` and `content[p][x]` are the `Deployment` or
`ScheduleDeployment` row of part `x`, `status`, `completed`, `source` and
`frozen` the `ProjectDeployment` row, `pointer` is
`Environment.activeProjectDeploymentId`, `epActive`/`epStatus` the
`RuntimeEndpoint` row, `job` BullMQ's record of a build job (waiting, active,
attempts made, stalls, lock owner), `worker` a slot of the consumer with a
program counter, `op` a control-plane request.

* *Requests* read in one action and write in another, as the handlers query
  outside their transaction: `DeployRead`/`DeployCommit`/`Enqueue`,
  `RollbackRead`/`RollbackCommit`, `ReleaseRead`/`ReleaseVersion`/`ReleaseCommit`,
  `EnableRead`/`EnableCommit`. Unique keys make the later of two requests abort.
* *Builds* are one action per database round trip. A build job may fail anywhere
  (`BuildFails`), finalization may throw before or after it committed
  (`FinalizeFails`), and the error path of an endpoint build differs from the
  schedule's.
* *Finalize* is the serializable transaction of `project-deployment.ts`, one
  action with its three outcomes.
* *BullMQ* (external): a job whose lock expired is delivered again, even while its
  first worker still runs it; only the owner settles a job; stalls and attempts
  are counted separately.

`ActivationLedger` is what users are promised: a deployment is pending until it
fails for good or is sealed with its content in the step that makes it live, and
an environment is only switched to sealed deployments. The refinement mapping
takes `fate` from `status` and `completed`, `sealed` from `frozen`, `live` from
`pointer`.

| Run | Shows | Bounds |
|---|---|---|
| `deployment_delivery` | `LiveIsFullyBuilt`, `OnlyActivatedServed`, the ledger | one deployment of an endpoint and a schedule, two workers, 2 attempts, 1 stall per job, 3 crashes or lost locks, all faults: each job may run twice at once, be retried and fail, the failure transaction included (2 384 080 states) |
| `deployment_requests` | `LiveIsActive`, `ArtifactsMatchLive`, `ReleasePromotesActivated`, `PointersAgree`, `AtomicActivation` | two operators, two versions in each environment, two endpoints, two revisions of the drafts; two shapes, see below (673 498 states) |
| `deployment_settles` | `DeploymentSettles` | two endpoints and a schedule, two workers, one crash or one lost lock (330 119 states) |
| `served_artifact` | a disagreement of code and document, see section 11 | the smallest instance |

`deployment_requests` has the state constraint `OneAtATime`, as all of its instance
together is too large: either requests of every kind but a release come one at a time
and the drafts stay as they are (`OneRequest`: the smallest shape where two activations
overlap a rollback, a disabling or an archival), or two requests overlap while one of the
endpoints is disabled throughout (`OneEndpoint`: deployments, releases and
rollbacks on stale readings, with edits between). What lies outside both shapes, two
overlapping requests over two endpoints, the theorems of section 10 cover. With the fault
`dbError` a build may also fail before its artifact is marked building (`builder.ts:36`), and
the transaction that records a failure may itself throw; with `lostAck` it may lose its
acknowledgement.

*Fairness.* Worker slots and accepted requests run on, BullMQ delivers waiting
jobs and takes back those of dead workers. No request has to be made, no fault
has to occur. The liveness run allows one crash or one lost lock, which is what the
code tolerates: `worker.ts` leaves BullMQ's `maxStalledCount` at its default of 1,
and a second stall of one job (the crash of the worker that holds it counts as
one) fails it without running its error path, so nobody finalizes its deployment.
API crashes are excluded: an API that dies between its transaction and
`queue.add` leaves the deployment queued for good. Two overlapping deployments
activate in the order in which their builds finish, so the older may win.

## 4. Module CronScheduler

Time is counted in units of 60 s, the misfire grace and the margin by which the
overlap lock and the stale cutoff exceed `CRON_INVOCATION_TIMEOUT_MS`, which is
`CronTimeout` units (61.5 in the code; one unit is enough to tell the ages
apart). `Tick` ages jobs, runs, locks and invocations. A prompt worker takes no
time between two waits (taking a job, waiting for the runtime); the fault `slow`
removes that assumption. An invocation never outlives `CronTimeout`, as the
runtime aborts a Function after `MAX_FUNCTION_TIMEOUT_MS`, 30 s earlier; but it
does go on when the worker that asked for it dies.

A run is `<<binding, schedule deployment, tick>>`, the unique key of
`ScheduledRun`; ticks of "Run now" are distinct. `row[d]` says whether the
`ScheduleDeployment` row is active, `live` which one its environment points at;
module ProjectDeployment shows how they change, and here `Activate` is the
effect. `worker` walks through `processScheduleJob`; `rec` through
`reconcileSchedulers`, which sweeps abandoned runs first, then reads the
artifacts, lists the job schedulers and applies the difference one call at a
time, so two passes can overtake each other.

`RunLedger` is the promise: a run is claimed once, executes at most once, alone
among the runs of its binding and only while open, and is closed only when over.

| Run | Shows | Bounds |
|---|---|---|
| `cron_overlap` | `OneActiveRun`, the ledger | a tick and a manual run of one binding, two workers, two faults of any kind: one worker may die holding the lock and the other lose its job (225 580 states) |
| `cron_settle` | `RunsSettle`, `SchedulersConverge` | a tick, two alternating deployments of which only one schedules the binding, two concurrent passes, one worker, one fault anywhere (116 144 states) |

`CronTimeout = 1` leaves every comparison of ages its three outcomes: below, at
and beyond the timeout, the lease and the cutoff.

*Fairness.* Time passes, the timer of every worker starts a pass a minute and a
pass runs to its end, slots run their steps and BullMQ delivers. No run
uses `slow`; the theorems say what it leaves: `RunsBeginOnce` holds with it, the
others assume its absence, because the overlap lock is a lease without
fencing, and a worker that pauses for more than its margin of a minute between
taking it and calling the runtime can let two invocations overlap. The documents
do not promise more.

## 5. Module Invocation

One runtime process. `Executions` are invocations, of a request or of another
Function; `lineage[e]` is the chain from `e` up to its request. `pc` is where
`RuntimeInvoker.invoke` waits, `outcome` its `executionStatus`; `row` and `stale`
are the `FunctionExecution` row, `aborted` and `linked` the invocation's
`AbortController` and the listener on its caller's signal, `exe`, `cancel` and
`inbox` the executor's promise, `cancellationResult` and the child's messages it
has not read yet, `holding` and `active` the capacity's `WeakSet` and counter.

* *invoke* is one action per await: `Begin` (the row), `Refuse` (permissions, schema,
  secrets), `Start`, `TakeResult` (output schema and mapping), `RecordSuccess`,
  `AuditSuccess`, and `RecordFailure` and `AuditDenial` for its `catch`. A statement
  is `Written`, or `Thrown`: it failed, or it committed and the acknowledgement is
  lost. Finishing unlinks the abort signal; a root's response frees its slot.
* *The executor*: the child sends calls and at most one end, the executor handles
  them in order; its timer, an abort event, the end of the grace period and the
  exit of the child settle it once. Listeners are registered in `Start`: a signal
  that fired before is not heard. `Provider` selects the two differences of the
  container: no `ctx.functions`, and an exit in the grace period is a timeout.
* *Aborts* run synchronously down the listeners: one action sets every `Reached`
  controller and cancels the executors that are up.
* *Heartbeats and the sweep*: `stale` is "no heartbeat for 90 s". A live
  invocation sends one every 15 s, so going stale while it lives is a fault. The
  sweep reads and writes in two steps and asks for `running` again when writing.

Time is not counted: every timer may fire at any moment, so neither time limits
nor deadlines are compared. Validation errors count as `error`. Cron and test
invocations take the same path without a slot; they are not enumerated apart.

`ExecutionLedger` is the promise: an execution is opened once, its outcome may
be revised while it is open, it is closed once and never changes afterwards.
It is stated per execution, because a crash and a sweep move several at once.

| Run | Shows | Bounds |
|---|---|---|
| `invocation` | `AnswerRecorded`, `SlotsExact`, `AbortReaches`, `SettlesOnce`, the ledger, `ExecutionsEnd` | two executions and one slot: a call inside a call, or a second request in the slot the first one left; one unread message; one fault of any kind anywhere |

One unread message is enough for a result to wait while the grace period ends;
one fault separates each step of `invoke` from its failure, and the proofs below
hold for any number.

*Fairness.* The event loop runs what is ready, the time limit and the grace period
end, heartbeats of dead invocations age and some replica sweeps. Function code
need not end, call or report anything: `ExecutionsEnd` says that it is ended.

## 6. Modules Accounts, PlatformAccess and PlatformTools

`Accounts` has users, signed cookies, first-run setup and Projects. A handler is
accepted by the preHandler hook (`Accept`), reads, and writes in a later step with the
session it was accepted with; the answer of `select` writes that session back.
`PlatformAccess` adds consent pages, authorization codes, grants and the Redis
sessions of the platform's MCP server. A refresh token is `<<grant, rotation>>`, as
every exchange writes the hash of its successor over the one in the row; clients
present any credential they were ever given, as often as they like. `PlatformTools`
adds tool calls: grant with its user, session and Project are read one after the
other (`ToolCall`, `SessionRead`, `ProjectRead`), then the tool checks scope and role
(`Ask`), changes (`Change`) and audits (`Audit`), which may be cut off in between.
A tool is its description: what it asks for and when it writes its audit row. All 57
tools that work in a selected Project are named, and `Kinds` are the different
descriptions among them. What a tool
changes belongs to the modules of sections 7 and 8.

`work[c].since` only records that something the call depends on (account, grant,
Project) has changed since the call began, so that `ToolsAnswerable` can tell calls that
were already under way.

`CredentialLedger` is the promise of the OAuth server: each credential is exchanged at
most once, for one successor, and never after it was revoked or ran out; only codes
come out of nothing.

| Run | Shows | Bounds |
|---|---|---|
| `platform_access` | `OneFounder`, `AuthorityChangeEndsSessions`, `RememberedUntilInactive`, `ToolsAnswerable`, the ledger | two users, Projects, browsers, codes, grants, MCP sessions and clients (424 601 states) |

A behaviour starts empty (4 browser requests: two overlapping setups), established (3
requests: two overlapping updates of users and a login), seeded (2 requests and 3 MCP
calls: consent, exchange, refresh), connected (1 request and 2 calls: a
revocation, role change or end of a Project against an initialize and a select) or
with tools (1 request and `MaxTools = 2` calls: a preview and a deployment, or
two calls of which one is overtaken). More steps from one start repeat these
overlaps. The theorems of section 10 hold for any numbers.

## 7. Drafts: ProjectDrafts and its parts

`FunctionDrafts` (Functions with their versions, libraries, Secrets, grants,
connections), `EndpointDrafts` (bindings, policies in their order, manifests,
templates), `QueryDrafts` (reviewed queries, versions, grants) and `ScheduleDrafts`
(cron bindings) are composed by `ProjectDrafts`. Where a handler's checks are repeated
by a unique or foreign key in its transaction it is one action; otherwise `...Read`
keeps what was read in `req[r]` and a second action writes, or fails (`...Fails`) when
a key, an expected version or checksum refuses it. The two interfaces, REST and
platform MCP, write differently and are told apart where they do: `PATCH` writes the
field it was given, `binding_edit` and both edits of cron bindings write every field
of the row they read.

A behaviour's requests belong to one of five areas that share rows: {functions,
secrets}, {libraries}, {bindings, policies}, {database, secrets}, {crons}.
`VersionLedger` is the promise of a numbered history: a version is never changed or
taken back and the next one takes the next number.

| Run | Shows | Bounds |
|---|---|---|
| `drafts` | `OnlyStaleMetadataUnversions`, `EditsMerge`, `TiesComeFromStaleRequests`, the ledger | two overlapping requests, four in all, one Function, library, query, connection and Secret, two codes, keys, policies and names: two writers can each read before the other writes, after a row was made and with one more request between them |

## 8. What a runtime gives a Function: RuntimeCapabilities and its parts

* `CollectionData`: definitions, grants and indexes of one collection, what the active
  deployment pins, and records under optimistic revisions. `Query` returns pages by
  cursor; `RowAfter` is the order of the SQL, `PastCursor` the condition the cursor
  compiles to, with its two treatments of absent fields. `scan[c].steady` records the
  rows that have kept their place.
* `FunctionStorage`: rows with an expiry and Redis entries, deletion of a prefix as a
  find and a delete by ids (an entry that has the key by then but another id stays), the purge of the cache as a scan and an unlink by name.
* `RuntimeLogs`: streaming, the final save of all events, the three prunings of one
  environment, and listing by cursor.
* `Upstreams`: a reviewed query from connect to audit, each step of which may fail,
  and an HTTP request with its redirects.
* `Sandbox`: one execution with its files, child or container, the messages between
  host and runner, cancellation and clean-up. The docker daemon is external: it
  handles requests in any order.

`RecordLedger` is the promise to those who share records: nobody replaces or removes
what it has not been shown, and what is removed stays removed.

| Run | Shows | Bounds |
|---|---|---|
| `runtime_capabilities` | `PagesComplete`, `EntriesAsAsked`, `UpstreamsAccounted`, `SandboxContained`, `RetentionKeepsNewest`, the ledger | two callers; a behaviour is about one subject (463 929 states) |

The subjects and their calls: definitions, grants and deployments with records (5),
replacing records (3), paging (2 beside the pages), storage (3, with or without an entry of an earlier invocation, so that one caller can delete and another create a key between the find and the delete of a third call), cache (3), logs (2
invocations), upstreams and sandbox (1). Pages of one record make every record a page
boundary; three ids order before, at and behind a cursor; ttls 0, none, and one that is
too long against a default of 1 and a maximum of 2 ticks; rows of one or five bytes
against a result of ten, whose row count is written with `Radix` 2, so that the second row needs a
digit more, give truncation by rows and by bytes; pruning by size reads one row at a time (`Batch`); one redirect is allowed,
the second URL is not admitted; two RPCs can cross.

## 9. Building, seeding and serving: BuildAndServe

* `ArtifactBuild`: one build job reads bindings, Functions, versions, policies, Secrets,
  queries and collections one after the other (`EndpointSteps`, `ScheduleSteps`),
  resolves calls as `function-calls.ts` does (the recursion of its `visit` is a walk: `Visit`
  and `Leave` move along the `path` of Functions that are being visited, and no edit comes
  between, as the worker does not give way), judges and stores, while members and agents save code, bind, make, edit, assign and
  remove the policy, change network rules, Secrets and grants, each as its handler
  validates it. The schedule's artifact has a slice per environment. `Starter` is what
  setup leaves when the Note App is asked for.
* `RuntimeGateway`: requests to one endpoint: `loadEndpoint`'s queries, policies in their
  order, replay keys, access policy, routing and the Function's Secrets, and
  the test of a saved Function, each query an action, while releases, renames,
  disabling and rotation happen. `since[r]` records what was in force since the request
  arrived.
* `DevelopmentSeed`: the upserts of the demo Project one by one, cut off anywhere and
  repeated; members save, unbind, add, disable, deploy and roll back once a seed
  has completed, as the stack starts the API only after the migrate container
  completed (`infra/docker-compose.yml`, `service_completed_successfully`).

| Run | Shows | Bounds |
|---|---|---|
| `build_and_serve` | `AcceptedAgainOnlyLate`, `ServedAsConfigured`, `BuildsDecide`, `ArtifactsComplete`, `SeedsConverge`, `SeedsKeepLive` | 764 123 states, see below |
| `replayed_delivery` | `AcceptedOnce` is violated: a disagreement of code and comment, see section 11 | one timestamp, two requests, tick 5 |

Builds start from every call graph of three Functions (bound to one or two of them, the
last enabled or not), from a sound draft under every setting the API's contracts accept,
from the starter, from the sound draft with two edits (of `Edited`: two of the Functions, and any other row) at any place between the reads, and
from one without a policy with one edit. Requests:
two at a time, two deliveries of two timestamps a tolerance apart on a clock of two
ticks a second up to tick 7, past the life of the replay keys; or one request and two
changes among two snapshots (one that has a matching binding of a disabled Function
before the one that serves), two slugs and two values of the Secret. Seeds: three, with
two moves of members between or, after the first, during them.

## 10. Proofs

Eight modules hold theorems; they hold for every value of the constants, from the named
assumptions of the modules only: bounds are numbers, `None` is no run, worker, row, call
or value, the schedule is not an endpoint, manual runs are no ticks, the capacity is at
least one, Projects are numbers, the keys of bindings and the policies of a Project are
finitely many (each is a row). All faults of the models are included unless a theorem
says otherwise.

| Theorem | States |
|---|---|
| `ProjectDeploymentProofs!TypeCorrect` | `[]TypeOK`, attempt and stall counters included |
| `LiveStaysActive` | `[]LiveIsActive` |
| `ServedWereActivated` | `[]OnlyActivatedServed` |
| `DeploymentImplementsLedger` | the protocol refines `ActivationLedger` |
| `ProjectArtifactProofs!LiveStaysBuilt` | `[]LiveIsFullyBuilt` |
| `PointersStayTogether` | `[]PointersAgree` |
| `ActivationIsAtomic` | `AtomicActivation` |
| `LiveMatchesFrozen` | `[]ArtifactsMatchLive`, if `DeliveredOnce` |
| `ReleasesPromoteActivated` | `[]ReleasePromotesActivated`, if `DeliveredOnce` |
| `CronSchedulerProofs!TypeCorrect` | `[]TypeOK`, with it that no invocation outlives its timeout |
| `RunsBeginOnce` | `RunsAtMostOnce`: a run is started at most once, slow workers included |
| `OneRunPerBinding` | `[]OneActiveRun`, if `slow` is not among the faults |
| `OutcomesStay` | `OutcomeFinal`: a run's outcome never changes, if `slow` is not among the faults |
| `RunsImplementLedger` | the scheduler refines `RunLedger`, if `slow` is not among the faults |
| `InvocationProofs!TypeCorrect` | `[]TypeOK`: with it, the capacity and the nesting limit hold |
| `SlotsAreCounted` | `[]SlotsExact` |
| `AnswersAreRecorded` | `[]AnswerRecorded` |
| `LateNeverSucceeds` | `[]LateIsTimeout`: a cancelled executor never reports success |
| `ExecutorSettlesOnce` | `SettlesOnce` |
| `AbortsReach` | `[]AbortReaches` |
| `ExecutionsImplementLedger` | invocations and the sweep refine `ExecutionLedger` |
| `PlatformAccessProofs!AccessStaysInvariant` | the inductive invariant of the three modules, types included |
| `OneFounds` | `[]OneFounder` |
| `AuthorityEndsSessions` | `AuthorityChangeEndsSessions` |
| `RememberedStays` | `RememberedUntilInactive` |
| `CredentialsRefine` | the OAuth server refines `CredentialLedger` |
| `ToolsAnswer` | `ToolsAnswerable` |
| `ProjectDraftsProofs!DraftsStayNewest` | `OnlyStaleMetadataUnversions` |
| `DraftsImplementLedger` | all numbered histories refine `VersionLedger` |
| `EditsStayComposed` | the inductive invariant of edits |
| `EditsMergeAlways` | `EditsMerge` |
| `TiesComeFromStaleRequestsAlways` | `TiesComeFromStaleRequests` |
| `RuntimeCapabilitiesProofs!CapabilitiesStay` | the inductive invariant of the parts |
| `SandboxStaysContained` | `[]SandboxContained` |
| `UpstreamsStayAccounted` | `[]UpstreamsAccounted` |
| `EntriesStayAsAsked` | `[]EntriesAsAsked` |
| `RecordsRefine` | records refine `RecordLedger` |
| `PagesStayComplete` | `[]PagesComplete`: of records and of the log |
| `RetentionStays` | `RetentionKeepsNewest` |
| `BuildAndServeProofs!DeliveriesAcceptedAgainOnlyLate` | `[]AcceptedAgainOnlyLate` |
| `ServesWhatWasInForce` | `[]ServedAsConfigured` |
| `BuildsKept` | `[]BuildInv`, the inductive invariant of builds and edits |
| `ArtifactsAlwaysComplete` | `[]ArtifactsComplete` |
| `BuildsAlwaysDecide` | `[]BuildsDecide` |
| `SeedsKept` | `[]SeedInv`, the inductive invariant of seeds and members |
| `SeedsAlwaysConverge` | `[]SeedsConverge` |
| `SeedsAlwaysKeepLive` | `[]SeedsKeepLive` |
| `BuiltSeededAndServed` | all six, of the composed `BothSpec` that the run checks |

*Deployment.* `TypeOK` is not inductive: a job's attempt counter stays in its
range only because an unfinished job has an attempt left (`JobOK`). `LiveIsActive`
and `OnlyActivatedServed` need what every stale reading in flight still
guarantees: `Lifecycle` adds to the rows (`RowsLifecycle`) what a request has read
(`RequestsSound`: the target of a rollback was activated and activated
deployments stay so, whatever else became stale) and what a build knows
(`BuildSound`). The statuses only move along `Monotone`, which carries these facts
over every step. The refinement follows from `IInv` one action at a time.

*Artifacts.* `ArtifactInv` says which rows a deployment has and what finalization may
assume of them: a row that was built stays built until its deployment fails, so a
deployment that was activated once has every artifact whatever is delivered again; and
the pointers of endpoints and environment move together in one action, or not at all.
`OnceInv`, for the two theorems about contents, needs `DeliveredOnce`, that the faults
are none but the death of the API: a job that is delivered twice, or retried after a
lost acknowledgement, runs `storeDeploymentArtifact` on a row that is already served
and rewrites its snapshot (section 11, `served_artifact`). Without that, the frozen content of
a deployment says nothing about what is served, and a release promotes what a later
build left there.

*Cron.* Three layers. `SlotsBusy` types the slots. `Claims` says that at most one
slot is past the claim of a run and knows what it may assume of the run's row and
invocation; nothing about time is needed, so `RunsBeginOnce` holds even for slow
workers. `Leases` relates the clocks: while an invocation runs, its age and the
rest of the overlap lock add up to at least the whole lock, and its run is no
older than it is. As the lock and the cutoff exceed the longest invocation by one
unit, neither the lock can expire nor the sweep close the run under it. `Tick`
keeps this only if no slot rests between taking the lock and calling the runtime,
which is the absence of `slow`. The refinement needs `Leases` twice: `Begin`'s guard
(nobody else executes) is the lock's holder, and the sweep's `Close` is legal
because an abandoned run cannot be executing.

*Invocation.* That the counter stays below the capacity needs `SlotsExact` and
that only begun executions hold slots (`Holders`). `Recorded` says for every place
of `invoke` what its row, outcome and executor are; `AnswerRecorded`,
`LateIsTimeout` and `SettlesOnce` follow, and with them each of the ledger's moves.
`AbortReaches` rests on `Descent`: a lineage contains the lineages of its members,
so what is reached from something reached is reached, and a new execution is in
no lineage but its own.

*Access.* `AccessInv` is `AccountsInv` (there is no founder before the unique row of the
installation, and one at most; no session in a browser or a request carries a version
its user has not reached), `RowsTyped` (a call fits the row it read, and that row is never removed),
`RotationsLeft` (the calls that are left bound what rotations can
still come), `SpentOnce` (what is
redeemed is consumed in its row) and `ToolsInv`: as long as `since` is false, whatever stage a
call is at, what it checked still holds. `ToolsAnswerable` reads it at the stage
"change". The refinement maps codes and rotations to credentials; an exchange is one
consumption and one successor because the update names the hash that was read.

*Drafts.* `HistoryInv` bounds what a request holds by the history it will write to: a
version it read is no newer than the newest, so the number it writes is taken or the next.
Every write is then an append or refused by the unique key. `EditsInv` says that rows go by their
own ids, whatever was created in between, and what a request has composed from the row it
read (`Composed`): a candidate differs from that row in the field asked for only, so what
a write changes beyond it can only come from a reading that is out of date. That the next
position is behind all others needs that a finite set of numbers has a highest
(`HighestOf`: the one with the fewest above it).

*Capabilities.* `SandboxInv` ties the executor to its client and container at every
stage, with the requests the daemon has not handled yet. `UpstreamsInv` says for each stage of a query
whether connection and transaction are open; that the cap is the longest result follows from
`LeastOf`. `StorageInv` says that entries are those asked for and that a
deletion's row ids are spent. `PagesInv` is the invariant of paging: a scan has returned,
once, exactly the steady records not ahead of its cursor; it holds because `RowAfter` and
`PastCursor` both equal the lexicographic order `Follows`, absent fields
included, and because a page is the first rows of a finite ordered set (`FirstPage`). `ListingsInv`
is the same for the log, whose order is by id alone.
`RetentionInv` says what a pruning may still conclude from what it counted or found: as long as
nothing was removed since (`Counted`), the log has at least so many rows and bytes, and as long as
nothing was inserted (`Bounded`), at most so many. Neither half follows from the other, and one lemma
(`StillPrunes`) carries both over whatever the others do meanwhile. That each row found has
enough newer ones is the count of the rows around it (`RowsAround`, `OldestRows`).
The sizes are sums, folds over a set whose elements are taken in no order that is known: that the
fold's function exists (`SumsExist`) and that any element may be taken first (`SizeTakes`),
and so that sizes of disjoint sets add up (`SizeAdds`), each follows from a counterexample with the
fewest rows. Well-foundedness of the naturals (`WFMin`, in the lemmas `LeastOf`) replaces induction.

*Gateway.* `AcceptedAgainOnlyLate` needs both windows: an acceptance is no earlier than a tolerance
before its timestamp, because the delivery was timely when the clock was read and the clock does not go
back (`ReplayInv`), and its claim lives two tolerances from then, so up to the last second
of the timestamp's window. That it does not outlive that second is the finding of section 11; the theorem bounds it to there. `ServeInv` says for each state of a request that what it has loaded is in `since`.

*Builds.* Neither property is inductive: a stored artifact says nothing of the reads it was
made from. `BuildInv` has one part for each thing a job holds between two steps.
`DraftsKept` says that the history of code is never rewritten, so a version that was
read stays what it was whatever is edited next. `ReadsKept` ties each table that was read to one
draft there was, not the same one for all. `WalkKept` is the invariant of the depth-first walk:
what was left is closed under calls and has no cycle, what is being visited is a path
of calls without a repetition, so a Function that is left can be added (`WalkGrows`)
and one that is met on the path closes a cycle (`PathCycle`: the set of the path from it on has no
member without a call into it). `ReachKept` gives the other direction: while nothing is
edited, only what the entries reach is walked, so a failure means that the draft cannot
be built. `ChecksKept` lists the checks a job is past. `SlicesKept` and
`FailureKept` carry both results over the edits that come later. The algorithm ends because the
graph is finite; that it does is not claimed.

*Seeds.* `SeedInv` has two regimes. Before members move, `Fresh` says of every row that it
is the one a single run makes or is not there yet, for each step of the seed: this is needed
for every row at once, as a seed that is cut off leaves the demos, endpoints and releases at different
places. What an artifact contains does not depend on the run that made it (`Fixed`), because versions
and bindings got the same numbers; so the next run finds it. Once something is live,
`LiveKept` says that the first two artifacts of a demo endpoint belong to the seed's releases and
every later one to a later release, one artifact to each, or to none, and that what belongs to the live
release is the active one: moving the first two again then touches no other release's artifacts. `SeedPlaced` says that the release a
running seed preserves is the live one, unless a deployment overtook it.

Only model-checked: the liveness properties `DeploymentSettles`, `RunsSettle`,
`SchedulersConverge` and `ExecutionsEnd`, which rest on fairness and so on ENABLED. Every
invariant and every other action property that a run expects to hold is a theorem.
No module declares a RECURSIVE operator.

## 11. Where code and documents disagree

The run `served_artifact`: `docs/architecture.md:131` says that runtime traffic serves
immutable active Function snapshots; a build job that is delivered again after activation
rebuilds the served artifact from the current drafts and sets it back to deploying, as
`builder-persistence.ts:22` does not look at the status.

The run `replayed_delivery`: `webhook-auth.ts:43` says that two tolerance windows cover
tokens timestamped at the maximum accepted future skew, so that a signed delivery is accepted once. The
timestamp is compared with the clock's whole seconds (`webhook-auth.ts:26`), so it is within the tolerance
for two tolerances and one second, while the claim lives two tolerances (`webhook-auth.ts:48`). In
the run, with a tolerance of one second of two ticks, a delivery stamped 1 is accepted at tick 0, its claim ends at tick 4, and it is accepted
again. `AcceptedAgainOnlyLate` is what holds nevertheless: up to that last second nothing is accepted twice.

Also reachable in the models, or seen while reading the code for them, without a run:

* *Rollback.* `docs/runtime-and-deployments.md:60`: rollback changes the active Project
  deployment and all endpoint pointers together; endpoints without an artifact in the target keep
  their pointer at the deployment that was rolled back (`routes-deployment-history.ts:80`).
* *Late ticks.* `docs/app/schedules.md:31`: a tick more than 60 seconds late is recorded as
  missed; the update asks for status `running`, which a fresh claim never has
  (`scheduler.ts:167`), so the sweep closes it an hour later.
* *Cancellation.* `docs/runtime-and-deployments.md:125`: internal calls propagate
  cancellation and remaining timeout; the executor's abort listener (`executor.ts:120`,
  `container-executor.ts:198`) never hears a signal that fired before it was registered, so a
  call made in its caller's grace period runs to its own limit, and the deadline of a
  root's internal calls starts at its first call (`invoke.ts:473`).
* *Last owner.* `docs/app/users.md:23`: the active-owner safeguard; two owners who remove each
  other both count two owners before either writes (`routes-users.ts:96`).
* *Save, test, deploy.* `docs/runtime-and-deployments.md:21`: a metadata save that was read before a
  save of code writes the older version number back (`routes-functions.ts:171`); the test
  then runs the newest version and the deployment builds the older one.
* *Builds.* An endpoint's build accepts Secrets without a value (`builder.ts:121`), a
  schedule's refuses them (`schedule-builder.ts:87`); query grants of another environment,
  or two grants of one query, make every build of the Function fail; a library with
  several versions is loaded unordered, the last one wins (`builder.ts:146`,
  `schedule-builder.ts:32`, `bundler.ts:26`), while `libraries_list` keeps the oldest
  (`platform-mcp.ts:731`); the runtime configuration is frozen when the deployment
  is requested, the drafts when they are built; overlapping HTTP routes have no stated precedence;
  `oidc` policies build and are then refused by the runtime.
* *Serving.* Changing an endpoint's slug or settings takes effect in production at once: the
  released snapshot is looked up by the current slug (`endpoint-repository.ts:141`), so a rename
  leaves production without the endpoint until the next release, and two endpoints that swap slugs
  serve each other's artifact.
* *Tools.* `docs/app/platform-mcp.md:24`: durable tools default to `dryRun: true`; the tools of
  Secrets, policies, assignments, network rules and Secret grants have no `dryRun`.
* *Data.* `docs/app/storage.md:14`: schema versions affect runtime traffic only after a
  deployment; the unique index of a new version is created by the build, over the
  records of all environments, and never dropped. Listings of caches drop keys
  (`routes-storage.ts:379`). A storage entry with a ttl of 0 never expires
  (`storage-repository.ts:69`), a cache entry lives for a second (`invocation-adapters.ts:214`).
  `schema.prisma:529` calls `enabled` of a query version an operational kill switch; what is
  deployed keeps running it.
* *Seed.* `docs/development.md:109`: the seed is idempotent, which `SeedsConverge` confirms when
  no member did anything. Otherwise a repeated seed fails for an endpoint with fewer than two
  active or rolled back deployments, after it has moved its first artifact; moves a member
  endpoint's first two artifacts to the seed's deployments; sets an edited demo
  Function back to its version while higher ones exist, so that the next save meets the
  unique key; deploys disabled endpoints and revives the archived Project; and, when a deployment activates
  meanwhile, leaves the live deployment rolled back (`seed.ts:264`), which is the exception
  `SeedsKeepLive` states.

## 12. Not modelled, and hazards without a property

The web console, views, formatting, parsing, bundling and source analysis, what a Function
computes, encryption, the texts of templates and manifests. Of the modelled parts: the
mapping of inputs and responses, the manifest and readiness routes, the choice of an
environment by host, bindings for the wrong protocol, the row of a
registered OAuth client, the listing of caches, filters of collection
queries, the first deployment of setup's starter, which has no schedule artifact
(`installation.ts:332`). `PROJECT.json` says so per component. Redis and PostgreSQL are assumed to
do what the code asks of them: `SET NX PX`, unique keys and serializable
transactions are single steps that may fail.

Real hazards of the code that no property covers, because what happens is
described above, is not promised anywhere, or lies outside the models:

* Deployments: two release requests for one source both pass the check for an earlier
  release (`routes-deployment-release.ts:58`); a deployment queued before its Project is
  archived, or an endpoint disabled, enables it again when it activates
  (`project-deployment.ts:167`); the API dies before its last `queue.add`
  (`routes-deployment-create.ts:297`); two stalls of one job (`worker.ts:33`); an older
  deployment activates last (`project-deployment.ts:97`); `setEndpointEnabled` decides on
  the pointer it read (`api-operation-helpers.ts:268`); a change after a build's reads and before
  the deployment completed is never told as pending (`routes-deployment-create.ts:122`).
* Schedules: a schedule artifact rebuilt after activation loses its job schedulers
  (`schedule-builder.ts:336`); the overlap lock has no fencing (`scheduler.ts:192`); a
  shutdown quits the lock's connection first (`worker.ts:71`); 1001 schedulers are listed
  (`scheduler.ts:117`); two "Run now" in one millisecond are one (`scheduler.ts:290`).
* Runtime: the slot of an aborted request is free while its Function runs
  (`server.ts:188`); a signed delivery that fails after its claim cannot be retried with the
  same signature; `getOrSet` stores a value computed before a later set; a purge drops what was
  stored after its scan (`api-operation-helpers.ts:330`); the loser of two
  creations of a storage namespace fails; a redirect repeats method and body
  (`network.ts:172`); an audit event that cannot be written turns success into failure
  (`reviewed-database.ts:176`); errors while files are written leave the directory; the
  container runner has no `ctx.functions` (`container-runner.ts:168`); a page of logs ends early when the
  row of its cursor is pruned (`observability-routes.ts:115`).
* Access: two clicks on one consent page yield two codes (`routes-oauth.ts:166`); a lost answer
  to a refresh locks the client out; an MCP session that is deleted while a Project is selected
  comes back; a tool that audits after its change can lose the audit row.
* Drafts: a Secret deleted while a connection or a grant of it is created; a manifest deletes
  routes by ids it read before its transaction; a query version disabled between check
  and grant; compatibility of a collection schema is judged outside the transaction
  (`routes-storage.ts:167`).
