# Verification of flowdoc-vnext-backend

TLA+ models of the backend's concurrent core, the TLC configurations that check
them on small instances, and proofs, checked by TLAPS, of what holds for every
instance. The source files are named relative to the repository's `src/`.

The backend turns documents into PDF artifacts. A client's request becomes a
durable *operation*; worker hosts on several machines discover operations that
are due, claim them through a *lifecycle head* that is moved by compare-and-swap,
render, keep the bytes in a content-addressed store and end the operation with
one *terminal completion*. A second, independent state machine, the composition
scheduler, lays a document out window by window under the same kind of head. The
rest is admission, documents and their storage, and plumbing.

## 1. Inventory

### PDF export (`pdfExport/`, `docgen/docGenLocalPdfExport.ts`)

| part | state | operations | correct when |
|---|---|---|---|
| lifecycle head, `pdfExportLifecycle.ts` | one record per operation: revision, status, checkpoint, attempts, claim, cancellation, last release, checkpoint check, stop | claim, pass-checkpoint, check-checkpoint, release-claim, request-cancellation, enforce-deadline, force-shutdown; the parser every reader applies | every head written is one the parser takes; a live claim is never taken away; attempts are counted once; a stop says the truth |
| lifecycle repositories, `pdfExportLifecycle*Repository.ts` (memory, SQLite, Postgres) | heads, the journal of transitions by id | create, read, apply at an expected revision, replay of a known transition id, `listDueWork` | a transition has its effect once; a stale caller has none; due work is listed in order and none is skipped |
| local worker, `pdfExportLocalWorker.ts` | none but its claim token | run one due entry: read, claim, reconcile an unanswered claim, execute, release after a blocked or thrown execution | no attempt is run by two; no unanswered claim is run unproved |
| workflow, `pdfExportWorkflow.ts` | none; reads and writes the other parts | handoff, lookup of a retained artifact, renderer attempt, persistence, terminal completion | the completion agrees with head and artifact; it exists in the end, once |
| renderer attempt, `pdfExportRendererAttempt.ts` | none | before-render transition, preflight, renderer checkpoints, before-persist check | nothing is handed to persistence unless a check of its own attempt stands |
| artifact persistence, `pdfExportArtifactPersistence*.ts` | one receipt per operation, storage references by digest | inspect the head, write, read back, `commitProjection`; the orphan reconcilers | referenced bytes exist; a receipt is never replaced |
| content stores, `pdfExportContentAddressedStore.ts`, `pdfExportS3ContentAddressedStore.ts` | bytes under their digest | write if absent, readback, page scan, delete | bytes under a digest are its bytes |
| orphan maintenance, `pdfExportLocalOrphanMaintenance.ts` | cursor, time of the last run, delay | run if due, one page | orphans go, references stay |
| worker host and drain gate, `pdfExportLocalWorkerHost.ts`, `pdfExportShutdownDrain.ts` | gate (accepting, draining, stopped), reservations, the loop | cycle, reserve, release, begin drain, force stop | a drain waits for what runs, and ends; no operation starves |
| route, `pdfExportRoute.ts` | none | request, status, cancel, download | a cancellation is taken at most once, and only while there is something to cancel |
| observability, `pdfExportObservability*.ts` | event stream, one terminal workflow completion per operation | append, commit the completion, read | at most one completion |
| operations, `pdfExportOperation*.ts` | accepted operations by id and idempotency key | admit, read | one operation per key and request |
| renderer binding, `docGenLocalPdfExport.ts` | none | `createWorkflowInput`: reconstructs the request, reads the clock once, chooses the transition ids | the request is the admitted one |
| qualification, readiness, configuration, security, servers, local composition | none that outlives a call | validation, wiring | not a subject of this project |

The parts meet in the repositories only. Host and worker call the workflow; the
workflow calls the renderer attempt and the persistence; all of them, the cancel
route and the force stop move the same head, each with the revision it read last.
Sweeps share nothing with writers but the store and the receipts.

What is hard here: every call is awaited, so any other party may act between two
of them; compare-and-swap protects the head, but not what is done on the strength
of a read of it (terminal completion, receipt, deletion); claims expire while
their owner works; calls may go unanswered after they took effect; hosts die;
the execution works with a time it read once.

### Composition scheduler (`composition/`)

| part | state | operations | correct when |
|---|---|---|---|
| job head and lifecycle, `compositionSchedulerJobHead.ts`, `...Lifecycle.ts` | one head per job: revision, status, transition number, chain tips, retention, lease, retry, blocker | lease recovery, retry, cancel, expire, progress | an ended job stays as it ended; a job nobody works on can be taken up |
| initialization, advancement, finalization | none; under a lease | stage immutable records, then swap the head and index the request | the chain of the head is complete, contiguous and exactly what it retains; a request has one effect |
| repositories (memory, SQLite), maintenance | immutable records, heads, two request indexes, physical usage | put a batch, compare-and-swap, clean up what the chain does not reach | no record of a live chain goes; usage is what is stored |
| workers, `compositionSchedulerWorker*.ts` | a journal entry per head write whose outcome is unknown: claim, execution marker, schedule, counts, verdict | list due, claim, start, reconcile, retry, recover, release, complete | the verdict is true; writes are bounded and none is issued over an unknown one |

### DocGen (`docgen/`)

| part | state | operations | correct when |
|---|---|---|---|
| local admission, `docGenLocalAdmission*.ts` | protected record per caller key; a table of running executions per process | admit, read | one record per key; who shares an execution asked for the same |
| durable PDF export runtime, `docGenLocalDurablePdfExportRuntime.ts` | timers and work of one process | dispatch on request and replay, execute, close, reopen | a key's operation has a readable status and a replay brings it to its end |
| previews, handlers | none | one answer per request | not a subject of this project |

### Documents and artifact jobs (`storage/`, `service/`, `artifacts/`)

| part | state | operations | correct when |
|---|---|---|---|
| package repository, `packageRepository.ts`; `mutationService.ts`, `migrationService.ts`, `documentLibraryService.ts` | document records, receipts by request id | mutate, migrate, page through the library | a document is what its receipts tell; an answer is true; pages neither miss nor repeat |
| file storage, `fileJsonStorage.ts` | manifest, job and byte files | revision-checked record writes, byte writes by digest | a settled job has its manifest and whole bytes |
| artifact job, `artifactJobExecution.ts`, `storageRouteBinding.ts` | none; writes the files | run a whole job, accept a request | what a run reported stands |

`http/`, `contracts/`, `core/`, `fixtures/`, `types/`, `localPdfExport/` (commands
that run the system once and write evidence) keep no state of their own.

## 2. Modules

| module | models | composes |
|---|---|---|
| `PdfExportLifecycle` | the lifecycle head and its seven transitions | |
| `PdfExportExecution` | one operation executed by several hosts: worker, workflow, renderer attempt, persistence, cancel route, force stop | extends `PdfExportLifecycle`; every transition of a worker is an action of the head |
| `PdfExportExecutionProofs` | theorems about the head and about its execution, the refinement among them | `PdfExportExecution` |
| `PdfExportPromise` | abstract specification: what one operation promises its client | refined by `PdfExportExecution` |
| `PdfExportArtifactStore` | content store, writers that share content, orphan sweeps | |
| `PdfExportWorkerHost` | one host over several operations: cycle, page, reservations, drain, force stop | abstracts one execution to its effect on the head |
| `PdfExportRecords` | the durable records of PDF exports (operations, heads with their transition journal, receipts, completions) when a call is one step, as in memory | |
| `PdfExportPostgres` | the PostgreSQL repositories, statement by statement | refines `PdfExportRecords` |
| `PdfExportPostgresProofs` | theorems about the records and about the repositories, the refinement among them | `PdfExportPostgres` |
| `DocGenExportRuntime` | the durable local runtime: requests, timers, closing, dying, reopening | extends `PdfExportExecution`, whose single worker it is; refines `KeyPromise` |
| `DocGenExportRuntimeProofs` | theorems about it, both refinements among them | `DocGenExportRuntime`, `PdfExportExecutionProofs` |
| `DocGenAdmission` | admission under one key by services of several processes | refines `KeyPromise` |
| `KeyPromise` | abstract specification: what an idempotency key promises | |
| `CompositionScheduler` | one composition job: head, records, indexes, callers, cleanup | refines `CompositionPromise` |
| `CompositionSchedulerProofs` | theorems about it, the refinement among them | `CompositionScheduler` |
| `CompositionPromise` | abstract specification: what the scheduler promises of a job | |
| `CompositionWorker` | the workers that settle head writes of unknown outcome | abstracts the job head to what the write can tell |
| `CompositionWorkerProofs` | theorems about them | `CompositionWorker` |
| `DocumentStore` | package repository, mutation and migration service, library | |
| `DocumentStoreProofs` | theorems about them | `DocumentStore` |
| `ArtifactJobExecution` | one artifact job on the file storage | |
| `LocalStoresProofs` | theorems about admission, its refinement among them, and about the artifact store | `DocGenAdmission`, `PdfExportArtifactStore` |
| `LocalJobsProofs` | theorems about the worker host and about the artifact job | `PdfExportWorkerHost`, `ArtifactJobExecution` |
| `MC...` | token sets, symmetry, documents and scenarios for TLC | |

Operators named `...Late`, `...Early`, `...Bare` and so on, each marked
"Mutation" or "as a mutant", are not part of the model. Each is a plausible slip
in the code, and one property is shown to notice it.

The PDF modules meet in three places: the actions of the head are those of
`PdfExportLifecycle` in `PdfExportExecution` and `DocGenExportRuntime` too; what the
execution takes as one call of a repository is a call of `PdfExportRecords`; and
that is what the statements of `PdfExportPostgres` are shown to add up to.

### `PdfExportLifecycle`

The variables are the mutable fields of the head; a null field is a record of its
own (`NoClaim`, `NoStop`, ...). There is one action per transition kind, with the
conditions of `applyFlowDocBackendPdfExportLifecycleTransitionV1` in the order in
which the code tries them: a stale time or a stopped head blocks (`Open`), then
the deadline, then the cancellation (`StopsFirst`), then the kind's own
conditions. A transition that the code answers with `blocked` is one that has no
step. The `transitionAt` of a request is any time in `Times`: callers have clocks
of their own and the head trusts none beyond refusing to go back.
`HeadParses` is the parser (`parseFlowDocBackendPdfExportLifecycleHeadV1`), clause
by clause; `transition` returns what it builds only if the parser takes it, and an
operation whose head did not parse could not be moved by anybody.

### `PdfExportExecution`

`job[w].pc` names the next call that host `w` awaits; an action is that call with
the local work up to the next one. `at` is the time it works with, `rev` the
revision it expects, `attempt` that of its claim token. The token of a claim is
derived from worker and head revision, so that within one operation it stands for
a worker and an attempt.

| step of `job[w].pc` | code |
|---|---|
| `read-head`, `claim`, `reconcile` | `runFlowDocBackendPdfExportLocalDueWorkEntryV1` |
| `execute` | `createWorkflowInput` and the workflow's read of the completion |
| `workflow`, `handoff`, `receipt`, `finalize`, `conclude`, `terminate`, `finish` | `runFlowDocBackendPdfExportEndToEndCandidateV1` |
| `before-render`, `preflight`, `rendering`, `cancel`, `check` | `runFlowDocBackendPdfExportRendererAttemptV1` |
| `persist`, `commit` | `persistFlowDocBackendPdfExportArtifactV1` |
| `blocked`, `recheck`, `release` | `execute` in the local worker |

A disjunct with `Fault` is a call that goes unanswered, before or after its
effect, a renderer that fails, or an exception. Where the code tries a stale
transition a second time with a new read, the two tries are one step at the
current revision, and losing both is a fault. A claim always starts at
the first checkpoint, so that the workflow's recovery from `before-persist` is a
branch no worker reaches; and its own claim of a head that has become pending
again carries the time of the lost claim, which the head refuses.

### `PdfExportArtifactStore`

Digests are numbers in the order in which the provider lists them; operations may
render the same bytes. A writer finds retained bytes or publishes its own, reads
them back, and commits its receipt; the sweep lists a page after its cursor,
looks for references twice, and deletes. Ages are kept instead of dates and are
saturated above the grace period, so the model runs for ever.

### `PdfExportWorkerHost`

A cycle lists the due page (by due time, then id, from the start), runs its
entries one after the other, each under a reservation of the gate. One execution
is reduced to what its host and the listing can tell: it moves its head up to
`OwnerSteps` times, ends the operation, or throws. Operations in `Broken` always
throw, as `createWorkflowInput` does once the document behind the operation
cannot be reconstructed. The force stop stops the gate and then the operation,
with its two tries; the drain stops the gate at once, or with the last release.

### `PdfExportRecords` and `PdfExportPostgres`

`PdfExportRecords` is the four repositories as the in-memory ones have them:
`admitOperation`, `initializeLifecycle`, `applyLifecycleTransition`,
`commitProjection`, `commitTerminalWorkflow`, each in one step that answers
created, replayed, stale, blocked or conflict. The SQLite repositories do the same
inside `BEGIN IMMEDIATE`; a call of theirs may fail before or after its commit.
`facts` stands for whatever a record's fingerprint covers besides its ids.

In `PdfExportPostgres` a session is at a statement (`at`), an action is that
statement, and `tables` is what is committed. An insert waits for an uncommitted
row of its key (`Contested`), `SELECT ... FOR UPDATE` and the advisory locks hold to
the end of the transaction (`Locked`), and a lost connection undoes what is not
committed, or loses the answer of what is. Both commits take their advisory locks in
the sorted order of the identities (`Due`, the next of those in `todo`). The refinement maps committed rows to
records; a call takes effect in the abstract specification at its commit or at the
statement that decides its answer.

### `DocGenExportRuntime`

One process that takes `POST /pdf-exports` under one caller key. `posts[c]` is a
client's request between its awaits, `timer` is `pendingTimers`, `job[Runtime]` is
the work in progress, with the steps of `PdfExportExecution`; `resumed` says that
it works with the claim a dead process left. A replay schedules the operation
again unless a timer is pending or work is active; an execution that finds a head
that is neither pending nor at `before-persist` leaves it.

### `DocGenAdmission`

`calls[c].pc` is the call's next await; `inFlight[s]` is the service's table entry
for the key, set and cleared without an await in between as the code does. What is
verified (identity, contract, assets, mapping) succeeds or fails.

### `CompositionScheduler`

`head` is the job head, `store` the immutable records, `requests` and `finals` the two
indexes, `job[c]` what a caller knows. The document is a constant: for each
transition, whether it takes a window and whether it closes pages; what the core
composes is that outcome. A record names its predecessor by the attempt (the head
revision of the lease) that made it, which is what its fingerprint tells apart:
records of abandoned attempts stay in the store under fingerprints of their own.
`HeadParses` is the parser's cross-checks. `AdvanceCore`, `FinalizeCore`, `Commit`
and `ClearLease` are the awaits of the two operations; `PrepareCleanup` reads the
chain that `CleanupUnreachable` protects, in as many calls as it likes.

### `CompositionWorker`

`journal[a]` is the entry: status, `marker` (the execution phase that was started),
`phase` of the storage attempt's state, counts, verdict. Expiry of a claim and the
schedule of a state are two booleans that time sets. `head[a]` is the job head as
the write sees it - expected, next or other - and `landed[a]` what the indexes
retain. `job[w].exact` says whether the worker still has the entry's revision.
The four lanes differ in what their evidence can tell.

### `DocumentStore`

A service awaits the receipt of its request, the document and the write; the
repository asks for the receipt and the revision again. Content is the sequence of
edits; the evaluation of a package by the core is accepted or refused. The library
client follows cursors from the first page to the last while others write: a page is
the first of the documents behind its cursor, in the order of the library (`Pages`),
and its cursor is its last one if more are left (`CursorAfter`). There are finitely
many documents, as there are files in the directory that is listed.

### `ArtifactJobExecution`

`files` are the manifest and the job file, `bytes` the byte files by digest. A record
write looks at the file, empties it, fills it and is read back, as `writeFile` does;
`stage` says which record of the run is being written, `phase` how far. The two
records a route request creates have idempotency keys of the client, a run's have
fixed ones.

## 3. Runs

All bounds are constants of the models, named and commented there.

| run | question | instance |
|---|---|---|
| `lifecycle` | can any sequence of requests write a head that does not parse, go on with a cancelled export, or take a live claim? | two tokens, two attempts, deadline inside the clock |
| `execution` | is an attempt ever run twice, does an owner work at a checkpoint the head is not at, commit an artifact without a check of its own, or a completion the head's stop contradicts; does the execution implement `PdfExportPromise`? | two hosts, two attempts, a cancellation, and any two of: unanswered calls, renderer failures, exceptions, crashes, force stops |
| `execution_live` | is every operation terminated? | two fair hosts and a clock, one such mishap |
| `artifact_store` | is what was committed within the grace period safe from the sweep; is every orphan collected? | two operations that may share bytes, three digests on pages of two with one deletion each, one sweeping host, one failing call, restart or decayed object |
| `worker_host` | does a drained gate ever stop while an entry runs; does a drain end; does one broken operation starve the other? | two operations, one broken, on pages of two; drain and force stop at any step |
| `docgen_export` | does a key ever bind two operations or tell of two; can a status become unreadable; do replays bring the export to its end? | two clients who ask for the same or for two documents, two attempts, a cancellation, two mishaps (605,000 states) |
| `docgen_admission` | does admission keep the promise of a key between processes; does every call end? | three calls, two services, two requests, two faults (204,000 states) |
| `composition_scheduler` | does the chain of every head load, has each transition one request, does a job without failures end without a refusal, does the scheduler implement `CompositionPromise`, does a job end? | two callers, two requests, two transitions, one with a window and pages, four attempts, nine records, two mishaps (300,000 states) |
| `composition_worker` | is every verdict true, is every write counted, does every attempt settle? | one attempt of any lane, two workers, three writes, two reconciliation failures, two mishaps (253,000 states) |
| `artifact_job` | does a job settle after its manifest and bytes, does a report stand, does an accepted request stay queued? | two digests, two request keys, four calls one after the other, three faults or crashes (12,000 states) |
| `postgres` | do the statements add up to `PdfExportRecords`, is the journal what moved the head, can sessions wait for each other in a circle, is every call answered? | two sessions, four calls out of a scenario whose ids and keys collide, one fault (85,000 states) |
| `document_store` | do documents and receipts agree, is "applied" true, do times follow revisions, is the library walked without gaps? | two callers, three documents on pages of one, three requests out of a scenario, two ticks (710,000 states) |

Two hosts are enough for the properties of pairs: a claim has one owner and at
most one former owner at work, and a third host would be a former owner like the
second. Two attempts give takeover, release and the end of the budget; two
operations and three digests give shared and distinct content on two pages. One
broken operation on a page of two, or of one, is the difference that decides
starvation. The deadline lies inside the clock in every run of the lifecycle and
the execution, so that late requests happen. Two mishaps allow a failure of the
recovery from a failure. `MaxRevision` is never reached in the executions; in
`lifecycle` it bounds repeated checks, the only transition that can be repeated
for ever. `CHECK_DEADLOCK FALSE` is said where the system may really stop: an export
with a completion, a host whose gate is stopped, an ended or waiting job, callers
that have made their calls.

In `composition_scheduler` the first transition takes a window and closes pages and
the second does neither, so that the two chains and the windows grow apart; four attempts are one more than
two transitions and a finalization need, and `MaxBytes` is low enough for orphans to
exhaust it. In `composition_worker` the three writes, two failures and two mishaps
meet in every order; attempts share nothing but the worker's list, so one attempt
stands for many. In `postgres` each scenario exercises one repository, because
their tables are apart (a projection never touches a head); two sessions give
every contended key and every lock order, and three were too many for TLC; the
proofs (section 5) are for any number. In
`document_store` the scenarios are races on one document, a migration between
edits, and writes that move documents between pages.

The type invariants of the modules are stated in each of them; they are among the
runs where they carry more than types (`PostgresTypeOK` says that rows belong
together, `CompositionSchedulerTypeOK` that the head parses and the usage is exact).
Section 5 proves them, and the others but those of the worker host and the artifact job.

### Disagreements between the documentation and the code

Each row is one sentence of the documentation, stated as a property (quoted above
its definition) that TLC finds violated by what the code does. Each can be
reproduced with its own configuration; they are not among the regular runs.

| configuration | property | what happens |
|---|---|---|
| `PdfExportExecutionOwner.cfg` | `OnlyOwnerFails` | a worker whose claim expired and was taken over finds its next transition refused, concludes, and commits `failed` while the new owner works. The new owner's own completion is then refused. |
| `PdfExportExecutionCancel.cfg` | `CancellationNotFailed` | a cancellation between handoff and before-render makes the owner's transition stale; the head is not stopped, so the completion is `failed`, not `cancelled`. |
| `PdfExportExecutionRenderer.cfg` | `RendererCheckpointStops` | a cancellation seen by a renderer checkpoint is to be retained as a stop by the check that follows; the check carries the frozen execution time, which is older than the cancellation, and the head refuses it. |
| `PdfExportExecutionPersist.cfg` | `PersistenceWins` | an attempt commits its receipt after another worker, or its own stopped head, was read as having none: the export is completed as cancelled with its bytes retained. |
| `PdfExportArtifactStoreRace.cfg` | `ReferencedRetained` | bytes orphaned by an earlier attempt are found again by a writer (which therefore writes nothing), and its receipt is committed between the sweep's second look and the deletion. |
| `PdfExportArtifactStoreStarved.cfg` | `NoOrphanStarved` | deleting a corrupt orphan always fails, the page has an issue, the cursor stays; later pages are never swept. |
| `PdfExportWorkerHostStarved.cfg` | `NoEntryStarved` | an operation that always throws is stopped after its attempts, is still due, still first, and fills the page in every cycle. |
| `DocGenExportRuntimeStuck.cfg` | `ReplayResumes` | a process dies with a claim before `before-persist`, or after a stop; a replay after the restart looks at the head and leaves it (`docGenLocalDurablePdfExportRuntime.ts:144`), while `docs/PDF_EXPORT_REALDOC_DURABLE_LIFECYCLE.md:26-28` has it resumed. |
| `DocGenAdmissionConflict.cfg` | `ConflictMeansBound` | a call with another request is told of a conflict although the call it met fails and binds nothing (`docGenLocalAdmission.ts:755`). |
| `CompositionSchedulerLimits.cfg` | `ExhaustionBlocks` | a head whose attempts are used up stays active and refuses every request (`compositionSchedulerAdvancement.ts:287-294`), while `docs/DURABLE_COMPOSITION_SCHEDULER_ARCHITECTURE_LOCK.md:227-228` has it blocked. |
| `CompositionWorkerBlind.cfg` | `NoWriteBeforeReconciliation` | a worker takes over a claim in `retry-ready` twice: the first reclaim erases the marker of the interrupted write (`compositionSchedulerWorkerJournalContract.ts:515`), so that the second writes again (`docs/DURABLE_COMPOSITION_SCHEDULER_WORKER_RUNNER.md:98`). |
| `DocumentStoreReplay.cfg` | `ReplayIsNotStale` | a repeated request that finds no receipt, is overtaken by its own first sending and then reads the document is told that its base is stale (`mutationService.ts:139`, `migrationService.ts:107`; `docs/MIGRATION_PERSISTENCE.md:64-65`). |
| `DocumentStoreMixedCase.cfg` | `UnchangedListedOnce` | the library is sorted by `localeCompare` (`packageRepository.ts:306`) and filtered after the cursor by code units: ids that the two orders rank differently are missed or repeated. |

`PdfExportPromise` says what is left: one outcome and one artifact at most, an
outcome `completed` only with an artifact, `cancelled` only of an export somebody
asked to cancel, `deadline-exceeded` only after the deadline. `failed` may have
any cause.

Observations that no sentence of the documentation contradicts, or that no
property states:

* The force stop gives up after two stale answers (`pdfExportLocalWorkerHost.ts:392`)
  and leaves the head claimed by the owner it lost to, while
  `docs/PDF_EXPORT_LOCAL_DURABLE_WORKER.md:83-85` promises a durable stop.
  `execution_live` covers what becomes of such a head.
* In the durable runtime, a resumed head without a retained check, or with a
  cancelled or expired claim, ends as `failed`. The cancel route reads persistence
  before the lifecycle, so that a replayed cancellation may answer "cancelled" over
  committed bytes.
* A job's creation that has been advanced since is a `conflict` to the worker that
  reconciles it, though it was committed.
* `compositionSchedulerSourcePin.ts:180` accepts as many attempts as transitions,
  with which a job can never be finalized.
* A route request writes its job record even if the write of the manifest failed,
  and a job that a request has created can never be executed
  (`RequestsStayQueued`): a run cannot create its records again.
* Two overlapping calls of the file storage can both be accepted at one revision
  (`fileJsonStorage.ts:699`); `RevisionStillStands` is violated with two callers.
  The file storage states no host that serialises its callers, so the run has one.
* A deadlock that PostgreSQL breaks (40P01) is not one of the errors the
  repositories answer as unavailable; the sorted order of the locks is all that
  keeps it away (`NoCircleOfWaits`). The order is that of the identities and the locks
  are those of their hashes, so that two identities with one hash could bring it about.

## 4. Fairness

`execution_live` assumes that the clock advances and that each host, between
crashes, takes its next step: `start()` polls until its gate closes and every
call has a timeout of its driver, so a call returns or throws. Nothing is assumed
of routes, crashes or force stops. `worker_host` assumes the same of the loop and
of the force stop's three calls. `artifact_store` assumes that time passes and the host calls `runIfDue` in its cycles; writers may stop anywhere,
which is what makes orphans.

`docgen_export` assumes that clients replay for ever, as the documentation asks
them to, that timers fire, calls return and a closed process is opened again;
nobody has to cancel, close or die, and nothing but a replay schedules work.
`docgen_admission` assumes that every await returns. `postgres` assumes that a
statement that is not blocked is executed; a blocked one is ended by what it waits
for and needs no lock timeout. `composition_worker` assumes that workers go on
running batches and that schedules and expiries come; nothing makes a write
succeed. `composition_scheduler` assumes that some host runs the job, some host
recovers expired leases and expires the job, and that time passes: the repository
has the operations but no loop that calls them, so this is an assumption on the
hosts. `document_store` and `artifact_job` check no liveness.

## 5. Proofs

Every invariant, action property and refinement that a run checks is stated by a
theorem for all values of the constants. A few theorems have a hypothesis beyond
the named assumptions of the modules, and each is needed: artifact jobs are called one
at a time (`MaxInFlight = 1`), one host sweeps (`OneHost`), the locale ranks ids as
their code units do (`LocaleFollowsIds`), the identities that commits lock have
different hashes (`HashesApart`). The runs are instances of them. The code
itself enforces none of the four; what happens otherwise is said with each theorem.

### The lifecycle head

The first part of `PdfExportExecutionProofs` proves, for all values of the constants that satisfy
`LifecycleAssumption` (attempts, deadline and longest claim are positive, the null
token is not a token), that

* `LifecycleTyped`: the head is well typed;
* `LifecycleInvariant`: `LifecycleInv` holds, and with it
  `LifecycleHeadAlwaysParses`, `LifecycleStopReasonHolds`,
  `LifecycleCheckExcludesCancellation` (and `PendingOnlyByRelease`);
* `LifecycleCancelledOnlyStops`, `LifecycleClaimOutlivesContention`,
  `LifecycleAttemptStartsOver`, `LifecycleBackoffHonoured`: what a transition may
  never do.

`HeadParses` is not inductive. A head that parses may be pending at a later
checkpoint, or with a retry time its release does not have, or hold a check and a
cancellation at once; from such a head a claim would start an attempt half-way,
or the next stop be unjustified. `LifecycleInv` therefore adds `StopReasonHolds`,
`CheckExcludesCancellation` and `PendingOnlyByRelease`: a pending head was put
there by its last release (or is new), at the first checkpoint, with that
release's retry time. The proof has a lemma for each transition, and three that
they share: every stop goes through `StopInv`, the stop that precedes a request
through `StopsFirstInv`, every owner transition starts from `OwnerFacts`. The
action properties follow from `LifecycleInv` in the state before the step:
`AttemptStartsOver` needs `PendingOnlyByRelease`, because the claim transition
keeps the checkpoint of a pending head, and `ClaimOutlivesContention` needs that
a claim carries its attempt's number, so that two claims never look the same.

`LifecycleTyped`, `LifecycleStopReasonHolds`, `LifecycleCheckExcludesCancellation`,
`LifecycleAttemptStartsOver` and `LifecycleBackoffHonoured` are results of their
own; no run repeats them.

`TransitionsKeepContract` says all of this again of `TransitionSpec`, which leaves
open where requests and times come from: whoever moves the head by its transitions
alone keeps the invariant and the contract. `LifecycleSpec` is one such caller, the
execution is another.

### The execution

`PdfExportExecutionProofs` proves, for any number of workers, any attempt budget,
deadline, claim and retry durations that satisfy `LifecycleAssumption` and
`ExecutionAssumption`, all that the `execution` run checks: `ExecutionAttemptsDisjoint`,
`ExecutionOwnerKnowsCheckpoint`, `ExecutionCommitStandsOnCheck`,
`ExecutionTerminalMatchesStop` and the refinement `ExecutionKeepsPromise`, with
`ExecutionTypeCorrect` and `ExecutionInvariant` under them.

None of the four invariants is inductive: each says what a worker may do at one
step, and holds because of what that worker found out steps before and of what the
others cannot have done since. `ExecutionInv` states that knowledge:

* `TokenNamesAttempt`, `ClaimIsNew`, `AttemptWasTaken`: a claim is its worker's for
  the attempt it counts, and a worker that works in the current attempt claimed it.
  `AttemptsDisjoint` follows;
* `NotAhead`: the revision and the time a worker expects are never ahead of the
  head's and the clock's. It is what makes a compare-and-swap on a revision safe;
* `CheckpointIsKnown`: as long as the claim on the head is a worker's own, the head is at the
  checkpoint of the step the worker is at, from the claim on (`OwnerKnowsCheckpoint`
  says so of the steps that pass one);
* `CheckIsFresh`: what a worker checked before it persists was not cancelled, or the
  head has moved since, and then the commit is refused;
* `ReportIsTrue` and `MatchesStop`: a worker about to report an outcome reports one
  that the head, which does not move once it is stopped, already says.

The proof goes worker step by worker step. `HeadMoved` is all that the other workers
need to know of a transition (`OthersKeep`); `OwnerMoves` what the worker that made it
needs. For the refinement each step is mapped to a step of `PdfExportPromise`
(accept a cancellation, pass the deadline, commit the artifact, report) or to a
stutter. `ExecutionHeadKeepsContract` is the composition: each step of workers,
route and host is a `Transition` or leaves the head alone, so the theorems about the
head by itself hold of the head they share.

### The local durable runtime

`DocGenExportRuntimeProofs` proves, for any clients and document pins, any attempt
budget, deadline and durations, and the one worker of `RuntimeAssumption`:

* `RuntimeStatusStaysReadable`: no export gets a status that is answered with 503;
* `RuntimeKeepsKeyPromise`, the refinement of `KeyPromise`;
* `RuntimeKeepsPromise`, `RuntimeTerminalMatchesStop` and `RuntimeHeadKeepsContract`:
  restarts and resumptions take nothing from what is proved of an execution by
  several hosts;
* `RuntimeTypeCorrect`.

`ExecutionInv` does not carry over: a resumption enters the workflow in the middle,
with the claim that a dead process left, and has skipped the steps that the
invariant relies on. `RuntimeInv` has parts of its own:

* `WorkInv`. There is one worker, so what it read stays true until it writes. `Stands`
  says what that is at each step: past the terminal read there is no completion,
  past the receipt read there is no artifact, a claim it asks for is the next attempt,
  and an outcome it is about to commit matches the stop of the head. This and
  `~StatusUnavailable` hold each other up: "completed" is committed only by a worker
  that found the receipt, and another outcome only by one that found none;
* `ProcessInv`: work and timers are for a stored operation, and a closed process is idle;
* `KeyInv`: of the POSTs that wait to say "created", there is one at most, nobody was
  told so before it answers, and it is the one that bound the key. A process that
  dies takes its POSTs with it, so the key may end without such an answer, and no
  later POST gives it.

Every step of the work is handled by one of a few lemmas about what it leaves alone:
a read (`WorkReads`), a turn of the head (`WorkTurns`), the end of the work
(`WorkRests`), a step of somebody else (`WorldStands`).

### The composition workers

`CompositionWorkerProofs` proves, for any attempts, workers and limits that satisfy
`CompositionWorkerAssumption`, `WorkerVerdictIsTrue`, `WorkerWritesAreCounted` and the
types, from `CompositionWorkerInv`:

* the head tells whether the write landed as long as nobody else moved it
  (`HeadTells`), and nothing landed that was not written by a worker within its claim
  (`Unlanded`);
* `TrustFits`: a worker that still holds the claim it read knows the entry's marker,
  phase and answer; one that does not is refused at its next write of the journal,
  which compares the claim;
* `OneHolds`: of two workers that both believe to hold an entry, one has yet to ask;
* `WritesFit` counts. The writes issued and the workers that are about to issue one
  are together at most what the journal counts, and one more while a retry is begun
  that the journal does not count yet (`Uncounted`). The begin of a retry pays for
  the write that follows; a claim that erases the retry's marker breaks the
  account, and `history.lost` records it, as the property does.

### The composition job

`CompositionSchedulerProofs` proves, for any document, callers, requests and limits
that satisfy `CompositionSchedulerAssumption`:

* `CompositionSchedulerTypeCorrect`: among other things that the stored head always parses
  and that the quota counts exactly what is stored;
* `SchedulerOneRequestPerTransition`;
* `SchedulerHeadChainLoads`: the chain that a head names can be loaded, whole;
* `SchedulerNoFailureNoRefusal`, provided `MaxTransitions >= Length` and
  `MaxAttempts > Length`. The second is needed: with as many attempts as
  transitions a job is refused its finalization without any failure, because the code counts
  the lease of the finalization too;
* `SchedulerKeepsPromise`, the refinement of `CompositionPromise`.

Callers keep a copy of the head across the staging of their records, so what
`CompositionSchedulerInv` adds is about copies. `LeaseInv`: a copy was the head under
lease, and as long as the revision stands it is the head still, but for what time
did to it. `StagedInv`: what a caller staged can be retained and is not deleted
before the job has ended, so that a commit on a standing head finds its records, and
the head it makes parses. `StandingInv`: the request of a caller whose lease stands
is not indexed yet, so that a commit adds one id for one transition. `AttemptsAdvance`
counts: without a failure the attempts are the transitions, and one more under a
lease that somebody holds. `MovedKeeps` and `StillKeeps` say that a step of one caller
leaves this true of the others, `HeadKeeps` and `CallerKeeps` put the invariant
together again. For the refinement `HeadMoves` lists all that a step may do to status
and transitions.

`HeadChainLoads` is about a walk: from the tips that the head names back to the first
records, each found by the fingerprint of the attempt that made it, and as many of them
as the head says it retains. `HeadChainInv` says where the walk goes. There are `b`
and `c`, the attempt that made each transition and the tip of the pages after it
(`Attempts`), and the records that they stand for (`Links`) are stored and are counted by
the head (`Linked`). That the walk finds these and no others is `Known`: a receipt or
a chunk is the only one of its attempt, none is of an attempt yet to come, and a
window is that of its transition. `Known` survives the staging of records because a
lease has a revision that no other lease has (`OwnRevisions`) and by which nothing was
recorded before its caller stages (`HeldInv`); this is what the code's fingerprints rely
on. The commit adds one link (`LinkedAdvances`). The clean-up deletes what it
read not to be in the chain, some calls ago: `Kept` has that a clean-up prepared
for the head as it ended protects `Links`, and an ended head does not move. An abandoned
attempt leaves records behind that `Links` does not name and nothing counts as retained.
The walk itself is a recursive function; `WalkAlong`, `ReceiptsFound`, `ChunksFound` and
`WindowsFound` say what it returns along given attempts.

### The records

The last part of `PdfExportPostgresProofs` proves, for any callers and any scenarios, of
`PdfExportRecords`:

* `HeadsHaveHistoryAlways`: every head is at the revision its journal tells, each
  retained transition moved it once, and nothing else moved it. The inductive
  invariant `HistoryInv` adds `HeadRows`: heads are rows with a revision, and an
  operation has one at most, so that the head that is replaced is the only one
  whose journal grows.
* `OneOwnerAlways`: an operation id, a caller key, a receipt's and a completion's
  ids each belong to one row. It is inductive: each commit looks for every id that
  it writes.

### The PostgreSQL repositories

`PdfExportPostgresProofs` proves, for any number of sessions and any scenarios of the
five kinds of calls, that the repositories keep their tables together
(`PostgresTypeCorrect`) and implement `PdfExportRecords` (`PostgresServesLikeRecords`).
`PostgresAssumption` asks of the calls, besides numbers for identities, only what
`inspectFlowDocBackendPdfExportWorkflowCommitRequestV1` refuses otherwise: a
workflow ends with one event at least, and its event ids differ
(`pdfExportObservability.ts:473,488`). The refinement carries the two results about
the records over to the committed tables: `PostgresHeadsHaveHistory`,
`PostgresOneOwner`.

`PostgresTypeOK` is far from inductive. Under READ COMMITTED, each statement acts on
what earlier ones found, and other transactions commit in between.
`PostgresInv` (`PostgresInvariant`) says why that is safe:

* `Fits` has, for each kind of call and each statement, what its session knows of
  the committed tables, which rows it has written and which locks it holds. A
  session that has passed `select-artifact`, for instance, holds the locks of all of
  its identities (`Holds`), and no receipt, artifact or persistence of theirs is
  committed (`ReceiptFree` and so on); one at `update-head` has read the head that is
  still committed (`Sees`), its transition is not in the journal and its revision is
  the head's (`Fresh`);
* `LocksApart`: no lock has two holders. What one session did not find cannot be
  committed by another, because a commit writes identities that it holds the locks
  of (`IdentitiesApart`);
* `WritesApart`: no two open transactions have written rows of one key, which is what
  waiting for an uncommitted row comes to (`Uncontested`). The admission and the
  initialization have no lock and stand on this alone.

An insert without ON CONFLICT therefore never meets its key (`ProjectionNew`,
`EndingNew`) and the guarded UPDATE never misses its head, so that `Throw` is never
reached. Most of the proof is the commits: `CommitProject`, `CommitComplete`,
`CommitTransition` and the others show that a commit keeps the keys and the tables
together and takes nothing from what the other sessions know.

`NoCircleOfWaits` (`PostgresNoCircleOfWaits`) speaks of all that a statement can wait
for: advisory locks, the row lock of a head, uncommitted rows of a key that it inserts.
It holds because only the advisory locks are asked for by a session that holds
anything: whoever holds all of its identities, or the lock of its head, finds no row of
theirs uncommitted (`HolderWaitsAtLock`). What a session has locked lies below what it has
yet to lock (`LocksTaken`), so along a chain of waits the identities ascend (`WaitsAscend`),
and of finitely many sessions one asks for the highest. Identities are numbers in the
order of their strings (`PostgresAssumption`), while the locks are named by 32-bit
hashes (`hashtext`). The theorem supposes `HashesApart`: were two identities to share a
hash, a session could hold the lock of its lowest one under the name of another's
highest, and a circle could close. Nothing else needs it: a shared hash locks more than
it has to, and all other theorems hold of any `HashText`.

For the refinement, `View` is what the abstract specification sees of a session: its
call, and an answer once it is decided by a session that has not written. Statements
that decide nothing are stutters (`QuietStep`), statements that decide a replay or a
refusal serve the call (`ConcludeAnswers`), as does the commit of one that has
written (`CommitAdmitServes` and the others). `ReceiptsTell` and `CompletionsTell` relate the
three tables of a projection and the two of a completion to the single record that
they are in `PdfExportRecords`.

### Documents

`DocumentStoreProofs` proves, for any documents, callers, scenarios and page sizes:

* `TimesFollowRevisionsAlways`, with the invariant that no document's time is ahead of
  the clock;
* `AppliedIsRetainedAlways`, with `CallRows`, the types of what the callers hold, and
  the lemma that receipts are only ever added: what was said of one stays true;
* `HistoryAddsUpAlways`: a document is what its receipts tell. The inductive
  `HistoryInv` adds that what a service has read is the document as long as the
  revision stands (`RowStands`), so that an accepted write extends the content it was
  computed from, and that receipts of mutations and of migrations are kept apart;
* `UnchangedAlwaysListedOnce`: whoever follows the cursors of the library from its
  first page to its last meets each document that did not change meanwhile once. The
  inductive `WalkInv` says of a walk that is open what its cursor divides: what is
  listed is not behind it, and what did not change is listed or behind it; a change
  only ever moves a document to the front, before every cursor. The theorem supposes
  `LocaleFollowsIds`: the locale ranks the ids as their code units do. Otherwise the
  statement is false (`DocumentStoreMixedCase.cfg`, section 3).

### The worker host

`LocalJobsProofs` proves `DrainAlwaysWaits`, for any operations, page size and limits:
a gate is never stopped over a running entry, unless by force. The inductive
`GateInv` adds that a gate stopped by force stays stopped, whatever an entry that still
runs returns to it.

### The artifact job

The same module proves, for any digests, request keys and callers,
`JobAlwaysSettlesLast`, `ReportsAlwaysStand` and `RequestsAlwaysStayQueued`, when calls come
one at a time (`MaxInFlight = 1`). With two at once they cannot be had
(`RevisionStillStands`, section 3). `JobInv` says at each write of a run what
the two files hold, torn or as planned, queued, rendering or settled, which revision
the run has at hand for each, and what is on the file between emptying and reading back
(`CallStands`); and, at every moment, how the files, the bytes and the answers go
together (`RecordsStand`). The keys are the heart of it: a run that begins over the
records of an earlier call is blocked at the first one that is torn or whose key is not
the one it would write, and goes on over one of its own key only with what that record says. `ArtifactRecordAssumption` therefore says that the keys of
requests, which have an ending of their own in the code, are none of the fixed ones, and
that a missing or torn file is told from a record.

### Admission

`LocalStoresProofs` proves, for any callers, services and requests,
`AdmissionTypeCorrect` and the refinement `AdmissionKeepsKeyPromise`. `AdmissionInv` says of
each call what it has a right to (`Stands`): one that executes is named by its service's
table, a follower waits for a leader with its own request that has not settled, whoever
is to answer with a receipt has the bound request, and whoever is to say "created" is
the first to say it. Between processes only the insert decides; `OneCreates` is what it
leaves.

### The artifact store

The same module proves, for any operations, digests, page sizes and grace period,
`ArtifactStoreTypeCorrect`, and `GraceProtectsPromptCommits` where one host sweeps. `OneSweepInv` says
what makes the grace period enough, although the second look at the references and the
deletion are two calls: what a sweep has listed stays as old as it was, because only a
sweep deletes and nobody writes over bytes that are there; what a writer has read back is
still there, or has aged past the grace period since; so a receipt committed in time is
never that of the candidate. With a second host, one may delete what the other has
listed and a writer publishes anew: the candidate is then young.

### TLC before the proofs

The larger inductive invariants were checked by TLC on a run before they were
proved: `ExecutionInv` on the instance of `execution` (3 358 314 states),
`CompositionWorkerInv` on that of `composition_worker` and on two attempts of two
workers with two writes (252 958 and 1 660 382), `CompositionSchedulerInv` on
that of `composition_scheduler` (300 226) and on a document of three transitions
with tight limits, `PostgresInv` on that of `postgres` (85 356), `RuntimeInv` on that
of the DocGen runtime (605 202), `GateInv` on that of `worker_host` (322 027),
`AdmissionInv` on that of `docgen_admission` (203 761), `ArtifactStoreInv` and
`OneSweepInv` on that of `artifact_store` (575 840), `JobInv` on that of `artifact_job`
with two callers (22 005), `HistoryInv` and `WalkInv` on that of `document_store`
(709 932). Of `HeadChainInv`, whose `b` and `c` TLC cannot enumerate, it checked the
other parts, on that of `composition_scheduler` (300 226) and with initial pages (289 424).

### Only model-checked

Liveness: `EventuallyTerminal`, `OrphansCollected`, `DrainEnds`, `EverythingEnds`,
`ReplaysSettle`, `CallsEnd`, `JobEnds`, `EveryAttemptSettles` and `CallsAreAnswered`. The
proofs would need ENABLED for the fairness of each action, which the prover does not
support. Of `CallsAreAnswered`, the part that the sorted locks decide, `NoCircleOfWaits`, is
proved; that each wait ends is checked for two sessions.

Chains, histories and walks of any length are proved about without the library's
induction theorems, which take an operator as a parameter: a set of natural numbers that
is not empty has a least element (`WellFoundedInduction`), from which follows
that a set with 0 and with each successor is all of them (`NaturalsReached`).

## 6. Not modelled

* Bytes, fingerprints, digests of requests, scopes and security: they decide
  whether a call is refused before it has an effect, and never which effect.
* Parsers of stored records beyond the heads': the models' rows are what the
  program wrote. One damaged row invalidates the due listing of every host
  (`pdfExportLifecyclePostgresRepository.ts:408`).
* What the observability events say, download routes, previews and handlers,
  configuration, readiness, servers, commands and contracts: no state that outlives
  a call.
* S3 itself: a page of the provider is what the store held when it was listed. The
  temporary files of the file content store.
* The exception of a cycle that ends the host's loop (`pdfExportLocalWorkerHost.ts:437`),
  and a second sweeping host: two sweeps share no state, and one of them may delete
  what was published after it was found an orphan.
* Skew between the clocks of hosts in `PdfExportExecution`. The head alone is
  checked and proved for arbitrary times.
* The one-shot orphan reconciler, the pagination cursor and exact times of the
  composition worker's due listing, the scheduler's conformance runner.
* The package repository's plain `write`, which no service calls, and the session
  records.

## 7. What is left

* The one-shot orphan reconciler, and the due listing of the composition workers with
  its cursor.
* The session records and the remaining kinds of the file storage, which share the
  revision check modelled in `ArtifactJobExecution`.
