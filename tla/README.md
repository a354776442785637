# Verification of the web data extraction engine

TLA+ modules, TLC configurations and TLAPS proofs for `services/api`, the service
that turns a `POST /api/jobs` into crawled, validated and exported data, and for the
part of `apps/web` that follows a job. Paths and line numbers are relative to the
repository (`services.py` stands for `services/api/src/wde_api/services.py`, and so on).

## 1. The system

| Component | State it keeps | Operations |
|---|---|---|
| API (`main.py`) | none of its own | create, cancel and read jobs, stream events, download files |
| Job service (`services.py`, `models.py`) | PostgreSQL rows: jobs, pages, records, validation runs, exports, files, progress events, outbox, idempotency keys | `create_job`, `transition`, a claim / complete / fail handler per stage, `cancel`, `recover_expired_leases`, cleanup |
| Outbox dispatcher (`queue.py`) | `work_outbox.published_at`, the Redis queue | `dispatch_pending` |
| Worker (`worker.py`, arq) | the operations its slots execute | one function per command, two crons |
| Browser engine (`browser_engine.py`) | the permits of its capacity semaphore, open contexts, download tasks | `capture` |
| Extractor, validator, writers (`extraction_service.py`, `validation_service.py`, `export_service.py`) | none: functions of a page, a record, a data set | `extract`, `validate`, `build_dataset`, writers |
| Artifact store (`storage.py`) | blobs with an expiry | put, delete |
| Authentication, rate limiter (`auth.py`, `security.py`) | JWKS cache and its lock, sliding windows, per process | `verify`, `allow` |
| Web application (`apps/web`) | the job workspace of a browser tab | refresh, event stream, cancel |

How they interact. A handler is one database transaction that starts with
`SELECT ... FOR UPDATE` on the job row; the follow-up command is a row of
`work_outbox` inserted in the same transaction under a unique `operation_key`. A cron
that runs every 15 seconds publishes pending rows to Redis, and arq gives them to
free worker slots. A slot runs *claim* (transaction), the work itself (no
transaction, up to the timeouts), then *complete* or *fail* (transaction). `fail`
may ask arq to deliver the same message again. A claim takes the lease of the job;
the same cron recovers jobs whose lease has expired. `cancel` is an API request
that reads the job without a lock. Every handler appends progress events, which
polling generators stream to clients.

What is hard. The handlers of a job are serialised by the row lock, but what lies
between them is not: two deliveries of a command, a stale worker after its lease
lapsed, two formats of one job, the cron, cancel requests and crashes interleave at
the transaction boundaries, and the queue may deliver twice or not at all. The API
and the worker are asyncio processes whose shared objects (cache, semaphore, deque)
are used across awaits that a cancellation may end at any point.

What makes the components correct:

- *lifecycle*: legal moves only, each announced once; an ended job stays ended and
  nothing is added to it;
- *work*: no unit of work twice at the same time, every abandoned unit is found
  again, the job always has something that may still move it, and it ends;
- *crawl and delivery*: caps bound the job; a stage hands over only when nothing is
  left; a completed job delivers every format once, with its bytes;
- *creation*: one job per idempotency key, every answer true, no request waits for
  ever, every committed job is dispatched;
- *progress*: events without gaps, each delivered once; the page comes to show the end;
- *capture and retention*: never more browsers than permits, one capture recorded,
  bytes as long as the row has not expired and not longer;
- *access*: the limit holds for every window; published keys are known, withdrawn ones
  expire;
- *records*: reading twice adds nothing, verdicts follow from what was stored, all
  formats say the same.

## 2. The modules

The pipeline of one job:

| Module | Models | Correspondence |
|---|---|---|
| `JobDomain` | `domain.py` | `ALLOWED_TRANSITIONS` as a function on statuses |
| `JobLifecycle` | the promise of `transition()` | abstract machine: status and announced history |
| `JobStore` | `models.py`, `queue.py`, shared tails of the handlers | variables, row types, `Transition`, `Accepts`, `Begin`/`Finish`/`Requeue`/`Discard`, `RetryOrFail` |
| `PlanningStage`, `DiscoveryStage`, `ExtractionStage`, `ValidationStage` | the claim, complete and fail handlers of each command | one action per handler; `VisitOutcomes` is every inventory a visit can leave, `ExtractedRecords` every result under the cap |
| `ExportStage` | `run_export` with its exits | claim, upload, completion, return and error are separate actions: other handlers run between them |
| `JobRecovery` | `recover_expired_leases`, `dispatch_pending`, lease time, faults | the cron, `LeaseExpires`, and `Crash`, `Abandon`, `Redeliver`, `Lose` |
| `JobCancellation` | `cancel()` | an unlocked read and a later write |
| `JobPipeline`, `JobProperties` | the commit of `create_job`, the composition | `Init`, `Next`, `Fairness`, `TypeOK`; the properties |

The components around it:

| Module | Models | Correspondence |
|---|---|---|
| `IdempotentCreation` | the promise of `POST /api/jobs` | abstract machine: accepted jobs and what clients were told |
| `JobCreation`, `CreationProperties` | `create_job` and its route | one action per SQL statement that reads or waits: lock and lookup, source, flush, commit, answer; uncommitted rows in `written` |
| `EventLog` | `_append_event` under the row lock | begin, append, commit, roll back; of a cancel request also its unlocked read, by which it decides |
| `EventStream` | the generator of `GET .../events` and its client | two reads per poll, then one action per event sent; the client reconnects until it has been sent the announcement of an end |
| `Workspace`, `ProgressProperties` | `use-job-workspace.ts` | timers, requests in flight, the EventSource per shown status |
| `BrowserCapture` | `PlaywrightBrowserEngine.capture`, `run_browser_capture` | one action per await at which a capture can be left; permits as a counter |
| `ArtifactRetention`, `CaptureProperties` | expiry and `cleanup_expired_artifacts` | selection, one action per deleted blob, commit or abort |
| `RateLimiter` | `SlidingWindowRateLimiter` | the deque of a host; `admitted` is a history variable |
| `TokenVerifier`, `AccessProperties` | middleware and `SupabaseJwtVerifier` | a step from one await of `verify()` to the next; the lock and its queue |
| `PageRecords` | `extraction_service.py` | operators: what a page shows to its candidate records |
| `RecordRules` | `validation_service.py` | operators: the outcomes and the verdict of a record |
| `ExportDataset` | `export_service.py` | operators: selected rows and the cells of CSV, JSON and XLSX |
| `RecordFlow`, `RecordProperties` | the data path of `complete_extraction_page`, `complete_validation_run`, `load_export_dataset` | read, validate, export |

`MCJobPipeline`, `MCJobCreation`, `MCWorkspace`, `MCCapture`, `MCAccess` and `MCRecords`
hold the constants a `.cfg` cannot write. The proofs about the pipeline build on one
another: `JobLifecycleProofs` (types, status and the outcomes of a step), `JobDataProofs`
(messages, slots and leases; pages, records and files) and `JobHandoverProofs` (no stage
leaves work behind, and a job can always move on). `JobCreationProofs`, `ProgressProofs`,
`CaptureProofs`, `AccessProofs` and `RecordProofs` stand on their own.

State of the pipeline. `job` is the `extraction_jobs` row (`lease` is none, live or
expired instead of a timestamp); `events` the lifecycle events; `outbox` every command
ever inserted, `published` those with `published_at`, `queue` those arq still holds;
`running[w]` the operation of worker slot `w`; `pages`, `records`, `validation`,
`exports`, `files` the other tables; `store` the blobs; `clients` what each cancel
request has read; `faults` the number injected so far.

Abstractions.

- *Pipeline.* URLs are model values and a visit links to any subset of the pages not yet
  known; a record is a page and a position, so the same record found again is the
  duplicate the unique constraint drops. Discovery and recovery take the first page by
  depth, then by time and id of its row (`services.py:641`, `786`, `2355`): `Rank` is
  that second order, one number per URL, because a URL gets its row once; extraction
  also orders by the time of the visit, which is left open (`Readable`). What planner,
  browser, validator and writers compute is a choice between success, transient failure
  (for the commands in `Retryable`) and final failure. Back-off delays and
  `available_at` are "any subset of the pending commands is published".
- *External code* (arq, Redis) is modelled from how `worker.py` and `queue.py` use it:
  a message stays queued while its function runs, leaves with it, and stays after
  `Retry` or the death of the process; `keep_result = 0` makes a finished id
  acceptable again.
- *Creation.* PostgreSQL is READ COMMITTED: a statement sees what is committed, a
  unique index makes an insert wait for the open transaction that inserted the same
  value, the advisory lock ends with the transaction. Requests are told apart as far
  as `request_fingerprint` does.
- *Progress.* An event is its number, and `endings` remembers which events announced an
  end. A handler moves the status it has read under the lock along the graph; a cancel
  request moves on from the one it read before, so that it may overwrite and announce a
  second ending. The unique index on the number is left out, so that the lock has to do
  without it. The session cookie is always renewed. Of a click on cancel the workspace
  sees the refresh that follows; its transaction is one of `Cancels`.
- *Capture.* What a page does is a choice of outcomes per stage; exports are reduced
  to the file they publish. The clock is a counter, expiry a number on it.
- *Access.* Times are whole seconds; a token is the key it names, and the check of its
  signature and claims always succeeds.
- *Records.* What a page says of a field is a token (a text, a JSON zero or false); HTML
  and JSON parsing and the matching of names stay outside, but normalisation, raw texts,
  identities, rules and cells are modelled by what they do to those tokens, in fields of
  eight types (`string` is `text`, `currency` is `number`). The tokens are chosen where
  the code splits: whole and broken numbers, truth values, mails inside other text,
  dates with and without a time, addresses without scheme, without host and of mail.
  Texts that break a reading off are left out (section 4).

Each `Slip` in a comment marks a variant of the next definition as a plausible bug
would have it. The variants are used by no specification; substituted for the
original they show that a property can fail.

## 3. Model checking

| Run | Module | States | What it shows |
|---|---|---|---|
| `MCCrawl` | `MCJobPipeline` | 229 thousand | A source, two links and a sitemap under a page cap of three, one survivable interruption: the caps hold, discovery and extraction hand over only when nothing is left, and every job ends. |
| `MCDelivery` | `MCJobPipeline` | 1.6 million | Two formats, leases that lapse under running work, a redelivered export, a cancel request: the job is never stranded, each format is published once, a completed job has all files and bytes, no upload is left behind, recovery always finds its work, and the status follows `JobLifecycle`. |
| `MCFaults` | `MCJobPipeline` | 1.2 million | Any two crashes, dropped, lost or repeated messages and late errors beside a cancel request that races with commits: work is claimed once, an ended job is quiet and keeps its ending, exports read validated data. |
| `MCCreation` | `MCJobCreation` | 176 thousand | Three clients with and without one key, twice each, one cut off anywhere: `JobCreation` implements `IdempotentCreation`, nobody waits for ever, every job is dispatched. |
| `MCProgress` | `MCWorkspace` | 478 thousand | A handler, a cancel request with its stale read, a client that reconnects, the workspace: no gaps, nothing missed, everything arrives up to an end, an announced end is shown. |
| `MCArtifacts` | `MCCapture` | 155 thousand | Two deliveries of one capture for one permit, with cancellation, both timeouts, a download, a sweep that fails: capacity, one recorded capture, retention. |
| `MCAccess` | `MCAccess` | 752 thousand | Two requests, two keys that rotate twice, a failing fetch, the clock over a window: limits and keys. |
| `MCRecords` | `MCRecords` | 741 thousand | Two pages of each of 84 kinds, with fields of six types, read up to twice, validated and exported under every policy. |

Four more runs are refuted; section 4 has them.

Bounds, and why they are enough. Two worker slots, writers of events, requests or
captures, because every hazard listed is a race of two operations (a third repeats one
of them); creation has three clients, since a wait can then have a waiter of its own.
One page where a run is not about the crawl; four where it is, with a cap of three, so
that the cap cuts a visit, the sitemap competes with a link, and two pages wait beside
the one that is visited. Two formats where the shared lease matters. Two faults in
`MCFaults`, so that a recovery can be interrupted once more. `MCArtifacts` has one
permit and a batch of one, so that captures wait and sweeps are cut; `MCAccess` has a
limit of two and a clock of one window, so that a third request meets an expired hit.
`MaxFaults`, `MaxSubmissions`, `MaxEvents`, `MaxIncidents`, `MaxTime`, `MaxFailures`,
`MaxRotations` and `MaxReads` are the counters the model adds; all others (attempts,
budgets, caps) are the code's. `MaxIncidents` counts broken connections and clicks on
cancel together: one, of either kind, in `MCProgress`, whose four events are
`job_queued`, a move, an ending and a second ending. That reaches FAILED and CANCELLED,
and COMPLETED differs from FAILED for no part of that model. `Blobs` bounds the uploads
alive at once. No symmetry is used. `ExportRecords` of `MCRecords` is not below the
record cap: `ExportTooLarge` does not arise in it.

Deadlock checking is off everywhere, because every one of these systems may really
stop: a job ends, clients stop posting, the clock reaches its bound. `NeverStranded`,
`EventuallyEnds`, `EveryRequestIsAnswered`, `EveryCaptureEnds` and `EveryCheckEnds` say
that nothing stops too early.

Fairness, always weak and only of what the code schedules by itself:

- `FairSpec`: dispatch and both recoveries (the 15-second cron), `LeaseExpires` (time
  passes), and each slot's `WorkerStep` (arq hands messages to free slots, every
  operation runs under `job_timeout`). Nothing of cancel requests or faults.
- `FairCreationSpec`: a statement that can proceed does, and the cron runs. Whether a
  client posts, or posts again, is its own affair.
- `FairProgressSpec`: generators poll, clients reconnect, timers fire and status
  requests are answered. Nothing makes the job move or a transaction commit.
- `FairArtifactSpec`: the hourly cleanup, the engine's own steps, and arq's
  `job_timeout`, which ends a capture that waits for a permit.
- `FairAccessSpec`: the steps of `verify()`; a fetch ends within its timeout because
  `Tick` waits for it.

`MCCrawl` injects the interruptions the design comes back from; section 4 lists those
it does not come back from. A message lost by Redis is another: nothing publishes it
again.

## 4. Where code and documentation disagree

Each run is refuted by TLC, its property stating the sentence quoted.

| Run | Documentation | Code |
|---|---|---|
| `MCExpiredLease` | `job-lifecycle.md:77` lease timeout allows recovery | the first recovery key of planning and capture is that of the original command (`services.py:2345`) |
| `MCExtractionRetry` | `phase6-extraction.md:58` transient failures retry | the first extraction command names no page to put back (`services.py:1303`) |
| `MCWorkspaceRefresh` | `phase9-progress-results.md:9` status is refreshed on SSE messages | the server names its events (`main.py:408`), `onmessage` only hears unnamed ones |
| `MCRawText` | `phase6-extraction.md:29` each stored field retains its raw text | `_text(raw)` turns a JSON 0 or false into "" (`extraction_service.py:196`), and validation then fails a correct value |

Met while modelling, without a run of their own:

- `cancel()` overwrites an ending it has not seen (`services.py:1977`;
  `job-lifecycle.md:55` calls ended jobs immutable). `NoResurrection` allows exactly this.
  The second announcement then reaches nobody who has been told of the first: such a
  client has stopped (`EveryEventArrives` ends there), and a page that shows COMPLETED or
  FAILED has dropped its stream and may keep it for good while the job is CANCELLED
  (`EndIsShown` asks for an announced end, not for the last).
- A cancelled job is CANCELLED in the request's own transaction (`services.py:1984`), not
  after active operations acknowledge (`job-lifecycle.md:71`); the acknowledgement
  branches of the workers are unreachable (`CancellationIsAtomic` proves it).
- The first format to finish releases the lease of all (`services.py:1684`): another
  that was interrupted is not queued again. `fail_export` does not ask for the
  export's own status (`services.py:1719`) and re-queues a completed one. Both against
  `phase10-export-lifecycle-repair.md:45`. `OneFilePerFormat` survives the second only
  because a recovery raises the attempt of an export to 2, the default of
  `export_max_retries`: with a larger budget the file is written twice.
- An exception after `complete_export` has committed deletes the bytes of the
  published file (`worker.py:522`).
- A page whose extraction was interrupted stays EXTRACTING: recovery sends the job to
  planning (`services.py:2330`), whose key is taken as in `MCExpiredLease`. A
  visit that outlives its lease and completes a page recovery has had visited again
  hands over while the next page is still QUEUED, since it only asks for DISCOVERED ones
  (`services.py:785`).
- An extraction command claims a page at each execution and never looks at those it
  claimed before (`services.py:1044-1049`): executed twice, it leaves a page unread.
- A capture that arq cancels while it closes its browser leaves the `finally` before
  the release of its permit (`browser_engine.py:256-258`).
- A crash between an upload and its row leaves a blob nobody refers to; the reconciler of
  `storage-and-operations.md:52` does not exist. A cleanup that cannot delete one row
  meets it first again at every sweep (`services.py:2245`).
- A status request that fails after its stream has ended leaves the workspace stale
  (`use-job-workspace.ts:123`).
- An address without a host is stored, since `urljoin` leaves `http://` as it is
  (`extraction_service.py:63`), and then fails `format.url.v1`
  (`validation_service.py:152`); a fraction is stored for an integer field and fails its
  type. One link text `urljoin` refuses (`http://[`) raises past the handlers of the
  extraction command (`worker.py:390`), and the page stays unread.
- CSV shows zero and False as empty cells (`export_service.py:66`); the identity of a
  record does not tell zero, False and missing apart (`extraction_service.py:208`); a
  rule over a pair of fields compares values of different types and may raise
  (`validation_service.py:199`); the first two requests of a new user race for the
  insert (`auth.py:139`).

Five properties name the case they exempt, each in its comment: `NoResurrection` and
`EveryEventArrives` with `EndIsShown` the overwriting by `cancel()`, `FormatsAgree` the
cells CSV empties, `FailuresAreExplained` the stored texts validation refuses. The other
limits are kept out of the passing runs by their constants: `Retryable` without
`run_extraction` in `MCCrawl` and `MCDelivery`, crashes and late errors only in
`MCFaults` (and the survivable ones in `MCCrawl`), `StaleLeases` only in `MCDelivery`,
`RacingCancel` only in `MCFaults`, answered status requests in `FairProgressSpec`.

## 5. Proofs

The proofs hold for every value of the constants that satisfies the named assumptions of
the modules (any number of slots, clients, pages, formats, keys, requests, captures and
faults; any budgets, caps and times). Finiteness is assumed only of the pages and the
records of a page (`StoreAssumption`) and of the captures (`CaptureAssumption`), for the
theorems about cardinalities. `StoreAssumption` also says that no two pages share a
`Rank` (they differ in id), and `NullAssumption` that NULL is not an operation. The
record rules assume a cap that is a natural number (`CapAssumption`), fields of the
eight types (`TypeAssumption`), documents of the shape the extraction reads and a bound
on readings (`ReadAssumption`), and the formats and policies the writers know
(`ExportAssumption`); nothing about how many pages and fields there are. Where a theorem
needs more (that a fault does not occur, that leases do not lapse under running work) it
says so in its ASSUME.

Pipeline:

- `TypeCorrect`: `TypeOK` is inductive as it stands, because `Command` and `Operation`
  tie the target of a command and of a claim to its type: this is what makes
  `running[w].target` a page in `CompleteDiscovery` and a format in `ExportError`.
- `LifecycleInvariant`: `LifecycleInv` adds that a requested cancellation is CANCELLED,
  that READY_FOR_EXPORT is never reached (recovery would fail such a job illegally),
  and that a cancel request is written only from a row that had not ended. `StepMoves`
  is the core: every step but a cancel write leaves status, flag and events alone or
  makes one legal, announced move. From it follow `CancellationIsAtomic`
  (`CancelledAtOnce`), `EndingsHold` (`NoResurrection`) and `ImplementsLifecycle`
  (`FollowsLifecycle` when `RacingCancel` is false: the refinement of `JobLifecycle`).
- `EndedJobStaysQuiet` (`EndedJobIsQuiet`) needs no invariant: every handler that
  writes data asks for an active status in the same transaction.
- `ExportsReadValidatedData` (`ExportedDataIsValidated`): inductive on top of
  `LifecycleInv`. Records grow only while the job is EXTRACTING, from where one step
  cannot reach the export stages; the step that does stores the results of all records
  in the same commit.
- `RecordsAreBounded` (`RecordLimit`): only `CompleteExtraction` adds records, and its
  result is cut to the room that is left, so the union fits.
- `PagesAreBounded` (`PageLimit`): `InventoryInv` adds that the inventory is empty until
  the capture and that every discovery command and operation names one of its pages.
  Without this a retried or recovered discovery could turn a rejected page into an
  admitted one outside the cap. `VisitGrows` follows a visit through its links,
  refusals and sitemap probe.

The work of the pipeline. `StepOutcomes` (`JobLifecycleProofs`) reduces every handler to
the few outcomes it has for a job that obeys the lifecycle: `PlanClaimed`,
`PageVisited`, `ExportRetried`, `TurnedAway`, ... The proofs below split a step into
these outcomes and not into handlers. They rest on `PipelineInv`: `LifecycleInv`;
`SlotInv` (a running operation's message is still queued, no two slots execute one
message, and, unless leases lapse under running work, nothing runs under an expired
one); and `OutboxInv` (a job is never in a status before the stage of one of its
commands).

| Theorem (property) | It assumes | Inductive beside `PipelineInv` |
|---|---|---|
| `RecoveryIsNeverIdle` (`RecoveryFindsWork`) | nothing | `WorkLeftInv`: a discovering job has a page to visit, a leased export a running row |
| `WorkIsNeverShared` (`WorkIsClaimedOnce`) | no stale leases | `ClaimInv`: every operation holds what it works on: lease and status of its job, the claimed status of its page or export |
| `InventoryIsExhausted` (`InventoryComplete`) | no stale leases | `ClaimInv`, `InventoryInv` and `VisitInv`: a QUEUED page is the only one to visit next, and a discovery command names such a page or a visited one |
| `VisitedPagesAreRead` (`EveryVisitedPageIsRead`) | no extraction is retried, crashed or redelivered | `ReadInv`: at most one extraction command is alive, and a page being read is read by the slot that executes it |
| `UploadsAreCleanedUp` (`EveryBlobIsOwned`) | no export is cut off | `BlobInv`: at each step of an export its blob is absent, in the store and unpublished, or published; no two slots hold one blob |
| `CompletedJobsDeliver` (`CompletedMeansDelivered`) | no late error of an export | `BlobInv` and `DeliveryInv`: files have their bytes, completed exports their file |
| `FormatsArePublishedOnce` (`OneFilePerFormat`) | no late error of an export; no stale leases, or `ExportRetries` at most 2 | `SoleInv`: a format with a file is COMPLETED, and one operation at most can still publish a format, unless recovery has raised the attempt of that export to its budget |
| `NothingIsStranded` (`NeverStranded`) | no extraction is retried, and none of the faults in `Stranding` occurs | `WorkLeftInv`, `InventoryInv` and `GoingOn`, below |

`GoingOn` (`JobHandoverProofs`) says for each stage what keeps it going: before extraction
a job without a lease has a message of its stage that no slot executes (`StartInv`); an
extracting job has a page being read or a message that will find one, and a follow-up
found in the outbox still waits (`ReadsOn`); a validating job has its message
(`ValidInv`); a queued export has a waiting message of its format, and a running one its
operation (`ServedInv`, `NamedUploads`). `KeyInv` (a key names the kind of its command) is
what makes a skipped insert mean that the same command exists.

The hypotheses are the ones the code needs. TLC violates `NeverStranded` with each
element of `Stranding` alone, and with a retryable extraction: a lost message is published
by nobody again; the page of an extraction that was cut off, dropped or retried is never
offered again, and recovery has no phase for that status; a dropped validation is the
same; an export that dies or is dropped loses the lease another format gives up. It
violates `InventoryComplete` with stale leases, `EveryVisitedPageIsRead` when an
extraction is executed twice, and `OneFilePerFormat` with stale leases and four attempts
(section 4). Everything else may happen: other crashes, redeliveries, retries and
dropped operations, any number of them, and any cancel requests.

`VisitInv` corrected the model: while the next page was any of the shallowest, recovery
could put one page back and queue another. The code orders by time and id as well
(`Rank`), and with that order the invariant holds. That a first page exists follows from
the well-foundedness of `<` on the naturals (`LeastNatural`).

Creation (`JobCreationProofs`): `CreationTypeCorrect`, `KeysAreIdempotent`
(`OneJobPerKey`), `CommittedJobsAreComplete` (`JobsAreComplete`) and
`CreationKeepsItsPromise` (`KeepsItsPromise`, the refinement of `IdempotentCreation`).
The inductive invariant says what an open transaction has written at each phase
(`WrittenInv`), that ids are of the past (`JobsInv`), that every keyed job has its key
row and the key its job (`KeysInv`), that no two transactions hold one index entry
(`IndexInv`), and that a committed request has its job (`CommittedInv`);
`JobsAreComplete` is inductive beside them. `ReplayEnds` covers a replay, which
dispatches like any accepted request. The unique index, not the lock, carries these
proofs: the lock only decides who gets an error, which is `KeysNeverCollide`
(`OnlyForeignCollisions`), from `CollisionInv`: whoever is past the lock of its key
holds it until it ends (`LockInv`), and a request that found no source where there is
one now has a rival under another key, or none, that wrote it (`SourceInv`).

Progress (`ProgressProofs`): `ProgressTypeCorrect`; `EventsAreNumbered` (`LogIsGapless`)
from `DraftInv` (only the holder of the row lock has a draft, and it continues the log,
whatever status it has read); `NothingIsSkipped` (`NothingIsMissed`) from `InStep` (a
connected stream's cursor is the client's last event, and its batch continues it).

Capture (`CaptureProofs`): `ArtifactTypeCorrect`; `CapacityHolds` (`CapacityIsBounded`)
from `PermitInv` (free permits and holders do not exceed the permits; equality fails
because of the permit section 4 mentions); `OneCaptureIsRecorded` (`OneCapturePerJob`)
from `RecordedInv` (a job still to be captured has no rows); `UnexpiredIsKept`
(`UnexpiredHasBytes`) from `ExpiryInv` (a sweep only locks what has expired).

Access (`AccessProofs`): `AccessTypeCorrect`; `WindowsAreBounded` (`WindowIsBounded`)
from `LimiterInv` (the deque is a suffix of the admissions, and what it has lost is too
old); `PublishedKeysAreKnown` (`PublishedKeyIsKnown`) from `KnownInv` (what a request
finds after it has dropped the cache contains its key if that was published all along);
`WithdrawnKeysExpire` (`WithdrawnKeyExpires`) from `TimeInv` (the cache is at most one
fetch older than its stamp).

Records (`RecordProofs`): `RecordsAreStoredOnce` (`RecordsTypeOK`),
`ReadingIsIdempotent` (`ReadingAgainAddsNothing`), `FailuresHaveReasons`
(`FailuresAreExplained`), `FilteredFilesAreSound` (`FilteredRowsAreSound`) and
`AllFormatsAgree` (`FormatsAgree`). `FlowInv` adds to `RecordsTypeOK` that every row is
a record some page can make, that the rows of a page read before are all there unless
the cap is reached (which is why a second reading stores nothing), that the verdicts are
those of the stored rows, and that a file holds the dataset of these rows.
`NormalisedPasses` is the agreement of extraction and validation: a value `normalize()`
makes is of its type and has its format, unless it is a fraction for an integer or an
address without a host; with `KeptTextsPass`, a kept text other than the lost one of a
JSON scalar gives the stored value again. A loop over a sequence is a function on `0 ..
n`. Induction schemes that take an operator are out of the prover's reach, so `Counting`
states induction for sets, from the well-foundedness of `<` on the naturals, and
`Recursion` proves with it that the functions exist and have the type of their steps.

The type invariants of the components around the pipeline, and `CancelledAtOnce`, are
theorems and have no run.

Every safety property of every passing run is thus stated by a theorem. Only model-checked
are the liveness properties, which need fairness and ENABLED (`EventuallyEnds`,
`EveryRequestIsAnswered`, `EveryJobIsDispatched`, `EveryEventArrives`, `EndIsShown`,
`EveryCaptureEnds`, `ExpiredIsRemoved`, `EveryCheckEnds`), and that the code violates the
four claims of section 4, which only a counterexample can show.

## 6. Not modelled

`PROJECT.json` has every component with its status. Left out: URL and browser policy and
the planner's rules (pure functions of their input; their verdict is a choice); results
projection and document layout (reading only); principal resolution, claims and the
session cookie (a library call and one row); configuration, logging and migrations;
components and forms of the web application; the rules of validation about evidence,
provenance, quality and named pairs of fields (a plan with such a pair can fail a record
for a reason `FailuresAreExplained` does not list). `max_tries` of arq and delays are
left out: a message is redelivered as often as the code asks.

## 7. What is left

1. Recovery over several jobs: one cron transaction, one colliding key.
2. Several worker processes and their permits; discovery and extraction as users of
   the browser engine.
