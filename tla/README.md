# Summa Vision: TLA+ models, runs and proofs

Summa Vision turns Statistics Canada data into published infographics and trades
the high-resolution files for email addresses. This directory holds TLA+ models of
its backend, the TLC runs that check them on small instances, and theorems about
them that TLAPS has proved. Paths below are relative to `backend/src/` when
they begin with `api/`, `core/`, `models/`, `repositories/` or `services/`, and to
the repository otherwise.

The modules are about what is hard to see in a test: transactions of several
requests that overlap, answers that precede their commit, exits between two steps,
rows that are decided on at one moment and written at another. Formatting,
rendering, parsing and I/O are left out.

## 1. Inventory

### How the parts fit together

One container runs one uvicorn process with one worker (`backend/entrypoint.sh`:
`--workers 1`), restarted by `restart: unless-stopped`. Inside it, one asyncio loop
runs the FastAPI requests, the job runner's task and the APScheduler jobs; they
share no state but PostgreSQL (READ COMMITTED), the object storage and a few tables
in memory (rate limiters, the token bucket of the StatCan client, the Slack dedupe
table). The seed script for semantic mappings is a process of its own.

Requests, with few exceptions, are one SQLAlchemy session and one transaction:
`get_db` (`core/database.py:81`) yields the session, commits after the handler and
rolls back on an exception. Three properties of the libraries decide what that means,
and the models rest on them:

- FastAPI 0.118 and later runs the code after the `yield` of a dependency when the
  response has been sent *and its background tasks are over*. Answers, mails and
  redirects therefore precede the commit.
- The session's identity map: a second SELECT of a loaded entity does not overwrite
  its attributes; a rollback expires all of them; a read of an expired attribute
  outside an await raises `MissingGreenlet`; a flush writes only changed columns.
- PostgreSQL: an INSERT that conflicts with an uncommitted one waits; an UPDATE waits
  for the row and re-evaluates its WHERE; after an error a transaction is aborted, and
  its COMMIT is a silent ROLLBACK.

### Components

| Component | State it keeps | Operations | What is hard | What makes it correct | Here |
|---|---|---|---|---|---|
| Job queue and runner | table `jobs`; locals of `_try_claim_and_execute`; `app.state.shutting_down` | enqueue with a dedupe key, admin retry, claim, execute, succeed or fail with requeue, cool-down, reaper at startup, shutdown | check-then-write without locks, exits between claim and outcome, two budgets of attempts, a loop nobody restarts | one active job per key, bounded executions, outcomes recorded on the claimed row, every queued job settles | `JobQueue`, `JobContract` |
| Job handlers (catalog sync, cube fetch), temporary uploads, object storage | table of cubes; raw and processed objects; objects under `temp/uploads/` | the stages of the handlers; upload and enqueue; the hourly cleanup under its caps | storage is in no transaction, a stage may fail or the process exit after any of them; references collected before the deletion | a table has its raw copy, a live job keeps its upload, what nothing refers to goes | `TempUploads`, `JobHandlers` |
| Graphics pipeline, lineages and slugs of publications | draft rows, three objects each; slug and version of a lineage | create, clone, stages 6 to 13 of the pipeline, undo of uploads | names computed from a read, unique constraints, a stage that fails after others have left something | versions contiguous, slugs unique, a row never names files that are not there | `PublicationLineage`, `GraphicPipeline` |
| Publication lifecycle | table `publications`: status, review JSON, `updated_at` | create, PATCH with If-Match, publish, unpublish, clone | stale copies in sessions, ETag answered before the commit, two columns that say the same thing | If-Match protects what the client saw, status and workflow agree, visible rows were announced | `Publications` |
| Block snapshots and staleness | table `publication_block_snapshot` | capture on publish, compare, severity, aggregate | blocks resolved one after the other while cache and mapping move | a snapshot is one answer of the resolver; a quiet comparison reports what is | `Staleness` on `ValueCache` |
| Semantic value cache and resolve | table `semantic_value_cache` | resolve with auto-prime, prime after a save, `refresh_all` and its marking | each step in its own transaction, answers stored out of order | what is served is genuine, of the pinned cell and the period asked for; it goes back in time only when an overtaken answer is stored | `ValueCache` |
| Semantic mappings | table `semantic_mappings` with `version` | upsert with and without If-Match, batch upsert of the seed script, soft delete, validation against the cube's metadata | compare-and-swap against ORM writes, retries in one session, batches that lock many rows; metadata that change after the save | versions identify contents, no lost update under If-Match, calls end; a request gets the cell the names denote | `SemanticMappings`, `MappingPins` |
| Cube metadata cache | table `cube_metadata_cache` | get or fetch, `refresh_all_stale` | concurrent first fetches, callers that disagree about the product, UPDATEs of changed columns only | what is answered is published and under the product named, and of it as long as the callers agree; requests end | `MetadataCache` |
| StatCan client | token bucket, retry state; one of each per request or job | guard, reserve a token, sleep, request, back off | waiting before and after the maintenance check | a bucket never owes more than one token | `StatCanClient` |
| Lead capture and download tokens | tables `leads`, `download_tokens`; the resend limiter in memory | capture, resend, mail, score, download | mail and redirect before the commit, unique conflicts, row locks of two request types | a link is exchanged `max_uses` times, one link per lead, a mailed link works | `LeadCapture` |
| Newsletter (ESP), sponsorship inquiries | `esp_synced`, `esp_sync_failed_permanent` | admin resync, answers of the ESP, inquiry | answers that are lost, marks that are committed at the end, rows locked until then | a mark is what the ESP answered, counted once; resyncs end | `LeadSync` |
| METR calculator | none | taxes, benefits, curves, dead zones, comparison, cards | clawbacks that overlap, brackets, rounding | a raise pays, zones are the maximal dead runs, cards add up | `MetrEngine`, `MetrCurve` |
| Data workbench | stored tables | merge, filter, aggregate, changes, rolling average | changes that count rows and not months, keys of joins, the order of rows | a merge has the keys its type promises, a change compares with the month it names | `DataWorkbench` |
| Scheduler | APScheduler jobs | daily and hourly jobs | overlap of periodic work and requests | no overlap harms | a step of the modules above |
| Editor state (`frontend-public`) | reducer state, undo stack, autosave refs | commands, undo and redo, workflow transitions, debounced autosave | answers that arrive after further edits, 412 and clone | no edit is lost silently; transitions follow the workflow graph | planned |
| KPI and audit, authentication, public gallery, document registry, public site, Flutter app | | | | | not modelled: reads, pure functions of documents, screens |

How they talk: routers enqueue jobs; the runner's handlers call the StatCan client,
storage and the pipeline, which creates publications; a publish resolves its blocks
through mappings, metadata and value cache; a resolve that misses goes to the StatCan
client; the scheduler's jobs refresh both caches and clean up the uploads; captures and
inquiries leave leads to the resync.

`PROJECT.json` lists all of them with their sources, and under `hazards` each place
that is hard to test, with the properties that would notice it going wrong.

## 2. The modules

Conventions. One action is what happens between two points at which the code gives
up control and something it has read can go stale: a statement, or several whose
effects nobody can tell apart. Each module's comments name the function behind each
action. `pc` fields name the next step of a handler. Identifiers of rows, keys,
requests and addresses are model values; clocks and counters are bounded by
constants named `Max...`, whose comments say what they bound. Where the code depends
on elapsed time (ten minutes for the reaper, twenty-four hours for the cool-down, a
rate limiter's window, the expiry of a token) the time passes in an action of its own
at any moment.

An operator that stands right before a definition, is used nowhere and differs from
it in one point (`MatchesAny` before `Matches`, `ReapableOneMore` before `Reapable`)
is a plausible fault of that definition. Putting it in the definition's place breaks
the property `PROJECT.json` pairs it with; that is how each property was tried out.

### JobQueue and JobContract

`jobs` is the table, `runner` the locals of `_try_claim_and_execute`, `client` and
`admin` the requests that enqueue and retry, `proc` the process. `claims`, `reaps` and
`late` are history.

| Code | Actions |
|---|---|
| `JobRepository.enqueue` (`repositories/job_repository.py:45`) and the commit of the router | `EnqueueFind`, `EnqueueInsert`, `EnqueueRefind`, `EnqueueCommit` |
| `retry_failed_job` (`:250`): checks, then an UPDATE by id | `RetryRead`, `RetryWrite` |
| `claim_next` and its audit event | `Claim` |
| `_try_claim_and_execute`: payload, cool-down, handler, outcome | `ParsePayload`, `CheckCoolDown`, `HandlerReturns`, `HandlerRaises`, `Succeed`, `Fail` |
| statements the database refuses inside the loop | `DatabaseFault` |
| `lifespan` in `main.py`: reaper and start, SIGTERM, the thirty seconds | `Boot`, `Shutdown`, `ShutdownEnds` |
| an exit at any moment; passing time | `Crash`, `ClaimAges`, `FailureAges` |

Every cube_fetch key belongs to a product (`Product`), whose contract violations the
cool-down counts. Rows that an older deployment left (`Leftovers`) may have a type the
registry does not know, which is a permanent failure, or a payload that fails its
validation, which neither `except` names: it ends the loop (kind `"poison"`).
What a handler does is its outcome.

`JobContract` is what the routers and the operator are promised: at most one active
job per key, an active job ends in success or failure, success is final, only failed
jobs come back. `JobQueue` implements it (`Contract == INSTANCE JobContract WITH ...`:
queued and running are both "active", rows not yet committed are absent) as long as no
two retry requests are between their checks and their write (`OneRetryInFlight`); one
after the other there may be any number.

### LeadCapture

`leads` and `tokens` are the committed rows, `request` and `download` the locals of
`capture_lead` and `download_file`, open transactions included; `recent` is the
resend limiter. `mailed`, `granted` and `lost` are history.

| Code | Actions |
|---|---|
| `capture_lead` up to `get_or_create` (`repositories/lead_repository.py:123`) | `Arrive`, `InsertNew`, `InsertConflicts` |
| the resend flow (`api/routers/public_leads.py:316`) | `Resend`, `ReadToken`, `Revoke`, `RenewalRaises` |
| background tasks: mail, then `_score_notify_sync` | `SendEmail`, `Score` |
| `get_db` | `Commit`, `RequestFails`, `CountUse`, `CountFails` |
| `activate_atomic`, look-ups, redirect (`api/routers/public_download.py`) | `Activate`, `LookupFails`, `Redirect` |
| passing time; a restart of the process | `WindowPasses`, `Expire`, `Restart` |

A resend never ends well today (see section 5), so a revocation is never committed
and the column is left out of the tokens.

### Publications

`row` holds the committed rows. A request has `seen` (the row as first read: what the
handler's If-Match and its decisions use), `view` (the object in its session) and
perhaps the row lock (`holds`). `updated_at` is PostgreSQL's `now()`, the start of the
transaction, so `clock` counts transactions and serves as the ETag: with the id, which
never changes, `updated_at` is what tells versions apart in `compute_etag`.

| Code | Actions |
|---|---|
| PATCH `/{id}` (`api/routers/admin_publications.py:389`) | `PatchReads`, `PatchFields`, `PatchStatus`, `Refused` |
| POST `/{id}/publish` (`:536`) with `SELECT ... FOR UPDATE` | `PublishReads`, `PublishRow`, `Refused` |
| POST `/{id}/unpublish` (`:694`) without a lock | `UnpublishReads`, `UnpublishRow`, `UnpublishMirrors` |
| POST `/` and POST `/{id}/clone` | `Create`, `CloneReads`, `CloneCommits` |
| `get_db` after the answer | `Commit`, `CommitOfAborted`, `RequestFails` |

A flush writes the columns that differ from the session's object and leaves the others
as the last writer left them; `Latest` and `Write` express that.

### SemanticMappings

`row` is the table, `pending` what open transactions have written (having written a row
is holding its lock), `writer` the locals of `_upsert_atomic` and `soft_delete`, `asked`
what the caller sent and the row it had seen. `written` and `overtaken` are history.

| Code | Actions |
|---|---|
| `upsert_validated`, `upsert_many_validated` (`services/semantic_mappings/service.py:283`) | `Upsert`, then per item `Insert`, `Select`, `Update`, `UpdateMisses` |
| `soft_delete` (`repositories/semantic_mapping_repository.py:253`) and the `before_update` listener | `Delete`, `Deactivate` |
| the session's end; a failing statement; PostgreSQL's deadlock detector | `Commit`, `CallFails`, `DeadlockBroken` |

Contents are named by the number of the call that wrote them, so two rows are equal
just when they are the same write.

### TempUploads and JobHandlers

`upload` holds the objects under `temp/uploads/` and their age, `jobs` the statuses of
the queue (`JobQueue` has the rest of it; here any failure may be the last), `cleaner`
the locals of `cleanup_temp_uploads`. `JobHandlers` extends it by `raw`, `table` and
`catalog`, which the two fetch handlers write, and `runner`. A job's `late` says that it
became active only when its upload had expired or was gone.

| Code | Actions |
|---|---|
| `generate_from_data` (`api/routers/admin_graphics.py`): the object, then its job | `UploadData` |
| POST of a graphic, a fetch, a sync; admin retry | `GenerateGraphic`, `TriggerCubeFetch`, `TriggerCatalogSync`, `Retry` |
| `cleanup_temp_uploads` (`services/storage/temp_cleanup.py`) | `CleanStart` (cutoff and references), `CleanList`, `CleanDelete` |
| `_try_claim_and_execute`, the reaper, an exit | `Claim`, `Succeed`, `Fail`, `Boot`, `Crash` |
| the load of the pipeline; `DataFetchService`; `CatalogSyncService` | `Load`; `CheckCube`, `DownloadCsv`, `SaveRaw`, `ParseAndValidate`, `SaveParquet`; `FetchCubeList`, `UpsertBatch` |

### PublicationLineage and GraphicPipeline

`rows` is the table with the rows that are flushed and not committed (`owner`), `maker`
the locals of a request or of the pipeline, `files` what storage has under
`publications/<id>/`.

| Code | Actions |
|---|---|
| `create_full`, `clone_publication`, stage 6 of `generate` | `Create`, `Clone`, `Generate` |
| `get_latest_version`, `_get_existing_slugs` with `generate_slug` | `ReadVersion`, `ReadSlugs` |
| the INSERT under both unique constraints, the loop of `create_published` | `Insert`, `NextAttempt`, `Collides` |
| `get_db` and the pipeline's sessions | `Commit`, `DraftCommits`, `Abort`, `Answer` |
| stages 10 to 13 and their undo (`services/graphics/pipeline.py`) | `Upload`, `PublishKeys`, `Undo`, `Audit` |
| an exit | `Exit` |

`LineageKeyed` says whether stage 7 passes the `lineage_key` that `create_published`
demands. As the code stands it does not (FALSE), no graphic gets past that stage, and the
stages behind it cannot be studied; the run has it TRUE.

### ValueCache and Staleness

`ValueCache` is one mapping with the rows cached under every coord it has had. `cache`
is the table (the revision a row came with, and `is_stale`), `published` what StatCan
has, `req` the locals of `resolve_value` and of the prime after a save, `refresh` those
of `refresh_all`. `Staleness` adds the snapshots of one publication, the capture within
the publish request and the comparison, each resolving its blocks as a request of
`ValueCache`. `pins`, `moved`, `overtaken` and `lateRefresh` are history: the last two say
whose answer was fetched before another one for the same cell was stored.

| Code | Actions |
|---|---|
| `resolve_value` (`services/resolve/service.py:132`) | `Ask`, `Validate`, `Read`, `Prime`, `Persist`, `Requery`, `Finish` |
| an edit or a deletion of the mapping (their own steps: `SemanticMappings`) | `SaveMapping`, `SoftDelete` |
| `refresh_all` (`services/statcan/value_cache.py:184`) | `RefreshStart`, `RefreshFetch`, `RefreshPersist`, `RefreshSelect`, `RefreshUpdate`, and what fails |
| `capture_for_publication` and the publish's commit | `Publish`, `CaptureBlock`, `CaptureStore`, `PublishCommit`, `PublishFails` |
| `compare_for_publication` | `Compare`, `CompareBlock`, `CompareResult`, `CompareEnds` |
| Statistics Canada | `Release` |

The coord that a version pins is taken as fixed here; that it can move with the cube's
metadata is the subject of `MappingPins`.

### StatCanClient and MetadataCache

`client` is the bucket and the locals of `request()` of each caller: every request and
every job builds both anew, so a bucket is never shared. `row` is one cube's row, `req`
the locals of `get_or_fetch` and `refresh`, `published` the metadata at StatCan. `named`
and `raced` are history: the products the requests have named, and whether an UPDATE has
found a row of another product than the SELECT before it.

| Code | Actions |
|---|---|
| maintenance guard, token bucket, retries (`services/statcan/client.py`) | `Request`, `Accrue`, `Acquire`, `Wake`, `Retryable`, `BackedOff`, `Respond` |
| `get_or_fetch`, `refresh_all_stale` (`services/statcan/metadata_cache.py`) | `Ask`, `Sweep`, `ReadRow`, `Fetched`, `FetchFails` |
| `_persist` with the repository's upsert | `Select`, `Insert`, `InsertLoses`, `Update`, `WriteFails` |

As the code stands the nightly jobs that would call `refresh_all` and `refresh_all_stale`
do not get to them: their wrappers call `AsyncTokenBucket()` without its arguments, and the
TypeError is logged. Both operations are therefore steps that may happen at any time or
never. What they do to concurrent requests is checked; no property relies on their coming.

### LeadSync

`saved`, `synced` and `failed` are the columns of the committed leads, `accepted` and
`refused` what the ESP has answered for an address, `resync` the locals of
`resync_leads` (`api/routers/admin_leads.py:55`) with the rows it has marked and not
committed. Actions: `CaptureLead`, `Inquire`; `Begin`, `Take`; the answers `Accept`,
`Refuse`, `NoAnswer`; `MarkSynced`, `MarkFailed`, `CommitMarks`, `Abort`.

### The calculations

`MetrEngine` has the 2025 parameters and the functions of `services/metr/engine.py` in
integers: dollars for incomes, ten-thousandths of a dollar for amounts. `MetrCurve`
computes a curve point by point and scans it for dead zones (`AddPoint`, `ScanPoint`,
`AnswerCurve`), and answers comparisons and cards in one step. `DataWorkbench` is
`transform_data`: `Start` merges, `Apply` runs one operation; a cell is the set of source
cells it was computed from, so that a wrong row or month shows without arithmetic.
`MappingPins` goes from a mapping's names to a coord: `SaveMapping` validates and primes,
`Refetch` renews the metadata, `Resolve` is what `resolve_value` makes of a caller's
`dims` and `members`.

## 3. The runs

Sizes are distinct states. Deadlock is not an error in any run: the bounds let the
system come to rest, and requests need not come.

| Run | Instance | What it shows |
|---|---|---|
| `jobs_overlap` (1.4 M) | two enqueues and two retries of one key, three rows of which one is a leftover, budget 2, cool-down threshold 1, one exit, one fault | uniqueness per key, the claimed row stays the runner's, the execution budget, orphans only after a fault, the cool-down; the inductive invariant |
| `jobs_progress` (593 k) | two enqueues, two retries one after the other, two keys, two rows, one exit, one fault | `JobQueue` implements `JobContract`; a queued job settles, is orphaned, or the loop has died |
| `jobs_stale_retry` | one job, two overlapping retries | the one violation (section 5): the second write queues a job that is running |
| `handlers` (283 k) | two uploads, two jobs of any kind, one deletion and two listed keys per cycle, one exit, two revisions of the table | no live job loses its upload, a table has its raw copy, what no job names goes |
| `pipeline` (90 k) | two administrators and the pipeline, one headline, a published graphic and two further rows | versions, slugs, refusals, files behind keys; everyone ends |
| `pubs_overlap` (503 k) | two requests of any of the five endpoints, two rows, four transactions, one fault | guarded publish, status and workflow in step, the answered tag, the audit event; the inductive invariant |
| `values` (1.3 M) | one mapping, two coords, two dated periods and an undated one, two blocks, a publisher that may also be a plain request, a comparer, two releases by StatCan, two calls of the API, a refresh | what is cached, served and captured is genuine and of the pinned cell; comparisons report what is; only overtaken answers take the cache back |
| `statcan` (192 k) | three requests by two callers that name two products for one cube, a sweep, buckets of one token, one retry, two revisions | under which product and with whose dimensions a caller is answered; no bucket owes more than a token; requests end |
| `mappings` (72 k) | two writers, two mappings, three calls, one fault | versions name rows, If-Match protects what was seen, calls end; the inductive invariant |
| `leads` (156 k) | two captures and two downloads of one pair, three token ids, two uses, one exit, one fault | use limit, one link per lead, links are backed, requests that wait for each other end; the inductive invariant |
| `lead_sync` (83 k) | two resyncs over three leads of one visitor, two leads per resync, two attempts | marks are what the ESP answered, counted once; resyncs end |
| `calculations` (69 k) | every province and family with up to two children, curves from 15 000 to 155 000 dollars in steps of 5000 (couples also from 40 000 to 50 000, families of two children from 18 000 to 48 000 in steps of 500); tables of four months and two geographies, merges of up to three; cubes of up to two dimensions | METR, workbench and pins |

### Properties

- **DedupeUnique**: the partial unique index and the two look-ups around it leave one
  queued or running job per key, whatever requests, retries, requeues and reaper runs
  overlap.
- **HeldRowIsOurs**: between claim and outcome the claimed row is active and has the
  attempt count the runner remembers. `mark_success`, `mark_failed` and the requeue
  write by id without a condition; this is what they rest on.
- **BudgetRespected**: a job is executed at most `max_attempts` times, plus once per
  retry whose write came late; the reaper's own increment makes `attempt_count`
  overshoot by one at most.
- **OrphanNeedsFault**: no path of the loop forgets a row in `running`.
- **CoolDownBounds**: although looking and recording are different sessions, a product
  never collects more recent violations than the threshold.
- **ContractSpec**: refinement of `JobContract`. **QueuedJobSettles**: oldest-first with
  requeues at the head starves nobody.
- **UploadsKept**: a job that became active before its upload expired keeps it through
  retries, restarts and the reaper, although the cleaner collects references first and
  deletes later. A retry that comes after the expiry may lose it; such jobs are `late`.
  **UploadsGo**: uploads that stuck jobs refer to do not use up the deletion cap.
  **StoreInv** (`TableHasRaw`): a table has a raw copy at least as new, wherever a fetch
  stopped. The raw copy may be the newer one: a later fetch that failed has replaced it.
- **LineageInv**: versions of a lineage are contiguous and slugs unique although both are
  computed from a read; what is refused had a committed rival; a row that names its files
  has all three, whichever stage or undo failed. **CreationsEnd**: inserts that wait for
  each other's slugs and versions do not wait for ever.
- **PublishGuarded**: the lock closes the window between If-Match and the UPDATE of a
  publish. **SyncKept**, **TagKept**, **AnnouncedKept**: a handler that nobody overtook
  leaves status and workflow in step, has answered the ETag its commit produces, and
  does not show a row without its event. The condition (`Undisturbed`) is necessary:
  without it each of the three fails.
- **ValueInv** (`Genuine`, `OnPinnedCell`), **NoCoordDrift**: whatever is cached, in flight
  or served was published, belongs to the cell pinned by the version it is served with
  and to the period asked for, although edits, primes and the refresh overlap.
  **NoGoingBack**: nothing orders answers by when they were fetched, so the cache can go
  back to an older revision or lose a period; it does so only when a request or a refresh
  stores what another answer for the cell has overtaken. Both are reached in the run.
- **SnapshotsGenuine**: a committed snapshot is one answer of the resolver for its block,
  also where a later publish failed to resolve it. **ReportTrue**: if nothing is written
  while it runs, a comparison says fresh, stale or unknown exactly when it is.
- **MetaInv** (`Served`): a caller gets published metadata under the product it named, and
  with that product's dimensions unless an UPDATE has lost a race. Callers that disagree
  can leave a row with the product of one and the dimensions of the other, and a third
  request is served it: the run gets there. `RaceNeedsDispute`: that takes requests that
  name two products for one cube. **RequestsAnswered**: through maintenance, waiting for
  tokens and retries, every request for metadata comes to an answer or an error.
- **VersionNamesRow**, **GuardKept**: for a mapping none of whose deletions was overtaken,
  no version was ever used twice, and an update with If-Match replaces the row its caller
  has seen. **CallsFinish**: batches that deadlock are broken up and every call ends.
- **GrantsBounded**: overlapping downloads do not exceed `max_uses`, apart from redirects
  whose commit failed. **OneLinkPerLead**, **LinkBacked**: overlapping captures leave one
  link, and without an exit or fault a mailed link has its row or a request about to
  commit it. **RequestsFinish**: the row locks of captures and downloads form no cycle.
- **SyncInv**: a lead is marked, or about to be, only for what the ESP has answered for its
  address; no lead is counted twice; resyncs exclude each other on a row. **ResyncsEnd**:
  they lock in one order.
- **MetrInv**: net income rises along every curve (from point to point, which are 500
  dollars apart or more, not from dollar to dollar), the zones are the maximal dead runs
  during the scan and in the answer, the peak is the first of the highest points, rankings
  and cards add up. The run has coarse steps for most households; that no cliff hides
  between them is what the theorem says, for every income and every step of 500 or more.
- **PinsHold**: whatever the metadata have become since the save, a request that is let
  through gets the cell the mapping's names denote now, and a primed cell is one a request
  can name. **TransformSteps**: a merge has one row for each key its join type promises
  with the cells of that key; where months are complete, a change compares a row with the
  same geography exactly a year or a month before.

`JobInv`, `LeadInv`, `SyncInv`, `MappingInv` and `PublicationInv` are the inductive invariants of
section 4, checked before they were proved. The inductive invariants of the other components
stand in the proof modules, and the properties follow from them.

### Why the bounds are enough

Two concurrent requests of a kind are the least number that races; the locks are per
row and no code path looks at more than one other transaction at a time, so a third
request adds queueing, not a new conflict (the proofs in section 4 are for any number).
Budgets of two let a job be claimed, fail, be reaped and be claimed again with one
attempt left and none; a threshold of one puts the cool-down at its limit. Four
publication transactions are a creation, a publish and two that overlap on the visible
row. Three mapping calls are a creation and two writers that overlap on it, two keys the
least on which batches can wait for each other. One exit and one fault can strike at
every step; a second one meets a state that the first has already produced by rolling
back.

- `handlers`: two uploads with a deletion cap of one let a kept upload compete with one
  that may go. The listing cap is not below the number of uploads: with more objects than
  `max_list_keys`, of any age and listed by key, those at the end are not seen until others
  have gone, and `UploadsGo` would not hold. The two jobs may be of one kind or two.
- `pipeline`: three makers race for two rows of one headline, so that a slug, a version,
  or both, are contended, and the first row has a lineage to continue.
- `values`: two releases during the run let answers of three revisions be stored in any
  order, so that one overtaken answer may replace another; the undated period is the one
  `pick_row` prefers; windows of two and one let marking and priming disagree. The two revisions carry one value and
  differ in what else StatCan says of it, which is the case a comparison of values would
  miss. The order of three concurrent writers is covered by the proof, for any number.
- `statcan`: a bucket of one token makes every second call wait. Of three requests two
  leave a mixed row and the third is served it.
- `lead_sync`: with one address an accepted and a refused answer for the same visitor meet
  in one request; several addresses are covered by the proof.
- `calculations`: a year is two months long and a coord has two slots, so that the limits
  are reached with few rows. Names are a letter in two cases (`Normal` drops the case).
  METR amounts stay below 2^31 for incomes up to 165 000 dollars.

### Fairness

- `JobQueue`: the event loop goes on with a live runner, handlers end (their HTTP calls
  have timeouts), the container is restarted, a flushed insert is committed or rolled
  back. Requests, exits, faults and the passing of time are not fair.
- `JobHandlers`: the process is restarted, the cleaner runs every hour; strong fairness
  for a listing that works and a deletion that succeeds: storage does not refuse for ever.
- `GraphicPipeline`: weak fairness per maker and for the pipeline's storage steps, strong
  for the insert: PostgreSQL wakes a waiting one when its rival has ended.
- `MetadataCache`: weak fairness per caller, which is a coroutine of the event loop whose
  HTTP calls have timeouts. That requests or the sweep come is not assumed, nor that
  StatCan ever answers. `ValueCache` and `Staleness` are checked without fairness.
- `LeadCapture`: strong fairness for the statements that wait for a row (PostgreSQL
  serves a row's waiters in turn), weak fairness for the rest of a request.
- `LeadSync`: weak fairness per request, strong for the marks, which wait for rows.
- `SemanticMappings`: weak fairness per call. Row hand-over needs no more since calls
  are finitely many, and `DeadlockBroken` is PostgreSQL's detector.

## 4. The proofs

A component's theorems are in a module `...Proofs` that extends it; `LeadProofs`,
`HandlerProofs` and `CalculationProofs` hold those of two or three components. They hold for any
number of requests, keys, rows and transactions, under the `ASSUME`s of the modules: the
bounds are natural numbers, `NoKey`, `Nobody`, `NoOne`, `NoReview`, `NoProduct` and `Keep`
are not members of the sets they are told apart from, budgets, thresholds and windows are
positive. Three assumptions say more:

- `RequestConstants` (`MetrCurve`): the step of a curve is 500 dollars or more, which is the
  bound of the query parameter (`api/routers/public_metr.py`). Incomes and children may be
  any natural number, more than the API admits.
- `PinConstants` (`MappingPins`): the dimensions of a cube and their members are finite lists,
  and no member has the id 0, which in a coord means "not used".
- `WorkbenchConstants` (`DataWorkbench`): a request names at least one source, and a source
  is a finite table: its rows have a cell for each of its columns (`Shaped`), and a source
  cell carries the key of the row it stands in (`Located`), which is what it is labelled with.

All thirty invariants that the runs check, the action properties `TransformSteps` and
`NoGoingBack` and the refinement `ContractSpec` are stated by a theorem.

- **JobQueueProofs.** `JobInv` is inductive. `DedupeUnique` alone is not: an open insert
  must count as indexed (`IndexInv`), and a request about to commit must own its row
  (`CommitInv`, which in turn needs ids to be fresh, `FreshInv`). The budget needs the
  ledger `attempts = claims + reaps` with one claim to spare on every row that can still
  be claimed (`LedgerInv`); that the runner's copy of the count is right (`HeldRowIsOurs`)
  is what carries the ledger through a requeue. `OrphanInv` adds that a process that is
  down holds no row and that a draining one has exited; `CoolDownInv` that the check still
  holds when the violation is recorded, because the loop alone records one. Theorems:
  `TypeCorrect`, `Invariance`, `DedupeUniqueness`, `OutcomeHitsClaimedRow`,
  `ExecutionBudget`, `NoJobForgotten`, `CoolDownHolds`. Three more have the hypothesis
  `[]OneRetryInFlight`: no two retry requests are between their checks and their write,
  while any number may follow one another. `RetriesOnTime`: then the row is still failed,
  with attempts left, when it is written (`OnTimeInv`; the loop, the reaper and enqueues do
  not touch a failed row). `LoneRetryIsSafe`: an accepted retry hits no claimed or finished
  job. `QueueKeepsContract`: every step of `JobQueue` is a step of `JobContract` or leaves
  its variables alone; it cites `Invariance`, by which an insert is free of its key, and
  `RetriesOnTime`.
- **LeadProofs.** `LeadInv`: a request owns what it has inserted (`OwnerInv`), an
  admitted download holds its row below the limit (`LockInv`), redirects are counted
  uses plus lost ones plus the one under way (`LedgerInv`). Theorems: `GrantLimit`,
  `MailedLinks`, `OneLink`. `MarksKept` is about `LeadSync`, for any leads, addresses,
  limits, attempts and resyncs. `SyncInv` is inductive as it stands; the proof restates it
  request by request (`Good`), so that a step is a change of one record whose marks no
  other record has (`Apart`).
- **HandlerProofs**, first part: `TempUploads` with `JobHandlers`. `HandlerInv`: what the
  cleaner has listed or doomed is past its time, and no job keeps it that became active
  before (`CleanerOK`); past its time an upload never becomes fresh again, so a job that
  becomes active now is late and `UploadsKept` does not speak of it. The cleaner's set of
  references may be as old as it likes. A fetch has seen a revision at least as new as the
  raw copy it is about to write, and exactly the raw copy's once it has written it
  (`CopiesOK`). Theorems: `HandlerInvariant`, `CopiesHold`, `UploadsStay`.
- **HandlerProofs**, second part: `GraphicPipeline` with its lineages. A set of versions is
  `1 .. n` when they are distinct and each has all smaller ones below it; that is the
  inductive form (`RowsOK`), and counting them comes last. A maker that is about to insert
  version v has those below v in the table, *or* its slug is taken and the insert will be
  refused (`LocalOK`): the versions of a title and its slugs are read at different moments, and
  only both constraints together keep gaps out. `RoomLeft` counts the rows that are still
  free, `Owned` says whose a flushed row is, `FilesOK` what the pipeline has uploaded at each
  stage. Theorems: `PipelineInvariant`, `LineageHolds`.
- **PublicationsProofs.** `PublicationInv`: as long as the row is the version a handler has
  read, its copies are the row (`CopyInv`); this rests on transaction times telling
  versions apart, including those still to be committed (`StampInv`), and on one holder
  per row (`LockInv`). Theorems: `PublishesGuarded`, `SyncPreserved`, `TagPreserved`,
  `AnnouncementsPreserved`.
- **SemanticMappingsProofs.** `MappingInv`: one writer per row, the committed row has the
  highest version ever written, what is pending is the next one (for mappings without an
  overtaken deletion). Theorems: `VersionsNameRows`, `GuardsKept`.
- **MetadataCacheProofs.** `MetadataServed`. The product of an answer needs what the row
  and each request's payload and base may be: as long as no UPDATE has lost a race, a row
  has the dimensions of its product (`RowOK`), because the columns that an UPDATE leaves out
  are those its own SELECT has read. The bound on a bucket needs where a caller can be when
  its bucket is in debt (`Owing`). `AgreementSuffices`: if no two requests ever name
  different products for the cube, every answer is of the product named (`ServedOwn`),
  without an exception.
- **StalenessProofs.** `StaleInv` speaks of the cache (`CacheInv`) and of the snapshots,
  those a capture holds included. A request's record is right with respect to what StatCan
  has published and what the versions pin (`ReqOK`); both only grow (`Grows`), which is why
  nobody else's step disturbs it. That `pick_row` and the next block return a member of
  what they choose from is proved by well-founded induction (`Least`, `PickRowIn`).
  `ReportTrue` needs `QuietInv`: while nothing is written, every block the comparison has
  passed is judged as it still is, and the resolve it waits for works on the cell and the
  period of its block. `OnlyOvertakenGoBack` compares ages: an answer that nobody has
  overtaken is no older than anything stored for its cell (`AgeInv`). It is fetched as the
  latest there is, and whoever stores something while it is held makes it overtaken
  (`AgeStep`, per action; `AgeKept`). Theorems: `ValuesGenuine`, `CellsPinned`,
  `SnapshotsAreAnswers`, `ReportsTrue`, `OnlyOvertakenGoBack`.
- **CalculationProofs**, first part: `MappingPins`. `PinInv`: the last reply was computed
  from the metadata and the mapping that are there now. `PinsAlwaysHold` then is a statement
  about the operators: a position and a member that the validation accepts are those the
  names denote (`MemberOfFilter`, `SlotOfFilter`), a coord has them in their slots
  (`CellOfFilters`), and a request that names the slots of a primed coord has the pairs the
  mapping resolves to (`NamingAccepted`).
- **CalculationProofs**, second part: `MetrCurve`. `MetrIInv`: the points are those of the
  request, and the locals of `find_dead_zones` are determined by the runs of dead points
  among those it has seen (`ScanState`). That entering, going on, leaving and the end of the
  curve keep this is `ScanEnters`, `ScanGoesOn`, `ScanCloses`, `ScanPasses`, on lemmas of
  how the maximal runs of a set grow when a number follows (`RunsAfterMember`,
  `RunsAfterGap`). That net income rises is proved for every income, not by enumeration:
  every tax and contribution takes at most its top rate of an extra dollar (`BracketsRise`,
  `ContributionsRise`), every benefit loses at most its clawback rate (`PhasedOutFalls`),
  and added up a household keeps 512 ten-thousandths of each extra dollar, on either side
  of an income of 50 000 dollars (`RawRises`): below it there are only the first brackets,
  above it the workers' benefit is gone and the health premium flat. From there a raise of
  500 dollars is larger than what rounding to a dollar can hide (`NetRises`). The ranking of the provinces is a permutation (`ProvincesRanked`),
  the steps of the waterfall telescope (`WaterfallAdds`). Theorem: `MetrHolds`.
- **CalculationProofs**, third part: `DataWorkbench`. `WorkbenchInv` is no more than that
  tables keep their shape; the work is in the operators. A join keeps the keys unique and in
  place, and, unless renaming fails, has at each key the cells of both sides and no others
  (`JoinKeys`, `JoinCells`, `JoinLocated`); the loop over the tables keeps that and what the
  join type promises (`MergedOK`, `MergeKeeps`), by a least counterexample in place of an
  induction, after `MergeTurns` has shown that the recursive function is what its equations
  say. For changes: among rows with unique keys the place of a row in the sort is the number
  of earlier ones, whatever the order of ties (`PlaceCounts`); where no month is missing two
  places are as far apart as the months (`PlacesApart`), so the shifted row is the one of that
  month (`ShiftedIsEarlier`). Theorem: `TransformsHold`, for any number of tables, rows,
  columns and geographies.

Each invariance proof has a lemma per action, or per group of like actions, and one step
per conjunct that can be disturbed. Trying to prove `UploadsKept` showed a fault
of the model: `TooLate` had counted the upload that `UploadData` is just making as too late,
which exempted every job of that endpoint from the property. With the definition mended, the
run and the proof speak of those jobs too.

Only model-checked: the temporal properties that need fairness (`QueuedJobSettles`,
`RequestsFinish`, `ResyncsEnd`, `CallsFinish`, `CreationsEnd`, `UploadsGo`,
`RequestsAnswered`), which are outside the prover's reach; every other property of the
passing runs has a theorem. What the six taxes are in dollars is what the model
says; the theorems bound how they change.

## 5. Where the code and its documentation disagree

The run `jobs_stale_retry` shows one disagreement; `PROJECT.json` quotes the lines. Only
failed jobs can be retried (`repositories/job_repository.py:257`), yet two retries may
both read a failed row: the first queues it, the loop claims it, and the second writes the
running job back to queued. (A second write that finds the job still queued changes
nothing, and does not count.)

The following were read in the source while modelling. The models do what the code does;
no run is spent on them, and properties that would meet them say so in their condition.

Transactions and sessions:

- A resend is to revoke the old token and mail a new one (`api/routers/public_leads.py:317`);
  the rollback on the unique conflict has expired the publication, reading it at `:343`
  raises, and everything is rolled back (`RenewalRaises`).
- The mirror is to keep review and status in sync (`api/routers/admin_publications.py:168`);
  an unpublish that read before a publish committed writes the workflow only
  (`repositories/publication_repository.py:611`).
- A failed capture is not to roll the publish back (`api/routers/admin_publications.py:614`);
  when the upsert of a snapshot fails in the database, the transaction is aborted and its
  COMMIT is a rollback after the 200 (`services/publications/staleness.py:183`).
- No second writer silently overwrites the first (`services/semantic_mappings/service.py:303`);
  an overtaken deletion writes a version number that is taken
  (`repositories/semantic_mapping_repository.py:259`), and If-Match then matches another row.
- The update is retried with the freshest version (`services/semantic_mappings/service.py:181`);
  the second SELECT (`:254`) returns the loaded object with its old version.
- A clone that collides is tried again (`docs/ARCHITECTURE.md:300`); its rollback has expired
  the source, and the second attempt fails on reading it (`services/publications/clone.py:73`).
- Two PATCH requests that pass the same If-Match overwrite one another; the repository
  knows it as DEBT-043. A demotion by PATCH after a review edit by another request answers
  an ETag that is already old, and since the answer precedes the commit a 412 can be given
  for a row that has not changed (`api/routers/admin_publications.py:396`).
- The metadata cache is to refuse to auto-heal a row of another product
  (`services/statcan/metadata_cache.py:253`), which `get_or_fetch` checks when it reads. Two
  requests that both find no row and name different products both go on to `_persist`, and
  the UPDATE of the second overwrites the product and the dimensions of the first. Two such
  UPDATEs may overlap, each writing the columns that differ from its own read, and
  leave a row with the product of one and the dimensions of the other (`raced`).
- A lead is mailed before it is committed, not saved before any external call
  (`api/routers/public_leads.py:254`), and `_score_notify_sync` runs before the commit in
  another session: scoring, Slack and the ESP call of a capture never find their lead.

Jobs and schedules:

- `attempt_count` counts reaper hits as well as attempts (`models/job.py:52`); a row
  interrupted less than ten minutes before the restart, or in its last attempt, is not
  picked up on the next startup (`main.py:125`) and blocks its key (`Orphan`); the loop
  "polls until shutdown" but ends on exceptions of its own statements
  (`services/jobs/runner.py:78`).
- The scheduler's wrappers call `AsyncTokenBucket()` without its two required arguments
  (`core/scheduler.py:110`, `:199`, `:270`): the TypeError is logged and none of the three
  nightly jobs reaches its service. What fetches the day's releases only logs them.
- Stage 7 of the graphics pipeline calls `create_published` without its required
  `lineage_key` (`services/graphics/pipeline.py:214`); the tests replace the repository.

Contents:

- A creation stores the workflow of its body and always the status DRAFT, so a row can
  start out of step (`docs/modules/editor.md:21`) and become visible later without an
  event. `published_at` is stamped on every publish, not only the first
  (`api/routers/admin_publications.py:416`).
- `VersionConflictError.actual_version` comes from the identity map and may equal the
  expected one. POST `/upsert` builds its service without the value cache, so the
  automatic priming does not happen there. A mapping that names one dimension in two
  spellings is saved, cannot be primed and can be resolved by no request.
- Slack notifications are to be idempotent, but a `SlackNotifierService` with its table of
  sent keys is built per request (`api/routers/public_leads.py:66`). A 429 of the ESP is a
  4xx and marks a lead as failed for good; the resync also subscribes inquirers and
  addresses that have unsubscribed.
- The continuity check of the changes looks at the first geography only, not within each
  (`services/data/workbench.py:297`); a merge is applied first wherever it stands in the
  list of operations (`api/routers/admin_data.py:161`).
- "Two-tier clawback" (`services/metr/engine.py:366`) uses one rate; the label "Clawbacks
  cleared" (`api/routers/public_metr.py:200`) is given while benefits may still be falling;
  the waterfall of card 2 leaves out the GST credit and the health premium.

## 6. What is not modelled

- Of modelled components: the Slack message and the score of a lead, which label it and
  decide nothing later; the seed script's `--skip-validation`; stored raw strings and
  sizes; rate limiters other than the resend's; `evict_stale`, `upsert_periods_batch` and
  `get_latest_by_lookup`, which nothing calls; reads that change nothing (preview, search,
  lists); the first and last methods of an aggregation, whose pick depends on an order of
  rows Polars does not promise; what the renderer draws.
- The catalog sync and the data fetch use the application's plain HTTP client (nothing sets
  the `statcan_client` they would prefer), past the token bucket; `JobHandlers` has their
  stages and not their pace.
- The connection pool (eight and eight overflow connections, two held by every capture,
  `core/database.py:55`) is listed as a hazard. A model would be a counter beside
  `LeadCapture` whose only interesting state needs sixteen requests.
- A second server process: the deployment starts one, and the in-memory limiters depend on
  it. `docker-compose.yml` stops one container before it starts the next.
- A commit that fails is taken to leave nothing behind; an answer lost after a successful
  commit is not distinguished from one that arrived.
- Audit events only where a property is about them (`announced`); the retention job and the
  KPI counts are single statements. Authentication is a comparison of keys. The gallery,
  the health endpoint and the public site read. The Flutter app is a client of the admin
  API with polling screens. The editor is planned, its document registry is a set of pure
  functions of JSON that a model would only repeat.

Time is a choice, not a clock. Statements of one transaction that read nothing another
could change are one step.

## 7. Plan

Done: the modules of section 2, each with a run, and proofs of every safety property the runs
check.
What is left, in this order:

1. That `SemanticMappings` with a conditional deletion implements a register with
   compare-and-swap; that `Publications` restricted to undisturbed handlers implements a
   two-state gallery.
2. `EditorAutosave`: the debounced save, the 412 and clone paths of the editor against the
   ETags of `Publications`; `EditorWorkflow`: the reducer's transitions and undo.
3. The connection pool, as a counter shared by captures and their background tasks.

## 8. Running it

| Configuration | Module |
|---|---|
| `JobOverlap`, `JobProgress`, `JobStaleRetry` | `MCJobQueue` |
| `HandlerFiles` | `MCJobHandlers` |
| `PipelineRaces` | `MCGraphicPipeline` |
| `PubOverlap` | `MCPublications` |
| `ValueRefresh` | `MCStaleness` |
| `MetaSweep` | `MCMetadataCache` |
| `MapWriters` | `MCSemanticMappings` |
| `Leads` | `MCLeadCapture` |
| `LeadSync` | `MCLeadSync` |
| `Calculations` | `MCCalculations` |

`tlc -config JobOverlap.cfg MCJobQueue` checks a run, `tlapm JobQueueProofs.tla` the proofs
of a module. With two workers most runs take one to two and a half minutes, most proof
modules one or two; `CalculationProofs` takes about five.
