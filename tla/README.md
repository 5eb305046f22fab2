# Specifications of the AI commerce operations agent

TLA+ modules for the parts of `backend/app` that keep state and are used by
several actors at once, and for the scripts that hand data to the AI track, with
TLC configurations that check small instances and TLAPS proofs for every
instance. Paths below are relative to `backend/app` unless they start with
another top-level directory.

| file | what it is |
| --- | --- |
| `OfflineSale.tla` | the offline-sale pipeline behind `POST /demo/events` and `GET /inventory` |
| `SaleEffects.tla` | what that pipeline promises about business effects (abstract) |
| `OfflineSaleProofs.tla` | invariants of the pipeline, for any threads and for one; that it implements `SaleEffects` |
| `TaskFeedback.tla`, `TaskFeedbackProofs.tla` | the append-only feedback history behind `POST /tasks/{id}/feedback` |
| `FeedbackLog.tla` | what that history promises its callers (abstract) |
| `SyncRunner.tla`, `SyncRunnerProofs.tla` | the paginated provider sync with its retries and budgets |
| `AgentCheckpoint.tla`, `AgentCheckpointProofs.tla` | the reservation-replan graph and its checkpoint rows |
| `VersionedRegister.tla` | what the checkpoint store promises about versions (abstract) |
| `SyncCheckpoint.tla`, `SyncCheckpointProofs.tla` | cursor store and run lock under the protocol they ask of their caller |
| `ProtectedStore.tla`, `PageCollection.tla` | batches and manifests on disk; the page loop all Cafe24 runners share |
| `OrderItemCollection.tla`, `CommerceCollection.tla`, `CommerceCollectionProofs.tla` | order, refund and order-item runners, resumption and the commerce integrity report; proofs about them, `CatalogCollection` and `CommunityCollection` |
| `CatalogCollection.tla`, `AttachmentCollection.tla`, `CommentCollection.tla`, `CommunityCollection.tla` | product, category, article, attachment and comment runners, the community report; the last three together |
| `OAuthToken.tla` | the Cafe24 token between provider, memory and file |
| `ReservationTasks.tla` | reservation detections, task deduplication and aging, the demo preparation |
| `TaskDependencies.tla`, `ScheduleReplan.tla`, `ShortageProjection.tla` | the dependency graph with its cycle check; delay impact and replan drafts; open demand and shortage |
| `FeedbackForm.tla` | the browser's feedback form against the history on the server |
| `MappingReview.tla` | the mapping queue and the reprocessing of a queued sale |
| `PolicyExplanation.tla` | retrieval search and policy explanations |
| `ReadBootstrap.tla` | the endpoints an operator starts Cafe24 reads with, the adapter's pages, the collectors |
| `ComponentProofs.tla` | proofs about `OAuthToken`, `FeedbackForm`, `ScheduleReplan`, `MappingReview`, `ReadBootstrap`, `PolicyExplanation`, `ReservationTasks` and `ShortageProjection` |
| `Services.tla` | all modules from `SyncCheckpoint` on, side by side |
| `CommunityHandoff.tla` | the hand-off of customer inquiries to the AI track, the repair of exports, the integration artifacts |
| `CatalogHandoff.tla` | the hand-off of the catalog and its reader |
| `ProductEvaluation.tla` | the retrieval experiment on actual products, from the snapshot to both evaluations |
| `AiExchange.tla`, `AiExchangeProofs.tla` | the three modules above, side by side; proofs about all three and their composition |
| `MC*.tla`, `*.cfg` | instances for TLC |
| `PROJECT.json` | components, runs, mutants, the map from definitions to source lines, findings, hazards, theorems |

## 1. Inventory

The system is a FastAPI server (`main.create_app`) over a relational database,
a set of batch programs that collect data from commerce providers, AI workflows
called by the server, and a React front end. Every endpoint that matters here is
a synchronous function: FastAPI runs it on a thread of a pool, so **two requests
interleave at every statement**. Shared state is of two kinds: rows in the
database, and Python objects on `app.state` (lists, dictionaries, services),
which a restart loses.

| component | state | operations | interacts with | what is hard | what makes it correct |
| --- | --- | --- | --- | --- | --- |
| Offline-sale pipeline (`services/offline_sale.py`, `services/ingestion/{inbox,idempotency}.py`, `services/inventory_ledger.py`, `api/demo.py`, `api/inventory.py`) | DB: SKU, snapshot, ledger rows. Memory: receipts, `business_facts`, effect registry, insights, C04 records, projections | `process`, `append_once`, rebuild, register | DB constraints, C04 registry | check-then-act on six shared objects without a lock; commit before memory update; restart | one ledger row and one insight per business key; a projection is explained by its evidence; a sale becomes visible |
| Task feedback (`services/task_feedback.py`, `models/feedback.py`) | DB: append-only rows | append, list | task read model, browser retries | read version then insert; lost answers | gapless history; an idempotency key stands for one request |
| Provider sync runner (`sync/runner.py`, `sync/retry_policy.py`) | position, budgets, result | `run` | provider, `commit_page` | failing reads and commits, cursors that loop, three budgets | nothing skipped, nothing twice, bounded, ends |
| Replan agent and checkpoints (`services/agent_workflow_runtime.py`, `services/agent_run_repository.py`, `ai/agents`) | DB: one checkpoint row per workflow thread | run the graph, save by compare-and-set | LangGraph, DB | two runs on one version; re-read after commit | versions never lost or reused; never past the human |
| Reservation risk (`services/reservation_*.py`, `services/task_dedup.py`, `services/demo.py`) | memory: proposals, tasks, two projection lists | register, propose, prepare, demand, shortage | schedule API | detections out of order, the period in the key, quantities that are unknown | one current row per cause and period; every line and delivery accounted for once |
| Sync cursors, run lock (`sync/cursor_store.py`, `sync/run_lock.py`, `sync/cli.py`) | DB: cursor rows; memory: active set | commit, record error, acquire, release | sync runner | read-modify-write without a version test, a lock per process | a cursor never moves back or ahead of committed data |
| Mapping review (`services/ingestion/mapping_*.py`, `api/mappings.py`) | memory: pending, resolved, audit | enqueue, resolve, reprocess | approved mappings in the DB | what was read is stale at `resolve` | an item is resolved on a mapping in force during its call |
| Cafe24 OAuth (`api/cafe24_oauth.py`, `worker/privacy/oauth_token_store.py`) | memory: state, tokens; file: refresh token | start, callback, refresh, persist, restore | provider | rotation against persist, restore and restart | the stored token is usable after a restart |
| Cafe24 full collection (`sync/cafe24_*_full_runner.py`, endpoints in `api/cafe24_bootstrap.py`) | files: batches, manifests, progress, indexes | run, resume | provider, protected storage | crash between batch and progress, torn files, runs that overlap on one temporary file | nothing is passed over, duplicates are recognised, what is reported whole is whole |
| Retrieval, C04 lookup, explanations (`services/retrieval_runtime.py`, `services/c04_lookup.py`, `ai/services/*`) | memory: busy lock, records | search, register, look up, explain | AI retrieval, model | a timed-out worker goes on; evidence ages between search and lookup; the model's output is not trusted | at most one search; no draft that is not grounded in evidence still valid |
| Schedule calculations (`services/task_dependencies.py`, `services/delay_impact.py`, `services/schedule_replan.py`, `api/schedule.py`) | memory: stored proposals; a graph the caller keeps | add a dependency, draft a replan | client, agent | search-then-append, cycles, whole hours | agree with reference definitions; an answered draft is found again |
| Feedback form (`frontend/src/components/TodayTasks.tsx`) | component state | type, save, read back | task feedback endpoint | a new key on every attempt, lost answers | an opinion is stored once |
| Read endpoints and bootstraps (`api/cafe24_{bootstrap,smoke}.py`, `sync/cafe24_*bootstrap.py`, `adapters/providers/*`) | files: batches; memory: token and its scopes | check, reserve, read stages, export, manifest | OAuth, provider, protected storage | token and scopes read apart, batches with one id, lists that grow while they are read | a batch with a manifest is whole; reads stay within the grant |
| Inquiry hand-off (`sync/day08_*.py`, `sync/cafe24_community_integrity.py`) | files: `ai_handoff.json`, contract, consumer report, defects | build, repair, phase 1, phase 2 | community exports, the AI track's answer | exports read twice while they come in or are rewritten, files written in place | only safe, undisputed text leaves; a contract that passes is backed; no answer on stale evidence |
| Catalog hand-off (`sync/day09_ai_catalog_handoff.py`, `services/category_product_projection.py`, `ai/evaluation/validate_day09_actual_catalog.py`, `ai/retrieval/catalog_filter.py`) | files: artifact, validation, manifest | build; filter and validate | catalog exports, AI track | three reads while exports arrive, two notions of time, two walks over one tree | what can be read is closed, never goes back, and means the same to both sides |
| Product experiment (`sync/r07_actual_safe_projection.py`, `ai/evaluation/*r07*`, `ai/retrieval/{hybrid,reranker}.py`) | files: snapshot, cases, review, results; pinned hashes | project, draft, review, finalize, evaluate, rerank | product exports, a reviewer | cases rebuilt under a review, searches that fail or return nothing, a reranker that times out | a result is of the pinned snapshot and the approved cases; every case is counted once |
| Other reports, inventory sums, the other experiments, training, the rest of the front end | none shared | I/O, pure functions | | | |

`PROJECT.json` lists every component with its status and the reason for it, and
under `hazards` the places where each can go wrong.

## 2. Plan

Done, in this order: `OfflineSale` (with `SaleEffects`),
`TaskFeedback` (with `FeedbackLog`),
`SyncRunner`, `AgentCheckpoint` (with `VersionedRegister`), `SyncCheckpoint`,
the collections (`ProtectedStore` up to `CommunityCollection`), `OAuthToken`,
`ReservationTasks`, `TaskDependencies`, `FeedbackForm`, `ScheduleReplan`,
`MappingReview`, `ShortageProjection`, `PolicyExplanation`, `ReadBootstrap`, and
`Services`, which puts the modules from `SyncCheckpoint` up to here into one specification; then
`CommunityHandoff`, `CatalogHandoff`, `ProductEvaluation` and `AiExchange`. Left:
the other retrieval experiments, which repeat the one that is modelled on other
data.

## 3. What is modelled

### OfflineSale

The deployment is DEMO with a database (`api/demo.py` refuses the endpoint
elsewhere; the branch of `process` without a session factory is reached only by
tests). A *thread* of the pool serves one request at a time; `pc[t]` names the
statement it is at. Statements that touch no shared state are joined with their
neighbours; every read of shared state and the write that depends on it are
separate actions.

| code | model |
| --- | --- |
| SKU, brand and snapshot rows | `snapshots`, the (tenant, SKU) pairs that have them |
| `inventory_ledger` rows and their two unique constraints | `ledger`, `KeyTaken`, `SourceTaken` |
| inbox receipts, `business_facts`, `EffectRegistry.processed` | `acceptCount`, `businessFacts`, `effects` |
| `insights`, C04 records, `inventory_projections` | `insights`, `lookups` (which insight shows whose record), `projections` (a list: index and length matter) |
| `ingest` | `Receive`, `Accept` |
| `business_facts.get` / assignment | `CheckFact`, `RecordFact` |
| `_ensure_demo_snapshot` | `ReadSnapshot`, `SeedSnapshot` |
| `append_once`: select, insert + commit, classification after an `IntegrityError` | `SelectRow`, `InsertRow`, `Classify` |
| `apply_once`: test, insertion | `CheckEffect`, `MarkEffect` |
| `_refresh_inventory_projection_from_db`: sum query, evidence query | `SumDelta`, `ListEvidence` |
| `_replace_inventory_projection`: scan, assignment or append | `FindProjection`, `StoreProjection` |
| `insights.append`, `_register_demo_inventory` | `Announce`, `Register` |
| `GET /inventory` and the rebuild: test, scan, clear, one refresh per snapshot | `GetInventory`, `ScanSnapshots`, `ClearProjections`, then the refresh actions |
| a failing statement, a commit whose answer is lost, the death of the process | `DatabaseFailure`, `LostCommit`, `Restart` |

An event id has one C04 record. `Register` looks at the insights after the length
its request read at the beginning, picks those with its event id, and registers
the first one; if the id has a record of another calculation already, the version
conflict is swallowed (`api/demo.py:83`) and the insight shows no record. A
second record with the same quantity is a conflict too, unless both were made at
the same tick of the clock.

A projection is abstracted to the sets of rows its delta adds up and its evidence
names; on-hand and reserved quantities are the snapshot's constants. Database
statements read what was committed before them (READ COMMITTED, PostgreSQL's
default, which the code does not change). Left out: risk levels and their
wording, tracing, quarantine of malformed envelopes (FastAPI has validated the
body before `process`), the in-memory ledger service.

`SaleEffects` says what the pipeline promises: a business key is posted by one
row for good, and a posted row is reported at most once and only by the request
that posted it (a request that is cut short takes the report with it: at most
once, not at least once).

### TaskFeedback

`append_task_feedback` statement by statement: `Lookup` (select by key),
`ReadVersion` (select max), `Insert` (add, commit, refresh; the two unique
constraints refuse it), `Classify` (after the `IntegrityError`).
`StatementFails` and `CommitAnswerLost` are the faults. A reason is a word and
whether it has surrounding white space, because the stored reason is stripped
and the received one is compared. The migration's trigger forbids updates and
deletions: no action has them. `before_value` is taken from the task's read
model; its title, deadline and status never change after registration, so it is
no part of what distinguishes two requests.

`FeedbackLog` says what the statements amount to: a log per task that serves a
request at one instant. At that instant the request is appended at the length
it expected, found in the log, or refused, and the refusal is then true: its
key is in use or its version is not the log's length. It promises no more than
that of a refusal, because a request that was stored may be refused when it is
sent again (finding `retry`, and a second delivery between the two reads).

### SyncRunner

`ProviderSyncRunner.run`, one action per check, read and commit, called up to
`MaxRuns` times by a caller that continues at `result.next_cursor` (as
`backend/tests/sync/test_partial_failure.py` does). The clock is one bit, *the
time budget is used up*, which may turn on between any two steps. A failed read
may be of any class: `RetryPolicy.decide` then gives up for any of its reasons or
retries, and always gives up on the last attempt. `commit_page` may raise before
or after its transaction took effect. The provider is the constant `Answers`.

### AgentCheckpoint

`run_and_checkpoint_reservation_replan`: a *caller* runs the LangGraph graph
(`ValidateInput` ... `WaitForHuman`, one action per node; `Leave` is the routing
after it), passes the contract and safety checks (`HandOver`), and saves
(`Save`, `ReadBack`). An input is abstracted to what the nodes test. The graph
works on the caller's own state; callers share the `agent_runs` row of a
(tenant, workflow, thread). The insert or the update and its commit are one
step: the row lock, or the unique index, makes a concurrent writer wait, and it
then tests the version again. A caller may expect any version that was once
stored; nothing in the app calls the runtime yet, so the model does not assume
a policy. `Dies` and `CommitAnswerLost` are the faults. `ReadBack` tells the
caller that it made its version; the row that `save_agent_checkpoint` reads
again and returns, which may be a later writer's, is ignored as the caller
ignores it. An expected version that never existed, or is negative, is refused
without effect and left out.

### SyncCheckpoint

`CursorStore` and `SyncRunLock` under the protocol their docstrings and tests
ask of a caller: take the lock, load the checkpoint, commit a page's canonical
transaction, and only then move the checkpoint (`Acquire`, `Load`,
`CommitCanonical`, `ReadRow`, `WriteRow`), or record an error (`PageFails`,
`ReadRowForError`, `RecordError`). The caller is external, since only tests call
the store. A row is read and written in a transaction of its own, without a
version test, so `ReadRow` and `WriteRow` are separate. The lock is memory of
one process and does not name the connection mode; `ProcessDies` takes the lock
and its holder. Two processes are not kept apart: of two commits the later one
wins, and `CursorNeverGoesBack` is claimed only until two processes have synced
at once (`crossed`).

### The Cafe24 collections

`ProtectedStore` is the file system's part: a sanitized export and its manifest
are each opened in mode `x` and then filled, so a batch goes through four
stages, and a reader (also one after a restart) may find either file torn.
`PageCollection` is the loop the page runners share: `Begin`, `ReadPage`, the
fill and manifest steps, `SaveProgress`, `RateLimited`, `Finish`,
`Fail`. A page's records are sets of orders; the source does not change while it
is collected. `again` remembers that a run began where an earlier one of its
resource had begun, or while one was under way, so that a page may be collected
twice. Built on it:

- `OrderItemCollection`: every run copies the index into memory, adds orders to
  its copy, and replaces the file through one `index.json.tmp` all runs share
  (`OpenTmp`, `FillTmp`, `ReplaceIndex`, `ReplaceFails`), so a run may write back an
  older index or lose its temporary file to another run. Opening empties the file,
  and a file that one run has open goes on being filled when another has moved it
  (`openAs` is its name by then); two that fill one file may tear it. An index that
  is empty or torn is no JSON (`unreadable`) and refuses the next run until some
  run still under way replaces it. An order answered with 404 is entered as missing.
- `CommerceCollection`: order, refund and item runs over one root, a crash of
  the server, and the predicate `ReportPasses` of the commerce integrity report.
  A crash between a batch and its progress file makes the resumed run collect
  the page again, and the duplicates keep the report from passing
  (`CleanCollectionPasses` therefore speaks of collections without faults). A
  torn order file makes `_load_order_ids` raise: the item run does not begin.
- `CatalogCollection`: products, categories and articles. Anyone may start a run
  at any offset; only the product runner looks for a gap, by the names of
  manifest files and no further than the highest of them. `astray` remembers that
  a run began where nothing vouched for the pages before it. An article run
  resumed at the second board never reports COMPLETED.
- `AttachmentCollection`: a file is downloaded into `download-<hash>.tmp` and
  moved. That name belongs to no run: a second one removes it and writes its own,
  and the first may then move the other's unfinished file into place. A file in
  the model is therefore known by who is still writing it. Its index is written
  like that of the order items (`EnterUrl`, `FillAttTmp`, `ReplaceAttIndex`), and an
  unreadable one refuses runs and the report.
- `CommentCollection`: a run always begins at the first article and saves its
  progress every `SaveEvery` articles (10 in the code); 404 or 422 on any page
  counts the article as processed.
- `CommunityCollection`: articles, attachments and comments in one process, which
  takes all of them with it when it dies (`CommunityCrash`).

### OAuthToken

`/start`, `/callback`, `/refresh`, `/persist-current` and `/restore` as
concurrent requests over `app.state` and the token file. Every assignment to
`app.state` that another request can fall between, and every file operation, is
an action: the temporary file is opened, filled and moved (`OpenTokenTmp`,
`FillTokenTmp`, `ReplaceToken`), and a request whose open file another one has
moved fills the token file itself. The provider issues numbered refresh tokens and retires one when it
is used. A refresh rotates only the token in memory; the file is behind until
it is persisted. A `/start` between the statements of a restore drops the
token, or leaves one without its mall for a save to write down; a save that
overlaps a refresh writes the retired token. `behind` and `forgotten` record what
the code cannot promise: `TokenSurvives` claims the rest.

### ReservationTasks and ShortageProjection

`RegisterShortage` is `register_reservation_risk_projection` with all it calls: the
projection, the deduplication key (cause and period), first and last detection,
evidence, replays, aging, the row in the task list. Detections arrive in any
order. `PrepareSeed`, `PreparedBefore` and `SeedConflict` are the demo
preparation, the only caller in the app, under its lock. A period is
`detection // window`; the app always uses 24 hours, so a task never reaches
24 hours of age and its priority never rises (in `TaskRowsAreCurrent`; the tests
that see a rise pass a window of 168 hours).

`ShortageProjection` takes order lines and deliveries one by one in any order,
as `project_current_reservation_demand` and `calculate_reservation_shortage` do.
Unknown is not zero: `ShortageIsAccounted` compares the running totals with what
each line says by itself. The first is called only by tests, the second by the
demo preparation.

### TaskDependencies and ScheduleReplan

`TaskDependencies` grows a graph by `add_dependency`, whose depth-first search
is a recursive operator; `RefusesExactlyCycles` compares it with reachability.
Its callers are tests; the lag of an edge plays no part and is left out.

`ScheduleReplan` models `calculate_delay_impact` (whole hours, rounded down),
the proposal with its digest as id (a digest is its contents), and the draft
endpoint, which looks for the id and appends in two steps (`CheckExisting`,
`AppendProposal`). The endpoint takes the impact from the client, so the impact
may have been calculated on another schedule, or made up (`SentImpacts`): it may
move an item it does not name, or name one it does not move. One delivery is modelled: the
evidence and delivery ids only make more digests.

### FeedbackForm

The form in `TodayTasks.tsx`, any number of them for one task, against a
history that grows by one step for the version expected (`TaskFeedback` shows
that it does). A save draws a new key each time, so a second attempt is a new
request to the server; only the stale version the form still shows protects it
from storing twice. Fields stay open during a save and are cleared by the
read-back. After a lost answer the form is refused until it is mounted anew.

### MappingReview

`enqueue`, `resolve` and `reprocess_toss_mapping_item` on threads that share the
queue without a lock: `Look` and `Put`, `LookUp`, `Decide` (the approved mapping
and its SKU are read), `Take` (the second look), `Delete`, `Store`, `Audit` (the
decorator's `finally`). `AddVersion` is anybody adding a version of the mapping.
`resolve` deletes from `pending` before it stores in `resolved`; an `enqueue` in
between reopens the item, so the last part of `ReviewIsApproved` holds only
until two calls have met. Calls with another provider, object type or no session
are refused like a source mismatch and left out. Only tests call these
operations; the app lists the queue.

### PolicyExplanation

`POST /retrieval/search` and `/retrieval/explanations`: `StartSearch` takes the
lock, `ReadRows` and `Return` are the worker thread, `Expire` is the deadline,
after which the thread goes on and keeps the lock; `Ground` looks up every
source again and checks claim support and suitability, `CallFails` and
`CallAnswers` are the model's attempts with the validation of what it answered.
`Tick` ages the evidence. A ranking is any ranking; the best row of each version
of a source is kept. The confidence, the answer policy and the consumer of a
trace are operators compared in `DraftIsSafe`. The model's output may name
anything. `plain` says whether an excerpt hashes alike with and without
normalised white space: if not, the mapping is missing and the request is held.
The run configuration the code reads is not in the repository, so the number of
attempts is the constant `MaxAttempts`.

### ReadBootstrap

An endpoint is a record: which argument it accepts, which scopes and whether an
unexpired token it needs, the *stages* it reads and what it does with the pages.
`CallEndpoint` reads the token, `Gate` the metadata that came with it (so a
`/start` or `/callback` can fall between them; mall, scopes and expiry are stored and
read at once here, and one after the other in the code), `CheckBatch` and `ReserveBatch`
are the tests for an existing batch and the `mkdir` that reserves it. A stage
reads the lists of one resource under the records of another: all pages of each
(through `ProviderSyncRunner`, with its retries), the first page, or the only
one. `ReadListPage` is a request, its protected raw page, and where the
collector goes next; `WriteExport` and `WriteBatchManifest` follow when no
stage is left. `WriteFails` and `ServerDies` leave what was written. The source
lists orders newest first while they come in (`OrderArrives`), and puts notices
above a page of articles. Full runs appear only with their requests: their
pages are in the collection modules. A page's raw file is written in one step,
and the counts that are compared before the export are equal by construction.

### CommunityHandoff

The scripts of day 8 are started by hand and stopped at will while collections go
on. `Collected` is a page of posts or the comments of one coming in, in the steps
a reader can tell apart (raw page, sanitized export, manifest). `LoadCanonical`
selects the exports with a manifest (its five selections are one step), `CheckCommunity` runs the integrity report
over what is there *then*, `ReadTexts` reads every raw page there is *then*, and
`OpenHandoff` and `FillHandoff` write the file in place. `RepairExport` rewrites
an export of the older contract and leaves its manifest, whose hash then no
longer fits. `SafeText` is `_safe_ai_text` over a sequence of lines: `half` is
personal data cut in two by a line break, which only joined lines show. Phase 1
and phase 2 (`BeginPhase1` ... `AppendDefects`) write the contract, the consumer
report and the list of defects, phase 2 on top of what phase 1 left;
`Decision` is `consume_retrieval_trace`. `ScriptsDie` leaves the file that was
being written torn.

### CatalogHandoff

`ReadProducts`, `ReadCategories` and `ReadRelations` each read every export of
their kind; in between more may arrive (`Shelved`: a file is there before it is
filled). `LatestByIdentity` compares the time a row states, or the time of its
batch; a batch's time is its position. `ScopeOf` is the recursive walk of
`project_category_scope`, with the set it is in and the set it has seen;
`DescendantsOf` is `build_descendant_map` with its stack, on the reader's side.
`WriteSheet` opens and fills the artifact, the validation and the manifest in
this order; a failed validation is published too. `TallyOf` are the counts as the
writer takes them from what it projected, `ReaderTally` as the reader comes to them
by its filters over the rows of the artifact; both are compared with `Expected`. The
reader demands more: one artifact by its hash, 2165 relations and the direct counts
of the other scopes (`Pinned`, `ReaderAccepts`). So what the reader accepts the
writer's validation passes, and not the other way round.

### ProductEvaluation

One person runs the scripts of the experiment one after the other; exports
arrive meanwhile, and a script can die between any two steps. A file stands for
its bytes, so that a pinned hash is a pinned content (`Pin`).
`BeginProjection`, `ProjectCategories` and `ProjectRelations` read the exports; `BuildDraft` drafts
cases and a blank review, `FillReview` is the person, `FinalizeCases` joins the
review to the draft by the number of the case. `APPROVE` stands for the two
decisions that are taken over, `APPROVE` and `REVISE`. `SearchCase` and
`RecordCase` are one case of the first evaluation: the searches return any list,
nothing, or raise; `Fused` is `reciprocal_rank_fusion` with exact fractions, which may
raise as well. Cases that a reviewer holds are searched like the others and stay out of
every rate (`answerable`, `hold`).
`SearchForRerank` and `ScoreOnce` are one case of the second: an attempt ends
with scores, with a wrong number of them, or not in time. Left out are latencies, the
manifests beside the snapshot and the cases, which decide nothing later, and the
configuration and public summary the evaluation also writes, which say nothing
`result` does not.

### AiExchange

The three share the exports only, which they read; `exchange` chooses the one in
focus, as in `Services`.

### Services

The modules from `SyncCheckpoint` up to `ReadBootstrap` share no state with each other, except the
collections among themselves. `Services` puts them side by side: a behaviour has
one *focus*, the components of the focus act, the others rest. Interleaving
components that share nothing would add states and no behaviour any of the
properties could tell apart. Collections are in focus in four ways: orders,
refunds and items together; the catalog; articles with their attachments and the
community report; comments.

## 4. Runs

| run | instance | shows |
| --- | --- | --- |
| `clash` | 2 threads; a sale, a colliding fact under its key, another sale with its id; in behaviours of at most two events that clash also 1 fault; or the sale and sales of another SKU and another tenant that reuse its id, without fault and rebuild | effects once, answered sales on the ledger, evidence explains the delta, each insight shows its own record or lost the id, `SaleEffects` is implemented |
| `sequential` | 1 thread; 7 events of every kind | `OncePerIdentity`, current projections, complete inventory: what holds while requests do not overlap |
| `live` | 2 threads, 3 sales of 2 SKUs, each delivered once, and rebuilds; weak fairness of each thread (`OnceSpec`) | a committed sale becomes visible, unless a rebuild took its place in the list away and its request fails |
| `stale` | 2 threads, 2 sales of a SKU, no rebuild (`SalesSpec`) | a finding (section 6) |
| `legacy` | 2 threads, a sale without a key | a finding |
| `restart` | 1 thread, sales of 2 SKUs, restarts as the only faults (`RestartSpec`) | a finding |
| `feedback` | 2 threads; requests that share keys, tasks and versions; 1 fault | gapless history, keys; `FeedbackLog` is implemented |
| `retry` | 2 threads, padded reasons | a finding |
| `agent` | 2 callers, 2 flows, 3 runs, one input per way through the graph; 1 fault | what waits is justified; `VersionedRegister` is implemented |
| `sync` | 4 runs over 3 pages of 1 to 3 items, 2 pages and 3 items a run, 2 attempts | `PagesInOrder` (nothing skipped, nothing twice), budgets, every run returns |
| `services` | 15 foci, below | 17 invariants and one action property of the modules from `SyncCheckpoint` to `ReadBootstrap` |
| `handoffs` | 3 foci, below | `HandoffIsBacked`, `CatalogIsSound`, `CatalogScopesAgree`, `EvaluationIsAccounted` |

The foci of `services`:

| focus | instance | properties |
| --- | --- | --- |
| checkpoint | 3 workers in 2 processes, 2 modes, 2 pages, 3 syncs, 1 outage | `CursorIsBacked`, `CursorNeverGoesBack` |
| commerce | orders on 2 pages of 2 windows, refunds on an empty page, 2 item threads, an order without items; 2 page runs, 2 item runs, 1 fault | `ProgressIsBacked`, `ItemsAreWhole` (`IndexIsBacked` and `CompletedRunIsWhole`), `CleanCollectionPasses` |
| catalog | 2 pages of products, 1 of categories, 2 boards; 3 runs, 1 fault | `CompletedCatalogIsWhole`, `ProgressIsBacked` |
| community | 2 articles with an attachment each, 2 downloaders, 3 downloads (the third only while one article is known), 1 article run, 1 fault | `CommunityIsCollected` (`AttachmentsAreWhole`) |
| comments | 3 articles of 2, 1, 2 pages, progress every 2 articles, 2 runs, 1 fault | `CommunityIsCollected` (`ProcessedCommentsAreWhole`) |
| token | 2 threads, 3 tokens, or 2 and a lost answer or restart | `TokenSurvives` |
| reservations | 2 reservations, one of unknown shortage; detections at 0, 23, 24, 47 h, 4 of them | `TaskRowsAreCurrent` |
| dependencies | 4 tasks and an unknown one, edges in any order | `RefusesExactlyCycles` |
| forms | 2 forms of a task, 3 opinions, 3 attempts, 1 fault | `OpinionStoredOnce` |
| replans | 2 threads, 2 schedules, 5 changes of a date, 2 impacts made up, 3 drafts | `AnsweredReplanIsFound` |
| mappings | 2 threads, 2 versions of a mapping, a SKU of another tenant, 2 calls | `ReviewIsApproved` |
| shortages | 3 order lines of 9 kinds, 2 deliveries of 6 kinds | `ShortageIsAccounted` |
| explanations | a search and an explanation, 6 deployments, clock up to 2, 2 attempts | `AnswersAreGrounded` (`DraftIsSafe` and `ExplanationIsGrounded`) |
| reads | 2 readers on one endpoint and one batch id, every endpoint, lists of one or two pages, a board with a notice, one order that comes in, 1 fault | `ManifestIsWhole`, `ReadsStayWithinGrant` |
| grants | 2 grants (or one of too few scopes, which is refused), `/start`, expiry; one call up to its first request | `ReadsStayWithinGrant` |

The foci of `handoffs`:

| focus | instance | property |
| --- | --- | --- |
| inquiries | a question and its answer in 4 kinds of page, 2 exports, each after the one before it is complete; 5 answers of the AI track; 3 scripts, 1 death | `HandoffIsBacked` |
| catalog | 9 exports to choose 4 from: products twice in a file, told of earlier changes, outside the full collection; a tree that a later export closes to a cycle; a dangling relation; 2 builds, 1 death | `CatalogIsSound`, `CatalogScopesAgree` |
| evaluation | 4 exports, 2 projections, 2 cases of which the first may be held (`Holdable`), lists of up to 2 results of which a metric sees 1, 1 retry; 1 evaluation, 1 death | `EvaluationIsAccounted` |

Type invariants are among the invariants of `agent` and `services`, and proved
for all modules with a proof module of their own and for the collections.

**Bounds.** Two threads are enough for every race named under the hazards: each
is between one request and one other. (Three downloads are needed for one run to
move another's unfinished file, and the run allows three.) One fault at any
point covers a failure between any two statements; the properties speak of the
state after it. Events are chosen by the clash they produce: the same key with
the same and another fact, the same source id under another key, the same SKU,
another SKU, a SKU of another tenant, before and after the cut-off, no key, no
sale. A client may send each event any number of times. In `sync` the three
pages allow a cursor to lead to itself, back, or nowhere; sizes up to 3 with a
budget of 3 make a page fit exactly, fit in part, and fill the budget alone;
four runs allow a failed commit, its repetition and a continuation. In `agent`
three runs let two callers race on one version and a third retry with an old
one. In `services` two runs of a collector allow a stop and its resumption, for
the catalog three, so that a gap can be left and met; two pages in a window and
two windows have every kind of border; hours 23, 24 and 47 lie at the ends of a
period. In `handoffs` two exports let one come in, or be rewritten, between the
selection and the reading of the texts; four exports of a catalog are one of each
kind and one that contradicts them; two cases can succeed and fail apart, and
lists longer than the metric looks at can hide what was found. Item threads and
downloaders are interchangeable and reduced by symmetry, which is sound because
`services` checks no liveness.

**Deadlock** is checked except in `sync` and `agent`, where callers stop after
the last run (`MaxRuns`), in `live`, where each event is delivered once, and in `services` and `handoffs`, where a focus ends
with its bounds.

**Fairness.** `MCOfflineSale!OnceSpec` assumes weak fairness of each thread's step:
a pool thread that can go on is scheduled, and no step waits for a lock another
request holds across steps. `Receive` and `GetInventory` are not fair: nobody has
to call. `SyncRunner!FairSpec` assumes weak fairness of the one loop; reads and
commits return or raise (the HTTP transport has a time-out). Safety runs use no
fairness.

## 5. What is proved

TLAPS checks these for any threads, events, pages and bounds, from the
assumptions named in the modules (`EventsAssumption`, `TaskFeedback`'s
assumption on requests, `SyncAssumption`, `InputsAssumption`,
`CheckpointAssumption`, `CollectionAssumption`, `ItemAssumption`,
`CommerceAssumption`, `NoFileAssumption`, `WindowAssumption`, `TokenAssumption`,
`FormAssumption`, `ReplanAssumption`, `ReviewAssumption`, `ExplanationAssumption`,
`UnsetAssumption`, `AttachmentAssumption`, `CommentAssumption`, `HandoffAssumption`, `PaperAssumption`,
`CatalogAssumption`, `EvaluationAssumption`, `ShortageAssumption`, `ReadAssumption`,
`LabAssumption`: bounds are numbers, inputs
have their types, the value for *none* is none of the others). The few
hypotheses beyond these stand in the theorems.

**OfflineSale.** `TypeCorrect`, then `EffectInvariance`. "One insight per key" is
not inductive: nothing in it prevents two threads from being on their way to an
insight for one key. `EffectInv` adds that a row is on the ledger once per key
(the constraint), that a thread between its insert and its insight *inserted*
the row, and that no other thread is then on its way with that key and no
insight has it (`HolderIsAlone`). It rests on `StepsServeEvents`: which
locals a thread has at which statement. From it follow `EffectOnce`,
`InsightSource`, `AnsweredOnLedger`; `EvidenceSound` has its own
strengthening (a draft between its two queries is explained, because the ledger
only grows). `ImplementsSaleEffects` maps every step: `InsertRow` and
`LostCommit` to `Post`, `Announce` to `Report`, an exception to `Abandon`,
`Restart` to `Restart`, all else to a stutter. `InsightsAreRegistered` rests on
the window of insights a request opens when it is received and reads when it
registers: nothing shortens the list in between (`RegistrationInv`). A record is
of the calculation of every insight that shows it, also when the id was reused
(`RecordsAreOwn`), because the registry refuses a second record under an id.

Three properties are claimed of *one* thread only, as the findings show; the
theorems say so with `Threads = {s}`. `OnceOneAtATime`: inbox and legacy facts are
accepted once, whatever fails (`OnceInv`: between the test and the insertion of
an effect or an identity it is still fresh). `CurrentOneAtATime` and
`CompleteOneAtATime` also need a database that does not fail (`MaxFaults = 0`).
Their `SequentialInv` follows the single request: the only projection that may
be stale is the one it is about to refresh (`StaleIsRefreshed`), its draft is
that of the ledger as it stands (`DraftIsCurrent`), remembered facts and effects
have their rows and the other way round (`FactsMatchRows`), and every snapshot is
projected or is the one the request has just seeded (`SnapshotIsProjected`), so
that a rebuild only ever meets empty tables (`RebuildIsEmpty`).

**TaskFeedback.** `Gapless` needs that a request at its insert saw its
expected version in the history or expects 0; `OneRequestPerKey` needs that an
answer's row is the row of its key; `AppendedOnSeen` is the action property.
`ImplementsFeedbackLog` reads a task's rows as a sequence: they are numbered
from 1 to some n (`Counted`), which an insert extends by n + 1
(`InOrderGrows`). An insert, acknowledged or not, maps to `AppendEntry`, the
answers to `Replay`, `RefuseKey` and `RefuseVersion`, all else to a stutter. A
version conflict answered after a failed commit is true because a request that
got there is in conflict with a row, and rows stay (`ConflictIsReal`).

**SyncRunner.** `NothingSkipped` needs that an unfinished sync is where its
log ends and that every return, also those that leave `next_cursor` as it was,
reports this position. `NothingTwice` needs that all stored pages were seen and
that a page about to be committed leads to an unseen one. `InOrder` joins the
two. `BudgetsHold` needs what the checks establish on the way to the commit.

**AgentCheckpoint.** `WaitingJustified` needs what each node has established of
the run that stands before the next (`Established`, `Justified`). For
`ImplementsRegister`, `AnswersInv` says that callers between their commit and
their answer made different versions, stored by now and told to nobody; a save
then maps to `Save`, an answer to `Tell`, a death after the commit to `Abandon`,
all else to a stutter.

**SyncCheckpoint.** `CursorBacked` is not inductive alone: a worker may hold a
position it is about to write. `BackedInv` adds that every busy worker stands
where the pages before it are committed (`WorkersAreBacked`) and that a row once
seen stays (`SeenRowsStay`). `CursorForward`, an action property, needs
`ForwardInv`: the lock is held by the busy worker of its process, there is only
one of them until two processes have crossed, and it is not behind the row it
is about to write, which nobody has changed since it was read (`NotBehind`).

**CommerceCollection.** `CommerceInv` holds page runs and item runs together: a
page run has stored everything between its start and its position
(`PageRunOK`), an item run everything its copy of the index lists and every order
it passed without a failure (`ItemRunOK`); the temporary index is backed whoever
wrote it (`TmpIsBacked`), which makes replacing the file by any copy, empty or torn
ones included, harmless; a file still open is filled with a copy that is backed;
and no two runs write one batch (`PagesApart`, `ItemsApart`), so that filling
one never changes another's. From it follow `ProgressBacked` and
`ItemsWhole`, for any windows, pages, orders and overlapping runs.

`CleanCollections` is the converse of the integrity report: a collection that
never failed or overlapped passes it. `CleanInv` counts: without faults no file
is left over (`NothingLeftOver`); the order runs, one at a time and each from
where no other began, go through the pages once, and the pages before their
common frontier are stored and no others (`OrdersInOnePass`); an item run's copy
is the index until it has one order more, and every item batch is listed or
being written (`ItemsInOnePass`). It assumes of the source that an order stands on one
page and a refund is of an order that was listed (`EachOrderOnOnePage`,
`RefundsAreOfOrders`), without which the report fails for the source's sake.

**CatalogCollection.** `CompletedCatalogs`: until a run went astray, a run that
reported COMPLETED has every page on disk, or the store has an artifact that its readers refuse.
`CatalogInv` says that every page before a run's position, and before the
position in a progress file, has a manifest, torn or whole (`CatalogCovered`);
it needs that a run which writes has a batch of its own at its position
(`CatalogRunOK`, `PagesApart`).

**CommunityCollection.** `CommunityCollected`. Of the comments, `CommentsBehind` says
that every article the run has left was refused or has all its pages, and that the
run's count is the number of these; as articles come in the order of their numbers,
a count in a progress file stands for them (`CountIsBehind`). Of the attachments,
as long as no two collections have overlapped, a temporary file that is written has
its run as the only writer (`DownloadIsSound`), so what is moved is whole and
nothing else is ever under a stored name (`FilesAreSound`). That a report which passes has passed
over nothing is claimed only while no file once reported missing was found again:
the report counts such a file against one that is missing now
(`cafe24_community_integrity.py:696`). Without it, as many attachments reported
missing as are unlisted, all of them unlisted, are the unlisted ones
(`PassedReportIsWhole`), which needs that a file of articles has finitely many of them.

**OAuthToken.** `TokenIsNotLost`, for any number of requests, tokens, restarts
and lost answers. `TokenSurvives` speaks of moments when no request is served;
what holds in between is `TokenInv`: a token an exchange has brought and not yet
stored is usable and nobody else's (`FreshTokens`); a request nothing overlapped
saves the token in memory (`AloneRequests`); and otherwise the token in memory is
usable, and the one in the file with it unless it is known to be behind
(`TokenIsSomewhere`).

**FeedbackForm.** `OpinionIsStoredOnce`, although every save draws a new key: all
saves of one opinion expect one version, which is the one before its row if it
has one (`OneVersionEach`, `ShownVersion`), so the server takes one of them at
most. `AnsweredSaves` ties the form's word *saved* to the history it shows.

**ScheduleReplan.** `AnsweredReplansAreFound`: an id that was answered stays on
the list, and is there once unless two drafts have met. What is found under it moves
the items the impact moves, whoever made the impact up; `DelayMovesItems`
(what a delay of whole hours does to the items behind it) carries the part about
impacts that were calculated.

**MappingReview.** `ReviewsAreApproved`. A call knows every SKU that was in force
during it and decides on one of them (`BackedCall`); what is resolved was
decided by a call that is in the audit or about to be (`BackedResolutions`). That
no item is lost or comes back holds while one call is under way
(`OneCall`, `AloneItems`), and the code does not promise more.

**ReadBootstrap.** `ReadsUseWholeGrants`: a reader past its gate has a token, and
every token the server took came with all the scopes the endpoint asks for
(`GrantInv`); `/start` or an expiry between the two changes neither.
`ManifestsAreWhole`, for lists, limits and pages of any size and any number of
readers. It speaks of files; why a manifest is whole lies in the memory of the call
that writes it. `BatchInv` therefore says whose a batch is: a call owns it once it
has reserved it or stored a page in it, nobody else owns it (`Alone`), and what is stored is
what its owner has in memory (`OwnerOK`). Of a read bootstrap it says more
(`BootstrapRead`): the lists of the earlier stages have been read, and of the current
one whatever the offset has passed. Orders that come in move the others back, so
the next page repeats some and skips none (`OrdersComeIn`); a page says there is no
more only at the end of its list, also when notices overfill it (`PageIsHonest`);
and the lists a later stage reads are those under the records read before, which
further pages leave alone (`ParentsStay`). An export joins the pages' records with a fold;
`FlattenElements` and `FlattenGrows` say what the join has and that a longer sequence
of pages extends it, shown without induction by the smallest counterexample
(`SmallestNumber`).

**PolicyExplanation.** `ExplanationsAreGrounded`. A search thread outlives its request
only by a time-out, and the lock is held for exactly one thread (`StageIsSound`,
`LockIsHeld`), so a late result reaches nobody else. What was read is one row for
each document, of what was asked; what the model is given are those of its rows that
support the claim, none of them stale when they were taken (`WorkIsSound`). Two lemmas about the
operators carry the rest: `ConsumerAgrees`, what the service's policy lets pass the
consumer of the trace lets pass, and `SelectionIsSound`, the rows the bridge selects
support the claim, each of them and together.

**CommunityHandoff.** `HandoffsAreBacked`. The builder's posts were all listed by a manifest
(`ListedPosts`), so the report it runs afterwards counts them, with the question of
each reply; `PaperIsSafe` says of the text, before it is written as well as
after, that its posts were counted, that no two versions of one differ and that
it is safe. A
report is backed by the one before it (`ReporterIsBacked`), and the findings of
both phases are listed unless a script died between its two files
(`FindingsAreListed`).

**CatalogHandoff.** `CatalogsAreSound`, of the composed `ExchangeSpec`. That no hand-off goes
back is not inductive: what a run holds was read some time ago, and the artifact
may have been written since. `Observed` says that each product of a run or of the
artifact was observed at its time, in a file of the pattern it was read by, and
exports only come in; `LatestFacts` says that `_latest_by_identity` finds, for any finite set
of observations, one that no other is later than. Together they give `NotBefore`,
what a run holds is not as of before the artifact it is going to replace, from the
first read to the write. Of the three files, `CatalogerIsSound` says which are of the run's
own catalog, by what it has left to write.

**ProductEvaluation.** `EvaluationsAreAccounted`, of `ExchangeSpec`. `EvaluationInv` ties every
file, and what a script is about to write, to the one snapshot that was pinned
(`PaperIsSound`, `OfPinned`). The rest are lemmas about the operators: `FusionIsOrdered`,
the order by which fused lists are sorted is strict and total, also between equal scores;
`PositionIsTaken`, in such an order of a finite set every position is taken by one
element, so a fused list is as long as the results it has and repeats none; `FusedFacts`, a result both lists have ahead of
another stays ahead, and the list falls by score and rank; `SummaryFacts` and
`RerankSummaryFacts`, counts published of any rows
add up; `CutIsSeen`, a list that is cut shows the metric what the whole one would.

**ReservationTasks.** `ReservationInv` says for each key that proposal, task and
row are those of the detections of its period (`TaskAgrees`, `RowAgrees`,
`AgeAgrees`); a registration changes one key and leaves the others
(`OtherKeysStay`). `RowsCurrent`, with the bound on aging, follows for every window.

**ShortageProjection.** `ShortagesAreAccounted`, for any number of lines and
deliveries. `ShortageInv` follows the totals one at a time: a bucket is the sum of
its known lines and unknown if one of them is. That needs of the fold behind a sum
that it may take the elements of a finite set in any order (`SumTakesAny`), shown
without induction: among the parts of a set where two orders differ there would
be a smallest (`SmallestPart`), from which one element can be taken.

**Only model-checked.** Liveness (`CommittedSaleBecomesVisible`, `RunEnds`) is
beyond the prover. `Services!TypeOK` is about the composition; the modules' own types
are parts of their invariants. `RefusesExactlyCycles` is about a recursive operator;
`CatalogScopesAgree` compares two walks over a tree, and is about what both compute
for every input.
The theorems about modules that appear in `Services` are about these
modules' own specifications (`CommerceSpec`, `CollectCatalogSpec`, `TokenSpec`,
`FormSpec`, `ReplanSpec`, `ReviewSpec`, `ReadSpec`, `CheckpointSpec`,
`ReservationSpec`, `ShortageSpec`, `ExplanationSpec`, `CommunitySpec`); in `Services`
they run with the foci beside them. Those about the hand-offs are about `ExchangeSpec`,
that of the inquiries also about `HandoffSpec`.

## 6. Findings

1. `stale`: of two overlapping sales of a SKU the one that read the ledger earlier
   may store last, and its projection misses the other after both were answered
   (`services/offline_sale.py:282`). In the trace they are the SKU's first sales:
   both scan the list before either stores, and both append.
2. `legacy`: two overlapping deliveries of a legacy sale both have their effect
   (`services/ingestion/idempotency.py:20`).
3. `restart`: a SKU is stored and the server restarted; one sale of another SKU
   then makes the projection list non-empty, and the stored SKU is never rebuilt
   (`api/inventory.py:39`).
4. `retry`: feedback whose reason has surrounding white space is refused when
   sent again (`services/task_feedback.py:41`).

Each is quoted against the document or test it contradicts in `PROJECT.json`.

## 7. Not modelled

- **The other experiments, training and prompts** (about a quarter of the
  repository's lines): scripts that run once over recorded data and compute
  scores. Numeric ranking is *any ranking* in `PolicyExplanation` and
  `ProductEvaluation`; retrieval summaries only read a file.
- **Normalizers**: field mappings of one record.
- **Of the hand-offs**: the phase 1 artifacts that do not depend on
  `ai_handoff.json`, the final scan for forbidden keys and values, the row format
  of the category review, and
  `r07_product_review.py`, which refuses every input it can be given (it demands
  an official status that its own input never has).
- **Provider adapters** other than Cafe24's page reads: stateless request
  building and field mapping.
- **Inventory calculations** other than the category projection, the state table
  of `reservation_state` and `identify_reservation`: sums and comparisons of one call.
- **The front end** outside the feedback form: views that keep nothing a later
  request depends on.
- **Redaction and encryption** of the protected store, configuration,
  observability, risk levels and wording.
- In modelled components: the in-memory ledger service and the branch of
  `process` without a database, `max_pages` of the catalog runners' smoke mode,
  request counters.

Two things the code does are in the models and refuted by no property: a page
larger than `max_items` stops every run of a sync at the same cursor
(`sync/runner.py:147`: it ends with MAX_ITEMS again and again), and a keyed sale
that failed after its fact was remembered makes a corrected fact under its key a
conflict until the next restart (`services/offline_sale.py:363`).
