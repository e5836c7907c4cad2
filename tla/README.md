# BLIPS/IFRS 9: a verification project in TLA+

BLIPS computes expected credit losses (ECL, IFRS 9/PSAK 71) over a portfolio of
instruments. A Go backend (`src/backend`) serves an HTTP API on PostgreSQL, with
Redis/Asynq for background work and a React client. What the regulator asks of it
is not only correct arithmetic but *governance*: nobody approves their own work,
what was approved does not change, a sealed calculation stays as it was sealed.
Those promises are kept (or not) by requests that read a row, decide, and write
it back later, by triggers and CHECK constraints, and by workers that may run
twice. That is what these modules are about.

## 1. Inventory

Paths are relative to `src/backend/internal` unless they start with `src/`.

| component | state | operations | interacts with |
|---|---|---|---|
| **Workflow engine** `workflow/` | `sys.workflow_instance`, `sys.workflow_signature`, a cache of `sys.config` | Submit, Review, Approve, Approve2, Reject | a hook per entity type in the same transaction; the audit writer |
| **Master data** `master/*`: scenario weights, PD curves, LGD, LPS coverage, impact multipliers, ratings, counterparties, portfolios, currencies, rates of exchange, instruments, accounts, journal mappings | a table each with `workflow_status`, `row_version`, `deleted_at` | Create, Update, SoftDelete, the workflow hook; some also seed, generate or upload | the engine; each other, by foreign keys and natural keys; read by everything under `ecl/` |
| **Periods** `master/periodebuku` | open, closing, closed | create, generate a year, update, delete; nothing under `src/` closes one | looked at by calcrun and staging |
| **Calculation run** `ecl/calcrun` | `ecl.calc_run` with its constraints and trigger, the Asynq queue | Create, Start, Cancel, RequestSeal, ApproveSeal, RejectSeal, progress, MarkCompleted | the ECL core as its worker; the audit trail; the period |
| **Parameter snapshot** `ecl/calcrun/parameter_snapshot_service.go` | a JSON document in the run | seven queries and a marshal | all parameter tables |
| **ECL core** `ecl/core` | `ecl.calc_result_line` | ComputeSingle, ComputeBulk, list | asks calcrun whether a run is sealed; EIR, staging, helpers, look-through |
| **EIR** `ecl/eir` | `mst.instrumen.eir_awal`, `ecl.eir_amortization_schedule`, `ecl.eir_reestimation_log`, `sys.drift_report` | compute, generate, propose, detect, new cash flows, review, approve, reject, cancel, drift report and its findings | Asynq; instruments |
| **Staging** `ecl/staging` | `ecl.stage_history` (only inserted into; the current stage is read off it), `trx.dpd_record`, `ecl.staging_override_proposal` | record DPD, evaluate, assess cure, submit, review, approve (ALCO, committee), reject and expire an override | ratings, closed periods |
| **PD/LGD/EAD helpers** `ecl/helpers` | none | lookups and decimal arithmetic | parameter tables |
| **LPS** `ecl/lps` | `ecl.lps_exclusion_override` | aggregate a pair, aggregate all, preview, submit, approve, reject and expire an exclusion | deposits, rates, coverage |
| **Look-through, roll-forward** `ecl/lookthrough`, `ecl/rollforward` | compositions and results, reports | compute, upsert, report | runs and instruments |
| **Audit trail** `audit/`, `src/backend/cmd/audit-verify` | `aud.audit_log`, a hash chain per entity | write, verify | every writer, in its transaction |
| **Idempotency** `common/middleware/idempotency.go` | `sys.idempotency_key` | look up, run the handler, save | wraps every POST, PUT, PATCH and DELETE |
| **Lists** `common/pagination`, `common/listquery`, `List` of every package | a cursor in the client's hands | a page | rows that come and go meanwhile |
| Authentication, other middleware, documents, notifications, exchange rates, configuration, error envelopes | none that others rely on | - | - |

What is hard in it:

* **Read, judge, write.** Nearly every operation reads a row outside any
  transaction, applies its guards to that copy, and then opens a transaction. In
  the workflow and the master data the transaction updates `WHERE row_version =
  <read>`; in calcrun, EIR, staging and LPS it updates by id only.
* **Two writers of one fact.** The workflow instance and the `workflow_status` of
  the row it governs are written in one transaction by different code, under
  different conditions; a counterparty caches the rating its history holds.
* **Rules over several rows.** One sealed run per period; weights that sum to one;
  curves that do not overlap; natural keys that may be used again after a delete;
  one active schedule; three clean months before a cure; a guarantee spent deposit
  by deposit.
* **Workers.** A task may fail, be delivered again, or overlap with its earlier
  delivery; instruments fail one at a time; expiry meets a decision.
* **The database as the last guard.** Separation of duties at the seal is a CHECK
  constraint (`IS DISTINCT FROM`, so NULL passes), immutability is a trigger,
  uniqueness a partial index.
* **Chains, keys and cursors.** The audit chain is linked by a read of "the last
  event"; an idempotency key is saved only after the handler ran; a list's cursor,
  its comparison and its ORDER BY are chosen in three different functions.

What makes each component correct:

* workflow: duties separated in every interleaving; actor columns write-once;
  terminal instances final; every actor column backed by a signature; an APPROVED
  row has the whole ordered chain of independent signatures; its content is frozen;
  row and instance agree;
* master data: one live row per natural key; what is approved stays; one curve for
  a rating and a day; weights that add up; references that resolve; a merged edit
  that is valid as a whole; the cached rating is the approved one;
* calculation run: a seal takes four eyes; a sealed run is complete and never
  changes; a cancelled run stays cancelled; one sealed run per period;
* ECL core: one line per run and instrument, none lost by a retry, none added late;
* EIR: an approved rate is the reviewed one, and applied; one active schedule;
* staging: an override signed by different people, all of whom a row in force
  needs; no cure without three clean months; no way out of default without an
  override;
* LPS: every depositor is covered up to the cap and no further, in order; a
  decision is taken once; the bulk result is that of the pairs;
* audit: serial chains are linked and gaps are noticed; idempotency: a replayed answer
  is the right one, and a retried request runs once; lists: a walk ends and shows
  every steady row once.

`PROJECT.json` lists every component with its status, and the hazards line by line.

## 2. Plan

Done, in this order:

1. `Workflow`, `ApprovalPromise`, `WorkflowProofs`: approval, the abstract promise
   and the refinement, checked and proved.
2. `CalcRun`, `CalcRunProofs`: runs, workers and seals.
3. `MasterRows`, `DatedKinds`, `ReferenceKinds`, `MasterData`, `MasterDataProofs`:
   all fifteen kinds of master rows, their workflow and their periods.
4. `Eir`, `Staging`, `Lps` and their proofs: the measurement packages.
5. `Listings`, `Idempotency`, `AuditChain` and `ServicesProofs`.
6. `Sums` and the second halves of `MasterDataProofs`, `LpsProofs` and
   `ServicesProofs`: weights and guarantees that add up, references, validity,
   the cached rating, exact walks.

Left, should the project be continued:

* `SealPromise`, an abstract specification of a run (open, asked for, sealed by
  somebody else, frozen) that `CalcRun` implements;
* `MasterData` composed with `CalcRun`, so that a snapshot has contents and "a run
  is computed under parameters of one moment" can be asked;
* the composition workflow of look-through and the roll-forward report;
* `Routing` as a function checked against a table.

## 3. Modules and code

### Workflow (`workflow/`, `master/bobotskenario/`)

| variable | code |
|---|---|
| `config[e]` | what `ConfigLoader.Load` returns: four or six eyes, distinct second approver, step-up actions |
| `inst[e]` | the row of `sys.workflow_instance`: state, maker, actor columns (`by`), stamped timestamps, row version |
| `ledger[e]` | `sys.workflow_signature` |
| `row[e]` | the governed row: status, content (a number that each edit increments), row version, deleted |
| `req[q]` | an HTTP request between its reads and its transaction |

`LoadTransition` is `performTransition` up to `BeginTx`: the engine's guards
(`EngineAccepts`, `SoDPermits`) on the instance it read. `CommitTransition` is the
transaction: the UPDATE with the version in its WHERE clause (a miss is no error),
the trigger that protects timestamps, the signature, the audit event, the hook.
`LoadEdit`/`CommitEdit` and `LoadDelete`/`CommitDelete` are `Update` and
`SoftDelete`. `Fail` rolls any of them back, or loses the request. Each
transaction is SERIALIZABLE and is one step.

`Init` is an instance in DRAFT with its governed row, as the integration tests
insert it: no Go code creates rows of `sys.workflow_instance`.

`ApprovalPromise` says the same with nothing but maker, endorsers and stage, and
`KeepsPromise` is the refinement: the endorsers are the actor columns that are set.

### CalcRun (`ecl/calcrun/`, `ecl/core/`)

| variable | code |
|---|---|
| `run[r]` | the row of `ecl.calc_run`: status, period, creator, requester, sealer; whether the snapshot is set; whether `error_count > 0` |
| `lines[r]` | the instruments with a row in `ecl.calc_result_line` |
| `trail[r]` | who has an audit event `CALC_RUN.SEAL_REQUESTED` |
| `active` | what `ListActiveByScope` returns |
| `req[q]` | requests between their reads and their transaction |
| `spared[r]` | the instruments a worker of the run computed to need no line (history) |
| `queue[r]` | tasks `calc_run:execute` in Redis |
| `worker[k]` | a task being handled: instruments still to look at, being computed, whether one failed, whether the context ended |

`LoadCreate`, `LoadOp` and `LoadCompute` are the guards of the services on what
they read; `Commit…` are their transactions, one UPDATE by id each, through
`Write`, which is what the table accepts: `SoDSealCheck` and `ConsistencyCheck`
are its CHECK constraints and `SealedGuard` its trigger. `PickUp`,
`BeginInstrument`, `PersistInstrument`, `FailInstrument`, `EndContext` and
`FinishBulk` are `ComputeBulk` and its goroutines under `Worker.Handle`;
`ReportProgress` is its progress callback and `MarkCompleted` what follows.
`Redeliver` is Asynq: a task that failed or was not acknowledged comes back or is
given up. `Book` are the instruments active throughout, the others come and go.

Not every computation that ends well inserts a result line: routing sends
instruments to `SKIP_FVTPL`, `POCI_DEFERRED` or `LOOKTHROUGH`, and `handleLPS`
(`core/service.go:484`) returns an ECL of zero for a deposit that the guarantee
covers in full. Whether that happens depends on other tables and on the date, so it
is a choice of `PersistInstrument` for the instruments in `Lineless`, and the history
variable `spared[r]` keeps for which ones it was made in a run. A single computation
that inserts nothing changes nothing, and is `Fail`.

Assumptions of this module, each about something the code leaves open:

* Columns have the names the repository uses. Migration 000031 calls three of them
  `asynq_job_id`, `total_instrumen_count` and `seal_reject_reason` where the
  statements say `job_id`, `total_instrumen` and `reject_reason`.
* `UNIQUE (calc_run_id, instrumen_id)` holds. Migration 000029 declares it on a
  table partitioned by `created_at`.
* An Asynq client is passed to the service. `src/backend/cmd/api/main.go:748`
  passes nil; every enqueue then fails, which is the branch of `CommitStart` that
  leaves the queue as it was.
* `ComputeBulk` of the HTTP handler (`ecl/core/handler.go:178`) never enqueues, so
  only `Start` does.
* The core computes with the live parameters and not with the snapshot; the model
  has no values, so only the presence of the snapshot is stated.

### Master data (`master/`)

`MasterRows` holds the variables and what all packages share, `DatedKinds` and
`ReferenceKinds` the guards, constraints and updates of each kind (a group of
definitions per package, named for it: `BobotCreate`, `PdOverlaps`, `KursStore`...),
and `MasterData` the requests.

| variable | code |
|---|---|
| `kind[i]` | the table the id belongs to (one assignment is chosen at the start) |
| `row[i]` | status, row version, deleted, and a body: natural key, reference, first and last day, value |
| `wf[i]` | state of the row's workflow instance |
| `req[c]` | a request between its reads and its transaction |
| `raced` | a request has committed after another one it overlapped |
| `crowded` | default weights were seeded into a period that had some |

`BeginCreate`, `BeginUpdate`, `BeginDelete`, `BeginMove`, `BeginSeed` are what a
service does before its transaction: validation of the body (or of the patch *and*
the row it is merged with), duplicates, references, status. `CommitCreate`,
`CommitUpdate`, `CommitDelete`, `CommitMove`, `CommitSeed` are the transactions, with the
constraint the INSERT meets and the version the UPDATE compares; `CommitGenerate` and
`CommitUpload` are the year of periods and the file of PD curves. `CommitMove`
includes the package's hook. `Fail` is a rollback or a lost request.

`Init` chooses among nothing and rows the migrations seed; `SeedConsistent` says
they differ in their keys, are valid, refer to rows in force and add up, and that
seeded ratings are dated, open and cached by their counterparties, one for each, as
the rows of migration 000002 are. `LGD_BASEL`, `MATA_UANG` and `PERIODE_BUKU` have
no hook in `main.go`, so that their rows keep the status they were inserted with.

`raced` separates two kinds of promise. Versions and constraints hold in every
interleaving (`BodyFrozen`, `NaturalKeysUnique`, `MergedValid`, `RatingCacheFresh`);
checks that are made before the transaction promise something only as long as nothing
overtook them (`PdSingleCurve`, `WeightsAddUp`, `ReferencesResolve`), and that is what
is stated. `crowded` is the third kind: `SeedDefault` inserts a row for every scenario
into a period that has fewer than three rows, also for a scenario that has one, which
`Create` would refuse. `WeightsAddUp` is stated of the runs where that did not happen,
`ActiveWeightsAddUp` of all of them.

### EIR (`ecl/eir/`)

| variable | code |
|---|---|
| `eirAwal` | `mst.instrumen.eir_awal` |
| `schedule[i]` | rows of `ecl.eir_amortization_schedule`: number, rate, the proposal they come from, superseded or not |
| `proposal[p]` | `ecl.eir_reestimation_log` |
| `report[d]` | `sys.drift_report` |
| `req[s]`, `job[w]` | a request, and a drift job, between reads and transaction |

`ComputeEIR`, `GenerateSchedule`, `ProposeAmendment`, `DetectAmendment`,
`UpdateCashflows`, `ReviewAmendment`, `ApproveAmendment`, `RejectAmendment`,
`CancelAmendment` and `GenerateDriftReport` judge; the definitions whose names end
in `Commit` are their transactions. A cash flow projection is a model value with a rate (`Solve`) and a
number of rows (`Length`): the root finder and the amounts are not modelled, what
is approved from which projection is.

### Staging (`ecl/staging/`)

| variable | code |
|---|---|
| `today`, `closed` | the date, and the months that are HARD_CLOSED (closing is external: no code under `src/` does it) |
| `dpdRecord` | `trx.dpd_record` |
| `stageHistory` | `ecl.stage_history`; the current stage is read off it by `tanggal_migrasi`, `created_at` |
| `override[o]` | `ecl.staging_override_proposal` |
| `inFlight` | requests between reads and transaction |

Two rows of one transaction share their timestamps, so "the first row" is a choice
between them. A request lasts less than a day (`NextDay` waits for those in flight).

### LPS (`ecl/lps/`)

`hari` is the date of the expiry worker, `exclusion` is
`ecl.lps_exclusion_override`, `lpsInFlight` the requests. The FIFO allocation is a
function of the deposits of a pair in the order of the query (`allocatePair`), with truncation and
rates of exchange; the bulk query and the preview are their own definitions, so that
they can be compared.

### Lists, idempotency, audit (`common/`, `audit/`)

`Listings`: a client's `walk` over `table` while rows are inserted and soft-deleted
(`changes` bounds how often); `MasterNext`, `HistoryNext` and `MeasurementNext` give
for each list the ORDER BY, the comparison and the column of the next cursor, as its
repository, service and handler do. `steady` is the rows visible throughout. A code
that is in use is not given again; `FreesKode` are the lists of tables whose index
leaves deleted rows out, so that the code of a deleted row may be. A page may also
fail (`PageFails`): the three lists of staging (`Refused`) join a clause that begins
with AND to the others with AND, so that the statement of every page after the first is
refused and the walk goes no further.

`Idempotency`: `stored` is the table, `req` the requests at their steps (looked up,
running, ran, replayed...), `ran` every execution of a handler, `orderly` the keys whose
requests never overlapped and succeeded, and whose answer was saved and has not expired.
An answer is a success, a refusal or a failure (`Statuses`), and is saved whatever it is.

`AuditChain`: `log` is what is committed, `tx` an open transaction with what it
fetched and inserted; `VerifyHashChain` is the verifier. A hash is the pair of what
was hashed. `Readings` are clock readings with the digits that are hashed and not
stored: they are why the chain of a single writer already fails verification, and why
what is stated of a serial chain is how its events are linked (`SerialChainLinked`).

Assumptions of these modules, each about something the code leaves open:

* **Identity of the caller.** The middleware sets `userId` and `mfaVerified`
  (`auth/middleware.go:39`), while handlers of LPS (`lps/handler.go:78`), EIR and
  look-through read `user_id`, `mfa_verified` and `role`. As wired, LPS override
  requests are refused and EIR acts for no user. The models take the keys the
  handlers' own tests set.
* **EIR.** The migrations keep columns NOT NULL without default
  (`schedule_id_kode`, `log_id_kode`, `eir_sesudah`) that no INSERT fills; the model
  takes the tables the statements write. `document_id` is never written
  (`eir/repo.go:568`), so the index of migration 000028 never applies.
* **Staging.** Migrations have no `created_by` in `ecl.stage_history` and a
  NOT NULL `stage_history_id_kode`; `staging/repo.go:361` writes the one and not the
  other. The model takes the table the repository writes.
* **LPS.** The query reads `k.nilai_kurs`, which migrations' `mst.kurs` lacks; the
  model takes the table the query reads. The workflow hook of exclusions is never
  reached, since `Submit` creates no workflow instance.

## 4. Runs

| run | question | result |
|---|---|---|
| `workflow` | one record, four users, two requests in flight, four and six eyes, one edit | passes: duties separate, approved rows endorsed in order and frozen, the instance final, backed by signatures, and implementing `ApprovalPromise` (185,140 states) |
| `workflow_sync` | does the governed row follow its instance? | no: a transition judged on a stale version moves no instance but still signs and writes the row |
| `calcrun` | one run, by three people with two requests in flight and a worker, single computations among them; or by two workers with failures, ended contexts, redelivery and instruments that need no line | passes: a sealer is neither creator nor recorded requester, the trail always names another requester, what is or may be sealed has accounted for its whole book, a sealed run never changes (761,492 states) |
| `calcrun_cancel` | is CANCELLED terminal? | no: a start or a completion judged before the cancellation commits after it |
| `calcrun_periode` | is one run per period sealed? | no: the period is looked at when a seal is requested and not when it is approved |
| `masterdata` | two rows of one kind, or of two that refer to each other, two overlapping requests | passes: keys, references, curves, weights, merged edits, the cached rating and frozen bodies (1,079,381 states) |
| `weights_seeded` | three weights, one request at a time: do the approved weights of a period add up whatever was seeded? | no: defaults seeded beside a weight count in the hook's sum, and the approved weights add up to less |
| `measurement` | EIR requests, a drift run beside one, months of stages, an override, LPS exclusions | passes: rates reviewed and applied, one active schedule, different signers, earned cures, the guarantee up to its cap, decisions once (564,455 states) |
| `services` | a client walks every list; retries overlap and fail; transactions chain events | passes: walks end and are exact where the cursor is the order, replays are faithful, sequential retries run once, serial chains are linked and gaps are noticed (670,812 states) |
| `services_retry` | are failures of a handler left unsaved? | no: a 5xx answer is saved, and answers every retry until it expires |
| `staging_autocure` | is there no automatic cure out of stage 3? | there is: a default written as two rows of one instant may be read back as stage 2 and cured |
| `lps_bulk` | does the bulk aggregation agree with the pairs'? | no: it excludes a deposit on dates outside the override's periods |

The violated properties quote a document or a comment of the repository; the
findings in `PROJECT.json` cite the line that says it and the line that does
otherwise. The parts of `measurement` and of `services` share no written table, so
each behaviour runs one of them (`part`) and the numbers add up instead of multiplying.
Those of `calcrun` do share the run, and are two restrictions of its behaviours: either
one worker at a time is busy with the fixed book, whoever asks for what (`People`), or
one person acts while two workers overlap and the second instrument becomes active and
inactive (`Filling`). What both at once could do is left to the proofs, which have no such
restriction.

**Bounds.** Four users are what six eyes need (maker, reviewer, two approvers), and
three are a creator, a requester and a sealer: with fewer, some chains of approval
could not be completed and some separation could not be violated. Two requests in
flight suffice for every race between a judgement and a commit, since each operation
has two steps and any number of them may run before and after. `MaxEdits = 1` gives
one change of content, enough to tell an approved content from the edited one; each
further edit repeats it. Two workers overlap on one run; a third adds no new kind of
overlap. Two instruments, one of the book whose computation may or may not need a line
and one that comes and goes, are enough because each is handled on its own. The queue is unbounded in the module and finite in the runs,
since a run is started at most once per request that was judged on DRAFT.

In `masterdata` two rows are what a key, an overlap, a sum or a reference relates;
each kind has the bodies that meet and that do not, and a malformed one;
`MaxVersion = 2` bounds only *edits* per row, so that a row can still be edited, submitted
and approved. `weights_seeded` needs three rows, a weight of the client's and a default for each of
two scenarios, weights 0 and 1 of a target 2, and one client, since no race is involved.
In `measurement` one proposal with two projections, of one and of two
rows, distinguishes the approved from the replaced; three signers make a fourth
signature impossible unless somebody signs twice; months of one day make three closed months and
what crosses them fit into six days; `MaxHistory = 3` holds a default's two rows and
a cure. Three deposits of one bank and two depositors, one in foreign currency, let
the cap run out in the middle of a deposit; there are two of everything dated. In
`services` five rows whose ids do not follow their creation, two of them equal in
group, date and second and two in their code, make every wrong cursor skip or repeat;
page limits are one and two. Two
requests of one key with two payloads and three executions overlap, conflict and
retry; three events of two writers fork a chain. The proofs need none of these
bounds.

**Deadlock** is not checked: a system whose records are all final, deleted, sealed or
cancelled, with no request in flight, has come to its end (`workflow`, `calcrun` and the
runs that go with them), and in the others a bound on versions, days, clocks or events
ends behaviours. No operation of the code waits for another one, so that nobody could
wait for everybody; what may wait for ever, a run IN_PROGRESS, is below.

**Fairness.** One property is about progress: `WalkEnds` assumes weak fairness of
`NextPage` and nothing else. The caller of a list is a client that has begun a walk
and keeps asking; the server answers one page per request, whatever other users do.
The code guarantees no other progress, so no other is claimed: an enqueue that fails
after the commit is only logged, a task may end without completing its run, the
Asynq client is nil in `main.go`, and the expiry workers of staging and LPS are
constructed without being registered (`main.go:503`, `main.go:605`). A run then stays
IN_PROGRESS and its period blocked until its creator cancels it; a drift report left
IN_PROGRESS blocks the later ones for good.

## 5. Proofs

Each proof module holds for any number of users, records, requests, workers, days
and configurations. The assumptions are those of the modules: NULL is no user,
configurations and bodies are well-typed, bounds are numbers, the book and the exempt
instruments are instruments; and the rows at the start are `SeedConsistent`. Each
module has an inductive invariant `IInv`, proved of `Init` and of every action.

`WorkflowProofs` proves `TypeOK`, `SegregationOfDuties`, `ApprovedRowEndorsed`,
`LedgerBacksInstance`, `InstanceIsFinal`, `ApprovedContentFrozen` and the refinement
`KeepsPromise`. None of them is inductive by itself: a commit acts on what was read
earlier. The invariant `IInv` therefore says what a request in flight knows: the
version it carries, that what it was judged on is how the instance looks *if* the
version is still current, and that signatures of the earlier steps exist in any
case. A request whose version is current commits a step of the engine; one whose
version is not leaves the instance alone and only its signature and the row have to
be accounted for.

`CalcRunProofs` proves `TypeOK`, `SealSoD`, `FourEyesSeal`, `SealedRunComplete` and
`SealedRunFrozen`. There is no version here, so the argument is another one: rows
move freely, but lines, the trail and the presence of a snapshot only grow
(`Growth`). What a request was judged on and needs later is of that kind
(`JudgedOp`): a run found COMPLETED has its lines for good, and whoever asked for a
seal stays in the trail. A worker that has not failed accounts for every instrument
of the book (`Diligent`), and what the row of the moment must satisfy is left to
the constraints and the trigger (`Updated`). Accounting for an instrument means a line
or `spared`: that one is neither is what a failure, an ended context or a lost task would
leave behind, and is excluded from COMPLETED on.

`MasterDataProofs` proves all eight properties of the run `masterdata`. The first
half is about `TypeOK`, `BodyFrozen`, `NaturalKeysUnique` and `PdSingleCurve`. A
status never changes without its version (`Evolves`), so an edit that was admitted on
a draft does not match the row any more once it is submitted; keys enter the table
only past a constraint; and a request that nothing overtook (`quiet`) finds at its
commit what it found before, which is what keeps approved curves apart
(`CurvesApart`).

The second half, with the invariant `JInv`, is about `WeightsAddUp`,
`ReferencesResolve`, `MergedValid` and `RatingCacheFresh`. A request carries a
*promise*: what it was admitted with. Part of it holds under any interleaving (a body
to be inserted is valid; a patch is valid together with the row *as long as its
version is current*, because the version stands for the content, `VersionTells`),
part only while the request is quiet (no duplicate weight, the row referred to is in
force, no row refers to the one to be deleted). From it follow, of the rows:

* they are valid (`RowsValid`): what is stored is the merge that was checked, since
  an UPDATE that matches the version meets the content the service read. Journal
  mappings, whose version may stand still, are validated in one column that no merge
  relates to another;
* a counterparty has one rating (`OneRating`): the index `uq_rating_aktif` admits
  one that has not ended, so that the branch of the hook that closes a previous
  rating is never taken, and the cache holds the one that was approved;
* the status of a row with a hook is the state of its instance (`InStep`), hence a
  row that is referred to, being APPROVED, is never moved again;
* weights of one period differ in their scenario (`WeightsApart`) unless defaults
  crowded it. If all scenarios have an approved weight, the siblings the hook summed,
  drafts included, were the other approved ones and nothing else, and the total it
  compared with the target was theirs. Rows that leave an approved period leave it
  incomplete.

`Sums` has the facts about sums over finite sets that this and the guarantee of LPS
rest on: a sum splits off any element and depends on the summands only. The sum of
the community modules is a recursive function on subsets; each fact is proved of a
set of least cardinality among those of which it would fail, so that no induction
theorem with an operator parameter is needed.

`EirProofs` proves `EirTypeOK`, `ApprovedRateReviewed`, `ApprovalApplied` and
`NewScheduleAlone`. A proposal is *loose* while its cash flows may still be replaced,
by a request in flight too, and *frozen* from the moment it waits for review; no
proposal is both (`Separate`). What was computed from frozen cash flows stays true
until the transaction.

`StagingProofs` proves `StagingTypeOK`, `DistinctSigners`, `OverridesBacked` and
`CureEarned`. The history only grows, and what enters it for the worse bears the day
it is written, which no closed month contains any more; a signature may be replaced
by a stale request, by somebody who is not among the others, and is never taken away.

`LpsProofs` proves `LpsTypeOK`, `DecidedOnce` and `CoveredUpToCap`. Requests name
proposals that exist, and neither the date nor the calendar goes back. The guarantee is
followed through the loop of `allocatePair`, deposit by deposit: what was covered so
far and what is left make up the guarantee until the exposure passes it, and nothing is
left from then on; truncation and excluded deposits change neither.

`ServicesProofs` has three parts.

* *Lists*: `ListTypeOK` and `WalkExact`. Of every list ordered by its code, order,
  comparison and cursor are one strict order (`Agreeing`, list by list); a walk has
  counted once each row it has to show that is behind its cursor, and none ahead of
  it (`Counted`). A page takes the first candidates, so its last row parts those
  counted from those to come.
* *Idempotency*: `IdemTypeOK`, `ReplayFaithful` and `SequentialOnce`. Executions only
  grow, so an answer stays that of its execution, and for an orderly key the open
  request, the executions and the row are in step (`InStep`).
* *Audit*: `AuditTypeOK`, `SerialChainLinked` and `GapNoticed`. Ids are never used
  again, so what a writer saw of a chain stays what it saw (`Follows`).

So every safety property of a passing run is a theorem. Only model-checked: `WalkEnds`,
which is liveness, and the properties the code violates, of course. Out of the prover's
reach, and so not attempted: liveness, ENABLED, and induction over recursive
definitions by the library's theorems. Where a proof needs the largest or the least of
a set, it takes it from the library's well-founded induction.

## 6. Not modelled

What the models show or leave out, that no property states:

* *Workflow.* The configuration of an entity type changes in the code when its
  five-minute cache expires; in the model it is constant. A record waiting for its
  second approval is stranded if its type becomes four-eyes meanwhile. A failure to
  write the audit event in `performTransition` is not fatal in the code; the ledger
  here is the signature, whose failure is. A row of scenario weights may be edited
  until it is approved (`bobotskenario/service.go:234`), also after it was reviewed,
  where the comment at line 210 has "workflow_status MUST be DRAFT or RETURNED".
* *Runs.* Two starts judged on one DRAFT row replace the snapshot; a single
  computation judged before the seal inserts a line for a late instrument into the
  sealed run; the upsert of look-through overwrites results of a sealed run. They
  wait for a model with values. A deposit the guarantee covers in full has no line in its
  run (`core/service.go:484`), where `src/docs/state-machines/p4-m3-lps.md:103` wants its
  zero stored and never skipped ("TIDAK boleh di-skip"); the same holds of the other
  instruments of `Lineless`, so a sealed run is complete in the sense that nothing was
  left out by failure, and not in the sense that every instrument has a line.
* *Master data.* Rejected weights are left out of the hook's sum and still count as
  duplicates and among the rows `SeedDefault` looks for. A PD curve deleted while it
  is on its way is still approved
  (`pdpefindo/workflow_hook.go:34`), and lookups do not filter `deleted_at`
  (`ecl/helpers/repo.go:180`), so the property is stated of live rows. Details of a
  journal mapping are replaced without comparing a version, also after approval; an
  account is deleted although mapping details refer to it. Overlaps of weights
  and of LGD are half-open where the lookups include the last day
  (`ecl/helpers/repo.go:325`). Encryption, exports and CSV formats are
  left out.
* *EIR.* A stale UPDATE brings a terminal proposal back (`eir/repo.go:608`), which
  `src/docs/state-machines/p4-m6-amendment-lifecycle.md:139` excludes; a forced
  regeneration after an approval leaves two active schedules; drafts of the detector
  never reach review; a failed commit of an automatic proposal is ignored
  (`eir/drift_service.go:393`); the bulk recomputation is never enqueued.
* *Staging.* Cure months need not be consecutive; expiry writes no history row
  (`worker_tasks.go:234`); handlers check no role; the bulk task is registered
  nowhere. Two evaluations that cross may put stage 2 over a default.
* *LPS.* The bulk query uses `BI_JISDOR` only and accepts a rate of zero where the
  single pair refuses it; two submissions of one deposit may both pass
  (`lps/service.go:694`); exports and job rows are left out.
* *Lists.* The list of runs ignores its cursor (`calcrun/repo.go:98`), a list of
  compositions sorted otherwise never ends (`lookthrough/repo.go:283`), the DPD records,
  the stage history and the overrides have no second page (`staging/repo.go:257`, 444 and
  801 with `buildWhere`, 905), lists that
  compare ids while ordering by something else skip and repeat (`kurs/repo.go:229`), and
  the cursor of a history is truncated to seconds (`coa/repo.go:463`); a list that
  shows deleted rows may skip one of two rows of a code that was used again. `WalkEnds` and
  `WalkExact` name the lists they are stated of. The histories of the impact
  multipliers query columns the table lacks and are not in the model.
* *Idempotency.* Nothing deletes an expired row, which then blocks the insert, so that
  a key used again later is protected no more; concurrent requests of one key both run.
* *Audit.* Times are hashed in nanoseconds (`audit/writer.go:143`) and stored in
  microseconds, so that nearly every chain the code writes is reported broken, also one
  that a single writer wrote, where
  `src/backend/internal/test/integration/audit_hashchain_test.go:60-69` expects it to
  verify; the model has such readings, and no property says that a chain verifies.
  Concurrent writers fork a chain. A range that starts inside a chain is
  reported broken; deleting an entity's newest events goes unnoticed.

Not modelled at all: ECL arithmetic, routing, the EIR root finder, PD/LGD/EAD
interpolation (pure computations on decimals); look-through and roll-forward (the
plan's rest); authentication, documents, notifications, the client of the central
bank, configuration and formatting (I/O or stateless).

Run a check with `tlc -config MCCalcRun.cfg MCCalcRun` and a proof with
`tlapm CalcRunProofs.tla`, in this directory.
