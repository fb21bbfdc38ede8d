# TLA+ models of the Spares AI backend

The backend (`src/app`) copies SAP tables into Azure SQL, keeps that copy fresh, and serves three initiatives
computed from it: I07 (stocking decisions), I08 (repairables) and I13 (procurement watch). What is hard in it is not
the arithmetic but the keeping: which watermark may move when, which process may work beside which, which file stands
for a whole table, which version of a computed snapshot a reader may be shown, and whose signature a decision has.
This directory models that part, checks it with TLC on small instances and proves with TLAPS what can be proved for
every instance.

Contents: [inventory](#inventory), [modules](#modules-and-the-code), [runs](#runs), [findings](#findings),
[proofs](#proofs), [not modelled](#what-is-not-modelled), [what is left](#what-is-left). `PROJECT.json` holds the same
in tables: the map from each definition to the lines it models, the hazards with the line each bites at, the runs, a
mutant for each property of each passing run, and the theorems.

## Inventory

| Part | State it keeps | Operations | Talks to |
|---|---|---|---|
| Delta sweep: `ingest/sweep.py`, `fetch.py`, `load.py`, `raw_merge.py`, `watermarks.py`, `manifest.py` | `raw_*` tables, `ingest_watermark`, `ingestion_run`; in memory windows, parent keys, landed rows, candidate marks | seed marks, read windows, fetch parents first, merge, move marks | SAP over CPI; the tables everything else reads |
| Delta cycles: `ingest/scheduler.py`, `main.py` lifespan | SQL Server application lock; per worker a timer, an event runner with a retry count, a snapshot-check task | timer tick, event tick, refusal and retry, stop, restart | runs the sweep in a thread; asks for snapshot checks |
| PR events: `api/events/pr.py` | an event log | validate, ask for a cycle | delta cycles |
| Full refresh over CSV: `csv_load.py`, `csv_tables.py`, `scheduler.py` | raw tables replaced whole, marks seeded back, extracts not yet loaded | pull all, replace, seed, mark loaded | delta cycles, run beside it by intention |
| CSV extract requests: `csv_pull.py`, `csv_receipt.py`, `api/events/csv_upload.py` | `csv_extract_request`, one file per request, uploads being landed | fire, land a chunk, count it, judge, abandon, load | SAP, full refresh |
| CSV deltas: `csv_delta.py` | marks of its own | window, tag, merge increment | fires the same requests |
| Stored I13 snapshot: `i13/snapshot_store/` | `i13_snapshot_run` rows, record tables by version, working copies `i13_w<v>_*`, the build lock | build, re-age, swap, clean-up, start-up clean-up, refresh of one material | raw tables, plans, its readers |
| In-memory I13 snapshot, `i13/snapshot.py` | the process's own copy, fingerprint | compute fingerprint, swap | raw tables, `shared/snapshot_builds.py` |
| Assistant | turn log, `consumption_plan` | capture a plan, then refresh its material | stored I13 snapshot |
| I07 pipeline: `i7/pipeline.py`, `pipeline_scheduler.py`, `watch.py`, `locking.py`, `adapters/extract.py` | `i7_pipeline_run`, `i7_staging_run` with its saved steps, the pipeline lock, one timer thread per instance | tick, change check, claim or resume staging, stages, outcome, abandoning dead rows | raw tables, approvals (it generates the rows) |
| I07 approvals: `i7/recommendations/` (`workflow`, `routing`, `ledger`, `execution`, `oar_exclusions`), `api/i7/approvals.py` | `i7_recommendation`, `i7_approval_ledger`, `i7_recommendation_version`, donor exclusions | submit, six approval actions, execution reports, donor removal and restoral, sync | the pipeline; SAP only by hand |
| I07, I08, I13 computations and reports | none of their own, or rows written once | pure functions over staged rows | |
| Snapshot build slot: `shared/snapshot_builds.py` | one lock for in-memory builds | wait, take, give up waiting | I08 and I13 in memory |
| API, authentication, integrations, models, migrations, generators, scripts | none beyond the database | requests, clients, declarations | |

How they interact: a timer or a purchase-requisition event takes the application lock and runs one sweep in a thread;
the sweep merges rows and records each load in `ingestion_run`. Once a day the full refresh, under a lock of its own,
asks SAP for whole tables over the CSV route and replaces them, marks included. The I13 watchers compare a fingerprint
of `ingestion_run` with that of the served version and launch a build process; the I07 timers compare theirs with the
last run that succeeded and run the pipeline at night. The assistant writes a plan and then recomputes one material of
the version being served; approvers act over HTTP on the newest row of a recommendation. Processes share nothing but
the database, SAP and blob storage.

The hard behaviours, and what makes each part correct:

- *Sweep*. SAP moves while it is read; a set's rows are partly reachable only through other sets' keys; every fetch,
  load and mark can fail separately or die in between; marks are whole days. Correct: a mark never passes a change
  the tables lack (`NoGap`), and every change arrives in the end (`Arrives`), but for the two ways past a mark that the
  code leaves open (`skipped`, below).
- *Cycles*. Several workers, one lock owned by a database session, tasks on an event loop with work in threads that
  cannot be cancelled, requests that arrive at any moment. Correct: one cycle at a time (`OneCycle`), no accepted
  request without a runner (`NoLostRequest`), refused or killed work begun again (`Served`, `PickedUp`).
- *Full refresh*. It replaces tables and sets marks back while deltas read and move the same marks; any extract, load
  or mark write can fail on its own. Correct: the mark passes no change a table lacks unless that table was put back behind it
  (`NoGap`), and drift lasts until the next refresh at most (`Heals`).
- *CSV extracts*. Chunks name a table and no request, arrive in parallel, repeated or not at all; silence is the only
  end. Correct: what is judged complete is complete (`CompleteIsWhole`, which the code does not give; `WholeFile` says
  when it does), and no request blocks its table for ever (`Unblocked`).
- *Stored snapshot*. A build takes over an hour in a process of its own while loads, midnight, captures, other
  instances and start-ups go on; it can fail or be killed anywhere, or lose its lock unnoticed. Correct: what is
  served is whole (`ServedWhole`), is of the data it names (`Fresh`), is the only one (`OneReady`), never goes back
  (`NeverBack`), has the captured plans (`PlansServed`) and catches up (`UpToDate`).
- *I07 pipeline*. Checks before the lock, work of hours under it, resumption of what a dead process staged. Correct: a
  live run is never written off (`Owned`), "processed" means published (`Published`), attempts end (`AttemptsEnd`), the
  data is processed in the end (`Settles`, `CarriedOn`), rows are deactivated only against a complete snapshot
  (`SweptWhole`).
- *I07 approvals*. Requests read a row, decide, and commit later without a lock, writing only the columns they changed.
  Correct: nothing is released unsigned (`FinalSigned`, `SignsOff`); the last word of every role on a released row is its
  approval (`LastWord`), the figures a row shows out of an edit's reach are those acted on since it was last submitted
  or sent back (`SignedFigures`), and its ledger and versions tell its story (`LedgerTells`, `VersionNames`).

## Modules and the code

Each component has one module with its constants, state, one action per operation or handler and its properties; a
module `MC...` with the values TLC uses; and, for all but `I7SignOff`, a `..._proofs` module (two for `I7Approvals`). Definitions called "Mutant" in a
comment are the plausible bugs the properties are tested against: each differs from the definition after it in one
guard, bound or reset, and is used by no specification. Constants commented "bound:" only keep the instance finite.

### `DeltaSweep`

An *event* is a change in SAP. It is dated on one set (`Carrier`) and alters that set and every set read through its
keys (`Readers`): a goods receipt is dated on `POHistorySet` and alters the order's items and schedule lines too.
`raw[s]` is the set of events whose effect the table has, so "a change was skipped" is one membership.

| State | Code |
|---|---|
| `mark`, `loadDay` | `ingest_watermark`; the newest load in `ingestion_run`, which seeds the first mark |
| `window`, `keys`, `cached`, `rows`, `candidate`, `outcome` | what `run_delta_sweep` and `fetch_set` keep in memory; lost in a crash |
| `pc`, `todo` | the phases of `run_delta_sweep` (fetch all, load all, move marks) and what each has left |

`Begin` seeds and resolves every window once; `CollectKeys` reads one parent's window once for all its children;
`Fetch` reads a set's rows *as SAP holds them then* - events posted between two reads are seen by one and not the
other; `Load` merges and writes the load record; `SetMark` applies the family rule. `FetchFails`, `LoadFails` (both
outcomes of a merge whose archive copy failed) and `Crash` may happen at any point of a sweep; `Wipe`, the reset that
empties tables and keeps marks, between two sweeps once every mark exists. A sweep takes any of `Choices`, the sets
verified when it starts: `verified_deltas` (`manifest.py:524-549`, `scheduler.py:175-193`) may leave a child out while
its parent is swept. `Post` dates an event today or, as a typing error, on any of `BadDays`, a day the ceiling lets
through included.

`skipped` is a history variable: the ways past a mark that the code itself leaves open, recorded when they happen.

- A change dated *behind* its set's mark when SAP records it (`Behind`) lies in no window again. With honest dates that
  never happens; with a row mistyped to tomorrow it does. The ceiling is the UTC day plus one (`watermarks.py:55`,
  `93-99`), so that row is accepted as the mark and the rest of today's changes are behind it, although the docstring
  promises that an implausible date costs nothing (`watermarks.py:86-87`).
- A mark that moves while a set of its family is *left out* of the sweep (`LeftOut`) passes that set's changes.

`NoGap` and `Arrives` say that these are the only two. `SkipsNothing` (proved) says that neither arises where no date is
mistyped to a day the ceiling lets through (`WellDated`) and every sweep takes whole families (`WholeFamilies`). The
instance of `delta_sweep` has both: a date mistyped to tomorrow, and sweeps of the whole family or of the history alone.

### `DeltaCycles`

Workers with a timer, an event runner, and the check after a cycle; the cycle itself is two moments, reading SAP and
landing what was read, in a thread whose life is separate from the task that waits for it. `Kill` ends the process and
its database sessions; `Stop` is the lifespan's shutdown, which cancels tasks but not threads. `owed` is a history
variable: the requests a worker accepted since its runner last *began* a cycle.

A cycle uses its request up when it begins, whatever becomes of it: the health check, an unreachable SAP or an unverified
manifest may end it before anything is read (`scheduler.py:159-213`), and `_tick` still says it ran (`276-280`), so the
runner returns (`404-406`) and only the hourly timer, or another event, reads the requisition. `FinishFailed` is that
failure, before or after the read. So `NoLostRequest` and `Served` are about cycles that begin; that the requisition
reaches the tables in the end (`PickedUp`) is the timer's doing.

### `FullRefresh`

One family: a dated set (`Owner`) and the sets read through its window, one watermark. The delta is what `DeltaSweep`
promises, in three steps (`DeltaReads`, `DeltaMerges`, `DeltaMarks`) that may stop anywhere; an extract is what
`CsvExtract` promises, the table as it was at one moment. `StartPull`, `Pull`, `StartLoad`, `Replace`, `Seed`,
`MarkLoaded` follow `run_full_refresh_cycle` and `load_table`; `PullFails`, `LoadsNothing`, `SeedFails` and `Kill` are the
failures the code survives. `landed[t]` keeps the extracts nobody has loaded, because a failed load leaves its extract
for the next night.

`loose` is a history variable and the honest limit of `NoGap`: a table that was put back to an earlier day while the
delta's mark had passed that day, or that was behind the mark when the owner's own load moved it forward. The code
allows this (`csv_pull` lets a family's extracts fail one by one); the run `seed_passes_a_child` shows it, `Heals` shows
that a later refresh mends it, and `NoGap` says nothing else opens a gap. A delta that sets its mark after the refresh
replaced its table, a crash between the replaced rows and the seeded mark, and a child put back alone all end in
`loose`: of these `Heals` alone speaks.

### `CsvExtract`

One SAP table cut into `NumParts` chunks; `file[r][k]` counts how often chunk k is in the file of request r, so missing
and doubled rows are both visible. An upload (`landing`) takes four steps of the code, each a separate call to storage or
database: `Receive` (which folder, has the file been begun), `Put` (write or append), `Look` (record_chunk finds the
open request *again*), `Add` (totals read earlier, written back one higher). `MaxLanding` only bounds how many uploads
are landed at once. The code's slots are no such bound: each worker process has its own (`csv_upload.py:374-385`), and
a chunk that has waited `csv_upload_max_wait_seconds` (30, `config.py:309`) goes ahead without one (`399-414`). `sweep` and `delta` are the two processes that fire requests; between `Fire`'s check and `Ask`'s
insert another may fire. `Judge` is `_judge` once a clock has run out; clocks are modelled by what they wait for
(`Quiet`) and by `JudgeEarly`, the rare case that SAP pauses for longer.

`mixed` is a history variable: the requests whose file was given what it should not hold (`Mixes`: a chunk of another
request, one it has already, a second beginning), or which counted a chunk that went into another file. The code lets
all of these happen. `CompleteIsWhole` is what the code's comment promises, and fails (finding 2); `WholeFile` is the
same of every request not in `mixed`, and holds, proved for any number of uploads at once.

Counts are in chunks where the code counts rows. A header written with the first data is one step. A request's window
tag is written after the fire, as in the code.

### `I13Store`

`run[v]` is the row of version v with the fingerprint (`seen`: loads per table) and reference day it was stamped with;
`dated` and `undated` are its records, `work` its working copies, which hold how many loads each table had when it was
copied. Dated records carry their day and whether the plan was in them. Build processes (`Procs`) go through
`launched`, `copying` (one transaction over all tables, each table as it is then, invisible and undone until the
last), `building`, `copied`, `swapped`, `cleaned`, or `failed`. Loads commit rows first (`LoadRows`) and their record
later (`RecordLoad`). A plan is stamped with its time (`Draft`), committed (`Capture`), and its material refreshed: the
refresh resolves the served version (`Resolve`) and writes long after (`RefreshMaterial`), or fails and is only logged
(`RefreshFails`, `downstream.py:102-106`). `PostPlan` is a plan recorded by a direct call, which no refresh follows
(`assistant.py:189-217`). A re-age catches up with the plans stamped since it started (`ToCatchUp`, `builder.py:793`);
that may fail and is only logged too (`CatchUpFails`, `801-803`).

`missed` is a history variable: the plans the served version is without and nothing will put there. A plan enters it
when it is posted with no refresh, when its refresh or its catch-up fails, when the process that had to catch up with it
is killed, and when a swap leaves it out (`LeftOut`): after a full build, or after a re-age that began between the plan's
stamp and its commit. It leaves it when a refresh or a later build puts it in. `PlansServed` says there is no other way.
`start_up` and every `Launch` may come from any instance; the lock is asked for only inside the new process.

Holding a build back (settling, gap, window, attempt limit) is left as freedom of `Decided` and of the schedule: those
rules only delay, and a delay is a behaviour already. The swap is one step: two first swaps side by side under READ
COMMITTED are not explored.

### `I7Pipeline`

A version is a state of the raw layer, which the source fingerprint names. `runs` is `i7_pipeline_run`, `staging` the newest
`i7_staging_run` with, per step, the version it read, `stale` an older one that still says running, `built` what each
stage's newest output was computed from.

| Action | Code |
|---|---|
| `Tick`, `Judge` | `_tick_pipeline` and `check_and_run`: slot, change, attempts, fingerprint; then the completeness verdict - all before the lock |
| `Begin`, `Busy` | `run_pipeline` takes the lock, abandons rows whose process died, writes its own; or is refused |
| `Claim`, `SaveStep`, `EndStaging` | `extract._claim_run` (resume or start), each step as one commit, success and the deactivation sweep |
| `RunStage`, `StageFails`, `Finalise` | the later stages, a stage that fails, `_finalise` |
| `Kill` | the process dies; its lock goes with its session; rows stay as they are |

The instance keeps two of the five later stages, the first and the last: what is staged, and what is published.

### `I7Approvals` and `I7SignOff`

A request is two steps: it loads the newest row of its label and checks the state machine on it (`Submit`, `Act`,
`RejectBeforeSubmission`, `ReportExecution`, `EditFigures`, `SyncFigures`), and commits later (`CommitAction`,
`CommitExecution`, `CommitFigures`) or never (`Drop`). Nothing locks the row in between. `DirtyWrite` is what SQLAlchemy
sends: the columns that differ from the loaded ones, so two racing commits may mix. `Generate` adds a row under the label.
Figures are a number naming the rebuild that wrote them. `raced` is a history variable: rows over which somebody
committed although they had changed since being loaded. `FinalSigned` and `SignsOff` hold even then; the finer properties
are claimed for rows nobody raced on, and say exactly what a race can cost.

`LedgerTells` is what is left of "there is no code path that changes a recommendation's status without a corresponding
ledger entry" (`ledger.py:5-6`). Two paths do: an execution report moves a row from the end of its chain to SAP_EXECUTED
(`execution.py:54-55`), and a rebuild of the figures before submission turns READY into NOT_EVALUABLE and back
(`oar_exclusions.py:214-215`). `Unentered` names these two steps and `LedgerTells` says that they are the only ones: a
row without entries is unsubmitted, each entry starts in the status the one before it ended in, and the row stands where
its last entry ended, or one unentered step from there.

`SignedFigures` settles what was signed before a SEND_BACK: a row sent back may be edited although earlier roles approved
its old figures, and they are not asked again. `VersionNames` is about the versions of one row; across the generations of
a label, which share one numbering, the same number may name two sets of figures.

`I7SignOff` is the abstract specification: roles sign rows, and a row is released only once all its roles have signed.
`SignsOff` maps signatures to the ledger's APPROVE entries and releases to the final statuses, and says `I7Approvals`
implements it.

## Runs

Every passing run finishes its whole state space.

| Run | Shows | Instance |
|---|---|---|
| `delta_sweep` | `NoGap`, `MarkForward` under every failure; `Arrives`: every posted change reaches every table it alters, or is recorded as skipped | two of three events on the purchase-order family, seeded marks, a date mistyped to tomorrow, a second day, sweeps with and without the items and schedule lines, one fault |
| `delta_cycles` | `OneCycle`, `NoLostRequest`; `Served`, `PickedUp`, graceful stops and cycles that fail before or after they read SAP included | two workers, one requisition, two kills, failures or refusals |
| `full_refresh` | `NoGap`, `Heals` with deltas at any step beside the refresh | two tables, two changes, two days, one failure or kill |
| `csv_extract` | `WholeFile`, `Unblocked` | two chunks, two uploads at once, two requests from two processes, one lost, repeated, late or silent chunk or failed call |
| `i13_store` | `ServedWhole`, `Fresh`, `NeverBack`, and `UpToDate` under fairness | two builders, two loads, a day change, one failure or kill |
| `i13_store_plans` | `PlansServed`, `ServedWhole` with captures during builds and re-ages, late and failed refreshes and catch-ups, kills | two materials, one plan captured or posted directly, three versions, three days, one failure or kill |
| `i13_store_lock_lost` | `OneReady` although builds lose the lock and run side by side | two builders, two tables, two faults |
| `i7_pipeline` | `Owned`, `Published`, `AttemptsEnd`, `SweptWhole`, and `Settles`, `CarriedOn` under fairness | two instances, two loads of which the second is complete, one retry, one kill, any failures |
| `i7_approvals` | `FinalSigned`, `LastWord`, `SignedFigures`, `LedgerTells`, `VersionNames`, `SignsOff` | two roles, two requests at once, two generations, one rebuild, six writes |
| three violations | see findings | |

*Why the bounds are enough.* Three sets are the smallest family with a chained parent (`POHistory` -> `POItem` ->
`POScheduleLine`) and a child with two parents. A gap needs one event missed, one that pushes the mark past it, and at
most one failure to separate them. `LoadedOn = SeedMargin = 1` puts the extract as early as the margin allows. Two
workers give every pair race for a lock. In `full_refresh` a gap needs two changes on different days and one failure
between them; a third day was explored for nearly ten million states without a violation and is left out for time.
In `csv_extract` two chunks are one that begins a file and one that follows; two requests are one beside or after
another; one rare event leaves every
mixture of two requests possible, which `mixed` then names. Two builders give a build beside a build, a
re-age, a clean-up or a start-up; eight versions let `i13_store` spend one on every load, day and fault, so the bound
never stops the run short of `UpToDate`; three days let a re-age follow a re-age, whose working copies were handed over.
In `i7_pipeline` a second load can come before, during and after a run, and one retry after one kill is a resumed run.
In `i7_approvals` two requests over one row give every race of load and commit, a second generation a row that goes stale
under a request, six writes a full pass with a rejection or a hold in it. One rebuild never reaches the branch in which a
second rebuild numbers itself past a newer generation (`oar_exclusions.py:192`); the theorem `VersionsName` covers any
number of rebuilds.  Where a cfg turns the deadlock check off, the
system may really stop: nothing changes, nothing is due, or a bound on work is reached. Symmetry is used only
where no liveness property is checked.

*Fairness.* Faults are bounded, then things go on. `DeltaSweep` has one weak fairness, on the sweep as a whole: the hourly
timer starts the next and a running one proceeds; it does not say which set succeeds. `DeltaCycles` has it for timers
(`while True` loops with a sleep), runner waits, threads, and App Service's restarts - never for events, which may be lost,
and never for a request to arrive. `FullRefresh` has it on the refresh as a whole, and none on the delta, which may never
run. `CsvExtract` has it on the uploads SAP announced, on the waits (clocks run out) and on the steps a process takes next;
no fairness makes a delta fire. `I13Store` has it for the watchers together (any instance's check may be the one that
launches) and for each launched process. `I7Pipeline` has it for the clock and for a job under way, and strong fairness for
`Tick`: the slot opens every night and is longer than the tick interval, so an instance's timer falls into it again and again.

## Findings

Each is a run whose single property is what a line of the repository says, with a counterexample.

1. **`build_loses_a_plan`**: a plan captured during a full build goes into the version about to be retired; only a
   re-age catches up with captures (`builder.py:577`).
2. **`first_chunks_overlap`**: with two uploads at once and nothing going wrong, the first two chunks of a table both see no
   header (`csv_upload.py:598`), both write the file, the second replaces the first, and the count agrees.
3. **`seed_passes_a_child`**: `load_table` seeds the family's mark from the owner's extract whatever happened to the
   extracts of the sets read through it (`csv_load.py:363`); the sweep's family rule has no counterpart there.

Met while modelling, and not worth a run each. In the delta:

- A parent read whole whose child failed keeps no mark, as it must; but the merge wrote its load record, and the next
  sweep seeds a mark from it (`sweep.py:142`), past the child's older changes. It needs a table that starts empty and is
  loaded on the extract's own day; `Deployed` (below) excludes it.
- On a graceful shutdown the cancelled tick releases the lock in its `finally` (`scheduler.py:278`) while the cycle's
  thread runs on; another worker starts a second cycle beside it. `OneCycle` leaves out threads of a worker shutting down.
- "A refresh is already waiting; it will see this cycle's rows too" (`scheduler.py:298`) is not so once that refresh has
  begun to read; the periodic watcher picks the rows up.
- A *whole* read may set an existing mark back (`fetch.py`: "a mark only moves forward"): nothing is lost by it, so
  `MarkForward` leaves whole reads out.
- `--delta --set` on a parent alone moves its mark although its children were never read (`sweep.py:405` looks only at
  the sets of the sweep), and so does the scheduler whenever `verified_deltas` leaves the children out. Both are in
  `skipped`.
- A row dated tomorrow passes the ceiling, becomes the mark, and the rest of today's changes are behind it
  (`watermarks.py:55`); also in `skipped`.
- A cycle that ends before it reads SAP still uses up the request that started it (`scheduler.py:276-280`); see
  `DeltaCycles`, above.
- `fetch_order` calls the order of sets "not needed for correctness". It is for chained parents across midnight, and
  holds because `POHistorySet` sorts before `PurchaseOrderItemSet`: assumption `ChainsInOrder`.

In the CSV route:

- Two processes may both find no open request and both insert one (`csv_pull.py:301`), where `models/csv_extract.py:31-32`
  speaks of the one open request of a table; their chunks mix (`mixed`).
- A process killed between the fire of a window and its tag (`csv_delta.py:490`) leaves a window that looks like a whole
  extract; once a night's own extract fails, the nightly load replaces the table by it. `WholeFile` is about whole extracts.
- The newest *unloaded* extract may be older than the one the table was last loaded from (`csv_load.py:132`).
- A chunk is counted for the request open when it is counted, which need not be the one whose file it went into; a
  repeated chunk and a lost one cancel out in the count. Both are in `mixed`. A failed query for the open request also
  counts as "none open" (`csv_receipt.py:39-55`), and the chunk goes into the unattributed file.
- "The next delta will fall back to a full pull" after a failed seed (`csv_load.py:372-382`) is so only when the set had no
  mark. `csv_load._highest` has no ceiling for future dates where `watermarks.highest` has one.

In I13 and I07:

- A build whose idle lock connection dropped is cleared by another's clean-up and then makes its emptied version the served
  one (`builder.py:551`, against `lifecycle.py:16-18`). After a lost lock a served version may also be left without working
  copies; every re-age then fails until the next full build, so `UpToDate` is claimed only without lost locks.
- Removing a donor checks the status before a slow recalculation and not again (`oar_exclusions.py:233`): a row submitted in
  between has its figures changed under its approvers. `SignedFigures` excuses raced rows.
- A plan whose refresh or catch-up fails, one posted directly, one whose re-age began between its stamp and its commit, and
  one whose re-age is killed after the swap are not on the WATCH screen until the material is touched again or a new
  version is made (`missed`).
- A HOLD racing an APPROVE leaves a held row at the next role. `RecommendationVersion` is documented as written whenever
  ADJUST changes a value; `apply_approval_action` writes none. `adoption._approval_dates` looks for a ledger status APPROVED
  that nothing writes.
- The deactivation sweep compares with the verdict read before the lock (`pipeline.py:412`): a partial load in between is
  swept over. `SweptWhole` is claimed while nothing loads after the fingerprint was read.
- "If both slip through the lock admits exactly one" (`pipeline_scheduler.py`): a second instance may still run after the
  first has failed, which is why `AttemptsEnd` adds the number of instances to the limit.

## Proofs

Eight modules, checked by TLAPS from nothing, for every value of the constants that satisfies the named assumptions.
After its name, "Assumes" says what else the theorem's statement supposes.

| Theorem | Assumes | Argument |
|---|---|---|
| `DeltaSweep_proofs!TypeCorrect` | - | one case per action |
| `DeltaSweep_proofs!NoGapHolds` | `Deployed`; any dates, any selections of sets | `IInv` |
| `DeltaSweep_proofs!SkipsNothing` | `WellDated`, `WholeFamilies` | `OnTime` on the types |
| `DeltaSweep_proofs!MarkForwardHolds` | - | `ForwardInv` |
| `DeltaCycles_proofs!CyclesTypes`, `OneCycleHolds`, `NoLostRequestHolds` | - | `CyclesInv` |
| `I13Store_proofs!StoreTypeCorrect`, `OneReadyHolds` | - (locks may be lost) | together inductive |
| `I13Store_proofs!ServedWholeHolds`, `FreshHolds`, `NeverBackHolds` | `LockLoss = FALSE` | `IInv` |
| `I7Approvals_proofs!ApprovalTypes`, `FinalApproved` | - (any route, any number of requests) | `IInv` |
| `I7Approvals_proofs!ImplementsSignOff` | - | refinement, step by step, on `IInv` |
| `I13Store_proofs!PlansServedHolds` | `LockLoss = FALSE` | `PInv` on `IInv` |
| `I7ApprovalsStory_proofs!VersionsName`, `FiguresSigned`, `LedgerFollows`, `LastWordApproves` | - (any route, roles that come back included) | `SInv` on `IInv` |
| `I7Pipeline_proofs!PipelineTypes`, `LiveRunsOwned`, `ProcessedPublished` | - | `IInv` |
| `I7Pipeline_proofs!SweptWholeHolds` | - | `IInv`, `Judged`, `SavedRead` |
| `I7Pipeline_proofs!AttemptsEndHolds` | finitely many instances (`InstancesAssumption`) | `Budget` on `IInv` |
| `FullRefresh_proofs!RefreshTypes`, `RefreshNoGap` | - | `IInv`, together inductive |
| `CsvExtract_proofs!ExtractTypes` | - | `IInv` |
| `CsvExtract_proofs!WholeFileHolds` | - (any number of uploads at once and of faults) | `WInv` on `IInv` |

- **`NoGap`** alone is not inductive: moving a mark is safe only if everything below the candidate has landed, and
  that depends on what was read, when, under which window. `DeltaSweep!IInv` says it step by step: windows are the
  marks the sweep found (`WindowsHeld`), sets are read after their parents (`ParentsFirst`), a parent's keys name every
  change below its candidate although SAP moved meanwhile, because what is posted later below the candidate is recorded
  as skipped (`KeysComplete`), a whole read has what its windows lie past (`WholeLanded`), hence what lies
  below a candidate is fetched, loaded, already there or skipped (`CandidateCovered`). `Deployed` has two parts:
  `ChainsInOrder`, and `LoadedInTime` - every table was loaded, from an extract no older than the seed margin.
  `SkipsNothing` shows that the record is no loophole: with honest dates nothing is dated, loaded or marked ahead of
  the calendar (`OnTime`), and with whole families no set is left out, so `skipped` stays empty.
- **`MarkForward`**: a mark the sweep has still to handle is the one its window was read from (`MarksHeld`), and a read
  made incrementally measures no date before its window (`NothingMeasured`), so a candidate is never behind the mark it
  replaces (`CandidateAhead`).
- **`OneCycle`** rests on a thread never outliving the session that holds its lock unless its worker is shutting down
  (`LockHeld`). **`NoLostRequest`** does not need it: the runner's flag is cleared before its cycle reads SAP, and
  tested after, on one event loop.
- **`OneReady`** is inductive with the types because the swap retires whichever version is ready then, in the same
  transaction, not the one its build began from. The other three need `I13Store!IInv`: a process past its start holds
  the lock, so there is one (`LockHeld`); a version under way is a new number, keeps its row "building" and is no older
  than what is served (`Underway`); each phase has behind it what its order in the code gave it (`Phases`): copies taken
  after the fingerprint, hence at least as new; a re-age's source still ready, so its copies and undated kinds can be
  handed over. `ReadyWhole` is then what a swap establishes and nothing else touches. `Fresh` follows because loads are
  recorded after they are made (`Recorded`): fingerprint <= copies <= tables, and equality closes the chain.
- **`FinalSigned`** survives every race because a commit can move a row's chain position only to what its own request
  decided, and what a request loaded was already backed: `RowsBacked` says of each row that every role below its chain
  position has an APPROVE in the ledger for that row, `JobsBacked` the same of every row a request holds in memory. The
  ledger only grows, so a backed row stays backed however old it is when it is written; mixing two backed rows column by
  column is the delicate case. `ImplementsSignOff` reuses it: a commit appends at most one signature, and releases only a
  row whose roles all have theirs.
- **The approval story** (`LastWord`, `SignedFigures`, `LedgerTells`, `VersionNames`) is about rows nobody raced on, while
  requests race on the others. What a request holds in memory was decided by the rules of its operation on the row as
  loaded (`JobsMove`), and on an un-raced row that is the row as it still is; so each commit is one legal move, and four
  facts per row are kept together: the version is past every figure it no longer shows (`Versioned`), an action nobody has
  settled keeps its figures out of an edit's reach (`Standing`), entries join end to end (`Tells`), and every role below the
  row's place in the chain has approved last, unless it will be asked again (`Pass`). The last clause is what a route
  with a role that comes back needs: its earlier approval stops being its last word, and only then.
- **`PlansServed`** is stated for a quiet moment and says nothing of the way there. `PInv` does: a captured plan is due to be
  refreshed into what is served, is in it, will be caught up with by a process that has swapped, or is in `missed` (`Held`),
  and a process that has not swapped has in its batches what was committed when it started (`KnownPlans`).
- **`Owned`** is that whoever works holds the lock and its own running row (`JobsHold`, `JobsProgress`); **`Published`**
  follows a version through the stages: staged steps are no older than the run's fingerprint (`SavedNew`), each stage's output
  no older than what it reads (`BuiltNew`), and resumption compares fingerprints before it mixes. **`SweptWhole`** adds that a
  verdict was true between the fingerprint and now (`Judged`). **`AttemptsEnd`** counts attempts not yet made: an instance that
  passed the check and waits for the lock holds one, so tried plus waiting stays within the limit plus the instances (`Budget`).
- **`RefreshNoGap`** needs four facts beside it: an extract holds every change dated before its day and none after
  (`ExtractsWhole`), so a table holds every change older than the extract it was replaced from (`Replaced`); what the
  delta in flight has read and merged is all that lies below the mark it would set (`Covers`), also after a table was
  replaced under it, unless that table is `loose`; and the table whose mark is seeded still has the rows of its extract
  (`Loading`), so nothing the owner lacks is behind the seeded mark. Another table of the family is covered by
  `Replaced` if its extract is not older than the mark, by the old mark if the mark did not move on, and is `loose`
  otherwise.
- **`ExtractTypes`** is more than types: the loaded rows are `file[key]`, so it needs that what counted a chunk has named
  its file, and that nothing reconciles without a chunk (`Named`), whichever upload is counted for whichever request.
- **`WholeFile`** needs no care about how many chunks are landed side by side. The argument counts: `Done(r)` are the parts of r
  that are in its file once and have no upload past the file left; while r is not in `mixed` it only grows (`FilesOnce`,
  `PutOnce`); and the total of r, which two counts side by side may leave too low, is never above its size (`Totals`), so a
  total of all chunks is all chunks. A count for another request's file, or anything a file is given twice, puts the
  request into `mixed` at that step. What the theorem does not say is that `mixed` stays empty: the findings of the CSV route tell how it does not.

Only model-checked: the liveness properties (`Arrives`, `Served`, `PickedUp`, `UpToDate`, `Settles`, `CarriedOn`,
`Unblocked`, `Heals`), out of this prover's reach. Every invariant and every action property of the passing runs is
stated by a theorem.

## What is not modelled

- The sweep: fetch-only sweeps, `--since` windows, `DELTA_SEED_FLOOR`, an `odata_` table that exists and is empty; the
  shape of rows (blank keys, vocabularies, the new-row guard), whose refusals are failed loads.
- Cycles: partial loads inside a cycle; the weekly OData full pull.
- Full refresh: which tables are due, the enrichment step, the normalised views rebuilt afterwards.
- CSV route: chunks without a header, row counts (chunks stand for them), the size probes, other tables in the sweep's way
  beyond `GiveUp`, the CSV delta's own marks. By default no table is configured for CSV deltas.
- Stored snapshot: the schema signature, the UAT refresh of undated kinds, trimming of run rows; readers racing clean-up;
  two first swaps under READ COMMITTED; `ServedWhole` after a lost lock, where the code does not give it.
- Pipeline: runs started by hand, the snapshot and report steps of a tick (a half-built state may be captured after a failed
  run), steps that return no rows, a lock session that drops.
- Approvals: the values themselves, the choice of a route, conversion eligibility as it changes.
- Computations, reports, queries, the API and the clients: pure functions or plain I/O, without interleavings of their
  own. They are most of the repository's lines, so the map covers a small share of them; widening it would mean
  transliterating numeric code that has no behaviour a model checker could surprise. External systems appear as what
  they may do: SAP posts and pushes, the database grants or ends a session, storage overwrites.

## What is left

1. An abstract watermark store (a table is complete up to its mark) that `DeltaSweep` and `FullRefresh` both implement.
2. The CSV delta's own marks and the rebuilding of a window over several days; a small module for `exclusive_build`.
3. How many rare events each way into `mixed` needs, and a verdict that would see them (counting the rows of the file).
