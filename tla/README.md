# vn-terminal: TLA+ models, checks and proofs

This directory models the core logic of vn-terminal, a terminal for end-of-day
data of the Vietnamese stock market: a Python backend (data refresh, quantitative
engine) and a JavaScript frontend. Paths below are relative to the repository.

## 1. Inventory

| Component | State it keeps | Operations | Hard behaviour |
|---|---|---|---|
| Backtest session loop (`backend/app/quant/backtest/engine.py`, `config.py`) | positions, outstanding orders, cash, equity, fills, trades, order events | per session: execute orders, mark positions, decide per symbol; halt exits; end of period | order of the phases, orders carried over sessions, supersession, slots and cash shared by symbols, stale equity |
| Dual SMA strategy (`quant/strategies/dual_sma_trend_crossover.py`) | none: a function of an as-of window, the position and the parameters | `evaluate` | precedence of halt over warm-up, quality and crossover; recovery after a halt |
| Strategy interface (`quant/strategies/{types,registry,numerics,protocol,serialization}.py`) | registry of strategies | `evaluate`, as-of windows | no look-ahead, exact comparison of averages |
| Backtest metrics (`quant/backtest/metrics.py`) | none: a function of the curves and the trades | `compute_metrics`, `summarize`, `drawdown_curve`, `contract_metrics` | windows that must fit together, undefined values, zero denominators |
| Screener (`quant/screener/{runner,universe,export}.py`) | none: a function of the histories, the listing and the date | `run_screen`, `assess`, `sessions_between`, `rows` of the export | symbols without a bar on the date, recency on the market's sessions, ranking, the account of every candidate |
| Screener job table (`quant/screener/jobs.py`) | records, futures, one executor | `submit`, `status`, `result`, `wait`, `shutdown` | callers, workers and shutdown interleave |
| Indicators (`quant/indicators/*`) | registry | one function per indicator | windows, null propagation |
| Data refresh service (`data/service.py`, `data/api.py`) | run id, status, future | `start_refresh`, worker, `data_status`, reads | status and future disagree, readers during a promotion |
| Snapshot store (`data/storage/snapshots.py`) | staging directories, READY markers, CURRENT pointer | stage, promote, read current | crash between steps, two processes |
| Refresh pipeline and CLI (`data/pipeline.py`, `data/tasks.py`, `data/storage/duckdb_store.py`) | none beyond the snapshots | `run`, `main` | files read three times, CLI beside the service |
| Quality checks, parser, security master (`data/quality`, `data/fdata`, `data/security_master`) | none | assess a file, scan a repository, classify | which findings exclude a file; revisions against the snapshot before |
| Fundamental panel (`data/fundamentals/metrics.py`) | none: a function of the stored observations | `calculate_panel_metrics` | versions, scopes, periods and units that must not be mixed; publication dates |
| Fundamental store and ingestion (`data/fundamentals/*`) | append-only versions of observations | append, local versioning, as-of read, ingestion | read-then-append races, partial batches |
| Contracts (`contracts/`) | none | shapes of messages | none |
| Frontend (`frontend/src/*`) | state store and its saved copy, chart, panels, requests in flight | `setState`, `syncChartData`, `loadData` and `render` of a panel, reload | answers out of order, flags around an `await`, what a reload restores |

How they interact: the CLI and the service run the refresh pipeline, which writes
snapshots; the service's readers and the quantitative engine read the snapshot the
pointer names; the panel's figures are calculated from the newest versions in the
fundamental store; screener and backtest build `SymbolHistory` objects and call the
strategy registry with as-of windows; the job table runs screens in a worker
thread; the frontend reads answers of the API through a fixture client.

What makes each one correct, in one line: the backtest must account for every
order and every unit of money and must let no position freeze; the strategy must
give the halt rule precedence and see no future row; a refresh must switch the
snapshot atomically or leave the old one; a job must run once and its waiter must
see its end; a screen must be a function of what was known on its date and account
for every candidate; the metrics of a part of the period must fit those of the whole;
the fundamental store must never change or lose a version, and a figure must not
claim to have been known before its inputs; a view that is up to date must show the
selected symbol. `PROJECT.json` lists the hazards
line by line.

## 2. Plan

Done, in this order:

1. `DualSma`, `Backtest` and their theorems: the session loop decides about money.
2. `JobTable`, `ScreenerJobs`: callers, worker threads and shutdown; liveness of a run.
3. `PublishedSnapshot`, `DataRefresh`: the abstract promise (a reader sees the last
   promoted snapshot, whole) and the protocol of files, pointer, service, command line
   and failures, with a refinement mapping.
4. `VersionedSeries`, `FinancialStore` and their theorems: append-only versions,
   ingestions that overlap and fail, the view of a backtest.
5. `Screen`: one screen over a market that goes on trading after it.
6. `FundamentalPanel`: the figures calculated from every subset of a set of reports.
7. `Workstation` and its theorems: store, chart, panels and requests of the browser.
8. `BacktestReport` and its theorems: the curves, the windows and what their metrics
   are made of, on top of the session loop.
9. Theorems for every safety property of the passing runs: the audit record, the ledger,
   the curves and the windows of the backtest, the screen and the financial panel.
10. The comparison with a benchmark and the guards of the backtest's construction.
11. `FileQuality`: the parser's and the quality checks of a file, what of it is served, and
    the revisions counted against the snapshot before.

Next:

12. Theorems about `FileQuality`. Two windows over one saved copy in `Workstation`;
    instances of `Backtest` with a row that has volume and no close.

## 3. Modules

### Backtest: `DualSma`, `Backtest`, `MCBacktest`

* `DualSma.tla`: the rules of the strategy as operators on a window `w`, the
  sequence of a symbol's rows up to the row under evaluation. Row t is
  `w[Len(w)]`; no operator can name a later row. `Evaluate` is `evaluate()`:
  a halt exit while long comes before warm-up, data quality and classification.
  `NewestRow` expresses the backward scans of `_consecutive_zero_volume`,
  `_last_positive_volume_fill` and `_recovery_clear`.
* `Backtest.tla`: the loop of `BacktestEngine.run`. `phase` says where in the
  session the loop is. `OpenSession` starts the next date of the calendar and
  brings each symbol's row; `ExecuteOrder` processes the next order in the code's
  sort order (`KeepOrder`, `CancelOrder`, `FillEntry`, `FillExit` are its
  branches, `Blocker` its early `continue`s in order); `MarkPosition` and
  `EndMark` are phase 2; `DecideSymbol` is phase 3 (`Schedule`, `HaltExit`);
  `Finish` is the code after the loop. `fills`, `trades`, `events` are the lists
  the run returns; as sets of records they keep everything but their order.
  The guards of the configuration classes are definitions (`SizingAccepted`,
  `LiquidityAccepted`, `ConfigAccepted`, `HistoriesSupplied`, and `PeriodsAccepted` in
  `DualSma`), and the assumptions on the constants are made of them.
* `MCBacktest.tla`: the market of the instances: the rows before the period, which the
  strategy sees from the first session on (`History`), and a choice of rows per session.

Variables and code: `session`, `rows` = the loop index and the histories up to the
session's date; `listing` = what `security_resolver` answers for the day;
`positions`, `pending`, `cash` = the locals of `run`; `queue` = what the `for` over
`sorted(pending)` has still to visit, `pending` then plays `still_pending`;
`toMark`, `toDecide` = what is left of the other two loops; `equity` =
`previous_equity`; `sessionNotional` = the value traded in the session
so far and `tradedNotional` the sum of the `traded_notional` curve.

Abstractions. Prices are small integers, rates are integers over `RateUnit`, and
money is exact: rounding of binary floats is not modelled. A price that is not
finite is 0, which the code's tests (finite and positive) do not tell apart. The
listing status has three values: an active security the universe accepts, one
whose trading status is not active, and one that cannot be classified. The order
in which symbols are decided is left open (it is the order of a dict in the code).
Text, evidence records and reasons of signals are left out.

### Reported curves and metrics: `BacktestReport`

`BacktestReport.tla` extends `Backtest` by the three curves that `run` appends to at the
end of the marking (`EndSession` is `EndMark` with the appends; every other step leaves
the curves alone) and by `metrics.py` as operators on a window of sessions. `Window`
selects a period's sessions, `OpeningEquity` is the mark before its first session,
`Tally` has the sums and counts the metrics are quotients of, `Defined` the metrics that
have a value (the growth a year's included). The configuration accepts sessions between the
in-sample and the out-of-sample period, which belong to the full one alone: `Between`. `MaxDrawdown` and `DrawdownCurve` what the names say. A ratio is a pair
compared by cross-multiplication. `Paired` is what the comparison with a benchmark is
computed from: `Returns` and `BenchmarkReturns` of the window side by side, if the benchmark
is `Priced` on each of its sessions. Volatility, Sharpe and Sortino ratio stand for
whether they are defined, because square roots and annualization do not change that.

### Screen: `Screen`, `MCScreen`

`Screen.tla` is `run_screen` with `assess` and the export. A market day (`TradeDay`) gives
each symbol a bar, a bar without volume or none, and a listing status. `Screen` runs a
screen of a completed day for a list of candidates, which may name a symbol twice, the flagged symbols and three
options: the filter for active securities, the one for unresolved critical issues, and
whether the caller passes a calendar. The day
of the screen may be earlier than the last day, and the market goes on after it, so that
`Reproducible` can compare the output with a later repetition. `AsOfIndex`, `Criteria`
(one field per filter), `Score` and `Results` follow the code's functions; the strategy
is `DualSma`, asked from a flat position. `Exported` is the order of the rows written.
Nothing interleaves with `run_screen`, which is one step. Texts, evidence and the
characters of the files are left out; trading values are not rounded.

### Financial panel: `FundamentalPanel`, `MCFundamentalPanel`

`FundamentalPanel.tla` is `metrics.py`. `LatestVersions` keeps one observation per key,
`Previous` and `Beside` find the observation of another period or another code, `Emit`
gives a figure its publication date and version, `PanelMetrics` is
`calculate_panel_metrics`. `Ingest` adds a report, unless the store has other content for a
version the report brings (`OneRowPerVersion`, the unique index of the store); reports come
in any order. `WellFormed` is what normalization lets into the store: the basis of a figure
follows from its code and its period, a figure per share being a ratio or of a balance
sheet. A price has a trading day, which a metric's date does not depend on. `Needs`, used by the properties alone, says for every
metric from which figures of the store it is made by its definition, independently of the
way the code finds them.

### Workstation: `Workstation`

`Workstation.tla` composes `main.js`, `state/store.js`, the chart manager, the fixture
client and the panels that load for a symbol. JavaScript runs a handler to its end: a
click changes the store, saves it and notifies every listener in one step (`SetState`
with `Notify`: the chart asks when `ChartOutdated`, a panel when its last symbol
differs). An `await` ends the step; the answer is another one (`ChartAnswer`,
`PanelAnswer`): data, an empty answer or an error, in any order. `Retry` is a panel's
button, `ToggleLocale` renders every panel again, `Reload` starts the scripts on the saved
copy. A save may fail and a copy may be damaged, both of which the code swallows (`Save`,
`Loaded`). The client has data of two symbols and answers with the first one's for every
other symbol a user types into the list (`DataOf`); what an answer shows is data of that
symbol, under the name of the one asked for. `state`, `locale`, `asked`, `last`, `loading`, `data` are the fields of the objects;
`chart` and `shown` stand for what is drawn. `newest` and `fresh` are history: the number
of a view's newest request, and whether the view's last answer is data for it.
Layout, colours, texts and numbers are left out, and so are the settings no request depends
on (the selected model, the workspace tab, widths); `tab` stands for the tabs, which are not saved.

### Screener jobs: `JobTable`, `ScreenerJobs`

`ScreenerJobs.tla` is `screener/jobs.py` with caller threads and pool threads. A step
is one critical section of `self._lock`, one call of the executor, or one access to
`_futures`, which no lock guards; that is where two threads can meet. `records` holds
every `JobRecord` ever made, `jobs` and `futures` are the two dicts, `queue`, `worker`,
`done` and `stopped` are the pool as `ThreadPoolExecutor` is used here. A caller goes
through `submit()` in three steps: `Register` (the critical section), `Enqueue` (the
executor takes the task, or refuses it once it is shut down) and `StoreFuture`. A
submission that finds a queued or running record returns it; an ended one is replaced.
`wait()` and `result()` look up the future, block on it, and read the record that is
current then. `work()` runs `run_screen`, which returns or raises.

`JobTable.tla` is the promise: per run, none, queued, running, completed or failed,
each state reached from the one before it and a new submission only after the end.
`ScreenerJobs` refines it with the status of the run's current record.

### Data refresh: `PublishedSnapshot`, `DataRefresh`, `MCDataRefresh`

`DataRefresh.tla` composes `data/service.py`, `data/pipeline.py`, `data/tasks.py` and
`data/storage/snapshots.py`. On disk: `source` (what FData writes), `snapshots` (every
staging directory: bars, fingerprints, manifest, READY) and `current` (the pointer).
In processes: `at` and `job`, the program counter and the locals of
`RefreshPipeline.run` for the service's worker and for each command-line process;
`runId`, `status`, `future`, `queue`, `task`, `closed`, the fields of `DataService` and
its executor; `reader`, the calls in progress.

The pipeline passes over the source files three times: `Assess` reads each for its
assessment and fingerprint, `Scan` counts (and, with the same step, makes the
directory, whose name is unique and seen by nobody else yet), `Stage` reads each file
again and writes its bars unless the parser quarantines what it reads now or the
assessment excluded the file. A file's content is one of a few classes here; `FileQuality`
is about what makes a class. `WriteTables` stands for the remaining tables and the
manifest, `MarkReady` for READY and the temporary pointer nobody reads, `Swap` for
`os.replace`. `Fail` is an exception anywhere, also where the promoted run reads CURRENT
again for its result, or the death of a process; `Restart` is a new `DataService` on the same disk. `SourceChanges` and
`NewDay` are the world.

A reader takes the directory from CURRENT, queries its files, and takes the provenance
from CURRENT again (`TakeSnapshot`, `Query`, `Label`); `list_symbols`, `data_status`
and `health` have the same shape.

`PublishedSnapshot.tla` is what the code keeps of its promise: one snapshot is served, its
bars are acceptable (no malformed file), it is replaced as a whole, a reader has the whole
bars of the one it took, and the date of the one served when the call was labelled.
`ServesWholeSnapshots` refines it with the bars and the label a reader got. That the two are of one
snapshot, and that no bar is critical, are the documented promises the code does not keep
(`AnswerIsOfOneSnapshot`, `NoCriticalBars`).

Abstractions. Whether a count deviates from its baseline is left open on a baseline
date. What the result of a run reports beyond promoted or not (paths, quality rows) is
left out. After `close()` a request raises in the executor and leaves `status` queued
for a run that never comes; the model has that state. Files survive the death of a
process; loss of power is not modelled (the code does not call fsync).

### Content of the files: `FileQuality`, `MCFileQuality`

`FileQuality.tla` is `fdata/parser.py`, `quality/checks.py`, the revision count of
`pipeline.py` and the staging of bars in `storage/snapshots.py`, over refreshes of which
each is one step. `FDataWrites` replaces or removes a file. The parser's findings
(`Quarantined`) and the severities of the checks (`Issues`) decide with the reference list
whether a file is `Excluded`; `RefreshIsPromoted` replaces the served bars with `Staged` rows and
records `RevisionCount` against the snapshot before. `RefreshFails` is the exception of
`round()` on a volume that is not finite. `served`, `status` and `revisions` are the
snapshot's partitions and quality table; `lastServed` is history.
A price is one number with the fact whether low and high enclose open and close; volumes
count half shares, so that rounding to even is exact. The model holds the stock files
alone, takes the other categories as present, and takes every file to have a record.

### Financial observations: `VersionedSeries`, `FinancialStore`, `MCFinancialStore`

`FinancialStore.tla` composes `data/fundamentals/{vnstock_adapter,normalization,
service,pipeline,store}.py`. A step is one fetch, one query or one transaction.
`table` gives per series (statement, quarter, basis) the rows by version. `Fetch` is
the adapter, the normalisation and the derivation of standalone quarters: it makes the
batch. Statements whose schema has a version column are appended in one transaction
(`AppendBatch`: a conflict rolls back all of it); the others one observation at a time,
each in two transactions (`ReadLatest` compares it with the newest row, `AppendOne`
stores it under the next number). `Raise` is a conflict or any other failure;
what was committed stays. `AsOf` is `get_for_backtest`.

What the provider answers is a constant, `Feeds`: sets of reports of one fiscal year.
A row's `inputs` are not stored by the code: they record the publication dates of the
reports a figure was made from, for `NoLookAhead` alone. Metrics are cumulative; rows
that are standalone already, annual or of a balance sheet are stored as they come, as
the cumulative ones are here. Names, units, currencies and sources of an observation are
constant per series.

`VersionedSeries.tla` is the promise for series without provider versions: a log that
only grows at its end and whose newest entry is never repeated.

## 4. Runs

| Run | Question | Result |
|---|---|---|
| `backtest` | two symbols that compete for one slot, one of which may trade at two prices, have no volume, have an invalid row, be halted with rows or without: orders, halts, audit record, ledger, slots and cash, and the curves and metrics made of them | holds, 154,677 states |
| `backtest_benchmark` | each session's return is paired with the benchmark's return of that session | violated |
| `backtest_reentry` | re-entry rule of the strategy catalogue after a halt exit | violated |
| `screener_jobs` | callers, workers and shutdown: no run is screened twice at once, the job table keeps its promise, accepted runs end and callers return | holds, 69,507 states |
| `refresh_service` | requests, worker, close and restart while source files change: the status claims no more than happened to CURRENT, an undisturbed candidate is sound, a refresh ends | holds, 386,880 states |
| `refresh_beside_cli` | a service run, a command-line run and a reader, each failing anywhere, with critical and malformed files | holds, 2,048,119 states |
| `file_quality` | files damaged, mended, revised and removed between refreshes: what is served is sound, revisions are counted as made | holds, 133,542 states |
| `financial_store` | two ingestions interleave and fail between transactions | holds, 28,523 states up to symmetry |
| `financial_lookahead` | a backtest sees only what was published | violated |
| `screen` | screens of every completed day of every market of the instance: no look-ahead, recency, ranking, account of the candidates | holds, 317,013 states |
| `panel` | what the panel calculates from every subset of thirteen reports | holds, 24,576 states |
| `workstation` | user actions and answers in any order: what an up-to-date view shows, what a reload restores, that no spinner stays | holds, 621,522 states |

Beside the runs stand configurations that are not part of the regular set. Each checks one
statement of a document or a test on a small instance, and TLC finds it violated by what the code
does (section 5):

| Configuration of | Statement |
|---|---|
| `BacktestTurnover.cfg` (`MCBacktest`) | `TurnoverCountsBothSides`: turnover counts both sides of every trade |
| `ScreenerJobsWait.cfg` (`ScreenerJobs`) | `WaitBlocksUntilEnd`: `wait()` blocks until the run is finished |
| `DataRefreshFailed.cfg` (`MCDataRefresh`) | `FailedLeavesPrevious`: a failed refresh leaves the previous snapshot active |
| `DataRefreshCriticalBars.cfg` (`MCDataRefresh`) | `NoCriticalBars`: critical anomalies never enter the bars |
| `DataRefreshOneSnapshot.cfg` (`MCDataRefresh`) | `AnswerIsOfOneSnapshot`: bars and as-of date of an answer are of one snapshot |
| `FileQualitySilentRevision.cfg` (`MCFileQuality`) | `NoSilentRevision`: a served day never changes without a recorded revision |
| `FileQualityAnomaly.cfg` (`MCFileQuality`) | `AnomaliesAreQuarantined`: an anomaly quarantines its file and no more |
| `FundamentalPanelAllFeasible.cfg` (`MCFundamentalPanel`) | `AllFeasible`: "Calculate all feasible initial-panel metrics" |
| `FundamentalPanelPriceDate.cfg` (`MCFundamentalPanel`) | `KnownAfterPrice`: a multiple is not dated before its price |
| `WorkstationLateAnswer.cfg` (`Workstation`) | `LegendNamesSelection`: the legend names the selection once no answer is awaited |
| `WorkstationOtherSymbol.cfg` (`Workstation`) | `BarsAreOfLegend`: the chart's bars are of the symbol it names |
| `WorkstationLanguage.cfg` (`Workstation`) | `SettingsSurvive`: settings survive a restart |

Bounds of the backtest. `backtest` has two rows before the period and five sessions
(`SlowPeriod = 2`, `Lookback = 3`): an entry, two sessions without volume
(`HaltExitSessions = 2`), the halt exit and a decision after it; a bearish exit can be
scheduled, blocked twice and then filled or superseded. The first symbol meets every kind of
day in every session. The second one trades every day, up and down, so that it asks for the
only slot or gives it back whenever the
first one does, and there is a calendar while the first is suspended. The capital of 390 is
sized as a fraction of equity: it buys two shares at the low price, of which a bar of volume
2 gives one under a participation of 5/10, and none at the high price. Entries are filled
at the open and exits at the close. The in-sample period ends with session 2 and the
out-of-sample period starts with session 4, so that positions are open across the borders of
the windows and one session lies between them. `backtest_benchmark` and `backtest_reentry` use the same market over
three and four sessions, `backtest_reentry` with two slots and fixed sizes.

Bounds of the screen. Two symbols and four days: two for the warm-up (`SlowPeriod = 2`,
`Lookback = 2`), then days with each kind of row (no volume, invalid, invalid and critical,
halted, none), with limits of two sessions, so that a symbol is just within the recency limit or
just beyond it, before and after the screen. Symbol 2 may be listed after the screen,
may be flagged, and may stay out of the candidates, in which case symbol 1 is given twice.

Bounds of the panel. Two quarters, the fourth one's year, the quarter after it and the one a
year later; corrections to zero, without a date, and arriving before what they correct;
an accumulated figure, one of the separate company and one in another unit; figures per
share, of a ratio statement and of a balance sheet, that are positive and zero; a price of a
day before the last reports and one of a later day. Every subset of the reports is a state
with each price.

Bounds of the workstation. Three user actions over three
symbols of which one has no fixture, two timeframes, tabs, languages and states of an
indicator, one bar count and one text (which the store and the chart treat as they do the
timeframe and the watchlist). That lets an action fall between two others and their answers, with up to four requests of a
view in flight. One panel, of the kind whose empty answer is null: it has every
path of the other panels and one more, and panels do not read each other's state.

Bounds of the job table. Two callers, two workers, two runs and two records: two runs
side by side, or one run submitted again, by the same or the other caller, during and
after its life.

Bounds of the refresh. Two files, each alone in its category, so that a file that
disappears makes a blocking reason. `refresh_service` has two refreshes, one change of
a source file and two days, without command line and readers; `refresh_beside_cli` has
one refresh of the service, one of a command line, one reader and one change. Contents are
clean, critical or malformed in both.

Bounds of the file content. One symbol with a reference, whose file takes seventeen forms, one
or more per check, and one without, whose file is revised or removed. Three days, any of
which a refresh may have as its reference date. The sequence of writes and refreshes has no
bound: all values are finite.

Bounds of the store. Two statements of two quarters, the first with local and the
second with provider versions, two ingestors and three fetches: two that overlap and
one that comes after them. The answers (`MCFeeds`) restate the first quarter without
the second, lose a publication date, leave a quarter out, bring two versions at once,
and change a figure under its version, which is a conflict. The two ingestors are
interchangeable, which the run uses as a symmetry; it has no liveness property.

Deadlock is not checked where the system may stop: a backtest ends, a process that
exited does not come back, the fetches, market days, reports and user actions are
bounded. The job table is never stuck.

Fairness. The backtest, the screen, the panel, the snapshot protocol and the store assume
none. For
`RunsEnd` and `CallersReturn`, every caller that is inside a call goes on when it can
and every worker thread works: `work()` is a loop over a finite universe. No caller is
obliged to call, to time out or to shut down. For `RefreshEnds`, the service's worker
thread is scheduled; no one is obliged to ask or to read. For `SpinnersEnd`, every
request of the fixture client ends: its timer fires and its `fetch` is answered or
refused, as a browser guarantees for a local file server. The user is obliged to nothing.

Every property has been seen to fail when the code it depends on is changed the way a
plausible mistake would (`PROJECT.json`, "mutants"; the changed definitions stand in
the modules before the ones they replace).

## 5. Findings

In each case TLC finds what a document, a comment or a test of the repository says violated
by what the code does. The runs show the first three (`PROJECT.json`, "findings", quotes both
sides), the configurations beside them the others.

* Re-entry (`_recovery_clear`): the window's volumes do not show a halt that was
  decided by the listing status, so rule 7 of `halt_exit_rule`
  (`docs/strategy_catalogue.md:259`) is not enforced for it.
* Benchmark (`metrics.py:359`): the benchmark has one return less than the strategy, and
  `zip` pairs each session of the strategy with the benchmark's next one; beta,
  correlation and tracking error are computed from these pairs.
* Look-ahead (`normalization.py:249`): a derived quarter has the publication date of its
  own report only, although the report of the quarter before may be corrected later or
  have no date (`data/fundamentals/DESIGN.md:47`).
* Turnover (`engine.py:730`, `:796`): the sale of a halt exit is added to the session's value
  after that went into the curve, and the next session resets it, where `metrics.py:99-101`
  counts both sides. `CurvesMatchRecord` says exactly what is missing.
* Wait (`jobs.py:108`): a second caller finds the record and no future yet, and returns at once
  with a run that is queued or running, where `jobs.py:123` promises to block.
* Failed refresh (`pipeline.py:286`): an error after the promotion is reported as a failure of
  a refresh whose snapshot is served (`docs/execution_playbook.md:527`).
* Critical bars (`pipeline.py:210`): a file that turns critical between the assessment and the
  staging is published (`data/HANDOFF.md:197`).
* Provenance (`service.py:260`): the bars of one snapshot can go out with the as-of date of the
  next (`docs/development_plan.md:121` and `:1001`).
* Silent revision (`pipeline.py:68`): a file that was missing or excluded for one refresh is
  compared with nothing when it comes back (`docs/development_plan.md:975`).
* Anomaly that ends the refresh (`pipeline.py:97`): one volume that is not finite raises in the
  revision count, before the check that would quarantine it.
* Price date (`metrics.py:126`): P/E and P/B carry the publication date of the report, not the
  day of the price. No historical reader selects these traces today.
* Year and fourth quarter (`metrics.py:73`): both end on the same day and the period type is
  not part of the key of `_latest_versions`, so that of two figures of one code only one is
  kept and the other period's metrics are missing (`metrics.py:261`).
* Late answer (`main.js:180`): an answer to an older request that arrives last is applied:
  legend and chart show the earlier symbol.
* Other symbols (`fixtureClient.js:58`): a symbol the client has no fixture of is shown with
  FPT's bars under its own name.
* Language (`i18n/index.js:7`): it is not in the saved copy and is lost on a reload
  (`docs/development_plan.md:1322`).

Noted without a run, backtest:

* Halt without rows (`engine.py:742`): a suspended or delisted symbol that has no row is not
  evaluated, and its position is still open when the run ends, where
  `docs/strategy_catalogue.md:237` says that a halt must terminate it.
* `net_pnl` of a trade is gross profit less the exit cost only, while `costs` holds both;
  `Ledger` shows that gross less `costs` is what reaches cash.
* Equity is computed before the halt exits of its session, so the sizing of the next
  session works with a value that leaves out their proceeds and costs.
* `open_position_count` of an in-sample window (`metrics.py:339`) counts the positions open at
  the end of the run.
* Win rate and profit factor use `net_pnl`, which leaves out the entry cost.
* `contract_metrics` reports an undefined value as 0.0.
* With sessions between the two periods the tallies of the two do not add up to those of the
  full one, which has them too; `WindowsCompose` counts them.

Screener:

* The run identifier (`runner.py:6-11`) does not cover calendar, classification, critical
  codes and histories.
* Without a calendar argument the sessions are the candidates' own days: a suspended symbol
  screened alone counts no session since its last trade. `RankedHasTraded` holds for a
  calendar of the market, and says so.
* An entry is reported for a symbol whose last row is older than the screen's day.
* One symbol whose evaluation raises ends the whole screen; a symbol given twice is ranked and
  exported twice.
* `StoreFuture` is not ordered with a later submission: the future of an ended record
  can replace the one of its successor, and `wait()` then blocks on the old one.
* A submission after `shutdown` raises, but its record stays registered as queued.

Data:

* A refresh requested between the end of a run and the end of its future is answered
  with the run that ended (`service.py:154-163`) and starts nothing.
* A quarter and a year with equal version and ingestion time are told apart by row order.

Frontend:

* A late answer of a panel is applied too, and resets the flag of the newer request.
* When the request of the chart fails, the legend already shows the new symbol and nothing
  asks again; the language toggle after a panel's error draws the previous symbol's data.
* An empty null answer leaves a panel on its spinner; `SpinnersEnd` names this exception.
* Quote and price levels are not cleared by an empty answer, nor the levels by their switch;
  an indicator's switch takes effect with the next load.
* A save that fails and a copy that does not parse are swallowed (`store.js:117`, `:130`).
* Two windows overwrite each other's saved copy.

## 6. Proofs

All theorems hold for every value of the constants that the named assumptions of the
modules allow.

`Backtest_proofs.tla` (assumptions `StrategyParameters`, `Portfolio`, `Construction`: what
the configuration classes validate, as rates below 1, a positive lot size, a fast
period below the slow one; lemma `Frictions` derives the ranges the steps use):

* `TypeCorrect`: `TypeOK`. It needs that sizing gives a whole number of shares
  (floor divisions by positive numbers), that the backward searches find a row
  (`MaxOfRows`, by well-foundedness of the naturals), and that the strategy
  answers a halt exit only for a held symbol.
* `OrderBookCorrect`: `OrderBook`, through `OrderInv`. `OrderBook` alone is not
  inductive: phase 3 adds orders, so one must know that no entry of an undecided
  symbol is outstanding; phase 1 moves orders from the queue back to `pending`,
  so one must know that they are exits and that all queued orders are due.
* `PendingExitsPersist`: the action property, from `OrderInv`.
* `CapacityIsRespected`: by the cardinality of the set of held symbols.
* `SlotsAreRefilled`: through `SlotsInv`: once an entry was refused for want of a
  slot, only entries are left in the queue and every slot stays taken.
* `NoPositionIsFrozen`: through `HaltInv`: between two decisions a position that may
  have gone too long without volume has a bar today and is evaluated.
* `CashIsNonNegative`: the affordable quantity is paid for with costs, lots and
  caps only reduce it, and an exit adds a non-negative amount.
* `ExitsAtFirstExecutableBar`: through `RowsInv` (a symbol's rows are in the order of their
  days and none is of a later session, so that today's row is the last one) and `ExitInv` (an
  outstanding exit has met no bar it could be filled at, up to the previous session while it
  is queued, up to this one when it is kept).
* `HaltFillsWithinHolding`: through `EntryBarInv`: the entry bar of every position is one of
  its rows and had volume, which bounds the backward search for a price.
* `AuditIsComplete`: through `AuditInv`. That an order is scheduled once and ends once
  needs that what is outstanding was scheduled, that nothing of this session is
  recorded of a symbol still to be decided, and that one decision gives one side.
  Lemma `Resolved` is the common part: orders leave the book each with one final event.
* `LedgerBalances`: through `TradeInv`: a symbol is held, and may be bought again, only
  after its closed trades, so that a trade adds to a sum once. The sums are folds over
  sets; `SumFunction` is a recursion over subsets, which is well-founded
  (`SmallestSubset`), and `SumEmpty`, `SumInsert` and `SumRemove` say what one member
  does to the sum of any finite set.

`BacktestReport_proofs.tla` (additional assumption `Windows`):

* `ReportIsBacktest`, the refinement that carries every theorem of the loop over to the
  reported run; `ReportedRunIsSound` does so for six of its properties.
* `CurvesCoverSessions`: each completed session has exactly one value in every curve and
  the last equity is what the next orders are sized by.
* `CurvesMatchTheRecord`: through `FillInv` (a fill is recorded once), `NotionalInv` (what
  was traded by orders is in the curve or in the session's accumulator) and `EquityInv` (while
  positions are marked the accumulator is worth what was paid for them and what they
  gained), and `MarkInv` (a position's mark is the last positive close
  since its entry). Halt exits are part of the statement: equity and what they fetched
  beyond the mark, the notional curve and their fills.
* `MetricsOfWindowsCompose`: growths, tallies and drawdowns of the in-sample window, the
  sessions between and the out-of-sample window make up those of the whole period, the
  returns agree, and a longer window leaves no metric undefined that a part of it defines
  (CAGR when the part ends the run, for it asks for a positive last equity). It needs
  `WorthInv` (equity is never negative, hence the order of ratios is transitive),
  `SumSplit` and `SumSign` for sums, and `LongerIsDeeper` and `DefinedGrows` for the rest.

`Screen_proofs.tla` (assumption `ScreenParameters`), through `MarketInv`: histories are
in the order of their days and no row is after today.

* `RunsAreReproducible`: what a screen reads of the market is the same after any
  later days, so that its repetition gives the same output.
* `EntriesAreLeading`: the ranking is the one enumeration of the finite set of results in
  its strict total order (`SortedExists`, `SortedEnumerates`).
* `RankedHaveTraded`: what is ranked has a row within the recency limit.
* `AccountIsComplete`: the export has as many rows for a symbol as there are candidates of it:
  the results are in one-to-one correspondence with the places of the candidate sequence, and
  sorting them keeps their number.

`FundamentalPanel_proofs.tla` (assumption `PanelInputs`: reports are finite sets of
well-formed observations, and a company's years all end with the same quarter. Without the
latter the code, which compares calendar years, would take the year before the fiscal year
changed for the previous one), through `StoredInv`: the store has one
well-formed observation for each version of a figure. Hence a figure has one newest
version, the one `_latest_versions` keeps (`LatestIsNewest`), and each of the six
calculations makes metrics out of figures that its definition needs:

* `MetricsAreLikeWithLike`: the inputs are newest versions of one scope, unit and period
  type, none accumulated, and no denominator is zero.
* `MetricsAreKnownAfterReports`: a metric has no publication date before that of a reported
  figure its definition speaks of. The price of a multiple is none (`KnownAfterPrice`).
* `FeasibleMarginsAreShown`: the net margin of a quarter is shown whenever the store has both
  figures in one unit, the revenue is not zero and no reported year ends on its day
  (`NewestExists`: every figure of a finite store has a newest version).

`Workstation_proofs.tla` (assumptions `Defaults`, `NoCopy`):

* `SelectionIsShown`: through `SelectionInv`. That a view which has applied data as the answer to its
  newest request shows what the client has for the selection needs that this request is for the selection
  (`PendingInv`), which needs that what a view asked for last is the selection after every
  handler (`Asked`); a panel draws an answer only when it is not loading (`ShownInv`).
* `ReloadRestores`: through `StoreInv`: what is saved is the copy of the store at the last save
  that succeeded, or there is none or a damaged one and the defaults come back.

`ScreenerJobs_proofs.tla` (assumption `Bound`), through `JobsInv`: an active record is
the current one of its run (`CurrentInv`), and a record's task is in one place, still
with the caller that registered it, in the queue, or on one worker (`TaskInv`; without
it two workers could take one task). From it `TypeCorrect`, `NeverTwice` and
`PromiseKept`, the refinement of `JobTable`.
The type invariants of this module and of `DataRefresh` are proved and not repeated in the runs.

`DataRefresh_proofs.tla` (assumptions `Names`, `Kinds`, `Bounds`), through `DiskInv`: a
run that may still write has a directory of its own, without READY, and by the time it
swaps the directory is complete and valid (`DirInv`); what CURRENT has named is whole and has no bars of a file its assessment found critical
(`PubInv`); the parser's quarantine holds in unfinished directories too (`BarsInv`); a
call works with a directory that was published (`ReaderInv`). From it `TypeCorrect`,
`OnlyWholeSnapshots`, `ReadyDirectoriesStay` and `WholeSnapshotsServed`, the refinement
of `PublishedSnapshot`, for any number of processes, readers and files.

Its second part concerns one run: `RunIdNeverChanges` through
`ServiceInv` (the queue, the worker's task and the future hold at most one run, the
newest); `SoundWhenStill` through `SoundInv` (what each pass has read so far is what
the source holds, as long as no source changed); `StatusIsTrue` through `StatusInv`
(the run a directory belongs to, when it was put in place, and the status at each
place of the run): a completed run has put its own snapshot in place, a queued one has not. The
converse for a failed one does not hold (`FailedLeavesPrevious`).

`FinancialStore_proofs.tla` (assumptions `Bounds` and `Provider`: a provider gives one row
of a quarter and version), through `StoreInv`: a locally versioned series is a sequence
(`TableInv`); an ingestion's batch has one observation per place of its sort order, and
local and provider versions do not mix (`BatchInv`); the version an ingestion chose is
either taken by now, so that the append is a duplicate or a conflict, or it is the next
one and its content differs from the last (`ChoiceInv`; this is what makes two
transactions per observation safe). From it `TypeCorrect`, `VersionsKept` (the refinement
of `VersionedSeries`), `ViewsAdvance`, and with `LoneInv` (what a lone ingestion has
worked off has landed) `LoneIngestionsLand`.

Only model-checked: the liveness properties `RunsEnd`, `CallersReturn`, `RefreshEnds` and
`SpinnersEnd`, because liveness under fairness is out of the prover's reach, and `FileQuality`'s
two properties. Every other safety
invariant and every other action property of a passing run is a theorem, and so are the
refinements of the abstract modules.

## 7. Not modelled

* Indicators: pure numerical series over floats; a model would restate the formulas. The
  moving averages the strategy uses are part of `DualSma`.
* Of the quality checks and the parser: the decoding of the 40-byte records, a file without
  a record, the counts a repository scan compares with its baseline (left open in
  `DataRefresh`), the comparison of auxiliary with main files. Of the security master: the
  fields of a profile, which are copied from the reference.
* Guards of the backtest's construction that concern data the model does not have: the
  survivorship flag and the adjustment labels. The others are definitions.
* Contracts: shapes of messages, generated schemas.
* Of modelled components: annualization and square roots of the metrics;
  aggregation of bars to weeks and months and the shapes of answers in the data service; the
  characters of exported files; markup, texts and the panels that only draw the state; the
  provider's transport.
