# fin-pipeline in TLA+

Models of the core of `fin-pipeline`, checked with TLC and, where a result should hold
for every size of the system, proved with TLAPS. Every definition is translated from the
source; `PROJECT.json` maps each one to its lines.

## The system

A nightly pipeline turns CSV extracts of a general ledger into a mart in Postgres and
flags anomalous balances. All of its state is files, schemas and one log; the processes
keep nothing.

| Part | State it keeps | Operations | What makes it correct |
|---|---|---|---|
| Raw load, watermarked tables (`ingest/load.py`, `raw.py`) | partitions, `watermarks.json` | window, merge, eviction sweep, advance | a row is landed once, in its own partition, and never skipped; a key remembers its first run |
| Raw load, other tables (`raw.merge_table`) | one file per table | merge, refusal of restated rows | history is never rewritten, versions are recorded |
| Affected-period set (`ingest/affected.py`) | `affected_periods.json` | record, read, clear | what changed is owed until it is recomputed |
| Run record (`ingest/runs.py`) | `runs.jsonl` | append, read | one outcome per run; readable whatever interleaves |
| Runner (`pipeline/run.py`, `steps.py`), DAGs, commands | none of its own | open, step, close, finalise | steps in order, the outcome says what the steps did, every run is closed |
| dbt-build step (`pipeline/dbt.py`, `transform/promote.py`) | mart, build and audit schemas | prepare, build, promote, sweep | a reader sees whole green builds; the drift gate's memory is of promoted builds |
| Source gate (`ingest/validate.py`, `ingest/contracts`) | none; a report per run | check the header and each row of every table against its contract | the verdict is the contract's; what lands behind it conforms |
| Recompute (`transform/backfill.py`, `transform/spark/*`) | staging partitions | resolve, rebuild | a selective rebuild equals a full one |
| Monthly balances (`transform/spark/balances.py`) | one partition per period | build the grid, write a closure or all of it | the grid is dense; figures equal those of a full rebuild |
| Landing load (`transform/load.py`) | landing tables | one transaction per model | the models are of one generation |
| Judge (`ml/features.py`, `ml/judge.py`, `ml/store.py`, folds of `ml/backtest.py`) | anomaly table | fit on the past, replace the flags of periods | flags are of the published mart and of the last judgement; nothing is fitted on the future |
| Lineage, generator, settings, run record command line | none | pure functions and I/O | not modelled, see below |

The daily DAG runs validate, load, recompute, mart-load, dbt-build, judge and
clear-affected; the backfill DAG the last five. Each task is a process of its own; they
meet only in the files and schemas above. Each DAG admits one run, but nothing keeps a
daily run, a backfill run and a command typed by hand apart.

What is hard here is what happens between two writes: a process killed there and retried,
a second run that goes on meanwhile, a source that changes under a load. `PROJECT.json`
lists each such hazard at its line, with the properties that watch it.

## Modules

| Module | Models | Checked by | Proved in |
|---|---|---|---|
| `RawLoad` | one watermarked partitioned table: source, load process, raw layer, watermark, affected set | `raw_load` | `RawLoadProofs` |
| `RunLog` | the events of the record and what `RunLog.read` makes of them, as operators | through `Runner` | |
| `Runner` | jobs (DAG runs, pipeline commands, loads by hand) that append to one record | `runner` | `RunnerProofs` |
| `PublishedMart` | what a reader of the mart is promised; abstract | as a property of `promotion` | |
| `Promotion` | the dbt-build step of several runs at once | `promotion` | `PromotionProofs` |
| `Pipeline` | the steps of a daily run and a backfill over one affected set, from load to clear-affected | `pipeline`, `pipeline_range`, `pipeline_judge` | `PipelineProofs` |
| `Dimensions` | one natural key of an effective-dated dimension: its versions, intervals, and the entries attributed to them | `dimensions`, `dimensions_keys` | `DimensionsProofs` |
| `Landing` | staging, landing schema, dbt build and mart model by model, under a daily run and a backfill | `landing` | `MartProofs` |
| `Balances` | the monthly grid: what a build computes, what it writes, and kills between two partitions or inside one | `balances` | `MartProofs` |
| `Gate` | the contract checks over every table's file, the verdict, and the load behind it | `gate` | `GateProofs` |
| `Anomalies` | what a model is fitted on, what is judged, and concurrent replacements of flags | `anomalies` | `AnomaliesProofs` |
| `MCRawLoad`, `MCRunner`, `MCPromotion`, `MCPipeline`, `MCDimensions`, `MCBalances`, `MCGate`, `MCAnomalies`, `MCLanding` | the instances for TLC | | |

`RawLoad` is the load of one table in detail, down to each write; `Pipeline` takes a load as
one step that changes rows and marks them, which is what `RawLoad` shows of a load that is not
killed between the two, and goes on from there. `Runner` is about which step runs when and what
is recorded, and not about what a step does. In `Pipeline` a version is the constant set of
periods it covers; `Dimensions` is where that set comes from. `Gate` takes the load of a table
as one step, which `RawLoad` has the inside of, and adds what neither has: several tables, what
the fields of a row may be, and what refuses a file. `Landing` has every model where `Pipeline`
has one table, and only the number of its load where `Pipeline` has figures. `Balances` is the
inside of `Pipeline`'s `BuildAggregate`, `Anomalies` that of its `Judge`. `MartProofs` is about
two modules, `Landing` and `Balances`, which is why the specification of the former, its
initial states and its type invariant carry the module's name.

### RawLoad

A row of the source has a watermark date, an accounting period and a value; a key is an
`(entry_id, version)` pair, and the extract holds a key at most once, which `validate`
guards. `Post` and `Withdraw` change the source at any time, also while a load runs;
lateness is bounded by `Late <= Overlap`, the assumption `load.py` states about
`DEFAULT_OVERLAP_DAYS`.

`Begin` reads the window, looks up the keys' first runs and groups the batch (the code up to
the merge loop touches nothing on disk). `Merge` replaces the smallest period still to do,
as the loop goes through them sorted; `Mark` is `affected.record` after it, a step of its
own because the process may be killed between the two. `SweepMark` and `Evict` are the two
writes of the eviction of one partition, in the opposite order. `Finish` moves and saves
the watermark. `Crash` stops the process at any of these points: what is on disk stays.
A retry is `Begin` with the same run identifier. `Recompute` stands for everything from
`recompute` to `clear-affected` as one step that meets no load.

`firstRun`, `stale` and `unmarked` are history for the properties. `stale` is what changed
and was not recomputed; `unmarked` remembers the periods a crash hit between `Merge` and
`Mark`, which is the only way to lose one. `_last_run_id` is not modelled: it is a
constant of a write, and nothing reads it.

*Bounds of `raw_load`*: two keys, one value, two periods, three dates, overlap and lateness
of one day, two runs, three source changes, one crash. Two periods suffice for a key to
move away and back, three changes to post, re-date and post late around a crash, three
dates for a row to fall behind the window. *Fairness*: the nightly schedule starts
incremental loads again and again, and a load that is not killed runs on. Full loads,
source changes and recomputation are not assumed to happen.

`OwedUnlessUnmarked` has an exception that the code does not avoid: `load.py:588` and ADR 0039
say that no crash loses a period, and one between the write and the mark does, because the
retry finds an unchanged partition and marks nothing. `unmarked` holds exactly those periods.

### RunLog and Runner

A log is a sequence of events. `Refused(log, e)` is the union of the conditions on which
`read` raises for a line, `Readable` that no line is refused. Steps are numbers in the order
declared; times, details, table counts and messages are left out.

A job is a DAG run, a pipeline command or a load typed by hand. Its position is a task
(0 opens, `n` is step `n`, the one after the last closes) and a phase. `StepStart` and
`StepEnd` are the two appends of `run_step`; in between the step succeeds or fails.
`Finalise` is the read and the decision of the close task, `CloseRun` the second read, the
refusals and the append of `close_run`: between them the record may grow. A load by hand
closes without reading. `Lost` is a process that is killed, or whose append failed, at any
point; the scheduler retries a task `Retries` times (also one that had done its work, phase
"acted"), and then skips to the close task, which runs in any case (`ALL_DONE`). A command
that cannot append stays alive and blames the step (`Unwritten`). The caller of a command or
of a load by hand may choose its identifier (`--run-id`), even one that exists.

An opening that fails for good leaves the close task without an identifier: it raises and
writes nothing, so the job is just over. Half a line left by a kill inside an append is not
modelled; neither are records written before `started` carried a step list, nor a task
somebody clears by hand after the run was closed.

*Bounds*: any two of a DAG run, a command and a load at once (`AtOnce`), two steps (one
before another is enough for their order), one retry, one loss, and as many identifiers as
openings can use up. `ByRun` is a view: `read`
folds the lines of each run apart from the others' and no guard compares positions across
runs, so two logs that interleave the same per-run sequences differently are one state.
*Fairness*: weak fairness of each job's own work, the scheduler's reports included: the
scheduler starts what is due, and a process that is not killed goes on. `EveryRunCloses`
holds for losses that do not use up the retries of the close task, which the bounds ensure
(`MaxLosses <= Retries`).

`ReadableUnlessReopened` says that the record becomes unreadable in two ways only. A task
killed inside its step and retried starts an attempt over an open one, which `read` refuses
for the whole record, though ADR 0044 counts a retried task among ordinary events; and a
command or a load may be given the identifier of a run that exists. `OneOutcome`,
`OutcomeFollowsAttempts` and `StepsInOrder` are what a reader takes the record for; the last is
proved and not run. `OneOutcome` is about the lines themselves, readable or not, and has one
exception: `python -m ingest.load --run-id` appends its outcome without reading the record
(`load.py:668, 692`), so that a run it shares its identifier with may have two (`Impostor`).
Commands and close tasks read first, and write none over another.

### PublishedMart and Promotion

`PublishedMart` is the reader's view: one whole green build at a time, replaced at once by
another, never the same twice, with its own stored failures or none. `Promotion` implements
it: `Prepare`, `Promote` and `Sweep` are one transaction each; dbt works in a process of its
own between `DbtBegin` and `DbtGreen` or `DbtRed` and is external, as are the tables it
builds: a schema is the number of the build that filled it, how that went, and the list of
builds in `model_row_count`. `Blocked` is a lock timeout, `SweepBlocked` a sweep that could
not be done, `Crash` a kill anywhere up to where the success would have been heard of; a
retry begins the step again under the same run, and so the same schema name. dbt creates
its target schema if it is gone (a sweep of another run may have dropped it), without the
copied counts.

`promoted`, `behind`, `overtaken` and `evidence` are history. `behind` holds the runs whose
copy of `model_row_count` no longer is the mart's, because another run promoted or swept;
`overtaken` those that promoted nevertheless. Not modelled: a dbt process that goes on after
the step that started it was killed, and a `dbt build` typed by hand that writes the mart
directly.

*Bounds of `promotion`*: two runs, the number the two DAGs admit, both in the step at once,
four builds and two kills: one run can promote, be killed, build again and promote while the
other fails once. There is no fairness: nothing promises that a build is green. A state in
which all builds are used up is a deadlock of the bound, so deadlock is not checked.

`HistoryUnlessOvertaken` has an exception that the code does not avoid: with two runs in the
step at once, the second to promote brings an older copy of the counts, and the history is no
longer that of the promoted builds.

### Pipeline

The affected set across a run. The rows of a period are the number of times a load changed
them, a dimension version is the set of periods it takes effect over, and a figure of the
aggregate is the function from the periods of its window (the month itself, the comparison
months and the rolling months before it) to the fact partitions it was computed from.
Comparisons do not look back past the range the figures are computed over. Two figures are
the same when they were computed from the same facts, so "stale" needs no arithmetic and no
bookkeeping. `Wanted(p)` is the figure of a rebuild of everything from the raw layer.

`Start` opens a run with its reporting range. `Load` lands and marks. `Recompute` is the
resolution of what is owed into dirty periods; the validity intervals (`dims`) are rebuilt
before it and whole, whatever is owed, and a range that was not given cannot be parsed, so that
run ends there. `BuildFacts` and `BuildAggregate` write the partitions of a layer; the
aggregate is selective when it holds exactly the range, and is rebuilt whole otherwise. Whether
a new account or cost centre also forces that (`anew`) is left open. `BuildFactsDies` and
`BuildAggregateDies` are a kill or an error in the middle (`CutShort`): the partitions are
written in ascending order, each by Spark's `mode("overwrite")`, which deletes the directory
before it writes it, so those before the one the process dies in are new, those after it are as
they were. That one is as it was or has no rows; of the aggregate, where directories count, it
is as it was, not there, or a directory without rows (`Hollow`). `MartLoad`, `DbtBuild`,
`Promote`, `Judge` and `ClearAffected` follow; dbt reads the landing schema and builds in one
of the run's own (`Promotion` has what happens there). `Fail` is a step that fails or is
killed: the task is tried again from its beginning, or the one before it is if nobody heard
that it had succeeded (`Beginnings`), or the run ends there (`GiveUp`). `MartLoadDies` and
`ClearAffectedDies` are kills after the write and before the step is over.

`torn` is history: the figures that a partition lost inside its overwrite may have spoilt, and
those whose flags it may have. A build takes note (`mended`) of the figures it writes from facts
that are all there; when it is published they are no longer spoilt, nor are their flags once
they are judged.

Taken as one: the two fact models, which are built by the same function over the same dirty
periods. Of the landing tables there is the aggregate's; `Landing` has them all. Validate fails
before anything is written, which `Fail` in `load` covers. Periods that are judged without
the history a model needs get no flags and are left out. That a load may be killed between
its write and its mark is `RawLoad`'s subject.

*Bounds*: three periods with a one-month comparison and a rolling span of two (three in the
code), so that a period drags the next along and what the first touches is not what the third
does; the year-on-year lag is 12 and outside them (the proof has every lag). One version over the
first two periods, two loads that bring something, two steps that fail or die: one build
can be cut short and another step lost in the same run. One run at a time, over the whole
range: that is the case in which the code keeps its promise. *Fairness*: the daily run is
started again and again, and a run that is not killed goes on.

`OwedUntilPublished` is the promise of `steps.py` and `backfill.py`: whatever fails between the
load and the clear, the next run still knows of each figure that is not what the raw layer
says. `FlagsSeePostings` is the same for the flags, as far as postings go.
`EventuallyPublished` says that it gets there, again and again. All three except what is in
`torn`, and no more: a figure that a death inside an overwrite spoilt, until it is published
from whole partitions. Between two partitions, or in any other step, the code keeps its
promise.

That exception is a gap in the code. ADR 0041 says that an interrupted backfill leaves every
period it was working on owed, "and the next run redoes all of them". That is so when the next
run is a backfill, which forces its range. A daily run resolves a dimension version to the
periods that have rows in the staged facts (`transform/spark/affected.py:67-100`): when a run
of either kind has died inside the overwrite of a partition that is owed through a version
alone, the period has no rows there, the daily runs after it do not find it and do not build it
again, publish figures without its postings, and clear the set. `OwedUntilRebuilt` fails for it
too: with `BackfillRanges <- OnlyWhole` in `PipelineRange.cfg` TLC finds a trace of 14 states
that ends in `BuildFactsDies`.

Two runs show where the code does not do what its documentation says:

- `pipeline_range` (`OwedUntilRebuilt`): a backfill over part of the range recomputes what is
  owed inside it and then clears all that is owed, so what an earlier run left owed outside
  it is forgotten, with its fact partitions not rebuilt; `steps.py` says that the set is owed
  until everything downstream of it has been.
- `pipeline_judge` (`FlagsOfPublished`): the flags are replaced for the periods owed by
  postings. A period that is owed through a dimension version is recomputed and published,
  and not judged again.

The daily DAG passes no reporting range, and recompute parses one before anything else: a run
without one ends there, in the model too (`Recompute` with an empty range). Such a pipeline
never publishes, so the instances give every run a range.

With two runs at once `OwedUntilPublished` fails as well: one clears what the other's load
marked after it had read the set. The code does not keep them apart; `Landing` has both, and
says what makes it good again.

### Dimensions

The tables without a watermark that carry versions: accounts, cost centres and rates. The
state is that of one natural key: the versions in raw, a date and what the other columns
carry; what is owed; the staged intervals; and, for each date, the interval the entry posted
on it is attributed to. One entry for a date stands for all of it. The key, its other columns
and the surrogate key, which is derived from the natural key and the interval's first day,
come down to values and dates.

`MergeTable` is a load of an extract, which may hold any versions, also none of those of the
night before; `Refused` is the one thing that stops it. `Record` marks the versions inserted,
`Crash` is a kill between the two. `LoadEntry` is the load of the ledger as far as the key is
concerned; `Pipeline` and `RawLoad` have the rest. `Recompute` is everything from
`recompute` to `clear-affected`: the intervals are rebuilt, the owed versions are resolved
against them and against the staged entries, and the entries of the dirty periods are
attributed anew, or nothing is, when one of them has no interval (`Orphans`). It takes the
reporting range to hold all dates, and to run through; what becomes of it otherwise is
`Pipeline`'s subject. An entry has three dimensions and is attributed in each by the same
join; the model has one. The vendor table, whose rows are replaced and never owed, is left
out.

*Bounds of `dimensions`*: four dates in two periods, two values, one kill. Collapsing, a
version between two others, one before all and an interval that crosses into the next period
need no more dates; two values are equal or not, and are interchangeable, hence the
symmetry. There is no bound on the number of loads, and nothing stops. No property is a
liveness property, so there is no fairness.

`AttributedOrOwed` is what selective recomputation is for. It holds for the value an entry
carries, and `dimensions_keys` shows that it does not for the key: with every date a period of
its own, `a` from day 2 and `a` from day 4 are one interval, and the entry on day 4 has its
key. When `b` from day 3 lands, day 4 gets an interval of its own, which no recorded version
begins, and the entry keeps the key of day 2, which carries the same value. When `a` from day
1 lands (with the same extract in the shortest run), day 2 is collapsed into it, and its key
is gone from the dimension. The entry is not owed and joins no account any more; ADR 0026
says that a partial rebuild cannot be told from a full one, and the mart's relationship tests
turn red until the period is rebuilt for another reason.

### Balances

A combination is a pair of account and cost centre. What it has in a period is the type its
last posting carries, or silence, and whether a restatement fell into it; amounts are one
unit on the debit side, since a figure that is computed from the wrong periods, or with the
wrong sign, differs already for one. A row keeps the balances that its comparisons and its
rolling mean are computed from, by period (`read`), in place of differences and mean:
floating-point arithmetic is left out, and what is not compared cannot be equal by accident.

`Post` and `Restate` are a rebuilt fact partition, whose period is owed from then on. `Move`
is a run with another end of the range. `Build` is `write_result` up to its first write:
`RebuildEverything` is the decision between everything and the closure. `Write` is one
partition, in ascending order, a stale one removed; `Finish` is the return of the build with
the rest of the run up to clear-affected; `Kill` leaves what is written, and the partition in
hand (`Upcoming`) as it was, without a directory (`Gone`) or with one that has no rows
(`Hollow`), which counts as held. While a build runs the facts and the range do not change, as
the steps of one run follow each other. The facts are whole here: that a fact partition may lose
its rows inside its own overwrite, with nothing to mark it, is `Pipeline`'s subject.

`DenseUnlessTorn` is the density promise of ADR 0041. Its exception is what the code does: the
members of the grid are read over all partitions together (`balances.py:340`), so after a
rewrite that was killed half-way a combination that only the written partitions hold is taken
for one that all of them do, and selective builds leave the others without it until something
else forces a rewrite. `FiguresAreFull` says that the closure is wide enough, also where a
window crosses the end of a range that moves. Its exception: a period with a restatement and
no posting borrows its account type, and with it the sign, from the nearest period that
posted, and the closure is not about that (`balances.py:194`).

*Bounds of `balances`*: two combinations, which may disagree; the range ends with 3 or 4; a
month, a year of three and a rolling span of two, so that the closure of the first period
leaves out the third, and the year matters in the fourth; three changes and one kill: a
change, a rewrite that dies, and a change after it that is built selectively. The year of
twelve and the span of three are covered by the proof. Combinations are interchangeable. The
properties are about safety, and there is no fairness.

### Landing

The models go one after the other through every layer: `recompute` rewrites the staged ones,
`mart-load` drops, creates and copies each in a transaction of its own (and `dim_vendor` from
the raw layer), dbt builds each from its landed table into the schema of the run, and only
then everything changes places at once. A generation is the number of loads that changed the
raw layer; a table is the set of the generations its rows were built from. A fact is built of
what is raw and of the dimensions staged, the aggregate of the staged facts and account types,
so a staging that is half rebuilt is carried on in what is built from it. The affected set is
whether it names anything: every run has the whole reporting range, so what is rebuilt is
rebuilt over all that is owed, which `Pipeline` has period by period.

`Load`, `BuildDimension`, `NothingOwed`, `BuildFact`, `BuildAggregate`, `LoadModel`, `Landed`,
`BuildModel`, `Publish` and `ClearAffected` are the steps of either run; validate and judge
change none of these tables. `RecomputeDies` is a death inside the rewrite of a staged model: a
dimension is one directory and is gone; a fact or the aggregate is left with some partitions
new and some old, or, when the death was inside the overwrite of one, with any of these
missing. `LoadDiesUnmarked` is a load that dies between a change and its mark. `Die` is a red
gate, a model without a file or a kill between any two of those writes: the task is tried again
from its beginning, or the run ends there (`AfterDeath`); `Load`, `Publish` and `ClearAffected`
may also die after what they did. The order of the models is the code's as far as it matters:
dimensions before facts in staging, `MODELS` in the landing (`Earlier`), `ref` in dbt (`Refs`).
The models of one rank are taken in any order, and dbt, which has threads, does the same. The
gates that tell tables of different loads apart are the relationship tests (`Resolves`): a
fact's keys are those of the generations it was attributed with, and loads only add keys; that
one can vanish is `dimensions_keys`. A load that changes vendors only is no generation, since
nothing staged depends on it. `crowded` and `sound` are history: whether two runs have met, or
a death took rows of a staged partition, or the mark of a change, with it.

`OneGeneration` and `PublishedOrOwed` are what ADR 0034 and ADR 0039 promise together: no death
of a landing or a recompute half-way ever becomes a mart of two generations, and what the mart
lacks is still owed. They have an exception that the code does not avoid. Each DAG admits one
run, and nothing keeps a run of the one from a run of the other: a backfill has landed
everything, a daily run's `mart-load` lands its newer facts over it, or dies there, and dbt of
the backfill models balances of one load beside postings of another. Every gate is green, since
none compares the two, and it is published; or one run clears what the other's load has marked.
ADR 0034 says that "a half-rebuilt landing is never modelled into a mart anyone sees", because
a `mart-load` that dies stops the run: it stops its own run, and not the other one. The
exception ends with the next backfill that is published without a run beside it, whatever the
meeting left behind in any layer; a daily run would not do, as it may find nothing owed.

The same exception, with the same end, covers the two deaths that lose something: inside the
overwrite of a partition (`Pipeline` has what it costs) and between a change and its mark
(`OwedUnlessUnmarked`). Every other death is covered without one: between two models, between
two partitions of one, inside a dimension.

*Bounds of `landing`*: six of the seven models, `dim_account` standing for `dim_cost_center`
too, which is joined and tested in the same places; one run of each DAG, both at once or one
after the other; two loads that change something, so that each layer may hold the older, the
newer or both; one death that is inside a rewrite or before a mark (`MaxLosses`), all others
not bounded. No fairness.

### Gate

A contract is its columns, the nullable ones, the key, the two kinds of row constraint, the
watermark column and whether its rows are immutable. A field is an integer: empty, bad (it
breaks its column's own rule, whichever that is), or a date, an amount or a name. A file is
missing, blank, or a header and rows.

A run validates each table in the order of the names, row by row: `Condemn` is a missing
table or a condemned header, `Open`, `CheckRow` and `Close` are the walk over the rows with
the set of keys seen, `Judge` the verdict after the last table. `HeaderProblems` has the four
header kinds, `RowProblems` the problems of a row, with a constraint skipped where a column it
reads is unusable, `Recorded` the cap (`max_findings`) beyond which findings are counted and
not kept. Then, or at once in a load by hand, `ReadState` reads the watermarks of all tables,
and `LoadTable` or `RefuseTable` loads or refuses one table after the other: `Shapeless` is
`SourceShapeError`, `Restated` the refusal of `merge_table`, `Selected` the window, `Batch`
the last row of each key, `Advanced` the watermark. `Replace` is a file that is exchanged at
any time, also while it is being validated (the gate goes on with the one it opened) and
between the gate and the load.

`VerdictIsConformance` compares the streaming verdict with `Conforms`, which says of the file
as a whole what the contract asks. The order of a header is the code's two lists, what is
common in the order of the header and in that of the contract, which differ exactly when two
common columns stand one way round in the one and the other way in the other (`Before`).
`LandedIsClean` is what the gate is for; `unchecked` is history for it: the tables into which
something landed that the run's gate had not read, because the load was by hand or the file
another one by then. `RefusedOnlyRagged` says that gate and load agree on every file but one
with a row shorter or longer than its header (the gate pairs as many as there are, the load
refuses), and one that restates an immutable row that has landed, which the gate cannot know.

The digest of a file in the run record is computed in a pass of its own before the rows are
read (`load.py:502`), so it can be that of another file; the model opens a file once and has
no digest. `Gate` has no kills: a killed gate has written nothing, a killed load is `RawLoad`'s.

*Bounds of `gate`*: the two tables stand for the two kinds of table, one immutable and one with
a watermark; the second has both kinds of constraint and a nullable column, and 36 files:
each kind of bad row alone, and behind a good one or behind one of another key, each kind of
header, missing and blank. Caps of nothing and of one, which two faults exceed. Two runs and
one exchange, so that a file is landed and then restated, and a load by hand follows a gated
run. No fairness.

### Anomalies

The grid of the mart is a balance for each series and period. `ForPeriod` is `for_period`: what
a model is given to be fitted on (features and targets of the periods before) and asked for;
what an estimator makes of it is left open, and which balances lie outside their intervals is
any set. `Bands` keeps the history a size band is computed from, `Features` the lagged
balances by lag. `Folds` are the backtest's.

`Promote` puts another mart in place: one more period, an amended balance, or a range that
begins later. `Read` is a judge that reads the grid and decides, for any periods it is asked
for; `Delete` is the transaction's first statement, `Commit` its insert and commit, `Abort`
whatever undoes it. Two statements of PostgreSQL at its default isolation are what the model
takes from outside: a DELETE sees what is committed when it starts, and row locks and the key
make a transaction wait for another's outcome, so that its other effects count as of its
commit. `standing` and `missed` are history: whose flags may be in the queue.

`LastJudgementStands` has the exception the code leaves: two judgements of a period and family
whose transactions overlap may leave a mixture, because the later DELETE does not see the
earlier rows. `KeptUnlessJudged` is the comment at `judge.py:200`: a period that could not be
judged keeps its flags. `NothingFromAhead` is stated as a function's independence: the design
for a period is the same whatever later periods and the judged balance itself hold.
`EveryFoldIsScored` says that no fold is one that serving would pass over.

*Bounds of `anomalies`*: two judges, two families, two balances (each interchangeable), one
series, a lag of one, four periods and three judgements: two that overlap and one after them.
With a lag of one the first period has no row and the second no past, and two can be judged.
Series meet only in the size bands, which the model keeps whole. No fairness.

## What is proved

`RawLoadProofs`, for any keys, periods, dates, overlaps and numbers of runs, changes and
crashes, under the assumptions of `RawLoad` (natural bounds, `Late <= Overlap`, `Absent`
is no row): `TypeCorrect`, `OwedUnlessUnmarkedHolds`, `BatchLandedHolds`,
`RawNeverForgetsHolds`, `FirstRunKeptHolds`, `NothingBehindTheWindowHolds`. The invariants
are not inductive on their own. `BatchLanded` needs that while a load runs each key of the
batch whose period is no longer to do has landed there; `FirstRunKept` that `prior` agrees
with `firstRun`; `NothingBehindTheWindow` that a row behind the window of the next load has
landed once and for all, for which the batch and the source may differ while a load runs
only in rows that are recent enough.

`PromotionProofs`, for any set of runs and any bounds: `TypeCorrect`, `ReaderPromiseHolds`
(the refinement: initial states map to initial states, every step to a `Publish` or a
stutter), `HistoryUnlessOvertakenHolds`, `EvidenceKeptHolds`. The refinement rests on each
promoted build being older than the next to start and no two schemas sharing a build; the
history on every run that is not behind holding a copy of the mart's counts, plus its own
build once that is green.

`PipelineProofs`, for any number of periods, lags, versions, loads and failures: `TypeCorrect`,
for any ranges and any number of runs at once, and `OwedUntilPublishedHolds` under `OneRange`
(one run at a time, every run over the whole reporting range: `pipeline_range` and the overlap
above show that it fails without). The invariant `Inv` goes through the layers: a fact
partition is what raw says, or is owed, or has lost its rows, and then all that it reaches is in
`torn` (`FactsOwed`); a figure held in staging, or published, is the wanted one, within reach of
what is owed, or in `torn` (`AggOwed`, `MartOwed`), where reach is the closure, and the lemma
`WindowReaches` says that the closure and the windows are each other's inverse; as long as the
aggregate has a partition that no death accounts for and that was never written, every period
with rows is still owed, because nothing has been cleared (this is what a first build that dies
half-way needs); and at each step of the run the layers behind it are exact, but for what is in
`torn`, and exact altogether in what the run has mended, which for a backfill is everything
(`Stage`, `Mended`). The steps that could break it are `Load`, whose marks must cover all that
it changes, the two deaths inside a build, and `ClearAffected`, which must meet exact layers.
From `Stage` follows also `PublishedIsWantedHolds`: what is promoted is what a rebuild of
everything would have published then, but for `torn`, and for a backfill without exception.
`FlagsSeePostingsHolds` rests on it, again under `OneRange`: the invariant `FlagsInv` says that
the published figures, and those the flags were decided on, are of the postings in raw, are
reached from what is owed or are in `torn`, and that no other flag is behind where the set is
about to be cleared.

`RunnerProofs`, for any jobs, steps, retries, losses and identifiers: `TypeCorrect`,
`ReadableUnlessReopenedHolds`, `OneOutcomeHolds`, `OutcomeFollowsAttemptsHolds`,
`StepsInOrderHolds`. The invariant ties each job to the lines of its run: what it thinks is
begun, ended or closed is what the record holds of the run (`Fits`, `Follows`), two jobs that
are open have two identifiers unless one was reused (`Apart`), and the record as far as it was
written had the properties (`LogInv`). An appended line can then be judged from the job that
appends it. `StatusOf` is about the last attempt of a step, so the lemmas say what one more
line does to it.

`MartProofs`, on `Balances`, for any combinations, ends of the range, lags, span, changes and
kills: `TypeCorrect`, `DenseUnlessTornHolds`, `FiguresAreFullHolds`. A selective build is only
as good as what it leaves alone, so the invariant is about the whole table at all times:
outside a rewrite all partitions that have rows hold the same combinations, and one that lost
its rows in a kill is within the closure of what is owed (`Uniform`), which is why the union of
the members may stand for each of them; a selective build runs over a table that holds exactly
the range and the members, and writes only what the closure of the owed periods reaches
(`Selective`), so that the partition it may die in is reached again; a partition that a running
rewrite no longer has to do is the new one (`Rewriting`); and each row is the full one or its
period is within the closure of what is owed or still to be written (`Accounted`).

`MartProofs`, on `Landing`, for any dimensions, facts, joins and gates, any number of loads and
deaths, and with or without two runs that meet: `LandingTypeCorrect`, `OneGenerationHolds`,
`PublishedOrOwedHolds`, `PublishedIsPresentHolds`. The argument is about which run may be
trusted. A run that has met no other, in a sound state or as a backfill (`Trusted`), finds
behind it the tables of the present raw layer as far as it has come (`Behind`): the staged
models it has dealt with, then all of them, then the landed ones, its own build, the mart. A
daily run in a state that is not sound is not trusted, because it may find nothing owed and
pass over staged models that another run left behind; a backfill forces its range and relies on
no layer it finds. In a sound state every active run is trusted (`Unmet`) and alone (`Alone`),
so nobody else moves a layer under it, and the staged facts and the aggregate are behind the
raw layer only while something is owed (`LandingInv`); the dimensions need no such clause, as
every recompute builds them first, which is what makes a death inside one harmless. The lemmas
split a step by whether the run that takes it is trusted (`TrustedMoves`, `UntrustedMoves`): an
untrusted one moves in a state that is not sound, beside no trusted run, and cannot make it
sound. `PublishedIsPresentHolds` is about the step: what is published, where the two others
bind, is of the raw layer at that moment, and not only of some one load.

`GateProofs`, for any contracts that `WellFormed` admits, any files, caps, overlap and bounds:
`TypeCorrect`, `LandedIsCleanHolds`, `RefusedOnlyRaggedHolds`, `VerdictIsConformanceHolds`. The
invariant says of a report, finished or not, that its header problems are those of its file and
that, when it condemns nothing, the rows read so far have no problem (`About`); behind the gate
no report condemns anything (`Passed`). `CleanRowConforms` turns "no problem was counted" into
"the row meets the contract": without a bad column, a constraint that was skipped has an empty
field. `VerdictIsConformance` needs the other direction as well, a report without a finding
where and only where the file conforms, at every row the walk comes to. `JudgedInv` says that
the rows read so far condemn the report exactly if they do not conform (`ConformsUpTo`) and
that the keys seen are theirs; `RowVerdict` is the step for a row, which `seen` lets be about
the row alone, `HeaderVerdict` that for the header, and `RecordedVerdict` says that the cap
drops findings and never their number.

`AnomaliesProofs`, for any series, balances, lags, families, judges and bounds: `TypeCorrect`,
`LastJudgementStandsHolds`, `KeptUnlessJudgedHolds`, `NothingFromAheadHolds`,
`EveryFoldIsScoredHolds`. The invariant is about what a transaction in
flight knows: what it deletes and what was committed since it looked (`missed`) are all there
is of its scope. `NothingFromAhead` needs only that the grid is dense: of two grids that agree
before a period, the periods that have a row, the bands and the lagged balances agree.
`EveryFoldIsScored` needs it too: in a dense grid the periods that have a row are an interval
(`FoldsOfTheGrid`), so the last of them, which the folds take by their number, are preceded by
all the others, and that is enough to be fitted on.

`DimensionsProofs`, for any number of dates, dates in a period, values and kills:
`TypeCorrect`, `HistoryKeptHolds`, `OneIntervalEachHolds`, `AttributedOrOwedHolds`. The
lemmas are about the intervals of any history: they are disjoint (`CoveredOnce`), leave no gap
from the first version on (`CoveredAtLeastOnce`), and each version inside one carries what
the interval does, collapsed or not (`OneValueInside`). `AttributedOrOwed` is not inductive:
a merge changes what is in force and what an owed version covers at the same time. The
invariant `AttributionInv` compares an entry instead with what the versions that are neither
owed nor waiting for their mark put in force, which loads do not change; `NotReached`
says that outside the intervals of the owed versions that is what is in force.

The proofs use TLC's runs as the first test of each formula. Some proofs need that a finite
set of integers has a greatest element; it is proved where it is used (`GreatestExists`), from
the well-foundedness of inclusion on finite sets.

Model-checked only: liveness (`EventuallyConverges`, `EveryRunCloses`, `EventuallyPublished`),
which is outside what the prover handles. Every other property of a passing run is stated by a
theorem. `OwedUntilPublished` and `FlagsSeePostings` are proved under `OneRange`, which the
code does not enforce and the run `pipeline` assumes: `pipeline_range` is what happens without
it.

## Not modelled

- Who may stop a shared Spark session (`transform/session.py`): a small state machine.
- The dbt SQL. `Promotion` takes a build to be green or red and `model_row_count` to grow by it;
  `Landing` has which tables a model reads and the relationship tests, and no rows.
- Two processes that write `affected_periods.json` at once, and a line of `runs.jsonl` torn in
  the middle of an append; both are listed as hazards.
- The estimators and scores (statistics over floats), lineage (a graph drawn from the dbt
  manifest), the generator of test data, settings and the metadata database (configuration
  and I/O), the run record's command line (formatting).
