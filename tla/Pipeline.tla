------------------------------ MODULE Pipeline ------------------------------
(***************************************************************************)
(* The affected-period set across a whole run (pipeline/steps.py,          *)
(* transform/backfill.py, transform/spark/affected.py, balances.py and     *)
(* facts.py, ingest/affected.py): what a load changed is marked as owed,   *)
(* recomputed into staging, landed, built, published and judged, and only  *)
(* then cleared.                                                           *)
(*                                                                         *)
(* A daily run and a backfill go through the steps over the same files and *)
(* schemas.  A step may fail or be killed at any point and be tried again, *)
(* or the run may be given up there; the run after it starts over with     *)
(* what is on disk.  The rows of a period are the number of times a load   *)
(* changed them, a dimension version is the set of periods it takes effect *)
(* over, and a figure is what it was computed from.                        *)
(***************************************************************************)
EXTENDS Integers, FiniteSets

CONSTANTS
  LastPeriod,             \* bound: accounting periods are 1 .. LastPeriod
  MomLag, YoyLag, RollingSpan,  \* the windows of the comparison columns
  Versions,               \* dimension versions
  Covers,                 \* the periods each version takes effect over
  DailyRange,             \* the reporting range of a daily run; {} if none was given
  BackfillRanges,         \* the ranges a backfill may be given
  AtOnce,                 \* how many runs are active at once
  MaxChanges,             \* bound: loads that bring something new
  MaxFailures,            \* bound: steps that fail or are killed
  Absent,                 \* no row, no partition, no table
  Hollow                  \* the directory of a partition, and no row in it

Periods == 1 .. LastPeriod
Runs == {"daily", "backfill"}

ASSUME WindowsAssumption ==
  /\ LastPeriod \in Nat \ {0} /\ MomLag \in Nat /\ YoyLag \in Nat /\ RollingSpan \in Nat
  /\ MaxChanges \in Nat /\ MaxFailures \in Nat /\ AtOnce \in Nat
ASSUME CoversAssumption == Covers \in [Versions -> SUBSET Periods]
ASSUME RangesAssumption ==
  \A range \in BackfillRanges \cup {DailyRange} :
    range = {} \/ \E first, last \in Periods : range = first .. last

VARIABLES
  entries,   \* raw: how often the rows of each period changed; 0 if it has none
  landed,    \* raw: the dimension versions landed
  owed,      \* affected_periods.json
  dims,      \* staging: the versions the intervals were last built from
  facts,     \* staging: what each fact partition was built from
  agg,       \* staging: what each aggregate partition was built from
  landing,   \* the landing table of the aggregate
  mart,      \* the published one
  flags,     \* the figures the flags of each period were decided on
  run,       \* where each run is
  torn,      \* history: what a death inside a partition's overwrite may have spoilt
  changes,   \* how many loads brought something new
  failures   \* how many steps failed or were killed
raw == <<entries, landed>>
staging == <<dims, facts, agg>>
served == <<landing, mart, flags>>
counters == <<changes, failures>>
vars == <<entries, landed, owed, dims, facts, agg, landing, mart, flags, run, torn,
          changes, failures>>

Steps == {"idle", "load", "recompute", "facts", "aggregate", "mart-load", "dbt-build",
          "promote", "judge", "clear-affected"}

-----------------------------------------------------------------------------
(***************************************************************************)
(* What depends on what.                                                   *)
(***************************************************************************)
NothingOwed == [periods |-> {}, versions |-> {}]

EndOf(range) == CHOOSE p \in range : \A q \in range : q <= p

\* The periods a set of dirty periods drags with it.
Closure(S, last) ==
  {q \in Periods : q <= last /\ \E p \in S :
     q \in {p, p + MomLag, p + YoyLag} \cup {p + k : k \in 1 .. RollingSpan - 1}}

NoFact == [entries |-> 0, versions |-> {}]

\* Slip: a row is joined to every version of its period.
Multiplied(p, S) ==
  LET versions == {v \in S : p \in Covers[v]}
  IN [entries |-> entries[p] * (1 + Cardinality(versions)), versions |-> versions]

\* A fact partition: its rows, attributed to the versions in force.
Fact(p, S) ==
  IF entries[p] = 0 THEN NoFact
  ELSE [entries |-> entries[p], versions |-> {v \in S : p \in Covers[v]}]

\* The periods the columns of p's row are computed from.
Window(p) ==
  {q \in Periods : p \in {q, q + MomLag, q + YoyLag} \cup {q + k : k \in 1 .. RollingSpan - 1}}

\* Comparisons look no further back than the range the figures are computed over.
Figure(p, f, range) == [q \in Window(p) \cap range |-> f[q]]

NoFigures == [p \in Periods |-> Absent]

\* The partitions a table has a directory of, and those with rows.
Held(table) == {p \in Periods : table[p] # Absent}
Filled(table) == {p \in Held(table) : table[p] # Hollow}

\* The periods the staged facts have rows in that a version takes effect over.
PeriodsOf(v) == {p \in Covers[v] : facts[p] # NoFact}

\* Everything owed, as periods.
Resolve(last) ==
  {p \in owed.periods \cup UNION {PeriodsOf(v) : v \in owed.versions} : p <= last}

Forced(r) == r = "backfill"

Init ==
  /\ entries = [p \in Periods |-> 0]
  /\ landed = {} /\ owed = NothingOwed
  /\ dims = {} /\ facts = [p \in Periods |-> NoFact]
  /\ agg = NoFigures /\ landing = NoFigures /\ mart = NoFigures /\ flags = NoFigures
  /\ run = [r \in Runs |-> [step |-> "idle", range |-> {}, dirty |-> {}, built |-> NoFigures,
                             mended |-> {}]]
  /\ torn = [figures |-> {}, flags |-> {}]
  /\ changes = 0 /\ failures = 0

-----------------------------------------------------------------------------
(***************************************************************************)
(* The steps.                                                              *)
(***************************************************************************)
At(r, step) == run[r].step = step
Go(r, step) == run' = [run EXCEPT ![r].step = step]
GiveUp(r) == run' = [run EXCEPT ![r] = [step |-> "idle", range |-> {}, dirty |-> {},
                                        built |-> NoFigures, mended |-> {}]]

Active == {r \in Runs : ~At(r, "idle")}

Start(r) ==
  /\ At(r, "idle") /\ Cardinality(Active) < AtOnce
  /\ \E range \in IF r = "daily" THEN {DailyRange} ELSE BackfillRanges :
       run' = [run EXCEPT ![r].step = IF r = "daily" THEN "load" ELSE "recompute",
                          ![r].range = range]
  /\ UNCHANGED <<raw, owed, staging, served, torn, counters>>

\* Slip: the mark replaces what was owed.
Replaced(P, V) == [periods |-> P, versions |-> V]

Recorded(P, V) == [periods |-> owed.periods \cup P, versions |-> owed.versions \cup V]

\* Rows of the periods P change and the versions V land; each is marked as it does.
Load(r, P, V) ==
  /\ At(r, "load")
  /\ (P = {} /\ V = {}) \/ changes < MaxChanges
  /\ changes' = IF P = {} /\ V = {} THEN changes ELSE changes + 1
  /\ entries' = [p \in Periods |-> entries[p] + (IF p \in P THEN 1 ELSE 0)]
  /\ landed' = landed \cup V
  /\ owed' = Recorded(P, V)
  /\ Go(r, "recompute")
  /\ UNCHANGED <<staging, served, torn, failures>>

Dirty(r) ==
  LET range == run[r].range
  IN (Resolve(EndOf(range)) \cup (IF Forced(r) THEN range ELSE {})) \cap range

\* A range that was not given cannot be parsed.  The dimensions are rebuilt first and
\* whole, whatever is owed: nobody reads what a death in the middle of one leaves.
Recompute(r) ==
  /\ At(r, "recompute")
  /\ IF run[r].range = {}
     THEN GiveUp(r) /\ UNCHANGED dims
     ELSE /\ dims' = landed
          /\ run' = [run EXCEPT ![r].step = IF Dirty(r) = {} THEN "mart-load" ELSE "facts",
                                ![r].dirty = Dirty(r), ![r].mended = {}]
  /\ UNCHANGED <<raw, owed, facts, agg, served, torn, counters>>

\* The task a step belongs to, and the task that follows each.
Task(step) ==
  IF step \in {"facts", "aggregate"} THEN "recompute"
  ELSE IF step = "promote" THEN "dbt-build" ELSE step
Follows ==
  {<<"load", "recompute">>, <<"recompute", "mart-load">>, <<"mart-load", "dbt-build">>,
   <<"dbt-build", "judge">>, <<"judge", "clear-affected">>}

\* A task that is tried again begins at its beginning.  It may have done its work, if
\* nobody heard of its success.
Beginnings(r) ==
  {Task(run[r].step)} \cup
  {t \in Steps : <<t, run[r].step>> \in Follows /\ (t = "load" => r = "daily")}

\* A step fails or is killed.  It is tried again, or the run ends here.
TryAgain(r) ==
  /\ failures < MaxFailures
  /\ failures' = failures + 1
  /\ (\E step \in Beginnings(r) : Go(r, step)) \/ GiveUp(r)

\* A layer with the partitions S replaced, in their order: all of them, or those before
\* the one the process dies in, of which left is left.
Replace(layer, S, new) == [p \in Periods |-> IF p \in S THEN new[p] ELSE layer[p]]
CutShort(layer, S, new, at, left) ==
  [p \in Periods |-> IF p = at THEN left ELSE IF p \in S /\ p < at THEN new[p] ELSE layer[p]]

\* The figures of S cannot be relied on, nor the flags decided on them.
Spoil(S) == torn' = [figures |-> torn.figures \cup S, flags |-> torn.flags \cup S]

FactsNow == [p \in Periods |-> Fact(p, dims)]

BuildFacts(r) ==
  /\ At(r, "facts")
  /\ facts' = Replace(facts, run[r].dirty, FactsNow)
  /\ Go(r, "aggregate")
  /\ UNCHANGED <<raw, owed, dims, agg, served, torn, counters>>

\* The directory of a partition is deleted before the rows that replace it are written.
BuildFactsDies(r, at) ==
  /\ At(r, "facts") /\ at \in run[r].dirty
  /\ \E left \in {facts[at], NoFact} :
       /\ facts' = CutShort(facts, run[r].dirty, FactsNow, at, left)
       /\ Spoil(IF left = facts[at] THEN {} ELSE Closure({at}, LastPeriod))
  /\ TryAgain(r)
  /\ UNCHANGED <<raw, owed, dims, agg, served, changes>>

\* Slip: partitions outside the reporting range stay, and only the closure is written
\* whatever the layer holds.
AlwaysSelective(range, dirty, anew) == Closure(dirty, EndOf(range)) \cap range

\* Which partitions a build replaces: the closure, or everything in the range if the
\* layer does not hold exactly that or the grid's members changed (anew).
Writing(range, dirty, anew) ==
  (IF Held(agg) # range \/ Filled(agg) = {} \/ anew THEN range
   ELSE Closure(dirty, EndOf(range)) \cap range)
    \cup (Held(agg) \ range)

FiguresNow(range) ==
  [p \in Periods |-> IF p \in range THEN Figure(p, facts, range) ELSE Absent]

\* Periods whose rows never came to the staged facts, or were lost there.
Missing == {q \in Periods : facts[q] = NoFact /\ entries[q] > 0}

BuildAggregate(r, anew) ==
  LET range == run[r].range
      writing == Writing(range, run[r].dirty, anew)
  IN /\ At(r, "aggregate")
     /\ IF \A p \in Periods : facts[p] = NoFact
        THEN GiveUp(r) /\ UNCHANGED agg
        ELSE /\ agg' = Replace(agg, writing, FiguresNow(range))
             /\ run' = [run EXCEPT ![r].step = "mart-load",
                                   ![r].mended = writing \ Closure(Missing, LastPeriod)]
     /\ UNCHANGED <<raw, owed, dims, facts, served, torn, counters>>

\* What is left of a partition is what was there, nothing, or a directory without rows.
BuildAggregateDies(r, anew, at) ==
  LET range == run[r].range
      writing == Writing(range, run[r].dirty, anew)
  IN /\ At(r, "aggregate") /\ at \in writing
     /\ \E p \in Periods : facts[p] # NoFact
     /\ \E left \in {agg[at], Absent, Hollow} :
          /\ agg' = CutShort(agg, writing, FiguresNow(range), at, left)
          /\ Spoil(IF left = agg[at] THEN {} ELSE {at})
     /\ TryAgain(r)
     /\ UNCHANGED <<raw, owed, dims, facts, served, changes>>

\* The rows of a layer, as a table: one without rows is not a period of it.
Landed == [p \in Periods |-> IF p \in Filled(agg) THEN agg[p] ELSE Absent]

MartLoad(r) ==
  /\ At(r, "mart-load")
  /\ IF Filled(agg) = {} THEN GiveUp(r) /\ UNCHANGED landing
     ELSE landing' = Landed /\ Go(r, "dbt-build")
  /\ UNCHANGED <<raw, owed, staging, mart, flags, torn, counters>>

\* dbt builds from the landing schema into a schema of the run's own.
DbtBuild(r) ==
  /\ At(r, "dbt-build")
  /\ run' = [run EXCEPT ![r].step = "promote", ![r].built = landing]
  /\ UNCHANGED <<raw, owed, staging, served, torn, counters>>

Promote(r) ==
  /\ At(r, "promote")
  /\ mart' = run[r].built
  /\ torn' = [torn EXCEPT !.figures = @ \ run[r].mended]
  /\ Go(r, "judge")
  /\ UNCHANGED <<raw, owed, staging, landing, flags, counters>>

\* Slip: a daily run judges the periods that are owed and not the ones they drag along.
ToJudgeUnclosed(r) == IF Forced(r) THEN run[r].range ELSE owed.periods \cap run[r].range

\* The periods a run judges: its range, or what the owed periods drag with them.
ToJudge(r) ==
  IF Forced(r) THEN run[r].range
  ELSE Closure(owed.periods, EndOf(run[r].range)) \cap run[r].range

\* The flags of the periods S are replaced by ones decided on the published figures.
ReplacePeriods(S) == flags' = [p \in Periods |-> IF p \in S THEN mart[p] ELSE flags[p]]

Judge(r) ==
  /\ At(r, "judge")
  /\ ReplacePeriods(ToJudge(r))
  /\ torn' = [torn EXCEPT !.flags = @ \ (ToJudge(r) \ torn.figures)]
  /\ Go(r, "clear-affected")
  /\ UNCHANGED <<raw, owed, staging, landing, mart, counters>>

ClearAffected(r) ==
  /\ At(r, "clear-affected")
  /\ owed' = NothingOwed
  /\ GiveUp(r)
  /\ UNCHANGED <<raw, staging, served, torn, counters>>

Fail(r) ==
  /\ ~At(r, "idle")
  /\ TryAgain(r)
  /\ UNCHANGED <<raw, owed, staging, served, torn, changes>>

\* The aggregate is landed, and a model after it is not.
MartLoadDies(r) ==
  /\ At(r, "mart-load") /\ Filled(agg) # {}
  /\ landing' = Landed
  /\ TryAgain(r)
  /\ UNCHANGED <<raw, owed, staging, mart, flags, torn, changes>>

\* The set is cleared, and nobody hears of it.
ClearAffectedDies(r) ==
  /\ At(r, "clear-affected")
  /\ owed' = NothingOwed
  /\ TryAgain(r)
  /\ UNCHANGED <<raw, staging, served, torn, changes>>

Work(r) ==
  \/ \E P \in SUBSET Periods, V \in SUBSET (Versions \ landed) : Load(r, P, V)
  \/ Recompute(r)
  \/ BuildFacts(r)
  \/ \E anew \in BOOLEAN : BuildAggregate(r, anew)
  \/ MartLoad(r) \/ DbtBuild(r) \/ Promote(r) \/ Judge(r) \/ ClearAffected(r)

Die(r) ==
  \/ Fail(r) \/ MartLoadDies(r) \/ ClearAffectedDies(r)
  \/ \E at \in Periods : \/ BuildFactsDies(r, at)
                         \/ \E anew \in BOOLEAN : BuildAggregateDies(r, anew, at)

Next == \E r \in Runs : Start(r) \/ Work(r) \/ Die(r)

Spec == Init /\ [][Next]_vars

\* A daily run is started night after night, and a run that is not killed goes on.
FairSpec == Spec /\ WF_vars(Start("daily")) /\ \A r \in Runs : WF_vars(Work(r))

-----------------------------------------------------------------------------
Facts == [entries : 0 .. MaxChanges, versions : SUBSET Versions]
Rows == UNION {[S -> Facts] : S \in SUBSET Periods}
Tables == [Periods -> Rows \cup {Absent}]
Layers == [Periods -> Rows \cup {Absent, Hollow}]

ASSUME AbsentAssumption == Absent \notin Rows /\ Hollow \notin Rows \cup {Absent}

\* Every variable stays in its type; only what landed is staged or owed.
TypeOK ==
  /\ entries \in [Periods -> 0 .. changes]
  /\ landed \subseteq Versions /\ dims \subseteq landed
  /\ owed \in [periods : SUBSET Periods, versions : SUBSET landed]
  /\ facts \in [Periods -> Facts]
  /\ agg \in Layers /\ landing \in Tables /\ mart \in Tables /\ flags \in Tables
  /\ run \in [Runs -> [step : Steps, range : SUBSET Periods, dirty : SUBSET Periods,
                       built : Tables, mended : SUBSET Periods]]
  /\ torn \in [figures : SUBSET Periods, flags : SUBSET Periods]
  /\ changes \in 0 .. MaxChanges /\ failures \in 0 .. MaxFailures

\* What a rebuild of everything from the raw layer would publish for p.
Wanted(p) == Figure(p, [q \in Periods |-> Fact(q, landed)], Periods)

\* Before anything was published, what the mart lacks are the periods with rows.
Behind(p) == IF Held(mart) = {} THEN entries[p] > 0 ELSE mart[p] # Wanted(p)

\* A figure of the reporting range that differs from what the raw layer says is owed:
\* whatever fails, is retried or is given up between the load and the clear, the next
\* run still knows of it (steps.py:25-28, 189-198; backfill.py:36-57).  Except where a
\* process died inside the overwrite of a partition the figure needs, and no run wrote
\* the figure again from whole partitions and published it (facts.py:146-149).
OwedUntilPublished ==
  \A p \in DailyRange :
    Behind(p) => p \in Closure(Resolve(LastPeriod), LastPeriod) \cup torn.figures

\* steps.py:25-26: the set is owed until everything downstream of it has been rebuilt,
\* the fact partitions first of all.
OwedUntilRebuilt ==
  \A q \in Periods : facts[q] # Fact(q, landed) => q \in Resolve(LastPeriod)

\* What a figure was computed from; a period without a row has nothing to judge.
Content(f, p) == IF f = Absent THEN [q \in Window(p) |-> NoFact] ELSE f
Posted(f, p) == [q \in DOMAIN Content(f, p) |-> Content(f, p)[q].entries]

\* The flags of a period were decided on the postings it is published with, or the
\* period is still owed: no failure between the promotion and the clear leaves a figure
\* unjudged that postings changed (steps.py:122-186).  Except, again, the figures a death
\* inside an overwrite spoilt, until they are published whole and judged.
FlagsSeePostings ==
  \A p \in DailyRange :
    \/ Posted(flags[p], p) = Posted(mart[p], p)
    \/ p \in Closure(owed.periods, LastPeriod) \cup torn.flags

\* steps.py:123-124, 142-144, ADR 0050: the flags are of the periods the run touched,
\* widened by the same closure recompute used.
FlagsOfPublished ==
  \A p \in DailyRange :
    \/ Content(flags[p], p) = Content(mart[p], p)
    \/ p \in Closure(Resolve(LastPeriod), LastPeriod)

\* Again and again everything that was loaded is published, as long as runs are started
\* night after night and do not fail for ever (daily.py:1, steps.py:8-13), except what a
\* death inside an overwrite spoilt.
EventuallyPublished == []<>(\A p \in Periods : Behind(p) => p \in torn.figures)
=============================================================================
