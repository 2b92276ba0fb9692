--------------------------- MODULE PipelineProofs ---------------------------
(***************************************************************************)
(* Pipeline: for any number of periods, windows, versions, loads and       *)
(* failures, and one run at a time over one reporting range, nothing that  *)
(* differs from the raw layer is published without being owed, and no flag *)
(* is behind its postings without its period being owed, except where a    *)
(* process died inside the overwrite of a partition and no run made up for *)
(* it since; a backfill of the range always does.                          *)
(***************************************************************************)
EXTENDS Pipeline, FiniteSetTheorems, TLAPS

Run == [step : Steps, range : SUBSET Periods, dirty : SUBSET Periods, built : Tables,
        mended : SUBSET Periods]

LEMMA TypedRun ==
  ASSUME TypeOK, NEW r \in Runs
  PROVE  /\ run[r] \in Run
         /\ run[r].step \in Steps /\ run[r].range \in SUBSET Periods
         /\ run[r].dirty \in SUBSET Periods /\ run[r].built \in Tables
         /\ run[r].mended \in SUBSET Periods
<1>1. run[r] \in Run
  BY DEF TypeOK, Run
<1>2. \A x \in Run : /\ x.step \in Steps /\ x.range \in SUBSET Periods
                    /\ x.dirty \in SUBSET Periods /\ x.built \in Tables
                    /\ x.mended \in SUBSET Periods
  BY Zenon DEF Run
<1> QED
  BY <1>1, <1>2

LEMMA NoFiguresType == NoFigures \in Tables /\ NoFigures \in Layers
BY DEF NoFigures, Tables, Layers

LEMMA FactType ==
  ASSUME TypeOK, NEW p \in Periods, NEW S \in SUBSET Versions
  PROVE  Fact(p, S) \in Facts
<1>1. entries[p] \in 0 .. MaxChanges
  BY WindowsAssumption DEF TypeOK
<1>2. {v \in S : p \in Covers[v]} \in SUBSET Versions
  OBVIOUS
<1> QED
  BY <1>1, <1>2, WindowsAssumption DEF Fact, NoFact, Facts

LEMMA FigureType ==
  ASSUME NEW p \in Periods, NEW f \in [Periods -> Facts], NEW range
  PROVE  /\ Figure(p, f, range) \in Rows
         /\ Figure(p, f, range) # Absent /\ Figure(p, f, range) # Hollow
<1>1. Window(p) \cap range \in SUBSET Periods
  BY DEF Window
<1>2. Figure(p, f, range) \in [Window(p) \cap range -> Facts]
  BY <1>1 DEF Figure
<1> QED
  BY <1>1, <1>2, AbsentAssumption DEF Rows

\* The ways the fields of a run are changed keep its type.
LEMMA RunFields ==
  ASSUME NEW f \in [Runs -> Run], NEW r \in Runs, NEW step \in Steps,
         NEW S \in SUBSET Periods, NEW T \in SUBSET Periods, NEW t \in Tables
  PROVE  /\ [f EXCEPT ![r].step = step, ![r].range = S] \in [Runs -> Run]
         /\ [f EXCEPT ![r].step = step, ![r].dirty = S, ![r].mended = T] \in [Runs -> Run]
         /\ [f EXCEPT ![r].step = step, ![r].mended = T] \in [Runs -> Run]
         /\ [f EXCEPT ![r].step = step, ![r].built = t] \in [Runs -> Run]
BY DEF Run

\* Going to another step, and giving the run up, keep its type.
LEMMA GoType ==
  ASSUME TypeOK, NEW r \in Runs, NEW step \in Steps, Go(r, step)
  PROVE  run' \in [Runs -> Run]
BY TypedRun DEF Go, TypeOK, Run

LEMMA GiveUpType ==
  ASSUME TypeOK, NEW r \in Runs, GiveUp(r)
  PROVE  run' \in [Runs -> Run]
<1>1. [step |-> "idle", range |-> {}, dirty |-> {}, built |-> NoFigures, mended |-> {}] \in Run
  BY NoFiguresType DEF Run, Steps
<1> QED
  BY <1>1 DEF GiveUp, TypeOK, Run

LEMMA TryAgainType ==
  ASSUME TypeOK, NEW r \in Runs, TryAgain(r)
  PROVE  run' \in [Runs -> Run] /\ failures' \in 0 .. MaxFailures
<1>1. Task(run[r].step) \in Steps
  BY TypedRun DEF Task, Steps
<1>2. Beginnings(r) \subseteq Steps
  BY <1>1 DEF Beginnings
<1>3. run' \in [Runs -> Run]
  BY <1>2, GoType, GiveUpType DEF TryAgain
<1> QED
  BY <1>3, WindowsAssumption DEF TryAgain, TypeOK

LEMMA SpoilType ==
  ASSUME TypeOK, NEW S \in SUBSET Periods, Spoil(S)
  PROVE  torn' \in [figures : SUBSET Periods, flags : SUBSET Periods]
BY DEF Spoil, TypeOK

\* A layer whose partitions are replaced, or were being replaced, by rows of its type.
LEMMA ReplaceType ==
  ASSUME NEW T, NEW layer \in [Periods -> T], NEW new \in [Periods -> T], NEW S,
         NEW at, NEW left \in T
  PROVE  Replace(layer, S, new) \in [Periods -> T] /\ CutShort(layer, S, new, at, left) \in [Periods -> T]
BY DEF Replace, CutShort

LEMMA NewLayerType ==
  ASSUME TypeOK, NEW range
  PROVE  /\ FactsNow \in [Periods -> Facts] /\ NoFact \in Facts
         /\ FiguresNow(range) \in [Periods -> Rows \cup {Absent, Hollow}]
<1>1. \A p \in Periods : Fact(p, dims) \in Facts
  BY FactType DEF TypeOK
<1>2. \A p \in Periods : Figure(p, facts, range) \in Rows
  BY FigureType DEF TypeOK
<1> QED
  BY <1>1, <1>2, WindowsAssumption DEF FactsNow, FiguresNow, NoFact, Facts

LEMMA LandedType == TypeOK => Landed \in Tables
<1> SUFFICES ASSUME TypeOK, NEW p \in Filled(agg) PROVE agg[p] \in Rows
  BY DEF Landed, Tables
<1> QED
  BY DEF TypeOK, Layers, Filled, Held

LEMMA TypeInit == Init => TypeOK
<1>1. [r \in Runs |-> [step |-> "idle", range |-> {}, dirty |-> {}, built |-> NoFigures,
                       mended |-> {}]] \in [Runs -> Run]
  BY NoFiguresType DEF Run, Steps
<1> QED
  BY <1>1, NoFiguresType, WindowsAssumption DEF Init, TypeOK, NothingOwed, NoFact, Facts, Run

LEMMA TypeStep == TypeOK /\ [Next]_vars => TypeOK'
<1> SUFFICES ASSUME TypeOK, [Next]_vars PROVE TypeOK'
  OBVIOUS
<1> USE WindowsAssumption DEF raw, staging, served, counters
<1>1. ASSUME NEW r \in Runs, Start(r) PROVE TypeOK'
  <2>1. PICK range \in {DailyRange} \cup BackfillRanges :
          run' = [run EXCEPT ![r].step = IF r = "daily" THEN "load" ELSE "recompute",
                             ![r].range = range]
    BY <1>1 DEF Start
  <2>2. range \in SUBSET Periods
    BY RangesAssumption DEF Periods
  <2>3. (IF r = "daily" THEN "load" ELSE "recompute") \in Steps
    BY DEF Steps
  <2>4. run \in [Runs -> Run] /\ {} \in SUBSET Periods /\ NoFigures \in Tables
    BY NoFiguresType DEF TypeOK, Run
  <2>5. run' \in [Runs -> Run]
    BY ONLY <2>1, <2>2, <2>3, <2>4, RunFields
  <2> QED
    BY <1>1, <2>5 DEF Start, TypeOK, Run
<1>2. ASSUME NEW r \in Runs, NEW P \in SUBSET Periods, NEW V \in SUBSET (Versions \ landed),
             Load(r, P, V)
      PROVE  TypeOK'
  <2>1. run' \in [Runs -> Run]
    BY <1>2, GoType DEF Load, Steps
  <2>2. changes' \in 0 .. MaxChanges /\ entries' \in [Periods -> 0 .. changes']
    BY <1>2 DEF Load, TypeOK
  <2>3. landed' \subseteq Versions /\ dims' \subseteq landed'
    BY <1>2 DEF Load, TypeOK
  <2>4. owed' \in [periods : SUBSET Periods, versions : SUBSET landed']
    BY <1>2 DEF Load, Recorded, TypeOK
  <2> QED
    BY <1>2, <2>1, <2>2, <2>3, <2>4 DEF Load, TypeOK, Run
<1>3. ASSUME NEW r \in Runs, Recompute(r) PROVE TypeOK'
  <2>1. CASE run[r].range = {}
    BY <1>3, <2>1, GiveUpType DEF Recompute, TypeOK, Run
  <2>2. CASE run[r].range # {}
    <3>1. Dirty(r) \in SUBSET Periods
      BY TypedRun DEF Dirty
    <3>2. run' \in [Runs -> Run]
      <4>1. (IF Dirty(r) = {} THEN "mart-load" ELSE "facts") \in Steps
        BY DEF Steps
      <4>2. PICK step \in Steps, S \in SUBSET Periods, T \in SUBSET Periods :
              run' = [run EXCEPT ![r].step = step, ![r].dirty = S, ![r].mended = T]
        BY <1>3, <2>2, <3>1, <4>1 DEF Recompute
      <4>3. run \in [Runs -> Run] /\ NoFigures \in Tables
        BY NoFiguresType DEF TypeOK, Run
      <4> QED
        BY ONLY <4>2, <4>3, RunFields
    <3>3. dims' \subseteq landed'
      BY <1>3, <2>2 DEF Recompute
    <3> QED
      BY <1>3, <3>2, <3>3 DEF Recompute, TypeOK, Run
  <2> QED
    BY <2>1, <2>2
<1>4. ASSUME NEW r \in Runs, BuildFacts(r) PROVE TypeOK'
  <2>1. run' \in [Runs -> Run]
    BY <1>4, GoType DEF BuildFacts, Steps
  <2>2. facts' \in [Periods -> Facts]
    BY <1>4, NewLayerType, ReplaceType DEF BuildFacts, TypeOK
  <2> QED
    BY <1>4, <2>1, <2>2 DEF BuildFacts, TypeOK, Run
<1>5. ASSUME NEW r \in Runs, NEW at \in Periods, BuildFactsDies(r, at) PROVE TypeOK'
  <2>1. run' \in [Runs -> Run] /\ failures' \in 0 .. MaxFailures
    BY <1>5, TryAgainType DEF BuildFactsDies
  <2>2. PICK left \in {facts[at], NoFact} :
          /\ facts' = CutShort(facts, run[r].dirty, FactsNow, at, left)
          /\ Spoil(IF left = facts[at] THEN {} ELSE Closure({at}, LastPeriod))
    BY <1>5 DEF BuildFactsDies
  <2>3. left \in Facts
    BY <2>2, NewLayerType DEF TypeOK
  <2>4. facts' \in [Periods -> Facts]
    BY <2>2, <2>3, NewLayerType, ReplaceType DEF TypeOK
  <2>5. torn' \in [figures : SUBSET Periods, flags : SUBSET Periods]
    BY <2>2, SpoilType DEF Closure
  <2> QED
    BY <1>5, <2>1, <2>4, <2>5 DEF BuildFactsDies, TypeOK, Run
<1>6. ASSUME NEW r \in Runs, NEW anew \in BOOLEAN, BuildAggregate(r, anew) PROVE TypeOK'
  <2>1. CASE \A p \in Periods : facts[p] = NoFact
    <3>1. run' \in [Runs -> Run]
      BY <1>6, <2>1, GiveUpType DEF BuildAggregate
    <3> QED
      BY <1>6, <2>1, <3>1 DEF BuildAggregate, TypeOK, Run
  <2>2. CASE ~\A p \in Periods : facts[p] = NoFact
    <3> DEFINE writing == Writing(run[r].range, run[r].dirty, anew)
    <3>1. writing \ Closure(Missing, LastPeriod) \in SUBSET Periods
      BY TypedRun DEF Writing, Held, Closure
    <3>2. run' \in [Runs -> Run]
      <4>1. PICK step \in Steps, T \in SUBSET Periods :
              run' = [run EXCEPT ![r].step = step, ![r].mended = T]
        BY <1>6, <2>2, <3>1 DEF BuildAggregate, Steps
      <4>2. run \in [Runs -> Run] /\ NoFigures \in Tables
        BY NoFiguresType DEF TypeOK, Run
      <4> QED
        BY ONLY <4>1, <4>2, RunFields
    <3>3. agg' \in Layers
      <4>1. PICK S, range : agg' = Replace(agg, S, FiguresNow(range))
        BY <1>6, <2>2 DEF BuildAggregate
      <4> QED
        BY <4>1, NewLayerType, ReplaceType DEF TypeOK, Layers
    <3> QED
      BY <1>6, <2>2, <3>2, <3>3 DEF BuildAggregate, TypeOK, Run
  <2> QED
    BY <2>1, <2>2
<1>7. ASSUME NEW r \in Runs, NEW anew \in BOOLEAN, NEW at \in Periods,
              BuildAggregateDies(r, anew, at)
       PROVE  TypeOK'
  <2>1. run' \in [Runs -> Run] /\ failures' \in 0 .. MaxFailures
    BY <1>7, TryAgainType DEF BuildAggregateDies
  <2>2. PICK left \in {agg[at], Absent, Hollow} :
          /\ agg' = CutShort(agg, Writing(run[r].range, run[r].dirty, anew),
                             FiguresNow(run[r].range), at, left)
          /\ Spoil(IF left = agg[at] THEN {} ELSE {at})
    BY <1>7 DEF BuildAggregateDies
  <2>3. left \in Rows \cup {Absent, Hollow}
    BY <2>2 DEF TypeOK, Layers
  <2>4. agg' \in Layers
    BY <2>2, <2>3, NewLayerType, ReplaceType DEF TypeOK, Layers
  <2>5. torn' \in [figures : SUBSET Periods, flags : SUBSET Periods]
    BY <2>2, SpoilType
  <2> QED
    BY <1>7, <2>1, <2>4, <2>5 DEF BuildAggregateDies, TypeOK, Run
<1>8. ASSUME NEW r \in Runs, MartLoad(r) PROVE TypeOK'
  <2>1. run' \in [Runs -> Run]
    BY <1>8, GoType, GiveUpType DEF MartLoad, Steps
  <2>2. landing' \in Tables
    BY <1>8, LandedType DEF MartLoad, TypeOK
  <2> QED
    BY <1>8, <2>1, <2>2 DEF MartLoad, TypeOK, Run
<1>9. ASSUME NEW r \in Runs, DbtBuild(r) PROVE TypeOK'
  <2>1. run' \in [Runs -> Run]
    <3>1. run' = [run EXCEPT ![r].step = "promote", ![r].built = landing]
      BY <1>9 DEF DbtBuild
    <3>2. run \in [Runs -> Run] /\ "promote" \in Steps /\ landing \in Tables /\ {} \in SUBSET Periods
      BY DEF TypeOK, Run, Steps
    <3> QED
      BY ONLY <3>1, <3>2, RunFields
  <2> QED
    BY <1>9, <2>1 DEF DbtBuild, TypeOK, Run
<1>10. ASSUME NEW r \in Runs, Promote(r) PROVE TypeOK'
  <2>1. run' \in [Runs -> Run]
    BY <1>10, GoType DEF Promote, Steps
  <2>2. torn' \in [figures : SUBSET Periods, flags : SUBSET Periods]
    BY <1>10 DEF Promote, TypeOK
  <2> QED
    BY <1>10, <2>1, <2>2, TypedRun DEF Promote, TypeOK, Run
<1>11. ASSUME NEW r \in Runs, Judge(r) PROVE TypeOK'
  <2>1. run' \in [Runs -> Run]
    BY <1>11, GoType DEF Judge, Steps
  <2>2. flags' \in Tables
    BY <1>11 DEF Judge, ReplacePeriods, TypeOK, Tables
  <2>3. torn' \in [figures : SUBSET Periods, flags : SUBSET Periods]
    BY <1>11 DEF Judge, TypeOK
  <2> QED
    BY <1>11, <2>1, <2>2, <2>3 DEF Judge, TypeOK, Run
<1>12. ASSUME NEW r \in Runs, ClearAffected(r) PROVE TypeOK'
  <2>1. run' \in [Runs -> Run]
    BY <1>12, GiveUpType DEF ClearAffected
  <2> QED
    BY <1>12, <2>1 DEF ClearAffected, NothingOwed, TypeOK, Run
<1>13. ASSUME NEW r \in Runs, Fail(r) PROVE TypeOK'
  BY <1>13, TryAgainType DEF Fail, TypeOK, Run
<1>14. ASSUME NEW r \in Runs, MartLoadDies(r) PROVE TypeOK'
  BY <1>14, TryAgainType, LandedType DEF MartLoadDies, TypeOK, Run
<1>15. ASSUME NEW r \in Runs, ClearAffectedDies(r) PROVE TypeOK'
  BY <1>15, TryAgainType DEF ClearAffectedDies, NothingOwed, TypeOK, Run
<1>16. CASE UNCHANGED vars
  BY <1>16 DEF vars, TypeOK
<1> QED
  BY <1>1, <1>2, <1>3, <1>4, <1>5, <1>6, <1>7, <1>8, <1>9, <1>10, <1>11, <1>12, <1>13, <1>14,
     <1>15, <1>16
  DEF Next, Work, Die

\* Every variable stays in its type, whatever the ranges and however many runs at once.
THEOREM TypeCorrect == Spec => []TypeOK
BY TypeInit, TypeStep, PTL DEF Spec

-----------------------------------------------------------------------------
(***************************************************************************)
(* One run at a time, over one range.  What is wrong in a layer is reached *)
(* from what is owed, or was spoilt by a death inside an overwrite, and    *)
(* each step leaves the layer it writes right but for what was spoilt.     *)
(***************************************************************************)
OneRange == AtOnce = 1 /\ DailyRange = Periods /\ BackfillRanges \subseteq {Periods}

Reached == Closure(Resolve(LastPeriod), LastPeriod)
Lost(q) == facts[q] = NoFact /\ Closure({q}, LastPeriod) \subseteq torn.figures
Right == \A q \in Periods : facts[q] = Fact(q, landed) \/ Lost(q)
Sound(t) == \A p \in Periods : t[p] = Wanted(p) \/ p \in torn.figures
Marked == \A q \in Periods : entries[q] > 0 => q \in owed.periods

OneRun ==
  /\ \A r, s \in Runs : ~At(r, "idle") /\ ~At(s, "idle") => r = s
  /\ \A r \in Runs : ~At(r, "idle") => run[r].range = Periods

FactsOwed ==
  /\ \A q \in Periods : facts[q] # NoFact => entries[q] > 0
  /\ \A q \in Periods : facts[q] = Fact(q, landed) \/ q \in Resolve(LastPeriod) \/ Lost(q)

\* As long as a partition of the aggregate was never written nothing has been published
\* or cleared.
AggOwed ==
  /\ \A p \in Held(agg) : agg[p] = Wanted(p) \/ p \in Reached \cup torn.figures
  /\ ~(Periods \subseteq Held(agg) \cup torn.figures) => Marked /\ Held(mart) = {}
  /\ Held(agg) # {} => \E q \in Periods : entries[q] > 0

MartOwed ==
  IF Held(mart) = {} THEN Marked
  ELSE \A p \in Periods : mart[p] = Wanted(p) \/ p \in Reached \cup torn.figures

\* What the run computed from whole facts is what is wanted; a backfill computed
\* everything so.
Mended(r, t) ==
  /\ run[r].mended \subseteq Periods /\ run[r].mended \cap Closure(Missing, LastPeriod) = {}
  /\ \A p \in run[r].mended : t[p] = Wanted(p)
  /\ Forced(r) => run[r].mended = Periods

Landing == {"dbt-build", "promote", "judge", "clear-affected"}

Stage(r) ==
  /\ At(r, "facts") => dims = landed /\ Resolve(LastPeriod) \subseteq run[r].dirty
  /\ At(r, "aggregate") => Right /\ Resolve(LastPeriod) \subseteq run[r].dirty
  /\ run[r].step \in {"facts", "aggregate"} /\ Forced(r) => run[r].dirty = Periods
  /\ At(r, "aggregate") /\ Forced(r) => Missing = {}
  /\ At(r, "mart-load") => Right /\ (Filled(agg) = {} \/ Sound(agg)) /\ Mended(r, agg)
  /\ run[r].step \in Landing =>
       /\ Right /\ Sound(agg) /\ Sound(landing) /\ Held(landing) # {}
       /\ Mended(r, agg) /\ Mended(r, landing)
  /\ At(r, "promote") => /\ Sound(run[r].built) /\ Held(run[r].built) # {}
                         /\ Mended(r, run[r].built)
  /\ run[r].step \in {"judge", "clear-affected"} => Sound(mart) /\ Held(mart) # {}

Inv == TypeOK /\ OneRun /\ FactsOwed /\ AggOwed /\ MartOwed /\ \A r \in Runs : Stage(r)

LEMMA EndOfPeriods == EndOf(Periods) = LastPeriod
<1>1. LastPeriod \in Periods /\ \A q \in Periods : q <= LastPeriod
  BY WindowsAssumption DEF Periods
<1>2. \A p \in Periods : (\A q \in Periods : q <= p) => p = LastPeriod
  BY WindowsAssumption DEF Periods
<1> QED
  BY <1>1, <1>2 DEF EndOf

\* A period is owed by itself or through a version, and then only if it has facts.
LEMMA ResolvedPeriods ==
  ASSUME TypeOK
  PROVE  /\ Resolve(LastPeriod) \subseteq Periods
         /\ owed.periods \subseteq Resolve(LastPeriod)
         /\ \A q \in Periods : q \in Resolve(LastPeriod) <=>
              \/ q \in owed.periods
              \/ \E v \in owed.versions : q \in Covers[v] /\ facts[q] # NoFact
<1>1. owed.periods \subseteq Periods /\ owed.versions \subseteq Versions
  BY DEF TypeOK
<1>2. \A v \in owed.versions : Covers[v] \subseteq Periods
  BY <1>1, CoversAssumption
<1>3. \A q \in Periods : q <= LastPeriod
  BY WindowsAssumption DEF Periods
<1> QED
  BY <1>1, <1>2, <1>3 DEF Resolve, PeriodsOf

\* A period that drags another along is in its window.
LEMMA WindowReaches ==
  ASSUME NEW p \in Periods, NEW q \in Window(p), NEW S, q \in S
  PROVE  p \in Closure(S, LastPeriod)
BY WindowsAssumption DEF Window, Closure, Periods

LEMMA ClosureGrows ==
  ASSUME NEW S, NEW T, S \subseteq T
  PROVE  Closure(S, LastPeriod) \subseteq Closure(T, LastPeriod)
BY DEF Closure

\* What is reached from a set is reached from one of its members.
LEMMA ClosureOfOne ==
  ASSUME NEW S, NEW p \in Closure(S, LastPeriod)
  PROVE  \E q \in S : p \in Closure({q}, LastPeriod)
BY DEF Closure

LEMMA OwedReaches ==
  ASSUME NEW S
  PROVE  S \cap Periods \subseteq Closure(S, LastPeriod)
BY WindowsAssumption DEF Closure, Periods

LEMMA ClosurePeriods == \A S : Closure(S, LastPeriod) \subseteq Periods
BY DEF Closure

\* A figure is right if the partitions in its window are, or are empty in raw as well.
LEMMA WantedRight ==
  ASSUME TypeOK, Right, NEW p \in Periods
  PROVE  /\ Figure(p, facts, Periods) = Wanted(p) \/ p \in torn.figures
         /\ p \notin Closure(Missing, LastPeriod) => Figure(p, facts, Periods) = Wanted(p)
<1>1. Window(p) \subseteq Periods
  BY DEF Window
<1>2. (\A q \in Window(p) : facts[q] = Fact(q, landed)) => Figure(p, facts, Periods) = Wanted(p)
  BY <1>1 DEF Wanted, Figure
<1>3. ASSUME p \notin torn.figures, NEW q \in Window(p)
      PROVE  facts[q] = Fact(q, landed)
  <2>1. p \in Closure({q}, LastPeriod)
    BY WindowReaches
  <2> QED
    BY <1>1, <1>3, <2>1 DEF Right, Lost
<1>4. ASSUME p \notin Closure(Missing, LastPeriod), NEW q \in Window(p)
      PROVE  facts[q] = Fact(q, landed)
  <2>1. q \in Periods /\ q \notin Missing
    BY <1>1, <1>4, WindowReaches
  <2>2. CASE facts[q] = NoFact
    <3>1. entries[q] = 0
      BY <2>1, <2>2, WindowsAssumption DEF Missing, TypeOK
    <3> QED
      BY <2>2, <3>1 DEF Fact
  <2>3. CASE facts[q] # NoFact
    BY <2>1, <2>3 DEF Right, Lost
  <2> QED
    BY <2>2, <2>3
<1> QED
  BY <1>2, <1>3, <1>4

LEMMA WantedRow ==
  ASSUME TypeOK, NEW p \in Periods
  PROVE  Wanted(p) # Absent /\ Wanted(p) # Hollow
<1>1. [q \in Periods |-> Fact(q, landed)] \in [Periods -> Facts]
  BY FactType DEF TypeOK
<1> QED
  BY <1>1, FigureType DEF Wanted

\* A sound layer holds every partition but what was spoilt.
LEMMA SoundHolds ==
  ASSUME TypeOK, NEW t, Sound(t)
  PROVE  Periods \subseteq Held(t) \cup torn.figures
BY WantedRow DEF Sound, Held

LEMMA IdleStage == ASSUME NEW r \in Runs, run[r].step \in {"idle", "load", "recompute"}
                   PROVE  Stage(r)
BY DEF Stage, At, Landing

LEMMA InitHolds == Init => Inv
<1> SUFFICES ASSUME Init PROVE Inv
  OBVIOUS
<1>1. \A p \in Periods : entries[p] = 0 /\ facts[p] = NoFact /\ agg[p] = Absent /\ mart[p] = Absent
  BY DEF Init, NoFigures
<1>2. \A p \in Periods : Fact(p, landed) = NoFact
  BY <1>1 DEF Fact
<1>3. Marked /\ Held(agg) = {} /\ Held(mart) = {}
  BY <1>1 DEF Marked, Held
<1>4. FactsOwed
  BY <1>1, <1>2 DEF FactsOwed
<1>5. AggOwed /\ MartOwed
  BY <1>3 DEF AggOwed, MartOwed
<1>6. \A r \in Runs : run[r].step = "idle"
  BY DEF Init
<1>7. OneRun /\ \A r \in Runs : Stage(r)
  BY <1>6, IdleStage DEF OneRun, At
<1> QED
  BY <1>4, <1>5, <1>7, TypeInit DEF Inv

\* What the other runs are doing, and the range and the dirty periods of this one, are
\* left alone.
LEMMA GoRun ==
  ASSUME TypeOK, NEW r \in Runs, NEW step, Go(r, step)
  PROVE  /\ \A s \in Runs : s # r => run'[s] = run[s]
         /\ run'[r].step = step /\ run'[r].range = run[r].range
         /\ run'[r].dirty = run[r].dirty /\ run'[r].built = run[r].built
         /\ run'[r].mended = run[r].mended
BY DEF Go, TypeOK

LEMMA GiveUpRun ==
  ASSUME TypeOK, NEW r \in Runs, GiveUp(r)
  PROVE  /\ \A s \in Runs : s # r => run'[s] = run[s]
         /\ run'[r].step = "idle"
BY DEF GiveUp, TypeOK

\* The step of the one active run moves that run.
LEMMA OneRunMoves ==
  ASSUME OneRun, NEW r \in Runs, ~At(r, "idle"),
         \A s \in Runs : s # r => run'[s] = run[s],
         run'[r].step = "idle" \/ run'[r].range = run[r].range
  PROVE  OneRun' /\ \A s \in Runs : s # r => Stage(s)'
<1>1. \A s \in Runs : s # r => run'[s].step = "idle"
  BY DEF OneRun, At
<1>2. run'[r].step = "idle" \/ run'[r].range = Periods
  BY DEF OneRun
<1>3. OneRun'
  BY <1>1, <1>2 DEF OneRun, At
<1>4. \A s \in Runs : s # r => Stage(s)'
  BY <1>1 DEF Stage, At, Landing
<1> QED
  BY <1>3, <1>4

\* Nothing a layer is judged by changes with anything but these.
LEMMA JudgedBy ==
  ASSUME UNCHANGED <<raw, owed, facts>>
  PROVE  /\ \A p \in Periods : Wanted(p)' = Wanted(p)
         /\ \A q \in Periods : Fact(q, landed)' = Fact(q, landed)
         /\ Resolve(LastPeriod)' = Resolve(LastPeriod) /\ Reached' = Reached
         /\ Marked' = Marked /\ Missing' = Missing
         /\ torn'.figures = torn.figures => FactsOwed' = FactsOwed /\ Right' = Right
<1>1. /\ \A p \in Periods : Wanted(p)' = Wanted(p)
      /\ \A q \in Periods : Fact(q, landed)' = Fact(q, landed)
      /\ Resolve(LastPeriod)' = Resolve(LastPeriod)
      /\ Marked' = Marked /\ Missing' = Missing
  BY DEF raw, Wanted, Figure, Fact, Resolve, PeriodsOf, Marked, Missing
<1>2. Reached' = Reached
  BY <1>1 DEF Reached, Closure
<1>3. ASSUME torn'.figures = torn.figures, NEW q \in Periods PROVE Lost(q)' = Lost(q)
  BY <1>3 DEF Lost, Closure
<1>4. torn'.figures = torn.figures => FactsOwed' = FactsOwed /\ Right' = Right
  BY <1>1, <1>3 DEF FactsOwed, Right, raw
<1> QED
  BY <1>1, <1>2, <1>4

LEMMA StartKeeps ==
  ASSUME OneRange, Inv, NEW r \in Runs, Start(r)
  PROVE  Inv'
<1> USE DEF raw, staging, served, counters
<1>1. Active = {}
  <2>1. IsFiniteSet(Runs)
    <3>1. IsFiniteSet({}) /\ IsFiniteSet({} \cup {"daily"})
      BY FS_EmptySet, FS_AddElement
    <3>2. IsFiniteSet(({} \cup {"daily"}) \cup {"backfill"})
      BY <3>1, FS_AddElement
    <3>3. ({} \cup {"daily"}) \cup {"backfill"} = Runs
      BY DEF Runs
    <3> QED
      BY <3>2, <3>3
  <2>2. IsFiniteSet(Active) /\ Active \subseteq Runs
    BY <2>1, FS_Subset DEF Active
  <2>3. Cardinality(Active) \in Nat /\ (Cardinality(Active) = 0 <=> Active = {})
    BY <2>2, FS_CardinalityType, FS_EmptySet
  <2>4. Cardinality(Active) < 1
    BY DEF Start, OneRange
  <2> QED
    BY <2>3, <2>4
<1>2. \A s \in Runs : run[s].step = "idle"
  BY <1>1 DEF Active, At
<1>3. PICK range \in {DailyRange} \cup BackfillRanges :
        run' = [run EXCEPT ![r].step = IF r = "daily" THEN "load" ELSE "recompute",
                           ![r].range = range]
  BY DEF Start
<1>4. range = Periods
  BY DEF OneRange
<1>5. /\ \A s \in Runs : s # r => run'[s] = run[s]
      /\ run'[r].step \in {"load", "recompute"} /\ run'[r].range = Periods
  BY <1>3, <1>4, TypedRun DEF Inv, TypeOK, Run
<1>6. OneRun'
  BY <1>2, <1>5 DEF OneRun, At
<1>7. \A s \in Runs : Stage(s)'
  BY <1>2, <1>5 DEF Stage, At, Landing
<1>8. FactsOwed' /\ AggOwed' /\ MartOwed'
  BY JudgedBy DEF Start, Inv, AggOwed, MartOwed, Held
<1>9. TypeOK'
  BY TypeStep DEF Inv, Next
<1> QED
  BY <1>6, <1>7, <1>8, <1>9 DEF Inv

\* What a load brings is owed before anything is computed from it.
LEMMA LoadKeeps ==
  ASSUME OneRange, Inv, NEW r \in Runs,
         NEW P \in SUBSET Periods, NEW V \in SUBSET (Versions \ landed), Load(r, P, V)
  PROVE  Inv'
<1> USE DEF raw, staging, served
<1>1. TypeOK /\ TypeOK'
  BY TypeStep DEF Inv, Next, Work
<1>2. /\ \A q \in Periods : entries'[q] = entries[q] + (IF q \in P THEN 1 ELSE 0)
      /\ landed' = landed \cup V
      /\ owed'.periods = owed.periods \cup P /\ owed'.versions = owed.versions \cup V
      /\ UNCHANGED <<facts, agg, mart, torn>>
  BY DEF Load, Recorded
<1>3. \A q \in Periods : entries[q] \in Nat
  BY <1>1, WindowsAssumption DEF TypeOK
<1>4. Marked => Marked'
  BY <1>2, <1>3 DEF Marked
<1>5. /\ Resolve(LastPeriod) \subseteq Resolve(LastPeriod)'
      /\ P \subseteq Resolve(LastPeriod)'
      /\ \A v \in V : \A q \in Covers[v] : facts[q] # NoFact => q \in Resolve(LastPeriod)'
  <2>1. P \subseteq Periods /\ \A q \in Periods : q <= LastPeriod
    BY WindowsAssumption DEF Periods
  <2>2. \A v \in V : Covers[v] \subseteq Periods
    BY CoversAssumption
  <2> QED
    BY <1>2, <2>1, <2>2 DEF Resolve, PeriodsOf
<1>6. \A q \in Periods : \/ Fact(q, landed)' = Fact(q, landed)
                         \/ q \in Resolve(LastPeriod)' \/ Lost(q)
  <2> SUFFICES ASSUME NEW q \in Periods, q \notin Resolve(LastPeriod)', ~Lost(q)
               PROVE  Fact(q, landed)' = Fact(q, landed)
    OBVIOUS
  <2>1. q \notin P /\ entries'[q] = entries[q]
    BY <1>2, <1>3, <1>5
  <2>2. CASE entries[q] = 0
    BY <2>1, <2>2 DEF Fact
  <2>3. CASE entries[q] # 0
    <3>1. facts[q] = Fact(q, landed)
      BY <1>5 DEF Inv, FactsOwed
    <3>2. facts[q] # NoFact
      BY <1>3, <2>3, <3>1 DEF Fact, NoFact
    <3>3. \A v \in V : q \notin Covers[v]
      BY <1>5, <3>2
    <3>4. {v \in landed' : q \in Covers[v]} = {v \in landed : q \in Covers[v]}
      BY <1>2, <3>3
    <3> QED
      BY <2>1, <3>4 DEF Fact
  <2> QED
    BY <2>2, <2>3
<1>7. FactsOwed'
  <2>1. \A q \in Periods : facts'[q] # NoFact => entries'[q] > 0
    BY <1>2, <1>3 DEF Inv, FactsOwed
  <2>2. \A q \in Periods : Lost(q)' = Lost(q)
    BY <1>2 DEF Lost, Closure
  <2>3. \A q \in Periods : facts'[q] = Fact(q, landed)' \/ q \in Resolve(LastPeriod)' \/ Lost(q)'
    BY <1>2, <1>5, <1>6, <2>2 DEF Inv, FactsOwed
  <2> QED
    BY <2>1, <2>3 DEF FactsOwed
<1>8. Reached \subseteq Reached'
  BY <1>5, ClosureGrows DEF Reached, Closure
<1>9. \A p \in Periods : Wanted(p)' = Wanted(p) \/ p \in Reached' \cup torn.figures
  <2> SUFFICES ASSUME NEW p \in Periods, p \notin Reached', p \notin torn.figures
               PROVE  Wanted(p)' = Wanted(p)
    OBVIOUS
  <2>1. \A q \in Window(p) : q \in Periods /\ q \notin Resolve(LastPeriod)' /\ ~Lost(q)
    <3>1. ASSUME NEW q \in Window(p) PROVE q \in Periods /\ p \in Closure({q}, LastPeriod)
      BY WindowReaches DEF Window
    <3>2. ASSUME NEW q \in Window(p) PROVE q \notin Resolve(LastPeriod)'
      BY WindowReaches DEF Reached
    <3> QED
      BY <3>1, <3>2 DEF Lost
  <2>2. \A q \in Window(p) : Fact(q, landed)' = Fact(q, landed)
    BY <1>6, <2>1
  <2> QED
    BY <2>1, <2>2 DEF Wanted, Figure
<1>10. AggOwed'
  <2>1. Held(agg)' = Held(agg) /\ Held(mart)' = Held(mart) /\ Held(agg) \subseteq Periods
    BY <1>2 DEF Held
  <2>2. \A p \in Held(agg)' : agg'[p] = Wanted(p)' \/ p \in Reached' \cup torn'.figures
    BY <1>2, <1>8, <1>9, <2>1 DEF Inv, AggOwed
  <2>3. (\E q \in Periods : entries[q] > 0) => \E q \in Periods : entries'[q] > 0
    BY <1>2, <1>3
  <2> QED
    BY <1>2, <1>4, <2>1, <2>2, <2>3 DEF Inv, AggOwed
<1>11. MartOwed'
  BY <1>2, <1>4, <1>8, <1>9 DEF Inv, MartOwed, Held
<1>12. /\ \A s \in Runs : s # r => run'[s] = run[s]
       /\ run'[r].step = "recompute" /\ run'[r].range = run[r].range
  BY <1>1, GoRun DEF Load
<1>13. OneRun' /\ \A s \in Runs : s # r => Stage(s)'
  BY <1>12, OneRunMoves DEF Load, At, Inv
<1>14. Stage(r)'
  BY <1>12 DEF Stage, At, Landing
<1> QED
  BY <1>1, <1>7, <1>10, <1>11, <1>13, <1>14 DEF Inv

\* A recompute leaves no period that is owed out of its dirty periods, and a backfill
\* leaves none out.
LEMMA RecomputeKeeps ==
  ASSUME OneRange, Inv, NEW r \in Runs, Recompute(r)
  PROVE  Inv'
<1> USE DEF raw, served
<1>1. TypeOK /\ TypeOK'
  BY TypeStep DEF Inv, Next, Work
<1>2. FactsOwed' /\ AggOwed' /\ MartOwed'
  BY JudgedBy DEF Recompute, Inv, AggOwed, MartOwed, Held
<1>3. run[r].range = Periods /\ Periods # {}
  <2>1. At(r, "recompute") /\ OneRun
    BY DEF Recompute, Inv
  <2>2. ~At(r, "idle")
    BY ONLY <2>1 DEF At
  <2>3. Periods # {}
    BY WindowsAssumption DEF Periods
  <2> QED
    BY <2>1, <2>2, <2>3 DEF OneRun
<1>4. /\ dims' = landed
      /\ run' = [run EXCEPT ![r].step = IF Dirty(r) = {} THEN "mart-load" ELSE "facts",
                            ![r].dirty = Dirty(r), ![r].mended = {}]
  BY <1>3 DEF Recompute
<1>5. /\ \A s \in Runs : s # r => run'[s] = run[s]
      /\ run'[r].step = (IF Dirty(r) = {} THEN "mart-load" ELSE "facts")
      /\ run'[r].range = run[r].range /\ run'[r].dirty = Dirty(r) /\ run'[r].mended = {}
  <2>1. PICK step, S, T : /\ run' = [run EXCEPT ![r].step = step, ![r].dirty = S, ![r].mended = T]
                          /\ step = (IF Dirty(r) = {} THEN "mart-load" ELSE "facts")
                          /\ S = Dirty(r) /\ T = {}
    BY <1>4
  <2>2. run \in [Runs -> Run]
    BY <1>1 DEF TypeOK, Run
  <2>3. /\ \A s \in Runs : s # r => run'[s] = run[s]
        /\ run'[r].step = step /\ run'[r].range = run[r].range
        /\ run'[r].dirty = S /\ run'[r].mended = T
    BY ONLY <2>1, <2>2 DEF Run
  <2> QED
    BY <2>1, <2>3
<1>6. OneRun' /\ \A s \in Runs : s # r => Stage(s)'
  BY <1>5, OneRunMoves DEF Recompute, At, Inv
<1>7. /\ Resolve(LastPeriod) \subseteq Dirty(r)
      /\ Forced(r) => Dirty(r) = Periods
  BY <1>1, <1>3, EndOfPeriods, ResolvedPeriods DEF Dirty
<1>8. /\ Resolve(LastPeriod)' = Resolve(LastPeriod) /\ Right' = Right
      /\ \A p \in Periods : Wanted(p)' = Wanted(p)
  BY JudgedBy DEF Recompute
<1>9. CASE Dirty(r) = {}
  <2>1. Resolve(LastPeriod) = {} /\ Reached = {}
    BY <1>7, <1>9 DEF Reached, Closure
  <2>2. Right
    BY <2>1 DEF Inv, FactsOwed, Right
  <2>3. Filled(agg) = {} \/ Sound(agg)
    <3>1. CASE Periods \subseteq Held(agg) \cup torn.figures
      BY <2>1, <3>1 DEF Inv, AggOwed, Sound
    <3>2. CASE ~(Periods \subseteq Held(agg) \cup torn.figures)
      <4>1. owed.periods = {}
        BY <1>1, <2>1, ResolvedPeriods
      <4>2. \A q \in Periods : ~(entries[q] > 0)
        BY <3>2, <4>1 DEF Inv, AggOwed, Marked
      <4>3. Held(agg) = {}
        BY <4>2 DEF Inv, AggOwed
      <4> QED
        BY <4>3 DEF Filled
    <3> QED
      BY <3>1, <3>2
  <2>4. agg' = agg /\ torn' = torn
    BY DEF Recompute
  <2>5. ~Forced(r)
    BY <1>3, <1>7, <1>9
  <2>6. Mended(r, agg)'
    BY <1>5, <2>5 DEF Mended, Forced
  <2>7. Stage(r)'
    BY <1>5, <1>8, <1>9, <2>2, <2>3, <2>4, <2>6 DEF Stage, At, Sound, Filled, Held, Landing
  <2> QED
    BY <1>1, <1>2, <1>6, <2>7 DEF Inv
<1>10. CASE Dirty(r) # {}
  <2>1. run'[r].step = "facts" /\ run'[r].dirty = Dirty(r)
    BY <1>5, <1>10
  <2>2. dims' = landed'
    BY <1>4 DEF Recompute
  <2>3. Stage(r)'
    BY <1>7, <1>8, <2>1, <2>2 DEF Stage, At, Forced, Landing
  <2> QED
    BY <1>1, <1>2, <1>6, <2>3 DEF Inv
<1> QED
  BY <1>9, <1>10

\* Fact partitions that are built, kept or lost leave everything that differs from raw
\* owed or spoilt.
LEMMA FactsChange ==
  ASSUME Inv, TypeOK', UNCHANGED <<raw, owed, agg, mart>>,
         torn.figures \subseteq torn'.figures,
         \A q \in Periods : \/ facts'[q] \in {facts[q], Fact(q, landed)}
                            \/ facts'[q] = NoFact /\ Closure({q}, LastPeriod) \subseteq torn'.figures
  PROVE  FactsOwed' /\ AggOwed' /\ MartOwed'
<1> USE DEF raw
<1>1. /\ \A q \in Periods : Fact(q, landed)' = Fact(q, landed)
      /\ \A p \in Periods : Wanted(p)' = Wanted(p)
      /\ Marked' = Marked
  BY DEF Fact, Wanted, Figure, Marked
<1>2. \A q \in Periods : entries[q] \in Nat
  BY WindowsAssumption DEF Inv, TypeOK
<1>3. \A q \in Periods : Fact(q, landed) # NoFact <=> entries[q] > 0
  BY <1>2 DEF Fact, NoFact
<1>4. \A q \in Resolve(LastPeriod) :
        q \in Resolve(LastPeriod)' \/ Closure({q}, LastPeriod) \subseteq torn'.figures
  <2>1. /\ Resolve(LastPeriod) \subseteq Periods
        /\ \A q \in Periods : q \in Resolve(LastPeriod) <=>
             \/ q \in owed.periods
             \/ \E v \in owed.versions : q \in Covers[v] /\ facts[q] # NoFact
    BY ResolvedPeriods DEF Inv
  <2>2. \A q \in Periods :
          \/ q \in owed.periods
          \/ \E v \in owed.versions : q \in Covers[v] /\ facts'[q] # NoFact
          => q \in Resolve(LastPeriod)'
    BY WindowsAssumption DEF Resolve, PeriodsOf, Periods
  <2>3. \A q \in Periods : facts[q] # NoFact /\ facts'[q] = NoFact =>
          Closure({q}, LastPeriod) \subseteq torn'.figures
    BY <1>3 DEF Inv, FactsOwed
  <2> QED
    BY <2>1, <2>2, <2>3
<1>5. FactsOwed'
  <2>1. \A q \in Periods : facts'[q] # NoFact => entries'[q] > 0
    BY <1>3 DEF Inv, FactsOwed
  <2>2. \A q \in Periods : facts'[q] = Fact(q, landed)' \/ q \in Resolve(LastPeriod)' \/ Lost(q)'
    <3> SUFFICES ASSUME NEW q \in Periods, facts'[q] # Fact(q, landed)
                 PROVE  q \in Resolve(LastPeriod)' \/ Lost(q)'
      BY <1>1
    <3>1. Lost(q)' <=> facts'[q] = NoFact /\ Closure({q}, LastPeriod) \subseteq torn'.figures
      BY DEF Lost, Closure
    <3>2. CASE facts'[q] = facts[q]
      <4>1. q \in Resolve(LastPeriod) \/ Lost(q)
        BY <3>2 DEF Inv, FactsOwed
      <4>2. CASE Lost(q)
        BY <3>1, <3>2, <4>2 DEF Lost
      <4>3. CASE q \in Resolve(LastPeriod)
        <5>1. \/ q \in owed.periods
              \/ \E v \in owed.versions : q \in Covers[v] /\ facts'[q] # NoFact
          BY <3>2, <4>3, ResolvedPeriods DEF Inv
        <5> QED
          BY <5>1, WindowsAssumption DEF Resolve, PeriodsOf, Periods
      <4> QED
        BY <4>1, <4>2, <4>3
    <3>3. CASE facts'[q] # facts[q]
      BY <3>1, <3>3
    <3> QED
      BY <3>2, <3>3
  <2> QED
    BY <2>1, <2>2 DEF FactsOwed
<1>6. Reached \subseteq Reached' \cup torn'.figures
  <2> SUFFICES ASSUME NEW p \in Reached, p \notin torn'.figures PROVE p \in Reached'
    OBVIOUS
  <2>1. PICK q \in Resolve(LastPeriod) : p \in Closure({q}, LastPeriod)
    BY ClosureOfOne DEF Reached
  <2>2. q \in Resolve(LastPeriod)'
    BY <1>4, <2>1
  <2> QED
    BY <2>1, <2>2 DEF Reached, Closure
<1>7. Held(agg)' = Held(agg) /\ Held(mart)' = Held(mart)
  BY DEF Held
<1>8. AggOwed'
  <2>1. \A p \in Held(agg) : agg[p] = Wanted(p) \/ p \in Reached' \cup torn'.figures
    BY <1>6 DEF Inv, AggOwed
  <2>2. \A p \in Held(agg)' : agg'[p] = Wanted(p)' \/ p \in Reached' \cup torn'.figures
    BY <1>1, <1>7, <2>1 DEF Held
  <2> QED
    BY <1>1, <1>7, <2>2 DEF Inv, AggOwed
<1>9. MartOwed'
  BY <1>1, <1>6, <1>7 DEF Inv, MartOwed
<1> QED
  BY <1>5, <1>8, <1>9

LEMMA BuildFactsKeeps ==
  ASSUME OneRange, Inv, NEW r \in Runs, BuildFacts(r), TypeOK'
  PROVE  Inv'
<1>1. /\ TypeOK
      /\ \A q \in Periods : facts'[q] = IF q \in run[r].dirty THEN Fact(q, landed) ELSE facts[q]
      /\ UNCHANGED <<raw, owed, agg, mart, torn>>
      /\ Resolve(LastPeriod) \subseteq run[r].dirty
  BY DEF BuildFacts, Inv, Stage, Replace, FactsNow, served
<1>2. FactsOwed' /\ AggOwed' /\ MartOwed'
  BY <1>1, FactsChange
<1>3. /\ \A s \in Runs : s # r => run'[s] = run[s]
      /\ run'[r].step = "aggregate" /\ run'[r].range = run[r].range
      /\ run'[r].dirty = run[r].dirty
  BY <1>1, GoRun DEF BuildFacts
<1>4. OneRun' /\ \A s \in Runs : s # r => Stage(s)'
  BY <1>3, OneRunMoves DEF BuildFacts, At, Inv
<1>5. \A q \in Periods : Fact(q, landed)' = Fact(q, landed)
  BY <1>1 DEF Fact, raw
<1>6. Right'
  <2>1. \A q \in Periods : Lost(q)' <=> facts'[q] = NoFact /\ Closure({q}, LastPeriod) \subseteq torn.figures
    BY <1>1 DEF Lost, Closure
  <2>2. \A q \in Periods : facts'[q] = Fact(q, landed) \/ Lost(q)'
    BY <1>1, <2>1 DEF Inv, FactsOwed, Lost
  <2> QED
    BY <1>5, <2>2 DEF Right
<1>7. Resolve(LastPeriod)' \subseteq run'[r].dirty
  <2>1. /\ Resolve(LastPeriod)' \subseteq Periods
        /\ \A q \in Periods : q \in Resolve(LastPeriod)' =>
             \/ q \in owed.periods
             \/ \E v \in owed.versions : q \in Covers[v] /\ facts'[q] # NoFact
    <3>1. owed.periods \subseteq Periods /\ \A v \in owed.versions : Covers[v] \subseteq Periods
      BY <1>1, CoversAssumption DEF TypeOK
    <3> QED
      BY <1>1, <3>1 DEF Resolve, PeriodsOf
  <2> QED
    BY <1>1, <1>3, <2>1, ResolvedPeriods
<1>8. Forced(r) => run'[r].dirty = Periods /\ Missing' = {}
  <2>1. \A q \in Periods : entries[q] > 0 => Fact(q, landed) # NoFact
    BY <1>1, WindowsAssumption DEF Fact, NoFact, TypeOK
  <2>2. Forced(r) => run[r].dirty = Periods
    BY DEF BuildFacts, At, Inv, Stage
  <2> QED
    BY <1>1, <1>3, <2>1, <2>2 DEF Missing, raw
<1>9. Stage(r)'
  BY <1>3, <1>6, <1>7, <1>8 DEF Stage, At, Forced, Landing
<1> QED
  BY <1>2, <1>4, <1>9 DEF Inv

\* A task that is tried again finds what it builds on, and what the one before built on,
\* as it was.
LEMMA TryAgainRun ==
  ASSUME TypeOK, NEW r \in Runs, ~At(r, "idle"), TryAgain(r)
  PROVE  /\ \A s \in Runs : s # r => run'[s] = run[s]
         /\ run'[r].step \notin {"facts", "aggregate", "promote"}
         /\ run'[r].step = "mart-load" => run[r].step \in {"mart-load", "dbt-build"}
         /\ run'[r].step = "dbt-build" => run[r].step \in {"dbt-build", "promote", "judge"}
         /\ run'[r].step = "judge" => run[r].step \in {"judge", "clear-affected"}
         /\ run'[r].step = "clear-affected" => run[r].step = "clear-affected"
         /\ run'[r].step = "idle" \/ run'[r].range = run[r].range
         /\ run'[r].step = "idle" \/ run'[r].mended = run[r].mended
<1>1. CASE GiveUp(r)
  BY <1>1, GiveUpRun
<1>2. CASE \E step \in Beginnings(r) : Go(r, step)
  <2>1. PICK step \in Beginnings(r) : Go(r, step)
    BY <1>2
  <2>2. /\ step \notin {"facts", "aggregate", "promote"}
        /\ step = "mart-load" => run[r].step \in {"mart-load", "dbt-build"}
        /\ step = "dbt-build" => run[r].step \in {"dbt-build", "promote", "judge"}
        /\ step = "judge" => run[r].step \in {"judge", "clear-affected"}
        /\ step = "clear-affected" => run[r].step = "clear-affected"
    <3>1. CASE step = Task(run[r].step)
      BY <3>1 DEF Task
    <3>2. CASE <<step, run[r].step>> \in Follows
      BY <3>2 DEF Follows
    <3> QED
      BY <2>1, <3>1, <3>2 DEF Beginnings
  <2> QED
    BY <2>1, <2>2, GoRun
<1> QED
  BY <1>1, <1>2 DEF TryAgain

\* A recompute that dies is tried again from its beginning, or given up.
LEMMA RecomputeDies ==
  ASSUME Inv, NEW r \in Runs, run[r].step \in {"facts", "aggregate"}, TryAgain(r)
  PROVE  OneRun' /\ \A s \in Runs : Stage(s)'
<1>1. ~At(r, "idle") /\ TypeOK
  BY DEF At, Inv
<1>2. run'[r].step \notin {"facts", "aggregate", "mart-load", "dbt-build", "promote", "judge",
                           "clear-affected"}
  BY <1>1, TryAgainRun
<1>3. Stage(r)'
  BY <1>2 DEF Stage, At, Landing
<1> QED
  BY <1>1, <1>3, TryAgainRun, OneRunMoves DEF Inv

LEMMA BuildFactsDiesKeeps ==
  ASSUME OneRange, Inv, NEW r \in Runs, NEW at \in Periods, BuildFactsDies(r, at), TypeOK'
  PROVE  Inv'
<1>1. PICK left \in {facts[at], NoFact} :
        /\ facts' = CutShort(facts, run[r].dirty, FactsNow, at, left)
        /\ Spoil(IF left = facts[at] THEN {} ELSE Closure({at}, LastPeriod))
  BY DEF BuildFactsDies
<1>2. /\ UNCHANGED <<raw, owed, agg, mart>>
      /\ dims = landed /\ run[r].step \in {"facts", "aggregate"} /\ TryAgain(r)
  BY DEF BuildFactsDies, Inv, Stage, At, served
<1>3. /\ torn.figures \subseteq torn'.figures
      /\ left # facts[at] => Closure({at}, LastPeriod) \subseteq torn'.figures
  BY <1>1 DEF Spoil
<1>4. \A q \in Periods :
        \/ facts'[q] \in {facts[q], Fact(q, landed)}
        \/ facts'[q] = NoFact /\ Closure({q}, LastPeriod) \subseteq torn'.figures
  BY <1>1, <1>2, <1>3 DEF CutShort, FactsNow
<1>5. FactsOwed' /\ AggOwed' /\ MartOwed'
  BY <1>2, <1>3, <1>4, FactsChange
<1> QED
  BY <1>2, <1>5, RecomputeDies DEF Inv

LEMMA BuildAggregateKeeps ==
  ASSUME OneRange, Inv, NEW r \in Runs, NEW anew \in BOOLEAN, BuildAggregate(r, anew), TypeOK'
  PROVE  Inv'
<1> DEFINE writing == Writing(run[r].range, run[r].dirty, anew)
<1>1. /\ TypeOK /\ run[r].range = Periods
      /\ Right /\ Resolve(LastPeriod) \subseteq run[r].dirty
      /\ UNCHANGED <<raw, owed, facts, mart, torn>>
      /\ Forced(r) => run[r].dirty = Periods /\ Missing = {}
  BY DEF BuildAggregate, At, Inv, OneRun, Stage, served
<1>2. /\ \A p \in Periods : Wanted(p)' = Wanted(p)
      /\ Reached' = Reached /\ FactsOwed' = FactsOwed /\ Right' = Right /\ Marked' = Marked
      /\ Missing' = Missing
  BY <1>1, JudgedBy
<1>3. MartOwed'
  BY <1>1, <1>2 DEF Inv, MartOwed, Held
<1>4. CASE \A p \in Periods : facts[p] = NoFact
  <2>1. UNCHANGED agg /\ GiveUp(r)
    BY <1>4 DEF BuildAggregate
  <2>2. AggOwed'
    BY <1>1, <1>2, <2>1 DEF Inv, AggOwed, Held, raw
  <2>3. OneRun' /\ \A s \in Runs : s # r => Stage(s)'
    BY <1>1, <2>1, GiveUpRun, OneRunMoves DEF BuildAggregate, At, Inv
  <2>4. Stage(r)'
    BY <1>1, <2>1, GiveUpRun DEF Stage, At, Landing
  <2> QED
    BY <1>2, <1>3, <2>2, <2>3, <2>4 DEF Inv
<1>5. CASE ~\A p \in Periods : facts[p] = NoFact
  <2>1. /\ agg' = Replace(agg, writing, FiguresNow(run[r].range))
        /\ run' = [run EXCEPT ![r].step = "mart-load",
                              ![r].mended = writing \ Closure(Missing, LastPeriod)]
    BY <1>5 DEF BuildAggregate
  <2>2. \A p \in Periods : agg'[p] = IF p \in writing THEN Figure(p, facts, Periods) ELSE agg[p]
    BY <1>1, <2>1 DEF Replace, FiguresNow
  <2>3. \A p \in writing \cap Periods :
          /\ agg'[p] = Wanted(p) \/ p \in torn.figures
          /\ p \notin Closure(Missing, LastPeriod) => agg'[p] = Wanted(p)
    BY <1>1, <2>2, WantedRight
  <2>4. Held(agg) \subseteq Held(agg)'
    <3>1. \A p \in Periods : Figure(p, facts, Periods) # Absent
      BY <1>1, FigureType DEF TypeOK
    <3> QED
      BY <2>2, <3>1 DEF Held
  <2>5. \E q \in Periods : entries'[q] > 0
    BY <1>1, <1>5 DEF Inv, FactsOwed, raw
  <2>6. AggOwed'
    <3>1. \A p \in Held(agg)' : agg'[p] = Wanted(p)' \/ p \in Reached' \cup torn'.figures
      BY <1>1, <1>2, <2>2, <2>3 DEF Held, Inv, AggOwed
    <3>2. Held(mart)' = Held(mart)
      BY <1>1 DEF Held
    <3> QED
      BY <1>1, <1>2, <2>4, <2>5, <3>1, <3>2 DEF Inv, AggOwed
  <2>7. /\ \A s \in Runs : s # r => run'[s] = run[s]
        /\ run'[r].step = "mart-load" /\ run'[r].range = run[r].range
        /\ run'[r].mended = writing \ Closure(Missing, LastPeriod)
    BY <1>1, <2>1, TypedRun DEF TypeOK, Run
  <2>8. OneRun' /\ \A s \in Runs : s # r => Stage(s)'
    BY <2>7, OneRunMoves DEF BuildAggregate, At, Inv
  <2>9. Sound(agg)'
    <3>1. \A p \in Periods : p \notin writing => agg[p] = Wanted(p) \/ p \in torn.figures
      <4> SUFFICES ASSUME NEW p \in Periods, p \notin writing
                   PROVE  agg[p] = Wanted(p) \/ p \in torn.figures
        OBVIOUS
      <4>1. Held(agg) = Periods /\ p \notin Closure(run[r].dirty, LastPeriod)
        BY <1>1, EndOfPeriods DEF Writing
      <4>2. Reached \subseteq Closure(run[r].dirty, LastPeriod)
        BY <1>1 DEF Reached, Closure
      <4> QED
        BY <4>1, <4>2 DEF Inv, AggOwed
    <3> QED
      BY <1>1, <1>2, <2>2, <2>3, <3>1 DEF Sound
  <2>10. Mended(r, agg)'
    <3>1. writing \subseteq Periods
      BY <1>1 DEF Writing, Held, Closure
    <3>2. Forced(r) => writing \ Closure(Missing, LastPeriod) = Periods
      <4> SUFFICES ASSUME Forced(r) PROVE writing = Periods /\ Closure(Missing, LastPeriod) = {}
        BY <3>1
      <4>1. Closure(Missing, LastPeriod) = {}
        BY <1>1 DEF Closure
      <4>2. Periods \subseteq Closure(run[r].dirty, LastPeriod)
        BY <1>1, OwedReaches
      <4> QED
        BY <1>1, <3>1, <4>1, <4>2, EndOfPeriods DEF Writing
    <3>3. \A p \in run'[r].mended : agg'[p] = Wanted(p)'
      BY <1>2, <2>3, <2>7, <3>1
    <3>4. Closure(Missing, LastPeriod)' = Closure(Missing, LastPeriod)
      BY <1>2 DEF Closure
    <3>5. run'[r].mended \subseteq Periods /\ run'[r].mended \cap Closure(Missing, LastPeriod) = {}
      BY <2>7, <3>1
    <3> QED
      BY <2>7, <3>2, <3>3, <3>4, <3>5 DEF Mended, Forced
  <2>11. Stage(r)'
    BY <1>1, <1>2, <2>7, <2>9, <2>10 DEF Stage, At, Landing
  <2> QED
    BY <1>2, <1>3, <2>6, <2>8, <2>11 DEF Inv
<1> QED
  BY <1>4, <1>5

LEMMA BuildAggregateDiesKeeps ==
  ASSUME OneRange, Inv, NEW r \in Runs, NEW anew \in BOOLEAN, NEW at \in Periods,
         BuildAggregateDies(r, anew, at), TypeOK'
  PROVE  Inv'
<1> DEFINE writing == Writing(run[r].range, run[r].dirty, anew)
<1>1. /\ TypeOK /\ run[r].range = Periods /\ Right
      /\ UNCHANGED <<raw, owed, facts, mart>>
      /\ run[r].step \in {"facts", "aggregate"} /\ TryAgain(r)
      /\ ~\A p \in Periods : facts[p] = NoFact
  BY DEF BuildAggregateDies, At, Inv, OneRun, Stage, served
<1>2. PICK left \in {agg[at], Absent, Hollow} :
        /\ agg' = CutShort(agg, writing, FiguresNow(run[r].range), at, left)
        /\ Spoil(IF left = agg[at] THEN {} ELSE {at})
  BY DEF BuildAggregateDies
<1>3. /\ \A p \in Periods : Wanted(p)' = Wanted(p)
      /\ \A q \in Periods : Fact(q, landed)' = Fact(q, landed)
      /\ Resolve(LastPeriod)' = Resolve(LastPeriod)
      /\ Reached' = Reached /\ Marked' = Marked
  BY <1>1, JudgedBy
<1>4. /\ torn.figures \subseteq torn'.figures
      /\ left = agg[at] \/ at \in torn'.figures
  BY <1>2 DEF Spoil
<1>5. FactsOwed'
  <2>1. \A q \in Periods : Lost(q) => Lost(q)'
    BY <1>1, <1>4 DEF Lost, Closure
  <2> QED
    BY <1>1, <1>3, <2>1 DEF Inv, FactsOwed, raw
<1>6. MartOwed'
  BY <1>1, <1>3, <1>4 DEF Inv, MartOwed, Held
<1>7. \A p \in Periods : \/ agg'[p] = agg[p]
                         \/ p \in torn'.figures
                         \/ agg'[p] = Wanted(p) /\ agg'[p] # Absent
  <2> SUFFICES ASSUME NEW p \in Periods, agg'[p] # agg[p], p \notin torn'.figures
               PROVE  agg'[p] = Wanted(p) /\ agg'[p] # Absent
    OBVIOUS
  <2>1. agg'[p] = Figure(p, facts, Periods)
    BY <1>1, <1>2, <1>4 DEF CutShort, FiguresNow
  <2> QED
    BY <1>1, <1>4, <2>1, WantedRight, WantedRow
<1>8. AggOwed'
  <2>1. \A p \in Held(agg)' : agg'[p] = Wanted(p)' \/ p \in Reached' \cup torn'.figures
    BY <1>3, <1>4, <1>7 DEF Held, Inv, AggOwed
  <2>2. Held(agg) \cup torn.figures \subseteq Held(agg)' \cup torn'.figures
    BY <1>4, <1>7 DEF Held
  <2>3. Held(mart)' = Held(mart) /\ \E q \in Periods : entries'[q] > 0
    BY <1>1 DEF Held, Inv, FactsOwed, raw
  <2> QED
    BY <1>3, <2>1, <2>2, <2>3 DEF Inv, AggOwed
<1> QED
  BY <1>1, <1>5, <1>6, <1>8, RecomputeDies DEF Inv

\* A step that touches neither what is owed, nor what it is judged by, nor a table that
\* is, need only leave its own run right.
LEMMA RunKeeps ==
  ASSUME Inv, TypeOK', NEW r \in Runs, ~At(r, "idle"), UNCHANGED <<raw, owed, facts, agg, mart>>,
         torn'.figures = torn.figures,
         \A s \in Runs : s # r => run'[s] = run[s],
         run'[r].step = "idle" \/ run'[r].range = run[r].range,
         Stage(r)'
  PROVE  Inv'
<1>1. FactsOwed' /\ AggOwed' /\ MartOwed'
  BY JudgedBy DEF Inv, AggOwed, MartOwed, Held, raw
<1>2. OneRun' /\ \A s \in Runs : s # r => Stage(s)'
  BY OneRunMoves DEF Inv
<1> QED
  BY <1>1, <1>2 DEF Inv

\* A landed table is as right as the layer, which loses no partition on the way but one
\* without rows.
LEMMA LandedSound ==
  ASSUME TypeOK, NEW r \in Runs, Sound(agg), Mended(r, agg), Filled(agg) # {}
  PROVE  Sound(Landed) /\ Mended(r, Landed) /\ Held(Landed) # {}
<1>1. \A p \in Periods : agg[p] = Wanted(p) => p \in Filled(agg)
  BY WantedRow DEF Filled, Held
<1>2. \A p \in Periods : p \in Filled(agg) => Landed[p] = agg[p]
  BY DEF Landed
<1>3. Sound(Landed)
  BY <1>1, <1>2 DEF Sound
<1>4. Mended(r, Landed)
  BY <1>1, <1>2 DEF Mended
<1>5. Held(Landed) # {}
  BY <1>2 DEF Filled, Held
<1> QED
  BY <1>3, <1>4, <1>5

LEMMA MartLoadKeeps ==
  ASSUME Inv, NEW r \in Runs, MartLoad(r), TypeOK'
  PROVE  Inv'
<1>1. /\ TypeOK /\ Right /\ (Filled(agg) = {} \/ Sound(agg)) /\ Mended(r, agg)
      /\ ~At(r, "idle") /\ UNCHANGED <<raw, owed, facts, agg, mart, torn>>
  BY DEF MartLoad, At, Inv, Stage, staging
<1>2. Right' = Right /\ Missing' = Missing /\ \A p \in Periods : Wanted(p)' = Wanted(p)
  BY <1>1, JudgedBy
<1>3. CASE Filled(agg) = {}
  <2>1. GiveUp(r)
    BY <1>3 DEF MartLoad
  <2>2. Stage(r)'
    BY <1>1, <2>1, GiveUpRun DEF Stage, At, Landing
  <2> QED
    BY <1>1, <2>1, <2>2, GiveUpRun, RunKeeps
<1>4. CASE Filled(agg) # {}
  <2>1. landing' = Landed /\ Go(r, "dbt-build")
    BY <1>4 DEF MartLoad
  <2>2. /\ Sound(agg) /\ Mended(r, agg)
        /\ Sound(Landed) /\ Mended(r, Landed) /\ Held(Landed) # {}
    BY <1>1, <1>4, LandedSound
  <2>3. run'[r].step = "dbt-build" /\ run'[r].mended = run[r].mended
    BY <1>1, <2>1, GoRun
  <2>4. /\ Sound(agg)' /\ Sound(landing)' /\ Held(landing)' # {}
        /\ Mended(r, agg)' /\ Mended(r, landing)'
    BY <1>1, <1>2, <2>1, <2>2, <2>3 DEF Sound, Held, Mended, Forced
  <2>5. Stage(r)'
    BY <1>1, <1>2, <2>3, <2>4 DEF Stage, At, Landing
  <2> QED
    BY <1>1, <2>1, <2>5, GoRun, RunKeeps
<1> QED
  BY <1>3, <1>4

LEMMA DbtBuildKeeps ==
  ASSUME Inv, NEW r \in Runs, DbtBuild(r), TypeOK'
  PROVE  Inv'
<1>1. /\ TypeOK /\ Right /\ Sound(agg) /\ Sound(landing) /\ Held(landing) # {}
      /\ Mended(r, agg) /\ Mended(r, landing)
      /\ ~At(r, "idle") /\ UNCHANGED <<raw, owed, facts, agg, landing, mart, torn>>
  BY DEF DbtBuild, At, Inv, Stage, staging, served, Landing
<1>2. Right' = Right /\ Missing' = Missing /\ \A p \in Periods : Wanted(p)' = Wanted(p)
  BY <1>1, JudgedBy
<1>3. /\ \A s \in Runs : s # r => run'[s] = run[s]
      /\ run'[r].step = "promote" /\ run'[r].built = landing /\ run'[r].range = run[r].range
      /\ run'[r].mended = run[r].mended
  BY <1>1, TypedRun DEF DbtBuild, TypeOK, Run
<1>4. /\ Sound(agg)' /\ Sound(landing)' /\ Held(landing)' # {}
      /\ Mended(r, agg)' /\ Mended(r, landing)'
  BY <1>1, <1>2, <1>3 DEF Sound, Held, Mended, Forced
<1>5. Sound(run[r].built)' /\ Held(run[r].built)' # {} /\ Mended(r, run[r].built)'
  BY <1>1, <1>2, <1>3 DEF Sound, Held, Mended, Forced
<1>6. Stage(r)'
  BY <1>1, <1>2, <1>3, <1>4, <1>5 DEF Stage, At, Landing
<1> QED
  BY <1>1, <1>3, <1>6, RunKeeps

\* What a run wrote from whole facts is no longer spoilt once it is published.
LEMMA PromotePublishes ==
  ASSUME Inv, NEW r \in Runs, Promote(r)
  PROVE  /\ Right' /\ Sound(agg)' /\ Sound(landing)' /\ Sound(mart)' /\ Held(mart)' # {}
         /\ Forced(r) => \A p \in Periods : mart'[p] = Wanted(p)'
<1>1. /\ TypeOK /\ Right /\ Sound(agg) /\ Sound(landing) /\ Sound(run[r].built)
      /\ Held(run[r].built) # {}
      /\ Mended(r, agg) /\ Mended(r, landing) /\ Mended(r, run[r].built)
      /\ UNCHANGED <<raw, owed, facts, agg, landing>> /\ mart' = run[r].built
  BY DEF Promote, At, Inv, Stage, staging, Landing
<1>2. torn'.figures = torn.figures \ run[r].mended
  BY <1>1 DEF Promote, TypeOK
<1>3. /\ \A p \in Periods : Wanted(p)' = Wanted(p)
      /\ \A q \in Periods : Fact(q, landed)' = Fact(q, landed)
  BY <1>1, JudgedBy
<1>4. \A p \in run[r].mended :
        agg[p] = Wanted(p) /\ landing[p] = Wanted(p) /\ run[r].built[p] = Wanted(p)
  BY <1>1 DEF Mended
<1>5. Sound(agg)' /\ Sound(landing)' /\ Sound(mart)'
  BY <1>1, <1>2, <1>3, <1>4 DEF Sound
<1>6. ASSUME NEW q \in Periods PROVE facts'[q] = Fact(q, landed)' \/ Lost(q)'
  <2>1. CASE facts[q] = Fact(q, landed)
    BY <1>1, <1>3, <2>1
  <2>2. CASE facts[q] # Fact(q, landed)
    <3>1. facts[q] = NoFact /\ Closure({q}, LastPeriod) \subseteq torn.figures
      BY <1>1, <2>2 DEF Right, Lost
    <3>2. q \in Missing
      <4>1. entries[q] # 0
        BY <2>2, <3>1 DEF Fact
      <4> QED
        BY <1>1, <3>1, <4>1, WindowsAssumption DEF Missing, TypeOK
    <3>3. Closure({q}, LastPeriod) \subseteq Closure(Missing, LastPeriod)
      BY <3>2, ClosureGrows
    <3>4. Closure({q}, LastPeriod) \subseteq torn'.figures
      BY <1>1, <1>2, <3>1, <3>3 DEF Mended
    <3> QED
      BY <1>1, <3>1, <3>4 DEF Lost, Closure
  <2> QED
    BY <2>1, <2>2
<1>7. Held(mart)' # {}
  BY <1>1 DEF Held
<1>8. Forced(r) => \A p \in Periods : mart'[p] = Wanted(p)'
  BY <1>1, <1>3, <1>4 DEF Mended
<1> QED
  BY <1>5, <1>6, <1>7, <1>8 DEF Right

LEMMA PromoteKeeps ==
  ASSUME Inv, NEW r \in Runs, Promote(r), TypeOK'
  PROVE  Inv'
<1>1. /\ TypeOK /\ Held(landing) # {} /\ Mended(r, agg) /\ Mended(r, landing)
      /\ UNCHANGED <<raw, owed, facts, agg, landing>> /\ mart' = run[r].built
  BY DEF Promote, At, Inv, Stage, staging, Landing
<1>2. /\ Right' /\ Sound(agg)' /\ Sound(landing)' /\ Sound(mart)' /\ Held(mart)' # {}
  BY PromotePublishes
<1>3. /\ \A p \in Periods : Wanted(p)' = Wanted(p)
      /\ Missing' = Missing
  BY <1>1, JudgedBy
<1>4. FactsOwed'
  BY <1>1, <1>2 DEF Inv, FactsOwed, Right, raw
<1>5. AggOwed'
  <2>1. \A p \in Periods : agg'[p] = Wanted(p)' \/ p \in torn'.figures
    BY <1>2 DEF Sound
  <2>2. \A p \in Periods : Wanted(p)' # Absent
    BY <1>1, <1>3, WantedRow
  <2>3. Periods \subseteq Held(agg)' \cup torn'.figures
    BY <2>1, <2>2 DEF Held
  <2>4. \A p \in Held(agg)' : p \in Periods
    BY DEF Held
  <2>5. Held(agg)' # {} => \E q \in Periods : entries'[q] > 0
    BY <1>1 DEF Inv, AggOwed, Held, raw
  <2> QED
    BY <2>1, <2>3, <2>4, <2>5 DEF AggOwed
<1>6. MartOwed'
  BY <1>2 DEF MartOwed, Sound
<1>7. /\ \A s \in Runs : s # r => run'[s] = run[s]
      /\ run'[r].step = "judge" /\ run'[r].range = run[r].range
      /\ run'[r].mended = run[r].mended
  BY <1>1, GoRun DEF Promote
<1>8. OneRun' /\ \A s \in Runs : s # r => Stage(s)'
  BY <1>7, OneRunMoves DEF Promote, At, Inv
<1>9. Held(landing)' # {} /\ Mended(r, agg)' /\ Mended(r, landing)'
  BY <1>1, <1>3, <1>7 DEF Held, Mended, Forced
<1>10. Stage(r)'
  BY <1>2, <1>7, <1>9 DEF Stage, At, Landing
<1> QED
  BY <1>4, <1>5, <1>6, <1>8, <1>10 DEF Inv

LEMMA JudgeKeeps ==
  ASSUME Inv, NEW r \in Runs, Judge(r), TypeOK'
  PROVE  Inv'
<1>1. /\ TypeOK /\ Right /\ Sound(agg) /\ Sound(landing) /\ Held(landing) # {}
      /\ Mended(r, agg) /\ Mended(r, landing) /\ Sound(mart) /\ Held(mart) # {}
      /\ ~At(r, "idle") /\ UNCHANGED <<raw, owed, facts, agg, landing, mart>>
  BY DEF Judge, At, Inv, Stage, staging, Landing
<1>2. torn'.figures = torn.figures
  BY <1>1 DEF Judge, TypeOK
<1>3. Right' = Right /\ Missing' = Missing /\ \A p \in Periods : Wanted(p)' = Wanted(p)
  BY <1>1, <1>2, JudgedBy
<1>4. /\ \A s \in Runs : s # r => run'[s] = run[s]
      /\ run'[r].step = "clear-affected" /\ run'[r].range = run[r].range
      /\ run'[r].mended = run[r].mended
  BY <1>1, GoRun DEF Judge
<1>5. /\ Sound(agg)' /\ Sound(landing)' /\ Held(landing)' # {}
      /\ Mended(r, agg)' /\ Mended(r, landing)' /\ Sound(mart)' /\ Held(mart)' # {}
  BY <1>1, <1>2, <1>3, <1>4 DEF Sound, Held, Mended, Forced
<1>6. Stage(r)'
  BY <1>1, <1>3, <1>4, <1>5 DEF Stage, At, Landing
<1> QED
  BY <1>1, <1>2, <1>4, <1>6, RunKeeps

LEMMA TryAgainStage ==
  ASSUME Inv, NEW r \in Runs, ~At(r, "idle"), TryAgain(r),
         UNCHANGED <<raw, owed, facts, agg, mart, torn>>,
         landing' = landing \/ At(r, "mart-load")
  PROVE  Stage(r)'
<1>1. TypeOK /\ Stage(r)
  BY DEF Inv
<1>2. Right' = Right /\ Missing' = Missing /\ \A p \in Periods : Wanted(p)' = Wanted(p)
  BY JudgedBy
<1>3. CASE run'[r].step = "mart-load"
  <2>1. run[r].step \in {"mart-load", "dbt-build"} /\ run'[r].mended = run[r].mended
    BY <1>1, <1>3, TryAgainRun
  <2>2. Right /\ (Filled(agg) = {} \/ Sound(agg)) /\ Mended(r, agg)
    BY <1>1, <2>1 DEF Stage, At, Landing
  <2>3. (Filled(agg)' = {} \/ Sound(agg)') /\ Mended(r, agg)'
    BY <1>2, <2>1, <2>2 DEF Sound, Filled, Held, Mended, Forced
  <2> QED
    BY <1>2, <1>3, <2>2, <2>3 DEF Stage, At, Landing
<1>4. CASE run'[r].step \in {"dbt-build", "judge", "clear-affected"}
  <2>1. /\ run[r].step \in {"dbt-build", "promote", "judge", "clear-affected"}
        /\ run'[r].mended = run[r].mended
    BY <1>1, <1>4, TryAgainRun
  <2>2. /\ Right /\ Sound(agg) /\ Sound(landing) /\ Held(landing) # {}
        /\ Mended(r, agg) /\ Mended(r, landing)
    BY <1>1, <2>1 DEF Stage, Landing
  <2>3. landing' = landing
    BY <2>1 DEF At
  <2>4. run'[r].step \in {"judge", "clear-affected"} =>
          run[r].step \in {"judge", "clear-affected"}
    BY <1>1, TryAgainRun
  <2>5. run'[r].step \in {"judge", "clear-affected"} => Sound(mart) /\ Held(mart) # {}
    BY <1>1, <2>4 DEF Stage
  <2>6. /\ Sound(agg)' /\ Sound(landing)' /\ Held(landing)' # {} /\ Right'
        /\ Mended(r, agg)' /\ Mended(r, landing)'
    BY <1>2, <2>1, <2>2, <2>3 DEF Sound, Held, Mended, Forced
  <2>7. run'[r].step \in {"judge", "clear-affected"} => Sound(mart)' /\ Held(mart)' # {}
    BY <1>2, <2>5 DEF Sound, Held
  <2> QED
    BY <1>4, <2>6, <2>7 DEF Stage, At, Landing
<1>5. CASE run'[r].step \notin {"mart-load", "dbt-build", "judge", "clear-affected"}
  <2>1. run'[r].step \notin {"facts", "aggregate", "promote"}
    BY <1>1, TryAgainRun
  <2> QED
    BY <1>5, <2>1 DEF Stage, At, Landing
<1> QED
  BY <1>3, <1>4, <1>5

\* By the time the marks are cleared every layer is what the raw layer says, but for what
\* was spoilt.
LEMMA ClearedKeeps ==
  ASSUME Inv, NEW r \in Runs, At(r, "clear-affected"), owed' = NothingOwed, TypeOK',
         UNCHANGED <<raw, facts, agg, mart, torn>>,
         \A s \in Runs : s # r => run'[s] = run[s],
         run'[r].step = "idle" \/ run'[r].range = run[r].range,
         Stage(r)'
  PROVE  Inv'
<1>1. TypeOK /\ Right /\ Sound(agg) /\ Sound(mart) /\ Held(mart) # {}
  BY DEF At, Inv, Stage, Landing
<1>2. /\ \A p \in Periods : Wanted(p)' = Wanted(p)
      /\ \A q \in Periods : Fact(q, landed)' = Fact(q, landed)
      /\ \A q \in Periods : Lost(q)' = Lost(q)
  BY DEF raw, Wanted, Figure, Fact, Lost, Closure
<1>3. FactsOwed'
  BY <1>1, <1>2 DEF Inv, FactsOwed, Right, raw
<1>4. /\ Held(agg)' = Held(agg) /\ Held(mart)' = Held(mart)
      /\ Periods \subseteq Held(agg) \cup torn.figures
  BY <1>1, SoundHolds DEF Held
<1>5. AggOwed'
  <2>1. \A p \in Held(agg)' : agg'[p] = Wanted(p)' \/ p \in torn'.figures
    BY <1>1, <1>2 DEF Sound, Held
  <2>2. Held(agg)' # {} => \E q \in Periods : entries'[q] > 0
    BY <1>4 DEF Inv, AggOwed, raw
  <2> QED
    BY <1>4, <2>1, <2>2 DEF AggOwed
<1>6. MartOwed'
  BY <1>1, <1>2, <1>4 DEF MartOwed, Sound
<1>7. OneRun' /\ \A s \in Runs : s # r => Stage(s)'
  BY OneRunMoves DEF At, Inv
<1> QED
  BY <1>3, <1>5, <1>6, <1>7 DEF Inv

LEMMA ClearAffectedKeeps ==
  ASSUME Inv, NEW r \in Runs, ClearAffected(r), TypeOK'
  PROVE  Inv'
<1>1. /\ \A s \in Runs : s # r => run'[s] = run[s]
      /\ run'[r].step = "idle"
  BY GiveUpRun DEF ClearAffected, Inv
<1>2. Stage(r)'
  BY <1>1 DEF Stage, At, Landing
<1> QED
  BY <1>1, <1>2, ClearedKeeps DEF ClearAffected, staging, served

LEMMA ClearAffectedDiesKeeps ==
  ASSUME Inv, NEW r \in Runs, ClearAffectedDies(r), TypeOK'
  PROVE  Inv'
<1>1. /\ TypeOK /\ At(r, "clear-affected") /\ ~At(r, "idle") /\ TryAgain(r)
      /\ owed' = NothingOwed /\ UNCHANGED <<raw, facts, agg, landing, mart, torn>>
  BY DEF ClearAffectedDies, At, Inv, staging, served
<1>2. /\ run'[r].step \in {"judge", "clear-affected", "idle"}
      /\ run'[r].step = "idle" \/ run'[r].mended = run[r].mended
      /\ run'[r].step = "idle" \/ run'[r].range = run[r].range
      /\ \A s \in Runs : s # r => run'[s] = run[s]
  <2>1. CASE GiveUp(r)
    BY <1>1, <2>1, GiveUpRun
  <2>2. CASE \E step \in Beginnings(r) : Go(r, step)
    <3>1. PICK step \in Beginnings(r) : Go(r, step)
      BY <2>2
    <3>2. step \in {"judge", "clear-affected"}
      BY <1>1, <3>1 DEF Beginnings, Task, Follows, At
    <3> QED
      BY <1>1, <3>1, <3>2, GoRun
  <2> QED
    BY <1>1, <2>1, <2>2 DEF TryAgain
<1>3. /\ Right /\ Sound(agg) /\ Sound(landing) /\ Held(landing) # {}
      /\ Mended(r, agg) /\ Mended(r, landing) /\ Sound(mart) /\ Held(mart) # {}
  BY <1>1 DEF At, Inv, Stage, Landing
<1>4. /\ \A p \in Periods : Wanted(p)' = Wanted(p)
      /\ \A q \in Periods : Fact(q, landed)' = Fact(q, landed)
      /\ \A q \in Periods : Lost(q)' = Lost(q)
      /\ Missing' = Missing
  BY <1>1 DEF raw, Wanted, Figure, Fact, Lost, Closure, Missing
<1>5. Right' /\ Sound(agg)' /\ Sound(landing)' /\ Held(landing)' # {} /\ Sound(mart)' /\ Held(mart)' # {}
  BY <1>1, <1>3, <1>4 DEF Right, Sound, Held
<1>6. run'[r].step # "idle" => Mended(r, agg)' /\ Mended(r, landing)'
  BY <1>1, <1>2, <1>3, <1>4 DEF Mended, Forced
<1>7. Stage(r)'
  BY <1>2, <1>5, <1>6 DEF Stage, At, Landing
<1> QED
  BY <1>1, <1>2, <1>7, ClearedKeeps

LEMMA FailKeeps ==
  ASSUME Inv, NEW r \in Runs, Fail(r), TypeOK'
  PROVE  Inv'
<1>1. /\ TypeOK /\ ~At(r, "idle") /\ TryAgain(r)
      /\ UNCHANGED <<raw, owed, facts, agg, landing, mart, torn>>
  BY DEF Fail, Inv, staging, served
<1>2. Stage(r)'
  BY <1>1, TryAgainStage
<1> QED
  BY <1>1, <1>2, TryAgainRun, RunKeeps

LEMMA MartLoadDiesKeeps ==
  ASSUME Inv, NEW r \in Runs, MartLoadDies(r), TypeOK'
  PROVE  Inv'
<1>1. /\ TypeOK /\ At(r, "mart-load") /\ ~At(r, "idle") /\ TryAgain(r)
      /\ UNCHANGED <<raw, owed, facts, agg, mart, torn>>
  BY DEF MartLoadDies, At, Inv, staging
<1>2. Stage(r)'
  BY <1>1, TryAgainStage
<1> QED
  BY <1>1, <1>2, TryAgainRun, RunKeeps

LEMMA InvStep == OneRange /\ Inv /\ [Next]_vars => Inv'
<1> SUFFICES ASSUME OneRange, Inv, [Next]_vars PROVE Inv'
  OBVIOUS
<1>1. TypeOK'
  BY TypeStep DEF Inv
<1>2. CASE Next
  BY <1>1, <1>2, StartKeeps, LoadKeeps, RecomputeKeeps, BuildFactsKeeps, BuildAggregateKeeps,
     MartLoadKeeps, DbtBuildKeeps, PromoteKeeps, JudgeKeeps, ClearAffectedKeeps, FailKeeps,
     MartLoadDiesKeeps, ClearAffectedDiesKeeps, BuildFactsDiesKeeps, BuildAggregateDiesKeeps
  DEF Next, Work, Die
<1>3. CASE UNCHANGED vars
  <2>1. FactsOwed' /\ AggOwed' /\ MartOwed'
    BY <1>3, JudgedBy DEF vars, raw, Inv, AggOwed, MartOwed, Held
  <2>2. OneRun'
    BY <1>3 DEF vars, OneRun, At, Inv
  <2>3. ASSUME NEW r \in Runs PROVE Stage(r)'
    <3>1. Stage(r)
      BY DEF Inv
    <3>2. /\ UNCHANGED <<raw, owed, facts, torn>> /\ landed' = landed
          /\ \A p \in Periods : Wanted(p)' = Wanted(p)
          /\ Right' = Right /\ Missing' = Missing /\ Resolve(LastPeriod)' = Resolve(LastPeriod)
      BY <1>3, JudgedBy DEF vars, raw
    <3>3. /\ Sound(agg)' = Sound(agg) /\ Sound(landing)' = Sound(landing)
          /\ Sound(mart)' = Sound(mart) /\ Sound(run[r].built)' = Sound(run[r].built)
      BY <1>3, <3>2 DEF vars, Sound
    <3>4. /\ Mended(r, agg)' = Mended(r, agg) /\ Mended(r, landing)' = Mended(r, landing)
          /\ Mended(r, run[r].built)' = Mended(r, run[r].built)
      BY <1>3, <3>2 DEF vars, Mended, Forced
    <3>5. /\ Held(landing)' = Held(landing) /\ Held(mart)' = Held(mart)
          /\ Held(run[r].built)' = Held(run[r].built) /\ Filled(agg)' = Filled(agg)
      BY <1>3 DEF vars, Held, Filled
    <3>6. run' = run /\ dims' = dims
      BY <1>3 DEF vars
    <3> QED
      BY ONLY <3>1, <3>2, <3>3, <3>4, <3>5, <3>6 DEF Stage, At, Landing, Forced
  <2> QED
    BY <1>1, <2>1, <2>2, <2>3 DEF Inv
<1> QED
  BY <1>2, <1>3

LEMMA InvOwed == OneRange /\ Inv => OwedUntilPublished
<1> SUFFICES ASSUME OneRange, Inv, NEW p \in Periods, Behind(p) PROVE p \in Reached \cup torn.figures
  BY DEF OneRange, OwedUntilPublished, Reached
<1>1. CASE Held(mart) = {}
  <2>1. p \in owed.periods
    BY <1>1 DEF Behind, Inv, MartOwed, Marked
  <2>2. p \in Resolve(LastPeriod)
    BY <2>1, ResolvedPeriods DEF Inv
  <2> QED
    BY <2>2, OwedReaches DEF Reached
<1>2. CASE Held(mart) # {}
  BY <1>2 DEF Behind, Inv, MartOwed
<1> QED
  BY <1>1, <1>2

\* With one run at a time, and every run over the whole reporting range, a figure that
\* differs from what the raw layer says is owed, or a death inside the overwrite of a
\* partition it needs spoilt it and it was not published whole since: for any windows,
\* dimension versions, loads, failures and retries.
THEOREM OwedUntilPublishedHolds == OneRange => (Spec => []OwedUntilPublished)
<1> SUFFICES ASSUME OneRange PROVE Spec => []OwedUntilPublished
  OBVIOUS
<1>1. Inv /\ [Next]_vars => Inv'
  BY InvStep
<1>2. Inv => OwedUntilPublished
  BY InvOwed
<1> QED
  BY <1>1, <1>2, InitHolds, PTL DEF Spec

\* What is promoted is what a rebuild of everything from the raw layer would publish
\* then, in every period a death inside an overwrite has not spoilt, although each build
\* wrote a closure only.  A backfill publishes every period so, whatever was spoilt.
PublishedIsWanted ==
  [][mart' # mart =>
       \A p \in Periods : \/ mart'[p] = Wanted(p)'
                          \/ p \in torn'.figures /\ ~At("backfill", "promote")]_vars

LEMMA PromotesWanted ==
  ASSUME Inv, [Next]_vars, mart' # mart
  PROVE  \A p \in Periods : \/ mart'[p] = Wanted(p)'
                            \/ p \in torn'.figures /\ ~At("backfill", "promote")
<1>1. PICK r \in Runs : Promote(r)
  <2>1. PICK r \in Runs : Start(r) \/ Work(r) \/ Die(r)
    BY DEF Next, vars
  <2>2. ~Start(r)
    BY DEF Start, served
  <2>3. Work(r) => Promote(r)
    BY DEF Work, Load, Recompute, BuildFacts, BuildAggregate, MartLoad, DbtBuild, Judge,
           ClearAffected, served
  <2>4. ~Die(r)
    BY DEF Die, Fail, MartLoadDies, ClearAffectedDies, BuildFactsDies, BuildAggregateDies, served
  <2> QED
    BY <2>1, <2>2, <2>3, <2>4
<1>2. /\ \A p \in Periods : mart'[p] = Wanted(p)' \/ p \in torn'.figures
      /\ Forced(r) => \A p \in Periods : mart'[p] = Wanted(p)'
  BY <1>1, PromotePublishes DEF Sound
<1>3. At("backfill", "promote") => r = "backfill"
  BY <1>1 DEF Inv, OneRun, At, Promote, Runs
<1> QED
  BY <1>2, <1>3 DEF Forced

\* With one run at a time over the whole range, every promotion publishes the figures a
\* full rebuild of the raw layer would publish, for any windows, versions and failures,
\* except those a death inside an overwrite spoilt; a backfill's publishes these too.
\* A selective recompute never puts a partition before a reader that is stale for
\* another reason (backfill.py, balances.py, facts.py, promote.py).
THEOREM PublishedIsWantedHolds == OneRange => (Spec => PublishedIsWanted)
<1> SUFFICES ASSUME OneRange PROVE Spec => PublishedIsWanted
  OBVIOUS
<1>1. Inv /\ [Next]_vars => Inv'
  BY InvStep
<1>2. Inv /\ [Next]_vars =>
        [mart' # mart =>
           \A p \in Periods : \/ mart'[p] = Wanted(p)'
                              \/ p \in torn'.figures /\ ~At("backfill", "promote")]_vars
  BY PromotesWanted
<1> QED
  BY <1>1, <1>2, InitHolds, PTL DEF Spec, PublishedIsWanted
-----------------------------------------------------------------------------
(***************************************************************************)
(* The flags.  Published figures, and those the flags were decided on, are *)
(* those of the postings in raw, or are reached from the owed periods, or  *)
(* were spoilt; where the set is about to be cleared no other flag is      *)
(* behind.                                                                 *)
(***************************************************************************)
OwedReach == Closure(owed.periods, LastPeriod)
Postings(p) == [q \in Window(p) |-> entries[q]]
Seen(t, S) == \A p \in Periods : Posted(t[p], p) = Postings(p) \/ p \in S

FlagsInv ==
  /\ Seen(mart, OwedReach \cup torn.figures) /\ Seen(flags, OwedReach \cup torn.flags)
  /\ torn.figures \subseteq torn.flags
  /\ \A r \in Runs : At(r, "clear-affected") => Seen(flags, torn.flags)

LEMMA WantedSeen ==
  ASSUME TypeOK, NEW p \in Periods
  PROVE  Posted(Wanted(p), p) = Postings(p)
<1>1. Wanted(p) # Absent
  BY WantedRow
<1>2. Window(p) \cap Periods = Window(p)
  BY DEF Window
<1>3. Wanted(p) = [q \in Window(p) |-> Fact(q, landed)]
  BY <1>2 DEF Wanted, Figure
<1>4. \A q \in Periods : Fact(q, landed).entries = entries[q]
  BY DEF Fact, NoFact
<1>5. \A q \in Window(p) : Fact(q, landed).entries = entries[q]
  BY <1>2, <1>4
<1>6. Content(Wanted(p), p) = [q \in Window(p) |-> Fact(q, landed)]
  BY <1>1, <1>3 DEF Content
<1> QED
  BY <1>5, <1>6 DEF Posted, Postings

LEMMA SoundSeen ==
  ASSUME TypeOK, NEW t, Sound(t)
  PROVE  Seen(t, torn.figures)
BY WantedSeen DEF Sound, Seen

\* A run comes to clear-affected from judge, or from clear-affected itself.
LEMMA ComesFromJudge ==
  ASSUME TypeOK, NEW r \in Runs, Start(r) \/ Work(r) \/ Die(r), ~Judge(r),
         NEW s \in Runs, At(s, "clear-affected")'
  PROVE  At(s, "clear-affected")
<1> SUFFICES ASSUME run'[s] # run[s] PROVE At(s, "clear-affected")
  BY DEF At
<1>1. CASE Start(r)
  <2>1. PICK range : run' = [run EXCEPT ![r].step = IF r = "daily" THEN "load" ELSE "recompute",
                                        ![r].range = range]
    BY <1>1 DEF Start
  <2>2. /\ \A u \in Runs : u # r => run'[u] = run[u]
        /\ run'[r].step \in {"load", "recompute"}
    BY <2>1, TypedRun DEF TypeOK, Run
  <2> QED
    BY <2>2 DEF At
<1>2. CASE \E step \in Steps \ {"clear-affected"} : Go(r, step)
  BY <1>2, GoRun DEF At
<1>3. CASE GiveUp(r)
  BY <1>3, GiveUpRun DEF At
<1>4. CASE \E step, S, T : /\ step # "clear-affected"
                           /\ run' = [run EXCEPT ![r].step = step, ![r].dirty = S, ![r].mended = T]
  <2>1. PICK step, S, T : /\ step # "clear-affected"
                          /\ run' = [run EXCEPT ![r].step = step, ![r].dirty = S, ![r].mended = T]
    BY <1>4
  <2>2. run \in [Runs -> Run]
    BY DEF TypeOK, Run
  <2>3. run'[r].step = step /\ \A u \in Runs : u # r => run'[u] = run[u]
    BY ONLY <2>1, <2>2 DEF Run
  <2> QED
    BY <2>1, <2>3 DEF At
<1>5. CASE \E step, T : /\ step # "clear-affected"
                        /\ run' = [run EXCEPT ![r].step = step, ![r].mended = T]
  <2>1. PICK step, T : /\ step # "clear-affected"
                       /\ run' = [run EXCEPT ![r].step = step, ![r].mended = T]
    BY <1>5
  <2>2. run \in [Runs -> Run]
    BY DEF TypeOK, Run
  <2>3. run'[r].step = step /\ \A u \in Runs : u # r => run'[u] = run[u]
    BY ONLY <2>1, <2>2 DEF Run
  <2> QED
    BY <2>1, <2>3 DEF At
<1>6. CASE ~At(r, "idle") /\ TryAgain(r)
  BY <1>6, TryAgainRun DEF At
<1>7. CASE Work(r)
  <2>1. (\E P \in SUBSET Periods, V \in SUBSET (Versions \ landed) : Load(r, P, V)) => <1>2!1
    BY DEF Load, Steps
  <2>2. Recompute(r) => <1>3!1 \/ <1>4!1
    <3>1. ASSUME Recompute(r), ~GiveUp(r)
          PROVE  \E step : /\ step # "clear-affected"
                           /\ run' = [run EXCEPT ![r].step = step, ![r].dirty = Dirty(r),
                                                 ![r].mended = {}]
      <4>1. run' = [run EXCEPT ![r].step = IF Dirty(r) = {} THEN "mart-load" ELSE "facts",
                               ![r].dirty = Dirty(r), ![r].mended = {}]
        BY <3>1 DEF Recompute
      <4>2. (IF Dirty(r) = {} THEN "mart-load" ELSE "facts") # "clear-affected"
        OBVIOUS
      <4> QED
        BY ONLY <4>1, <4>2, Zenon
    <3> QED
      BY <3>1, Zenon
  <2>3. MartLoad(r) => <1>2!1 \/ <1>3!1
    BY DEF MartLoad, Steps
  <2>4. DbtBuild(r) => ~At(s, "clear-affected")'
    BY TypedRun DEF DbtBuild, At, TypeOK, Run
  <2>5. Promote(r) => <1>2!1
    BY DEF Promote, Steps
  <2>6. ClearAffected(r) => <1>3!1
    BY DEF ClearAffected
  <2>7. BuildFacts(r) => <1>2!1
    BY DEF BuildFacts, Steps
  <2>8. (\E anew \in BOOLEAN : BuildAggregate(r, anew)) => <1>3!1 \/ <1>5!1
    BY Zenon DEF BuildAggregate
  <2> QED
    BY <1>2, <1>3, <1>4, <1>5, <1>7, <2>1, <2>2, <2>3, <2>4, <2>5, <2>6, <2>7, <2>8 DEF Work
<1>8. CASE Die(r)
  <2>1. Fail(r) => <1>6!1
    BY DEF Fail
  <2>2. MartLoadDies(r) => <1>6!1
    BY DEF MartLoadDies, At
  <2>3. ClearAffectedDies(r) => <1>6!1
    BY DEF ClearAffectedDies, At
  <2>4. (\E at \in Periods : BuildFactsDies(r, at)) => <1>6!1
    BY DEF BuildFactsDies, At
  <2>5. (\E at \in Periods : \E anew \in BOOLEAN : BuildAggregateDies(r, anew, at)) => <1>6!1
    BY DEF BuildAggregateDies, At
  <2> QED
    BY <1>6, <1>8, <2>1, <2>2, <2>3, <2>4, <2>5 DEF Die
<1> QED
  BY <1>1, <1>7, <1>8

LEMMA FlagsInit == Init => FlagsInv
<1> SUFFICES ASSUME Init PROVE FlagsInv
  OBVIOUS
<1>1. \A p \in Periods : entries[p] = 0 /\ mart[p] = Absent /\ flags[p] = Absent
  BY DEF Init, NoFigures
<1>2. \A p \in Periods : Window(p) \subseteq Periods
  BY DEF Window
<1>3. \A p \in Periods : Posted(Absent, p) = Postings(p)
  BY <1>1, <1>2 DEF Posted, Content, Postings, NoFact
<1>4. \A r \in Runs : ~At(r, "clear-affected")
  BY DEF Init, At
<1>5. torn.figures \subseteq torn.flags
  BY DEF Init
<1> QED
  BY <1>1, <1>3, <1>4, <1>5 DEF FlagsInv, Seen

\* What was right stays so, or is reached, when postings come with their mark.
LEMMA FlagsLoad ==
  ASSUME OneRange, Inv, FlagsInv, NEW r \in Runs,
         NEW P \in SUBSET Periods, NEW V \in SUBSET (Versions \ landed), Load(r, P, V)
  PROVE  FlagsInv'
<1>1. /\ entries' = [q \in Periods |-> entries[q] + (IF q \in P THEN 1 ELSE 0)]
      /\ owed'.periods = owed.periods \cup P
      /\ mart' = mart /\ flags' = flags /\ torn' = torn
      /\ Go(r, "recompute") /\ At(r, "load")
  BY DEF Load, Recorded, served
<1>2. OwedReach \subseteq OwedReach'
  <2>1. Closure(owed.periods, LastPeriod) \subseteq Closure(owed'.periods, LastPeriod)
    BY <1>1, ClosureGrows
  <2> QED
    BY <2>1 DEF OwedReach, Closure
<1>3. ASSUME NEW p \in Periods
      PROVE  Postings(p)' = Postings(p) \/ p \in OwedReach'
  <2>1. CASE Window(p) \cap P = {}
    <3>1. \A q \in Window(p) : q \in Periods /\ entries[q] \in Int
      BY WindowsAssumption DEF Window, Inv, TypeOK
    <3>2. \A q \in Window(p) : entries'[q] = entries[q]
      BY <1>1, <2>1, <3>1
    <3> QED
      BY <3>2 DEF Postings, Window
  <2>2. CASE Window(p) \cap P # {}
    <3>1. PICK q \in Window(p) : q \in P
      BY <2>2
    <3>2. p \in Closure(owed'.periods, LastPeriod)
      BY <1>1, <3>1, WindowReaches
    <3> QED
      BY <3>2 DEF OwedReach, Closure
  <2> QED
    BY <2>1, <2>2
<1>4. Seen(mart, OwedReach \cup torn.figures)' /\ Seen(flags, OwedReach \cup torn.flags)'
  BY <1>1, <1>2, <1>3 DEF FlagsInv, Seen, Posted, Content, Window
<1>5. \A s \in Runs : ~At(s, "clear-affected")'
  <2>1. \A s \in Runs : s # r => run'[s] = run[s]
    BY <1>1, GoRun DEF Inv
  <2>2. run'[r].step = "recompute"
    BY <1>1, GoRun DEF Inv
  <2>3. \A s \in Runs : s # r => At(s, "idle")
    BY <1>1 DEF Inv, OneRun, At
  <2> QED
    BY <2>1, <2>2, <2>3 DEF At
<1> QED
  BY <1>1, <1>4, <1>5 DEF FlagsInv

LEMMA FlagsPromote ==
  ASSUME Inv, FlagsInv, NEW r \in Runs, Promote(r), TypeOK'
  PROVE  FlagsInv'
<1>1. /\ TypeOK /\ entries' = entries /\ owed' = owed /\ flags' = flags
      /\ torn'.flags = torn.flags /\ torn'.figures \subseteq torn.figures
  BY DEF Promote, Inv, raw, TypeOK
<1>2. /\ \A p \in Periods : mart'[p] = Wanted(p) \/ p \in torn'.figures
  BY <1>1, PromotePublishes, JudgedBy DEF Sound, Promote, staging
<1>3. \A p \in Periods : Posted(Wanted(p), p) = Postings(p)
  BY <1>1, WantedSeen
<1>4. Seen(mart, torn.figures)'
  BY <1>1, <1>2, <1>3 DEF Seen, Posted, Content, Postings
<1>5. Seen(mart, OwedReach \cup torn.figures)' /\ Seen(flags, OwedReach \cup torn.flags)'
  BY <1>1, <1>4 DEF FlagsInv, Seen, Posted, Content, Postings, OwedReach
<1>6. \A s \in Runs : At(s, "clear-affected")' => At(s, "clear-affected")
  BY <1>1, ComesFromJudge DEF Work, Promote, Judge, At
<1>7. \A s \in Runs : At(s, "clear-affected")' => Seen(flags, torn.flags)'
  BY <1>1, <1>6 DEF FlagsInv, Seen, Posted, Content, Postings
<1> QED
  BY <1>1, <1>5, <1>7 DEF FlagsInv

\* A judgement covers every period that is reached, on figures that are right but for
\* what is spoilt, and what is spoilt stays so.
LEMMA FlagsJudge ==
  ASSUME OneRange, Inv, FlagsInv, NEW r \in Runs, Judge(r)
  PROVE  FlagsInv'
<1>1. /\ TypeOK /\ Sound(mart) /\ run[r].range = Periods
      /\ entries' = entries /\ owed' = owed /\ mart' = mart
      /\ flags' = [p \in Periods |-> IF p \in ToJudge(r) THEN mart[p] ELSE flags[p]]
  BY DEF Judge, Inv, Stage, OneRun, At, raw, ReplacePeriods
<1>2. /\ torn'.figures = torn.figures
      /\ torn'.flags = torn.flags \ (ToJudge(r) \ torn.figures)
  BY <1>1 DEF Judge, TypeOK
<1>3. \A p \in OwedReach : p \in Periods => p \in ToJudge(r)
  BY <1>1, EndOfPeriods DEF ToJudge, OwedReach
<1>4. Seen(mart, torn.figures)
  BY <1>1, SoundSeen
<1>5. torn'.figures \subseteq torn'.flags
  BY <1>2 DEF FlagsInv
<1>6. ASSUME NEW p \in Periods
      PROVE  Posted(flags'[p], p) = Postings(p) \/ p \in torn'.flags
  <2>1. CASE p \in ToJudge(r)
    BY <1>1, <1>2, <1>4, <1>5, <2>1 DEF Seen
  <2>2. CASE p \notin ToJudge(r)
    BY <1>1, <1>2, <1>3, <2>2 DEF FlagsInv, Seen
  <2> QED
    BY <2>1, <2>2
<1>7. Seen(flags, torn.flags)'
  BY <1>1, <1>6 DEF Seen, Posted, Content, Postings
<1>8. Seen(flags, OwedReach \cup torn.flags)'
  BY <1>7 DEF Seen
<1>9. Seen(mart, OwedReach \cup torn.figures)'
  BY <1>1, <1>2, <1>4 DEF Seen, Posted, Content, Postings
<1> QED
  BY <1>5, <1>7, <1>8, <1>9 DEF FlagsInv

LEMMA FlagsCleared ==
  ASSUME Inv, FlagsInv, NEW r \in Runs, At(r, "clear-affected"),
         UNCHANGED <<entries, mart, flags, torn>>
  PROVE  FlagsInv'
<1>1. Seen(mart, torn.figures) /\ Seen(flags, torn.flags)
  BY SoundSeen DEF Inv, Stage, At, FlagsInv
<1>2. Seen(mart, torn.figures)' /\ Seen(flags, torn.flags)'
  BY <1>1 DEF Seen, Posted, Content, Postings
<1> QED
  BY <1>2 DEF Seen, FlagsInv

LEMMA FlagsStep == OneRange /\ Inv /\ FlagsInv /\ [Next]_vars => FlagsInv'
<1> SUFFICES ASSUME OneRange, Inv, FlagsInv, [Next]_vars PROVE FlagsInv'
  OBVIOUS
<1>1. CASE UNCHANGED vars
  BY <1>1 DEF vars, FlagsInv, Seen, Posted, Content, Postings, OwedReach, At
<1>2. ASSUME NEW r \in Runs, Start(r) \/ Work(r) \/ Die(r), ~Judge(r),
             UNCHANGED <<entries, owed, mart, flags>>, torn' = torn \/ \E S : Spoil(S)
      PROVE  FlagsInv'
  <2>1. /\ torn.figures \subseteq torn'.figures /\ torn.flags \subseteq torn'.flags
        /\ torn'.figures \subseteq torn'.flags
    BY <1>2 DEF Spoil, FlagsInv
  <2>2. Seen(mart, OwedReach \cup torn.figures)' /\ Seen(flags, OwedReach \cup torn.flags)'
    BY <1>2, <2>1 DEF FlagsInv, Seen, Posted, Content, Postings, OwedReach
  <2>3. \A s \in Runs : At(s, "clear-affected")' => Seen(flags, torn.flags)
    BY <1>2, ComesFromJudge DEF FlagsInv, Inv
  <2>4. \A s \in Runs : At(s, "clear-affected")' => Seen(flags, torn.flags)'
    BY <1>2, <2>1, <2>3 DEF Seen, Posted, Content, Postings
  <2> QED
    BY <2>1, <2>2, <2>4 DEF FlagsInv
<1>3. CASE Next
  <2>1. PICK r \in Runs : Start(r) \/ Work(r) \/ Die(r)
    BY <1>3 DEF Next
  <2>2. CASE Judge(r)
    BY <2>2, FlagsJudge
  <2>3. CASE Promote(r)
    BY <2>3, FlagsPromote, TypeStep DEF Inv
  <2>4. CASE ClearAffected(r) \/ ClearAffectedDies(r)
    BY <2>4, FlagsCleared DEF ClearAffected, ClearAffectedDies, raw, served
  <2>5. CASE \E P \in SUBSET Periods, V \in SUBSET (Versions \ landed) : Load(r, P, V)
    BY <2>5, FlagsLoad
  <2>6. CASE \/ Start(r) \/ Recompute(r) \/ BuildFacts(r) \/ MartLoad(r) \/ DbtBuild(r)
             \/ Fail(r) \/ MartLoadDies(r) \/ \E anew \in BOOLEAN : BuildAggregate(r, anew)
    <3>1. UNCHANGED <<entries, owed, mart, flags, torn>>
      BY <2>6 DEF Start, Recompute, BuildFacts, BuildAggregate, MartLoad, DbtBuild, Fail,
                  MartLoadDies, raw, served
    <3> QED
      BY <1>2, <2>1, <2>2, <3>1
  <2>7. CASE \E at \in Periods : \/ BuildFactsDies(r, at)
                                 \/ \E anew \in BOOLEAN : BuildAggregateDies(r, anew, at)
    <3>1. UNCHANGED <<entries, owed, mart, flags>> /\ \E S : Spoil(S)
      BY <2>7, Zenon DEF BuildFactsDies, BuildAggregateDies, raw, served
    <3> QED
      BY <1>2, <2>1, <2>2, <3>1
  <2> QED
    BY <2>1, <2>2, <2>3, <2>4, <2>5, <2>6, <2>7 DEF Work, Die
<1> QED
  BY <1>1, <1>3

\* With one run at a time, and every run over the whole reporting range, the flags of a
\* period were decided on the postings it is published with, or the period is owed, or a
\* death inside an overwrite spoilt it and it was not published whole and judged since,
\* for any windows, versions, loads, failures and retries.
THEOREM FlagsSeePostingsHolds == OneRange => (Spec => []FlagsSeePostings)
<1> SUFFICES ASSUME OneRange PROVE Spec => []FlagsSeePostings
  OBVIOUS
<1>1. Init => Inv /\ FlagsInv
  BY InitHolds, FlagsInit
<1>2. Inv /\ FlagsInv /\ [Next]_vars => (Inv /\ FlagsInv)'
  BY InvStep, FlagsStep
<1>3. Inv /\ FlagsInv => FlagsSeePostings
  BY DEF OneRange, FlagsInv, Seen, OwedReach, FlagsSeePostings
<1> QED
  BY <1>1, <1>2, <1>3, PTL DEF Spec
=============================================================================
