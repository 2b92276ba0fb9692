------------------------------ MODULE Landing ------------------------------
(***************************************************************************)
(* From staging to the mart, model by model (transform/load.py, with       *)
(* transform/backfill.py before it and dbt after it).  A recompute         *)
(* rewrites the staged models one after the other, mart-load lands each in *)
(* a transaction of its own, dbt reads each landed table in a statement of *)
(* its own, and the build schema becomes the mart if the gates are green.  *)
(* Between any two of these a step may die, or another run may go on; and  *)
(* a recompute may die inside the rewrite of a model.                      *)
(*                                                                         *)
(* The raw layer has a generation, the number of loads that changed it,    *)
(* and a table is the set of the generations that went into it: empty, it  *)
(* has no rows or is not there.  Every run has the whole reporting range,  *)
(* so a model rebuilt over what is owed is one of the present generation;  *)
(* that, partition by partition, is Pipeline.  How the build schema gets   *)
(* its place is Promotion.                                                 *)
(***************************************************************************)
EXTENDS Naturals, FiniteSets

CONSTANTS
  Dims,      \* the effective-dated dimensions, staged whole
  Facts,     \* the facts
  Agg,       \* the monthly aggregate
  Vendors,   \* the model that is landed from the raw layer
  Refs,      \* the models each model of the mart joins
  Keyed,     \* the models the relationships gates of each fact name
  AtOnce,    \* how many runs there may be at once
  MaxLoads,  \* bound: how often a load changes the raw layer
  MaxLosses  \* bound: deaths inside a write, or between a change and its mark

Staged == Dims \cup Facts \cup {Agg}
Models == Staged \cup {Vendors}
Runs == {"daily", "backfill"}
Steps == {"idle", "load", "recompute", "mart-load", "dbt-build", "clear-affected"}
Generations == 1 .. MaxLoads

ASSUME ModelsAssumption ==
  /\ Dims \cap Facts = {} /\ Agg \notin Dims \cup Facts /\ Vendors \notin Staged
  /\ Facts # {} /\ Dims # {}
  /\ Refs \in [Models -> SUBSET Models] /\ Keyed \in [Facts -> SUBSET Models]
ASSUME BoundsAssumption == AtOnce \in Nat /\ MaxLoads \in Nat /\ MaxLosses \in Nat

VARIABLES
  raw,       \* the generation of the raw layer
  affected,  \* whether the affected set names anything
  staging, landing, mart,
  build,     \* each run's build schema
  step,      \* the step each run is at
  done,      \* the models that step has dealt with
  crowded,   \* history: the runs that have not been the only one throughout
  sound,     \* history: no two runs have met, and no death has lost staged rows or the
             \* mark of a change, since the start or since a backfill that was the only
             \* run was published
  losses     \* the deaths inside a write, or between a change and its mark
landingVars == <<raw, affected, staging, landing, mart, build, step, done, crowded, sound,
                 losses>>
history == <<crowded, sound, losses>>

Tables == SUBSET Generations
Layer == [Models -> Tables]
NoTables == [m \in Models |-> {}]

LandingTypeOK ==
  /\ raw \in 0 .. MaxLoads /\ affected \in BOOLEAN
  /\ staging \in Layer /\ landing \in Layer /\ mart \in Layer
  /\ build \in [Runs -> Layer]
  /\ step \in [Runs -> Steps] /\ done \in [Runs -> SUBSET Models]
  /\ crowded \subseteq Runs /\ sound \in BOOLEAN /\ losses \in 0 .. MaxLosses

At(r, s) == step[r] = s
Active == {r \in Runs : ~At(r, "idle")}

\* Slip: a raw layer without rows is taken for one that has some.
AsOfAlways == {raw}

\* What is built from the raw layer as it is now.
AsOf == IF raw = 0 THEN {} ELSE {raw}

\* The tables in S are of one generation.
OneOf(t, S) == \E G \in Tables : Cardinality(G) <= 1 /\ \A m \in S : t[m] = G

LandingInit ==
  /\ raw = 0 /\ affected = FALSE
  /\ staging = NoTables /\ landing = NoTables /\ mart = NoTables
  /\ build = [r \in Runs |-> NoTables]
  /\ step = [r \in Runs |-> "idle"] /\ done = [r \in Runs |-> {}]
  /\ crowded = {} /\ sound = TRUE /\ losses = 0

-----------------------------------------------------------------------------
\* Slip: the set is cleared as soon as what it named is landed.
AfterClearFirst(s) ==
  CASE s = "load" -> "recompute" [] s = "recompute" -> "mart-load"
    [] s = "mart-load" -> "clear-affected" [] s = "clear-affected" -> "dbt-build"
    [] s = "dbt-build" -> "idle"

After(s) ==
  CASE s = "load" -> "recompute" [] s = "recompute" -> "mart-load"
    [] s = "mart-load" -> "dbt-build" [] s = "dbt-build" -> "clear-affected"
    [] s = "clear-affected" -> "idle"

\* A run comes to a step, which has done nothing yet.
Go(r, s) == step' = [step EXCEPT ![r] = s] /\ done' = [done EXCEPT ![r] = {}]

Did(r, m) == done' = [done EXCEPT ![r] = @ \cup {m}] /\ UNCHANGED step

\* Slip: a step that died counts as one that is over.
AfterDeathOnward(r) == {step[r], "idle", After(step[r])}

\* A step that dies is tried again, or the run is over.
AfterDeath(r) == {step[r], "idle"}

TryAgain(r) == \E s \in AfterDeath(r) : Go(r, s)

Start(r) ==
  /\ At(r, "idle") /\ Cardinality(Active) < AtOnce
  /\ Go(r, IF r = "daily" THEN "load" ELSE "recompute")
  /\ crowded' = IF Active = {} THEN {} ELSE Active \cup {r}
  /\ sound' = (sound /\ Active = {})
  /\ UNCHANGED <<raw, affected, staging, landing, mart, build, losses>>

\* What changed is in the affected set, even when the load dies after it.  A
\* change of the vendors alone is no generation: nothing staged is built from it.
Load(r, changed) ==
  /\ At(r, "load")
  /\ IF changed THEN raw < MaxLoads /\ raw' = raw + 1 /\ affected' = TRUE
                ELSE UNCHANGED <<raw, affected>>
  /\ Go(r, After("load")) \/ TryAgain(r)
  /\ UNCHANGED <<staging, landing, mart, build, history>>

Loss == losses < MaxLosses /\ losses' = losses + 1

\* The rows have changed, and the load dies before it marks them.
LoadDiesUnmarked(r) ==
  /\ At(r, "load") /\ raw < MaxLoads
  /\ Loss
  /\ raw' = raw + 1 /\ sound' = FALSE
  /\ TryAgain(r)
  /\ UNCHANGED <<affected, staging, landing, mart, build, crowded>>

-----------------------------------------------------------------------------
\* A dimension is built of the raw layer, entries are attributed against the dimensions
\* as they are staged, balances are computed from the staged facts and account types.
Rewritten(m) ==
  IF m \in Dims THEN AsOf
  ELSE IF m \in Facts THEN AsOf \cup UNION {staging[d] : d \in Dims}
  ELSE UNION {staging[n] : n \in Dims \cup Facts}

\* The dimensions are rebuilt first and always.
BuildDimension(r, d) ==
  /\ At(r, "recompute") /\ d \in Dims \ done[r]
  /\ staging' = [staging EXCEPT ![d] = Rewritten(d)]
  /\ Did(r, d)
  /\ UNCHANGED <<raw, affected, landing, mart, build, history>>

\* A daily run that owes nothing is done with it; a backfill forces its range.
NothingOwed(r) ==
  /\ At(r, "recompute") /\ done[r] = Dims
  /\ r = "daily" /\ ~affected
  /\ Go(r, After("recompute"))
  /\ UNCHANGED <<raw, affected, staging, landing, mart, build, history>>

BuildFact(r, f) ==
  /\ At(r, "recompute") /\ Dims \subseteq done[r] /\ f \in Facts \ done[r]
  /\ r = "daily" => affected \/ done[r] # Dims
  /\ staging' = [staging EXCEPT ![f] = Rewritten(f)]
  /\ Did(r, f)
  /\ UNCHANGED <<raw, affected, landing, mart, build, history>>

BuildAggregate(r) ==
  /\ At(r, "recompute") /\ done[r] = Dims \cup Facts
  /\ staging' = [staging EXCEPT ![Agg] = Rewritten(Agg)]
  /\ Go(r, After("recompute"))
  /\ UNCHANGED <<raw, affected, landing, mart, build, history>>

\* A death in the rewrite of a model.  A dimension is one directory, deleted first.  Of
\* the others some partitions are new, and the one in hand may have lost its rows.
RecomputeDies(r, m) ==
  /\ At(r, "recompute") /\ m \in Staged \ done[r]
  /\ Loss
  /\ m \notin Dims => Dims \subseteq done[r] /\ (r = "daily" => affected \/ done[r] # Dims)
  /\ m = Agg => Facts \subseteq done[r]
  /\ \/ m \in Dims /\ staging' = [staging EXCEPT ![m] = {}] /\ UNCHANGED sound
     \/ m \notin Dims /\ staging' = [staging EXCEPT ![m] = @ \cup Rewritten(m)] /\ UNCHANGED sound
     \/ /\ m \notin Dims /\ sound' = FALSE
        /\ \E left \in SUBSET (staging[m] \cup Rewritten(m)) :
              staging' = [staging EXCEPT ![m] = left]
  /\ TryAgain(r)
  /\ UNCHANGED <<raw, affected, landing, mart, build, crowded>>

-----------------------------------------------------------------------------
\* MODELS: the facts, the aggregate, the dimensions, and what comes from raw.
Earlier(m) == IF m = Vendors THEN Staged
              ELSE IF m \in Dims THEN Facts \cup {Agg}
              ELSE IF m = Agg THEN Facts ELSE {}

Source(m) == IF m = Vendors THEN AsOf ELSE staging[m]

\* One model, one transaction.  A model without a file has no schema to land,
\* and the step fails behind the models it has landed.
LoadModel(r, m) ==
  /\ At(r, "mart-load") /\ m \in Models \ done[r] /\ Earlier(m) \subseteq done[r]
  /\ Source(m) # {}
  /\ landing' = [landing EXCEPT ![m] = Source(m)]
  /\ Did(r, m)
  /\ UNCHANGED <<raw, affected, staging, mart, build, history>>

Landed(r) ==
  /\ At(r, "mart-load") /\ done[r] = Models
  /\ Go(r, After("mart-load"))
  /\ UNCHANGED <<raw, affected, staging, landing, mart, build, history>>

\* dbt builds a model when those it joins are there.
BuildModel(r, m) ==
  /\ At(r, "dbt-build") /\ m \in Models \ done[r] /\ Refs[m] \subseteq done[r]
  /\ landing[m] # {}
  /\ build' = [build EXCEPT ![r][m] = landing[m]]
  /\ Did(r, m)
  /\ UNCHANGED <<raw, affected, staging, landing, mart, history>>

\* The keys a fact was attributed with are those of its generations; loads add
\* keys.  That a load can take one away is left to Dimensions.
Resolves(t) == \A f \in Facts : \A d \in Keyed[f] : \A g \in t[f] : \E h \in t[d] : g <= h

Green(r) == Resolves(build[r])

\* The build schema has become the mart, or is never published: the next attempt
\* begins with an empty one.
Discard(r) == build' = [build EXCEPT ![r] = NoTables]

Publish(r) ==
  /\ At(r, "dbt-build") /\ done[r] = Models
  /\ Green(r)
  /\ mart' = build[r]
  /\ sound' = (sound \/ (r = "backfill" /\ r \notin crowded))
  /\ Discard(r)
  /\ Go(r, After("dbt-build")) \/ TryAgain(r)
  /\ UNCHANGED <<raw, affected, staging, landing, crowded, losses>>

ClearAffected(r) ==
  /\ At(r, "clear-affected")
  /\ affected' = FALSE
  /\ Go(r, After("clear-affected")) \/ TryAgain(r)
  /\ UNCHANGED <<raw, staging, landing, mart, build, history>>

\* A red gate, a model without a file, a kill.
Die(r) ==
  /\ ~At(r, "idle")
  /\ TryAgain(r)
  /\ Discard(r)
  /\ UNCHANGED <<raw, affected, staging, landing, mart, history>>

Work(r) ==
  \/ \E changed \in BOOLEAN : Load(r, changed)
  \/ \E d \in Dims : BuildDimension(r, d)
  \/ NothingOwed(r)
  \/ \E f \in Facts : BuildFact(r, f)
  \/ BuildAggregate(r)
  \/ \E m \in Models : LoadModel(r, m)
  \/ Landed(r)
  \/ \E m \in Models : BuildModel(r, m)
  \/ Publish(r)
  \/ ClearAffected(r)

Dies(r) == Die(r) \/ LoadDiesUnmarked(r) \/ \E m \in Staged : RecomputeDies(r, m)

LandingNext == \E r \in Runs : Start(r) \/ Work(r) \/ Dies(r)

LandingSpec == LandingInit /\ [][LandingNext]_landingVars

-----------------------------------------------------------------------------
\* What is published is of one generation in every model: the balances are those
\* of the very postings beside them, attributed and named by the very dimensions
\* beside them, however many recomputes and loads of the landing schema died between
\* two of their writes.  After two runs have met, or a death inside a write or before a
\* mark, so it is again from the next backfill on that was published without another.
OneGeneration == sound => OneOf(mart, Models)

\* As long as anything in any model of the mart differs from the raw layer, the
\* affected set names something: a later run comes back to it.  What two runs that
\* met took from each other, and what a death took from staging or from the set, is
\* made good by a backfill without another run.
PublishedOrOwed == sound => affected \/ \A m \in Models : mart[m] = AsOf
=============================================================================
