------------------------------ MODULE MartProofs ------------------------------
(***************************************************************************)
(* What the mart is made of.                                               *)
(*                                                                         *)
(* Landing: for any models, joins, gates, loads, deaths and runs at once,  *)
(* the tables of the mart are of one generation, and of the raw layer's or *)
(* owed.  Two runs that meet, a death inside the rewrite of a model and    *)
(* one before a mark may end that; the next backfill that is published     *)
(* without another run restores it.                                        *)
(*                                                                         *)
(* Balances, the aggregate among them: whatever the lags, the span and the *)
(* combinations, a finished build leaves a dense grid and the figures a    *)
(* rewrite of everything would have left, although it writes the           *)
(* partitions of a closure only and earlier builds were killed, between    *)
(* two partitions or inside one.                                           *)
(***************************************************************************)
EXTENDS Landing, Balances, FiniteSetTheorems, TLAPS

LEMMA AsOfType == ASSUME LandingTypeOK PROVE AsOf \in Tables
BY BoundsAssumption DEF LandingTypeOK, AsOf, Tables, Generations

LEMMA GoType ==
  ASSUME LandingTypeOK, NEW r \in Runs, NEW s \in Steps, Go(r, s)
  PROVE  step' \in [Runs -> Steps] /\ done' \in [Runs -> SUBSET Models]
BY DEF LandingTypeOK, Go

LEMMA TryAgainType ==
  ASSUME LandingTypeOK, NEW r \in Runs, TryAgain(r)
  PROVE  step' \in [Runs -> Steps] /\ done' \in [Runs -> SUBSET Models]
<1>1. PICK s \in AfterDeath(r) : Go(r, s)
  BY DEF TryAgain
<1>2. s \in Steps
  BY DEF AfterDeath, LandingTypeOK, Steps
<1> QED
  BY <1>1, <1>2, GoType

LEMMA DidType ==
  ASSUME LandingTypeOK, NEW r \in Runs, NEW m \in Models, Did(r, m)
  PROVE  step' \in [Runs -> Steps] /\ done' \in [Runs -> SUBSET Models]
BY DEF LandingTypeOK, Did

LEMMA AfterType ==
  ASSUME NEW s \in Steps, s # "idle"
  PROVE  After(s) \in Steps
BY DEF After, Steps

LEMMA Parts ==
  /\ Dims \subseteq Staged /\ Facts \subseteq Staged /\ Agg \in Staged
  /\ Staged \subseteq Models /\ Vendors \in Models
  /\ Models = Staged \cup {Vendors}
  /\ Agg \notin Dims \cup Facts /\ Dims \cap Facts = {}
BY ModelsAssumption DEF Staged, Models

LEMMA NothingType == NoTables \in Layer
BY DEF NoTables, Layer, Tables

LEMMA DiscardType ==
  ASSUME LandingTypeOK, NEW r \in Runs, Discard(r)
  PROVE  build' \in [Runs -> Layer]
BY NothingType DEF LandingTypeOK, Discard

\* What is kept of the runs that met.
LEMMA HistoryType ==
  ASSUME LandingTypeOK, NEW r \in Runs, Start(r) \/ Work(r) \/ Dies(r)
  PROVE  crowded' \subseteq Runs /\ sound' \in BOOLEAN /\ losses' \in 0 .. MaxLosses
<1>1. CASE Start(r)
  <2>1. Active \subseteq Runs
    BY DEF Active
  <2> QED
    BY <1>1, <2>1 DEF Start, LandingTypeOK
<1>2. CASE Die(r)
  BY <1>2 DEF Die, history, LandingTypeOK
<1>3. CASE Publish(r)
  BY <1>3 DEF Publish, LandingTypeOK
<1>4. CASE Work(r) /\ ~Publish(r)
  BY <1>4 DEF Work, Load, BuildDimension, NothingOwed, BuildFact, BuildAggregate, LoadModel,
              Landed, BuildModel, ClearAffected, history, LandingTypeOK
<1>5. Loss => losses' \in 0 .. MaxLosses
  BY BoundsAssumption DEF Loss, LandingTypeOK
<1>6. CASE LoadDiesUnmarked(r)
  BY <1>5, <1>6 DEF LoadDiesUnmarked, LandingTypeOK
<1>7. CASE \E m \in Staged : RecomputeDies(r, m)
  BY <1>5, <1>7 DEF RecomputeDies, LandingTypeOK
<1> QED
  BY <1>1, <1>2, <1>3, <1>4, <1>6, <1>7 DEF Dies

\* What a rewrite makes of a model is a table.
LEMMA RewrittenType ==
  ASSUME LandingTypeOK, NEW m \in Staged
  PROVE  Rewritten(m) \in Tables
<1>1. \A n \in Dims \cup Facts : staging[n] \in Tables
  BY Parts DEF LandingTypeOK, Layer
<1>2. UNION {staging[d] : d \in Dims} \in Tables
  BY <1>1 DEF Tables
<1>3. UNION {staging[n] : n \in Dims \cup Facts} \in Tables
  BY <1>1 DEF Tables
<1>4. AsOf \cup UNION {staging[d] : d \in Dims} \in Tables
  BY <1>2, AsOfType DEF Tables
<1> QED
  BY <1>3, <1>4, AsOfType DEF Rewritten

LEMMA LandingTypeStep ==
  ASSUME LandingTypeOK, NEW r \in Runs, Start(r) \/ Work(r) \/ Dies(r)
  PROVE  LandingTypeOK'
<1>0. crowded' \subseteq Runs /\ sound' \in BOOLEAN /\ losses' \in 0 .. MaxLosses
  BY HistoryType
<1> USE <1>0, Parts, AsOfType, NothingType
<1>1. CASE Start(r)
  <2>1. step' \in [Runs -> Steps] /\ done' \in [Runs -> SUBSET Models]
    <3>1. (IF r = "daily" THEN "load" ELSE "recompute") \in Steps
      BY DEF Steps
    <3> QED
      BY <1>1, <3>1, GoType DEF Start
  <2> QED
    BY <1>1, <2>1 DEF Start, LandingTypeOK
<1>2. CASE Die(r)
  <2>1. step' \in [Runs -> Steps] /\ done' \in [Runs -> SUBSET Models]
    BY <1>2, TryAgainType DEF Die
  <2> QED
    BY <1>2, <2>1, DiscardType DEF Die, LandingTypeOK
<1>3. ASSUME NEW changed \in BOOLEAN, Load(r, changed) PROVE LandingTypeOK'
  <2>1. step' \in [Runs -> Steps] /\ done' \in [Runs -> SUBSET Models]
    <3>1. After("load") \in Steps
      BY AfterType DEF Steps
    <3> QED
      BY <1>3, <3>1, GoType, TryAgainType DEF Load
  <2>2. raw' \in 0 .. MaxLoads /\ affected' \in BOOLEAN
    <3>1. CASE changed
      BY <1>3, <3>1, BoundsAssumption DEF Load, LandingTypeOK
    <3>2. CASE ~changed
      BY <1>3, <3>2, Zenon DEF Load, LandingTypeOK
    <3> QED
      BY <3>1, <3>2
  <2> QED
    BY <1>3, <2>1, <2>2 DEF Load, LandingTypeOK
<1>4. ASSUME NEW d \in Dims, BuildDimension(r, d) PROVE LandingTypeOK'
  <2>1. step' \in [Runs -> Steps] /\ done' \in [Runs -> SUBSET Models]
    BY <1>4, DidType DEF BuildDimension
  <2>2. staging' \in Layer
    BY <1>4, RewrittenType DEF BuildDimension, LandingTypeOK, Layer
  <2> QED
    BY <1>4, <2>1, <2>2 DEF BuildDimension, LandingTypeOK
<1>5. CASE NothingOwed(r)
  <2>1. step' \in [Runs -> Steps] /\ done' \in [Runs -> SUBSET Models]
    BY <1>5, GoType, AfterType DEF NothingOwed, Steps
  <2> QED
    BY <1>5, <2>1 DEF NothingOwed, LandingTypeOK
<1>6. ASSUME NEW f \in Facts, BuildFact(r, f) PROVE LandingTypeOK'
  <2>1. step' \in [Runs -> Steps] /\ done' \in [Runs -> SUBSET Models]
    BY <1>6, DidType DEF BuildFact
  <2>2. staging' \in Layer
    BY <1>6, RewrittenType DEF BuildFact, LandingTypeOK, Layer
  <2> QED
    BY <1>6, <2>1, <2>2 DEF BuildFact, LandingTypeOK
<1>7. CASE BuildAggregate(r)
  <2>1. step' \in [Runs -> Steps] /\ done' \in [Runs -> SUBSET Models]
    BY <1>7, GoType, AfterType DEF BuildAggregate, Steps
  <2>2. staging' \in Layer
    BY <1>7, RewrittenType DEF BuildAggregate, LandingTypeOK, Layer
  <2> QED
    BY <1>7, <2>1, <2>2 DEF BuildAggregate, LandingTypeOK
<1>8. ASSUME NEW m \in Models, LoadModel(r, m) PROVE LandingTypeOK'
  <2>1. step' \in [Runs -> Steps] /\ done' \in [Runs -> SUBSET Models]
    BY <1>8, DidType DEF LoadModel
  <2>2. landing' \in Layer
    BY <1>8 DEF LoadModel, Source, LandingTypeOK, Layer
  <2> QED
    BY <1>8, <2>1, <2>2 DEF LoadModel, LandingTypeOK
<1>9. CASE Landed(r)
  <2>1. step' \in [Runs -> Steps] /\ done' \in [Runs -> SUBSET Models]
    BY <1>9, GoType, AfterType DEF Landed, Steps
  <2> QED
    BY <1>9, <2>1 DEF Landed, LandingTypeOK
<1>10. ASSUME NEW m \in Models, BuildModel(r, m) PROVE LandingTypeOK'
  <2>1. step' \in [Runs -> Steps] /\ done' \in [Runs -> SUBSET Models]
    BY <1>10, DidType DEF BuildModel
  <2>2. landing[m] \in Tables /\ build[r] \in [Models -> Tables]
    BY DEF LandingTypeOK, Layer
  <2>3. [build[r] EXCEPT ![m] = landing[m]] \in Layer
    BY <2>2 DEF Layer
  <2>4. build' = [build EXCEPT ![r] = [build[r] EXCEPT ![m] = landing[m]]]
    BY <1>10 DEF BuildModel
  <2>5. build' \in [Runs -> Layer]
    BY <2>3, <2>4 DEF LandingTypeOK
  <2> QED
    BY <1>10, <2>1, <2>5 DEF BuildModel, LandingTypeOK
<1>11. CASE Publish(r)
  <2>1. step' \in [Runs -> Steps] /\ done' \in [Runs -> SUBSET Models]
    <3>1. After("dbt-build") \in Steps
      BY AfterType DEF Steps
    <3> QED
      BY <1>11, <3>1, GoType, TryAgainType DEF Publish
  <2> QED
    BY <1>11, <2>1, DiscardType DEF Publish, LandingTypeOK
<1>12. CASE ClearAffected(r)
  <2>1. step' \in [Runs -> Steps] /\ done' \in [Runs -> SUBSET Models]
    <3>1. After("clear-affected") \in Steps
      BY AfterType DEF Steps
    <3> QED
      BY <1>12, <3>1, GoType, TryAgainType DEF ClearAffected
  <2> QED
    BY <1>12, <2>1 DEF ClearAffected, LandingTypeOK
<1>13. CASE Work(r)
  <2>1. CASE \E changed \in BOOLEAN : Load(r, changed)
    BY <2>1, <1>3
  <2>2. CASE ~\E changed \in BOOLEAN : Load(r, changed)
    BY <1>13, <2>2, <1>4, <1>5, <1>6, <1>7, <1>8, <1>9, <1>10, <1>11, <1>12, Zenon DEF Work
  <2> QED
    BY <2>1, <2>2
<1>14. CASE LoadDiesUnmarked(r)
  <2>1. step' \in [Runs -> Steps] /\ done' \in [Runs -> SUBSET Models]
    BY <1>14, TryAgainType DEF LoadDiesUnmarked
  <2>2. raw' \in 0 .. MaxLoads
    BY <1>14, BoundsAssumption DEF LoadDiesUnmarked, LandingTypeOK
  <2> QED
    BY <1>14, <2>1, <2>2 DEF LoadDiesUnmarked, LandingTypeOK
<1>15. ASSUME NEW m \in Staged, RecomputeDies(r, m) PROVE LandingTypeOK'
  <2>1. step' \in [Runs -> Steps] /\ done' \in [Runs -> SUBSET Models]
    BY <1>15, TryAgainType DEF RecomputeDies
  <2>2. staging[m] \cup Rewritten(m) \in Tables
    BY RewrittenType DEF LandingTypeOK, Layer, Tables
  <2>3. PICK left \in Tables : staging' = [staging EXCEPT ![m] = left]
    <3>1. {} \in Tables /\ SUBSET (staging[m] \cup Rewritten(m)) \subseteq Tables
      BY <2>2 DEF Tables
    <3> QED
      BY <1>15, <2>2, <3>1 DEF RecomputeDies
  <2>4. staging' \in Layer
    BY <2>3 DEF LandingTypeOK, Layer
  <2> QED
    BY <1>15, <2>1, <2>4 DEF RecomputeDies, LandingTypeOK
<1> QED
  BY <1>1, <1>2, <1>13, <1>14, <1>15, Zenon DEF Dies

LEMMA LandingTypeInit == LandingInit => LandingTypeOK
<1> SUFFICES ASSUME LandingInit PROVE LandingTypeOK
  OBVIOUS
<1>1. NoTables \in Layer
  BY DEF NoTables, Layer, Tables
<1>2. raw \in 0 .. MaxLoads /\ losses \in 0 .. MaxLosses
  BY BoundsAssumption DEF LandingInit
<1>3. step \in [Runs -> Steps] /\ done \in [Runs -> SUBSET Models]
  BY DEF LandingInit, Steps
<1> QED
  BY <1>1, <1>2, <1>3 DEF LandingInit, LandingTypeOK

LEMMA LandingTypeNext == LandingTypeOK /\ [LandingNext]_landingVars => LandingTypeOK'
<1> SUFFICES ASSUME LandingTypeOK, [LandingNext]_landingVars PROVE LandingTypeOK'
  OBVIOUS
<1>1. CASE LandingNext
  BY <1>1, LandingTypeStep DEF LandingNext
<1>2. CASE UNCHANGED landingVars
  BY <1>2 DEF landingVars, LandingTypeOK
<1> QED
  BY <1>1, <1>2

\* Every variable stays in its type, whether runs meet or not: the code's layers only
\* ever hold tables of generations that were loaded.
THEOREM LandingTypeCorrect == LandingSpec => []LandingTypeOK
BY LandingTypeInit, LandingTypeNext, PTL DEF LandingSpec

-----------------------------------------------------------------------------
(***************************************************************************)
(* What a run may count on.  A run that has met no other, in a sound state *)
(* or as a backfill, finds behind it the layers of the raw layer as it is, *)
(* as far as its step has come: a daily run in a state that is not sound   *)
(* may pass over staged models that another run has left behind.           *)
(***************************************************************************)
Fresh(t, S) == \A m \in S : t[m] = AsOf

Behind(r) ==
  /\ At(r, "recompute") => Fresh(staging, done[r]) /\ done[r] \subseteq Dims \cup Facts
  /\ step[r] \in {"mart-load", "dbt-build", "clear-affected"} => Fresh(staging, Staged)
  /\ At(r, "mart-load") => Fresh(landing, done[r])
  /\ step[r] \in {"dbt-build", "clear-affected"} => Fresh(landing, Models)
  /\ At(r, "dbt-build") => Fresh(build[r], done[r])
  /\ At(r, "clear-affected") => Fresh(mart, Models)

Trusted(r) == r \notin crowded /\ (sound \/ r = "backfill")

\* While a run that has met no other is active, it is the only one.
Alone == \A r, s \in Runs : ~At(r, "idle") /\ r \notin crowded /\ r # s => At(s, "idle")

\* In a sound state no run that is active has met another.
Unmet == sound => \A r \in Active : r \notin crowded

LandingInv ==
  /\ LandingTypeOK /\ Alone /\ Unmet
  /\ \A r \in Runs : Trusted(r) => Behind(r)
  /\ sound => affected \/ Fresh(staging, Facts \cup {Agg})
  /\ OneGeneration /\ PublishedOrOwed

\* A step that begins has done nothing, and what it asks of the layers behind it.
LEMMA GoBehind ==
  ASSUME LandingTypeOK, NEW r \in Runs, NEW s \in Steps, Go(r, s),
         s \in {"mart-load", "dbt-build", "clear-affected"} => Fresh(staging, Staged)',
         s \in {"dbt-build", "clear-affected"} => Fresh(landing, Models)',
         s = "clear-affected" => Fresh(mart, Models)'
  PROVE  Behind(r)'
<1>1. step'[r] = s /\ done'[r] = {}
  BY DEF Go, LandingTypeOK
<1>2. Fresh(staging, done[r])' /\ Fresh(landing, done[r])' /\ Fresh(build[r], done[r])'
  BY <1>1 DEF Fresh
<1> QED
  BY <1>1, <1>2 DEF Behind, At

\* A step that dies while the layers keep what they are known to hold.
LEMMA TryAgainBehind ==
  ASSUME LandingTypeOK, NEW r \in Runs, TryAgain(r), Behind(r),
         raw' = raw, staging' = staging, landing' = landing,
         mart' = mart \/ ~At(r, "clear-affected")
  PROVE  Behind(r)'
<1>1. PICK s \in AfterDeath(r) : Go(r, s)
  BY DEF TryAgain
<1>2. s \in Steps /\ s \in {step[r], "idle"}
  BY DEF AfterDeath, LandingTypeOK, Steps
<1>3. AsOf' = AsOf
  BY DEF AsOf
<1>4. \A S : (Fresh(staging, S) => Fresh(staging, S)') /\ (Fresh(landing, S) => Fresh(landing, S)')
  BY <1>3 DEF Fresh
<1>5. s \in {"mart-load", "dbt-build", "clear-affected"} => Fresh(staging, Staged)'
  BY <1>2, <1>4 DEF Behind
<1>6. s \in {"dbt-build", "clear-affected"} => Fresh(landing, Models)'
  BY <1>2, <1>4 DEF Behind
<1>7. s = "clear-affected" => Fresh(mart, Models)'
  BY <1>2, <1>3 DEF Behind, At, Fresh
<1> QED
  BY <1>1, <1>2, <1>5, <1>6, <1>7, GoBehind

LEMMA FreshIsOne ==
  ASSUME LandingTypeOK, NEW t, Fresh(t, Models)
  PROVE  OneOf(t, Models)
<1>1. AsOf \in Tables /\ Cardinality(AsOf) <= 1
  <2>1. CASE raw = 0
    BY <2>1, AsOfType, FS_EmptySet DEF AsOf
  <2>2. CASE raw # 0
    <3>1. AsOf = {raw} /\ Cardinality({raw}) = 1
      BY <2>2, FS_Singleton DEF AsOf
    <3> QED
      BY <3>1, AsOfType
  <2> QED
    BY <2>1, <2>2
<1> QED
  BY <1>1 DEF Fresh, OneOf

\* What is built from tables of the raw layer as it is, is of it.
LEMMA UnionFresh ==
  ASSUME NEW t, NEW S, S # {}, Fresh(t, S)
  PROVE  UNION {t[m] : m \in S} = AsOf
<1>1. \A m \in S : t[m] = AsOf
  BY DEF Fresh
<1>2. {t[m] : m \in S} = {AsOf}
  BY <1>1
<1> QED
  BY <1>2

-----------------------------------------------------------------------------
(***************************************************************************)
(* A step of a run leaves the others where they are and what is kept of    *)
(* who met whom, except for a backfill that is published.                  *)
(***************************************************************************)
LEMMA StepsOf ==
  ASSUME LandingTypeOK, NEW r \in Runs, Work(r) \/ Dies(r)
  PROVE  /\ ~At(r, "idle") /\ crowded' = crowded
         /\ sound' => sound \/ (r = "backfill" /\ r \notin crowded)
         /\ \A s \in Runs \ {r} : step'[s] = step[s]
<1>1. \A s : Go(r, s) => \A q \in Runs \ {r} : step'[q] = step[q]
  BY DEF Go, LandingTypeOK
<1>2. TryAgain(r) => \A q \in Runs \ {r} : step'[q] = step[q]
  BY <1>1 DEF TryAgain
<1>3. \A m : Did(r, m) => \A q \in Runs \ {r} : step'[q] = step[q]
  BY DEF Did
<1>4. CASE Publish(r)
  BY <1>1, <1>2, <1>4 DEF Publish, At
<1>5. CASE Die(r) /\ ~Publish(r)
  BY <1>2, <1>5 DEF Die, history, At
<1>6. CASE Work(r) /\ ~Publish(r)
  <2>1. CASE \E changed \in BOOLEAN : Load(r, changed)
    BY <1>1, <1>2, <1>6, <2>1 DEF Load, history, At
  <2>2. CASE ~\E changed \in BOOLEAN : Load(r, changed)
    BY <1>1, <1>2, <1>3, <1>6, <2>2
       DEF Work, BuildDimension, NothingOwed, BuildFact, BuildAggregate, LoadModel,
           Landed, BuildModel, ClearAffected, history, At
  <2> QED
    BY <2>1, <2>2
<1>7. CASE LoadDiesUnmarked(r)
  BY <1>2, <1>7 DEF LoadDiesUnmarked, At
<1>8. CASE \E m \in Staged : RecomputeDies(r, m)
  BY <1>2, <1>8 DEF RecomputeDies, At
<1> QED
  BY <1>4, <1>5, <1>6, <1>7, <1>8 DEF Dies

Known == Alone /\ Unmet /\ \A q \in Runs : Trusted(q) => Behind(q)

\* A trusted run is the only active one, and the others ask nothing of the layers.
LEMMA TrustedMoves ==
  ASSUME LandingInv, NEW r \in Runs, Trusted(r), Work(r) \/ Dies(r), Behind(r)'
  PROVE  Known'
<1>1. ~At(r, "idle") /\ crowded' = crowded /\ \A s \in Runs \ {r} : step'[s] = step[s]
  BY StepsOf DEF LandingInv
<1>2. r \notin crowded /\ \A s \in Runs \ {r} : At(s, "idle")'
  BY <1>1 DEF LandingInv, Alone, Trusted, At
<1>3. Alone' /\ Unmet'
  BY <1>1, <1>2 DEF Alone, Unmet, Active, At
<1>4. \A s \in Runs \ {r} : Behind(s)'
  BY <1>2 DEF Behind, At
<1> QED
  BY <1>3, <1>4 DEF Known

\* A run that is not to be trusted moves in a state that is not sound, beside no
\* trusted one, and leaves it so.
LEMMA UntrustedMoves ==
  ASSUME LandingInv, NEW r \in Runs, ~Trusted(r), Work(r) \/ Dies(r)
  PROVE  LandingInv'
<1>1. ~At(r, "idle") /\ crowded' = crowded /\ \A s \in Runs \ {r} : step'[s] = step[s]
  BY StepsOf DEF LandingInv
<1>2. ~sound
  BY <1>1 DEF LandingInv, Unmet, Active, Trusted
<1>3. ~sound'
  BY <1>2, StepsOf DEF LandingInv, Trusted
<1>4. LandingTypeOK'
  BY LandingTypeStep DEF LandingInv
<1>5. ASSUME NEW q \in Runs \ {r}
      PROVE  At(q, "idle")' \/ q \in crowded'
  BY <1>1 DEF LandingInv, Alone, At
<1>6. Alone'
  BY <1>1, <1>5 DEF LandingInv, Alone, At
<1>7. \A q \in Runs : Trusted(q)' => Behind(q)'
  <2> SUFFICES ASSUME NEW q \in Runs, Trusted(q)' PROVE Behind(q)'
    OBVIOUS
  <2>1. q # r
    BY <1>1, <1>2, <1>3 DEF Trusted
  <2>2. At(q, "idle")'
    BY <1>5, <2>1 DEF Trusted
  <2> QED
    BY <2>2 DEF Behind, At
<1> QED
  BY <1>3, <1>4, <1>6, <1>7 DEF LandingInv, Unmet, OneGeneration, PublishedOrOwed

LEMMA StartKeeps ==
  ASSUME LandingInv, NEW r \in Runs, Start(r)
  PROVE  LandingInv'
<1>1. LandingTypeOK'
  BY LandingTypeStep DEF LandingInv
<1>2. PICK s \in {"load", "recompute"} : Go(r, s)
  BY DEF Start
<1>3. step'[r] = s /\ done'[r] = {} /\ \A q \in Runs \ {r} : step'[q] = step[q]
  BY <1>2 DEF Go, LandingInv, LandingTypeOK
<1>4. /\ UNCHANGED <<raw, affected, staging, landing, mart>> /\ AsOf' = AsOf
      /\ crowded' = IF Active = {} THEN {} ELSE Active \cup {r}
      /\ sound' = (sound /\ Active = {})
  BY DEF Start, AsOf
<1>5. Behind(r)'
  BY <1>2, GoBehind DEF LandingInv, Steps
<1>6. \A q \in Runs \ {r} : At(q, "idle")' \/ q \in Active
  BY <1>3 DEF At, Active
<1>7. CASE Active = {}
  <2>1. \A q \in Runs \ {r} : At(q, "idle")'
    BY <1>6, <1>7
  <2>2. crowded' = {}
    BY <1>4, <1>7
  <2>3. Alone' /\ Unmet' /\ \A q \in Runs \ {r} : Behind(q)'
    BY <2>1, <2>2 DEF Alone, Unmet, Behind, At
  <2>4. sound' = sound
    BY <1>4, <1>7 DEF LandingInv, LandingTypeOK
  <2> QED
    BY <1>1, <1>4, <1>5, <2>3, <2>4
       DEF LandingInv, Fresh, OneGeneration, OneOf, PublishedOrOwed
<1>8. CASE Active # {}
  <2>1. ~sound' /\ \A q \in Runs : At(q, "idle")' \/ q \in crowded'
    BY <1>4, <1>6, <1>8
  <2>2. Alone' /\ Unmet'
    BY <2>1 DEF Alone, Unmet
  <2>3. \A q \in Runs : Trusted(q)' => Behind(q)'
    BY <2>1 DEF Trusted, Behind, At
  <2> QED
    BY <1>1, <2>1, <2>2, <2>3 DEF LandingInv, OneGeneration, PublishedOrOwed
<1> QED
  BY <1>7, <1>8

-----------------------------------------------------------------------------
(***************************************************************************)
(* The steps of a trusted run.                                             *)
(***************************************************************************)

\* A step that leaves the raw layer, staging, the set and the mart as they are.
LEMMA LaterInv ==
  ASSUME LandingInv, NEW r \in Runs, Trusted(r), Work(r) \/ Dies(r), sound' = sound,
         UNCHANGED <<raw, affected, staging, mart>>, Behind(r)'
  PROVE  LandingInv'
<1>1. LandingTypeOK' /\ Known'
  BY LandingTypeStep, TrustedMoves DEF LandingInv
<1>2. AsOf' = AsOf
  BY DEF AsOf
<1> QED
  BY <1>1, <1>2 DEF LandingInv, Known, Fresh, OneGeneration, OneOf, PublishedOrOwed

\* A death inside a write, or before the mark, leaves a state that is not sound.
LEMMA LossKeeps ==
  ASSUME LandingInv, NEW r \in Runs, Trusted(r), Dies(r), ~sound', Behind(r)'
  PROVE  LandingInv'
<1>1. LandingTypeOK' /\ Known'
  BY LandingTypeStep, TrustedMoves DEF LandingInv
<1> QED
  BY <1>1 DEF LandingInv, Known, OneGeneration, PublishedOrOwed

LEMMA LoadDiesKeeps ==
  ASSUME LandingInv, NEW r \in Runs, Trusted(r), LoadDiesUnmarked(r)
  PROVE  LandingInv'
<1>1. ~sound' /\ TryAgain(r) /\ At(r, "load") /\ Dies(r)
  BY DEF LoadDiesUnmarked, Dies
<1>2. PICK s \in {"load", "idle"} : Go(r, s)
  BY <1>1 DEF TryAgain, AfterDeath, At
<1>3. Behind(r)'
  BY <1>2, GoBehind DEF LandingInv, Steps
<1> QED
  BY <1>1, <1>3, LossKeeps

\* A death between two partitions, or in a dimension, is made good by whoever rebuilds
\* staging next: the set still names what was being rewritten, or it was of the raw layer
\* already, and the dimensions come first.
LEMMA RecomputeDiesKeeps ==
  ASSUME LandingInv, NEW r \in Runs, Trusted(r), NEW m \in Staged, RecomputeDies(r, m)
  PROVE  LandingInv'
<1>1. /\ TryAgain(r) /\ At(r, "recompute") /\ Dies(r)
      /\ UNCHANGED <<raw, affected, landing, mart>>
      /\ AsOf' = AsOf
  BY DEF RecomputeDies, Dies, AsOf
<1>2. PICK s \in {"recompute", "idle"} : Go(r, s)
  BY <1>1 DEF TryAgain, AfterDeath, At
<1>3. Behind(r)'
  BY <1>2, GoBehind DEF LandingInv, Steps
<1>4. LandingTypeOK' /\ Known'
  BY <1>1, <1>3, LandingTypeStep, TrustedMoves DEF LandingInv
<1>5. ASSUME sound' PROVE sound /\ (affected \/ Fresh(staging, Facts \cup {Agg})')
  <2>1. /\ sound
        /\ \/ m \in Dims /\ staging' = [staging EXCEPT ![m] = {}]
           \/ m \notin Dims /\ staging' = [staging EXCEPT ![m] = staging[m] \cup Rewritten(m)]
    BY <1>5 DEF RecomputeDies
  <2> SUFFICES ASSUME ~affected PROVE Fresh(staging, Facts \cup {Agg})'
    BY <2>1
  <2>2. Fresh(staging, Facts \cup {Agg})
    BY <2>1 DEF LandingInv
  <2>3. CASE m \in Dims
    BY <2>1, <2>2, <2>3, <1>1, Parts DEF Fresh, LandingInv, LandingTypeOK, Layer
  <2>4. CASE m \notin Dims
    <3>1. Fresh(staging, Dims)
      BY <1>1, <2>4 DEF RecomputeDies, LandingInv, Behind, Fresh
    <3>2. m \in Facts \cup {Agg} /\ staging[m] = AsOf
      BY <2>2, <2>4 DEF Fresh, Staged
    <3>3. Rewritten(m) = AsOf
      <4>1. UNION {staging[d] : d \in Dims} = AsOf
        BY <3>1, UnionFresh, ModelsAssumption
      <4>2. Fresh(staging, Dims \cup Facts)
        BY <2>2, <3>1 DEF Fresh
      <4>3. UNION {staging[n] : n \in Dims \cup Facts} = AsOf
        BY <4>2, UnionFresh, ModelsAssumption
      <4> QED
        BY <2>4, <4>1, <4>3 DEF Rewritten
    <3>4. staging' = [staging EXCEPT ![m] = AsOf]
      BY <2>1, <2>4, <3>2, <3>3
    <3> QED
      BY <2>2, <3>2, <3>4, <1>1, Parts DEF Fresh, LandingInv, LandingTypeOK, Layer
  <2> QED
    BY <2>3, <2>4
<1> QED
  BY <1>1, <1>4, <1>5 DEF LandingInv, Known, OneGeneration, OneOf, PublishedOrOwed

LEMMA DieKeeps ==
  ASSUME LandingInv, NEW r \in Runs, Trusted(r), Die(r)
  PROVE  LandingInv'
<1>1. UNCHANGED <<raw, affected, staging, landing, mart, sound>> /\ TryAgain(r)
  BY DEF Die, history
<1>2. Behind(r)'
  BY <1>1, TryAgainBehind DEF LandingInv
<1> QED
  BY <1>1, <1>2, LaterInv DEF Dies

\* A load leaves what it changed owed.
LEMMA LoadKeeps ==
  ASSUME LandingInv, NEW r \in Runs, Trusted(r), NEW changed \in BOOLEAN, Load(r, changed)
  PROVE  LandingInv'
<1>0. Work(r)
  BY DEF Work
<1>1. /\ mart' = mart /\ staging' = staging /\ sound' = sound /\ At(r, "load")
  BY DEF Load, history
<1>2. sound => affected' \/ (Fresh(staging, Facts \cup {Agg})' /\ (\A m \in Models : mart[m] = AsOf)')
  <2>1. CASE changed
    BY <2>1 DEF Load
  <2>2. CASE ~changed
    <3>1. affected' = affected /\ raw' = raw
      BY <2>2, Zenon DEF Load
    <3> QED
      BY <1>1, <3>1 DEF LandingInv, PublishedOrOwed, Fresh, AsOf
  <2> QED
    BY <2>1, <2>2
<1>3. Behind(r)'
  <2>1. PICK s \in {"load", "recompute", "idle"} : Go(r, s)
    BY <1>1 DEF Load, TryAgain, AfterDeath, After, At
  <2> QED
    BY <2>1, GoBehind DEF LandingInv, Steps
<1>4. LandingTypeOK' /\ Known'
  BY <1>0, <1>3, LandingTypeStep, TrustedMoves DEF LandingInv
<1> QED
  BY <1>1, <1>2, <1>4 DEF LandingInv, Known, OneGeneration, OneOf, PublishedOrOwed

\* A recompute rewrites a table with what the raw layer is now.
LEMMA StagingInv ==
  ASSUME LandingInv, NEW r \in Runs, Trusted(r), Work(r), At(r, "recompute"),
         NEW m \in Dims \cup Facts,
         staging' = [staging EXCEPT ![m] = AsOf], Did(r, m),
         UNCHANGED <<raw, affected, mart, sound>>
  PROVE  LandingInv'
<1>1. AsOf' = AsOf /\ m \in Models
  BY Parts DEF AsOf
<1>2. \A S \in SUBSET Models : Fresh(staging, S) => Fresh(staging, S \cup {m})'
  BY <1>1 DEF Fresh, LandingInv, LandingTypeOK, Layer
<1>3. Fresh(staging, Facts \cup {Agg}) => Fresh(staging, Facts \cup {Agg})'
  BY <1>1, Parts DEF Fresh, LandingInv, LandingTypeOK, Layer
<1>4. Behind(r)'
  <2>1. step'[r] = "recompute" /\ done'[r] = done[r] \cup {m} /\ done[r] \in SUBSET Models
    BY DEF Did, At, LandingInv, LandingTypeOK
  <2>2. Fresh(staging, done[r])' /\ done'[r] \subseteq Dims \cup Facts
    BY <1>2, <2>1 DEF LandingInv, Behind, Fresh
  <2> QED
    BY <2>1, <2>2 DEF Behind, At
<1>5. LandingTypeOK' /\ Known'
  BY <1>4, LandingTypeStep, TrustedMoves DEF LandingInv
<1> QED
  BY <1>1, <1>3, <1>5 DEF LandingInv, Known, OneGeneration, OneOf, PublishedOrOwed

LEMMA RecomputeKeeps ==
  ASSUME LandingInv, NEW r \in Runs, Trusted(r),
         \/ \E d \in Dims : BuildDimension(r, d)
         \/ NothingOwed(r)
         \/ \E f \in Facts : BuildFact(r, f)
         \/ BuildAggregate(r)
  PROVE  LandingInv'
<1>0. At(r, "recompute") /\ Work(r) /\ UNCHANGED <<raw, affected, mart, sound>>
  BY DEF BuildDimension, NothingOwed, BuildFact, BuildAggregate, Work, history
<1>1. CASE \E d \in Dims : BuildDimension(r, d)
  <2>1. PICK d \in Dims : BuildDimension(r, d)
    BY <1>1
  <2> QED
    BY <1>0, <2>1, StagingInv DEF BuildDimension, Rewritten
<1>2. CASE NothingOwed(r)
  <2>1. Go(r, "mart-load") /\ ~affected /\ r = "daily" /\ staging' = staging /\ done[r] = Dims
    BY <1>2 DEF NothingOwed, After
  <2>2. Fresh(staging, Dims) /\ Fresh(staging, Facts \cup {Agg})
    BY <1>0, <2>1 DEF LandingInv, Trusted, Behind
  <2>3. Fresh(staging, Staged)'
    BY <1>0, <2>1, <2>2 DEF Fresh, AsOf, Staged
  <2>4. Behind(r)'
    BY <2>1, <2>3, GoBehind DEF LandingInv, Steps
  <2> QED
    BY <1>0, <2>1, <2>4, LaterInv
<1>3. CASE \E f \in Facts : BuildFact(r, f)
  <2>1. PICK f \in Facts : BuildFact(r, f)
    BY <1>3
  <2>2. Fresh(staging, Dims)
    BY <1>0, <2>1 DEF BuildFact, LandingInv, Behind, Fresh
  <2>3. UNION {staging[d] : d \in Dims} = AsOf
    BY <2>2, UnionFresh, ModelsAssumption
  <2>4. Rewritten(f) = AsOf
    BY <2>3, ModelsAssumption DEF Rewritten
  <2>5. staging' = [staging EXCEPT ![f] = AsOf]
    BY <2>1, <2>4 DEF BuildFact
  <2> QED
    BY <1>0, <2>1, <2>5, StagingInv DEF BuildFact
<1>4. CASE BuildAggregate(r)
  <2>1. Fresh(staging, Dims \cup Facts)
    BY <1>0, <1>4 DEF BuildAggregate, LandingInv, Behind
  <2>2. UNION {staging[m] : m \in Dims \cup Facts} = AsOf
    BY <2>1, UnionFresh, ModelsAssumption
  <2>3. staging' = [staging EXCEPT ![Agg] = AsOf]
    BY <1>4, <2>2, Parts DEF BuildAggregate, Rewritten
  <2>4. AsOf' = AsOf
    BY <1>0 DEF AsOf
  <2>5. Fresh(staging, Staged)'
    BY <2>1, <2>3, <2>4, Parts DEF Fresh, Staged, LandingInv, LandingTypeOK, Layer
  <2>6. Go(r, "mart-load")
    BY <1>4 DEF BuildAggregate, After
  <2>7. Behind(r)'
    BY <2>5, <2>6, GoBehind DEF LandingInv, Steps
  <2>8. LandingTypeOK' /\ Known'
    BY <1>0, <2>7, LandingTypeStep, TrustedMoves DEF LandingInv
  <2> QED
    BY <1>0, <2>4, <2>5, <2>8, Parts
       DEF LandingInv, Known, Fresh, OneGeneration, OneOf, PublishedOrOwed
<1> QED
  BY <1>1, <1>2, <1>3, <1>4

LEMMA LandKeeps ==
  ASSUME LandingInv, NEW r \in Runs, Trusted(r), (\E m \in Models : LoadModel(r, m)) \/ Landed(r)
  PROVE  LandingInv'
<1>0. At(r, "mart-load") /\ Work(r) /\ UNCHANGED <<raw, affected, staging, mart, sound>>
  BY DEF LoadModel, Landed, Work, history
<1>1. Fresh(staging, Staged) /\ Fresh(landing, done[r])
  BY <1>0 DEF LandingInv, Behind, At
<1>2. AsOf' = AsOf /\ Fresh(staging, Staged)'
  BY <1>0, <1>1 DEF AsOf, Fresh
<1>3. CASE \E m \in Models : LoadModel(r, m)
  <2>1. PICK m \in Models : LoadModel(r, m)
    BY <1>3
  <2>2. Source(m) = AsOf
    BY <1>1, Parts DEF Source, Fresh
  <2>3. step'[r] = "mart-load" /\ done'[r] = done[r] \cup {m} /\ done[r] \in SUBSET Models
    BY <1>0, <2>1 DEF LoadModel, Did, At, LandingInv, LandingTypeOK
  <2>4. Fresh(landing, done[r])'
    BY <1>1, <1>2, <2>1, <2>2, <2>3 DEF LoadModel, Fresh, LandingInv, LandingTypeOK, Layer
  <2>5. Behind(r)'
    BY <1>2, <2>3, <2>4 DEF Behind, At
  <2> QED
    BY <1>0, <2>5, LaterInv
<1>4. CASE Landed(r)
  <2>1. Go(r, "dbt-build")
    BY <1>4 DEF Landed, After
  <2>2. Fresh(landing, Models)'
    BY <1>1, <1>2, <1>4 DEF Landed, Fresh
  <2>3. Behind(r)'
    BY <1>2, <2>1, <2>2, GoBehind DEF LandingInv, Steps
  <2> QED
    BY <1>0, <2>3, LaterInv
<1> QED
  BY <1>3, <1>4

LEMMA BuildModelKeeps ==
  ASSUME LandingInv, NEW r \in Runs, Trusted(r), NEW m \in Models, BuildModel(r, m)
  PROVE  LandingInv'
<1>0. At(r, "dbt-build") /\ Work(r) /\ UNCHANGED <<raw, affected, staging, landing, mart, sound>>
  BY DEF BuildModel, Work, history
<1>1. Fresh(staging, Staged) /\ Fresh(landing, Models) /\ Fresh(build[r], done[r])
  BY <1>0 DEF LandingInv, Behind, At
<1>2. AsOf' = AsOf /\ Fresh(staging, Staged)' /\ Fresh(landing, Models)'
  BY <1>0, <1>1 DEF AsOf, Fresh
<1>3. step'[r] = "dbt-build" /\ done'[r] = done[r] \cup {m} /\ done[r] \in SUBSET Models
  BY <1>0 DEF BuildModel, Did, At, LandingInv, LandingTypeOK
<1>4. /\ build'[r] = [build[r] EXCEPT ![m] = landing[m]]
      /\ build[r] \in [Models -> Tables]
  BY DEF BuildModel, LandingInv, LandingTypeOK, Layer
<1>5. Fresh(build[r], done[r])'
  BY <1>1, <1>2, <1>3, <1>4 DEF Fresh
<1>6. Behind(r)'
  BY <1>2, <1>3, <1>5 DEF Behind, At
<1> QED
  BY <1>0, <1>6, LaterInv

LEMMA PublishKeeps ==
  ASSUME LandingInv, NEW r \in Runs, Trusted(r), Publish(r)
  PROVE  LandingInv'
<1>0. At(r, "dbt-build") /\ Work(r)
  BY DEF Publish, Work
<1>1. Fresh(staging, Staged) /\ Fresh(landing, Models) /\ Fresh(build[r], Models)
  BY <1>0 DEF Publish, LandingInv, Behind, At
<1>2. UNCHANGED <<raw, affected, staging, landing>> /\ mart' = build[r]
  BY DEF Publish
<1>3. AsOf' = AsOf /\ Fresh(staging, Staged)' /\ Fresh(landing, Models)' /\ Fresh(mart, Models)'
  BY <1>1, <1>2 DEF AsOf, Fresh
<1>4. Behind(r)'
  <2>1. CASE Go(r, After("dbt-build"))
    <3>1. Go(r, "clear-affected")
      BY <2>1 DEF After
    <3> QED
      BY <1>3, <3>1, GoBehind DEF LandingInv, Steps
  <2>2. CASE TryAgain(r)
    <3>1. ~At(r, "clear-affected")
      BY <1>0 DEF At
    <3> QED
      BY <1>2, <2>2, <3>1, TryAgainBehind DEF LandingInv
  <2> QED
    BY <2>1, <2>2 DEF Publish
<1>5. LandingTypeOK' /\ Known'
  BY <1>0, <1>4, LandingTypeStep, TrustedMoves DEF LandingInv
<1>6. OneOf(build[r], Models)
  BY <1>1, FreshIsOne DEF LandingInv
<1> QED
  BY <1>2, <1>3, <1>5, <1>6, Parts
     DEF LandingInv, Known, OneGeneration, OneOf, PublishedOrOwed, Fresh

\* What the set named is in the mart when it is cleared.
LEMMA ClearKeeps ==
  ASSUME LandingInv, NEW r \in Runs, Trusted(r), ClearAffected(r)
  PROVE  LandingInv'
<1>0. At(r, "clear-affected") /\ Work(r) /\ UNCHANGED <<raw, staging, landing, mart, sound>>
  BY DEF ClearAffected, Work, history
<1>1. Fresh(staging, Staged) /\ Fresh(landing, Models) /\ Fresh(mart, Models)
  BY <1>0 DEF LandingInv, Behind, At
<1>2. AsOf' = AsOf /\ Fresh(staging, Staged)' /\ Fresh(mart, Models)'
  BY <1>0, <1>1 DEF AsOf, Fresh
<1>3. Behind(r)'
  <2>1. CASE Go(r, After("clear-affected"))
    <3>1. Go(r, "idle")
      BY <2>1 DEF After
    <3> QED
      BY <3>1, GoBehind DEF LandingInv, Steps
  <2>2. CASE TryAgain(r)
    BY <1>0, <2>2, TryAgainBehind DEF LandingInv
  <2> QED
    BY <2>1, <2>2 DEF ClearAffected
<1>4. LandingTypeOK' /\ Known'
  BY <1>0, <1>3, LandingTypeStep, TrustedMoves DEF LandingInv
<1> QED
  BY <1>0, <1>2, <1>4, Parts
     DEF LandingInv, Known, PublishedOrOwed, Fresh, OneGeneration, OneOf

-----------------------------------------------------------------------------
LEMMA LandingInitially == LandingInit => LandingInv
<1> SUFFICES ASSUME LandingInit PROVE LandingInv
  OBVIOUS
<1>1. LandingTypeOK
  BY LandingTypeInit
<1>2. AsOf = {}
  BY DEF LandingInit, AsOf
<1>3. Fresh(staging, Staged) /\ Fresh(mart, Models)
  BY <1>2, Parts DEF LandingInit, NoTables, Fresh
<1>4. \A r \in Runs : At(r, "idle")
  BY DEF LandingInit, At
<1>5. Alone /\ Unmet /\ \A r \in Runs : Behind(r)
  BY <1>4 DEF Alone, Unmet, Active, Behind, At
<1>6. OneGeneration
  BY <1>1, <1>3, FreshIsOne DEF OneGeneration
<1> QED
  BY <1>1, <1>3, <1>5, <1>6, Parts DEF LandingInv, PublishedOrOwed, Fresh

LEMMA LandingNextKeeps == LandingInv /\ [LandingNext]_landingVars => LandingInv'
<1> SUFFICES ASSUME LandingInv, [LandingNext]_landingVars PROVE LandingInv'
  OBVIOUS
<1>1. ASSUME NEW r \in Runs, Trusted(r), Work(r) PROVE LandingInv'
  <2>1. CASE \E changed \in BOOLEAN : Load(r, changed)
    BY <1>1, <2>1, LoadKeeps
  <2>2. CASE ~\E changed \in BOOLEAN : Load(r, changed)
    BY <1>1, <2>2, RecomputeKeeps, LandKeeps, BuildModelKeeps, PublishKeeps, ClearKeeps, Zenon DEF Work
  <2> QED
    BY <2>1, <2>2
<1>2. CASE UNCHANGED landingVars
  BY <1>2 DEF landingVars, LandingInv, LandingTypeOK, Alone, Unmet, Active, Trusted, Behind, At,
              Fresh, AsOf, OneGeneration, OneOf, PublishedOrOwed
<1> QED
  BY <1>1, <1>2, StartKeeps, UntrustedMoves, DieKeeps, LoadDiesKeeps, RecomputeDiesKeeps
     DEF LandingNext, Dies

LEMMA LandingInvariance == LandingSpec => []LandingInv
BY LandingInitially, LandingNextKeeps, PTL DEF LandingSpec

\* The mart is of one generation in every model, whatever load of the landing schema or
\* build died, and however often, as long as no two runs have met and no death took
\* staged rows or the mark of a change; and for any models, joins and gates a backfill
\* that is published without another run makes it so again (transform/load.py, the DAGs).
THEOREM OneGenerationHolds == LandingSpec => []OneGeneration
<1>1. LandingInv => OneGeneration
  BY DEF LandingInv
<1> QED
  BY <1>1, LandingInvariance, PTL

\* A model of the mart that differs from the raw layer is owed, under the same
\* conditions: the set is not cleared before all that it named is published.
THEOREM PublishedOrOwedHolds == LandingSpec => []PublishedOrOwed
<1>1. LandingInv => PublishedOrOwed
  BY DEF LandingInv
<1> QED
  BY <1>1, LandingInvariance, PTL

\* Only a publication changes the mart, and one in a state that is sound, or that makes
\* it so, puts tables of the present raw layer in its place: nothing a run read before
\* the last load is published after it.
PublishedIsPresent ==
  [][mart' # mart /\ sound' => \A m \in Models : mart'[m] = AsOf']_landingVars

LEMMA PublishesPresent ==
  ASSUME LandingInv, [LandingNext]_landingVars, mart' # mart, sound'
  PROVE  \A m \in Models : mart'[m] = AsOf'
<1>1. PICK r \in Runs : Publish(r)
  <2>1. PICK r \in Runs : Start(r) \/ Work(r) \/ Dies(r)
    BY DEF LandingNext, landingVars
  <2>2. Start(r) \/ Dies(r) => mart' = mart
    BY DEF Start, Dies, Die, LoadDiesUnmarked, RecomputeDies
  <2>3. (\E changed \in BOOLEAN : Load(r, changed)) => mart' = mart
    BY DEF Load
  <2>4. Work(r) /\ ~Publish(r) => mart' = mart
    BY <2>3 DEF Work, BuildDimension, NothingOwed, BuildFact, BuildAggregate, LoadModel,
                Landed, BuildModel, ClearAffected
  <2> QED
    BY <2>1, <2>2, <2>4
<1>2. At(r, "dbt-build") /\ done[r] = Models /\ mart' = build[r] /\ raw' = raw
  BY <1>1 DEF Publish
<1>3. Trusted(r)
  <2>1. sound \/ (r = "backfill" /\ r \notin crowded)
    BY <1>1 DEF Publish
  <2>2. r \in Active
    BY <1>2 DEF Active, At
  <2> QED
    BY <2>1, <2>2 DEF Trusted, LandingInv, Unmet
<1>4. Fresh(build[r], Models)
  BY <1>2, <1>3 DEF LandingInv, Behind
<1> QED
  BY <1>2, <1>4 DEF Fresh, AsOf

\* What a build publishes is the raw layer as it is then, in every model (dbt.py,
\* transform/load.py): no load has come between the read and the publication.
THEOREM PublishedIsPresentHolds == LandingSpec => PublishedIsPresent
<1>1. LandingInv /\ [LandingNext]_landingVars
        => [mart' # mart /\ sound' => \A m \in Models : mart'[m] = AsOf']_landingVars
  BY PublishesPresent
<1> QED
  BY <1>1, LandingInvariance, PTL DEF LandingSpec, PublishedIsPresent

-----------------------------------------------------------------------------
(***************************************************************************)
(* Balances.                                                               *)
(***************************************************************************)
USE BalancesAssumption

(***************************************************************************)
(* Finite sets of integers have a greatest and a least element: a subset   *)
(* without one, least in the order of inclusion, would have it after all.  *)
(***************************************************************************)
LEMMA GreatestExists ==
  ASSUME NEW S \in SUBSET Int, IsFiniteSet(S), S # {}
  PROVE  Max(S) \in S /\ \A y \in S : Max(S) >= y
<1> DEFINE Has(U) == \E x \in U : \A y \in U : x >= y
           Without == {U \in SUBSET S : U # {} /\ ~Has(U)}
<1>1. SUFFICES Has(S)
  BY DEF Max
<1>2. SUFFICES ASSUME Without # {} PROVE FALSE
  OBVIOUS
<1>3. Without \subseteq FiniteSubsetsOf(S)
  BY FS_FiniteSubsetsOfFinite
<1>4. PICK U \in Without : \A V \in Without : <<V, U>> \notin StrictSubsetOrdering(S)
  <2> HIDE DEF Without
  <2> QED
    BY <1>2, <1>3, WFMin, FS_StrictSubsetOrderingWellFounded
<1>5. PICK x \in U : TRUE
  BY <1>4
<1> DEFINE V == U \ {x}
<1>6. V \in SUBSET S /\ V \subseteq U /\ V # U /\ U \in SUBSET S
  BY <1>4, <1>5
<1>7. V \notin Without
  <2> HIDE DEF Without, V
  <2> QED
    BY <1>4, <1>6 DEF StrictSubsetOrdering
<1>8. CASE V = {}
  <2>1. U = {x} /\ x \in Int
    BY <1>5, <1>6, <1>8
  <2>2. Has(U)
    BY <2>1
  <2> QED
    BY <2>2, <1>4
<1>9. CASE V # {}
  <2>1. PICK m \in V : \A y \in V : m >= y
    BY <1>6, <1>7, <1>9
  <2>2. x \in Int /\ m \in Int /\ V \subseteq Int
    BY <1>5, <1>6, <2>1
  <2>3. CASE m >= x
    <3>1. \A y \in U : m >= y
      BY <2>1, <2>3
    <3> QED
      BY <3>1, <2>1, <1>4, <1>6
  <2>4. CASE ~(m >= x)
    <3>1. \A y \in V : x >= y
      BY <2>1, <2>2, <2>4
    <3>2. \A y \in U : x >= y
      BY <3>1, <2>2
    <3> QED
      BY <3>2, <1>4, <1>5
  <2> QED
    BY <2>3, <2>4
<1> QED
  BY <1>8, <1>9

LEMMA LeastExists ==
  ASSUME NEW S \in SUBSET Int, IsFiniteSet(S), S # {}
  PROVE  Min(S) \in S /\ \A y \in S : Min(S) <= y
<1> DEFINE T == {-x : x \in S}
<1>1. T \in SUBSET Int /\ T # {}
  <2>1. \A x \in S : -x \in Int
    OBVIOUS
  <2>2. PICK x \in S : TRUE
    OBVIOUS
  <2>3. -x \in T
    BY <2>2
  <2> QED
    BY <2>1, <2>3
<1>2. IsFiniteSet(T)
  <2> DEFINE f == [x \in S |-> -x]
  <2>1. f \in [S -> T] /\ \A t \in T : \E x \in S : f[x] = t
    OBVIOUS
  <2>2. f \in Surjection(S, T)
    BY <2>1 DEF Surjection
  <2> HIDE DEF f, T
  <2> QED
    BY <2>2, FS_Surjection
<1>3. Max(T) \in T /\ \A y \in T : Max(T) >= y
  <2> HIDE DEF T
  <2> QED
    BY <1>1, <1>2, GreatestExists
<1>4. PICK x \in S : Max(T) = -x
  BY <1>3
<1>5. \A y \in S : x <= y
  <2> SUFFICES ASSUME NEW y \in S PROVE x <= y
    OBVIOUS
  <2>1. -y \in T /\ -x >= -y
    BY <1>3, <1>4
  <2> QED
    BY <2>1
<1> QED
  BY <1>5 DEF Min
-----------------------------------------------------------------------------
(***************************************************************************)
(* The ranges, the types and the figures.                                  *)
(***************************************************************************)
FactTypes ==
    /\ posted \in [Combos -> [Horizon -> Types \cup {Silent}]]
    /\ restated \in [Combos -> SUBSET Horizon]
    /\ last \in Ends

LEMMA Ranges ==
  /\ Max(Ends) \in Nat \ {0} /\ Horizon \subseteq Nat \ {0}
  /\ \A end \in Ends : end \in Nat \ {0} /\ 1 .. end \subseteq Horizon
  /\ last \in Ends => last \in Nat \ {0} /\ Periods \subseteq Horizon
<1>1. \E longest \in Ends : \A end \in Ends : longest >= end
  OBVIOUS
<1>2. Max(Ends) \in Ends /\ \A end \in Ends : Max(Ends) >= end
  BY <1>1 DEF Max
<1>3. Max(Ends) \in Nat \ {0} /\ \A end \in Ends : end \in Nat \ {0}
  BY <1>2
<1>4. Horizon \subseteq Nat \ {0}
  BY <1>3 DEF Horizon
<1>5. \A end \in Ends : 1 .. end \subseteq Horizon
  <2> SUFFICES ASSUME NEW end \in Ends, NEW q \in 1 .. end PROVE q \in 1 .. Max(Ends)
    BY DEF Horizon
  <2> DEFINE longest == Max(Ends)
  <2>1. longest \in Nat /\ end \in Nat /\ longest >= end
    BY <1>2, <1>3
  <2> HIDE DEF longest
  <2>2. q \in 1 .. longest
    BY <2>1
  <2> QED
    BY <2>2 DEF longest
<1> QED
  BY <1>3, <1>4, <1>5 DEF Periods

LEMMA TypeOfIsAType ==
  ASSUME FactTypes, NEW c \in Combos, NEW p \in Periods
  PROVE  /\ TypeOf(c, p) \in Types \cup {Silent}
         /\ posted[c][p] # Silent => TypeOf(c, p) = posted[c][p]
<1> DEFINE earlier == {q \in 1 .. p : posted[c][q] # Silent}
           later   == {q \in p .. last : posted[c][q] # Silent}
<1>1. last \in Nat /\ p \in Nat \ {0} /\ p \in Horizon /\ 1 .. p \subseteq Horizon /\ p .. last \subseteq Horizon
  BY Ranges DEF FactTypes, Periods, Horizon
<1>2. IsFiniteSet(1 .. p) /\ IsFiniteSet(p .. last)
  BY <1>1, FS_Interval
<1>3. earlier \in SUBSET Int /\ later \in SUBSET Int /\ IsFiniteSet(earlier) /\ IsFiniteSet(later)
  <2>1. earlier \in SUBSET (1 .. p) /\ later \in SUBSET (p .. last)
    OBVIOUS
  <2> HIDE DEF earlier, later
  <2>2. IsFiniteSet(earlier)
    BY <2>1, <1>2, FS_Subset
  <2>3. IsFiniteSet(later)
    BY <2>1, <1>2, FS_Subset
  <2> QED
    BY <2>1, <2>2, <2>3
<1>4. earlier # {} => Max(earlier) \in earlier /\ \A q \in earlier : Max(earlier) >= q
  <2> HIDE DEF earlier
  <2> QED
    BY <1>3, GreatestExists
<1>5. later # {} => Min(later) \in later
  <2> HIDE DEF later
  <2> QED
    BY <1>3, LeastExists
<1>6. TypeOf(c, p) = IF earlier # {} THEN posted[c][Max(earlier)]
                     ELSE IF later # {} THEN posted[c][Min(later)] ELSE Silent
  BY DEF TypeOf
<1>7. earlier \subseteq Horizon /\ later \subseteq Horizon
  BY <1>1
<1>8. \A q \in Horizon : posted[c][q] \in Types \cup {Silent}
  BY DEF FactTypes
<1>9. TypeOf(c, p) \in Types \cup {Silent}
  <2> HIDE DEF earlier, later
  <2> QED
    BY <1>4, <1>5, <1>6, <1>7, <1>8
<1>10. ASSUME posted[c][p] # Silent PROVE TypeOf(c, p) = posted[c][p]
  <2>1. p \in earlier
    BY <1>1, <1>10
  <2>2. \A q \in earlier : q \in Int /\ q <= p
    BY <1>1
  <2>3. Max(earlier) = p
    <3> DEFINE latest == Max(earlier)
    <3> HIDE DEF earlier
    <3>1. latest \in earlier /\ latest >= p
      BY <2>1, <1>4
    <3> HIDE DEF latest
    <3>2. latest \in Int /\ latest <= p
      BY <3>1, <2>2
    <3>3. latest = p
      BY <3>1, <3>2, <1>1
    <3> QED
      BY <3>3 DEF latest
  <2> HIDE DEF earlier, later
  <2> QED
    BY <2>1, <2>3, <1>6
<1> QED
  BY <1>9, <1>10

\* The window of a period whatever the range, and what is read there of a combination
\* whose restatements have a posting beside them.
Span(p) == {q \in Horizon :
    q \in {p, p - MomLag, p - YoyLag} \/ q \in p - RollingSpan + 1 .. p}

Figure(c, q) == Reported(c, q) + (IF q \in restated[c] THEN Signed(posted[c][q]) ELSE 0)

LEMMA SpanIsWindow ==
  ASSUME last \in Ends, NEW p \in Periods
  PROVE  Window(p) = Span(p)
<1>1. last \in Nat /\ p \in 1 .. last /\ \A q \in Horizon : q \in Nat \ {0}
  BY Ranges DEF Periods
<1>2. \A q \in Horizon : q <= last => q \in Periods
  BY <1>1 DEF Periods
<1>3. \A q \in Span(p) : q \in Nat /\ q <= p
  BY <1>1 DEF Span
<1>4. Span(p) \subseteq Periods
  BY <1>1, <1>2, <1>3 DEF Span
<1> QED
  BY <1>4, Ranges DEF Window, Span

LEMMA OwnFigure ==
  ASSUME FactTypes, NEW c \in Combos, NEW q \in Periods, Own(c, q)
  PROVE  Restated(c, q) = Figure(c, q)
BY TypeOfIsAType DEF Restated, Figure, Delta, Own

\* The row of a period is as it should be, borrowed types aside.
Good(c, p) ==
    LET row == agg[p][c] IN
    /\ row.reported = Reported(c, p)
    /\ posted[c][p] # Silent => row.type = posted[c][p]
    /\ (\A q \in Span(p) : Own(c, q)) => row.read = [q \in Span(p) |-> Figure(c, q)]

LEMMA RowIsGood ==
  ASSUME FactTypes, NEW c \in Combos, NEW p \in Periods
  PROVE  /\ IsRow(Row(c, p))
         /\ Row(c, p).reported = Reported(c, p)
         /\ posted[c][p] # Silent => Row(c, p).type = posted[c][p]
         /\ (\A q \in Span(p) : Own(c, q)) => Row(c, p).read = [q \in Span(p) |-> Figure(c, q)]
<1>1. Window(p) = Span(p) /\ Window(p) \subseteq Periods /\ Periods \subseteq Horizon
  BY SpanIsWindow, Ranges DEF FactTypes, Window
<1>2. \A q \in Periods : Reported(c, q) \in -1 .. 1 /\ Restated(c, q) \in -2 .. 2
  BY DEF Reported, Restated, Delta, Signed
<1>3. ASSUME \A q \in Span(p) : Own(c, q)
      PROVE  [q \in Window(p) |-> Restated(c, q)] = [q \in Span(p) |-> Figure(c, q)]
  <2>1. \A q \in Window(p) : Restated(c, q) = Figure(c, q)
    BY <1>1, <1>3, OwnFigure
  <2> QED
    BY <1>1, <2>1
<1>4. [q \in Window(p) |-> Restated(c, q)] \in [Window(p) -> -2 .. 2]
  BY <1>1, <1>2
<1>5. TypeOf(c, p) \in Types \cup {Silent}
  BY TypeOfIsAType
<1>6. IsRow(Row(c, p))
  BY <1>1, <1>2, <1>4, <1>5 DEF IsRow, Row
<1> QED
  BY <1>3, <1>6, TypeOfIsAType DEF Row
-----------------------------------------------------------------------------
(***************************************************************************)
(* The inductive invariant.                                                *)
(***************************************************************************)
TableTypes ==
    /\ agg = [p \in Held |-> agg[p]] /\ Held \subseteq Horizon
    /\ \A p \in Held :
          /\ agg[p] = [c \in DOMAIN agg[p] |-> agg[p][c]]
          /\ DOMAIN agg[p] \subseteq Combos
          /\ \A c \in DOMAIN agg[p] : IsRow(agg[p][c])

BuildTypes ==
    /\ owed \in SUBSET Periods
    /\ todo \in SUBSET Horizon
    /\ running \in BOOLEAN /\ whole \in BOOLEAN /\ torn \in BOOLEAN
    /\ built \in Ends \cup {0}
    /\ amends \in 0 .. MaxAmends /\ kills \in 0 .. MaxKills

\* A selective build writes into a table that holds the range and every combination, the
\* rows whose window has a period that is owed.
Selective ==
    running /\ ~whole =>
        /\ Held = Periods /\ Members = Identity /\ Identity # {} /\ owed # {}
        /\ todo \subseteq Periods /\ \A p \in todo : Span(p) \cap owed # {}

\* A rewrite has left, of the periods it has dealt with, those of the range.
Rewriting ==
    running /\ whole =>
        /\ Held \ todo = (IF Identity = {} THEN {} ELSE Periods \ todo)
        /\ \A p \in Held \ todo : DOMAIN agg[p] = Identity

\* A row that is not as it should be has a period in its window that is owed, and is
\* still to be written.
Owing(p) == Span(p) \cap owed # {} /\ (running => p \in todo)

\* The partitions agree on the combinations, unless a rewrite is, or was left, under way,
\* or the partition lost its rows and is still to be written.
Agree(p) == DOMAIN agg[p] = Members \/ (DOMAIN agg[p] = {} /\ Owing(p))
Uniform == ~torn /\ ~(running /\ whole) => \A p \in Held : Agree(p)

\* While nothing changes, the table stays as the last build left it.
Stands ==
    ~running /\ owed = {} /\ ~torn /\ built # 0 =>
        /\ Held = (IF Identity = {} THEN {} ELSE 1 .. built)
        /\ \A p \in Held : DOMAIN agg[p] = Identity

Accounted == \A p \in Held : \A c \in DOMAIN agg[p] : Good(c, p) \/ Owing(p)

Inv ==
    /\ FactTypes /\ TableTypes /\ BuildTypes
    /\ Selective /\ Rewriting /\ Uniform /\ Stands /\ Accounted

LEMMA Initially == Init => Inv
<1> SUFFICES ASSUME Init PROVE Inv
  OBVIOUS
<1>1. Held = {} /\ last \in Ends
  BY DEF Init, Held
<1>2. FactTypes
  BY DEF Init, FactTypes
<1>3. TableTypes
  BY <1>1 DEF Init, TableTypes, Held
<1>4. BuildTypes
  <2>1. 0 \in 0 .. MaxAmends /\ 0 \in 0 .. MaxKills
    OBVIOUS
  <2>2. owed = {} /\ todo = {} /\ built = 0 /\ amends = 0 /\ kills = 0
        /\ running = FALSE /\ whole = FALSE /\ torn = FALSE
    BY DEF Init
  <2> QED
    BY <2>1, <2>2, Zenon DEF BuildTypes
<1> QED
  BY <1>1, <1>2, <1>3, <1>4 DEF Init, Inv, Selective, Rewriting, Uniform, Stands, Accounted

LEMMA IdentityOfCombos == Identity \subseteq Combos
BY DEF Identity

\* Between two builds the facts of a period change, which is then owed.
LEMMA AmendKeeps ==
  ASSUME Inv, NEW d \in Periods, Amended(d), FactTypes',
         \A c \in Combos : \A q \in Horizon \ {d} :
            posted'[c][q] = posted[c][q] /\ (q \in restated'[c] <=> q \in restated[c])
  PROVE  Inv'
<1>1. /\ ~running /\ running' = running /\ last' = last /\ owed' = owed \cup {d}
      /\ agg' = agg /\ whole' = whole /\ torn' = torn /\ todo' = todo /\ built' = built
      /\ amends' = amends + 1 /\ amends < MaxAmends /\ kills' = kills
  BY DEF Amended, table
<1>2. Held' = Held /\ Members' = Members /\ Periods' = Periods
  BY <1>1 DEF Held, Members, Periods
<1>3. TableTypes'
  BY <1>1, <1>2 DEF Inv, TableTypes, IsRow
<1>4. BuildTypes'
  BY <1>1, <1>2 DEF Inv, BuildTypes
<1>5. Accounted'
  <2> SUFFICES ASSUME NEW p \in Held, NEW c \in DOMAIN agg[p] PROVE (Good(c, p) \/ Owing(p))'
    BY <1>1, <1>2 DEF Accounted
  <2>1. p \in Horizon /\ c \in Combos
    BY DEF Inv, TableTypes
  <2>2. CASE d \in Span(p)
    <3>1. (Span(p) \cap owed # {})'
      BY <2>2, <1>1 DEF Span
    <3> QED
      BY <3>1, <1>1 DEF Owing
  <2>3. CASE Owing(p)
    BY <2>3, <1>1 DEF Owing, Span
  <2>4. CASE d \notin Span(p) /\ Good(c, p)
    <3>1. p \in Span(p) /\ Span(p) \subseteq Horizon \ {d}
      BY <2>1, <2>4, Ranges DEF Span
    <3>2. \A q \in Span(p) : posted'[c][q] = posted[c][q]
                             /\ (q \in restated'[c] <=> q \in restated[c])
      BY <2>1, <3>1
    <3>3. \A q \in Span(p) : Own(c, q)' <=> Own(c, q)
      BY <3>2 DEF Own
    <3>4. \A q \in Span(p) : Figure(c, q)' = Figure(c, q) /\ Reported(c, q)' = Reported(c, q)
      BY <3>2 DEF Figure, Reported
    <3>5. [q \in Span(p) |-> Figure(c, q)]' = [q \in Span(p) |-> Figure(c, q)]
      BY <3>4 DEF Span
    <3> QED
      BY <1>1, <2>4, <3>1, <3>2, <3>3, <3>4, <3>5 DEF Good, Span
  <2> QED
    BY <2>2, <2>3, <2>4 DEF Inv, Accounted
<1>6. Uniform'
  BY <1>1, <1>2 DEF Inv, Uniform, Agree, Owing, Span
<1>7. Selective' /\ Rewriting' /\ Stands'
  BY <1>1 DEF Selective, Rewriting, Stands
<1> QED
  BY <1>3, <1>4, <1>5, <1>6, <1>7 DEF Inv

LEMMA PostKeeps ==
  ASSUME Inv, NEW c \in Combos, NEW d \in Periods, NEW type \in Types \cup {Silent},
         Post(c, d, type)
  PROVE  Inv'
<1>1. /\ posted' = [posted EXCEPT ![c][d] = type] /\ restated' = restated /\ Amended(d)
      /\ last' = last
  BY DEF Post, Amended
<1>2. d \in Horizon
  BY Ranges DEF Inv, FactTypes
<1>3. FactTypes'
  BY <1>1, <1>2 DEF Inv, FactTypes
<1>4. \A e \in Combos : \A q \in Horizon \ {d} :
         posted'[e][q] = posted[e][q] /\ (q \in restated'[e] <=> q \in restated[e])
  BY <1>1 DEF Inv, FactTypes
<1> QED
  BY <1>1, <1>3, <1>4, AmendKeeps

LEMMA RestateKeeps ==
  ASSUME Inv, NEW c \in Combos, NEW d \in Periods, Restate(c, d)
  PROVE  Inv'
<1>1. /\ restated' = [restated EXCEPT ![c] = IF d \in @ THEN @ \ {d} ELSE @ \cup {d}]
      /\ posted' = posted /\ Amended(d) /\ last' = last
  BY DEF Restate, Amended
<1>2. d \in Horizon
  BY Ranges DEF Inv, FactTypes
<1>3. FactTypes'
  BY <1>1, <1>2 DEF Inv, FactTypes
<1>4. \A e \in Combos : \A q \in Horizon \ {d} :
         posted'[e][q] = posted[e][q] /\ (q \in restated'[e] <=> q \in restated[e])
  BY <1>1 DEF Inv, FactTypes
<1> QED
  BY <1>1, <1>3, <1>4, AmendKeeps

\* A row is judged by the facts, whatever the range is.
LEMMA SameGood ==
  ASSUME UNCHANGED facts, NEW p, NEW c, agg'[p][c] = agg[p][c]
  PROVE  Good(c, p)' <=> Good(c, p)
<1>1. \A q \in Span(p) : (Own(c, q)' <=> Own(c, q)) /\ Figure(c, q)' = Figure(c, q)
                         /\ Reported(c, q)' = Reported(c, q)
  BY DEF facts, Own, Figure, Reported
<1>2. Reported(c, p)' = Reported(c, p)
  BY DEF facts, Reported
<1>3. [q \in Span(p) |-> Figure(c, q)]' = [q \in Span(p) |-> Figure(c, q)]
  BY <1>1 DEF Span
<1> QED
  BY <1>1, <1>2, <1>3 DEF Good, Span, facts

LEMMA SameIdentity ==
  ASSUME UNCHANGED facts
  PROVE  Identity' = Identity /\ (FactTypes /\ last' \in Ends => FactTypes')
BY DEF facts, Identity, FactTypes

LEMMA MoveKeeps ==
  ASSUME Inv, NEW end \in Ends, Move(end)
  PROVE  Inv'
<1>1. /\ ~running /\ last' = end /\ owed \subseteq 1 .. end
      /\ owed' = owed /\ agg' = agg /\ todo' = todo /\ running' = running /\ whole' = whole
      /\ built' = built /\ torn' = torn /\ amends' = amends /\ kills' = kills
      /\ UNCHANGED facts
  BY DEF Move, table
<1>2. Held' = Held /\ Members' = Members /\ Periods' = 1 .. end /\ Identity' = Identity
  BY <1>1, SameIdentity DEF Held, Members, Periods
<1>3. FactTypes'
  BY <1>1, SameIdentity DEF Inv
<1>4. TableTypes' /\ BuildTypes'
  BY <1>1, <1>2 DEF Inv, TableTypes, BuildTypes, IsRow
<1>5. Accounted'
  <2> SUFFICES ASSUME NEW p \in Held, NEW c \in DOMAIN agg[p] PROVE (Good(c, p) \/ Owing(p))'
    BY <1>1, <1>2 DEF Accounted
  <2>1. Good(c, p) \/ Owing(p)
    BY DEF Inv, Accounted
  <2>2. Good(c, p)' <=> Good(c, p)
    BY <1>1, SameGood
  <2>3. Owing(p)' <=> Owing(p)
    BY <1>1 DEF Owing, Span
  <2> QED
    BY <2>1, <2>2, <2>3
<1>6. Uniform'
  BY <1>1, <1>2 DEF Inv, Uniform, Agree, Owing, Span
<1>7. Stands'
  BY <1>1, <1>2 DEF Inv, Stands
<1>8. Selective' /\ Rewriting'
  BY <1>1 DEF Selective, Rewriting
<1> QED
  BY <1>3, <1>4, <1>5, <1>6, <1>7, <1>8 DEF Inv

\* The closure holds every period of the range whose window is dirty.
LEMMA ClosureCovers ==
  ASSUME last \in Ends, NEW dirty \in SUBSET Periods, NEW p \in Periods,
         Span(p) \cap dirty # {}
  PROVE  p \in Closure(dirty)
<1>1. PICK d \in dirty : d \in Span(p)
  OBVIOUS
<1>2. p \in Nat /\ d \in Nat
  BY <1>1, Ranges DEF Span
<1>3. p \in {d, d + MomLag, d + YoyLag} \/ p \in d .. d + RollingSpan - 1
  BY <1>1, <1>2 DEF Span
<1> QED
  BY <1>1, <1>3 DEF Closure

\* ... and no other.
LEMMA ClosureReaches ==
  ASSUME last \in Ends, NEW dirty \in SUBSET Periods, NEW p \in Closure(dirty)
  PROVE  Span(p) \cap dirty # {}
<1>1. PICK d \in dirty : p \in {d, d + MomLag, d + YoyLag} \/ p \in d .. d + RollingSpan - 1
  BY DEF Closure
<1>2. p \in Periods /\ d \in Periods /\ Periods \subseteq Horizon /\ p \in Nat /\ d \in Nat
  BY Ranges DEF Closure
<1>3. d \in Span(p)
  BY <1>1, <1>2, BalancesAssumption DEF Span
<1> QED
  BY <1>3

LEMMA BuildKeeps ==
  ASSUME Inv, NEW dirty \in {owed, Periods}, Build(dirty)
  PROVE  Inv'
<1>1. /\ ~running /\ running' = TRUE /\ dirty # {}
      /\ whole' = (Writing(dirty) = Periods) /\ todo' = Writing(dirty) \cup Stale
      /\ last' = last /\ owed' = owed /\ agg' = agg /\ built' = built /\ torn' = torn
      /\ amends' = amends /\ kills' = kills /\ UNCHANGED facts
  BY DEF Build
<1>2. Held' = Held /\ Members' = Members /\ Periods' = Periods /\ Identity' = Identity
  BY <1>1, SameIdentity DEF Held, Members, Periods
<1>3. dirty \in SUBSET Periods /\ last \in Ends /\ Periods \subseteq Horizon /\ Held \subseteq Horizon
  BY Ranges DEF Inv, BuildTypes, FactTypes, TableTypes
<1>4. Writing(dirty) \subseteq Periods
  BY DEF Writing, Closure
<1>5. Stale = Held \ Periods
  BY DEF Stale
<1>6. FactTypes'
  BY <1>1, SameIdentity DEF Inv, FactTypes
<1>7. TableTypes' /\ BuildTypes'
  <2>1. TableTypes'
    BY <1>1, <1>2 DEF Inv, TableTypes, IsRow
  <2>2. todo' \in SUBSET Horizon
    BY <1>1, <1>3, <1>4, <1>5
  <2>3. whole' \in BOOLEAN
    BY <1>1
  <2> QED
    BY <1>1, <1>2, <2>1, <2>2, <2>3 DEF Inv, BuildTypes
<1>8. ASSUME NEW p \in Periods, Span(p) \cap dirty # {} PROVE p \in Writing(dirty)
  BY <1>3, <1>8, ClosureCovers DEF Writing
<1>9. dirty = Periods => Writing(dirty) = Periods
  <2>1. \A p \in Periods : p \in Span(p)
    BY <1>3, Ranges DEF Span
  <2> QED
    BY <1>4, <1>8, <2>1
<1>10. Accounted'
  <2> SUFFICES ASSUME NEW p \in Held, NEW c \in DOMAIN agg[p] PROVE (Good(c, p) \/ Owing(p))'
    BY <1>1, <1>2 DEF Accounted
  <2>1. Good(c, p)' <=> Good(c, p)
    BY <1>1, SameGood
  <2>2. ASSUME Span(p) \cap owed # {} PROVE p \in todo'
    <3>1. CASE p \notin Periods
      BY <3>1, <1>1, <1>5
    <3>2. CASE p \in Periods /\ dirty = owed
      BY <3>2, <2>2, <1>1, <1>8
    <3>3. CASE p \in Periods /\ dirty = Periods
      BY <3>3, <1>1, <1>9
    <3> QED
      BY <3>1, <3>2, <3>3
  <2>3. ASSUME Owing(p) PROVE Owing(p)'
    BY <1>1, <2>2, <2>3 DEF Owing, Span
  <2> QED
    BY <2>1, <2>3 DEF Inv, Accounted
<1>11. Selective'
  <2> SUFFICES ASSUME Writing(dirty) # Periods
               PROVE  /\ Held = Periods /\ Members = Identity /\ Identity # {} /\ owed # {}
                      /\ todo' \subseteq Periods /\ \A p \in todo' : Span(p) \cap owed # {}
    BY <1>1, <1>2 DEF Selective, Span
  <2>1. Held = Periods /\ Members = Identity /\ Filled # {} /\ Writing(dirty) = Closure(dirty)
    BY DEF Writing, RebuildEverything
  <2>2. Identity # {}
    BY <2>1 DEF Filled, Members
  <2>3. dirty = owed /\ todo' = Closure(owed)
    BY <2>1, <1>1, <1>4, <1>5, <1>9
  <2> QED
    BY <2>1, <2>2, <2>3, <1>1, <1>3, <1>4, ClosureReaches
<1>12. Rewriting'
  <2> SUFFICES ASSUME Writing(dirty) = Periods
               PROVE  Held \subseteq todo' /\ Periods \subseteq todo'
    BY <1>1, <1>2 DEF Rewriting
  <2> QED
    BY <1>1, <1>5
<1>13. Uniform'
  <2> SUFFICES ASSUME ~torn, ~whole', NEW p \in Held PROVE Agree(p)'
    BY <1>1, <1>2 DEF Uniform
  <2>1. Agree(p)
    BY <1>1 DEF Inv, Uniform
  <2>2. Owing(p) => Owing(p)'
    <3>1. p \in Periods
      BY <1>1, <1>2, <1>11 DEF Selective
    <3>2. dirty = owed
      BY <1>1, <1>9
    <3> QED
      BY <3>1, <3>2, <1>1, <1>8 DEF Owing, Span
  <2> QED
    BY <2>1, <2>2, <1>1, <1>2 DEF Agree
<1>14. Stands'
  BY <1>1 DEF Stands
<1> QED
  BY <1>6, <1>7, <1>10, <1>11, <1>12, <1>13, <1>14 DEF Inv

\* What a kill leaves of the table: every partition as it was, apart from one that was
\* still to be written.
LEMMA KillLeaves ==
  ASSUME Kill
  PROVE  \/ agg' = agg
         \/ \E p \in todo :
              /\ Held \ {p} \subseteq Held' /\ Held' \subseteq Held \cup {p}
              /\ agg' = [q \in Held' |-> agg'[q]]
              /\ \A q \in Held' \ {p} : agg'[q] = agg[q]
              /\ p \in Held' => agg'[p] = [c \in {} |-> {}]
<1>1. CASE agg' = agg
  BY <1>1
<1>2. ASSUME NEW p \in Upcoming, agg' \in {Gone(p), Hollow(p)}
      PROVE  /\ p \in todo
             /\ Held \ {p} \subseteq Held' /\ Held' \subseteq Held \cup {p}
             /\ agg' = [q \in Held' |-> agg'[q]]
             /\ \A q \in Held' \ {p} : agg'[q] = agg[q]
             /\ p \in Held' => agg'[p] = [c \in {} |-> {}]
  BY <1>2 DEF Upcoming, Gone, Hollow, Held
<1> QED
  BY <1>1, <1>2 DEF Kill

LEMMA KillKeeps ==
  ASSUME Inv, Kill
  PROVE  Inv'
<1>1. /\ running /\ running' = FALSE /\ whole' = FALSE /\ todo' = {}
      /\ torn' = (torn \/ whole) /\ kills < MaxKills /\ kills' = kills + 1
      /\ last' = last /\ owed' = owed /\ built' = built
      /\ amends' = amends /\ UNCHANGED facts
  BY DEF Kill
<1> DEFINE empty == [c \in {} |-> {}]
<1>2. /\ Held' \subseteq Held \cup todo
      /\ agg' = [q \in Held' |-> agg'[q]]
      /\ \A q \in Held' : (q \in Held /\ agg'[q] = agg[q]) \/ (q \in todo /\ agg'[q] = empty)
  <2>1. CASE agg' = agg
    BY <2>1 DEF Inv, TableTypes, Held
  <2>2. CASE agg' # agg
    BY <2>2, KillLeaves
  <2> QED
    BY <2>1, <2>2
<1>3. DOMAIN empty = {}
  OBVIOUS
<1> HIDE DEF empty
<1>4. Periods' = Periods /\ Identity' = Identity /\ FactTypes'
  BY <1>1, SameIdentity DEF Inv, FactTypes, Periods
<1>5. empty = [c \in DOMAIN empty |-> empty[c]]
  BY DEF empty
<1>6. TableTypes'
  <2>1. Held' \subseteq Horizon
    BY <1>2 DEF Inv, TableTypes, BuildTypes
  <2>2. ASSUME NEW q \in Held'
        PROVE  /\ agg'[q] = [c \in DOMAIN agg'[q] |-> agg'[q][c]]
               /\ DOMAIN agg'[q] \subseteq Combos
               /\ \A c \in DOMAIN agg'[q] : IsRow(agg'[q][c])
    <3>1. CASE q \in Held /\ agg'[q] = agg[q]
      BY <3>1 DEF Inv, TableTypes
    <3>2. CASE agg'[q] = empty
      BY <3>2, <1>3, <1>5
    <3> QED
      BY <3>1, <3>2, <1>2
  <2> QED
    BY <1>2, <2>1, <2>2 DEF TableTypes, IsRow
<1>7. BuildTypes'
  <2>1. kills' \in 0 .. MaxKills
    BY <1>1 DEF Inv, BuildTypes
  <2>2. torn' \in BOOLEAN
    BY <1>1 DEF Inv, BuildTypes
  <2> QED
    BY <1>1, <1>4, <2>1, <2>2 DEF Inv, BuildTypes
<1>8. Accounted'
  <2> SUFFICES ASSUME NEW p \in Held', NEW c \in DOMAIN agg'[p] PROVE (Good(c, p) \/ Owing(p))'
    BY DEF Accounted
  <2>1. p \in Held /\ agg'[p] = agg[p]
    BY <1>2, <1>3
  <2>2. Good(c, p)' <=> Good(c, p)
    BY <1>1, <2>1, SameGood
  <2>3. Owing(p) => Owing(p)'
    BY <1>1 DEF Owing, Span
  <2> QED
    BY <2>1, <2>2, <2>3 DEF Inv, Accounted
<1>9. Uniform'
  <2> SUFFICES ASSUME ~torn, ~whole, NEW p \in Held' PROVE Agree(p)'
    BY <1>1 DEF Inv, BuildTypes, Uniform
  <2>1. /\ Held = Periods /\ todo \subseteq Periods /\ \A q \in todo : Span(q) \cap owed # {}
        /\ \A q \in Held : Agree(q)
    BY <1>1 DEF Inv, Selective, Uniform
  <2>2. \A q \in Held' : DOMAIN agg'[q] = {} \/ (q \in Held /\ agg'[q] = agg[q])
    BY <1>2, <1>3
  <2>3. \A q \in Held' : DOMAIN agg'[q] = {} \/ DOMAIN agg'[q] = Members
    BY <2>1, <2>2 DEF Agree
  <2>4. CASE \A q \in Held' : DOMAIN agg'[q] = {}
    <3>1. Members' = {}
      BY <2>4 DEF Members
    <3> QED
      BY <2>4, <3>1 DEF Agree
  <2>5. CASE \E q \in Held' : DOMAIN agg'[q] # {}
    <3>1. Members' = Members
      BY <2>3, <2>5 DEF Members
    <3>2. DOMAIN agg'[p] = {} => p \in todo \/ DOMAIN agg[p] = Members \/ Owing(p)
      BY <2>1, <1>2 DEF Agree
    <3>3. p \in todo \/ Owing(p) => Owing(p)'
      BY <2>1, <1>1 DEF Owing, Span
    <3>4. p \notin todo => agg'[p] = agg[p]
      BY <1>2
    <3> QED
      BY <2>3, <3>1, <3>2, <3>3, <3>4 DEF Agree
  <2> QED
    BY <2>4, <2>5
<1>10. Stands'
  BY <1>1 DEF Inv, Selective, Stands, BuildTypes
<1>11. Selective' /\ Rewriting'
  BY <1>1 DEF Selective, Rewriting
<1> QED
  BY <1>4, <1>6, <1>7, <1>8, <1>9, <1>10, <1>11 DEF Inv

\* What a build that has nothing left to write leaves behind.
LEMMA AllWritten ==
  ASSUME Inv, running, todo = {}, whole \/ ~torn
  PROVE  Dense
<1>1. CASE whole
  BY <1>1 DEF Inv, Rewriting, Dense
<1>2. CASE ~whole
  <2>1. Held = Periods /\ Members = Identity /\ \A p \in Held : DOMAIN agg[p] = Identity
    BY <1>2 DEF Inv, Selective, Uniform, Agree, Owing
  <2>2. Identity # {}
    BY <1>2 DEF Inv, Selective
  <2> QED
    BY <2>1, <2>2 DEF Dense
<1> QED
  BY <1>1, <1>2

LEMMA FinishKeeps ==
  ASSUME Inv, Finish
  PROVE  Inv'
<1>1. /\ running /\ todo = {} /\ running' = FALSE /\ whole' = FALSE /\ todo' = todo
      /\ built' = last /\ torn' = (torn /\ ~whole) /\ owed' = {}
      /\ last' = last /\ agg' = agg /\ amends' = amends /\ kills' = kills /\ UNCHANGED facts
  BY DEF Finish
<1>2. Held' = Held /\ Members' = Members /\ Periods' = Periods /\ Identity' = Identity
  BY <1>1, SameIdentity DEF Held, Members, Periods
<1>3. FactTypes'
  BY <1>1, SameIdentity DEF Inv, FactTypes
<1>4. TableTypes' /\ BuildTypes'
  <2>1. TableTypes'
    BY <1>1, <1>2 DEF Inv, TableTypes, IsRow
  <2>2. built' \in Ends \cup {0} /\ torn' \in BOOLEAN
    BY <1>1 DEF Inv, FactTypes
  <2> QED
    BY <1>1, <1>2, <2>1, <2>2 DEF Inv, BuildTypes
<1>5. Accounted'
  <2> SUFFICES ASSUME NEW p \in Held, NEW c \in DOMAIN agg[p] PROVE Good(c, p)'
    BY <1>1, <1>2 DEF Accounted
  <2>1. Good(c, p)' <=> Good(c, p)
    BY <1>1, SameGood
  <2> QED
    BY <1>1, <2>1 DEF Inv, Accounted, Owing
<1>6. ~torn' => Dense
  BY <1>1, AllWritten DEF Inv, BuildTypes
<1>7. Uniform'
  <2>1. Dense => \A p \in Held : DOMAIN agg[p] = Members
    BY DEF Dense, Members
  <2> QED
    BY <1>1, <1>2, <1>6, <2>1 DEF Uniform, Agree
<1>8. Stands'
  BY <1>1, <1>2, <1>6 DEF Stands, Dense, Periods
<1>9. Selective' /\ Rewriting'
  BY <1>1 DEF Selective, Rewriting
<1> QED
  BY <1>3, <1>4, <1>5, <1>7, <1>8, <1>9 DEF Inv

LEMMA WriteKeeps ==
  ASSUME Inv, Write
  PROVE  Inv'
<1>1. PICK p \in todo : agg' = Written(p) /\ todo' = todo \ {p}
  BY DEF Write, Upcoming
<1>2. /\ running /\ running' = running /\ whole' = whole /\ owed' = owed
      /\ last' = last /\ built' = built /\ torn' = torn
      /\ amends' = amends /\ kills' = kills /\ UNCHANGED facts
  BY DEF Write
<1> DEFINE kept == p \in Periods /\ Identity # {}
<1>3. Held' = (Held \ {p}) \cup (IF kept THEN {p} ELSE {})
  BY <1>1 DEF Held, Written
<1>4. /\ \A q \in Held' : agg'[q] = IF q = p THEN Partition(p) ELSE agg[q]
      /\ agg' = [q \in Held' |-> agg'[q]]
  BY <1>1, <1>3 DEF Written
<1>5. Periods' = Periods /\ Identity' = Identity
  BY <1>2, SameIdentity DEF Periods
<1>6. p \in Horizon /\ FactTypes /\ Periods \subseteq Horizon
  BY <1>1, Ranges DEF Inv, BuildTypes, FactTypes
<1>7. FactTypes'
  BY <1>2, <1>6, SameIdentity DEF FactTypes
<1>8. kept => DOMAIN Partition(p) = Identity /\ \A c \in Identity : Partition(p)[c] = Row(c, p)
  BY DEF Partition
<1>9. \A q \in Held' : q = p => kept
  BY <1>3
<1>10. \A q \in Held' : q # p => q \in Held /\ agg'[q] = agg[q]
  BY <1>3, <1>4
<1>11. p \in Held' => agg'[p] = Partition(p) /\ DOMAIN agg'[p] = Identity /\ Identity # {}
  BY <1>4, <1>8, <1>9
<1> HIDE DEF kept
<1>12. TableTypes'
  <2>1. ASSUME NEW q \in Held'
        PROVE  /\ agg'[q] = [c \in DOMAIN agg'[q] |-> agg'[q][c]]
               /\ DOMAIN agg'[q] \subseteq Combos
               /\ \A c \in DOMAIN agg'[q] : IsRow(agg'[q][c])
    <3>1. CASE q = p
      <4>1. Partition(p) = [c \in DOMAIN Partition(p) |-> Partition(p)[c]]
        BY DEF Partition
      <4>2. \A c \in Identity : IsRow(Row(c, p))
        BY <3>1, <1>6, <1>9, RowIsGood, IdentityOfCombos DEF kept
      <4> QED
        BY <3>1, <4>1, <4>2, <1>8, <1>9, <1>11, IdentityOfCombos
    <3>2. CASE q # p
      BY <3>2, <1>10 DEF Inv, TableTypes
    <3> QED
      BY <3>1, <3>2
  <2>2. Held' \subseteq Horizon
    BY <1>3, <1>6 DEF Inv, TableTypes
  <2> QED
    BY <2>1, <2>2, <1>4 DEF TableTypes, IsRow
<1>13. BuildTypes'
  BY <1>1, <1>2, <1>5 DEF Inv, BuildTypes
<1>14. Accounted'
  <2> SUFFICES ASSUME NEW q \in Held', NEW c \in DOMAIN agg'[q] PROVE (Good(c, q) \/ Owing(q))'
    BY DEF Accounted
  <2>1. CASE q = p
    <3>1. c \in Combos /\ p \in Periods /\ c \in Identity
      BY <2>1, <1>9, <1>11, IdentityOfCombos DEF kept
    <3>2. agg'[p][c] = Row(c, p)
      BY <2>1, <3>1, <1>8, <1>9, <1>11
    <3>3. /\ agg'[p][c].reported = Reported(c, p)
          /\ posted[c][p] # Silent => agg'[p][c].type = posted[c][p]
          /\ (\A r \in Span(p) : Own(c, r)) => agg'[p][c].read = [r \in Span(p) |-> Figure(c, r)]
      BY <3>1, <3>2, <1>6, RowIsGood
    <3>4. Good(c, p)'
      BY <1>2, <3>3 DEF facts, Good, Own, Figure, Reported, Span
    <3> QED
      BY <2>1, <3>4
  <2>2. CASE q # p
    <3>1. q \in Held /\ c \in DOMAIN agg[q] /\ agg'[q][c] = agg[q][c]
      BY <2>2, <1>10
    <3>2. Good(c, q)' <=> Good(c, q)
      BY <1>2, <3>1, SameGood
    <3>3. Owing(q) => Owing(q)'
      BY <2>2, <1>1, <1>2 DEF Owing, Span
    <3> QED
      BY <3>1, <3>2, <3>3 DEF Inv, Accounted
  <2> QED
    BY <2>1, <2>2
<1>15. Selective'
  <2> SUFFICES ASSUME ~whole
               PROVE  /\ Held' = Periods /\ Members' = Identity /\ Identity # {}
                      /\ todo' \subseteq Periods /\ \A q \in todo' : Span(q) \cap owed # {}
    BY <1>2, <1>5 DEF Inv, Selective, Span
  <2>1. /\ Held = Periods /\ Members = Identity /\ Identity # {}
        /\ todo \subseteq Periods /\ \A q \in todo : Span(q) \cap owed # {}
    BY <1>2 DEF Inv, Selective
  <2>2. p \in Held /\ p \in Periods
    BY <2>1, <1>1
  <2>3. Held' = Held
    BY <2>1, <2>2, <1>3 DEF kept
  <2>4. \A q \in Held : DOMAIN agg'[q] \subseteq Identity
    BY <2>1, <2>3, <1>10, <1>11 DEF Members
  <2>5. Members' = Identity
    BY <2>2, <2>3, <2>4, <1>11 DEF Members
  <2> QED
    BY <2>1, <2>3, <2>5, <1>1
<1>16. Rewriting'
  <2> SUFFICES ASSUME whole
               PROVE  /\ Held' \ todo' = (IF Identity = {} THEN {} ELSE Periods \ todo')
                      /\ \A q \in Held' \ todo' : DOMAIN agg'[q] = Identity
    BY <1>2, <1>5 DEF Rewriting
  <2>1. /\ Held \ todo = (IF Identity = {} THEN {} ELSE Periods \ todo)
        /\ \A q \in Held \ todo : DOMAIN agg[q] = Identity
    BY <1>2 DEF Inv, Rewriting
  <2>2. Held' \ todo' = (Held \ todo) \cup (IF kept THEN {p} ELSE {})
    BY <1>1, <1>3
  <2>3. \A q \in Held' \ todo' : DOMAIN agg'[q] = Identity
    BY <2>1, <1>1, <1>10, <1>11
  <2>4. Held' \ todo' = (IF Identity = {} THEN {} ELSE Periods \ todo')
    BY <2>1, <2>2, <1>1 DEF kept
  <2> QED
    BY <2>3, <2>4
<1>17. Uniform'
  <2> SUFFICES ASSUME ~torn, ~whole, NEW q \in Held' PROVE Agree(q)'
    BY <1>2 DEF Uniform
  <2>1. Members = Identity /\ \A u \in Held : Agree(u)
    BY <1>2 DEF Inv, Selective, Uniform
  <2>2. Members' = Identity
    BY <1>2, <1>5, <1>15 DEF Selective
  <2>3. CASE q = p
    BY <2>2, <2>3, <1>11 DEF Agree
  <2>4. CASE q # p
    <3>1. q \in Held /\ agg'[q] = agg[q]
      BY <2>4, <1>10
    <3>2. Owing(q) => Owing(q)'
      BY <2>4, <1>1, <1>2 DEF Owing, Span
    <3> QED
      BY <2>1, <2>2, <3>1, <3>2 DEF Agree
  <2> QED
    BY <2>3, <2>4
<1>18. Stands'
  BY <1>2 DEF Stands
<1> QED
  BY <1>7, <1>12, <1>13, <1>14, <1>15, <1>16, <1>17, <1>18 DEF Inv

LEMMA NextKeeps == Inv /\ [Next]_vars => Inv'
<1> SUFFICES ASSUME Inv, [Next]_vars PROVE Inv'
  OBVIOUS
<1>1. CASE UNCHANGED vars
  <2>1. /\ last' = last /\ owed' = owed /\ agg' = agg /\ todo' = todo /\ running' = running
        /\ whole' = whole /\ built' = built /\ torn' = torn /\ amends' = amends
        /\ kills' = kills /\ UNCHANGED facts
    BY <1>1 DEF vars, facts
  <2>2. Held' = Held /\ Members' = Members /\ Periods' = Periods /\ Identity' = Identity
    BY <2>1, SameIdentity DEF Held, Members, Periods
  <2>3. FactTypes'
    BY <2>1, SameIdentity DEF Inv, FactTypes
  <2>4. TableTypes' /\ BuildTypes'
    BY <2>1, <2>2 DEF Inv, TableTypes, BuildTypes, IsRow
  <2>5. Accounted'
    <3> SUFFICES ASSUME NEW p \in Held, NEW c \in DOMAIN agg[p] PROVE (Good(c, p) \/ Owing(p))'
      BY <2>1, <2>2 DEF Accounted
    <3>1. Good(c, p)' <=> Good(c, p)
      BY <2>1, SameGood
    <3>2. Owing(p)' <=> Owing(p)
      BY <2>1 DEF Owing, Span
    <3> QED
      BY <3>1, <3>2 DEF Inv, Accounted
  <2>6. Selective' /\ Rewriting' /\ Uniform' /\ Stands'
    BY <2>1, <2>2 DEF Inv, Selective, Rewriting, Uniform, Agree, Owing, Span, Stands
  <2> QED
    BY <2>3, <2>4, <2>5, <2>6 DEF Inv
<1>2. CASE Next
  BY <1>2, PostKeeps, RestateKeeps, MoveKeeps, BuildKeeps, WriteKeeps, FinishKeeps, KillKeeps
     DEF Next
<1> QED
  BY <1>1, <1>2

LEMMA Invariance == Spec => []Inv
BY Initially, NextKeeps, PTL DEF Spec

\* Every reachable state is well typed (balances.py:266-346).
THEOREM TypeCorrect == Spec => []TypeOK
<1>1. Inv => TypeOK
  <2> SUFFICES ASSUME Inv PROVE TypeOK
    OBVIOUS
  <2>1. owed \in SUBSET Horizon
    BY Ranges DEF Inv, BuildTypes, FactTypes
  <2> QED
    BY <2>1 DEF Inv, FactTypes, TableTypes, BuildTypes, TypeOK
<1> QED
  BY <1>1, Invariance, PTL

\* A finished build leaves no hole, no period too many and every combination in each
\* (balances.py:286-346): two partitions that disagreed would hide behind the union of
\* their combinations, so the invariant is that they agree.
THEOREM DenseUnlessTornHolds == Spec => []DenseUnlessTorn
<1>1. Inv => DenseUnlessTorn
  <2> SUFFICES ASSUME Inv, Settled, ~torn PROVE Dense
    BY DEF DenseUnlessTorn
  <2>1. built = last /\ built # 0 /\ ~running /\ owed = {}
    BY Ranges DEF Settled, Inv, FactTypes
  <2> QED
    BY <2>1 DEF Inv, Stands, Dense, Periods
<1> QED
  BY <1>1, Invariance, PTL

\* The closure reaches every row that the dirty periods are read from (balances.py:75-94),
\* so that a selective build is as good as a rewrite.
THEOREM FiguresAreFullHolds == Spec => []FiguresAreFull
<1>1. Inv => FiguresAreFull
  <2> SUFFICES ASSUME Inv, Settled, ~torn, NEW p \in Held, NEW c \in DOMAIN agg[p]
               PROVE  LET row == agg[p][c] IN
                      /\ row.reported = Reported(c, p)
                      /\ posted[c][p] # Silent => row.type = TypeOf(c, p)
                      /\ (\A q \in Window(p) : Own(c, q)) => row.read = Row(c, p).read
    BY DEF FiguresAreFull
  <2>1. built = last /\ built # 0 /\ ~running /\ owed = {}
    BY Ranges DEF Settled, Inv, FactTypes
  <2>2. p \in Periods /\ c \in Combos /\ FactTypes /\ last \in Ends
    BY <2>1 DEF Inv, Stands, Periods, TableTypes, FactTypes
  <2>3. Good(c, p)
    BY <2>1 DEF Inv, Accounted, Owing
  <2>4. Window(p) = Span(p)
    BY <2>2, SpanIsWindow
  <2>5. (\A q \in Span(p) : Own(c, q)) => Row(c, p).read = [q \in Span(p) |-> Figure(c, q)]
    BY <2>2, RowIsGood
  <2> QED
    BY <2>2, <2>3, <2>4, <2>5, TypeOfIsAType DEF Good
<1> QED
  BY <1>1, Invariance, PTL
==========================================================================
