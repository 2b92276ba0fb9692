-------------------------- MODULE DimensionsProofs --------------------------
(***************************************************************************)
(* Dimensions: for any number of dates, periods, values and loads, the     *)
(* intervals built from the versions cut the dates up, and selective       *)
(* recomputation leaves no entry with a value that is not in force unless  *)
(* its period is owed.                                                     *)
(***************************************************************************)
EXTENDS Dimensions, WellFoundedInduction, TLAPS

Histories == [Days -> Values \cup {Absent}]

\* A nonempty set of dates has an earliest and a latest.
LEMMA SomeEarliest ==
  ASSUME NEW S \in SUBSET Nat, S # {}
  PROVE  Earliest(S) \in S /\ \A e \in S : Earliest(S) <= e
<1> DEFINE R == OpToRel(<, Nat)
<1>1. IsWellFoundedOn(R, Nat)
  BY NatLessThanWellFounded
<1>2. PICK x \in S : \A y \in S : <<y, x>> \notin R
  <2> HIDE DEF R
  <2> QED
    BY <1>1, WFMin
<1>3. \A y \in S : <<y, x>> \in R \/ ~(y < x)
  BY DEF OpToRel
<1>4. \A y \in S : ~(y < x)
  BY <1>2, <1>3, Zenon
<1>5. \A y \in S : x <= y
  BY <1>4
<1> QED
  BY <1>5 DEF Earliest

LEMMA SomeLatest ==
  ASSUME NEW S \in SUBSET Days, S # {}
  PROVE  Latest(S) \in S /\ \A e \in S : e <= Latest(S)
<1> DEFINE T == {LastDay - e : e \in S}
<1>1. T \in SUBSET Nat /\ T # {}
  BY DaysAssumption DEF Days
<1>2. PICK x \in T : \A y \in T : x <= y
  <2> HIDE DEF T
  <2> QED
    BY <1>1, SomeEarliest
<1>3. PICK m \in S : x = LastDay - m
  OBVIOUS
<1>4. \A e \in S : e <= m
  <2> TAKE e \in S
  <2>1. LastDay - m <= LastDay - e
    BY <1>2, <1>3
  <2> HIDE DEF T
  <2>2. LastDay \in Int /\ m \in Int /\ e \in Int
    BY DaysAssumption DEF Days
  <2> QED
    BY <2>1, <2>2
<1> QED
  BY <1>4 DEF Latest

-----------------------------------------------------------------------------
(***************************************************************************)
(* The intervals of a history.                                             *)
(***************************************************************************)
LEMMA DistinctAreVersions ==
  ASSUME NEW t \in Histories
  PROVE  Distinct(t) \subseteq Versions(t) /\ Versions(t) \subseteq Days /\ Days \subseteq Nat
<1>1. Distinct(t) \subseteq Versions(t) /\ Versions(t) \subseteq Days
  BY Zenon DEF Distinct, Versions
<1>2. Days \subseteq Nat
  BY DaysAssumption DEF Days
<1> QED
  BY <1>1, <1>2

\* An interval ends on the date before the next one, and not before it began.
LEMMA Ends ==
  ASSUME NEW t \in Histories, NEW d \in Distinct(t)
  PROVE  /\ ValidTo(Distinct(t), d) \in Days \cup {FarFuture}
         /\ d <= ValidTo(Distinct(t), d)
         /\ \A e \in Distinct(t) : e > d => ValidTo(Distinct(t), d) < e
         /\ \A x \in Days : x <= ValidTo(Distinct(t), d)
                              \/ \E e \in Distinct(t) : d < e /\ e <= x
<1> DEFINE after == {e \in Distinct(t) : e > d}
<1>0. d \in Days /\ after \in SUBSET Days /\ after \in SUBSET Nat
  BY DistinctAreVersions
<1>1. CASE after = {}
  <2>1. ValidTo(Distinct(t), d) = FarFuture
    BY <1>1 DEF ValidTo
  <2> QED
    BY <2>1, <1>0, <1>1, DaysAssumption DEF FarFuture, Days
<1>2. CASE after # {}
  <2>1. Earliest(after) \in after /\ \A e \in after : Earliest(after) <= e
    <3> HIDE DEF after
    <3> QED
      BY <1>0, <1>2, SomeEarliest
  <2>2. ValidTo(Distinct(t), d) = Earliest(after) - 1
    BY <1>2 DEF ValidTo
  <2>3. Earliest(after) \in Days /\ Earliest(after) > d /\ Earliest(after) \in Distinct(t)
    BY <2>1, <1>0
  <2>4. \A e \in Distinct(t) : e \in Int /\ (e > d => Earliest(after) <= e)
    BY <2>1, DistinctAreVersions DEF Days
  <2> HIDE DEF after
  <2>5. Earliest(after) - 1 \in Days
    BY <2>3, <1>0, DaysAssumption DEF Days
  <2> QED
    BY <2>2, <2>3, <2>4, <2>5, <1>0, DaysAssumption DEF Days
<1> QED
  BY <1>1, <1>2

LEMMA IntervalsType ==
  ASSUME NEW t \in Histories
  PROVE  Intervals(t) \subseteq Interval
<1>1. \A d \in Distinct(t) : d \in Days /\ t[d] \in Values
  BY DistinctAreVersions DEF Versions, Histories
<1>2. \A d \in Distinct(t) : ValidTo(Distinct(t), d) \in Days \cup {FarFuture}
  BY Ends
<1>3. \A d \in Distinct(t) :
        [from |-> d, to |-> ValidTo(Distinct(t), d), value |-> t[d]] \in Interval
  BY <1>1, <1>2 DEF Interval
<1> QED
  BY <1>3, Zenon DEF Intervals

\* What an interval that covers a date is.
LEMMA CoveringIs ==
  ASSUME NEW t \in Histories, NEW d \in Days, NEW i \in Covering(Intervals(t), d)
  PROVE  /\ i.from \in Distinct(t) /\ i.value = t[i.from] /\ i.to = ValidTo(Distinct(t), i.from)
         /\ i.from <= d /\ d <= ValidTo(Distinct(t), i.from)
         /\ i = [from |-> i.from, to |-> ValidTo(Distinct(t), i.from), value |-> t[i.from]]
<1>1. PICK e \in Distinct(t) :
        i = [from |-> e, to |-> ValidTo(Distinct(t), e), value |-> t[e]]
  BY Zenon DEF Covering, Intervals
<1>2. i.from = e /\ i.to = ValidTo(Distinct(t), e) /\ i.value = t[e]
  BY <1>1
<1>3. i.from <= d /\ d <= i.to
  BY DEF Covering
<1> QED
  BY <1>1, <1>2, <1>3

\* No two intervals share a date.
LEMMA CoveredOnce ==
  ASSUME NEW t \in Histories, NEW d \in Days,
         NEW i \in Covering(Intervals(t), d), NEW j \in Covering(Intervals(t), d)
  PROVE  i = j
<1>1. \A k, l \in Covering(Intervals(t), d) : ~(k.from < l.from)
  <2> SUFFICES ASSUME NEW k \in Covering(Intervals(t), d), NEW l \in Covering(Intervals(t), d),
                      k.from < l.from
               PROVE  FALSE
    OBVIOUS
  <2>1. k.from \in Distinct(t) /\ l.from \in Distinct(t)
        /\ d <= ValidTo(Distinct(t), k.from) /\ l.from <= d
    BY CoveringIs
  <2>2. ValidTo(Distinct(t), k.from) < l.from /\ ValidTo(Distinct(t), k.from) \in Days \cup {FarFuture}
    BY <2>1, Ends, DistinctAreVersions DEF Days
  <2> QED
    BY <2>1, <2>2, DistinctAreVersions, DaysAssumption DEF Days, FarFuture
<1>2. i.from \in Nat /\ j.from \in Nat
  BY CoveringIs, DistinctAreVersions
<1>3. i.from = j.from
  BY <1>1, <1>2
<1> QED
  BY <1>3, CoveringIs

\* A date some version has taken effect by is in an interval.
LEMMA CoveredAtLeastOnce ==
  ASSUME NEW t \in Histories, NEW d \in Days, NEW v \in Versions(t), v <= d
  PROVE  Covering(Intervals(t), d) # {}
<1> DEFINE begun == {e \in Distinct(t) : e <= d}
<1>1. PICK m \in Versions(t) : \A e \in Versions(t) : m <= e
  BY SomeEarliest, DistinctAreVersions
<1>2. {e \in Versions(t) : e < m} = {}
  BY <1>1, DistinctAreVersions DEF Days
<1>3. m \in Distinct(t)
  BY <1>1, <1>2 DEF Distinct
<1>4. m <= d
  BY <1>1, DistinctAreVersions DEF Days
<1>5. begun # {} /\ begun \in SUBSET Days
  BY <1>3, <1>4, DistinctAreVersions
<1>6. PICK w \in begun : \A e \in begun : e <= w
  <2> HIDE DEF begun
  <2> QED
    BY <1>5, SomeLatest
<1>7. w \in Distinct(t) /\ w <= d /\ w \in Days
  BY <1>6, DistinctAreVersions
<1>8. ~ \E e \in Distinct(t) : w < e /\ e <= d
  BY <1>6, DistinctAreVersions DEF Days
<1>9. d <= ValidTo(Distinct(t), w)
  BY <1>7, <1>8, Ends
<1> DEFINE i == [from |-> w, to |-> ValidTo(Distinct(t), w), value |-> t[w]]
<1>10. i \in Intervals(t) /\ i.from <= d /\ d <= i.to
  BY <1>7, <1>9 DEF Intervals
<1> QED
  BY <1>10 DEF Covering

\* Inside an interval every version carries what the interval carries: the one before
\* it in the interval does, and it is collapsed into that one.
LEMMA OneValueInside ==
  ASSUME NEW t \in Histories, NEW d \in Days, NEW i \in Covering(Intervals(t), d),
         NEW v \in Versions(t), i.from <= v, v <= d
  PROVE  t[v] = t[i.from]
<1> DEFINE differ == {e \in Versions(t) : i.from <= e /\ e <= d /\ t[e] # t[i.from]}
<1> SUFFICES ASSUME differ # {}
             PROVE  FALSE
  OBVIOUS
<1>0. i.from \in Distinct(t) /\ i.from \in Versions(t) /\ d <= ValidTo(Distinct(t), i.from)
  BY CoveringIs, DistinctAreVersions
<1>1. differ \in SUBSET Nat
  BY DistinctAreVersions
<1>2. PICK m \in differ : \A e \in differ : m <= e
  <2> HIDE DEF differ
  <2> QED
    BY <1>1, SomeEarliest
<1>3. m \in Versions(t) /\ m <= d /\ i.from < m /\ t[m] # t[i.from]
  BY <1>0, <1>2, DistinctAreVersions DEF Days
<1>4. m \notin Distinct(t)
  <2> SUFFICES ASSUME m \in Distinct(t)
               PROVE  FALSE
    OBVIOUS
  <2>1. ValidTo(Distinct(t), i.from) < m /\ ValidTo(Distinct(t), i.from) \in Days \cup {FarFuture}
    BY <1>0, <1>3, Ends, DistinctAreVersions DEF Days
  <2> QED
    BY <2>1, <1>0, <1>3, DistinctAreVersions, DaysAssumption DEF Days, FarFuture
<1> DEFINE before == {e \in Versions(t) : e < m}
<1>5. before # {} /\ t[Latest(before)] = t[m]
  BY <1>3, <1>4 DEF Distinct
<1>6. before \in SUBSET Days /\ i.from \in before
  BY <1>0, <1>3, DistinctAreVersions
<1>7. Latest(before) \in before /\ i.from <= Latest(before)
  <2> HIDE DEF before
  <2> QED
    BY <1>5, <1>6, SomeLatest
<1>8. Latest(before) \in Versions(t) /\ Latest(before) < m
  BY <1>7
<1>9. Latest(before) \notin differ
  <2> HIDE DEF before, differ
  <2> QED
    BY <1>2, <1>8, <1>3, DistinctAreVersions DEF Days
<1>10. Latest(before) <= d
  <2> HIDE DEF before, differ
  <2> QED
    BY <1>8, <1>3, DistinctAreVersions DEF Days
<1> QED
  <2> HIDE DEF before
  <2> QED
    BY <1>3, <1>5, <1>7, <1>8, <1>9, <1>10

-----------------------------------------------------------------------------
(***************************************************************************)
(* Every variable stays in its type.                                       *)
(***************************************************************************)
LEMMA MergedType ==
  ASSUME held \in Histories, NEW arriving \in Histories, ~Refused(arriving)
  PROVE  /\ Merged(arriving) \in Histories
         /\ Versions(held) \subseteq Versions(Merged(arriving))
         /\ Versions(arriving) \subseteq Versions(Merged(arriving))
         /\ Versions(Merged(arriving)) = Versions(held) \cup Versions(arriving)
         /\ \A d \in Versions(held) : Merged(arriving)[d] = held[d]
<1>1. Merged(arriving) \in Histories
  BY DEF Merged, Histories
<1>2. \A d \in Versions(held) : Merged(arriving)[d] = held[d]
  BY DEF Merged, Refused, Versions
<1>3. \A d \in Days : Merged(arriving)[d] = IF arriving[d] = Absent THEN held[d] ELSE arriving[d]
  BY DEF Merged
<1>4. \A d \in Days : Merged(arriving)[d] # Absent <=> held[d] # Absent \/ arriving[d] # Absent
  BY <1>2, <1>3 DEF Versions
<1>5. Versions(Merged(arriving)) = Versions(held) \cup Versions(arriving)
  BY <1>4 DEF Versions
<1> QED
  BY <1>1, <1>2, <1>5

LEMMA ResolveType ==
  ASSUME TypeOK, NEW V
  PROVE  Resolve(V) \subseteq Periods
<1>1. owed.periods \subseteq Periods
  BY DEF TypeOK
<1>2. \A I, v : PeriodsForVersion(I, v, Staged) \subseteq Periods
  BY DEF PeriodsForVersion, Periods, Staged
<1> QED
  BY <1>1, <1>2 DEF Resolve

LEMMA AttributedType ==
  ASSUME NEW t \in Histories, NEW d \in Days, Covering(Intervals(t), d) # {}
  PROVE  /\ Attributed(Intervals(t), d) \in Covering(Intervals(t), d)
         /\ Attributed(Intervals(t), d) \in Interval
<1>1. Attributed(Intervals(t), d) \in Covering(Intervals(t), d)
  BY DEF Attributed
<1> QED
  BY <1>1, IntervalsType DEF Covering

\* The facts as a recomputation leaves them, if every entry has an interval.
LEMMA RecomputedFacts ==
  ASSUME TypeOK, Recompute, Orphans(dims', Resolve(owed.versions)) = {}, NEW d \in Days
  PROVE  /\ facts' = [e \in Days |->
                        IF PeriodOf(e) \notin Resolve(owed.versions) THEN facts[e]
                        ELSE IF e \in entries THEN Attributed(Intervals(held), e) ELSE Absent]
         /\ PeriodOf(d) \in Resolve(owed.versions) /\ d \in entries
              => Covering(Intervals(held), d) # {}
<1>1. dims' = Intervals(held) /\ held' = held
  BY DEF Recompute
<1> QED
  BY <1>1, Zenon DEF Recompute, Orphans, TypeOK

THEOREM TypeCorrect == Spec => []TypeOK
<1>1. Init => TypeOK
  <2> SUFFICES ASSUME Init
               PROVE  TypeOK
    OBVIOUS
  <2>1. NothingOwed \in [periods : SUBSET Periods, versions : SUBSET Versions(held)]
    BY DEF NothingOwed
  <2> QED
    BY <2>1, DaysAssumption DEF Init, TypeOK
<1>2. TypeOK /\ [Next]_vars => TypeOK'
  <2> SUFFICES ASSUME TypeOK, [Next]_vars
               PROVE  TypeOK'
    OBVIOUS
  <2>0. held \in Histories
    BY DEF TypeOK, Histories
  <2>1. ASSUME NEW arriving \in Histories, MergeTable(arriving)
        PROVE  TypeOK'
    <3>1. held' \in Histories /\ Versions(held) \subseteq Versions(held')
          /\ Versions(arriving) \subseteq Versions(held')
      BY <2>0, <2>1, MergedType DEF MergeTable
    <3>2. inserted' \subseteq Versions(held') /\ unmarked' \subseteq Versions(held')
      BY <2>1, <3>1 DEF MergeTable, TypeOK
    <3>3. owed' \in [periods : SUBSET Periods, versions : SUBSET Versions(held')]
      BY <2>1, <3>1 DEF MergeTable, TypeOK
    <3>4. UNCHANGED <<entries, dims, facts, crashes>>
      BY <2>1 DEF MergeTable
    <3> QED
      BY <3>1, <3>2, <3>3, <3>4 DEF TypeOK, Histories
  <2>2. CASE Record
    <3>1. owed' \in [periods : SUBSET Periods, versions : SUBSET Versions(held')]
      BY <2>2 DEF Record, TypeOK
    <3>2. inserted' = {} /\ UNCHANGED <<held, entries, dims, facts, crashes, unmarked>>
      BY <2>2 DEF Record
    <3> QED
      BY <3>1, <3>2 DEF TypeOK, Versions
  <2>3. CASE Crash
    <3>1. crashes' \in 0 .. MaxCrashes /\ unmarked' \subseteq Versions(held) /\ inserted' = {}
      BY <2>3, DaysAssumption DEF Crash, TypeOK
    <3>2. UNCHANGED <<held, entries, owed, dims, facts>>
      BY <2>3 DEF Crash
    <3> QED
      BY <3>1, <3>2 DEF TypeOK, Versions
  <2>4. ASSUME NEW d \in Days, LoadEntry(d)
        PROVE  TypeOK'
    <3>1. owed' \in [periods : SUBSET Periods, versions : SUBSET Versions(held)]
      BY <2>4 DEF LoadEntry, TypeOK, Periods
    <3>2. entries' \subseteq Days /\ UNCHANGED <<held, inserted, dims, facts, crashes, unmarked>>
      BY <2>4 DEF LoadEntry, TypeOK
    <3> QED
      BY <3>1, <3>2 DEF TypeOK, Versions
  <2>5. CASE Recompute
    <3>1. dims' = Intervals(held) /\ UNCHANGED <<held, inserted, entries, crashes, unmarked>>
      BY <2>5 DEF Recompute
    <3>2. dims' \subseteq Interval
      BY <2>0, <3>1, IntervalsType
    <3>3. /\ facts' \in [Days -> Interval \cup {Absent}]
          /\ owed' \in [periods : SUBSET Periods, versions : SUBSET Versions(held)]
      <4>1. CASE Orphans(dims', Resolve(owed.versions)) # {}
        BY <2>5, <4>1 DEF Recompute, TypeOK
      <4>2. CASE Orphans(dims', Resolve(owed.versions)) = {}
        <5>1. \A d \in Days : PeriodOf(d) \in Resolve(owed.versions) /\ d \in entries
                => Attributed(Intervals(held), d) \in Interval
          BY <2>0, <2>5, <4>2, RecomputedFacts, AttributedType
        <5>2. \A d \in Days : facts[d] \in Interval \cup {Absent}
          BY DEF TypeOK
        <5>3. facts' = [e \in Days |->
                        IF PeriodOf(e) \notin Resolve(owed.versions) THEN facts[e]
                        ELSE IF e \in entries THEN Attributed(Intervals(held), e) ELSE Absent]
          BY <2>5, <4>2, RecomputedFacts, DaysAssumption DEF Days
        <5>4. facts' \in [Days -> Interval \cup {Absent}]
          BY <5>1, <5>2, <5>3
        <5>5. owed' = NothingOwed
          BY <2>5, <4>2, Zenon DEF Recompute
        <5> QED
          BY <5>4, <5>5 DEF NothingOwed
      <4> QED
        BY <4>1, <4>2
    <3> QED
      BY <3>1, <3>2, <3>3 DEF TypeOK, Versions
  <2>6. CASE UNCHANGED vars
    BY <2>6 DEF vars, TypeOK, Versions
  <2> QED
    BY <2>1, <2>2, <2>3, <2>4, <2>5, <2>6 DEF Next, Histories
<1> QED
  BY <1>1, <1>2, PTL DEF Spec

-----------------------------------------------------------------------------
(***************************************************************************)
(* What the intervals and raw keep.                                        *)
(***************************************************************************)
\* raw never restates and never forgets a version, whatever an extract does to it.
THEOREM HistoryKeptHolds == Spec => HistoryKept
<1>1. TypeOK /\ [Next]_vars => [\A d \in Versions(held) : held'[d] = held[d]]_vars
  <2> SUFFICES ASSUME TypeOK, Next
               PROVE  \A d \in Versions(held) : held'[d] = held[d]
    OBVIOUS
  <2>1. held \in Histories
    BY DEF TypeOK, Histories
  <2>2. ASSUME NEW arriving \in Histories, MergeTable(arriving)
        PROVE  \A d \in Versions(held) : held'[d] = held[d]
    BY <2>1, <2>2, MergedType DEF MergeTable
  <2>3. CASE Record \/ Crash \/ Recompute \/ \E d \in Days : LoadEntry(d)
    BY <2>3 DEF Record, Crash, Recompute, LoadEntry
  <2> QED
    BY <2>2, <2>3 DEF Next, Histories
<1> QED
  BY <1>1, TypeCorrect, PTL DEF Spec, HistoryKept

\* The intervals of any history cut up the dates from its first version on.
LEMMA CutUp ==
  ASSUME held \in Histories, NEW d \in Days
  PROVE  /\ \A i, j \in Covering(Intervals(held), d) : i = j
         /\ Covering(Intervals(held), d) = {} <=> InForce(d) = Absent
<1> DEFINE by == {e \in Versions(held) : e <= d}
<1>0. by \in SUBSET Days
  BY DistinctAreVersions
<1>1. CASE by = {}
  <2>1. InForce(d) = Absent
    BY <1>1 DEF InForce
  <2>2. \A i \in Covering(Intervals(held), d) : i.from \in by
    BY CoveringIs, DistinctAreVersions
  <2> QED
    BY <1>1, <2>1, <2>2
<1>2. CASE by # {}
  <2>1. Latest(by) \in by
    <3> HIDE DEF by
    <3> QED
      BY <1>0, <1>2, SomeLatest
  <2>2. InForce(d) # Absent
    BY <1>2, <2>1 DEF InForce, Versions
  <2>3. Covering(Intervals(held), d) # {}
    BY <1>2, CoveredAtLeastOnce
  <2> QED
    BY <2>2, <2>3, CoveredOnce
<1> QED
  BY <1>1, <1>2, CoveredOnce

\* No entry is multiplied, and none loses the attribution it could have.
THEOREM OneIntervalEachHolds == Spec => []OneIntervalEach
<1>1. TypeOK => OneIntervalEach
  <2> SUFFICES ASSUME TypeOK, NEW d \in Days
               PROVE  /\ \A i, j \in Covering(Intervals(held), d) : i = j
                      /\ Covering(Intervals(held), d) = {} <=> InForce(d) = Absent
    BY DEF OneIntervalEach
  <2>1. held \in Histories
    BY DEF TypeOK, Histories
  <2> QED
    BY <2>1, CutUp
<1> QED
  BY <1>1, TypeCorrect, PTL

-----------------------------------------------------------------------------
(***************************************************************************)
(* What is attributed.  A staged entry whose period is not owed carries    *)
(* what the versions that are neither owed nor waiting for their mark put  *)
(* in force on its date: those were there at every recomputation since the *)
(* last that wrote the entry.  A merge, a mark and a load do not change    *)
(* those versions.  A recomputation makes them all the versions held, and  *)
(* the dates where that changes what is in force lie in an interval that   *)
(* an owed version begins.                                                 *)
(***************************************************************************)
InForceBy(S, d) ==
  LET by == {e \in S : e <= d} IN IF by = {} THEN Absent ELSE held[Latest(by)]

Settled == Versions(held) \ (owed.versions \cup inserted)

AttributionInv ==
  unmarked = {} =>
    \A d \in Staged : facts[d].value = InForceBy(Settled, d) \/ PeriodOf(d) \in owed.periods

\* Where no version of V begins the interval of a date, what was in force before V
\* still is.
LEMMA NotReached ==
  ASSUME TypeOK, NEW V, V \subseteq Versions(held), NEW d \in Staged,
         facts[d].value = InForceBy(Versions(held) \ V, d),
         PeriodOf(d) \notin Resolve(V)
  PROVE  facts[d].value = InForce(d)
<1> DEFINE by == {e \in Versions(held) : e <= d}
           before == {e \in Versions(held) \ V : e <= d}
<1>0. held \in Histories /\ d \in Days
  BY DEF TypeOK, Histories, Staged
<1>1. facts[d] \in Interval
  BY <1>0 DEF TypeOK, Staged
<1>2. facts[d].value # Absent
  BY <1>1, AbsentAssumption DEF Interval
<1>3. before # {} /\ facts[d].value = held[Latest(before)]
  BY <1>2 DEF InForceBy
<1>4. before \subseteq by /\ by \in SUBSET Days /\ by # {}
  BY <1>3, DistinctAreVersions, <1>0
<1>5. PICK i \in Covering(Intervals(held), d) : TRUE
  <2>1. \E e \in Versions(held) : e <= d
    BY <1>3, <1>4
  <2> QED
    BY <2>1, <1>0, CoveredAtLeastOnce
<1>6. i.from \in Versions(held) /\ i.from <= d /\ i.from \in by
  BY <1>0, CoveringIs, DistinctAreVersions
<1>7. i.from \notin V
  <2> SUFFICES ASSUME i.from \in V
               PROVE  FALSE
    OBVIOUS
  <2>1. PeriodOf(d) \in PeriodsForVersion(Intervals(held), i.from, Staged)
    BY <1>0 DEF PeriodsForVersion
  <2> QED
    BY <2>1 DEF Resolve
<1>8. i.from \in before
  BY <1>6, <1>7
<1>9. Latest(by) \in by /\ i.from <= Latest(by)
  <2> HIDE DEF by
  <2> QED
    BY <1>4, <1>6, SomeLatest
<1>10. Latest(before) \in before /\ i.from <= Latest(before)
  <2> HIDE DEF by, before
  <2> QED
    BY <1>3, <1>4, <1>8, SomeLatest
<1>11. held[Latest(by)] = held[i.from]
  <2>1. Latest(by) \in Versions(held) /\ Latest(by) <= d
    BY <1>9
  <2> HIDE DEF by
  <2> QED
    BY <2>1, <1>0, <1>9, OneValueInside
<1>12. held[Latest(before)] = held[i.from]
  <2>1. Latest(before) \in Versions(held) /\ Latest(before) <= d
    BY <1>10
  <2> HIDE DEF before
  <2> QED
    BY <2>1, <1>0, <1>10, OneValueInside
<1>13. InForce(d) = held[Latest(by)]
  BY <1>4 DEF InForce
<1> QED
  BY <1>3, <1>11, <1>12, <1>13

\* An entry that is attributed anew carries what is in force on its date.
LEMMA AttributedInForce ==
  ASSUME held \in Histories, NEW d \in Days, Covering(Intervals(held), d) # {}
  PROVE  Attributed(Intervals(held), d).value = InForce(d)
<1> DEFINE i == Attributed(Intervals(held), d)
           by == {e \in Versions(held) : e <= d}
<1>1. i \in Covering(Intervals(held), d)
  BY AttributedType
<1>2. i.from \in Versions(held) /\ i.from <= d /\ i.value = held[i.from]
  <2> HIDE DEF i
  <2> QED
    BY <1>1, CoveringIs, DistinctAreVersions
<1>3. by # {} /\ by \in SUBSET Days /\ i.from \in by
  BY <1>2, DistinctAreVersions
<1>4. Latest(by) \in by /\ i.from <= Latest(by)
  <2> HIDE DEF i, by
  <2> QED
    BY <1>3, SomeLatest
<1>5. Latest(by) \in Versions(held) /\ Latest(by) <= d
  BY <1>4
<1>6. held[Latest(by)] = held[i.from]
  <2> HIDE DEF i, by
  <2> QED
    BY <1>1, <1>4, <1>5, OneValueInside
<1>7. InForce(d) = held[Latest(by)]
  BY <1>3 DEF InForce
<1> QED
  BY <1>2, <1>6, <1>7

\* However versions arrive late, are collapsed or land between others, a staged entry
\* carries what is in force on its date or its period is owed.
THEOREM AttributedOrOwedHolds == Spec => []AttributedOrOwed
<1>1. Init => AttributionInv
  BY DEF Init, AttributionInv, Staged
<1>2. TypeOK /\ AttributionInv /\ [Next]_vars => AttributionInv'
  <2> SUFFICES ASSUME TypeOK, AttributionInv, [Next]_vars, unmarked' = {}
               PROVE  \A d \in Staged' : \/ facts'[d].value = InForceBy(Settled, d)'
                                         \/ PeriodOf(d) \in owed'.periods
    BY DEF AttributionInv
  <2>0. held \in Histories
    BY DEF TypeOK, Histories
  <2>1. ASSUME NEW arriving \in Histories, MergeTable(arriving)
        PROVE  \A d \in Staged' : \/ facts'[d].value = InForceBy(Settled, d)'
                                  \/ PeriodOf(d) \in owed'.periods
    <3>1. /\ Versions(held') = Versions(held) \cup Versions(arriving)
          /\ \A d \in Versions(held) : held'[d] = held[d]
      BY <2>0, <2>1, MergedType DEF MergeTable
    <3>2. inserted = {} /\ inserted' = Versions(arriving) \ Versions(held)
      BY <2>1 DEF MergeTable, Loading
    <3>3. Settled' = Settled /\ Settled \subseteq Versions(held) /\ Settled \in SUBSET Days
      <4>1. owed.versions \subseteq Versions(held) /\ owed' = owed
        BY <2>1 DEF MergeTable, TypeOK
      <4> QED
        BY <3>1, <3>2, <4>1, <2>0, DistinctAreVersions DEF Settled
    <3>4. \A d \in Days : InForceBy(Settled, d)' = InForceBy(Settled, d)
      <4> TAKE d \in Days
      <4> DEFINE by == {e \in Settled : e <= d}
      <4>1. CASE by = {}
        BY <3>3, <4>1 DEF InForceBy
      <4>2. CASE by # {}
        <5>1. Latest(by) \in by
          <6>1. by \in SUBSET Days
            BY <3>3
          <6> HIDE DEF by
          <6> QED
            BY <6>1, <4>2, SomeLatest
        <5>2. held'[Latest(by)] = held[Latest(by)]
          BY <5>1, <3>1, <3>3
        <5> QED
          BY <3>3, <4>2, <5>2 DEF InForceBy
      <4> QED
        BY <4>1, <4>2
    <3>5. Staged' = Staged /\ facts' = facts /\ owed' = owed /\ unmarked' = unmarked
      BY <2>1 DEF MergeTable, Staged
    <3> QED
      BY <3>4, <3>5 DEF AttributionInv, Staged
  <2>2. CASE Record
    <3>1. held' = held /\ facts' = facts /\ unmarked' = unmarked
          /\ owed'.periods = owed.periods
          /\ owed'.versions = owed.versions \cup inserted /\ inserted' = {}
      BY <2>2 DEF Record, TypeOK
    <3>2. Settled' = Settled
      BY <3>1 DEF Settled, Versions
    <3> QED
      BY <3>1, <3>2 DEF AttributionInv, Staged, InForceBy
  <2>3. CASE Crash
    BY <2>3 DEF Crash, Loading
  <2>4. ASSUME NEW d \in Days, LoadEntry(d)
        PROVE  \A e \in Staged' : \/ facts'[e].value = InForceBy(Settled, e)'
                                  \/ PeriodOf(e) \in owed'.periods
    <3>1. held' = held /\ inserted' = inserted /\ facts' = facts /\ unmarked' = unmarked
          /\ owed.periods \subseteq owed'.periods /\ owed'.versions = owed.versions
      BY <2>4 DEF LoadEntry, TypeOK
    <3>2. Settled' = Settled
      BY <3>1 DEF Settled, Versions
    <3> QED
      BY <3>1, <3>2 DEF AttributionInv, Staged, InForceBy
  <2>5. CASE Recompute
    <3>0. held' = held /\ inserted' = {} /\ inserted = {} /\ unmarked' = unmarked
      BY <2>5 DEF Recompute, Loading
    <3>1. CASE Orphans(dims', Resolve(owed.versions)) # {}
      <4>1. facts' = facts /\ owed' = owed
        BY <2>5, <3>1, Zenon DEF Recompute
      <4>2. Settled' = Settled
        BY <3>0, <4>1 DEF Settled, Versions
      <4> QED
        BY <3>0, <4>1, <4>2 DEF AttributionInv, Staged, InForceBy
    <3>2. CASE Orphans(dims', Resolve(owed.versions)) = {}
      <4>1. owed' = NothingOwed
        BY <2>5, <3>2, Zenon DEF Recompute
      <4>2. Settled' = Versions(held) /\ Settled = Versions(held) \ owed.versions
        BY <3>0, <4>1 DEF Settled, NothingOwed, Versions
      <4>3. \A d \in Days : InForceBy(Settled, d)' = InForce(d)
        BY <3>0, <4>2 DEF InForceBy, InForce
      <4>4. facts' = [e \in Days |->
                        IF PeriodOf(e) \notin Resolve(owed.versions) THEN facts[e]
                        ELSE IF e \in entries THEN Attributed(Intervals(held), e) ELSE Absent]
        BY <2>5, <3>2, RecomputedFacts, DaysAssumption DEF Days
      <4>5. ASSUME NEW d \in Days, facts'[d] # Absent
            PROVE  facts'[d].value = InForce(d)
        <5>1. CASE PeriodOf(d) \notin Resolve(owed.versions)
          <6>1. facts'[d] = facts[d] /\ d \in Staged
            BY <4>4, <4>5, <5>1 DEF Staged
          <6>2. PeriodOf(d) \notin owed.periods
            BY <5>1 DEF Resolve
          <6>3. facts[d].value = InForceBy(Versions(held) \ owed.versions, d)
            BY <3>0, <4>2, <6>1, <6>2 DEF AttributionInv
          <6>4. owed.versions \subseteq Versions(held)
            BY DEF TypeOK
          <6> QED
            BY <5>1, <6>1, <6>3, <6>4, NotReached
        <5>2. CASE PeriodOf(d) \in Resolve(owed.versions)
          <6>1. d \in entries /\ facts'[d] = Attributed(Intervals(held), d)
            BY <4>4, <4>5, <5>2
          <6>2. Covering(Intervals(held), d) # {}
            BY <2>5, <3>2, <5>2, <6>1, RecomputedFacts
          <6> QED
            BY <2>0, <6>1, <6>2, AttributedInForce
        <5> QED
          BY <5>1, <5>2
      <4> QED
        BY <4>3, <4>5 DEF Staged
    <3> QED
      BY <3>1, <3>2
  <2>6. CASE UNCHANGED vars
    <3>1. held' = held /\ inserted' = inserted /\ facts' = facts /\ owed' = owed
          /\ unmarked' = unmarked
      BY <2>6 DEF vars
    <3>2. Settled' = Settled
      BY <3>1 DEF Settled, Versions
    <3> QED
      BY <3>1, <3>2 DEF AttributionInv, Staged, InForceBy
  <2> QED
    BY <2>1, <2>2, <2>3, <2>4, <2>5, <2>6 DEF Next, Histories
<1>3. TypeOK /\ AttributionInv => AttributedOrOwed
  <2> SUFFICES ASSUME TypeOK, AttributionInv, unmarked = {}, NEW d \in Staged,
                      PeriodOf(d) \notin Resolve(owed.versions \cup inserted)
               PROVE  facts[d].value = InForce(d)
    BY DEF AttributedOrOwed
  <2>1. PeriodOf(d) \notin owed.periods
    BY DEF Resolve
  <2>2. facts[d].value = InForceBy(Versions(held) \ (owed.versions \cup inserted), d)
    BY <2>1 DEF AttributionInv, Settled
  <2>3. owed.versions \cup inserted \subseteq Versions(held)
    BY DEF TypeOK
  <2> QED
    BY <2>2, <2>3, NotReached
<1> QED
  BY <1>1, <1>2, <1>3, TypeCorrect, PTL DEF Spec
=============================================================================
