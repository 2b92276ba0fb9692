---------------------------- MODULE RawLoadProofs ----------------------------
(***************************************************************************)
(* The safety properties of RawLoad, for every set of keys and values and  *)
(* for every value of the bounds.                                          *)
(***************************************************************************)
EXTENDS RawLoad, WellFoundedInduction, TLAPS

\* A nonempty set of naturals has a smallest element; one below a bound has a
\* largest, and that is what Largest picks.
LEMMA SmallestOf ==
  ASSUME NEW S \in SUBSET Nat, S # {}
  PROVE  \E x \in S : \A y \in S : x <= y
<1> DEFINE R == OpToRel(<, Nat)
<1>1. IsWellFoundedOn(R, Nat)
  BY NatLessThanWellFounded
<1>2. PICK x \in S : \A y \in S : <<y, x>> \notin R
  <2> HIDE DEF R
  <2> QED
    BY <1>1, WFMin
<1>3. \A y \in S : <<y, x>> \in R \/ ~(y < x)
  BY DEF OpToRel
<1>4. \A y \in S : ~(y < x)
  BY <1>2, <1>3, Zenon
<1> QED
  BY <1>4

LEMMA LargestOf ==
  ASSUME NEW N \in Nat, NEW S \in SUBSET (0 .. N), S # {}
  PROVE  Largest(S) \in S /\ \A q \in S : q <= Largest(S)
<1>0. \A q \in S : q \in Int
  OBVIOUS
<1> DEFINE T == {N - q : q \in S}
<1>1. T \in SUBSET Nat
  OBVIOUS
<1>2. T # {}
  OBVIOUS
<1>3. PICK t \in T : \A u \in T : t <= u
  <2> HIDE DEF T
  <2> QED
    BY <1>1, <1>2, SmallestOf
<1>4. PICK m \in S : t = N - m
  OBVIOUS
<1>5. \A q \in S : q <= m
  <2> TAKE q \in S
  <2>1. N - m <= N - q
    BY <1>3, <1>4
  <2> HIDE DEF T
  <2>2. q \in Int /\ m \in Int
    BY <1>0
  <2>3. N \in Int
    OBVIOUS
  <2> QED
    BY <2>1, <2>2, <2>3
<1> QED
  BY <1>5 DEF Largest

-----------------------------------------------------------------------------
\* What Begin reads is a batch of source rows and of runs already known.
LEMMA WindowType ==
  ASSUME TypeOK, NEW full \in BOOLEAN
  PROVE  Window(full) \in [Keys -> Row \cup {Absent}]
BY DEF TypeOK, Window

LEMMA PriorType ==
  ASSUME TypeOK
  PROVE  PriorFirstRuns \in [Keys -> 0 .. MaxRun]
<1> SUFFICES ASSUME NEW k \in Keys, Holders(k) # {}
             PROVE  raw[Largest(Holders(k))][k].first \in 0 .. MaxRun
  BY BoundsAssumption DEF PriorFirstRuns
<1>1. Holders(k) \in SUBSET (0 .. MaxPeriod)
  BY BoundsAssumption DEF Holders, Periods
<1>2. Largest(Holders(k)) \in Holders(k)
  BY <1>1, LargestOf, BoundsAssumption
<1>3. raw[Largest(Holders(k))][k] \in Landed
  BY <1>2 DEF Holders, TypeOK
<1> QED
  BY <1>3 DEF Landed, Runs

\* Merging writes a landed row for every incoming key, and leaves the others alone.
LEMMA MergedType ==
  ASSUME TypeOK, NEW p \in Periods
  PROVE  /\ Merged(p) \in [Keys -> Landed \cup {Absent}]
         /\ \A k \in Incoming(p) : /\ Merged(p)[k] \in Landed
                                   /\ Merged(p)[k].row = batch[k]
                                   /\ Merged(p)[k].first = FirstOf(p, k)
         /\ \A k \in Keys \ Incoming(p) : Merged(p)[k] = raw[p][k]
<1>1. \A k \in Incoming(p) : FirstOf(p, k) \in Runs
  BY BoundsAssumption DEF Incoming, FirstOf, TypeOK, Landed, Runs
<1>2. \A k \in Incoming(p) : k \in Keys /\ batch[k] \in Row
  BY DEF Incoming, TypeOK
<1> QED
  BY <1>1, <1>2 DEF Merged, TypeOK, Landed

\* A merge that changes what a partition says has touched it.
LEMMA ChangeTouches ==
  ASSUME TypeOK, NEW p \in Periods, Rows(Merged(p)) # Rows(raw[p])
  PROVE  Touched(p)
<1>1. PICK k \in Keys : Rows(Merged(p))[k] # Rows(raw[p])[k]
  BY DEF Rows
<1>2. k \in Incoming(p)
  BY <1>1, MergedType DEF Rows
<1>3. Merged(p)[k].row = batch[k] /\ Merged(p)[k] # Absent
  BY <1>2, MergedType, AbsentAssumption
<1>4. raw[p][k] = Absent \/ raw[p][k].row # batch[k]
  BY <1>1, <1>3 DEF Rows
<1> QED
  BY <1>2, <1>4 DEF Touched

\* The watermark a finished load would store is the newest posting date it has seen.
LEMMA AdvancedBounds ==
  ASSUME TypeOK
  PROVE  /\ Advanced \in 0 .. MaxDate
         /\ watermark <= Advanced
         /\ \A k \in Keys : batch[k] # Absent => batch[k].posted <= Advanced
         /\ \/ Advanced = watermark
            \/ \E k \in Keys : batch[k] # Absent /\ Advanced = batch[k].posted
<1> DEFINE seen == {batch[k].posted : k \in {j \in Keys : batch[j] # Absent}}
           S == seen \cup {watermark}
<1>1. \A k \in Keys : batch[k] # Absent => batch[k].posted \in Dates
  BY DEF TypeOK, Row
<1>2. S \in SUBSET (0 .. MaxDate) /\ S # {}
  BY <1>1, DaysAssumption DEF TypeOK, Dates
<1>3. Largest(S) \in S /\ \A q \in S : q <= Largest(S)
  BY <1>2, LargestOf, DaysAssumption
<1>4. Advanced = Largest(S)
  BY DEF Advanced
<1> QED
  BY <1>2, <1>3, <1>4
-----------------------------------------------------------------------------
\* Type correctness, one step per action.
LEMMA TypeInit == Init => TypeOK
BY DaysAssumption, BoundsAssumption
   DEF Init, TypeOK, NoRows, Dates, Runs, Phases, Periods

LEMMA TypeStep == TypeOK /\ [Next]_vars => TypeOK'
<1> SUFFICES ASSUME TypeOK, [Next]_vars
             PROVE  TypeOK'
  OBVIOUS
<1> USE DaysAssumption, BoundsAssumption
<1>1. ASSUME NEW k \in Keys, NEW r \in Row, Post(k, r)
      PROVE  TypeOK'
  <2>1. r.posted \in Dates
    BY DEF Row
  <2> QED
    BY <1>1, <2>1 DEF Post, TypeOK, disk, process
<1>2. ASSUME NEW k \in Keys, Withdraw(k)
      PROVE  TypeOK'
  BY <1>2 DEF Withdraw, TypeOK, disk, process
<1>3. ASSUME NEW full \in BOOLEAN, NEW r \in Runs, Begin(full, r)
      PROVE  TypeOK'
  <2>1. Window(full) \in [Keys -> Row \cup {Absent}]
    BY WindowType
  <2>2. PriorFirstRuns \in [Keys -> 0 .. MaxRun]
    BY PriorType
  <2>3. {Window(full)[k].period : k \in {j \in Keys : Window(full)[j] # Absent}}
          \subseteq Periods
    BY <2>1 DEF Row
  <2> HIDE DEF Window, PriorFirstRuns
  <2>4. /\ pc' \in Phases
        /\ batch' \in [Keys -> Row \cup {Absent}]
        /\ prior' \in [Keys -> 0 .. MaxRun]
        /\ todo' \subseteq Periods
    BY <1>3, <2>1, <2>2, <2>3 DEF Begin, TypeOK, Phases
  <2> QED
    BY <1>3, <2>4 DEF Begin, TypeOK, disk
<1>4. ASSUME NEW p \in Periods, Merge(p)
      PROVE  TypeOK'
  <2>1. Merged(p) \in [Keys -> Landed \cup {Absent}]
    BY MergedType
  <2>2. raw' \in [Periods -> [Keys -> Landed \cup {Absent}]]
    BY <1>4, <2>1 DEF Merge, TypeOK
  <2>3. firstRun' \in [Keys -> 0 .. MaxRun]
    BY <1>4 DEF Merge, TypeOK, Runs
  <2>4. pc' \in Phases /\ stale' \subseteq Periods
    BY <1>4 DEF Merge, TypeOK, Phases, AfterMerge
  <2> QED
    BY <1>4, <2>2, <2>3, <2>4 DEF Merge, TypeOK
<1>5. CASE Mark
  BY <1>5 DEF Mark, TypeOK, Phases, AfterMerge
<1>6. ASSUME NEW p \in Periods, SweepMark(p)
      PROVE  TypeOK'
  BY <1>6 DEF SweepMark, TypeOK, Phases
<1>7. CASE Evict
  BY <1>7 DEF Evict, TypeOK, Phases
<1>8. CASE Finish
  <2>1. Advanced \in 0 .. MaxDate
    BY AdvancedBounds
  <2> QED
    BY <1>8, <2>1 DEF Finish, TypeOK, Phases, NoRows
<1>9. CASE Crash
  BY <1>9 DEF Crash, TypeOK, Phases, NoRows, disk
<1>10. CASE Recompute
  BY <1>10 DEF Recompute, TypeOK, process
<1>11. CASE UNCHANGED vars
  BY <1>11 DEF vars, disk, process, TypeOK
<1> QED
  BY <1>1, <1>2, <1>3, <1>4, <1>5, <1>6, <1>7, <1>8, <1>9, <1>10, <1>11 DEF Next, Load

\* Every variable of the load stays in its type.
THEOREM TypeCorrect == Spec => []TypeOK
BY TypeInit, TypeStep, PTL DEF Spec

-----------------------------------------------------------------------------
(***************************************************************************)
(* The affected set.  The sweep marks a period before it writes it, so the *)
(* period being swept is owed already.                                     *)
(***************************************************************************)
OwedInv == OwedUnlessUnmarked /\ (pc = "drop" => cur \in owed)

\* A changed period is owed, or about to be, unless a crash fell between its
\* write and its mark.
THEOREM OwedUnlessUnmarkedHolds == Spec => []OwedUnlessUnmarked
<1>1. Init => OwedInv
  BY DEF Init, OwedInv, OwedUnlessUnmarked
<1>2. TypeOK /\ OwedInv /\ [Next]_vars => OwedInv'
  <2> SUFFICES ASSUME TypeOK, OwedInv, [Next]_vars
               PROVE  OwedInv'
    OBVIOUS
  <2> USE DEF OwedInv, OwedUnlessUnmarked
  <2>1. ASSUME NEW k \in Keys, NEW r \in Row, Post(k, r)
        PROVE  OwedInv'
    BY <2>1 DEF Post, disk, process
  <2>2. ASSUME NEW k \in Keys, Withdraw(k)
        PROVE  OwedInv'
    BY <2>2 DEF Withdraw, disk, process
  <2>3. ASSUME NEW full \in BOOLEAN, NEW r \in Runs, Begin(full, r)
        PROVE  OwedInv'
    BY <2>3 DEF Begin, disk
  <2>4. ASSUME NEW p \in Periods, Merge(p)
        PROVE  OwedInv'
    <3>1. stale' \subseteq stale \cup {p} /\ (stale' # stale => Touched(p))
      BY <2>4, ChangeTouches DEF Merge
    <3> QED
      BY <2>4, <3>1 DEF Merge, AfterMerge
  <2>5. CASE Mark
    BY <2>5 DEF Mark, AfterMerge
  <2>6. ASSUME NEW p \in Periods, SweepMark(p)
        PROVE  OwedInv'
    BY <2>6 DEF SweepMark
  <2>7. CASE Evict
    BY <2>7 DEF Evict
  <2>8. CASE Finish
    BY <2>8 DEF Finish
  <2>9. CASE Crash
    BY <2>9 DEF Crash, disk
  <2>10. CASE Recompute
    BY <2>10 DEF Recompute, process
  <2>11. CASE UNCHANGED vars
    BY <2>11 DEF vars, disk, process
  <2> QED
    BY <2>1, <2>2, <2>3, <2>4, <2>5, <2>6, <2>7, <2>8, <2>9, <2>10, <2>11
       DEF Next, Load
<1>3. OwedInv => OwedUnlessUnmarked
  BY DEF OwedInv
<1> QED
  BY <1>1, <1>2, <1>3, TypeCorrect, PTL DEF Spec

-----------------------------------------------------------------------------
(***************************************************************************)
(* Landing.  The rows of the batch whose period has been merged are in     *)
(* their own partition, and the sweep starts when no period is left to do. *)
(***************************************************************************)
AtHome(k) ==
  /\ raw[batch[k].period][k] # Absent
  /\ raw[batch[k].period][k].row = batch[k]

LandInv ==
  /\ pc # "idle" =>
       \A k \in Keys : batch[k] # Absent /\ batch[k].period \notin todo => AtHome(k)
  /\ pc \in {"sweep", "drop"} => todo = {}

LEMMA LandStep == TypeOK /\ TypeOK' /\ LandInv /\ [Next]_vars => LandInv'
<1> SUFFICES ASSUME TypeOK, TypeOK', LandInv, [Next]_vars
             PROVE  LandInv'
  OBVIOUS
<1> USE DEF LandInv, AtHome
<1>1. ASSUME NEW k \in Keys, NEW r \in Row, Post(k, r)
      PROVE  LandInv'
  BY <1>1 DEF Post, disk, process
<1>2. ASSUME NEW k \in Keys, Withdraw(k)
      PROVE  LandInv'
  BY <1>2 DEF Withdraw, disk, process
<1>3. ASSUME NEW full \in BOOLEAN, NEW r \in Runs, Begin(full, r)
      PROVE  LandInv'
  <2>1. CASE pc' = "idle"
    BY <2>1
  <2>2. CASE pc' # "idle"
    <3>1. /\ pc' = "merge"
          /\ \A k \in Keys : batch'[k] # Absent => batch'[k].period \in todo'
      BY <1>3, <2>2 DEF Begin
    <3> QED
      BY <3>1
  <2> QED
    BY <2>1, <2>2
<1>4. ASSUME NEW p \in Periods, Merge(p)
      PROVE  LandInv'
  <2>1. pc' \in {"sweep", "drop"} => todo' = {}
    BY <1>4 DEF Merge, AfterMerge
  <2>2. ASSUME NEW k \in Keys, batch'[k] # Absent, batch'[k].period \notin todo'
        PROVE  AtHome(k)'
    <3>1. batch' = batch /\ batch[k] \in Row
      BY <1>4, <2>2 DEF Merge, TypeOK
    <3>2. CASE batch[k].period = p
      <4>1. k \in Incoming(p)
        BY <2>2, <3>1, <3>2 DEF Incoming
      <4>2. raw'[p][k] \in Landed /\ raw'[p][k].row = batch[k]
        BY <1>4, <4>1, MergedType DEF Merge, TypeOK
      <4> QED
        BY <3>1, <3>2, <4>2, AbsentAssumption
    <3>3. CASE batch[k].period # p
      <4>1. raw'[batch[k].period] = raw[batch[k].period]
        BY <1>4, <3>1, <3>3 DEF Merge, TypeOK, Row
      <4>2. AtHome(k)
        BY <1>4, <2>2, <3>1, <3>3 DEF Merge
      <4> QED
        BY <3>1, <4>1, <4>2
    <3> QED
      BY <3>2, <3>3
  <2> QED
    BY <2>1, <2>2
<1>5. CASE Mark
  BY <1>5 DEF Mark, AfterMerge
<1>6. ASSUME NEW p \in Periods, SweepMark(p)
      PROVE  LandInv'
  BY <1>6 DEF SweepMark
<1>7. CASE Evict
  <2>1. ASSUME NEW k \in Keys, batch[k] # Absent
        PROVE  raw'[batch[k].period][k] = raw[batch[k].period][k]
    <3>1. batch[k].period \in Periods
      BY <2>1 DEF TypeOK, Row
    <3>2. batch[k].period = cur => k \notin Moved(cur)
      BY DEF Moved
    <3> QED
      BY <1>7, <3>1, <3>2 DEF Evict, TypeOK
  <2> QED
    BY <1>7, <2>1 DEF Evict
<1>8. CASE Finish
  BY <1>8 DEF Finish
<1>9. CASE Crash
  BY <1>9 DEF Crash
<1>10. CASE Recompute
  BY <1>10 DEF Recompute, process
<1>11. CASE UNCHANGED vars
  BY <1>11 DEF vars, disk, process
<1> QED
  BY <1>1, <1>2, <1>3, <1>4, <1>5, <1>6, <1>7, <1>8, <1>9, <1>10, <1>11 DEF Next, Load

LEMMA LandInvHolds == Spec => []LandInv
<1>1. Init => LandInv
  BY DEF Init, LandInv
<1> QED
  BY <1>1, LandStep, TypeCorrect, PTL DEF Spec

\* With nothing left to merge or sweep, each row of the batch has one copy, its own.
LEMMA SweptIsLanded ==
  ASSUME TypeOK, LandInv, pc = "sweep", \A p \in Periods : Moved(p) = {},
         NEW k \in Keys, batch[k] # Absent
  PROVE  OnlyCopy(k, batch[k])
<1>1. AtHome(k) /\ batch[k].period \in Periods
  BY DEF LandInv, TypeOK, Row
<1>2. Holders(k) \subseteq {batch[k].period}
  BY DEF Holders, Moved
<1> QED
  BY <1>1, <1>2 DEF AtHome, OnlyCopy, Holders

\* When the watermark is about to move, every row of the batch has landed in its
\* own partition and in no other.
THEOREM BatchLandedHolds == Spec => []BatchLanded
<1>1. TypeOK /\ LandInv => BatchLanded
  BY SweptIsLanded DEF BatchLanded
<1> QED
  BY <1>1, LandInvHolds, TypeCorrect, PTL

\* A landed key is never forgotten: a merge only adds copies, and the sweep
\* removes a copy only when the one at home is there.
THEOREM RawNeverForgetsHolds == Spec => RawNeverForgets
<1> DEFINE Kept == \A k \in Keys : Holders(k) # {} => Holders(k)' # {}
<1>1. TypeOK /\ TypeOK' /\ LandInv /\ [Next]_vars => [Kept]_vars
  <2> SUFFICES ASSUME TypeOK, TypeOK', LandInv, Next, NEW k \in Keys, Holders(k) # {}
               PROVE  Holders(k)' # {}
    OBVIOUS
  <2>1. PICK h \in Periods : raw[h][k] # Absent
    BY DEF Holders
  <2>2. ASSUME NEW p \in Periods, Merge(p)
        PROVE  raw'[h][k] # Absent
    <3>1. Merged(p)[k] # Absent \/ h # p
      BY <2>1, MergedType, AbsentAssumption
    <3> QED
      BY <2>1, <2>2, <3>1 DEF Merge, TypeOK
  <2>3. CASE Evict
    <3>1. CASE k \in Moved(cur)
      <4>1. AtHome(k) /\ batch[k].period \in Periods /\ batch[k].period # cur
        BY <2>3, <3>1 DEF Evict, LandInv, Moved, TypeOK, Row
      <4>2. raw'[batch[k].period][k] # Absent
        BY <2>3, <4>1 DEF Evict, AtHome, TypeOK
      <4> QED
        BY <4>1, <4>2 DEF Holders
    <3>2. CASE k \notin Moved(cur)
      <4>1. raw'[h][k] # Absent
        BY <2>1, <2>3, <3>2 DEF Evict, TypeOK
      <4> QED
        BY <4>1 DEF Holders
    <3> QED
      BY <3>1, <3>2
  <2>4. CASE raw' = raw
    BY <2>1, <2>4 DEF Holders
  <2>5. \/ \E p \in Periods : Merge(p)
        \/ Evict
        \/ raw' = raw
    BY DEF Next, Load, Post, Withdraw, Begin, Mark, SweepMark, Finish, Crash, Recompute,
           disk, process
  <2> QED
    BY <2>1, <2>2, <2>3, <2>4, <2>5 DEF Holders
<1> QED
  BY <1>1, LandInvHolds, TypeCorrect, PTL DEF Spec, RawNeverForgets

-----------------------------------------------------------------------------
(***************************************************************************)
(* The run that first landed a key.  A key with a first run is held        *)
(* somewhere; and while a period is still to be merged, what the load      *)
(* looked up for its keys before it began is still what history says.      *)
(***************************************************************************)
FirstInv ==
  /\ FirstRunKept
  /\ \A k \in Keys : firstRun[k] # 0 => Holders(k) # {}
  /\ pc # "idle" =>
       \A k \in Keys : batch[k] # Absent /\ batch[k].period \in todo => prior[k] = firstRun[k]

\* The lookup of the first runs agrees with history, key by key.
LEMMA PriorIsFirst ==
  ASSUME TypeOK, FirstInv, NEW k \in Keys
  PROVE  PriorFirstRuns[k] = firstRun[k]
<1>1. CASE Holders(k) = {}
  BY <1>1 DEF PriorFirstRuns, FirstInv
<1>2. CASE Holders(k) # {}
  <2>1. Holders(k) \in SUBSET (0 .. MaxPeriod)
    BY BoundsAssumption DEF Holders, Periods
  <2>2. Largest(Holders(k)) \in Holders(k)
    BY <1>2, <2>1, LargestOf, BoundsAssumption
  <2>3. raw[Largest(Holders(k))][k].first = firstRun[k]
    BY <2>2 DEF Holders, FirstInv, FirstRunKept
  <2> QED
    BY <1>2, <2>3 DEF PriorFirstRuns
<1> QED
  BY <1>1, <1>2

LEMMA FirstStep == TypeOK /\ TypeOK' /\ LandInv /\ FirstInv /\ [Next]_vars => FirstInv'
<1> SUFFICES ASSUME TypeOK, TypeOK', LandInv, FirstInv, [Next]_vars
             PROVE  FirstInv'
  OBVIOUS
<1> USE DEF FirstInv, FirstRunKept, Holders
<1>1. ASSUME NEW k \in Keys, NEW r \in Row, Post(k, r)
      PROVE  FirstInv'
  BY <1>1 DEF Post, disk, process
<1>2. ASSUME NEW k \in Keys, Withdraw(k)
      PROVE  FirstInv'
  BY <1>2 DEF Withdraw, disk, process
<1>3. ASSUME NEW full \in BOOLEAN, NEW r \in Runs, Begin(full, r)
      PROVE  FirstInv'
  <2>1. pc' # "idle" => \A k \in Keys : prior'[k] = firstRun'[k]
    BY <1>3, PriorIsFirst DEF Begin
  <2> QED
    BY <1>3, <2>1 DEF Begin, disk
<1>4. ASSUME NEW p \in Periods, Merge(p)
      PROVE  FirstInv'
  <2>1. raw' = [raw EXCEPT ![p] = Merged(p)] /\ p \in todo /\ pc = "merge"
    BY <1>4 DEF Merge
  <2>2. ASSUME NEW k \in Incoming(p)
        PROVE  FirstOf(p, k) = firstRun'[k]
    <3>1. k \in Keys /\ batch[k] # Absent /\ batch[k].period = p
      BY <2>2 DEF Incoming
    <3>2. prior[k] = firstRun[k]
      BY <2>1, <3>1
    <3>3. firstRun'[k] = IF firstRun[k] = 0 THEN run ELSE firstRun[k]
      BY <1>4, <2>2, <3>1 DEF Merge
    <3>4. CASE raw[p][k] # Absent
      <4>1. raw[p][k].first = firstRun[k] /\ raw[p][k].first \in Runs
        BY <3>1, <3>4 DEF TypeOK, Landed
      <4> QED
        BY <3>3, <3>4, <4>1, BoundsAssumption DEF FirstOf, Runs
    <3>5. CASE raw[p][k] = Absent
      BY <3>2, <3>3, <3>5 DEF FirstOf
    <3> QED
      BY <3>4, <3>5
  <2>3. \A k \in Keys \ Incoming(p) : firstRun'[k] = firstRun[k]
    BY <1>4 DEF Merge
  <2>4. FirstRunKept'
    <3> SUFFICES ASSUME NEW q \in Periods, NEW k \in Keys, raw'[q][k] # Absent
                 PROVE  raw'[q][k].first = firstRun'[k]
      OBVIOUS
    <3>1. CASE q = p /\ k \in Incoming(p)
      BY <2>1, <2>2, <3>1, MergedType DEF TypeOK
    <3>2. CASE q = p /\ k \notin Incoming(p)
      BY <2>1, <2>3, <3>2, MergedType DEF TypeOK
    <3>3. CASE q # p
      <4>1. raw'[q] = raw[q]
        BY <2>1, <3>3 DEF TypeOK
      <4>2. raw[q][k].first = firstRun[k] /\ firstRun[k] # 0
        BY <4>1, BoundsAssumption DEF TypeOK, Landed, Runs
      <4>3. firstRun'[k] = firstRun[k]
        BY <1>4, <4>2 DEF Merge
      <4> QED
        BY <4>1, <4>2, <4>3
    <3> QED
      BY <3>1, <3>2, <3>3
  <2>5. ASSUME NEW k \in Keys, firstRun'[k] # 0
        PROVE  Holders(k)' # {}
    <3>1. CASE k \in Incoming(p)
      <4>1. raw'[p][k] \in Landed
        BY <2>1, <3>1, MergedType DEF TypeOK
      <4> QED
        BY <4>1, AbsentAssumption
    <3>2. CASE k \notin Incoming(p)
      <4>1. PICK h \in Periods : raw[h][k] # Absent
        BY <2>3, <2>5, <3>2
      <4>2. raw'[h][k] = raw[h][k]
        BY <2>1, <3>2, MergedType DEF TypeOK
      <4> QED
        BY <4>1, <4>2
    <3> QED
      BY <3>1, <3>2
  <2>6. ASSUME NEW k \in Keys, batch'[k] # Absent, batch'[k].period \in todo'
        PROVE  prior'[k] = firstRun'[k]
    <3>1. batch' = batch /\ prior' = prior /\ todo' = todo \ {p}
      BY <1>4 DEF Merge
    <3>2. k \notin Incoming(p)
      BY <2>6, <3>1 DEF Incoming
    <3> QED
      BY <2>1, <2>3, <2>6, <3>1, <3>2
  <2> QED
    BY <2>4, <2>5, <2>6
<1>5. CASE Mark
  BY <1>5 DEF Mark
<1>6. ASSUME NEW p \in Periods, SweepMark(p)
      PROVE  FirstInv'
  BY <1>6 DEF SweepMark
<1>7. CASE Evict
  <2>1. ASSUME NEW q \in Periods, NEW k \in Keys, raw'[q][k] # Absent
        PROVE  raw'[q][k] = raw[q][k]
    BY <1>7, <2>1 DEF Evict, TypeOK
  <2>2. ASSUME NEW k \in Keys, Holders(k) # {}
        PROVE  Holders(k)' # {}
    <3>1. CASE k \in Moved(cur)
      <4>1. AtHome(k) /\ batch[k].period \in Periods /\ batch[k].period # cur
        BY <1>7, <3>1 DEF Evict, LandInv, Moved, TypeOK, Row
      <4>2. raw'[batch[k].period][k] # Absent
        BY <1>7, <4>1 DEF Evict, AtHome, TypeOK
      <4> QED
        BY <4>1, <4>2
    <3>2. CASE k \notin Moved(cur)
      BY <1>7, <2>2, <3>2 DEF Evict, TypeOK
    <3> QED
      BY <3>1, <3>2
  <2> QED
    BY <1>7, <2>1, <2>2 DEF Evict
<1>8. CASE Finish
  BY <1>8 DEF Finish
<1>9. CASE Crash
  BY <1>9 DEF Crash, disk
<1>10. CASE Recompute
  BY <1>10 DEF Recompute, process
<1>11. CASE UNCHANGED vars
  BY <1>11 DEF vars, disk, process
<1> QED
  BY <1>1, <1>2, <1>3, <1>4, <1>5, <1>6, <1>7, <1>8, <1>9, <1>10, <1>11 DEF Next, Load

\* Every copy of a key names the run that first landed it.
THEOREM FirstRunKeptHolds == Spec => []FirstRunKept
<1>1. Init => FirstInv
  BY DEF Init, FirstInv, FirstRunKept, NoRows
<1>2. FirstInv => FirstRunKept
  BY DEF FirstInv
<1> QED
  BY <1>1, <1>2, FirstStep, LandInvHolds, TypeCorrect, PTL DEF Spec

-----------------------------------------------------------------------------
(***************************************************************************)
(* The window.  While a load runs, a row the source carries is in the      *)
(* batch, or out of it and landed already, or was posted after the batch   *)
(* was read - and then not further behind the newest date than Late days,  *)
(* so not behind the window the load will leave.                           *)
(***************************************************************************)
InReach(k) ==
  \/ batch[k] = source[k]
  \/ batch[k] = Absent /\ OnlyCopy(k, source[k])
  \/ source[k].posted >= Advanced - Overlap

WindowInv ==
  /\ watermark <= latest
  /\ \A k \in Keys : source[k] # Absent => source[k].posted <= latest
  /\ \A k \in Keys : batch[k] # Absent => batch[k].posted <= latest
  /\ NothingBehindTheWindow
  /\ pc # "idle" => \A k \in Keys : source[k] # Absent => InReach(k)

\* A key that has its one copy keeps it, unless the batch carries another row for it.
LEMMA OnlyCopyStable ==
  ASSUME TypeOK, TypeOK', NEW k \in Keys, NEW r \in Row, OnlyCopy(k, r),
         batch[k] \in {r, Absent},
         (\E p \in Periods : Merge(p)) \/ Evict
  PROVE  OnlyCopy(k, r)'
<1>0. r.period \in Periods
  BY DEF Row
<1>1. CASE \E p \in Periods : Merge(p)
  <2>1. PICK p \in Periods : Merge(p)
    BY <1>1
  <2>2. CASE k \in Incoming(p)
    <3>1. batch[k] = r /\ r.period = p
      BY <2>2, AbsentAssumption DEF Incoming
    <3>2. raw'[p][k] \in Landed /\ raw'[p][k].row = r
      BY <2>1, <2>2, <3>1, MergedType DEF Merge, TypeOK
    <3>3. \A q \in Periods \ {p} : raw'[q] = raw[q]
      BY <2>1 DEF Merge, TypeOK
    <3> QED
      BY <1>0, <3>1, <3>2, <3>3, AbsentAssumption DEF OnlyCopy, Holders
  <2>3. CASE k \notin Incoming(p)
    <3>1. \A q \in Periods : raw'[q][k] = raw[q][k]
      BY <2>1, <2>3, MergedType DEF Merge, TypeOK
    <3> QED
      BY <1>0, <3>1 DEF OnlyCopy, Holders
  <2> QED
    BY <2>2, <2>3
<1>2. CASE Evict
  <2>1. k \notin Moved(cur)
    BY <1>0, <1>2 DEF Moved, OnlyCopy, Holders, Evict, TypeOK
  <2>2. \A q \in Periods : raw'[q][k] = raw[q][k]
    BY <1>2, <2>1 DEF Evict, TypeOK
  <2> QED
    BY <1>0, <2>2 DEF OnlyCopy, Holders
<1> QED
  BY <1>1, <1>2

LEMMA AdvancedBelowLatest ==
  ASSUME TypeOK, WindowInv
  PROVE  Advanced \in Int /\ watermark <= Advanced /\ Advanced <= latest
BY AdvancedBounds, DaysAssumption DEF WindowInv, TypeOK, Dates

LEMMA WindowStep == TypeOK /\ TypeOK' /\ LandInv /\ WindowInv /\ [Next]_vars => WindowInv'
<1> SUFFICES ASSUME TypeOK, TypeOK', LandInv, WindowInv, [Next]_vars
             PROVE  WindowInv'
  OBVIOUS
<1> USE DaysAssumption, WindowAssumption DEF WindowInv, NothingBehindTheWindow
<1>a. /\ \A k \in Keys : source[k] # Absent => source[k] \in Row /\ source[k].posted \in Dates
      /\ \A k \in Keys : batch[k] # Absent => batch[k] \in Row
      /\ watermark \in 0 .. MaxDate /\ latest \in Dates
  BY DEF TypeOK, Row
<1>b. Advanced \in Int /\ watermark <= Advanced /\ Advanced <= latest
  BY AdvancedBelowLatest
<1>c. (batch' = batch /\ watermark' = watermark) => Advanced' = Advanced
  BY DEF Advanced
<1>d. watermark' = watermark => LowerBound(FALSE)' = LowerBound(FALSE)
  BY DEF LowerBound
<1>1. ASSUME NEW k \in Keys, NEW r \in Row, Post(k, r)
      PROVE  WindowInv'
  <2>1. /\ source' = [source EXCEPT ![k] = r] /\ r.posted \in Dates
        /\ latest <= latest' /\ r.posted <= latest' /\ latest' \in Dates
        /\ latest - Overlap <= r.posted
        /\ UNCHANGED <<raw, watermark, batch, pc>>
    BY <1>1, <1>a DEF Post, disk, process, TypeOK, Dates, Row
  <2>2. r.posted >= LowerBound(FALSE)'
    BY <1>a, <2>1 DEF LowerBound, Dates
  <2>3. \A j \in Keys \ {k} : source'[j] = source[j]
    BY <2>1 DEF TypeOK
  <2>4. source'[k] = r
    BY <2>1 DEF TypeOK
  <2>5. \A j \in Keys, s \in Row : OnlyCopy(j, s)' <=> OnlyCopy(j, s)
    BY <2>1 DEF OnlyCopy, Holders
  <2>6. NothingBehindTheWindow'
    BY <1>a, <1>d, <2>1, <2>2, <2>3, <2>4, <2>5
  <2>7. pc' # "idle" => \A j \in Keys : source'[j] # Absent => InReach(j)'
    <3> SUFFICES ASSUME pc # "idle", NEW j \in Keys, source'[j] # Absent
                 PROVE  InReach(j)'
      BY <2>1
    <3>1. CASE j = k
      <4>1. r.posted >= Advanced - Overlap
        BY <1>a, <1>b, <2>1 DEF Dates
      <4> QED
        BY <1>c, <2>1, <2>4, <3>1, <4>1 DEF InReach
    <3>2. CASE j # k
      BY <1>a, <1>c, <2>1, <2>3, <2>5, <3>2 DEF InReach
    <3> QED
      BY <3>1, <3>2
  <2>8. /\ watermark' <= latest'
        /\ \A j \in Keys : source'[j] # Absent => source'[j].posted <= latest'
        /\ \A j \in Keys : batch'[j] # Absent => batch'[j].posted <= latest'
    BY <1>a, <2>1, <2>3, <2>4 DEF Dates, Row
  <2> QED
    BY <2>6, <2>7, <2>8
<1>2. ASSUME NEW k \in Keys, Withdraw(k)
      PROVE  WindowInv'
  <2>1. /\ UNCHANGED <<raw, watermark, batch, pc, latest>>
        /\ \A j \in Keys : source'[j] # Absent => source'[j] = source[j]
    BY <1>2 DEF Withdraw, disk, process, TypeOK
  <2>2. \A j \in Keys, s \in Row : OnlyCopy(j, s)' <=> OnlyCopy(j, s)
    BY <2>1 DEF OnlyCopy, Holders
  <2> QED
    BY <1>a, <1>c, <1>d, <2>1, <2>2 DEF InReach
<1>3. ASSUME NEW full \in BOOLEAN, NEW r \in Runs, Begin(full, r)
      PROVE  WindowInv'
  <2>1. UNCHANGED <<raw, watermark, source, latest>>
    BY <1>3 DEF Begin, disk
  <2>2. \A j \in Keys, s \in Row : OnlyCopy(j, s)' <=> OnlyCopy(j, s)
    BY <2>1 DEF OnlyCopy, Holders
  <2>3. \/ batch' = batch /\ pc' = "idle"
        \/ batch' = Window(full) /\ pc' = "merge"
    BY <1>3 DEF Begin
  <2>4. ASSUME NEW k \in Keys, source[k] # Absent
        PROVE  \/ Window(full)[k] = source[k]
               \/ Window(full)[k] = Absent /\ OnlyCopy(k, source[k])
    BY <1>a, <2>4 DEF Window, LowerBound, Dates
  <2>5. \A k \in Keys : Window(full)[k] # Absent => source[k] # Absent /\ Window(full)[k] = source[k]
    BY DEF Window
  <2> HIDE DEF Window
  <2>6. pc' # "idle" => \A k \in Keys : source'[k] # Absent => InReach(k)'
    BY <1>a, <2>1, <2>2, <2>3, <2>4 DEF InReach
  <2> QED
    BY <1>a, <1>d, <2>1, <2>2, <2>3, <2>5, <2>6
<1>4. ASSUME (\E p \in Periods : Merge(p)) \/ Evict
      PROVE  WindowInv'
  <2>1. UNCHANGED <<watermark, source, latest, batch>> /\ pc # "idle"
    BY <1>4 DEF Merge, Evict
  <2>2. \A k \in Keys, s \in Row :
          OnlyCopy(k, s) /\ batch[k] \in {s, Absent} => OnlyCopy(k, s)'
    BY <1>4, OnlyCopyStable
  <2>3. ASSUME NEW k \in Keys, source[k] # Absent
        PROVE  InReach(k)'
    BY <1>a, <1>c, <2>1, <2>2, <2>3 DEF InReach
  <2>4. ASSUME NEW k \in Keys, source'[k] # Absent
        PROVE  OnlyCopy(k, source[k])' \/ source[k].posted >= LowerBound(FALSE)
    <3>1. CASE source[k].posted >= Advanced - Overlap
      BY <1>a, <1>b, <2>1, <2>4, <3>1 DEF LowerBound, Dates
    <3>2. CASE OnlyCopy(k, source[k]) /\ batch[k] \in {source[k], Absent}
      BY <1>a, <2>1, <2>2, <2>4, <3>2
    <3> QED
      BY <2>1, <2>4, <3>1, <3>2 DEF InReach
  <2> QED
    BY <1>d, <2>1, <2>3, <2>4
<1>5. CASE Finish
  <2>1. /\ UNCHANGED <<raw, source, latest>> /\ pc = "sweep" /\ pc' = "idle"
        /\ watermark' = Advanced /\ batch' = NoRows
        /\ \A p \in Periods : Moved(p) = {}
    BY <1>5 DEF Finish
  <2>2. \A j \in Keys, s \in Row : OnlyCopy(j, s)' <=> OnlyCopy(j, s)
    BY <2>1 DEF OnlyCopy, Holders
  <2>3. ASSUME NEW k \in Keys, source[k] # Absent
        PROVE  OnlyCopy(k, source[k]) \/ source[k].posted >= Advanced - Overlap
    <3>1. CASE batch[k] = source[k]
      BY <2>1, <2>3, <3>1, SweptIsLanded
    <3>2. CASE batch[k] # source[k]
      BY <2>1, <2>3, <3>2 DEF InReach
    <3> QED
      BY <3>1, <3>2
  <2>4. \A n \in Dates : n >= Advanced - Overlap => n >= LowerBound(FALSE)'
    BY <2>1 DEF LowerBound, Dates
  <2>5. NothingBehindTheWindow'
    BY <1>a, <2>1, <2>2, <2>3, <2>4
  <2> QED
    BY <1>b, <2>1, <2>5 DEF NoRows
<1>6. ASSUME UNCHANGED <<raw, watermark, source, latest>>,
             \/ batch' = batch /\ (pc = "idle" => pc' = "idle")
             \/ batch' = NoRows /\ pc' = "idle"
      PROVE  WindowInv'
  <2>1. \A j \in Keys, s \in Row : OnlyCopy(j, s)' <=> OnlyCopy(j, s)
    BY <1>6 DEF OnlyCopy, Holders
  <2>2. NothingBehindTheWindow'
    BY <1>a, <1>d, <1>6, <2>1
  <2>3. pc' # "idle" => \A k \in Keys : source'[k] # Absent => InReach(k)'
    BY <1>a, <1>c, <1>6, <2>1 DEF InReach
  <2> QED
    BY <1>6, <2>2, <2>3 DEF NoRows
<1>7. \/ \E k \in Keys, r \in Row : Post(k, r)
      \/ \E k \in Keys : Withdraw(k)
      \/ \E full \in BOOLEAN, r \in Runs : Begin(full, r)
      \/ (\E p \in Periods : Merge(p)) \/ Evict
      \/ Finish
      \/ /\ UNCHANGED <<raw, watermark, source, latest>>
         /\ \/ batch' = batch /\ (pc = "idle" => pc' = "idle")
            \/ batch' = NoRows /\ pc' = "idle"
  <2>1. CASE Mark \/ (\E p \in Periods : SweepMark(p)) \/ Crash
    BY <2>1 DEF Mark, SweepMark, Crash, disk
  <2>2. CASE Recompute \/ UNCHANGED vars
    BY <2>2 DEF Recompute, vars, disk, process
  <2> QED
    BY <2>1, <2>2 DEF Next, Load
<1> QED
  BY <1>1, <1>2, <1>3, <1>4, <1>5, <1>6, <1>7

\* The watermark never passes a row of the source that has not landed: every row
\* that raw does not hold as the source has it is in the next load's window.
THEOREM NothingBehindTheWindowHolds == Spec => []NothingBehindTheWindow
<1>1. Init => WindowInv
  BY DaysAssumption
     DEF Init, WindowInv, NothingBehindTheWindow, NoRows, Dates
<1>2. WindowInv => NothingBehindTheWindow
  BY DEF WindowInv
<1> QED
  BY <1>1, <1>2, WindowStep, LandInvHolds, TypeCorrect, PTL DEF Spec

=============================================================================
