--------------------------- MODULE PromotionProofs ---------------------------
(***************************************************************************)
(* Promotion: what holds of the dbt-build step for any number of runs, of  *)
(* builds and of kills, and any number of runs in the step at once.        *)
(***************************************************************************)
EXTENDS Promotion, TLAPS

\* The schema of a run, once dbt has been in it, holds a build of its own.
Filled(r) == schema[r] # Absent /\ schema[r].build # 0

\* A build is numbered by the starts of dbt, is in one run's schema at most, and
\* leaves it when it is promoted.
NumberedOnce ==
  /\ \A r \in Runs : Filled(r) => schema[r].build <= started
  /\ \A r, q \in Runs : r # q /\ Filled(r) /\ Filled(q) => schema[r].build # schema[q].build
  /\ \A i \in DOMAIN promoted : promoted[i] <= started
  /\ \A r \in Runs, i \in DOMAIN promoted : Filled(r) => promoted[i] # schema[r].build

\* A run that dbt is working for has a build, if it still has a schema; and what is
\* about to be promoted is green, with nothing stored beside it but its own.
ReadyIsGreen ==
  \A r \in Runs :
    /\ pc[r] = "prepared" /\ schema[r] # Absent => schema[r].build = 0
    /\ pc[r] \in {"building", "built"} /\ schema[r] # Absent => schema[r].build # 0
    /\ pc[r] = "built" /\ schema[r] # Absent =>
         schema[r].state = "green" /\ audit[r] \in {0, schema[r].build}

MartIsGreen == schema[Mart] # Absent => schema[Mart].state = "green"

IInv == TypeOK /\ NumberedOnce /\ ReadyIsGreen /\ MartIsGreen

LEMMA CountsType ==
  ASSUME NEW s \in Schema \cup {Absent}
  PROVE  Counts(s) \in Seq(Builds)
BY NamesAssumption DEF Counts, Schema

LEMMA EndedType ==
  ASSUME NEW s \in Schema, s.build \in Builds,
         NEW state \in {"green", "red"}, NEW counted \in BOOLEAN
  PROVE  /\ Ended(s, state, counted) \in Schema
         /\ Ended(s, state, counted).build = s.build
         /\ Ended(s, state, counted).state = state
         /\ Ended(s, state, counted).counts =
              IF counted THEN Append(s.counts, s.build) ELSE s.counts
<1>1. Append(s.counts, s.build) \in Seq(Builds)
  BY DEF Schema
<1> QED
  BY <1>1 DEF Ended, Schema

LEMMA NamesApart == Mart \in Names /\ \A r \in Runs : r \in Names /\ r # Mart
BY NamesAssumption DEF Names

LEMMA InitHolds == Init => IInv
<1> SUFFICES ASSUME Init PROVE IInv
  OBVIOUS
<1>1. TypeOK
  BY BoundsAssumption DEF Init, TypeOK
<1>2. NumberedOnce /\ ReadyIsGreen /\ MartIsGreen
  BY NamesApart DEF Init, NumberedOnce, Filled, ReadyIsGreen, MartIsGreen
<1> QED
  BY <1>1, <1>2 DEF IInv

-----------------------------------------------------------------------------
\* What each action makes of the schemas and of their builds.
LEMMA TypeStep == IInv /\ [Next]_vars => TypeOK'
<1> SUFFICES ASSUME IInv, [Next]_vars PROVE TypeOK'
  OBVIOUS
<1> USE NamesApart, BoundsAssumption DEF IInv
<1>1. ASSUME NEW r \in Runs, Prepare(r) PROVE TypeOK'
  <2>1. Prepared \in Schema
    BY CountsType DEF Prepared, Schema, TypeOK
  <2> QED
    BY <1>1, <2>1 DEF Prepare, TypeOK
<1>2. ASSUME NEW r \in Runs, DbtBegin(r) PROVE TypeOK'
  <2>1. started' \in Builds /\ started' \in 0 .. MaxBuilds
    BY <1>2 DEF DbtBegin, TypeOK, Builds
  <2>2. [build |-> started', state |-> "partial", counts |-> Counts(schema[r])] \in Schema
    BY CountsType, <2>1 DEF Schema, TypeOK
  <2> QED
    BY <1>2, <2>1, <2>2 DEF DbtBegin, history, TypeOK
<1>3. ASSUME NEW r \in Runs, NEW stored \in BOOLEAN, DbtGreen(r, stored)
      PROVE  TypeOK'
  <2>1. schema[r] \in Schema /\ schema[r].build \in Builds
    BY <1>3, NamesAssumption DEF DbtGreen, TypeOK, ReadyIsGreen, Schema
  <2>2. Ended(schema[r], "green", TRUE) \in Schema
    BY <2>1, EndedType
  <2>3. audit' \in [Names -> Builds \cup {0}]
    BY <1>3, <2>1 DEF DbtGreen, TypeOK
  <2> QED
    BY <1>3, <2>2, <2>3 DEF DbtGreen, history, TypeOK
<1>4. ASSUME NEW r \in Runs, NEW counted \in BOOLEAN, NEW stored \in BOOLEAN,
             DbtRed(r, counted, stored)
      PROVE  TypeOK'
  <2>1. CASE schema[r] = Absent
    BY <1>4, <2>1 DEF DbtRed, AfterRed, database, TypeOK
  <2>2. CASE schema[r] # Absent
    <3>1. schema[r] \in Schema /\ schema[r].build \in Builds
      BY <1>4, <2>2, NamesAssumption DEF DbtRed, TypeOK, ReadyIsGreen, Schema
    <3>2. Ended(schema[r], "red", counted) \in Schema
      BY <3>1, EndedType
    <3>3. schema' \in [Names -> Schema \cup {Absent}]
      BY <1>4, <2>2, <3>2 DEF DbtRed, TypeOK
    <3>4. audit' \in [Names -> Builds \cup {0}]
      BY <1>4, <2>2, <3>1 DEF DbtRed, TypeOK
    <3>5. evidence' \subseteq Builds
      BY <1>4, <2>2, <3>1 DEF DbtRed, TypeOK
    <3> QED
      BY <1>4, <2>2, <3>3, <3>4, <3>5 DEF DbtRed, AfterRed, TypeOK
  <2> QED
    BY <2>1, <2>2
<1>5. ASSUME NEW r \in Runs, Promote(r) PROVE TypeOK'
  <2>1. CASE schema[r] = Absent
    BY <1>5, <2>1 DEF Promote, database, history, TypeOK
  <2>2. CASE schema[r] # Absent
    <3>1. schema[r] \in Schema /\ schema[r].build \in Builds
      BY <1>5, <2>2, NamesAssumption DEF Promote, TypeOK, ReadyIsGreen, Schema
    <3>2. promoted' \in Seq(Builds)
      BY <1>5, <2>2, <3>1 DEF Promote, TypeOK
    <3> QED
      BY <1>5, <2>2, <3>1, <3>2 DEF Promote, RenamedAudit, Active, TypeOK
  <2> QED
    BY <2>1, <2>2
<1>6. ASSUME NEW r \in Runs, Sweep(r) PROVE TypeOK'
  BY <1>6 DEF Sweep, Active, TypeOK
<1>7. ASSUME NEW r \in Runs, Blocked(r) \/ SweepBlocked(r) \/ Crash(r) PROVE TypeOK'
  BY <1>7 DEF Blocked, SweepBlocked, Crash, database, history, TypeOK
<1>8. ASSUME UNCHANGED vars PROVE TypeOK'
  BY <1>8 DEF vars, database, history, TypeOK
<1> QED
  BY <1>1, <1>2, <1>3, <1>4, <1>5, <1>6, <1>7, <1>8 DEF Next

\* What a build is numbered by, and where it is, action by action.
LEMMA NumberStep == IInv /\ [Next]_vars => NumberedOnce'
<1> SUFFICES ASSUME IInv, [Next]_vars PROVE NumberedOnce'
  OBVIOUS
<1> USE NamesApart, NamesAssumption DEF IInv
<1>0. \A r \in Runs : schema[r] # Absent => schema[r] \in Schema
  BY DEF TypeOK
<1>1. ASSUME NEW r \in Runs, Prepare(r) PROVE NumberedOnce'
  <2>1. ~Filled(r)' /\ \A q \in Runs \ {r} : schema'[q] = schema[q]
    BY <1>1 DEF Prepare, Prepared, Filled, TypeOK
  <2> QED
    BY <1>1, <2>1 DEF Prepare, NumberedOnce, Filled
<1>2. ASSUME NEW r \in Runs, DbtBegin(r) PROVE NumberedOnce'
  <2>1. schema'[r].build = started' /\ \A q \in Runs \ {r} : schema'[q] = schema[q]
    BY <1>2 DEF DbtBegin, TypeOK
  <2>2. started \in Nat /\ started' = started + 1 /\ promoted' = promoted
    BY <1>2 DEF DbtBegin, TypeOK, history
  <2>3. \A q \in Runs \ {r} :
          Filled(q)' => /\ Filled(q) /\ schema'[q] = schema[q]
                        /\ schema'[q].build < started' /\ schema'[q].build <= started'
    BY <1>0, <2>1, <2>2 DEF NumberedOnce, Filled, Schema, Builds
  <2>4. \A i \in DOMAIN promoted : promoted[i] \in Builds
    BY DEF TypeOK
  <2>5. \A i \in DOMAIN promoted : promoted[i] < started'
    BY <2>2, <2>4 DEF NumberedOnce, Builds
  <2>6. \A q \in Runs : Filled(q)' => schema'[q].build <= started'
    BY <2>1, <2>2, <2>3 DEF Filled
  <2>7. \A q, s \in Runs : q # s /\ Filled(q)' /\ Filled(s)'
                             => schema'[q].build # schema'[s].build
    BY <2>1, <2>2, <2>3 DEF NumberedOnce, Filled
  <2>8. \A i \in DOMAIN promoted' : promoted'[i] <= started'
    BY <2>2, <2>4, <2>5 DEF Builds
  <2>9. \A q \in Runs, i \in DOMAIN promoted' : Filled(q)' => promoted'[i] # schema'[q].build
    <3> SUFFICES ASSUME NEW q \in Runs, NEW i \in DOMAIN promoted, Filled(q)'
                 PROVE  promoted[i] # schema'[q].build
      BY <2>2
    <3>1. CASE q = r
      BY <2>1, <2>2, <2>4, <2>5, <3>1 DEF Builds
    <3>2. CASE q # r
      BY <2>1, <2>3, <3>2 DEF NumberedOnce
    <3> QED
      BY <3>1, <3>2
  <2> QED
    BY <2>6, <2>7, <2>8, <2>9 DEF NumberedOnce
<1>3. ASSUME NEW r \in Runs, NEW state \in {"green", "red"}, NEW counted \in BOOLEAN,
             schema[r] # Absent, schema[r].build \in Builds,
             schema' = [schema EXCEPT ![r] = Ended(@, state, counted)],
             started' = started, promoted' = promoted
      PROVE  NumberedOnce'
  <2>1. /\ schema'[r].build = schema[r].build
        /\ \A q \in Runs \ {r} : schema'[q] = schema[q]
    BY <1>0, <1>3, EndedType DEF TypeOK
  <2> QED
    BY <1>3, <2>1 DEF NumberedOnce, Filled, Builds
<1>4. ASSUME NEW r \in Runs, NEW stored \in BOOLEAN, DbtGreen(r, stored)
      PROVE  NumberedOnce'
  <2>1. schema[r].build \in Builds
    BY <1>0, <1>4 DEF DbtGreen, ReadyIsGreen, Schema
  <2> QED
    BY <1>3, <1>4, <2>1 DEF DbtGreen, history
<1>5. ASSUME NEW r \in Runs, NEW counted \in BOOLEAN, NEW stored \in BOOLEAN,
             DbtRed(r, counted, stored)
      PROVE  NumberedOnce'
  <2>1. CASE schema[r] = Absent
    BY <1>5, <2>1 DEF DbtRed, database, NumberedOnce, Filled
  <2>2. CASE schema[r] # Absent
    <3>1. schema[r].build \in Builds
      BY <1>0, <1>5, <2>2 DEF DbtRed, ReadyIsGreen, Schema
    <3> QED
      BY <1>3, <1>5, <2>2, <3>1 DEF DbtRed
  <2> QED
    BY <2>1, <2>2
<1>6. ASSUME NEW r \in Runs, Promote(r) PROVE NumberedOnce'
  <2>1. CASE schema[r] = Absent
    BY <1>6, <2>1 DEF Promote, database, history, NumberedOnce, Filled
  <2>2. CASE schema[r] # Absent
    <3>1. Filled(r) /\ schema[r].build \in Builds
      BY <1>0, <1>6, <2>2 DEF Promote, ReadyIsGreen, Schema, Filled
    <3>2. ~Filled(r)' /\ \A q \in Runs \ {r} : schema'[q] = schema[q]
      BY <1>6, <2>2 DEF Promote, Filled, TypeOK
    <3>3. started' = started /\ promoted' = Append(promoted, schema[r].build)
      BY <1>6, <2>2 DEF Promote
    <3>4. \A i \in DOMAIN promoted' :
            \/ i \in DOMAIN promoted /\ promoted'[i] = promoted[i]
            \/ promoted'[i] = schema[r].build
      BY <3>1, <3>3 DEF TypeOK
    <3> QED
      BY <3>1, <3>2, <3>3, <3>4 DEF NumberedOnce, Filled
  <2> QED
    BY <2>1, <2>2
<1>7. ASSUME NEW r \in Runs, Sweep(r) PROVE NumberedOnce'
  <2>1. \A q \in Runs : schema'[q] \in {schema[q], Absent}
    BY <1>7 DEF Sweep
  <2> QED
    BY <1>7, <2>1 DEF Sweep, NumberedOnce, Filled
<1>8. ASSUME NEW r \in Runs, Blocked(r) \/ SweepBlocked(r) \/ Crash(r)
      PROVE  NumberedOnce'
  BY <1>8 DEF Blocked, SweepBlocked, Crash, database, history, NumberedOnce, Filled
<1>9. ASSUME UNCHANGED vars PROVE NumberedOnce'
  BY <1>9 DEF vars, database, history, NumberedOnce, Filled
<1> QED
  BY <1>1, <1>2, <1>4, <1>5, <1>6, <1>7, <1>8, <1>9 DEF Next

\* The state of a build follows where its run is.
LEMMA GreenStep == IInv /\ [Next]_vars => ReadyIsGreen' /\ MartIsGreen'
<1> SUFFICES ASSUME IInv, [Next]_vars PROVE ReadyIsGreen' /\ MartIsGreen'
  OBVIOUS
<1> USE NamesApart, NamesAssumption DEF IInv
<1>0. \A r \in Runs : schema[r] # Absent => schema[r] \in Schema
  BY DEF TypeOK
<1>1. ASSUME NEW r \in Runs, Prepare(r) PROVE ReadyIsGreen' /\ MartIsGreen'
  BY <1>1 DEF Prepare, Prepared, TypeOK, ReadyIsGreen, MartIsGreen
<1>2. ASSUME NEW r \in Runs, DbtBegin(r) PROVE ReadyIsGreen' /\ MartIsGreen'
  <2>1. started' # 0
    BY <1>2 DEF DbtBegin, TypeOK
  <2> QED
    BY <1>2, <2>1 DEF DbtBegin, TypeOK, ReadyIsGreen, MartIsGreen
<1>3. ASSUME NEW r \in Runs, NEW stored \in BOOLEAN, DbtGreen(r, stored)
      PROVE  ReadyIsGreen' /\ MartIsGreen'
  <2>1. schema[r].build \in Builds /\ schema[r].build # 0
    BY <1>0, <1>3 DEF DbtGreen, ReadyIsGreen, Schema
  <2>2. /\ schema'[r].build = schema[r].build
        /\ schema'[r].state = "green"
        /\ \A n \in Names \ {r} : schema'[n] = schema[n]
    BY <1>0, <1>3, <2>1, EndedType DEF DbtGreen, TypeOK
  <2>3. /\ audit'[r] \in {0, schema[r].build}
        /\ \A n \in Names \ {r} : audit'[n] = audit[n]
    BY <1>3 DEF DbtGreen, TypeOK
  <2>4. pc' = [pc EXCEPT ![r] = "built"]
    BY <1>3 DEF DbtGreen
  <2> QED
    BY <2>1, <2>2, <2>3, <2>4 DEF TypeOK, ReadyIsGreen, MartIsGreen
<1>4. ASSUME NEW r \in Runs, NEW counted \in BOOLEAN, NEW stored \in BOOLEAN,
             DbtRed(r, counted, stored)
      PROVE  ReadyIsGreen' /\ MartIsGreen'
  <2>1. pc' = [pc EXCEPT ![r] = "idle"]
    BY <1>4 DEF DbtRed, AfterRed
  <2>2. \A n \in Names \ {r} : schema'[n] = schema[n] /\ audit'[n] = audit[n]
    BY <1>4 DEF DbtRed, database, TypeOK
  <2> QED
    BY <2>1, <2>2 DEF TypeOK, ReadyIsGreen, MartIsGreen
<1>5. ASSUME NEW r \in Runs, Promote(r) PROVE ReadyIsGreen' /\ MartIsGreen'
  <2>1. CASE schema[r] = Absent
    BY <1>5, <2>1 DEF Promote, database, TypeOK, ReadyIsGreen, MartIsGreen
  <2>2. CASE schema[r] # Absent
    <3>1. pc' = [pc EXCEPT ![r] = "promoted"]
      BY <1>5, <2>2 DEF Promote
    <3>2. schema'[Mart] = schema[r] /\ schema[r].state = "green"
      BY <1>5, <2>2 DEF Promote, TypeOK, ReadyIsGreen
    <3>3. \A q \in Runs \ {r} : schema'[q] = schema[q] /\ audit'[q] = audit[q]
      BY <1>5, <2>2 DEF Promote, RenamedAudit, TypeOK
    <3> QED
      BY <3>1, <3>2, <3>3 DEF TypeOK, ReadyIsGreen, MartIsGreen
  <2> QED
    BY <2>1, <2>2
<1>6. ASSUME NEW r \in Runs, Sweep(r) PROVE ReadyIsGreen' /\ MartIsGreen'
  <2>1. \A q \in Runs : \/ schema'[q] = Absent
                        \/ schema'[q] = schema[q] /\ audit'[q] = audit[q]
    BY <1>6 DEF Sweep
  <2>2. schema'[Mart] = schema[Mart] /\ pc' = [pc EXCEPT ![r] = "done"]
    BY <1>6 DEF Sweep
  <2> QED
    BY <2>1, <2>2 DEF TypeOK, ReadyIsGreen, MartIsGreen
<1>7. ASSUME NEW r \in Runs, Blocked(r) \/ SweepBlocked(r) \/ Crash(r)
      PROVE  ReadyIsGreen' /\ MartIsGreen'
  BY <1>7 DEF Blocked, SweepBlocked, Crash, database, TypeOK, ReadyIsGreen, MartIsGreen
<1>8. ASSUME UNCHANGED vars PROVE ReadyIsGreen' /\ MartIsGreen'
  BY <1>8 DEF vars, database, ReadyIsGreen, MartIsGreen
<1> QED
  BY <1>1, <1>2, <1>3, <1>4, <1>5, <1>6, <1>7, <1>8 DEF Next

LEMMA InvHolds == Spec => []IInv
<1>1. IInv /\ [Next]_vars => IInv'
  BY TypeStep, NumberStep, GreenStep DEF IInv
<1> QED
  BY InitHolds, <1>1, PTL DEF Spec

\* Every variable stays in its type.
THEOREM TypeCorrect == Spec => []TypeOK
<1>1. IInv => TypeOK
  BY DEF IInv
<1> QED
  BY InvHolds, <1>1, PTL

-----------------------------------------------------------------------------
\* A promotion publishes one more whole green build; every other action is
\* invisible to the reader.
LEMMA ReaderStep == IInv /\ [Next]_vars => [Reader!Next]_(Reader!reader)
<1> SUFFICES ASSUME IInv, [Next]_vars
             PROVE  Reader!Next \/ UNCHANGED <<Shown, audit[Mart], promoted>>
  BY DEF Reader!reader
<1> USE NamesApart, NamesAssumption DEF IInv
<1>1. ASSUME schema'[Mart] = schema[Mart], audit'[Mart] = audit[Mart],
             promoted' = promoted
      PROVE  UNCHANGED <<Shown, audit[Mart], promoted>>
  BY <1>1 DEF Shown
<1>2. ASSUME NEW r \in Runs, Promote(r), schema[r] # Absent PROVE Reader!Next
  <2>1. schema[r] \in Schema /\ schema[r].build \in Builds
    BY <1>2 DEF Promote, TypeOK, ReadyIsGreen, Schema
  <2>2. Filled(r) /\ schema[r].state = "green" /\ audit[r] \in {0, schema[r].build}
    BY <1>2, <2>1 DEF Promote, ReadyIsGreen, Filled
  <2>3. schema'[Mart] = schema[r] /\ audit'[Mart] = audit[r]
    BY <1>2 DEF Promote, RenamedAudit, TypeOK
  <2>4. promoted' = Append(promoted, schema[r].build)
    BY <1>2 DEF Promote
  <2>5. Shown' = schema[r].build
    BY <1>2, <2>2, <2>3 DEF Shown
  <2>6. \A i \in DOMAIN promoted : promoted[i] # schema[r].build
    BY <2>2 DEF NumberedOnce
  <2>7. Reader!Publish(schema[r].build)
    BY <2>2, <2>3, <2>4, <2>5, <2>6 DEF Reader!Publish
  <2> QED
    BY <2>1, <2>7 DEF Reader!Next
<1>3. ASSUME NEW r \in Runs, Promote(r), schema[r] = Absent
      PROVE  UNCHANGED <<Shown, audit[Mart], promoted>>
  BY <1>1, <1>3 DEF Promote, database, history
<1>4. ASSUME NEW r \in Runs, Prepare(r)
      PROVE  UNCHANGED <<Shown, audit[Mart], promoted>>
  BY <1>1, <1>4 DEF Prepare, TypeOK
<1>5. ASSUME NEW r \in Runs, DbtBegin(r)
      PROVE  UNCHANGED <<Shown, audit[Mart], promoted>>
  BY <1>1, <1>5 DEF DbtBegin, history, TypeOK
<1>6. ASSUME NEW r \in Runs, NEW stored \in BOOLEAN, DbtGreen(r, stored)
      PROVE  UNCHANGED <<Shown, audit[Mart], promoted>>
  BY <1>1, <1>6 DEF DbtGreen, history, TypeOK
<1>7. ASSUME NEW r \in Runs, NEW counted \in BOOLEAN, NEW stored \in BOOLEAN,
             DbtRed(r, counted, stored)
      PROVE  UNCHANGED <<Shown, audit[Mart], promoted>>
  BY <1>1, <1>7 DEF DbtRed, database, TypeOK
<1>8. ASSUME NEW r \in Runs, Sweep(r)
      PROVE  UNCHANGED <<Shown, audit[Mart], promoted>>
  BY <1>1, <1>8 DEF Sweep
<1>9. ASSUME NEW r \in Runs, Blocked(r) \/ SweepBlocked(r) \/ Crash(r)
      PROVE  UNCHANGED <<Shown, audit[Mart], promoted>>
  BY <1>1, <1>9 DEF Blocked, SweepBlocked, Crash, database, history
<1>10. ASSUME UNCHANGED vars PROVE UNCHANGED <<Shown, audit[Mart], promoted>>
  BY <1>1, <1>10 DEF vars, database, history
<1> QED
  BY <1>2, <1>3, <1>4, <1>5, <1>6, <1>7, <1>8, <1>9, <1>10 DEF Next

\* The step keeps its promise to the reader of the mart.
THEOREM ReaderPromiseHolds == Spec => ReaderPromise
<1>1. Init => Reader!Init
  BY NamesApart DEF Init, Reader!Init, Shown
<1> QED
  BY InvHolds, ReaderStep, <1>1, PTL DEF Spec, ReaderPromise, Reader!Spec

-----------------------------------------------------------------------------
\* While nobody has promoted a stale copy: a run that is not behind carries the
\* mart's history into its build, and appends to it.
CopyIsCurrent ==
  overtaken = {} =>
    /\ Counts(schema[Mart]) = promoted
    /\ \A r \in Runs \ behind :
         /\ pc[r] = "prepared" =>
              schema[r] # Absent /\ schema[r].counts = promoted
         /\ pc[r] = "building" /\ schema[r] # Absent => schema[r].counts = promoted
         /\ pc[r] = "built" /\ schema[r] # Absent =>
              schema[r].counts = Append(promoted, schema[r].build)

LEMMA CopyStep == IInv /\ CopyIsCurrent /\ [Next]_vars => CopyIsCurrent'
<1> SUFFICES ASSUME IInv, CopyIsCurrent, [Next]_vars, overtaken' = {}
             PROVE  CopyIsCurrent'
  BY DEF CopyIsCurrent
<1> USE NamesApart, NamesAssumption DEF IInv
<1>0. \A r \in Runs : schema[r] # Absent => schema[r] \in Schema
  BY DEF TypeOK
<1>1. ASSUME NEW r \in Runs, Prepare(r) PROVE CopyIsCurrent'
  <2>1. /\ overtaken = {} /\ promoted' = promoted /\ behind' = behind \ {r}
        /\ pc' = [pc EXCEPT ![r] = "prepared"]
    BY <1>1 DEF Prepare
  <2>2. /\ schema'[r] = Prepared
        /\ \A n \in Names \ {r} : schema'[n] = schema[n]
    BY <1>1 DEF Prepare, TypeOK
  <2>3. Prepared \in Schema /\ Prepared.counts = promoted
    BY <2>1, CountsType DEF Prepared, Schema, CopyIsCurrent, TypeOK
  <2> QED
    BY <2>1, <2>2, <2>3 DEF CopyIsCurrent, TypeOK
<1>2. ASSUME NEW r \in Runs, DbtBegin(r) PROVE CopyIsCurrent'
  <2>1. /\ overtaken = {} /\ promoted' = promoted /\ behind' = behind
        /\ pc' = [pc EXCEPT ![r] = "building"] /\ pc[r] = "prepared"
    BY <1>2 DEF DbtBegin, history
  <2>2. /\ schema'[r].counts = Counts(schema[r])
        /\ \A n \in Names \ {r} : schema'[n] = schema[n]
    BY <1>2 DEF DbtBegin, TypeOK
  <2>3. r \notin behind => schema'[r].counts = promoted
    BY <2>1, <2>2 DEF CopyIsCurrent, Counts
  <2> QED
    BY <2>1, <2>2, <2>3 DEF CopyIsCurrent, TypeOK
<1>3. ASSUME NEW r \in Runs, NEW stored \in BOOLEAN, DbtGreen(r, stored)
      PROVE  CopyIsCurrent'
  <2>1. /\ overtaken = {} /\ promoted' = promoted /\ behind' = behind
        /\ pc' = [pc EXCEPT ![r] = "built"] /\ pc[r] = "building"
        /\ schema[r] # Absent
    BY <1>3 DEF DbtGreen, history
  <2>2. schema[r].build \in Builds
    BY <1>0, <2>1 DEF ReadyIsGreen, Schema
  <2>3. /\ schema'[r].build = schema[r].build
        /\ schema'[r].counts = Append(schema[r].counts, schema[r].build)
        /\ \A n \in Names \ {r} : schema'[n] = schema[n]
    BY <1>0, <1>3, <2>1, <2>2, EndedType DEF DbtGreen, TypeOK
  <2>4. r \notin behind => schema'[r].counts = Append(promoted, schema'[r].build)
    BY <2>1, <2>3 DEF CopyIsCurrent
  <2> QED
    BY <2>1, <2>3, <2>4 DEF CopyIsCurrent, TypeOK
<1>4. ASSUME NEW r \in Runs, NEW counted \in BOOLEAN, NEW stored \in BOOLEAN,
             DbtRed(r, counted, stored)
      PROVE  CopyIsCurrent'
  <2>1. /\ overtaken = {} /\ promoted' = promoted /\ behind' = behind
        /\ pc' = [pc EXCEPT ![r] = "idle"]
    BY <1>4 DEF DbtRed, AfterRed
  <2>2. \A n \in Names \ {r} : schema'[n] = schema[n]
    BY <1>4 DEF DbtRed, database, TypeOK
  <2> QED
    BY <2>1, <2>2 DEF CopyIsCurrent, TypeOK
<1>5. ASSUME NEW r \in Runs, Promote(r) PROVE CopyIsCurrent'
  <2>1. CASE schema[r] = Absent
    BY <1>5, <2>1 DEF Promote, database, history, CopyIsCurrent, TypeOK
  <2>2. CASE schema[r] # Absent
    <3>1. /\ overtaken = {} /\ r \notin behind /\ pc[r] = "built"
          /\ pc' = [pc EXCEPT ![r] = "promoted"] /\ behind' = Active \ {r}
          /\ promoted' = Append(promoted, schema[r].build)
      BY <1>5, <2>2 DEF Promote
    <3>2. schema'[Mart] = schema[r]
      BY <1>5, <2>2 DEF Promote, TypeOK
    <3>3. Counts(schema[Mart])' = promoted'
      BY <2>2, <3>1, <3>2 DEF CopyIsCurrent, Counts
    <3>4. \A q \in Runs \ behind' : pc'[q] \notin {"prepared", "building", "built"}
      BY <3>1 DEF Active, TypeOK
    <3> QED
      BY <3>3, <3>4 DEF CopyIsCurrent
  <2> QED
    BY <2>1, <2>2
<1>6. ASSUME NEW r \in Runs, Sweep(r) PROVE CopyIsCurrent'
  <2>1. /\ overtaken = {} /\ promoted' = promoted
        /\ behind' = behind \cup (Active \ {r})
        /\ pc' = [pc EXCEPT ![r] = "done"] /\ schema'[Mart] = schema[Mart]
    BY <1>6 DEF Sweep
  <2>2. \A q \in Runs \ behind' : pc'[q] \notin {"prepared", "building", "built"}
    BY <2>1 DEF Active, TypeOK
  <2> QED
    BY <2>1, <2>2 DEF CopyIsCurrent
<1>7. ASSUME NEW r \in Runs, Blocked(r) \/ SweepBlocked(r) \/ Crash(r)
      PROVE  CopyIsCurrent'
  <2>1. /\ UNCHANGED <<schema, promoted, behind, overtaken>>
        /\ pc' = [pc EXCEPT ![r] = "idle"] \/ pc' = [pc EXCEPT ![r] = "done"]
    BY <1>7 DEF Blocked, SweepBlocked, Crash, database, history
  <2> QED
    BY <2>1 DEF CopyIsCurrent, TypeOK
<1>8. ASSUME UNCHANGED vars PROVE CopyIsCurrent'
  BY <1>8 DEF vars, database, history, CopyIsCurrent
<1> QED
  BY <1>1, <1>2, <1>3, <1>4, <1>5, <1>6, <1>7, <1>8 DEF Next

\* The drift gate's memory is the history of the builds that were promoted, unless
\* a run overtook another.
THEOREM HistoryUnlessOvertakenHolds == Spec => []HistoryUnlessOvertaken
<1>1. Init => CopyIsCurrent
  BY NamesApart DEF Init, CopyIsCurrent, Counts
<1>2. CopyIsCurrent => HistoryUnlessOvertaken
  BY DEF CopyIsCurrent, HistoryUnlessOvertaken
<1> QED
  BY InvHolds, CopyStep, <1>1, <1>2, PTL DEF Spec

-----------------------------------------------------------------------------
\* A sweep under way means that nothing has failed since the promotion before it,
\* but what the sweep may take.
EvidenceInv ==
  /\ EvidenceKept
  /\ (\E r \in Runs : pc[r] = "promoted") => evidence = {}

LEMMA EvidenceStep == IInv /\ EvidenceInv /\ [Next]_vars => EvidenceInv'
<1> SUFFICES ASSUME IInv, EvidenceInv, [Next]_vars PROVE EvidenceInv'
  OBVIOUS
<1> USE NamesApart, NamesAssumption DEF IInv
<1>0. /\ \A r \in Runs : schema[r] # Absent => schema[r] \in Schema
      /\ \A b \in evidence : b # 0
  BY DEF TypeOK, Builds
<1>1. ASSUME NEW r \in Runs, Prepare(r) PROVE EvidenceInv'
  <2>1. /\ evidence' \subseteq evidence
        /\ schema[r] # Absent => schema[r].build \notin evidence'
        /\ pc' = [pc EXCEPT ![r] = "prepared"]
        /\ \A q \in Runs \ {r} : schema'[q] = schema[q]
    BY <1>1 DEF Prepare, TypeOK
  <2> QED
    BY <2>1 DEF EvidenceInv, EvidenceKept, TypeOK
<1>2. ASSUME NEW r \in Runs, DbtBegin(r) PROVE EvidenceInv'
  <2>1. /\ evidence' = evidence
        /\ schema[r] # Absent => schema[r].build = 0
        /\ pc' = [pc EXCEPT ![r] = "building"]
        /\ \A q \in Runs \ {r} : schema'[q] = schema[q]
    BY <1>2 DEF DbtBegin, history, ReadyIsGreen, TypeOK
  <2> QED
    BY <1>0, <2>1 DEF EvidenceInv, EvidenceKept, TypeOK
<1>3. ASSUME NEW r \in Runs, NEW stored \in BOOLEAN, DbtGreen(r, stored)
      PROVE  EvidenceInv'
  <2>1. /\ evidence' = evidence /\ schema[r] # Absent
        /\ pc' = [pc EXCEPT ![r] = "built"]
        /\ schema[r].build \in Builds
    BY <1>0, <1>3 DEF DbtGreen, history, ReadyIsGreen, Schema
  <2>2. LET s == Ended(schema[r], "green", TRUE)
        IN s \in Schema /\ s.build = schema[r].build
    BY <1>0, <2>1, EndedType
  <2>3. /\ schema'[r] # Absent /\ schema'[r].build = schema[r].build
        /\ \A q \in Runs \ {r} : schema'[q] = schema[q]
    BY <1>3, <2>2 DEF DbtGreen, TypeOK
  <2> QED
    BY <2>1, <2>3 DEF EvidenceInv, EvidenceKept, TypeOK
<1>4. ASSUME NEW r \in Runs, NEW counted \in BOOLEAN, NEW stored \in BOOLEAN,
             DbtRed(r, counted, stored)
      PROVE  EvidenceInv'
  <2>1. pc' = [pc EXCEPT ![r] = "idle"] /\ pc[r] = "building"
    BY <1>4 DEF DbtRed, AfterRed
  <2>2. CASE schema[r] = Absent
    BY <1>4, <2>1, <2>2 DEF DbtRed, database, EvidenceInv, EvidenceKept, TypeOK
  <2>3. CASE schema[r] # Absent
    <3>1. schema[r].build \in Builds
      BY <1>0, <2>1, <2>3 DEF ReadyIsGreen, Schema
    <3>2. /\ schema'[r] # Absent /\ schema'[r].build = schema[r].build
          /\ \A q \in Runs \ {r} : schema'[q] = schema[q]
      BY <1>0, <1>4, <2>3, <3>1, EndedType DEF DbtRed, TypeOK
    <3>3. /\ evidence' \subseteq evidence \cup {schema[r].build}
          /\ (\E q \in Runs : pc[q] = "promoted") => evidence' = evidence
      BY <1>4, <2>3 DEF DbtRed
    <3>4. (\E q \in Runs : pc'[q] = "promoted") => \E q \in Runs : pc[q] = "promoted"
      BY <2>1 DEF TypeOK
    <3> QED
      BY <3>2, <3>3, <3>4 DEF EvidenceInv, EvidenceKept
  <2> QED
    BY <2>2, <2>3
<1>5. ASSUME NEW r \in Runs, Promote(r) PROVE EvidenceInv'
  <2>1. CASE schema[r] = Absent
    BY <1>5, <2>1 DEF Promote, database, history, EvidenceInv, EvidenceKept, TypeOK
  <2>2. CASE schema[r] # Absent
    BY <1>5, <2>2 DEF Promote, EvidenceInv, EvidenceKept
  <2> QED
    BY <2>1, <2>2
<1>6. ASSUME NEW r \in Runs, Sweep(r) PROVE EvidenceInv'
  BY <1>6 DEF Sweep, EvidenceInv, EvidenceKept
<1>7. ASSUME NEW r \in Runs, Blocked(r) \/ SweepBlocked(r) \/ Crash(r)
      PROVE  EvidenceInv'
  BY <1>7 DEF Blocked, SweepBlocked, Crash, database, history, EvidenceInv,
              EvidenceKept, TypeOK
<1>8. ASSUME UNCHANGED vars PROVE EvidenceInv'
  BY <1>8 DEF vars, database, history, EvidenceInv, EvidenceKept
<1> QED
  BY <1>1, <1>2, <1>3, <1>4, <1>5, <1>6, <1>7, <1>8 DEF Next

\* What a failed build stored is there until its run retries or a build succeeds.
THEOREM EvidenceKeptHolds == Spec => []EvidenceKept
<1>1. Init => EvidenceInv
  BY DEF Init, EvidenceInv, EvidenceKept
<1>2. EvidenceInv => EvidenceKept
  BY DEF EvidenceInv
<1> QED
  BY InvHolds, EvidenceStep, <1>1, <1>2, PTL DEF Spec
=============================================================================
