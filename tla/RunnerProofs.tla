----------------------------- MODULE RunnerProofs -----------------------------
(***************************************************************************)
(* Runner: for any jobs, steps, retries and losses, and however many runs  *)
(* share the record, what a readable record says of a run is what happened *)
(* to its steps, and nothing but starting what is still open spoils it.    *)
(***************************************************************************)
EXTENDS Runner, FiniteSetTheorems, TLAPS

USE JobsAssumption, NumbersAssumption

(***************************************************************************)
(* Finite sets of integers have a greatest and a least element: a subset   *)
(* without one, least in the order of inclusion, would have it after all.  *)
(***************************************************************************)
LEMMA GreatestExists ==
  ASSUME NEW S \in SUBSET Int, IsFiniteSet(S), S # {}
  PROVE  \E x \in S : \A y \in S : y <= x
<1> DEFINE Has(U) == \E x \in U : \A y \in U : y <= x
           Without == {U \in SUBSET S : U # {} /\ ~Has(U)}
<1>1. SUFFICES Has(S)
  OBVIOUS
<1>2. SUFFICES ASSUME Without # {} PROVE FALSE
  OBVIOUS
<1>3. Without \subseteq FiniteSubsetsOf(S)
  BY FS_FiniteSubsetsOfFinite
<1>4. PICK U \in Without : \A V \in Without : <<V, U>> \notin StrictSubsetOrdering(S)
  <2> HIDE DEF Without
  <2> QED
    BY <1>2, <1>3, WFMin, FS_StrictSubsetOrderingWellFounded
<1>5. PICK x \in U : TRUE
  BY <1>4
<1> DEFINE V == U \ {x}
<1>6. V \in SUBSET S /\ V \subseteq U /\ V # U /\ U \in SUBSET S
  BY <1>4, <1>5
<1>7. V \notin Without
  <2> HIDE DEF Without, V
  <2> QED
    BY <1>4, <1>6 DEF StrictSubsetOrdering
<1>8. CASE V = {}
  <2>1. U = {x} /\ x \in Int
    BY <1>5, <1>6, <1>8
  <2>2. Has(U)
    BY <2>1
  <2> QED
    BY <2>2, <1>4
<1>9. CASE V # {}
  <2>1. PICK m \in V : \A y \in V : y <= m
    BY <1>6, <1>7, <1>9
  <2>2. x \in Int /\ m \in Int /\ V \subseteq Int
    BY <1>5, <1>6, <2>1
  <2>3. CASE x <= m
    <3>1. \A y \in U : y <= m
      BY <2>1, <2>3
    <3> QED
      BY <3>1, <2>1, <1>4, <1>6
  <2>4. CASE ~(x <= m)
    <3>1. \A y \in V : y <= x
      BY <2>1, <2>2, <2>4
    <3>2. \A y \in U : y <= x
      BY <3>1, <2>2
    <3> QED
      BY <3>2, <1>4, <1>5
  <2> QED
    BY <2>3, <2>4
<1> QED
  BY <1>8, <1>9

LEMMA LeastExists ==
  ASSUME NEW S \in SUBSET Int, IsFiniteSet(S), S # {}
  PROVE  \E x \in S : \A y \in S : x <= y
<1> DEFINE T == {-x : x \in S}
<1>1. T \in SUBSET Int /\ T # {}
  <2>1. \A x \in S : -x \in Int
    OBVIOUS
  <2>2. PICK x \in S : TRUE
    OBVIOUS
  <2>3. -x \in T
    BY <2>2
  <2> QED
    BY <2>1, <2>3
<1>2. IsFiniteSet(T)
  <2> DEFINE f == [x \in S |-> -x]
  <2>1. f \in [S -> T] /\ \A t \in T : \E x \in S : f[x] = t
    OBVIOUS
  <2>2. f \in Surjection(S, T)
    BY <2>1 DEF Surjection
  <2> HIDE DEF f, T
  <2> QED
    BY <2>2, FS_Surjection
<1>3. PICK t \in T : \A y \in T : y <= t
  <2> HIDE DEF T
  <2> QED
    BY <1>1, <1>2, GreatestExists
<1>4. PICK x \in S : t = -x
  BY <1>3
<1>5. \A y \in S : x <= y
  <2> SUFFICES ASSUME NEW y \in S PROVE x <= y
    OBVIOUS
  <2>1. -y \in T /\ -y <= -x
    BY <1>3, <1>4
  <2> QED
    BY <2>1
<1> QED
  BY <1>5
-----------------------------------------------------------------------------
(***************************************************************************)
(* The record, when a line is appended.                                    *)
(***************************************************************************)
StepKinds == {"step_started", "step_finished"}

LEMMA EventsAppended ==
  ASSUME NEW l \in Seq(Events), NEW e \in Events
  PROVE  LET m == Append(l, e) IN
         /\ m \in Seq(Events) /\ DOMAIN m = DOMAIN l \cup {Len(l) + 1}
         /\ Len(l) + 1 \notin DOMAIN l /\ \A i \in DOMAIN l : i < Len(l) + 1
         /\ m[Len(l) + 1] = e /\ \A i \in DOMAIN l : m[i] = l[i]
         /\ \A i \in DOMAIN l : SubSeq(m, 1, i - 1) = SubSeq(l, 1, i - 1)
         /\ SubSeq(m, 1, Len(l)) = l
OBVIOUS

LEMMA AtAppended ==
  ASSUME NEW l \in Seq(Events), NEW e \in Events, NEW kind, NEW r
  PROVE  At(Append(l, e), kind, r) =
           At(l, kind, r) \cup (IF e.kind = kind /\ e.run = r THEN {Len(l) + 1} ELSE {})
BY EventsAppended DEF At

LEMMA ReadableAppended ==
  ASSUME NEW l \in Seq(Events), NEW e \in Events
  PROVE  Readable(Append(l, e)) <=> Readable(l) /\ ~Refused(l, e)
<1> DEFINE m == Append(l, e)
<1>1. /\ DOMAIN m = DOMAIN l \cup {Len(l) + 1} /\ SubSeq(m, 1, Len(l)) = l /\ m[Len(l) + 1] = e
      /\ \A i \in DOMAIN l : m[i] = l[i] /\ SubSeq(m, 1, i - 1) = SubSeq(l, 1, i - 1)
  BY EventsAppended
<1> DEFINE here == Len(l) + 1
<1>2. SubSeq(m, 1, here - 1) = l
  <2>1. here - 1 = Len(l)
    OBVIOUS
  <2> HIDE DEF here, m
  <2> QED
    BY <2>1, <1>1
<1> HIDE DEF m
<1>3. Readable(m) <=> Readable(l) /\ ~Refused(l, e)
  <2>1. DOMAIN m = DOMAIN l \cup {here} /\ m[here] = e
    BY <1>1
  <2> HIDE DEF here
  <2>2. Readable(m) <=> /\ \A i \in DOMAIN l : ~Refused(SubSeq(m, 1, i - 1), m[i])
                        /\ ~Refused(SubSeq(m, 1, here - 1), m[here])
    BY <2>1 DEF Readable
  <2>3. \A i \in DOMAIN l : Refused(SubSeq(m, 1, i - 1), m[i]) <=> Refused(SubSeq(l, 1, i - 1), l[i])
    BY <1>1
  <2> QED
    BY <2>1, <2>2, <2>3, <1>2 DEF Readable
<1> QED
  BY <1>3 DEF m

LEMMA PresenceAppended ==
  ASSUME NEW l \in Seq(Events), NEW e \in Events, NEW r
  PROVE  /\ Started(Append(l, e), r) <=> Started(l, r) \/ (e.kind = "started" /\ e.run = r)
         /\ Finished(Append(l, e), r) <=> Finished(l, r) \/ (e.kind = "finished" /\ e.run = r)
<1>1. At(Append(l, e), "started", r) =
        At(l, "started", r) \cup (IF e.kind = "started" /\ e.run = r THEN {Len(l) + 1} ELSE {})
  BY AtAppended
<1>2. At(Append(l, e), "finished", r) =
        At(l, "finished", r) \cup (IF e.kind = "finished" /\ e.run = r THEN {Len(l) + 1} ELSE {})
  BY AtAppended
<1> QED
  BY <1>1, <1>2 DEF Started, Finished

LEMMA DeclaredAppended ==
  ASSUME NEW l \in Seq(Events), NEW e \in Events, NEW r
  PROVE  Declared(Append(l, e), r) =
           Declared(l, r) \cup (IF e.kind = "started" /\ e.run = r THEN 1 .. e.step ELSE {})
<1> DEFINE m == Append(l, e)
<1>1. At(m, "started", r) =
        At(l, "started", r) \cup (IF e.kind = "started" /\ e.run = r THEN {Len(l) + 1} ELSE {})
  BY AtAppended
<1>2. m[Len(l) + 1] = e /\ \A i \in At(l, "started", r) : m[i] = l[i]
  BY EventsAppended DEF At
<1> HIDE DEF m
<1>3. Declared(m, r) = Declared(l, r) \cup (IF e.kind = "started" /\ e.run = r THEN 1 .. e.step ELSE {})
  BY <1>1, <1>2 DEF Declared
<1> QED
  BY <1>3 DEF m

LEMMA DeclaredElsewhere ==
  ASSUME NEW l \in Seq(Events), NEW e \in Events, NEW r, e.kind # "started" \/ e.run # r
  PROVE  Declared(Append(l, e), r) = Declared(l, r)
<1>1. Declared(Append(l, e), r) = Declared(l, r) \cup {}
  BY DeclaredAppended, Zenon
<1> QED
  BY <1>1, Zenon

LEMMA StatusAppended ==
  ASSUME NEW l \in Seq(Events), NEW e \in Events, NEW r, NEW n
  PROVE  StatusOf(Append(l, e), r, n) =
           IF e.kind \in StepKinds /\ e.run = r /\ e.step = n
           THEN IF e.kind = "step_started" THEN "interrupted" ELSE e.status
           ELSE StatusOf(l, r, n)
<1> DEFINE m == Append(l, e)
           S == StepEvents(l, r, n)
           T == StepEvents(m, r, n)
           ours == e.kind \in StepKinds /\ e.run = r /\ e.step = n
<1>1. /\ \A i \in DOMAIN l : m[i] = l[i] /\ i < Len(l) + 1
      /\ m[Len(l) + 1] = e /\ Len(l) + 1 \notin DOMAIN l /\ DOMAIN l \subseteq Nat
  BY EventsAppended
<1>2. S \subseteq DOMAIN l
  BY DEF StepEvents, At
<1>3. T = S \cup (IF ours THEN {Len(l) + 1} ELSE {})
  <2>1. \A kind : At(m, kind, r) =
          At(l, kind, r) \cup (IF e.kind = kind /\ e.run = r THEN {Len(l) + 1} ELSE {})
    BY AtAppended
  <2>2. \A kind : \A i \in At(l, kind, r) : i \in DOMAIN l
    BY DEF At
  <2> HIDE DEF m
  <2> QED
    BY <2>1, <2>2, <1>1 DEF StepEvents, StepKinds
<1>4. IsFiniteSet(S) /\ S \in SUBSET Int
  <2>1. DOMAIN l = 1 .. Len(l) /\ Len(l) \in Int
    OBVIOUS
  <2>2. IsFiniteSet(DOMAIN l)
    BY <2>1, FS_Interval
  <2> HIDE DEF S
  <2> QED
    BY <2>2, <1>1, <1>2, FS_Subset
<1>5. CASE ours
  <2>1. T # {} /\ Len(l) + 1 \in T /\ \A k \in T : k <= Len(l) + 1 /\ k \in Int
    BY <1>1, <1>2, <1>3, <1>5
  <2>2. \A i \in T : (\A k \in T : k <= i) => i = Len(l) + 1
    BY <2>1
  <2> HIDE DEF T
  <2>3. (CHOOSE i \in T : \A k \in T : k <= i) = Len(l) + 1
    BY <2>1, <2>2
  <2>4. StatusOf(m, r, n) = IF e.kind = "step_started" THEN "interrupted" ELSE e.status
    BY <2>1, <2>3, <1>1 DEF StatusOf, T
  <2> QED
    BY <2>4, <1>5
<1>6. CASE ~ours /\ S = {}
  BY <1>3, <1>6 DEF StatusOf
<1>7. CASE ~ours /\ S # {}
  <2>1. T = S
    BY <1>3, <1>7
  <2> DEFINE last == CHOOSE i \in S : \A k \in S : k <= i
  <2>2. last \in S
    <3>1. \E i \in S : \A k \in S : k <= i
      <4> HIDE DEF S
      <4> QED
        BY <1>4, <1>7, GreatestExists
    <3> QED
      BY <3>1
  <2> HIDE DEF last
  <2>3. m[last] = l[last]
    BY <2>2, <1>1, <1>2
  <2>4. StatusOf(l, r, n) = IF l[last].kind = "step_started" THEN "interrupted" ELSE l[last].status
    BY <1>7 DEF StatusOf, last
  <2>5. StatusOf(m, r, n) = IF m[last].kind = "step_started" THEN "interrupted" ELSE m[last].status
    <3>1. StepEvents(m, r, n) = S
      BY <2>1
    <3> HIDE DEF m, S, T
    <3> QED
      BY <3>1, <1>7 DEF StatusOf, last
  <2> QED
    BY <2>3, <2>4, <2>5, <1>7
<1> QED
  BY <1>5, <1>6, <1>7

\* The step a record blames is the first that did not succeed.
LEMMA FailedStepIsFirst ==
  ASSUME NEW l \in Seq(Events), NEW r, NEW N \in Nat, Declared(l, r) = 1 .. N
  PROVE  LET n == FailedStep(l, r) IN
         /\ n \in 0 .. N
         /\ n # 0 => StatusOf(l, r, n) # "succeeded"
         /\ \A m \in 1 .. N : n = 0 \/ m < n => StatusOf(l, r, m) = "succeeded"
<1> DEFINE U == Unsuccessful(l, r)
<1>1. U = {n \in 1 .. N : StatusOf(l, r, n) # "succeeded"}
  BY DEF Unsuccessful
<1>2. U \in SUBSET (1 .. N) /\ U \in SUBSET Int
  BY <1>1
<1>3. IsFiniteSet(U)
  <2>1. IsFiniteSet(1 .. N)
    BY FS_Interval
  <2> HIDE DEF U
  <2> QED
    BY <2>1, <1>2, FS_Subset
<1>4. CASE U = {}
  BY <1>1, <1>4 DEF FailedStep
<1>5. CASE U # {}
  <2> DEFINE n == CHOOSE n \in U : \A m \in U : n <= m
  <2>1. n \in U /\ \A m \in U : n <= m
    <3>1. \E k \in U : \A m \in U : k <= m
      <4> HIDE DEF U
      <4> QED
        BY <1>2, <1>3, <1>5, LeastExists
    <3> QED
      BY <3>1
  <2>2. FailedStep(l, r) = n
    BY <1>5 DEF FailedStep
  <2> HIDE DEF n
  <2>3. n \in 1 .. N /\ StatusOf(l, r, n) # "succeeded"
    BY <2>1, <1>1
  <2>4. \A m \in 1 .. N : m < n => StatusOf(l, r, m) = "succeeded"
    BY <2>1, <2>3, <1>1
  <2> QED
    BY <2>2, <2>3, <2>4
<1> QED
  BY <1>4, <1>5
-----------------------------------------------------------------------------
(***************************************************************************)
(* The inductive invariant.                                                *)
(***************************************************************************)
\* j has a run of its own at hand, and something still to do for it.
Has(j) == job[j].phase # "over" /\ (job[j].task > 0 \/ job[j].phase = "acted")

\* What a run's outcome may say of it: no step, or the first that did not succeed.
Right(l, r, n) ==
  /\ n # 0 => StatusOf(l, r, n) # "succeeded"
  /\ \A m \in Declared(l, r) : n = 0 \/ m < n => StatusOf(l, r, m) = "succeeded"

\* Where j is fits what it is, and its run has been started.
Fits(j) ==
  /\ job[j] \in Job /\ job[j].task <= Closing(j)
  /\ job[j].run # 0 => Started(log, job[j].run)
  /\ job[j].task > 0 \/ job[j].phase = "acted" => job[j].run # 0
  /\ j \in Loads /\ job[j].task = 0 => job[j].run = 0
  /\ job[j].phase = "acted" => j \in Dags
  /\ job[j].phase = "busy" => job[j].task > 0
  /\ j \notin Dags /\ job[j].task <= Last(j) => job[j].verdict = 0
  /\ j \in Loads /\ Has(j) /\ Finished(log, job[j].run) => job[j].run \in reopened

\* What a record that can be read says of j's run is what j has done of it.
Follows(j) ==
  Readable(log) /\ Has(j) =>
    LET r == job[j].run
        n == job[j].task
    IN /\ Declared(log, r) = 1 .. Last(j)
       /\ n <= Last(j) =>
            /\ ~Finished(log, r)
            /\ \A m \in 1 .. Last(j) : m < n => StatusOf(log, r, m) = "succeeded"
            /\ n > 0 /\ job[j].phase = "busy"  => StatusOf(log, r, n) = "interrupted"
            /\ n > 0 /\ job[j].phase = "acted" => StatusOf(log, r, n) = "succeeded"
            /\ j \notin Dags =>
                 \A m \in 1 .. Last(j) :
                   m > n \/ (m = n /\ job[j].phase = "ready") => StatusOf(log, r, m) = "never"
       /\ n = Closing(j) /\ job[j].phase = "busy" => Right(log, r, job[j].verdict)

\* Two jobs have one run between them only if it was opened twice, and then the record
\* cannot be read any more.
Apart ==
  \A j, k \in Jobs :
    j # k /\ job[j].run = job[k].run /\ job[j].run # 0
      => ~Readable(log) /\ job[j].run \in reopened

LogInv ==
  /\ log \in Seq(Events)
  /\ \A i \in DOMAIN log : Started(log, log[i].run)
  /\ ReadableUnlessReopened /\ OneOutcome /\ OutcomeFollowsAttempts /\ StepsInOrder

Counts == losses \in 0 .. MaxLosses /\ reopened \subseteq Runs

Inv ==
  /\ LogInv /\ Counts /\ Apart
  /\ job \in [Jobs -> Job]
  /\ \A j \in Jobs : Fits(j) /\ Follows(j)

LEMMA LastOfJob ==
  ASSUME NEW j
  PROVE  Last(j) \in 1 .. NSteps /\ Closing(j) = Last(j) + 1 /\ Closing(j) \in 2 .. NSteps + 1
BY DEF Last, Closing

LEMMA Initially == Init => Inv
<1> SUFFICES ASSUME Init PROVE Inv
  OBVIOUS
<1>1. log = <<>> /\ DOMAIN log = {} /\ log \in Seq(Events)
  BY DEF Init
<1>2. ASSUME NEW j \in Jobs
      PROVE  /\ job[j] \in Job /\ job[j].task = 0 /\ job[j].run = 0 /\ job[j].verdict = 0
             /\ job[j].phase \in {"ready", "over"}
  BY DEF Init, Job
<1>3. job \in [Jobs -> Job]
  BY DEF Init, Job
<1>4. Readable(log)
  BY <1>1 DEF Readable
<1>5. LogInv
  BY <1>1, <1>4
     DEF LogInv, ReadableUnlessReopened, OneOutcome, OutcomeFollowsAttempts, StepsInOrder
<1>6. Counts
  BY DEF Init, Counts
<1>7. ASSUME NEW j \in Jobs PROVE Fits(j) /\ Follows(j)
  BY <1>2, LastOfJob DEF Fits, Follows, Has
<1>8. Apart
  BY <1>2 DEF Apart
<1> QED
  BY <1>3, <1>5, <1>6, <1>7, <1>8 DEF Inv

(***************************************************************************)
(* A step of one job that leaves the record alone.                         *)
(***************************************************************************)
LEMMA QuietKeeps ==
  ASSUME Inv, NEW j \in Jobs, NEW v \in Job, job' = [job EXCEPT ![j] = v],
         v.run = job[j].run, log' = log, reopened' = reopened,
         losses' \in 0 .. MaxLosses, Fits(j)', Follows(j)'
  PROVE  Inv'
<1>1. job' \in [Jobs -> Job] /\ \A k \in Jobs : job'[k].run = job[k].run
  BY DEF Inv
<1>2. ASSUME NEW k \in Jobs, k # j PROVE (Fits(k) /\ Follows(k))'
  <2>1. job'[k] = job[k]
    BY <1>2 DEF Inv
  <2>2. Fits(k) /\ Follows(k)
    BY DEF Inv
  <2> QED
    BY <2>1, <2>2 DEF Fits, Follows, Has
<1>3. LogInv'
  <2>1. \A r : Impostor(r)' = Impostor(r)
    BY <1>1 DEF Impostor, Jobs
  <2> QED
    BY <2>1 DEF Inv, LogInv, ReadableUnlessReopened, OneOutcome, OutcomeFollowsAttempts,
                StepsInOrder
<1>4. Apart'
  BY <1>1 DEF Inv, Apart
<1>5. Counts'
  BY DEF Inv, Counts
<1> QED
  BY <1>1, <1>2, <1>3, <1>4, <1>5 DEF Inv

(***************************************************************************)
(* A step of one job that appends a line.                                  *)
(***************************************************************************)
LEMMA OthersFollow ==
  ASSUME Inv, NEW k \in Jobs, NEW e \in Events, log' = Append(log, e), job'[k] = job[k],
         Readable(log') => job[k].run # e.run,
         reopened \subseteq reopened',
         e.kind = "finished" /\ job[k].run = e.run => e.run \in reopened'
  PROVE  Fits(k)' /\ Follows(k)'
<1> DEFINE r == job[k].run
<1>1. log \in Seq(Events) /\ Fits(k) /\ Follows(k)
  BY DEF Inv, LogInv
<1>2. /\ Started(log', r) <=> Started(log, r) \/ (e.kind = "started" /\ e.run = r)
      /\ Finished(log', r) <=> Finished(log, r) \/ (e.kind = "finished" /\ e.run = r)
  BY <1>1, PresenceAppended
<1>3. Fits(k)'
  BY <1>1, <1>2 DEF Fits, Has
<1>4. ASSUME Readable(log') PROVE
        /\ Readable(log) /\ Declared(log', r) = Declared(log, r)
        /\ Finished(log', r) <=> Finished(log, r)
        /\ \A n : StatusOf(log', r, n) = StatusOf(log, r, n)
  <2>1. e.run # r
    BY <1>4
  <2>2. Readable(log)
    BY <1>1, <1>4, ReadableAppended
  <2>3. Declared(log', r) = Declared(log, r)
    BY <1>1, <2>1, DeclaredElsewhere
  <2>4. \A n : StatusOf(log', r, n) = StatusOf(log, r, n)
    BY <1>1, <2>1, StatusAppended
  <2> QED
    BY <1>2, <2>1, <2>2, <2>3, <2>4
<1>5. Follows(k)'
  BY <1>1, <1>4 DEF Follows, Has, Right
<1> QED
  BY <1>3, <1>5

LEMMA AppendKeeps ==
  ASSUME Inv, NEW j \in Jobs, NEW v \in Job, NEW e \in Events,
         job' = [job EXCEPT ![j] = v], log' = Append(log, e), v.run = e.run,
         losses' \in 0 .. MaxLosses, reopened \subseteq reopened', reopened' \subseteq Runs,
         e.kind = "started" \/ Started(log, e.run),
         Readable(log') \/ reopened' # {},
         \A k \in Jobs \ {j} : job[k].run = e.run => ~Readable(log') /\ e.run \in reopened',
         j \in Loads => job[j].run \in {0, e.run},
         e.kind = "finished" =>
             /\ ~Finished(log, e.run) \/ (j \in Loads /\ e.run \in reopened)
             /\ j \in Loads \/ Readable(log)
             /\ Readable(log') => /\ Right(log', e.run, e.step)
                                  /\ e.status = IF e.step = 0 THEN "succeeded" ELSE "failed",
         e.kind = "step_started" /\ e.step > 1 /\ Readable(log') =>
             StatusOf(log, e.run, e.step - 1) = "succeeded",
         Fits(j)', Follows(j)'
  PROVE  Inv'
<1> DEFINE here == Len(log) + 1
<1>1. log \in Seq(Events) /\ LogInv /\ Apart
  BY DEF Inv, LogInv
<1>2. /\ log' \in Seq(Events) /\ DOMAIN log' = DOMAIN log \cup {here}
      /\ here \notin DOMAIN log /\ log'[here] = e /\ \A i \in DOMAIN log : log'[i] = log[i]
      /\ \A i \in DOMAIN log : SubSeq(log', 1, i - 1) = SubSeq(log, 1, i - 1)
      /\ SubSeq(log', 1, here - 1) = log
  <2>1. here - 1 = Len(log)
    BY <1>1
  <2> QED
    BY <2>1, <1>1, EventsAppended
<1> HIDE DEF here
<1>3. Readable(log') => Readable(log) /\ ~Refused(log, e)
  BY <1>1, ReadableAppended
<1>4. /\ \A r : Started(log', r) <=> Started(log, r) \/ (e.kind = "started" /\ e.run = r)
      /\ \A r : Finished(log', r) <=> Finished(log, r) \/ (e.kind = "finished" /\ e.run = r)
  BY <1>1, PresenceAppended
<1>5. job' \in [Jobs -> Job] /\ job'[j] = v /\ \A k \in Jobs \ {j} : job'[k] = job[k]
  BY DEF Inv
<1>6. ASSUME NEW k \in Jobs, k # j PROVE (Fits(k) /\ Follows(k))'
  BY <1>5, <1>6, OthersFollow
<1>7. Apart'
  <2> SUFFICES ASSUME NEW a \in Jobs, NEW b \in Jobs, a # b,
                      job'[a].run = job'[b].run, job'[a].run # 0
               PROVE  ~Readable(log') /\ job'[a].run \in reopened'
    BY DEF Apart
  <2>1. CASE a # j /\ b # j
    BY <2>1, <1>1, <1>3, <1>5 DEF Apart
  <2>2. CASE a = j \/ b = j
    BY <2>2, <1>5
  <2> QED
    BY <2>1, <2>2
<1>8. \A i \in DOMAIN log' : Started(log', log'[i].run)
  BY <1>1, <1>2, <1>4 DEF LogInv
<1>9. OneOutcome'
  <2>1. \A i \in DOMAIN log : log[i].kind = "finished" => Finished(log, log[i].run)
    BY DEF Finished, At
  <2>2. \A i \in DOMAIN log : log[i] \in Events
    BY <1>1
  <2>3. ASSUME NEW r \in Runs, Impostor(r) PROVE Impostor(r)'
    <3>1. PICK k \in Loads : job[k].run = r
      BY <2>3 DEF Impostor
    <3>2. k \in Jobs /\ r # 0
      BY DEF Jobs, Runs
    <3>3. job'[k].run = r
      BY <1>5, <3>1, <3>2
    <3> QED
      BY <2>3, <3>3 DEF Impostor
  <2>4. e.kind = "finished" /\ Finished(log, e.run) => Impostor(e.run)'
    BY <1>5 DEF Impostor
  <2>5. ASSUME NEW i \in DOMAIN log', NEW k \in DOMAIN log', i # k,
               log'[i].kind = "finished", log'[k].kind = "finished", log'[i].run = log'[k].run
        PROVE  \E r : r = log'[i].run /\ Impostor(r)'
    <3>1. CASE i \in DOMAIN log /\ k \in DOMAIN log
      <4>1. log'[i].run = log[i].run /\ Impostor(log[i].run)
        BY <1>1, <1>2, <2>5, <3>1 DEF LogInv, OneOutcome
      <4>2. log[i].run \in Runs
        BY <2>2, <3>1 DEF Events
      <4> QED
        BY <2>3, <4>1, <4>2
    <3>2. CASE ~(i \in DOMAIN log /\ k \in DOMAIN log)
      <4>1. e.kind = "finished" /\ log'[i].run = e.run /\ Finished(log, e.run)
        BY <1>2, <2>1, <2>5, <3>2
      <4> QED
        BY <2>4, <4>1
    <3> QED
      BY <3>1, <3>2
  <2> QED
    BY <2>5 DEF OneOutcome, Impostor
<1>10. OutcomeFollowsAttempts'
  <2> SUFFICES ASSUME Readable(log'), NEW i \in DOMAIN log', log'[i].kind = "finished"
               PROVE  /\ log'[i].status = IF log'[i].step = 0 THEN "succeeded" ELSE "failed"
                      /\ Right(log', log'[i].run, log'[i].step)
    BY DEF OutcomeFollowsAttempts, Right
  <2>1. CASE i = here
    BY <2>1, <1>2
  <2>2. CASE i \in DOMAIN log
    <3> DEFINE r == log[i].run
    <3>1. log'[i] = log[i] /\ Finished(log, r) /\ Started(log, r) /\ Readable(log)
      BY <2>2, <1>1, <1>2, <1>3 DEF Finished, At, LogInv
    <3>2. /\ log[i].status = IF log[i].step = 0 THEN "succeeded" ELSE "failed"
          /\ Right(log, r, log[i].step)
      BY <3>1, <2>2, <1>1 DEF LogInv, OutcomeFollowsAttempts, Right
    <3>3. e.run # r
      BY <3>1, <1>3 DEF Refused
    <3>4. /\ Declared(log', r) = Declared(log, r)
          /\ \A n : StatusOf(log', r, n) = StatusOf(log, r, n)
      <4>1. Declared(log', r) = Declared(log, r)
        BY <3>3, <1>1, DeclaredElsewhere
      <4>2. \A n : StatusOf(log', r, n) = StatusOf(log, r, n)
        BY <3>3, <1>1, StatusAppended
      <4> QED
        BY <4>1, <4>2
    <3> QED
      BY <3>1, <3>2, <3>4 DEF Right
  <2> QED
    BY <2>1, <2>2, <1>2
<1>11. StepsInOrder'
  BY <1>1, <1>2, <1>3 DEF LogInv, StepsInOrder
<1>12. LogInv'
  BY <1>2, <1>8, <1>9, <1>10, <1>11 DEF LogInv, ReadableUnlessReopened
<1>13. Counts'
  BY DEF Counts
<1> QED
  BY <1>5, <1>6, <1>7, <1>12, <1>13 DEF Inv
-----------------------------------------------------------------------------
(***************************************************************************)
(* What becomes of a job.                                                  *)
(***************************************************************************)
\* A record in which nothing has changed for the run of j but its present step.
Beside(j) ==
  LET r == job[j].run
  IN /\ Started(log, r) => Started(log', r)
     /\ Finished(log', r) <=> Finished(log, r)
     /\ reopened' = reopened
     /\ Readable(log') =>
          /\ Readable(log) /\ Declared(log', r) = Declared(log, r)
          /\ \A m : m # job[j].task => StatusOf(log', r, m) = StatusOf(log, r, m)

LEMMA BesideUnchanged == ASSUME NEW j, log' = log, reopened' = reopened PROVE Beside(j)
BY DEF Beside

\* A task the scheduler has seen fail.
LEMMA RetriedFollows ==
  ASSUME Inv, NEW j \in Dags, job[j].phase # "over", job'[j] = Retried(j), Beside(j)
  PROVE  Retried(j) \in Job /\ Retried(j).run = job[j].run /\ Fits(j)' /\ Follows(j)'
<1> DEFINE v == Retried(j)
<1>1. /\ job[j] \in Job /\ Fits(j) /\ Follows(j) /\ j \notin Loads
  BY DEF Inv, Jobs
<1>2. /\ Last(j) \in 1 .. NSteps /\ Closing(j) = Last(j) + 1
      /\ Closing(j) \in 0 .. NSteps + 1
  BY LastOfJob
<1>3. \/ v = [job[j] EXCEPT !.phase = "ready", !.tries = @ - 1] /\ job[j].tries > 0
      \/ /\ v = [job[j] EXCEPT !.task = Closing(j), !.phase = "ready", !.tries = Retries]
         /\ job[j].task \in 1 .. Last(j)
      \/ v = [job[j] EXCEPT !.phase = "over"]
  BY DEF Retried, GivenUp
<1>4. /\ v \in Job /\ v.run = job[j].run /\ v.phase \in {"ready", "over"}
      /\ v.task = job[j].task \/ (job[j].task \in 1 .. Last(j) /\ v.task = Closing(j))
      /\ v.verdict = job[j].verdict
  <2>1. CASE v = [job[j] EXCEPT !.phase = "ready", !.tries = @ - 1] /\ job[j].tries > 0
    <3>1. job[j].tries - 1 \in 0 .. Retries
      BY <1>1, <2>1 DEF Job
    <3> HIDE DEF v
    <3> QED
      BY <2>1, <3>1, <1>1 DEF Job
  <2>2. CASE /\ v = [job[j] EXCEPT !.task = Closing(j), !.phase = "ready", !.tries = Retries]
             /\ job[j].task \in 1 .. Last(j)
    <3>1. Retries \in 0 .. Retries
      OBVIOUS
    <3> HIDE DEF v
    <3> QED
      BY <2>2, <3>1, <1>1, <1>2 DEF Job
  <2>3. CASE v = [job[j] EXCEPT !.phase = "over"]
    <3> HIDE DEF v
    <3> QED
      BY <2>3, <1>1 DEF Job
  <2> QED
    BY <2>1, <2>2, <2>3, <1>3
<1> HIDE DEF v
<1>5. job'[j] = v
  BY DEF v
<1>6. Fits(j)'
  BY <1>1, <1>2, <1>4, <1>5 DEF Fits, Beside, Job
<1>7. Follows(j)'
  <2> SUFFICES ASSUME Readable(log'), v.phase = "ready", v.task > 0 PROVE Follows(j)'
    BY <1>4, <1>5 DEF Follows, Has
  <2>1. Readable(log) /\ Has(j)
    BY <1>1, <1>2, <1>4 DEF Has, Beside, Job
  <2>2. Declared(log', v.run) = 1 .. Last(j)
    BY <2>1, <1>1, <1>4 DEF Follows, Beside
  <2>3. v.task <= Last(j) => v.task = job[j].task
    BY <1>2, <1>4
  <2>4. v.task <= Last(j) =>
          /\ ~Finished(log', v.run)
          /\ \A m \in 1 .. Last(j) : m < v.task => StatusOf(log', v.run, m) = "succeeded"
    <3> SUFFICES ASSUME v.task <= Last(j)
                 PROVE  /\ ~Finished(log', v.run)
                        /\ \A m \in 1 .. Last(j) : m < v.task => StatusOf(log', v.run, m) = "succeeded"
      OBVIOUS
    <3>1. v.task = job[j].task /\ v.task \in Int
      BY <2>3, <1>1 DEF Job
    <3>2. /\ ~Finished(log, v.run)
          /\ \A m \in 1 .. Last(j) : m < v.task => StatusOf(log, v.run, m) = "succeeded"
      BY <3>1, <2>1, <1>1, <1>4 DEF Follows
    <3>3. \A m \in 1 .. Last(j) : m < v.task => StatusOf(log', v.run, m) = StatusOf(log, v.run, m)
      BY <3>1, <1>4 DEF Beside
    <3> QED
      BY <3>2, <3>3, <1>4 DEF Beside
  <2> QED
    BY <2>2, <2>4, <1>4, <1>5 DEF Follows
<1> QED
  BY <1>4, <1>6, <1>7 DEF v

\* A process that has seen a step fail, or has nothing left to fail at.
LEMMA BlamedFollows ==
  ASSUME Inv, NEW j \in Jobs \ Dags, job[j].phase # "over", job'[j] = Blamed(j), Beside(j),
         job[j].task \in 1 .. Last(j) /\ Readable(log') =>
            StatusOf(log', job[j].run, job[j].task) # "succeeded"
  PROVE  Blamed(j) \in Job /\ Blamed(j).run = job[j].run /\ Fits(j)' /\ Follows(j)'
<1> DEFINE v == Blamed(j)
           r == job[j].run
           n == job[j].task
<1>1. /\ job[j] \in Job /\ Fits(j) /\ Follows(j)
  BY DEF Inv
<1>2. /\ Last(j) \in 1 .. NSteps /\ Closing(j) = Last(j) + 1
      /\ Closing(j) \in 0 .. NSteps + 1
  BY LastOfJob
<1>3. CASE n \in 1 .. Last(j)
  <2>1. v = [job[j] EXCEPT !.task = Closing(j), !.phase = "busy", !.verdict = n]
    BY <1>3 DEF Blamed
  <2>2. /\ v \in Job /\ v.run = r /\ v.task = Closing(j) /\ v.phase = "busy" /\ v.verdict = n
    <3>1. n \in 0 .. NSteps
      BY <1>2, <1>3
    <3> HIDE DEF v, n
    <3> QED
      BY <2>1, <3>1, <1>1, <1>2 DEF Job
  <2> HIDE DEF v
  <2>3. job'[j] = v
    BY DEF v
  <2>4. Has(j)
    BY <1>3 DEF Has
  <2>5. Fits(j)'
    BY <2>2, <2>3, <2>4, <1>1, <1>2, <1>3 DEF Fits, Has, Beside
  <2>6. ASSUME Readable(log') PROVE Declared(log', r) = 1 .. Last(j) /\ Right(log', r, n)
    <3>1. /\ Readable(log) /\ Declared(log', r) = 1 .. Last(j)
          /\ \A m \in 1 .. Last(j) : m < n => StatusOf(log, r, m) = "succeeded"
      BY <2>4, <2>6, <1>1, <1>3 DEF Follows, Beside
    <3>2. \A m \in 1 .. Last(j) : m < n => StatusOf(log', r, m) = "succeeded"
      BY <3>1, <2>6, <1>3 DEF Beside
    <3> QED
      BY <3>1, <3>2, <2>6, <1>3 DEF Right
  <2>7. Follows(j)'
    BY <2>2, <2>3, <2>6, <1>2 DEF Follows
  <2> QED
    BY <2>2, <2>5, <2>7 DEF v
<1>4. CASE n \notin 1 .. Last(j)
  <2>1. v = [job[j] EXCEPT !.phase = "over"]
    BY <1>4 DEF Blamed
  <2>2. v \in Job /\ v.run = r /\ v.task = n /\ v.phase = "over" /\ v.verdict = job[j].verdict
    BY <2>1, <1>1 DEF Job
  <2> HIDE DEF v
  <2>3. job'[j] = v
    BY DEF v
  <2>4. Fits(j)' /\ Follows(j)'
    BY <2>2, <2>3, <1>1 DEF Fits, Follows, Has, Beside
  <2> QED
    BY <2>2, <2>4 DEF v
<1> QED
  BY <1>3, <1>4

LEMMA RaisedFollows ==
  ASSUME Inv, NEW j \in Jobs, job[j].phase # "over", job'[j] = Raised(j), Beside(j),
         j \notin Dags /\ job[j].task \in 1 .. Last(j) /\ Readable(log') =>
            StatusOf(log', job[j].run, job[j].task) # "succeeded"
  PROVE  Raised(j) \in Job /\ Raised(j).run = job[j].run /\ Fits(j)' /\ Follows(j)'
<1>1. CASE j \in Dags
  BY <1>1, RetriedFollows DEF Raised
<1>2. CASE j \notin Dags
  BY <1>2, BlamedFollows DEF Raised
<1> QED
  BY <1>1, <1>2
-----------------------------------------------------------------------------
(***************************************************************************)
(* The steps.                                                              *)
(***************************************************************************)
\* Nothing is in the record of a run that was not started.
LEMMA Unstarted ==
  ASSUME LogInv, NEW r, ~Started(log, r)
  PROVE  /\ ~Finished(log, r) /\ Declared(log, r) = {}
         /\ \A n : StatusOf(log, r, n) = "never"
<1>1. \A kind : At(log, kind, r) = {}
  BY DEF LogInv, At
<1>2. Declared(log, r) = {}
  BY <1>1 DEF Declared
<1>3. \A n : StepEvents(log, r, n) = {}
  BY <1>1 DEF StepEvents
<1> QED
  BY <1>1, <1>2, <1>3 DEF Finished, StatusOf

LEMMA OpenKeeps ==
  ASSUME Inv, NEW j \in Jobs, NEW r \in Runs, Open(j, r)
  PROVE  Inv'
<1> DEFINE e == Event("started", r, Last(j), "none")
           v == [Acted(j) EXCEPT !.run = r]
<1>1. /\ job[j].task = 0 /\ job[j].phase = "ready" /\ log' = Append(log, e)
      /\ job' = [job EXCEPT ![j] = v] /\ losses' = losses
      /\ reopened' = (IF Started(log, r) THEN reopened \cup {r} ELSE reopened)
  BY DEF Open, Write, NewRunId
<1>2. /\ Last(j) \in 1 .. NSteps /\ Closing(j) = Last(j) + 1 /\ Closing(j) \in 0 .. NSteps + 1
  BY LastOfJob
<1>3. e \in Events /\ e.kind = "started" /\ e.run = r /\ e.step = Last(j)
  BY <1>2 DEF Event, Events
<1>4. job[j] \in Job /\ Fits(j) /\ LogInv /\ log \in Seq(Events) /\ r # 0
  BY DEF Inv, LogInv, Runs
<1>5. /\ v \in Job /\ v.run = r /\ v.verdict = job[j].verdict
      /\ IF j \in Dags THEN v.task = 0 /\ v.phase = "acted" ELSE v.task = 1 /\ v.phase = "ready"
  <2>1. CASE j \in Dags
    <3>1. v = [job[j] EXCEPT !.phase = "acted", !.run = r]
      BY <2>1 DEF Acted
    <3> HIDE DEF v
    <3> QED
      BY <2>1, <3>1, <1>1, <1>4 DEF Job
  <2>2. CASE j \notin Dags
    <3> DEFINE w == Acted(j)
    <3>1. w = [job[j] EXCEPT !.task = 1, !.phase = "ready"]
      <4>1. job[j].task # Closing(j) /\ job[j].task # Last(j) /\ job[j].task + 1 = 1
        BY <1>1, <1>2
      <4> QED
        BY <2>2, <4>1 DEF Acted
    <3>2. 1 \in 0 .. NSteps + 1
      BY <1>2
    <3>3. v = [w EXCEPT !.run = r]
      OBVIOUS
    <3> HIDE DEF v, w
    <3>4. w \in Job /\ w.task = 1 /\ w.phase = "ready" /\ w.verdict = job[j].verdict
      BY <3>1, <3>2, <1>4 DEF Job
    <3> QED
      BY <2>2, <3>3, <3>4 DEF Job
  <2> QED
    BY <2>1, <2>2
<1>6. job'[j] = v
  BY <1>1 DEF Inv
<1> HIDE DEF e, v
<1>7. Readable(log') => Readable(log) /\ ~Started(log, r)
  BY <1>1, <1>3, <1>4, ReadableAppended DEF Refused
<1>8. Readable(log') \/ reopened' # {}
  <2>1. ~Started(log, r) => ~Refused(log, e)
    BY <1>3 DEF Refused
  <2>2. Readable(log) /\ ~Started(log, r) => Readable(log')
    BY <2>1, <1>1, <1>3, <1>4, ReadableAppended
  <2> QED
    BY <2>2, <1>1, <1>4 DEF LogInv, ReadableUnlessReopened
<1>9. /\ Started(log', r)
      /\ Finished(log', r) <=> Finished(log, r)
  BY <1>1, <1>3, <1>4, PresenceAppended
<1>10. \A k \in Jobs \ {j} : job[k].run = e.run =>
          ~Readable(log') /\ e.run \in reopened'
  BY <1>1, <1>3, <1>4, <1>7 DEF Inv, Fits
<1>11. Fits(j)'
  <2>1. Finished(log, r) => r \in reopened'
    BY <1>1, <1>4, Unstarted
  <2> QED
    BY <2>1, <1>1, <1>2, <1>4, <1>5, <1>6, <1>9 DEF Fits, Has
<1>12. Follows(j)'
  <2> SUFFICES ASSUME Readable(log') PROVE Follows(j)'
    BY DEF Follows
  <2>1. Declared(log', r) = 1 .. Last(j)
    <3>1. Declared(log', r) = Declared(log, r) \cup 1 .. e.step
      BY <1>1, <1>3, <1>4, DeclaredAppended
    <3> QED
      BY <3>1, <1>3, <1>4, <1>7, Unstarted
  <2>2. \A m : StatusOf(log', r, m) = "never"
    <3>1. \A m : StatusOf(log', r, m) = StatusOf(log, r, m)
      BY <1>1, <1>3, <1>4, StatusAppended DEF StepKinds
    <3> QED
      BY <3>1, <1>4, <1>7, Unstarted
  <2>3. ~Finished(log', r)
    BY <1>4, <1>7, <1>9, Unstarted
  <2> QED
    BY <2>1, <2>2, <2>3, <1>2, <1>5, <1>6 DEF Follows
<1>13. losses' \in 0 .. MaxLosses /\ reopened \subseteq reopened' /\ reopened' \subseteq Runs
  BY <1>1 DEF Inv, Counts
<1>14. j \in Loads => job[j].run = 0
  BY <1>1, <1>4 DEF Fits
<1> QED
  BY <1>1, <1>3, <1>5, <1>8, <1>10, <1>11, <1>12, <1>13, <1>14, AppendKeeps

\* Two jobs with one run: somebody has spoilt the record already.
LEMMA Alone ==
  ASSUME Inv, NEW j \in Jobs, NEW e \in Events, job[j].run = e.run, log' = Append(log, e),
         reopened \subseteq reopened'
  PROVE  \A k \in Jobs \ {j} : job[k].run = e.run =>
            ~Readable(log') /\ e.run \in reopened'
<1>1. e.run # 0
  BY DEF Events, Runs
<1>2. Readable(log') => Readable(log)
  BY ReadableAppended DEF Inv, LogInv
<1> QED
  BY <1>1, <1>2 DEF Inv, Apart

LEMMA StepStartKeeps ==
  ASSUME Inv, NEW j \in Jobs, StepStart(j)
  PROVE  Inv'
<1> DEFINE r == job[j].run
           n == job[j].task
           e == Event("step_started", r, n, "none")
           v == [job[j] EXCEPT !.phase = "busy"]
<1>1. /\ n \in 1 .. Last(j) /\ job[j].phase = "ready" /\ log' = Append(log, e)
      /\ job' = [job EXCEPT ![j] = v] /\ losses' = losses
      /\ reopened' = (IF StatusOf(log, r, n) = "interrupted" THEN reopened \cup {r} ELSE reopened)
  BY DEF StepStart, Write
<1>2. Last(j) \in 1 .. NSteps /\ Closing(j) = Last(j) + 1
  BY LastOfJob
<1>3. job[j] \in Job /\ Fits(j) /\ Follows(j) /\ LogInv /\ log \in Seq(Events)
  BY DEF Inv, LogInv
<1>4. r \in Runs /\ r # 0 /\ Started(log, r) /\ Has(j)
  BY <1>1, <1>3 DEF Fits, Has, Job
<1>5. e \in Events /\ e.kind = "step_started" /\ e.run = r /\ e.step = n
  BY <1>1, <1>2, <1>4 DEF Event, Events
<1>6. v \in Job /\ v.run = r /\ v.task = n /\ v.phase = "busy" /\ v.verdict = job[j].verdict
  BY <1>3 DEF Job
<1>7. job'[j] = v
  BY <1>1 DEF Inv
<1> HIDE DEF e, v
<1>8. Readable(log') => Readable(log)
  BY <1>1, <1>3, <1>5, ReadableAppended
<1>9. Readable(log') \/ reopened' # {}
  <2>1. CASE ~Readable(log)
    BY <2>1, <1>1, <1>3 DEF LogInv, ReadableUnlessReopened
  <2>2. CASE Readable(log) /\ StatusOf(log, r, n) # "interrupted"
    <3>1. ~Finished(log, r)
      BY <2>2, <1>1, <1>3, <1>4 DEF Follows
    <3>2. ~Refused(log, e)
      BY <2>2, <3>1, <1>4, <1>5 DEF Refused
    <3> QED
      BY <2>2, <3>2, <1>1, <1>3, <1>5, ReadableAppended
  <2>3. CASE StatusOf(log, r, n) = "interrupted"
    BY <2>3, <1>1
  <2> QED
    BY <2>1, <2>2, <2>3
<1>10. /\ Started(log', r) /\ (Finished(log', r) <=> Finished(log, r))
  BY <1>1, <1>3, <1>4, <1>5, PresenceAppended
<1>11. Fits(j)'
  BY <1>1, <1>3, <1>4, <1>6, <1>7, <1>10 DEF Fits, Has
<1>12. Follows(j)'
  <2> SUFFICES ASSUME Readable(log') PROVE Follows(j)'
    BY DEF Follows
  <2>1. Declared(log', r) = Declared(log, r)
    BY <1>1, <1>3, <1>5, DeclaredElsewhere
  <2>2. StatusOf(log', r, n) = "interrupted"
    BY <1>1, <1>3, <1>5, StatusAppended DEF StepKinds
  <2>3. \A m : m # n => StatusOf(log', r, m) = StatusOf(log, r, m)
    BY <1>1, <1>3, <1>5, StatusAppended DEF StepKinds
  <2>4. /\ Declared(log, r) = 1 .. Last(j) /\ ~Finished(log, r)
        /\ \A m \in 1 .. Last(j) : m < n => StatusOf(log, r, m) = "succeeded"
        /\ j \notin Dags => \A m \in 1 .. Last(j) : m > n => StatusOf(log, r, m) = "never"
    BY <1>1, <1>3, <1>4, <1>8 DEF Follows
  <2>5. /\ \A m \in 1 .. Last(j) : m < n => StatusOf(log', r, m) = "succeeded"
        /\ j \notin Dags => \A m \in 1 .. Last(j) : m > n => StatusOf(log', r, m) = "never"
    BY <2>3, <2>4, <1>1
  <2> QED
    BY <2>1, <2>2, <2>4, <2>5, <1>1, <1>2, <1>6, <1>7, <1>10 DEF Follows
<1>13. e.step > 1 /\ Readable(log') => StatusOf(log, e.run, e.step - 1) = "succeeded"
  BY <1>1, <1>2, <1>3, <1>4, <1>5, <1>8 DEF Follows
<1>14. losses' \in 0 .. MaxLosses /\ reopened' \subseteq Runs
  BY <1>1, <1>4 DEF Inv, Counts
<1>15. \A k \in Jobs \ {j} : job[k].run = e.run =>
          ~Readable(log') /\ e.run \in reopened'
  BY <1>1, <1>5, Alone
<1> QED
  BY <1>1, <1>4, <1>5, <1>6, <1>9, <1>11, <1>12, <1>13, <1>14, <1>15, AppendKeeps

LEMMA StepEndKeeps ==
  ASSUME Inv, NEW j \in Jobs, NEW status \in {"succeeded", "failed"}, StepEnd(j, status)
  PROVE  Inv'
<1> DEFINE r == job[j].run
           n == job[j].task
           e == Event("step_finished", r, n, status)
           v == IF status = "succeeded" THEN Acted(j) ELSE Raised(j)
<1>1. /\ n \in 1 .. Last(j) /\ job[j].phase = "busy" /\ log' = Append(log, e)
      /\ job' = [job EXCEPT ![j] = v] /\ losses' = losses /\ reopened' = reopened
  BY DEF StepEnd, Write
<1>2. /\ Last(j) \in 1 .. NSteps /\ Closing(j) = Last(j) + 1 /\ Closing(j) \in 0 .. NSteps + 1
  BY LastOfJob
<1>3. job[j] \in Job /\ Fits(j) /\ Follows(j) /\ LogInv /\ log \in Seq(Events)
  BY DEF Inv, LogInv
<1>4. r \in Runs /\ r # 0 /\ Started(log, r) /\ Has(j)
  BY <1>1, <1>3 DEF Fits, Has, Job
<1>5. e \in Events /\ e.kind = "step_finished" /\ e.run = r /\ e.step = n /\ e.status = status
  BY <1>1, <1>2, <1>4 DEF Event, Events
<1>6. job'[j] = v
  BY <1>1 DEF Inv
<1> HIDE DEF e, v
<1>7. Readable(log') => Readable(log)
  BY <1>1, <1>3, <1>5, ReadableAppended
<1>8. Readable(log') \/ reopened' # {}
  <2>1. CASE ~Readable(log)
    BY <2>1, <1>1, <1>3 DEF LogInv, ReadableUnlessReopened
  <2>2. CASE Readable(log)
    <3>1. ~Finished(log, r) /\ StatusOf(log, r, n) = "interrupted"
      BY <2>2, <1>1, <1>3, <1>4 DEF Follows
    <3>2. ~Refused(log, e)
      BY <3>1, <1>4, <1>5 DEF Refused
    <3> QED
      BY <2>2, <3>2, <1>1, <1>3, <1>5, ReadableAppended
  <2> QED
    BY <2>1, <2>2
<1>9. /\ Started(log', r) /\ (Finished(log', r) <=> Finished(log, r))
  BY <1>1, <1>3, <1>4, <1>5, PresenceAppended
<1>10. Declared(log', r) = Declared(log, r)
  BY <1>1, <1>3, <1>5, DeclaredElsewhere
<1>11. StatusOf(log', r, n) = status
  BY <1>1, <1>3, <1>5, StatusAppended DEF StepKinds
<1>12. \A m : m # n => StatusOf(log', r, m) = StatusOf(log, r, m)
  BY <1>1, <1>3, <1>5, StatusAppended DEF StepKinds
<1>13. v \in Job /\ v.run = r /\ Fits(j)' /\ Follows(j)'
  <2>1. CASE status = "failed"
    <3>1. v = Raised(j) /\ Beside(j)
      BY <2>1, <1>1, <1>7, <1>9, <1>10, <1>12 DEF v, Beside
    <3>2. StatusOf(log', r, n) # "succeeded"
      BY <2>1, <1>11
    <3> QED
      BY <3>1, <3>2, <1>1, <1>6, RaisedFollows
  <2>2. CASE status = "succeeded" /\ j \in Dags
    <3>1. v = [job[j] EXCEPT !.phase = "acted"]
      BY <2>2 DEF v, Acted
    <3>2. v \in Job /\ v.run = r /\ v.task = n /\ v.phase = "acted" /\ v.verdict = job[j].verdict
      BY <3>1, <1>3 DEF Job
    <3>3. Fits(j)'
      BY <2>2, <3>2, <1>1, <1>3, <1>4, <1>6, <1>9 DEF Fits, Has
    <3>4. ASSUME Readable(log')
          PROVE  /\ Declared(log', r) = 1 .. Last(j) /\ ~Finished(log', r)
                 /\ \A m \in 1 .. Last(j) : m < n => StatusOf(log', r, m) = "succeeded"
      <4>1. /\ Declared(log, r) = 1 .. Last(j) /\ ~Finished(log, r)
            /\ \A m \in 1 .. Last(j) : m < n => StatusOf(log, r, m) = "succeeded"
        BY <3>4, <1>1, <1>3, <1>4, <1>7 DEF Follows
      <4> QED
        BY <4>1, <1>1, <1>9, <1>10, <1>12
    <3>5. Follows(j)'
      BY <2>2, <3>2, <3>4, <1>1, <1>2, <1>6, <1>11 DEF Follows
    <3> QED
      BY <3>2, <3>3, <3>5
  <2>3. CASE status = "succeeded" /\ j \notin Dags
    <3>1. v = [job[j] EXCEPT !.task = n + 1, !.phase = IF n = Last(j) THEN "busy" ELSE "ready"]
      <4>1. n # Closing(j)
        BY <1>1, <1>2
      <4> QED
        BY <2>3, <4>1 DEF v, Acted
    <3>2. n + 1 \in 0 .. NSteps + 1
      BY <1>1, <1>2
    <3>3. /\ v \in Job /\ v.run = r /\ v.task = n + 1 /\ v.verdict = job[j].verdict
          /\ v.phase = IF n = Last(j) THEN "busy" ELSE "ready"
      BY <3>1, <3>2, <1>3 DEF Job
    <3>4. job[j].verdict = 0
      BY <2>3, <1>1, <1>3 DEF Fits
    <3>5. Fits(j)'
      BY <2>3, <3>3, <3>4, <1>1, <1>2, <1>3, <1>4, <1>6, <1>9 DEF Fits, Has
    <3>6. ASSUME Readable(log')
          PROVE  /\ Declared(log', r) = 1 .. Last(j) /\ ~Finished(log', r)
                 /\ \A m \in 1 .. Last(j) : m < n + 1 => StatusOf(log', r, m) = "succeeded"
                 /\ \A m \in 1 .. Last(j) : m >= n + 1 => StatusOf(log', r, m) = "never"
      <4>1. /\ Declared(log, r) = 1 .. Last(j) /\ ~Finished(log, r)
            /\ \A m \in 1 .. Last(j) : m < n => StatusOf(log, r, m) = "succeeded"
            /\ \A m \in 1 .. Last(j) : m > n => StatusOf(log, r, m) = "never"
        BY <2>3, <3>6, <1>1, <1>3, <1>4, <1>7 DEF Follows
      <4>2. \A m \in 1 .. Last(j) : m = n => StatusOf(log', r, m) = "succeeded"
        BY <2>3, <1>11
      <4>3. \A m \in 1 .. Last(j) : m < n => StatusOf(log', r, m) = "succeeded"
        BY <4>1, <1>12, <1>1
      <4>4. \A m \in 1 .. Last(j) : m > n => StatusOf(log', r, m) = "never"
        BY <4>1, <1>12, <1>1
      <4> QED
        BY <4>1, <4>2, <4>3, <4>4, <1>1, <1>9, <1>10
    <3>7. Follows(j)'
      <4>1. CASE n = Last(j)
        <5>1. Readable(log') => Right(log', r, 0)
          BY <3>6, <4>1, <1>2 DEF Right
        <5> QED
          BY <3>3, <3>4, <3>6, <4>1, <5>1, <1>2, <1>6 DEF Follows
      <4>2. CASE n # Last(j)
        BY <3>3, <3>6, <4>2, <1>1, <1>2, <1>6 DEF Follows
      <4> QED
        BY <4>1, <4>2
    <3> QED
      BY <3>3, <3>5, <3>7
  <2> QED
    BY <2>1, <2>2, <2>3
<1>14. losses' \in 0 .. MaxLosses /\ reopened' \subseteq Runs
  BY <1>1 DEF Inv, Counts
<1>15. \A k \in Jobs \ {j} : job[k].run = e.run =>
          ~Readable(log') /\ e.run \in reopened'
  BY <1>1, <1>5, Alone
<1> QED
  BY <1>1, <1>4, <1>5, <1>8, <1>13, <1>14, <1>15, AppendKeeps

LEMMA FinaliseKeeps ==
  ASSUME Inv, NEW j \in Jobs, Finalise(j)
  PROVE  Inv'
<1> DEFINE r == job[j].run
           failed == FailedStep(log, r)
           v == IF ~Readable(log) THEN Raised(j)
                ELSE IF Finished(log, r) THEN Acted(j)
                ELSE [job[j] EXCEPT !.phase = "busy", !.verdict = failed]
<1>1. /\ j \in Dags /\ job[j].task = Closing(j) /\ job[j].phase = "ready"
      /\ job' = [job EXCEPT ![j] = v] /\ log' = log /\ losses' = losses /\ reopened' = reopened
  BY DEF Finalise
<1>2. /\ Last(j) \in 1 .. NSteps /\ Closing(j) = Last(j) + 1 /\ Closing(j) > 0
  BY LastOfJob
<1>3. job[j] \in Job /\ Fits(j) /\ Follows(j) /\ log \in Seq(Events) /\ Has(j) /\ j \notin Loads
  BY <1>1, <1>2 DEF Inv, LogInv, Has
<1>4. job'[j] = v
  BY <1>1 DEF Inv
<1> HIDE DEF v
<1>5. v \in Job /\ v.run = r /\ Fits(j)' /\ Follows(j)'
  <2>1. CASE ~Readable(log)
    <3>1. v = Raised(j) /\ Beside(j)
      BY <2>1, <1>1, BesideUnchanged DEF v
    <3> QED
      BY <3>1, <1>1, <1>4, RaisedFollows
  <2>2. CASE Readable(log) /\ Finished(log, r)
    <3>1. v = [job[j] EXCEPT !.phase = "acted"]
      BY <2>2, <1>1 DEF v, Acted
    <3>2. /\ v \in Job /\ v.run = r /\ v.task = Closing(j) /\ v.phase = "acted"
      BY <3>1, <1>1, <1>3 DEF Job
    <3>3. Fits(j)' /\ Follows(j)'
      BY <3>2, <1>1, <1>2, <1>3, <1>4 DEF Fits, Follows, Has
    <3> QED
      BY <3>2, <3>3
  <2>3. CASE Readable(log) /\ ~Finished(log, r)
    <3>1. v = [job[j] EXCEPT !.phase = "busy", !.verdict = failed]
      BY <2>3 DEF v
    <3>2. Declared(log, r) = 1 .. Last(j)
      BY <2>3, <1>3 DEF Follows
    <3>3. failed \in 0 .. NSteps /\ Right(log, r, failed)
      <4>1. /\ failed \in 0 .. Last(j)
            /\ failed # 0 => StatusOf(log, r, failed) # "succeeded"
            /\ \A m \in 1 .. Last(j) : failed = 0 \/ m < failed => StatusOf(log, r, m) = "succeeded"
        BY <3>2, <1>2, <1>3, FailedStepIsFirst
      <4> HIDE DEF failed
      <4> QED
        BY <4>1, <3>2, <1>2 DEF Right
    <3> HIDE DEF failed
    <3>4. /\ v \in Job /\ v.run = r /\ v.task = Closing(j) /\ v.phase = "busy" /\ v.verdict = failed
      BY <3>1, <3>3, <1>1, <1>3 DEF Job
    <3>5. Fits(j)'
      BY <3>4, <1>1, <1>2, <1>3, <1>4 DEF Fits, Has
    <3>6. Follows(j)'
      BY <3>2, <3>3, <3>4, <1>1, <1>2, <1>4 DEF Follows
    <3> QED
      BY <3>4, <3>5, <3>6
  <2> QED
    BY <2>1, <2>2, <2>3
<1> QED
  BY <1>1, <1>5, QuietKeeps DEF Inv, Counts

LEMMA CloseRunKeeps ==
  ASSUME Inv, NEW j \in Jobs, CloseRun(j)
  PROVE  Inv'
<1> DEFINE r == job[j].run
           n == job[j].verdict
           refused == j \notin Loads /\ (~Readable(log) \/ Finished(log, r))
           e == Event("finished", r, n, IF n = 0 THEN "succeeded" ELSE "failed")
<1>1. /\ job[j].task = Closing(j) /\ job[j].phase = "busy"
      /\ losses' = losses /\ reopened' = reopened
      /\ IF refused THEN job' = [job EXCEPT ![j] = Raised(j)] /\ log' = log
         ELSE job' = [job EXCEPT ![j] = Acted(j)] /\ log' = Append(log, e)
  BY DEF CloseRun, Write
<1>2. /\ Last(j) \in 1 .. NSteps /\ Closing(j) = Last(j) + 1 /\ Closing(j) > 0
  BY LastOfJob
<1>3. job[j] \in Job /\ Fits(j) /\ Follows(j) /\ LogInv /\ log \in Seq(Events) /\ Has(j)
  BY <1>1, <1>2 DEF Inv, LogInv, Has
<1>4. losses' \in 0 .. MaxLosses /\ reopened' \subseteq Runs
  BY <1>1 DEF Inv, Counts
<1>5. CASE refused
  <2>1. job'[j] = Raised(j) /\ Beside(j)
    BY <1>1, <1>5, BesideUnchanged DEF Inv
  <2>2. Raised(j) \in Job /\ Raised(j).run = r /\ Fits(j)' /\ Follows(j)'
    BY <2>1, <1>1, <1>2, RaisedFollows
  <2> QED
    BY <2>2, <1>1, <1>4, <1>5, QuietKeeps
<1>6. CASE ~refused
  <2> DEFINE v == Acted(j)
  <2>1. v = [job[j] EXCEPT !.phase = IF j \in Dags THEN "acted" ELSE "over"]
    BY <1>1 DEF Acted
  <2>2. job' = [job EXCEPT ![j] = v] /\ job'[j] = v /\ log' = Append(log, e)
    BY <1>1, <1>6 DEF Inv
  <2> HIDE DEF v
  <2>3. /\ v \in Job /\ v.run = r /\ v.task = Closing(j) /\ v.verdict = n
        /\ v.phase = IF j \in Dags THEN "acted" ELSE "over"
    BY <2>1, <1>1, <1>3 DEF Job
  <2>4. r \in Runs /\ Started(log, r) /\ r # 0 /\ n \in 0 .. NSteps
    BY <1>1, <1>2, <1>3 DEF Fits, Job
  <2>5. /\ e \in Events /\ e.kind = "finished" /\ e.run = r /\ e.step = n
        /\ e.status = IF n = 0 THEN "succeeded" ELSE "failed"
    BY <2>4 DEF Event, Events
  <2> HIDE DEF e
  <2>6. /\ ~Finished(log, r) \/ (j \in Loads /\ r \in reopened)
        /\ j \in Loads \/ Readable(log)
    BY <1>3, <1>6 DEF Fits
  <2>7. Readable(log') => Readable(log)
    BY <2>2, <2>5, <1>3, ReadableAppended
  <2>8. Readable(log') \/ reopened' # {}
    <3>1. ~Refused(log, e) \/ reopened # {}
      BY <2>4, <2>5, <2>6 DEF Refused
    <3>2. Readable(log) /\ ~Refused(log, e) => Readable(log')
      BY <2>2, <2>5, <1>3, ReadableAppended
    <3> QED
      BY <3>1, <3>2, <1>1, <1>3 DEF LogInv, ReadableUnlessReopened
  <2>9. Started(log', r)
    BY <2>2, <2>4, <2>5, <1>3, PresenceAppended
  <2>10. Declared(log', r) = Declared(log, r)
    BY <2>2, <2>5, <1>3, DeclaredElsewhere
  <2>11. \A m : StatusOf(log', r, m) = StatusOf(log, r, m)
    BY <2>2, <2>5, <1>3, StatusAppended DEF StepKinds
  <2>12. Readable(log') => Right(log', r, n)
    <3>1. Readable(log) => Right(log, r, n)
      BY <1>1, <1>3 DEF Follows
    <3> QED
      BY <3>1, <2>7, <2>10, <2>11 DEF Right
  <2>13. Fits(j)'
    BY <2>2, <2>3, <2>4, <2>9, <1>1, <1>2, <1>3, JobsAssumption DEF Fits, Has
  <2>14. Follows(j)'
    <3>1. Readable(log') => Declared(log', r) = 1 .. Last(j)
      BY <2>7, <2>10, <1>3 DEF Follows
    <3> QED
      BY <3>1, <2>2, <2>3, <1>2 DEF Follows, Has
  <2>15. \A k \in Jobs \ {j} : job[k].run = e.run =>
            ~Readable(log') /\ e.run \in reopened'
    BY <2>2, <2>5, <1>1, Alone
  <2>16. reopened \subseteq reopened' /\ job[j].run = e.run
    BY <2>5, <1>1
  <2> QED
    BY <2>2, <2>3, <2>4, <2>5, <2>6, <2>8, <2>12, <2>13, <2>14, <2>15, <2>16, <1>4, AppendKeeps
<1> QED
  BY <1>5, <1>6

LEMMA ReportedKeeps ==
  ASSUME Inv, NEW j \in Jobs, Reported(j)
  PROVE  Inv'
<1> DEFINE n == job[j].task
           v == IF n = Closing(j) THEN [job[j] EXCEPT !.phase = "over"]
                ELSE [job[j] EXCEPT !.task = n + 1, !.phase = "ready", !.tries = Retries]
<1>1. /\ job[j].phase = "acted" /\ job' = [job EXCEPT ![j] = v]
      /\ log' = log /\ losses' = losses /\ reopened' = reopened
  BY DEF Reported
<1>2. /\ Last(j) \in 1 .. NSteps /\ Closing(j) = Last(j) + 1 /\ Closing(j) > 0
  BY LastOfJob
<1>3. /\ job[j] \in Job /\ Fits(j) /\ Follows(j) /\ Has(j) /\ j \in Dags /\ j \notin Loads
      /\ n \in 0 .. NSteps + 1 /\ n <= Closing(j)
  BY <1>1 DEF Inv, Fits, Has, Job
<1>4. job'[j] = v
  BY <1>1 DEF Inv
<1> HIDE DEF v
<1>5. CASE n = Closing(j)
  <2>1. v = [job[j] EXCEPT !.phase = "over"]
    BY <1>5 DEF v
  <2>2. v \in Job /\ v.run = job[j].run /\ v.task = n /\ v.phase = "over"
    BY <2>1, <1>3 DEF Job
  <2>3. Fits(j)' /\ Follows(j)'
    BY <2>2, <1>1, <1>3, <1>4 DEF Fits, Follows, Has
  <2> QED
    BY <2>2, <2>3, <1>1, QuietKeeps DEF Inv, Counts
<1>6. CASE n # Closing(j)
  <2>1. v = [job[j] EXCEPT !.task = n + 1, !.phase = "ready", !.tries = Retries]
    BY <1>6 DEF v
  <2>2. n <= Last(j) /\ n + 1 \in 0 .. NSteps + 1 /\ Retries \in 0 .. Retries
    BY <1>2, <1>3, <1>6
  <2>3. v \in Job /\ v.run = job[j].run /\ v.task = n + 1 /\ v.phase = "ready"
    BY <2>1, <2>2, <1>3 DEF Job
  <2>4. Fits(j)'
    BY <2>2, <2>3, <1>1, <1>2, <1>3, <1>4 DEF Fits, Has
  <2>5. ASSUME Readable(log)
        PROVE  /\ Declared(log, v.run) = 1 .. Last(j) /\ ~Finished(log, v.run)
               /\ \A m \in 1 .. Last(j) : m < n + 1 => StatusOf(log, v.run, m) = "succeeded"
    <3>1. /\ Declared(log, v.run) = 1 .. Last(j) /\ ~Finished(log, v.run)
          /\ \A m \in 1 .. Last(j) : m < n => StatusOf(log, v.run, m) = "succeeded"
          /\ n > 0 => StatusOf(log, v.run, n) = "succeeded"
      BY <2>2, <2>3, <2>5, <1>1, <1>3 DEF Follows
    <3> QED
      BY <3>1, <1>3
  <2>6. Follows(j)'
    BY <2>2, <2>3, <2>5, <1>1, <1>2, <1>3, <1>4 DEF Follows
  <2> QED
    BY <2>3, <2>4, <2>6, <1>1, QuietKeeps DEF Inv, Counts
<1> QED
  BY <1>5, <1>6

LEMMA LostKeeps ==
  ASSUME Inv, NEW j \in Jobs, Lost(j)
  PROVE  Inv'
<1> DEFINE v == IF j \in Dags THEN Retried(j) ELSE [job[j] EXCEPT !.phase = "over"]
<1>1. /\ job[j].phase # "over" /\ losses < MaxLosses /\ losses' = losses + 1
      /\ job' = [job EXCEPT ![j] = v] /\ log' = log /\ reopened' = reopened
  BY DEF Lost
<1>2. losses' \in 0 .. MaxLosses /\ job'[j] = v /\ job[j] \in Job /\ Fits(j)
  BY <1>1 DEF Inv, Counts
<1>3. CASE j \in Dags
  <2>1. v = Retried(j) /\ Beside(j)
    BY <1>1, <1>3, BesideUnchanged
  <2> QED
    BY <2>1, <1>1, <1>2, <1>3, RetriedFollows, QuietKeeps
<1>4. CASE j \notin Dags
  <2>1. v = [job[j] EXCEPT !.phase = "over"]
    BY <1>4
  <2> HIDE DEF v
  <2>2. /\ v \in Job /\ v.run = job[j].run /\ v.task = job[j].task /\ v.phase = "over"
        /\ v.verdict = job[j].verdict
    BY <2>1, <1>2 DEF Job
  <2>3. Fits(j)' /\ Follows(j)'
    BY <2>2, <1>1, <1>2, <1>4 DEF Fits, Follows, Has
  <2> QED
    BY <2>2, <2>3, <1>1, <1>2, QuietKeeps
<1> QED
  BY <1>3, <1>4

LEMMA UnwrittenKeeps ==
  ASSUME Inv, NEW j \in Jobs, Unwritten(j)
  PROVE  Inv'
<1>1. /\ j \in Commands /\ j \notin Dags /\ job[j].task \in 1 .. Last(j) /\ job[j].phase # "over"
      /\ losses < MaxLosses /\ losses' = losses + 1
      /\ job' = [job EXCEPT ![j] = Blamed(j)] /\ log' = log /\ reopened' = reopened
  BY DEF Unwritten
<1>2. losses' \in 0 .. MaxLosses /\ job'[j] = Blamed(j) /\ Beside(j)
  BY <1>1, BesideUnchanged DEF Inv, Counts
<1>3. Readable(log) => StatusOf(log, job[j].run, job[j].task) # "succeeded"
  <2>1. job[j].phase \in {"ready", "busy"} /\ Has(j) /\ Follows(j)
    BY <1>1 DEF Inv, Fits, Job, Has
  <2> QED
    BY <2>1, <1>1 DEF Follows
<1> QED
  BY <1>1, <1>2, <1>3, BlamedFollows, QuietKeeps

LEMMA NextKeeps == Inv /\ [Next]_vars => Inv'
<1> SUFFICES ASSUME Inv, [Next]_vars PROVE Inv'
  OBVIOUS
<1>1. CASE UNCHANGED vars
  <2>1. log' = log /\ job' = job /\ losses' = losses /\ reopened' = reopened
    BY <1>1 DEF vars
  <2> QED
    BY <2>1 DEF Inv, LogInv, Counts, Apart, Fits, Follows, Has, ReadableUnlessReopened,
                OneOutcome, Impostor, OutcomeFollowsAttempts, StepsInOrder
<1>2. CASE Next
  BY <1>1, <1>2, OpenKeeps, StepStartKeeps, StepEndKeeps, FinaliseKeeps, CloseRunKeeps,
     ReportedKeeps, LostKeeps, UnwrittenKeeps
     DEF Next, Work, Done
<1> QED
  BY <1>1, <1>2

LEMMA Invariance == Spec => []Inv
BY Initially, NextKeeps, PTL DEF Spec

\* Every reachable state is well typed, for any jobs (run.py, runs.py).
THEOREM TypeCorrect == Spec => []TypeOK
<1>1. Inv => TypeOK
  BY DEF Inv, LogInv, Counts, Fits, Job, TypeOK
<1> QED
  BY <1>1, Invariance, PTL

\* Only starting what is still open spoils the record (runs.py:307-444).
THEOREM ReadableUnlessReopenedHolds == Spec => []ReadableUnlessReopened
<1>1. Inv => ReadableUnlessReopened
  BY DEF Inv, LogInv
<1> QED
  BY <1>1, Invariance, PTL

\* A run has one outcome at most, whether or not the record can still be read, unless a
\* load by hand goes by its identifier and somebody opened it twice (run.py:217-234,
\* 248-252; load.py:668, 692).
THEOREM OneOutcomeHolds == Spec => []OneOutcome
<1>1. Inv => OneOutcome
  BY DEF Inv, LogInv
<1> QED
  BY <1>1, Invariance, PTL

\* The outcome names the first step that did not succeed (run.py:253-285, 309-320).
THEOREM OutcomeFollowsAttemptsHolds == Spec => []OutcomeFollowsAttempts
<1>1. Inv => OutcomeFollowsAttempts
  BY DEF Inv, LogInv
<1> QED
  BY <1>1, Invariance, PTL

\* No step begins before the one it follows has succeeded (run.py:290-321).
THEOREM StepsInOrderHolds == Spec => []StepsInOrder
<1>1. Inv => StepsInOrder
  BY DEF Inv, LogInv
<1> QED
  BY <1>1, Invariance, PTL
=============================================================================
