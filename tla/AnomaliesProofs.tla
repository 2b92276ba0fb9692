--------------------------- MODULE AnomaliesProofs ---------------------------
(***************************************************************************)
(* Anomalies: for any series, balances, lags, families and number of       *)
(* judges, the queue of a period and family is that of the judgement which *)
(* was committed last, whatever overlaps with it, and nothing a judgement  *)
(* is fitted on comes from ahead of its period.                            *)
(***************************************************************************)
EXTENDS Anomalies, FiniteSetTheorems, TLAPS

Scopes == (1 .. Horizon) \X Families

Judge == [pc : {"idle", "read", "replacing"}, by : 0 .. MaxJudgements,
          judged : SUBSET (1 .. Horizon), family : Families \cup {None},
          able : SUBSET (1 .. Horizon), put : SUBSET Flag, gone : SUBSET Flag,
          missed : SUBSET (Scopes \X (1 .. MaxJudgements))]

\* A judge that works has a judgement of its own, of a family, and has judged nothing
\* it could not; its flags carry it and are of what it judged.
Working(j) ==
    judge[j].pc # "idle" =>
        /\ judge[j].by \in 1 .. judgements
        /\ judge[j].family \in Families
        /\ judge[j].judged \subseteq judge[j].able
        /\ \A f \in judge[j].put :
              f.by = judge[j].by /\ f.period \in judge[j].judged /\ f.family = judge[j].family
        /\ \A f \in judge[j].gone : f.period \in judge[j].judged /\ f.family = judge[j].family

\* What stands in the way of a replacing judge is what its DELETE saw, or was committed
\* since, which it is known to have missed.
Seen(j) ==
    judge[j].pc = "replacing" =>
        \A f \in flags : <<f.period, f.family>> \in Scope(j) =>
            f \in judge[j].gone \/ <<<<f.period, f.family>>, f.by>> \in judge[j].missed

Types ==
    /\ flags \in SUBSET Flag
    /\ judge \in [Judges -> Judge]
    /\ standing \in [Scopes -> SUBSET (1 .. MaxJudgements)]
    /\ judgements \in 0 .. MaxJudgements

Inv ==
    /\ Types
    /\ \A f \in flags : f.by \in 1 .. judgements
    /\ \A j \in Judges : Working(j) /\ Seen(j)
    /\ LastJudgementStands

USE AnomaliesAssumption

LEMMA Initially == Init => Inv
<1> SUFFICES ASSUME Init PROVE Inv
  OBVIOUS
<1>1. Types
  <2>1. Idle \in Judge
    BY DEF Idle, Judge
  <2> QED
    BY <2>1 DEF Init, Types, Scopes
<1>2. \A j \in Judges : Working(j) /\ Seen(j)
  BY DEF Init, Working, Seen, Idle
<1> QED
  BY <1>1, <1>2 DEF Inv, Init, LastJudgementStands

LEMMA IdleIsAJudge == Idle \in Judge
BY DEF Idle, Judge

\* A step that leaves the queue alone and lets one judge be idle, or leaves the judges.
LEMMA JudgeRests ==
  ASSUME Inv, NEW j \in Judges, judge' = [judge EXCEPT ![j] = Idle],
         UNCHANGED <<flags, standing, judgements>>
  PROVE  Inv'
<1>1. Types'
  BY IdleIsAJudge DEF Inv, Types
<1>2. ASSUME NEW k \in Judges PROVE (Working(k) /\ Seen(k))'
  <2>1. CASE k = j
    BY <2>1 DEF Inv, Types, Working, Seen, Idle
  <2>2. CASE k # j
    <3>1. judge'[k] = judge[k]
      BY <2>2 DEF Inv, Types
    <3> QED
      BY <3>1 DEF Inv, Working, Seen, Scope
  <2> QED
    BY <2>1, <2>2
<1> QED
  BY <1>1, <1>2 DEF Inv, LastJudgementStands

LEMMA ReadKeeps ==
  ASSUME Inv, NEW j \in Judges, NEW periods \in SUBSET (1 .. Horizon),
         NEW family \in Families, Read(j, periods, family)
  PROVE  Inv'
<1> DEFINE judged == Judged(mart, periods)
           put(out) == {[series |-> o[1], period |-> o[2], family |-> family,
                         by |-> judgements'] : o \in out}
           fresh(out) == [pc |-> "read", by |-> judgements', judged |-> judged,
                          family |-> family, able |-> periods \cap Judgeable(mart),
                          put |-> put(out), gone |-> {}, missed |-> {}]
<1>1. PICK out \in SUBSET (Series \X judged) : judge' = [judge EXCEPT ![j] = fresh(out)]
  BY DEF Read
<1>2. judged \subseteq periods /\ judged \subseteq Judgeable(mart)
  BY DEF Judged
<1>3. judgements' = judgements + 1 /\ judgements' \in 1 .. MaxJudgements
  BY DEF Inv, Types, Read
<1>4. put(out) \in SUBSET Flag
  <2>1. judged \subseteq 1 .. Horizon
    BY <1>2
  <2> HIDE DEF judged
  <2>2. \A o \in out : o[1] \in Series /\ o[2] \in 1 .. Horizon
    BY <2>1
  <2>3. \A o \in out : [series |-> o[1], period |-> o[2], family |-> family,
                         by |-> judgements'] \in Flag
    BY <2>2, <1>3 DEF Flag
  <2> QED
    BY <2>3
<1>5. /\ fresh(out) \in Judge
      /\ fresh(out).pc = "read" /\ fresh(out).by = judgements' /\ fresh(out).judged = judged
      /\ fresh(out).family = family /\ fresh(out).able = periods \cap Judgeable(mart)
      /\ fresh(out).put = put(out) /\ fresh(out).gone = {}
  <2> DEFINE able == periods \cap Judgeable(mart)
  <2>1. judged \in SUBSET (1 .. Horizon) /\ able \in SUBSET (1 .. Horizon)
    BY <1>2
  <2>2. judgements' \in 0 .. MaxJudgements /\ family \in Families \cup {None}
    BY <1>3
  <2>3. {} \in SUBSET (Scopes \X (1 .. MaxJudgements)) /\ {} \in SUBSET Flag
    OBVIOUS
  <2> HIDE DEF put, judged, able
  <2>4. [pc |-> "read", by |-> judgements', judged |-> judged, family |-> family, able |-> able,
         put |-> put(out), gone |-> {}, missed |-> {}] \in Judge
    BY <2>1, <2>2, <2>3, <1>4 DEF Judge
  <2> QED
    BY <2>4 DEF able
<1>6. UNCHANGED <<flags, standing>>
  BY DEF Read
<1>7. judge[j] \in Judge /\ judge'[j] = fresh(out) /\ \A k \in Judges \ {j} : judge'[k] = judge[k]
  BY <1>1 DEF Inv, Types
<1> HIDE DEF fresh
<1>8. Types'
  BY <1>1, <1>3, <1>5, <1>6 DEF Inv, Types
<1>9. ASSUME NEW k \in Judges PROVE (Working(k) /\ Seen(k))'
  <2>1. CASE k = j
    <3>1. \A f \in put(out) : f.by = judgements' /\ f.period \in judged /\ f.family = family
      BY <1>2
    <3> HIDE DEF put, judged
    <3>2. judge'[k].pc = "read" /\ judge'[k].by = judgements' /\ judge'[k].judged = judged
          /\ judge'[k].family = family /\ judge'[k].able = periods \cap Judgeable(mart)
          /\ judge'[k].put = put(out) /\ judge'[k].gone = {}
      BY <2>1, <1>5, <1>7
    <3>3. Working(k)'
      BY <1>2, <1>3, <3>1, <3>2 DEF Working
    <3> QED
      BY <3>2, <3>3 DEF Seen
  <2>2. CASE k # j
    <3>1. judge'[k] = judge[k]
      BY <2>2, <1>7
    <3>2. Working(k)'
      <4>1. judge[k].pc # "idle" => judge[k].by \in 1 .. judgements'
        BY <1>3 DEF Inv, Types, Working
      <4> QED
        BY <3>1, <4>1 DEF Inv, Working
    <3> QED
      BY <3>1, <3>2, <1>6 DEF Inv, Seen, Scope
  <2> QED
    BY <2>1, <2>2
<1>10. \A f \in flags' : f.by \in 1 .. judgements'
  BY <1>3, <1>6 DEF Inv, Types
<1> QED
  BY <1>6, <1>8, <1>9, <1>10 DEF Inv, LastJudgementStands

LEMMA DeleteKeeps ==
  ASSUME Inv, NEW j \in Judges, Delete(j)
  PROVE  Inv'
<1>1. /\ UNCHANGED <<flags, standing, judgements>>
      /\ Doomed(j) \in SUBSET Flag
      /\ judge[j] \in Judge /\ judge[j].pc = "read"
  BY DEF Delete, Doomed, Inv, Types
<1>2. judge'[j] = [judge[j] EXCEPT !.pc = "replacing", !.gone = Doomed(j)]
  BY <1>1 DEF Delete, Inv, Types
<1>3. /\ judge'[j].pc = "replacing" /\ judge'[j].gone = Doomed(j)
      /\ judge'[j].by = judge[j].by /\ judge'[j].judged = judge[j].judged
      /\ judge'[j].family = judge[j].family /\ judge'[j].able = judge[j].able
      /\ judge'[j].put = judge[j].put /\ judge'[j] \in Judge
  BY <1>1, <1>2 DEF Judge
<1>4. \A k \in Judges \ {j} : judge'[k] = judge[k]
  BY DEF Delete, Inv, Types
<1>5. Types'
  <2>1. judge' = [k \in Judges |-> judge'[k]]
    BY DEF Delete, Inv, Types
  <2>2. \A k \in Judges : judge'[k] \in Judge
    BY <1>3, <1>4 DEF Inv, Types
  <2>3. judge' \in [Judges -> Judge]
    BY <2>1, <2>2
  <2> QED
    BY <1>1, <2>3 DEF Inv, Types
<1>6. ASSUME NEW k \in Judges PROVE (Working(k) /\ Seen(k))'
  <2>1. CASE k = j
    <3>1. \A f \in Doomed(j) : f.period \in judge[j].judged /\ f.family = judge[j].family
      BY DEF Doomed, Scope
    <3>2. Working(k)'
      BY <2>1, <3>1, <1>1, <1>3 DEF Inv, Working
    <3>3. Seen(k)'
      BY <2>1, <1>1, <1>3 DEF Seen, Scope, Doomed
    <3> QED
      BY <3>2, <3>3
  <2>2. CASE k # j
    BY <2>2, <1>1, <1>4 DEF Inv, Working, Seen, Scope
  <2> QED
    BY <2>1, <2>2
<1> QED
  BY <1>1, <1>5, <1>6 DEF Inv, LastJudgementStands

LEMMA CommitKeeps ==
  ASSUME Inv, NEW j \in Judges, Commit(j)
  PROVE  Inv'
<1> DEFINE scope(f) == <<f.period, f.family>>
           late == (Scope(j) \cap Scopes) \X {judge[j].by}
<1>1. /\ judge[j] \in Judge /\ judge[j].pc = "replacing"
      /\ judge[j].by \in 1 .. judgements /\ judgements \in 0 .. MaxJudgements
      /\ flags' = (flags \ judge[j].gone) \cup judge[j].put
      /\ UNCHANGED judgements
  BY DEF Commit, Inv, Types, Working
<1>2. ASSUME NEW k \in Judges, k # j, judge[k].pc = "replacing"
      PROVE  judge'[k] = [judge[k] EXCEPT !.missed =
                @ \cup ((Scope(j) \cap Scope(k)) \X {judge[j].by})]
  BY <1>2 DEF Commit, Overlooking
<1>3. ASSUME NEW k \in Judges, k # j, judge[k].pc # "replacing"
      PROVE  judge'[k] = judge[k]
  BY <1>3 DEF Commit, Overlooking
<1>4. judge'[j] = Idle
  BY DEF Commit
<1>5. ASSUME NEW k \in Judges, k # j, judge[k].pc = "replacing"
      PROVE  /\ judge'[k] \in Judge
             /\ judge'[k].missed = judge[k].missed \cup ((Scope(j) \cap Scope(k)) \X {judge[j].by})
             /\ judge'[k].pc = "replacing"
             /\ judge'[k].by = judge[k].by /\ judge'[k].judged = judge[k].judged
             /\ judge'[k].family = judge[k].family /\ judge'[k].able = judge[k].able
             /\ judge'[k].put = judge[k].put /\ judge'[k].gone = judge[k].gone
  <2>1. judge[k] \in Judge /\ judge[k].family \in Families
    BY <1>5 DEF Inv, Types, Working
  <2>2. Scope(k) \subseteq Scopes
    BY <2>1 DEF Judge, Scope, Scopes
  <2> DEFINE more == (Scope(j) \cap Scope(k)) \X {judge[j].by}
  <2>3. judge[j].by \in 1 .. MaxJudgements
    BY <1>1
  <2>4. more \in SUBSET (Scopes \X (1 .. MaxJudgements))
    BY <2>2, <2>3
  <2>5. judge[k].missed \in SUBSET (Scopes \X (1 .. MaxJudgements))
    BY <2>1 DEF Judge
  <2>6. judge[k].missed \cup more \in SUBSET (Scopes \X (1 .. MaxJudgements))
    BY <2>4, <2>5
  <2>7. judge'[k] = [judge[k] EXCEPT !.missed = judge[k].missed \cup more]
    BY <1>2, <1>5
  <2> HIDE DEF more
  <2>8. judge'[k] \in Judge /\ judge'[k].missed = judge[k].missed \cup more
        /\ judge'[k].pc = judge[k].pc
        /\ judge'[k].by = judge[k].by /\ judge'[k].judged = judge[k].judged
        /\ judge'[k].family = judge[k].family /\ judge'[k].able = judge[k].able
        /\ judge'[k].put = judge[k].put /\ judge'[k].gone = judge[k].gone
    BY <2>1, <2>6, <2>7 DEF Judge
  <2> QED
    BY <1>5, <2>8 DEF more
<1>6. Types'
  <2>1. flags' \in SUBSET Flag
    BY <1>1 DEF Inv, Types, Judge
  <2>2. judge' \in [Judges -> Judge]
    <3>1. judge' = [k \in Judges |-> judge'[k]]
      BY DEF Commit
    <3>2. \A k \in Judges : judge'[k] \in Judge
      BY <1>3, <1>4, <1>5, IdleIsAJudge DEF Inv, Types
    <3> QED
      BY <3>1, <3>2
  <2>3. standing' \in [Scopes -> SUBSET (1 .. MaxJudgements)]
    <3>1. DOMAIN standing = Scopes
      BY DEF Inv, Types
    <3>2. standing' = [s \in Scopes |->
             IF s \in Scope(j)
             THEN {judge[j].by} \cup {by \in 1 .. judgements : <<s, by>> \in judge[j].missed}
             ELSE standing[s]]
      BY <3>1 DEF Commit
    <3>3. \A s \in Scopes : standing[s] \in SUBSET (1 .. MaxJudgements)
      BY DEF Inv, Types
    <3>4. {judge[j].by} \subseteq 1 .. MaxJudgements /\ 1 .. judgements \subseteq 1 .. MaxJudgements
      BY <1>1
    <3>5. \A s \in Scopes :
             {judge[j].by} \cup {by \in 1 .. judgements : <<s, by>> \in judge[j].missed}
                \in SUBSET (1 .. MaxJudgements)
      BY <3>4
    <3> QED
      BY <3>2, <3>3, <3>5
  <2> QED
    BY <1>1, <2>1, <2>2, <2>3 DEF Types
<1>7. \A f \in judge[j].put : f.by = judge[j].by /\ scope(f) \in Scope(j)
  BY <1>1 DEF Inv, Working, Scope
<1>8. \A f \in flags' : f.by \in 1 .. judgements'
  BY <1>1, <1>7 DEF Inv
<1>9. ASSUME NEW k \in Judges PROVE (Working(k) /\ Seen(k))'
  <2>1. CASE k = j
    BY <2>1, <1>4 DEF Idle, Working, Seen
  <2>2. CASE k # j /\ judge[k].pc # "replacing"
    BY <2>2, <1>1, <1>3 DEF Inv, Working, Seen
  <2>3. CASE k # j /\ judge[k].pc = "replacing"
    <3>1. Working(k)'
      <4>1. Working(k)
        BY DEF Inv
      <4> QED
        BY <2>3, <1>1, <1>5, <4>1 DEF Working
    <3>2. ASSUME NEW f \in flags', scope(f) \in Scope(k)
          PROVE  f \in judge[k].gone \/ <<scope(f), f.by>> \in judge'[k].missed
      <4>1. CASE f \in flags
        <5>1. f \in judge[k].gone \/ <<scope(f), f.by>> \in judge[k].missed
          BY <2>3, <3>2, <4>1 DEF Inv, Seen
        <5> QED
          BY <2>3, <1>5, <5>1
      <4>2. CASE f \in judge[j].put
        <5>1. <<scope(f), f.by>> \in (Scope(j) \cap Scope(k)) \X {judge[j].by}
          BY <3>2, <4>2, <1>7
        <5> QED
          BY <2>3, <1>5, <5>1
      <4> QED
        BY <3>2, <4>1, <4>2, <1>1
    <3>3. Scope(k)' = Scope(k)
      BY <2>3, <1>5 DEF Scope
    <3>4. Seen(k)'
      BY <2>3, <3>2, <3>3, <1>5 DEF Seen
    <3> QED
      BY <3>1, <3>4
  <2> QED
    BY <2>1, <2>2, <2>3
<1>10. LastJudgementStands'
  <2> SUFFICES ASSUME NEW f \in flags' PROVE f.by \in standing'[scope(f)]
    BY DEF LastJudgementStands
  <2>1. scope(f) \in Scopes /\ DOMAIN standing = Scopes
    BY <1>6 DEF Types, Flag, Scopes, Inv
  <2>2. standing'[scope(f)] =
           IF scope(f) \in Scope(j)
           THEN {judge[j].by} \cup {by \in 1 .. judgements : <<scope(f), by>> \in judge[j].missed}
           ELSE standing[scope(f)]
    BY <2>1 DEF Commit
  <2>3. CASE f \in judge[j].put
    BY <2>2, <2>3, <1>7
  <2>4. CASE f \in flags \ judge[j].gone /\ scope(f) \in Scope(j)
    <3>1. <<scope(f), f.by>> \in judge[j].missed
      BY <2>4, <1>1 DEF Inv, Seen
    <3>2. f.by \in 1 .. judgements
      BY <2>4 DEF Inv
    <3> QED
      BY <2>2, <2>4, <3>1, <3>2
  <2>5. CASE f \in flags \ judge[j].gone /\ scope(f) \notin Scope(j)
    BY <2>2, <2>5 DEF Inv, LastJudgementStands
  <2> QED
    BY <2>3, <2>4, <2>5, <1>1
<1> QED
  BY <1>6, <1>8, <1>9, <1>10 DEF Inv

LEMMA NextKeeps == Inv /\ [Next]_vars => Inv'
<1> SUFFICES ASSUME Inv, [Next]_vars PROVE Inv'
  OBVIOUS
<1>1. ASSUME UNCHANGED <<flags, judge, standing, judgements>> PROVE Inv'
  <2>1. \A k \in Judges : (Working(k) /\ Seen(k))'
    BY <1>1 DEF Inv, Working, Seen, Scope
  <2> QED
    BY <1>1, <2>1 DEF Inv, Types, LastJudgementStands
<1>2. CASE UNCHANGED vars
  BY <1>1, <1>2 DEF vars
<1>3. CASE Promote
  BY <1>1, <1>3 DEF Promote
<1>4. ASSUME NEW j \in Judges,
             \/ \E periods \in SUBSET (1 .. Horizon), family \in Families : Read(j, periods, family)
             \/ Nothing(j) \/ Delete(j) \/ Commit(j) \/ Abort(j)
      PROVE  Inv'
  <2>1. CASE Nothing(j) \/ Abort(j)
    BY <2>1, JudgeRests DEF Nothing, Abort
  <2> QED
    BY <1>4, <2>1, ReadKeeps, DeleteKeeps, CommitKeeps
<1> QED
  BY <1>2, <1>3, <1>4 DEF Next

LEMMA Invariance == Spec => []Inv
<1> QED
  BY Initially, NextKeeps, PTL DEF Spec

\* The flags that stand are those of the last judgement, overlaps apart (store.py:108-150).
THEOREM LastJudgementStandsHolds == Spec => []LastJudgementStands
<1>1. Inv => LastJudgementStands
  BY DEF Inv
<1> QED
  BY <1>1, Invariance, PTL

\* Only a judgement of its own period and family takes a flag away (judge.py:183-215).
THEOREM KeptUnlessJudgedHolds == Spec => KeptUnlessJudged
<1> DEFINE Gone == \A f \in flags \ flags' : \E j \in Judges :
              /\ judge[j].pc = "replacing" /\ judge'[j].pc = "idle"
              /\ <<f.period, f.family>> \in Scope(j) /\ f.period \in judge[j].able
<1>1. Inv /\ [Next]_vars => [Gone]_vars
  <2> SUFFICES ASSUME Inv, Next PROVE Gone
    OBVIOUS
  <2>1. ASSUME NEW j \in Judges, Commit(j) PROVE Gone
    <3> SUFFICES ASSUME NEW f \in flags \ flags'
                 PROVE  /\ judge[j].pc = "replacing" /\ judge'[j].pc = "idle"
                        /\ <<f.period, f.family>> \in Scope(j) /\ f.period \in judge[j].able
      OBVIOUS
    <3>1. judge[j].pc = "replacing" /\ judge'[j] = Idle /\ f \in judge[j].gone
      BY <2>1 DEF Commit
    <3>2. f.period \in judge[j].judged /\ f.family = judge[j].family /\ f.period \in judge[j].able
      BY <3>1 DEF Inv, Working
    <3> QED
      BY <3>1, <3>2 DEF Scope, Idle
  <2>2. CASE UNCHANGED flags
    BY <2>2
  <2> QED
    BY <2>1, <2>2 DEF Next, Promote, Read, Nothing, Delete, Abort
<1>2. Spec => [][Gone]_vars
  BY <1>1, Invariance, PTL DEF Spec
<1> QED
  BY <1>2 DEF KeptUnlessJudged
-----------------------------------------------------------------------------
(***************************************************************************)
(* The grid is dense, and what a design is made of.                        *)
(***************************************************************************)
LEMMA Interval ==
  ASSUME NEW a \in Int, NEW b \in Int, a <= b
  PROVE  Min(a .. b) = a /\ Max(a .. b) = b
<1>1. a \in a .. b /\ b \in a .. b /\ \A y \in a .. b : a <= y /\ y <= b
  OBVIOUS
<1>2. \A x \in a .. b : (\A y \in a .. b : x <= y) => x = a
  BY <1>1
<1>3. \A x \in a .. b : (\A y \in a .. b : x >= y) => x = b
  BY <1>1
<1>4. (CHOOSE x \in a .. b : \A y \in a .. b : x <= y) = a
  <2>1. \E x \in a .. b : \A y \in a .. b : x <= y
    BY <1>1
  <2> QED
    BY <2>1, <1>2
<1>5. (CHOOSE x \in a .. b : \A y \in a .. b : x >= y) = b
  <2>1. \E x \in a .. b : \A y \in a .. b : x >= y
    BY <1>1
  <2> QED
    BY <2>1, <1>3
<1> QED
  BY <1>4, <1>5 DEF Min, Max

LEMMA LongestLag == MaxLag \in Nat \ {0} /\ \A lag \in Lags : lag \in Nat \ {0} /\ lag <= MaxLag
<1>1. \E x \in Lags : \A y \in Lags : x >= y
  OBVIOUS
<1>2. MaxLag \in Lags /\ \A y \in Lags : MaxLag >= y
  BY <1>1 DEF MaxLag, Max
<1> QED
  BY <1>2

LEMMA PeriodsOfGrid ==
  ASSUME NEW S, NEW m \in Grid(S)
  PROVE  (Series # {} => PeriodsOf(m) = S) /\ \A s \in Series : DOMAIN m[s] = S
BY DEF PeriodsOf, Grid

LEMMA DesignOfThePast ==
  ASSUME DenseGrid, NEW p \in PeriodsOf(mart), NEW s \in Series, NEW b \in Balances
  PROVE  ForPeriod(PastWith(mart, p, s, b), p) = ForPeriod(mart, p)
<1> DEFINE past == PastWith(mart, p, s, b)
<1>1. PICK first \in 1 .. Horizon, last \in 1 .. Horizon :
         first <= last /\ mart \in Grid(first .. last)
  BY DEF DenseGrid
<1>2. PeriodsOf(mart) = first .. last
  BY <1>1, PeriodsOfGrid
<1>3. p \in Int /\ first \in Int /\ last \in Int /\ first <= p /\ p <= last
  BY <1>2
<1>4. \A r \in Series : DOMAIN past[r] = first .. p
  BY <1>2, <1>3 DEF PastWith
<1>5. PeriodsOf(past) = first .. p
  BY <1>4 DEF PeriodsOf
<1>6. \A r \in Series : \A q \in first .. p : q < p => past[r][q] = mart[r][q]
  BY <1>2, <1>3 DEF PastWith
<1>7. Min(PeriodsOf(mart)) = first /\ Min(PeriodsOf(past)) = first
  BY <1>2, <1>3, <1>5, Interval
<1>8. DesignPeriods(mart) = {q \in first .. last : q - first >= MaxLag}
  BY <1>2, <1>7 DEF DesignPeriods
<1>9. DesignPeriods(past) = {q \in first .. p : q - first >= MaxLag}
  BY <1>5, <1>7 DEF DesignPeriods
<1> HIDE DEF past
<1> DEFINE T == first .. p - 1
           D == {q \in first .. p - 1 : q - first >= MaxLag}
<1>10. {q \in PeriodsOf(mart) : q < p} = T /\ {q \in PeriodsOf(past) : q < p} = T
  BY <1>2, <1>3, <1>5
<1>11. {q \in DesignPeriods(mart) : q < p} = D /\ {q \in DesignPeriods(past) : q < p} = D
  BY <1>3, <1>8, <1>9, LongestLag
<1>12. p \in DesignPeriods(mart) <=> p \in DesignPeriods(past)
  BY <1>3, <1>8, <1>9
<1>13. p \in Judgeable(mart) <=> p \in Judgeable(past)
  BY <1>11, <1>12 DEF Judgeable
<1>14. ASSUME NEW r \in Series, NEW q \in D \cup {p}, p \in DesignPeriods(mart)
       PROVE  Features(past, T, r, q) = Features(mart, T, r, q)
  <2>1. q \in first .. p /\ q - first >= MaxLag
    BY <1>3, <1>8, <1>14
  <2>2. \A lag \in Lags : q - lag \in first .. p /\ q - lag < p
    BY <2>1, <1>3, LongestLag
  <2>3. \A lag \in Lags : past[r][q - lag] = mart[r][q - lag]
    BY <2>2, <1>6
  <2>4. [lag \in Lags |-> past[r][q - lag]] = [lag \in Lags |-> mart[r][q - lag]]
    BY <2>3
  <2>5. \A t \in Series : \A u \in T : past[t][u] = mart[t][u]
    BY <1>3, <1>6
  <2> HIDE DEF T
  <2>6. \A t \in Series : [u \in T |-> past[t][u]] = [u \in T |-> mart[t][u]]
    BY <2>5
  <2>7. Bands(past, T) = Bands(mart, T)
    BY <2>6 DEF Bands
  <2> QED
    BY <2>4, <2>7 DEF Features
<1>15. CASE p \notin Judgeable(mart)
  BY <1>13, <1>15 DEF ForPeriod, past
<1>16. CASE p \in Judgeable(mart)
  <2>1. p \in DesignPeriods(mart)
    BY <1>16 DEF Judgeable
  <2>2. \A q \in D, r \in Series :
           <<Features(past, T, r, q), past[r][q]>> = <<Features(mart, T, r, q), mart[r][q]>>
    <3>1. \A q \in D : q \in first .. p /\ q < p
      BY <1>3
    <3> HIDE DEF D, T
    <3> QED
      BY <3>1, <2>1, <1>6, <1>14
  <2>3. \A r \in Series : Features(past, T, r, p) = Features(mart, T, r, p)
    BY <2>1, <1>14
  <2> HIDE DEF D, T
  <2>4. \A q \in D : [r \in Series |-> <<Features(past, T, r, q), past[r][q]>>]
                   = [r \in Series |-> <<Features(mart, T, r, q), mart[r][q]>>]
    BY <2>2
  <2>5. [q \in D |-> [r \in Series |-> <<Features(past, T, r, q), past[r][q]>>]]
      = [q \in D |-> [r \in Series |-> <<Features(mart, T, r, q), mart[r][q]>>]]
    BY <2>4
  <2>6. [r \in Series |-> Features(past, T, r, p)] = [r \in Series |-> Features(mart, T, r, p)]
    BY <2>3
  <2>7. ForPeriod(mart, p) =
          [fitted |-> [q \in D |-> [r \in Series |-> <<Features(mart, T, r, q), mart[r][q]>>]],
           asked  |-> [r \in Series |-> Features(mart, T, r, p)]]
    BY <1>10, <1>11, <1>16, Zenon DEF ForPeriod
  <2>8. ForPeriod(past, p) =
          [fitted |-> [q \in D |-> [r \in Series |-> <<Features(past, T, r, q), past[r][q]>>]],
           asked  |-> [r \in Series |-> Features(past, T, r, p)]]
    BY <1>10, <1>11, <1>13, <1>16, Zenon DEF ForPeriod
  <2> QED
    BY <2>5, <2>6, <2>7, <2>8 DEF past
<1> QED
  BY <1>15, <1>16

LEMMA StaysDense == DenseGrid /\ [Next]_vars => DenseGrid'
<1> SUFFICES ASSUME DenseGrid, [Next]_vars PROVE DenseGrid'
  OBVIOUS
<1>1. PICK first \in 1 .. Horizon, last \in 1 .. Horizon :
         first <= last /\ mart \in Grid(first .. last)
  BY DEF DenseGrid
<1>2. PeriodsOf(mart) = first .. last
  BY <1>1, PeriodsOfGrid
<1>3. Min(first .. last) = first /\ Max(first .. last) = last
  BY <1>1, Interval
<1>4. CASE UNCHANGED mart
  BY <1>4 DEF DenseGrid, Grid
<1>5. CASE Promote
  <2>1. CASE mart' \in Extended
    <3>1. last # Horizon /\ mart' \in Grid(first .. last \cup {last + 1})
      BY <2>1, <1>2, <1>3 DEF Extended
    <3>2. last + 1 \in 1 .. Horizon /\ first <= last + 1
      BY <1>1, <3>1
    <3>3. first .. last \cup {last + 1} = first .. last + 1
      BY <1>1
    <3>4. mart' \in Grid(first .. last + 1)
      BY <3>1, <3>3, Zenon
    <3> QED
      BY <3>2, <3>4 DEF DenseGrid, Grid
  <2>2. CASE mart' \in Amended
    <3>1. PICK s \in Series, p \in first .. last, b \in Balances : mart' = [mart EXCEPT ![s][p] = b]
      BY <2>2, <1>2 DEF Amended
    <3>2. mart' \in Grid(first .. last)
      BY <1>1, <3>1 DEF Grid
    <3> QED
      BY <1>1, <3>2 DEF DenseGrid, Grid
  <2>3. CASE mart' \in Trimmed
    <3> DEFINE kept == first .. last \ {first}
    <3>1. kept # {} /\ mart' = [s \in Series |-> [p \in kept |-> mart[s][p]]]
      BY <2>3, <1>2, <1>3 DEF Trimmed
    <3>2. kept = first + 1 .. last /\ first + 1 <= last /\ first + 1 \in 1 .. Horizon
      BY <1>1, <3>1
    <3>3. \A s \in Series, p \in kept : mart[s][p] \in Balances
      BY <1>1 DEF Grid
    <3>4. mart' \in Grid(kept)
      BY <3>1, <3>3 DEF Grid
    <3>5. mart' \in Grid(first + 1 .. last)
      BY <3>2, <3>4 DEF Grid
    <3> QED
      BY <3>2, <3>5 DEF DenseGrid, Grid
  <2> QED
    BY <1>5, <2>1, <2>2, <2>3 DEF Promote
<1> QED
  BY <1>4, <1>5 DEF Next, vars, Read, Nothing, Delete, Commit, Abort

LEMMA StartsDense == Init => DenseGrid
BY DEF Init, DenseGrid

LEMMA Dense == Spec => []DenseGrid
BY StartsDense, StaysDense, PTL DEF Spec

\* Every reachable state is well typed: the grid stays dense whatever is promoted, and a
\* judge's rows are of what it judged (judge.py:98-215, store.py:70-105).
THEOREM TypeCorrect == Spec => []TypeOK
<1>1. Inv /\ DenseGrid => TypeOK
  <2> SUFFICES ASSUME Inv, DenseGrid PROVE TypeOK
    OBVIOUS
  <2>1. ASSUME NEW j \in Judges
        PROVE  /\ judge[j].pc \in {"idle", "read", "replacing"}
               /\ judge[j].judged \subseteq 1 .. Horizon
               /\ judge[j].put \subseteq Flag /\ judge[j].gone \subseteq Flag
    BY DEF Inv, Types, Judge
  <2>2. ASSUME NEW j \in Judges, judge[j].pc # "idle", NEW f \in judge[j].put
        PROVE  <<f.period, f.family>> \in Scope(j)
    BY <2>2 DEF Inv, Working, Scope
  <2>3. /\ flags \subseteq Flag /\ judgements \in 0 .. MaxJudgements
        /\ standing \in [(1 .. Horizon) \X Families -> SUBSET (1 .. MaxJudgements)]
    BY DEF Inv, Types, Scopes
  <2> QED
    BY <2>1, <2>2, <2>3 DEF TypeOK
<1> QED
  BY <1>1, Invariance, Dense, PTL

\* No design holds anything of its own period or of a later one (features.py:151-228).
THEOREM NothingFromAheadHolds == Spec => []NothingFromAhead
<1>1. DenseGrid => NothingFromAhead
  BY DesignOfThePast DEF NothingFromAhead
<1> QED
  BY <1>1, Dense, PTL

\* Of a dense grid the design periods are an interval, and so are the folds: the last
\* n of them.
LEMMA FoldsOfTheGrid ==
  ASSUME DenseGrid, NEW n \in Splits(mart)
  PROVE  Folds(mart, n) \subseteq Judgeable(mart) /\ Cardinality(Folds(mart, n)) = n
<1>1. PICK first \in 1 .. Horizon, last \in 1 .. Horizon :
         first <= last /\ mart \in Grid(first .. last)
  BY DEF DenseGrid
<1> DEFINE begin  == first + MaxLag
           design == begin .. last
<1>2. begin \in Int /\ last \in Int /\ MaxLag \in Nat
  BY LongestLag
<1>3. DesignPeriods(mart) = design
  <2>1. PeriodsOf(mart) = first .. last /\ Min(first .. last) = first
    BY <1>1, PeriodsOfGrid, Interval
  <2> QED
    BY <1>2, <2>1 DEF DesignPeriods
<1> HIDE DEF begin
<1>4. ASSUME NEW a \in Int
      PROVE  Cardinality(a .. last) = IF a > last THEN 0 ELSE last - a + 1
  BY <1>2, FS_Interval
<1>5. n \in 1 .. last - begin
  <2>1. Cardinality(design) = IF begin > last THEN 0 ELSE last - begin + 1
    BY <1>2, <1>4
  <2> HIDE DEF design
  <2>2. n \in 1 .. Cardinality(design) - 1
    BY <1>3 DEF Splits
  <2> QED
    BY <1>2, <2>1, <2>2
<1>6. ASSUME NEW p \in design
      PROVE  Cardinality({q \in design : q > p}) = last - p
  <2>1. {q \in design : q > p} = p + 1 .. last
    BY <1>2
  <2>2. Cardinality(p + 1 .. last) = last - p
    BY <1>2, <1>4
  <2> QED
    BY <2>1, <2>2
<1>7. Folds(mart, n) = last - n + 1 .. last
  <2>1. Folds(mart, n) = {p \in design : Cardinality({q \in design : q > p}) < n}
    BY <1>3 DEF Folds
  <2>2. Folds(mart, n) = {p \in design : last - p < n}
    <3> HIDE DEF design
    <3> QED
      BY <2>1, <1>6
  <2> QED
    BY <2>2, <1>2, <1>5
<1>8. Cardinality(Folds(mart, n)) = n
  BY <1>2, <1>4, <1>5, <1>7
<1>9. \A p \in Folds(mart, n) : p \in design /\ begin \in design /\ begin < p
  BY <1>2, <1>5, <1>7
<1>10. Folds(mart, n) \subseteq Judgeable(mart)
  BY <1>3, <1>9 DEF Judgeable
<1> QED
  BY <1>8, <1>10

\* Every fold of the backtest has a period to be fitted on, and none is left out, for any
\* grid, lags and number of folds (backtest.py:66-93).
THEOREM EveryFoldIsScoredHolds == Spec => []EveryFoldIsScored
<1>1. DenseGrid => EveryFoldIsScored
  BY FoldsOfTheGrid DEF EveryFoldIsScored
<1> QED
  BY <1>1, Dense, PTL
==========================================================================
