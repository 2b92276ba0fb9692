------------------------------ MODULE Anomalies ------------------------------
(***************************************************************************)
(* The anomaly layer (ml/features.py, ml/judge.py, ml/store.py and the     *)
(* folds of ml/backtest.py).  A judge reads the monthly grid of the mart,  *)
(* fits one model for each period on everything before it, and replaces    *)
(* the flags of the periods it could judge in one transaction.  The two    *)
(* DAGs and the command line may judge at the same time, and the mart may  *)
(* be promoted meanwhile.                                                  *)
(*                                                                         *)
(* The grid is dense: every series has a balance in every period of the    *)
(* range.  What an estimator makes of its input is left open; a design is  *)
(* what the estimator is given.  A cost centre is a series.                *)
(***************************************************************************)
EXTENDS Integers, FiniteSets, FiniteSetsExt

CONSTANTS Series, Balances, Lags, Families, Judges, None,
          Horizon,       \* the last period there may be
          MaxJudgements

ASSUME AnomaliesAssumption ==
    /\ Series # {} /\ Lags \subseteq Nat \ {0}
    /\ \E longest \in Lags : \A lag \in Lags : lag <= longest
    /\ Horizon \in Nat \ {0} /\ MaxJudgements \in Nat

VARIABLES
    mart,        \* the balances of each series, by period
    flags,       \* the committed rows of anomaly_flag
    judge,       \* what each judge is doing
    standing,    \* history: whose flags may stand, by period and family
    judgements

vars == <<mart, flags, judge, standing, judgements>>

Grid(periods) == [Series -> [periods -> Balances]]
PeriodsOf(m) == UNION {DOMAIN m[s] : s \in Series}
Before(m, p) == [s \in Series |-> [q \in {q \in PeriodsOf(m) : q < p} |-> m[s][q]]]
--------------------------------------------------------------------------
(* The design matrix.                                                      *)

MaxLag == Max(Lags)

\* Rows are counted from the first period of the grid; one with fewer before it than
\* the longest lag has no row.
DesignPeriods(m) == {p \in PeriodsOf(m) : p - Min(PeriodsOf(m)) >= MaxLag}

BandsOfAll(m, training) == [s \in Series |-> [q \in PeriodsOf(m) |-> m[s][q]]]

\* A band compares the centres' medians over the training periods.
Bands(m, training) == [s \in Series |-> [q \in training |-> m[s][q]]]

Features(m, training, s, p) ==
    [lags |-> [lag \in Lags |-> m[s][p - lag]], band |-> Bands(m, training)]

\* A period is judged when there are rows for it and for a period before it.
Judgeable(m) == {p \in DesignPeriods(m) : \E q \in DesignPeriods(m) : q < p}

ForPeriod(m, p) ==
    LET training == {q \in PeriodsOf(m) : q < p}
        train    == {q \in DesignPeriods(m) : q < p}
    IN  IF p \notin Judgeable(m) THEN None
        ELSE [fitted |-> [q \in train |-> [s \in Series |->
                            <<Features(m, training, s, q), m[s][q]>>]],
              asked  |-> [s \in Series |-> Features(m, training, s, p)]]

SplitsOfAll(m) == 1 .. Cardinality(DesignPeriods(m))

\* The folds of the backtest; n_splits must leave a period to train on.
Splits(m) == 1 .. Cardinality(DesignPeriods(m)) - 1
Folds(m, n_splits) ==
    {p \in DesignPeriods(m) : Cardinality({q \in DesignPeriods(m) : q > p}) < n_splits}
--------------------------------------------------------------------------
Key(f) == <<f.series, f.period, f.family>>
Scope(j) == judge[j].judged \X {judge[j].family}

Idle == [pc |-> "idle", by |-> 0, judged |-> {}, family |-> None,
         able |-> {}, put |-> {}, gone |-> {}, missed |-> {}]

Init ==
    /\ \E last \in 1 .. Horizon : mart \in Grid(1 .. last)
    /\ flags = {}
    /\ judge = [j \in Judges |-> Idle]
    /\ standing = [scope \in (1 .. Horizon) \X Families |-> {}]
    /\ judgements = 0

\* A promoted mart: the next period, another balance, or a range that begins later.
Extended == IF Max(PeriodsOf(mart)) = Horizon THEN {}
            ELSE {m \in Grid(PeriodsOf(mart) \cup {Max(PeriodsOf(mart)) + 1}) :
                     \A s \in Series, p \in PeriodsOf(mart) : m[s][p] = mart[s][p]}
Amended == {[mart EXCEPT ![s][p] = b] : s \in Series, p \in PeriodsOf(mart), b \in Balances}
TrimmedAnywhere == {[s \in Series |-> [p \in PeriodsOf(mart) \ {q} |-> mart[s][p]]] :
                        q \in PeriodsOf(mart)}
Trimmed == LET kept == PeriodsOf(mart) \ {Min(PeriodsOf(mart))}
           IN  IF kept = {} THEN {} ELSE {[s \in Series |-> [p \in kept |-> mart[s][p]]]}

Promote ==
    /\ mart' \in Extended \cup Amended \cup Trimmed
    /\ UNCHANGED <<flags, judge, standing, judgements>>

Judged(m, periods) == {p \in periods : p \in Judgeable(m)}

\* The grid is read once; a period without a design is not judged, and whichever
\* balances lie outside their interval are flagged.  able is history: which of the
\* periods asked for had one.
Read(j, periods, family) ==
    /\ judge[j].pc = "idle" /\ judgements < MaxJudgements
    /\ judgements' = judgements + 1
    /\ LET judged == Judged(mart, periods) IN
       \E out \in SUBSET (Series \X judged) :
          judge' = [judge EXCEPT ![j] =
             [pc |-> "read", by |-> judgements', judged |-> judged, family |-> family,
              able |-> periods \cap Judgeable(mart),
              put  |-> {[series |-> o[1], period |-> o[2], family |-> family,
                         by |-> judgements'] : o \in out},
              gone |-> {}, missed |-> {}]]
    /\ UNCHANGED <<mart, flags, standing>>

\* Nothing was judged: the store is not touched.
Nothing(j) ==
    /\ judge[j].pc = "read" /\ judge[j].judged = {}
    /\ judge' = [judge EXCEPT ![j] = Idle]
    /\ UNCHANGED <<mart, flags, standing, judgements>>

DoomedOfBothArms(j) == {f \in flags : f.period \in judge[j].judged}
DoomedFlaggedAgain(j) == {f \in flags : Key(f) \in {Key(g) : g \in judge[j].put}}

\* The DELETE sees what is committed when it starts, and nothing later.
Doomed(j) == {f \in flags : <<f.period, f.family>> \in Scope(j)}

Delete(j) ==
    /\ judge[j].pc = "read" /\ judge[j].judged # {}
    /\ judge' = [judge EXCEPT ![j].pc = "replacing", ![j].gone = Doomed(j)]
    /\ UNCHANGED <<mart, flags, standing, judgements>>

\* Row locks and the key make one transaction wait for the outcome of another, so the
\* rest of a transaction counts as of its commit: it passes over what is gone already,
\* and a key that is in the way stops it.
Taken(j) == {Key(f) : f \in flags \ judge[j].gone}
Overlooking(j) == {k \in Judges \ {j} : judge[k].pc = "replacing"}

Commit(j) ==
    /\ judge[j].pc = "replacing"
    /\ {Key(f) : f \in judge[j].put} \cap Taken(j) = {}
    /\ flags' = (flags \ judge[j].gone) \cup judge[j].put
    /\ judge' = [k \in Judges |->
          IF k = j THEN Idle
          ELSE IF k \in Overlooking(j)
          THEN [judge[k] EXCEPT !.missed = @ \cup ((Scope(j) \cap Scope(k)) \X {judge[j].by})]
          ELSE judge[k]]
    /\ standing' = [scope \in DOMAIN standing |->
          IF scope \in Scope(j)
          THEN {judge[j].by} \cup {by \in 1 .. judgements : <<scope, by>> \in judge[j].missed}
          ELSE standing[scope]]
    /\ UNCHANGED <<mart, judgements>>

\* A kill, a lost connection, a deadlock or a key in the way: the transaction is undone.
Abort(j) ==
    /\ judge[j].pc # "idle"
    /\ judge' = [judge EXCEPT ![j] = Idle]
    /\ UNCHANGED <<mart, flags, standing, judgements>>

Next ==
    \/ Promote
    \/ \E j \in Judges :
          \/ \E periods \in SUBSET (1 .. Horizon), family \in Families : Read(j, periods, family)
          \/ Nothing(j)
          \/ Delete(j)
          \/ Commit(j)
          \/ Abort(j)

Spec == Init /\ [][Next]_vars
--------------------------------------------------------------------------
(* Properties.                                                             *)

Flag == [series : Series, period : 1 .. Horizon, family : Families, by : 1 .. MaxJudgements]

DenseGrid == \E first, last \in 1 .. Horizon : first <= last /\ mart \in Grid(first .. last)

\* Types: the grid is dense, and a flag of a judge that has not committed is of a
\* period it judged and of its own family (judge.run, decide).
TypeOK ==
    /\ DenseGrid
    /\ flags \subseteq Flag
    /\ \A j \in Judges :
          /\ judge[j].pc \in {"idle", "read", "replacing"}
          /\ judge[j].judged \subseteq 1 .. Horizon
          /\ judge[j].put \subseteq Flag /\ judge[j].gone \subseteq Flag
          /\ judge[j].pc # "idle" =>
                \A f \in judge[j].put : <<f.period, f.family>> \in Scope(j)
    /\ standing \in [(1 .. Horizon) \X Families -> SUBSET (1 .. MaxJudgements)]
    /\ judgements \in 0 .. MaxJudgements

\* The queue holds, for a period and a family, the flags of the judgement that was
\* committed last, an empty judgement included; only a judgement that was committed
\* while that one's transaction had begun to delete may have left flags beside it.
LastJudgementStands ==
    \A f \in flags : f.by \in standing[<<f.period, f.family>>]

\* A grid as it was when p closed, with some balance of p.
PastWith(m, p, s, b) == [r \in Series |-> [q \in {q \in PeriodsOf(m) : q <= p} |->
                            IF r = s /\ q = p THEN b ELSE m[r][q]]]

\* What a judgement is fitted on and asked for is a function of what came before its
\* period: no later period, and not the judged balance itself, reaches the design.
NothingFromAhead ==
    \A p \in PeriodsOf(mart) : \A s \in Series, b \in Balances :
        ForPeriod(PastWith(mart, p, s, b), p) = ForPeriod(mart, p)

\* Every fold the backtest cuts is one that serving would judge, so that none is
\* silently left out of the score.
EveryFoldIsScored ==
    \A n_splits \in Splits(mart) :
        Folds(mart, n_splits) \subseteq Judgeable(mart) /\ Cardinality(Folds(mart, n_splits)) = n_splits

\* A step takes a flag out of the queue only by committing a judgement of its period
\* and family, by a model that had a past to be fitted on: the flags of a period that
\* could not be judged, those of the other arm and those an undone transaction would
\* have replaced all stay, and so does everything when the mart is promoted.
KeptUnlessJudged ==
    [][\A f \in flags \ flags' : \E j \in Judges :
          /\ judge[j].pc = "replacing" /\ judge'[j].pc = "idle"
          /\ <<f.period, f.family>> \in Scope(j) /\ f.period \in judge[j].able]_vars
==========================================================================
