----------------------------- MODULE Dimensions -----------------------------
(***************************************************************************)
(* One natural key of an effective-dated dimension (ingest/raw.py,         *)
(* ingest/load.py, transform/spark/scd2.py, affected.py and facts.py): its *)
(* versions are merged into raw and never restated, each new one is owed,  *)
(* validity intervals are built from the versions, and the entries posted  *)
(* on the key are attributed to the interval of their date.                *)
(*                                                                         *)
(* A version is its effective date; its value is what its other columns    *)
(* carry.  An extract may bring a version late, drop one or restate one.   *)
(* The load may be killed between the merge and the mark.                  *)
(***************************************************************************)
EXTENDS Integers

CONSTANTS
  LastDay,          \* bound: dates are 1 .. LastDay
  DaysPerPeriod,    \* the dates of one accounting period
  Values,           \* what a version carries
  MaxCrashes,       \* bound: loads killed between the merge and the mark
  Absent            \* no version, no row

Days == 1 .. LastDay
FarFuture == LastDay + 1
PeriodOf(d) == (d - 1) \div DaysPerPeriod
Periods == {PeriodOf(d) : d \in Days}

ASSUME DaysAssumption ==
  /\ LastDay \in Nat \ {0} /\ DaysPerPeriod \in Nat \ {0} /\ MaxCrashes \in Nat
ASSUME AbsentAssumption == Absent \notin Values

VARIABLES
  held,       \* raw: the versions landed
  inserted,   \* the versions a load has merged and not yet marked
  entries,    \* raw: the dates entries are posted on the key
  owed,       \* affected_periods.json
  dims,       \* staging: the validity intervals
  facts,      \* staging: the interval each posted date is attributed to
  crashes,    \* how many loads were killed
  unmarked    \* history: the versions lost in a kill
vars == <<held, inserted, entries, owed, dims, facts, crashes, unmarked>>

NothingOwed == [periods |-> {}, versions |-> {}]

-----------------------------------------------------------------------------
(***************************************************************************)
(* Validity intervals.                                                     *)
(***************************************************************************)
Versions(t) == {d \in Days : t[d] # Absent}
Latest(S) == CHOOSE d \in S : \A e \in S : e <= d
Earliest(S) == CHOOSE d \in S : \A e \in S : d <= e

\* A version that carries what the one before it carries is collapsed into it.
Distinct(t) ==
  {d \in Versions(t) : LET before == {e \in Versions(t) : e < d}
                       IN before = {} \/ t[Latest(before)] # t[d]}

\* Slip: an interval ends on the date the next one begins.
ValidToNext(S, d) ==
  LET after == {e \in S : e > d} IN IF after = {} THEN FarFuture ELSE Earliest(after)

ValidTo(S, d) ==
  LET after == {e \in S : e > d} IN IF after = {} THEN FarFuture ELSE Earliest(after) - 1

Intervals(t) ==
  {[from |-> d, to |-> ValidTo(Distinct(t), d), value |-> t[d]] : d \in Distinct(t)}

Covering(I, d) == {i \in I : i.from <= d /\ d <= i.to}

\* Slip: a version is resolved to the period it takes effect in.
FirstPeriod(I, v, posted) == {PeriodOf(v)} \cap {PeriodOf(d) : d \in posted}

\* The periods a version covers, intersected with the staged activity on the key.
PeriodsForVersion(I, v, posted) ==
  {PeriodOf(d) : d \in {e \in Days : \E i \in Covering(I, e) : i.from = v}}
    \cap {PeriodOf(d) : d \in posted}

Staged == {d \in Days : facts[d] # Absent}

\* Everything owed, as periods, against the intervals as they would be built now.
Resolve(V) ==
  owed.periods \cup UNION {PeriodsForVersion(Intervals(held), v, Staged) : v \in V}

Init ==
  /\ held = [d \in Days |-> Absent] /\ inserted = {} /\ entries = {} /\ owed = NothingOwed
  /\ dims = {} /\ facts = [d \in Days |-> Absent]
  /\ crashes = 0 /\ unmarked = {}

-----------------------------------------------------------------------------
(***************************************************************************)
(* The load.                                                               *)
(***************************************************************************)
Loading == inserted # {}

\* Slip: whatever arrives is taken.
NeverRefused(arriving) == FALSE

\* A version that is held and arrives with other columns is refused.
Refused(arriving) == \E d \in Versions(held) \cap Versions(arriving) : arriving[d] # held[d]

\* Slip: the extract replaces what is held.
Replaced(arriving) == arriving

\* Versions that do not arrive stay.
Merged(arriving) == [d \in Days |-> IF arriving[d] = Absent THEN held[d] ELSE arriving[d]]

\* Every version is checked before anything is written, and the table is one file.
MergeTable(arriving) ==
  /\ ~Loading /\ ~Refused(arriving)
  /\ held' = Merged(arriving)
  /\ inserted' = Versions(arriving) \ Versions(held)
  /\ UNCHANGED <<entries, owed, dims, facts, crashes, unmarked>>

Record ==
  /\ Loading
  /\ owed' = [owed EXCEPT !.versions = @ \cup inserted]
  /\ inserted' = {}
  /\ UNCHANGED <<held, entries, dims, facts, crashes, unmarked>>

\* Killed between the merge and the mark: the retry inserts nothing.
Crash ==
  /\ Loading /\ crashes < MaxCrashes
  /\ crashes' = crashes + 1
  /\ unmarked' = unmarked \cup inserted
  /\ inserted' = {}
  /\ UNCHANGED <<held, entries, owed, dims, facts>>

\* The load of the entries, which marks their periods.
LoadEntry(d) ==
  /\ ~Loading /\ d \notin entries
  /\ entries' = entries \cup {d}
  /\ owed' = [owed EXCEPT !.periods = @ \cup {PeriodOf(d)}]
  /\ UNCHANGED <<held, inserted, dims, facts, crashes, unmarked>>

-----------------------------------------------------------------------------
(***************************************************************************)
(* From recompute to clear-affected.                                       *)
(***************************************************************************)
Attributed(I, d) == CHOOSE i \in Covering(I, d) : TRUE

\* The dates of the dirty periods whose entries meet no interval.
Orphans(I, dirty) == {d \in entries : PeriodOf(d) \in dirty /\ Covering(I, d) = {}}

\* The intervals are rebuilt whole; the facts of the dirty periods are, unless an entry
\* of theirs has no interval, and then what is owed is cleared.
Recompute ==
  LET dirty == Resolve(owed.versions)
  IN /\ ~Loading
     /\ dims' = Intervals(held)
     /\ IF Orphans(dims', dirty) # {} THEN UNCHANGED <<facts, owed>>
        ELSE /\ facts' = [d \in Days |->
                           IF PeriodOf(d) \notin dirty THEN facts[d]
                           ELSE IF d \in entries THEN Attributed(dims', d) ELSE Absent]
             /\ owed' = NothingOwed
     /\ UNCHANGED <<held, inserted, entries, crashes, unmarked>>

Next ==
  \/ \E arriving \in [Days -> Values \cup {Absent}] : MergeTable(arriving)
  \/ Record \/ Crash
  \/ \E d \in Days : LoadEntry(d)
  \/ Recompute

Spec == Init /\ [][Next]_vars

-----------------------------------------------------------------------------
Interval == [from : Days, to : Days \cup {FarFuture}, value : Values]

\* Every variable stays in its type; only versions that landed are owed.
TypeOK ==
  /\ held \in [Days -> Values \cup {Absent}]
  /\ inserted \subseteq Versions(held) /\ unmarked \subseteq Versions(held)
  /\ entries \subseteq Days
  /\ owed \in [periods : SUBSET Periods, versions : SUBSET Versions(held)]
  /\ dims \subseteq Interval /\ facts \in [Days -> Interval \cup {Absent}]
  /\ crashes \in 0 .. MaxCrashes

\* The version in force on a date is the latest that took effect by then.
InForce(d) ==
  LET by == {e \in Versions(held) : e <= d} IN IF by = {} THEN Absent ELSE held[Latest(by)]

\* An entry is attributed to what is in force on its date, or its period is owed, however
\* versions arrive late, are collapsed or appear between others: the interval of the new
\* versions reaches every entry whose attribution they change (affected.py:36-67).  A
\* version whose mark was lost in a kill is not reached, by this or by a later one.
AttributedOrOwed ==
  unmarked = {} =>
    \A d \in Staged : \/ facts[d].value = InForce(d)
                      \/ PeriodOf(d) \in Resolve(owed.versions \cup inserted)

\* ADR 0026: rewriting a part of staging is indistinguishable from rebuilding it, so the
\* interval an entry is attributed to is one the dimension has; the mart tests that it is
\* (_models.yml:20-27).  A version collapsed into an earlier one emerges when one lands
\* between them, and nothing resolves to its dates; the interval the entries there keep is
\* gone as soon as its own version is collapsed in turn.
KeysResolve ==
  unmarked = {} =>
    \A d \in Staged : \/ \E i \in dims : i.from = facts[d].from
                      \/ PeriodOf(d) \in Resolve(owed.versions \cup inserted)

\* A date is never in two intervals, so that no entry is multiplied, and an entry never
\* loses the attribution it could have (scd2.py:136-149, facts.py:221-230).
OneIntervalEach ==
  \A d \in Days :
    /\ \A i, j \in Covering(Intervals(held), d) : i = j
    /\ Covering(Intervals(held), d) = {} <=> InForce(d) = Absent

\* raw never restates and never forgets a version, whatever the extract does to it.
HistoryKept == [][\A d \in Versions(held) : held'[d] = held[d]]_vars
=============================================================================
