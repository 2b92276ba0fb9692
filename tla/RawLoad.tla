------------------------------- MODULE RawLoad -------------------------------
(***************************************************************************)
(* The watermarked incremental load of one partitioned table into the raw  *)
(* layer (ingest/load.py, ingest/raw.py, ingest/affected.py).              *)
(*                                                                         *)
(* The source extract changes between and during loads; a load reads one   *)
(* window of it, merges the batch partition by partition, sweeps the       *)
(* copies of keys that changed accounting period, and moves the watermark  *)
(* last.  Every write of a file is one atomic replace, and the process may *)
(* stop between any two of them: what survives is the raw layer, the       *)
(* watermark file and the affected-period file, and nothing else.          *)
(***************************************************************************)
EXTENDS Integers, FiniteSets

CONSTANTS
  Keys,       \* primary keys, (entry_id, version) pairs
  Values,     \* what the declared columns other than the two dates hold
  MaxPeriod,  \* accounting periods are 1 .. MaxPeriod, as the partition names sort
  MaxDate,    \* bound: the last day the source posts a row on
  Overlap,    \* the overlap window, in days
  Late,       \* how far behind the newest posting date the source still posts
  MaxRun,     \* bound: run identifiers are 1 .. MaxRun
  MaxChanges, \* bound: how many times the source changes
  MaxCrashes, \* bound: how many times the load process stops half-way
  Absent      \* no row

ASSUME DaysAssumption == MaxDate \in Nat \ {0} /\ Overlap \in Nat /\ Late \in Nat
\* The window has to exceed the lateness of the source: load.py says so of
\* DEFAULT_OVERLAP_DAYS, and calls an update later than that missed by design.
ASSUME WindowAssumption == Late <= Overlap
ASSUME BoundsAssumption ==
  /\ MaxPeriod \in Nat /\ MaxRun \in Nat \ {0}
  /\ MaxChanges \in Nat /\ MaxCrashes \in Nat

Periods == 1 .. MaxPeriod
Dates == 1 .. MaxDate
Runs == 1 .. MaxRun

\* A row of the extract: the watermark column, the period its accounting date
\* falls in, and the rest of its declared columns.
Row == [posted : Dates, period : Periods, val : Values]

\* A row of a partition also carries the run that first landed its key.
Landed == [row : Row, first : Runs]

ASSUME AbsentAssumption == Absent \notin Row /\ Absent \notin Landed

VARIABLES
  source,     \* the extract: each key's row, or Absent
  latest,     \* the newest posting date the source has used
  raw,        \* the raw layer: each period's partition, by key
  watermark,  \* the stored watermark; 0 when the state file names none
  owed,       \* the affected-period file
  \* the load process; lost when it stops
  pc,         \* where the load is
  run,        \* the identifier of the run it belongs to
  batch,      \* the rows this run is responsible for, by key
  prior,      \* the run that first landed each key before this load; 0 if none
  todo,       \* periods the batch still has to be merged into
  cur,        \* the period being merged or swept
  \* history, read by the properties only
  firstRun,   \* the run that first landed each key; 0 if none has
  stale,      \* periods whose rows changed since they were last recomputed
  unmarked,   \* periods a crash hit between their write and their mark
  changes, crashes

disk == <<raw, watermark, owed>>
process == <<pc, run, batch, prior, todo, cur>>
vars == <<source, latest, disk, process, firstRun, stale, unmarked, changes, crashes>>

Phases == {"idle", "merge", "mark", "sweep", "drop"}

Largest(S) == CHOOSE p \in S : \A q \in S : q <= p

NoRows == [k \in Keys |-> Absent]
Holders(k) == {p \in Periods : raw[p][k] # Absent}

\* What a partition says, whichever runs brought it.
Rows(part) == [k \in Keys |-> IF part[k] = Absent THEN Absent ELSE part[k].row]

-----------------------------------------------------------------------------
Init ==
  /\ source = NoRows
  /\ latest = 1
  /\ raw = [p \in Periods |-> NoRows]
  /\ watermark = 0
  /\ owed = {}
  /\ pc = "idle"
  /\ run = 1
  /\ batch = NoRows
  /\ prior = [k \in Keys |-> 0]
  /\ todo = {}
  /\ cur = 0
  /\ firstRun = [k \in Keys |-> 0]
  /\ stale = {}
  /\ unmarked = {}
  /\ changes = 0
  /\ crashes = 0

(***************************************************************************)
(* The source.  A change posts a new row or restates one - possibly into   *)
(* another period - at most Late days behind the newest posting date; and  *)
(* an extract may stop carrying a row without the row being deleted.       *)
(***************************************************************************)
Post(k, r) ==
  /\ changes < MaxChanges
  /\ source[k] # r
  /\ latest - Late <= r.posted
  /\ source' = [source EXCEPT ![k] = r]
  /\ latest' = IF latest < r.posted THEN r.posted ELSE latest
  /\ changes' = changes + 1
  /\ UNCHANGED <<disk, process, firstRun, stale, unmarked, crashes>>

Withdraw(k) ==
  /\ changes < MaxChanges
  /\ source[k] # Absent
  /\ source' = [source EXCEPT ![k] = Absent]
  /\ changes' = changes + 1
  /\ UNCHANGED <<latest, disk, process, firstRun, stale, unmarked, crashes>>

(***************************************************************************)
(* Reading.  The bound is the watermark less the window, and nothing when  *)
(* there is no watermark or the load is a full one.                        *)
(***************************************************************************)
LowerBound(full) == IF full \/ watermark = 0 THEN 0 ELSE watermark - Overlap

\* Slip: the bound read as exclusive.
WindowExclusive(full) ==
  [k \in Keys |-> IF source[k] # Absent /\ source[k].posted > LowerBound(full)
                  THEN source[k] ELSE Absent]

Window(full) ==
  [k \in Keys |-> IF source[k] # Absent /\ source[k].posted >= LowerBound(full)
                  THEN source[k] ELSE Absent]

\* Slip: no lookup, so only the partition being written knows its keys' runs.
PriorUnread == [k \in Keys |-> 0]

PriorFirstRuns ==
  [k \in Keys |-> IF Holders(k) = {} THEN 0 ELSE raw[Largest(Holders(k))][k].first]

\* A retried task keeps its run's identifier; a later run has a later one.
Begin(full, r) ==
  /\ pc = "idle"
  /\ r \in {run, run + 1} \cap Runs
  /\ run' = r
  /\ LET rows == Window(full)
         present == {k \in Keys : rows[k] # Absent}
     IN IF present = {}
        THEN UNCHANGED <<pc, batch, prior, todo>>
        ELSE /\ pc' = "merge"
             /\ batch' = rows
             /\ prior' = PriorFirstRuns
             /\ todo' = {rows[k].period : k \in present}
  /\ UNCHANGED <<source, latest, disk, cur, firstRun, stale, unmarked, changes, crashes>>

(***************************************************************************)
(* Merging.  The smallest period still to do is rewritten whole: incoming  *)
(* rows win, rows the batch does not mention stay, and a key already held  *)
(* keeps the run that first landed it.                                     *)
(***************************************************************************)
Incoming(p) == {k \in Keys : batch[k] # Absent /\ batch[k].period = p}

\* Slip: a row that carries no run is not stamped with this one.
FirstOfUnstamped(p, k) == IF raw[p][k] # Absent THEN raw[p][k].first ELSE prior[k]

FirstOf(p, k) ==
  IF raw[p][k] # Absent THEN raw[p][k].first
  ELSE IF prior[k] # 0 THEN prior[k] ELSE run

\* Slip: the row already held wins over the incoming one.
MergedHeldWins(p) ==
  [k \in Keys |-> IF k \in Incoming(p) /\ raw[p][k] = Absent
                  THEN [row |-> batch[k], first |-> FirstOf(p, k)]
                  ELSE raw[p][k]]

Merged(p) ==
  [k \in Keys |-> IF k \in Incoming(p)
                  THEN [row |-> batch[k], first |-> FirstOf(p, k)]
                  ELSE raw[p][k]]

\* Slip: a period changes only when it gains a key.
TouchedByNewKey(p) == \E k \in Incoming(p) : raw[p][k] = Absent

\* A key is new, or a declared column differs: the batch changed the period.
Touched(p) == \E k \in Incoming(p) : raw[p][k] = Absent \/ raw[p][k].row # batch[k]

AfterMerge(rest) == IF rest = {} THEN "sweep" ELSE "merge"

Merge(p) ==
  /\ pc = "merge"
  /\ p \in todo /\ \A q \in todo : p <= q
  /\ raw' = [raw EXCEPT ![p] = Merged(p)]
  /\ todo' = todo \ {p}
  /\ cur' = p
  /\ pc' = IF Touched(p) THEN "mark" ELSE AfterMerge(todo')
  /\ stale' = IF Rows(Merged(p)) # Rows(raw[p]) THEN stale \cup {p} ELSE stale
  /\ firstRun' = [k \in Keys |-> IF k \in Incoming(p) /\ firstRun[k] = 0
                                 THEN run ELSE firstRun[k]]
  /\ UNCHANGED <<source, latest, watermark, owed, run, batch, prior, unmarked,
                 changes, crashes>>

\* The affected set learns of the period only now, after the write.
Mark ==
  /\ pc = "mark"
  /\ owed' = owed \cup {cur}
  /\ pc' = AfterMerge(todo)
  /\ UNCHANGED <<source, latest, raw, watermark, run, batch, prior, todo, cur,
                 firstRun, stale, unmarked, changes, crashes>>

(***************************************************************************)
(* The sweep: every partition in order that holds a key of the batch which *)
(* now belongs to another period.  Here the mark comes before the write.   *)
(***************************************************************************)
\* Slips: partitions the batch wrote are not examined; the home is not compared.
MovedElsewhere(p) ==
  {k \in Keys : batch[k] # Absent /\ batch[k].period # p /\ raw[p][k] # Absent
               /\ Incoming(p) = {}}
MovedFromHome(p) == {k \in Keys : batch[k] # Absent /\ raw[p][k] # Absent}

Moved(p) == {k \in Keys : batch[k] # Absent /\ batch[k].period # p /\ raw[p][k] # Absent}

SweepMark(p) ==
  /\ pc = "sweep"
  /\ Moved(p) # {}
  /\ \A q \in Periods : q < p => Moved(q) = {}
  /\ owed' = owed \cup {p}
  /\ cur' = p
  /\ pc' = "drop"
  /\ UNCHANGED <<source, latest, raw, watermark, run, batch, prior, todo,
                 firstRun, stale, unmarked, changes, crashes>>

Evict ==
  /\ pc = "drop"
  /\ raw' = [raw EXCEPT ![cur] = [k \in Keys |-> IF k \in Moved(cur) THEN Absent ELSE @[k]]]
  /\ stale' = stale \cup {cur}
  /\ pc' = "sweep"
  /\ UNCHANGED <<source, latest, watermark, owed, run, batch, prior, todo, cur,
                 firstRun, unmarked, changes, crashes>>

\* The highest posting date of the batch, and never backwards.
Advanced ==
  LET seen == {batch[k].posted : k \in {j \in Keys : batch[j] # Absent}}
  IN Largest(seen \cup {watermark})

Finish ==
  /\ pc = "sweep"
  /\ \A p \in Periods : Moved(p) = {}
  /\ watermark' = Advanced
  /\ pc' = "idle"
  /\ batch' = NoRows
  /\ prior' = [k \in Keys |-> 0]
  /\ UNCHANGED <<source, latest, raw, owed, run, todo, cur, firstRun, stale,
                 unmarked, changes, crashes>>

(***************************************************************************)
(* A killed process, or a step that raised: the files stay as they are.    *)
(***************************************************************************)
Crash ==
  /\ pc # "idle"
  /\ crashes < MaxCrashes
  /\ crashes' = crashes + 1
  /\ pc' = "idle"
  /\ batch' = NoRows
  /\ prior' = [k \in Keys |-> 0]
  /\ todo' = {}
  /\ unmarked' = IF pc = "mark" THEN unmarked \cup {cur} ELSE unmarked
  /\ UNCHANGED <<source, latest, disk, run, cur, firstRun, stale, changes>>

\* What the rest of the pipeline does with the set, as one step: recompute
\* every period owed, and clear.  No load is running meanwhile.
Recompute ==
  /\ pc = "idle"
  /\ owed # {}
  /\ stale' = stale \ owed
  /\ unmarked' = unmarked \ owed
  /\ owed' = {}
  /\ UNCHANGED <<source, latest, raw, watermark, process, firstRun, changes, crashes>>

Load ==
  \/ \E p \in Periods : Merge(p) \/ SweepMark(p)
  \/ Mark \/ Evict \/ Finish

Next ==
  \/ \E k \in Keys, r \in Row : Post(k, r)
  \/ \E k \in Keys : Withdraw(k)
  \/ \E full \in BOOLEAN, r \in Runs : Begin(full, r)
  \/ Load
  \/ Crash
  \/ Recompute

Spec == Init /\ [][Next]_vars

\* The nightly schedule starts a load again and again, and a load that is not
\* killed runs to its end; nothing obliges the source to change or a crash to come.
Nightly == \E r \in Runs : Begin(FALSE, r)
FairSpec == Spec /\ WF_vars(Nightly) /\ WF_vars(Load)

-----------------------------------------------------------------------------
\* Every variable stays in its type.
TypeOK ==
  /\ source \in [Keys -> Row \cup {Absent}]
  /\ latest \in Dates
  /\ raw \in [Periods -> [Keys -> Landed \cup {Absent}]]
  /\ watermark \in 0 .. MaxDate
  /\ owed \subseteq Periods
  /\ pc \in Phases
  /\ run \in Runs
  /\ batch \in [Keys -> Row \cup {Absent}]
  /\ prior \in [Keys -> 0 .. MaxRun]
  /\ todo \subseteq Periods
  /\ cur \in Periods \cup {0}
  /\ pc \in {"mark", "drop"} => cur \in Periods
  /\ firstRun \in [Keys -> 0 .. MaxRun]
  /\ stale \subseteq Periods
  /\ unmarked \subseteq Periods
  /\ changes \in 0 .. MaxChanges
  /\ crashes \in 0 .. MaxCrashes

\* The raw layer holds r for k in r's own period and holds k nowhere else.
OnlyCopy(k, r) ==
  /\ raw[r.period][k] # Absent
  /\ raw[r.period][k].row = r
  /\ Holders(k) = {r.period}

\* When the load is about to move the watermark, every row of the batch is in its
\* own partition and in no other, whichever partitions held the key before and
\* whatever an interrupted load left behind (load.py:418-475, 591).
BatchLanded ==
  pc = "sweep" /\ (\A p \in Periods : Moved(p) = {}) =>
    \A k \in Keys : batch[k] # Absent => OnlyCopy(k, batch[k])

\* A row of the source that raw does not hold, or holds in two partitions, is
\* still inside the window of the next load: the watermark never passes a row
\* that has not landed, through crashes, restatements and rows posted late
\* (load.py:194-201, 591-595).
NothingBehindTheWindow ==
  \A k \in Keys :
    source[k] # Absent =>
      \/ OnlyCopy(k, source[k])
      \/ source[k].posted >= LowerBound(FALSE)

\* Every copy of a key names the run that first landed the key, in whatever
\* partition and through however many restatements (ADR 0018, load.py:540-554).
FirstRunKept ==
  \A p \in Periods, k \in Keys : raw[p][k] # Absent => raw[p][k].first = firstRun[k]

\* A period that changed since it was last recomputed is in the affected set, or
\* about to be put there, unless a crash fell between its write and its mark: no
\* other interleaving of the merge, the sweep, a crash and a retry loses it
\* (load.py:556-576, 459-473).
OwedUnlessUnmarked ==
  stale \subseteq owed \cup unmarked \cup (IF pc = "mark" THEN {cur} ELSE {})

\* A key raw has landed is never forgotten: not by the sweep, not by a crash in
\* the middle of moving it, not when the extract stops carrying it (ADR 0023).
RawNeverForgets ==
  [][\A k \in Keys : Holders(k) # {} => Holders(k)' # {}]_vars

\* Once the source and the failures are quiet, nightly loads bring every row the
\* source carries into its one partition, and keep it there.
Converged == \A k \in Keys : source[k] # Absent => OnlyCopy(k, source[k])
EventuallyConverges == <>[]Converged
=============================================================================
