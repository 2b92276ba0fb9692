------------------------------ MODULE Promotion ------------------------------
(***************************************************************************)
(* The dbt-build step (pipeline/dbt.py, transform/promote.py): each run    *)
(* builds into a schema named after it, renames the schema over the mart   *)
(* when every gate is green, and sweeps the schemas of failed builds.      *)
(*                                                                         *)
(* prepare, promote and sweep are one transaction each; dbt is a process   *)
(* of its own that connects for itself.  Between any two of them the step  *)
(* may be killed, or another run's step may go on: the daily and the       *)
(* backfill DAG admit one run each, and nothing keeps the two apart.       *)
(***************************************************************************)
EXTENDS Integers, Sequences, FiniteSets

CONSTANTS
  Runs,       \* run identifiers
  Absent,     \* no such schema
  AtOnce,     \* how many runs may be in this step at once
  MaxBuilds,  \* bound: how many times dbt is started
  MaxCrashes  \* bound: how many times the step is killed

Builds == 1 .. MaxBuilds
Mart == "mart"
Names == Runs \cup {Mart}

\* A schema: the build that filled it, how that went, and model_row_count, one
\* entry per build that appended to it; an empty one stands for no such table.
Schema == [build : Builds \cup {0}, state : {"empty", "partial", "green", "red"},
           counts : Seq(Builds)]

ASSUME NamesAssumption == Mart \notin Runs /\ Absent \notin Schema
ASSUME BoundsAssumption == AtOnce \in Nat /\ MaxBuilds \in Nat /\ MaxCrashes \in Nat

VARIABLES
  schema,     \* each schema, by name
  audit,      \* the build that filled each schema's audit schema; 0 if there is none
  pc,         \* where each run's step is
  started,    \* how often dbt was started, which numbers the builds
  crashes,
  \* history, read by the properties only
  promoted,   \* the builds that were promoted, in order
  behind,     \* runs whose copy of model_row_count is older than the mart's, or swept
  overtaken,  \* runs that promoted while behind
  evidence    \* failed builds since the last promotion
database == <<schema, audit>>
history == <<promoted, behind, overtaken, evidence>>
vars == <<database, pc, started, crashes, history>>

Active == {r \in Runs : pc[r] \notin {"idle", "done"}}

Counts(s) == IF s = Absent THEN <<>> ELSE s.counts

Init ==
  /\ schema = [n \in Names |-> Absent]
  /\ audit = [n \in Names |-> 0]
  /\ pc = [r \in Runs |-> "idle"]
  /\ started = 0
  /\ crashes = 0
  /\ promoted = <<>>
  /\ behind = {}
  /\ overtaken = {}
  /\ evidence = {}

-----------------------------------------------------------------------------
\* Slip: the drift gate's memory is not copied in.
Empty == [build |-> 0, state |-> "empty", counts |-> <<>>]

Prepared == [build |-> 0, state |-> "empty", counts |-> Counts(schema[Mart])]

\* Slip: the sweep comes before a build and not after a promotion.
PrepareSweeping(r) ==
  /\ pc[r] = "idle"
  /\ Cardinality(Active) < AtOnce
  /\ schema' = [n \in Names |-> IF n = r THEN Prepared
                               ELSE IF n = Mart THEN schema[n] ELSE Absent]
  /\ audit' = [n \in Names |-> IF n = Mart THEN audit[n] ELSE 0]
  /\ pc' = [pc EXCEPT ![r] = "prepared"]
  /\ behind' = behind \ {r}
  /\ evidence' = IF schema[r] = Absent THEN evidence ELSE evidence \ {schema[r].build}
  /\ UNCHANGED <<started, crashes, promoted, overtaken>>

\* A clean schema for this run, whatever an earlier attempt of it left.
Prepare(r) ==
  /\ pc[r] = "idle"
  /\ Cardinality(Active) < AtOnce
  /\ schema' = [schema EXCEPT ![r] = Prepared]
  /\ audit' = [audit EXCEPT ![r] = 0]
  /\ pc' = [pc EXCEPT ![r] = "prepared"]
  /\ behind' = behind \ {r}
  /\ evidence' = IF schema[r] = Absent THEN evidence ELSE evidence \ {schema[r].build}
  /\ UNCHANGED <<started, crashes, promoted, overtaken>>

\* dbt creates its target schema when it is not there, and starts in it.
DbtBegin(r) ==
  /\ pc[r] = "prepared"
  /\ started < MaxBuilds
  /\ started' = started + 1
  /\ schema' = [schema EXCEPT ![r] =
                  [build |-> started', state |-> "partial", counts |-> Counts(@)]]
  /\ pc' = [pc EXCEPT ![r] = "building"]
  /\ UNCHANGED <<audit, crashes, history>>

\* dbt has come to an end in this schema, before or after the count was appended.
Ended(s, state, counted) ==
  [s EXCEPT !.state = state, !.counts = IF counted THEN Append(@, s.build) ELSE @]

\* Every gate was green: the count is there, and failures may have been stored.
DbtGreen(r, stored) ==
  /\ pc[r] = "building"
  /\ schema[r] # Absent
  /\ schema' = [schema EXCEPT ![r] = Ended(@, "green", TRUE)]
  /\ audit' = [audit EXCEPT ![r] = IF stored THEN schema[r].build ELSE 0]
  /\ pc' = [pc EXCEPT ![r] = "built"]
  /\ UNCHANGED <<started, crashes, history>>

\* Slip: the exit code of dbt is not looked at.
AfterRedIgnored(r) == [pc EXCEPT ![r] = "built"]

\* Slip: a step that failed is left where nothing starts from.
AfterRedStuck(r) == [pc EXCEPT ![r] = "failed"]

\* A failed build raises.
AfterRed(r) == [pc EXCEPT ![r] = "idle"]

\* A gate was red; or the schema is gone.
DbtRed(r, counted, stored) ==
  /\ pc[r] = "building"
  /\ pc' = AfterRed(r)
  /\ IF schema[r] = Absent
     THEN UNCHANGED <<database, evidence>>
     ELSE /\ schema' = [schema EXCEPT ![r] = Ended(@, "red", counted)]
          /\ audit' = [audit EXCEPT ![r] = IF stored THEN schema[r].build ELSE 0]
          /\ evidence' = IF \E q \in Runs : pc[q] = "promoted" THEN evidence
                         ELSE evidence \cup {schema[r].build}
  /\ UNCHANGED <<started, crashes, promoted, behind, overtaken>>

\* Slip: the old audit schema goes only when there is a new one to replace it.
RenamedAuditKept(r) ==
  [audit EXCEPT ![Mart] = IF audit[r] = 0 THEN @ ELSE audit[r], ![r] = 0]

RenamedAudit(r) == [audit EXCEPT ![Mart] = audit[r], ![r] = 0]

\* The rename.  A build schema that is not there leaves the mart alone.
Promote(r) ==
  /\ pc[r] = "built"
  /\ IF schema[r] = Absent
     THEN /\ pc' = [pc EXCEPT ![r] = "idle"]
          /\ UNCHANGED <<database, history>>
     ELSE /\ schema' = [schema EXCEPT ![Mart] = schema[r], ![r] = Absent]
          /\ audit' = RenamedAudit(r)
          /\ pc' = [pc EXCEPT ![r] = "promoted"]
          /\ promoted' = Append(promoted, schema[r].build)
          /\ behind' = Active \ {r}
          /\ overtaken' = overtaken \cup ({r} \cap behind)
          /\ evidence' = {}
  /\ UNCHANGED <<started, crashes>>

\* Somebody holds a lock on the mart: PromotionBlocked, and nothing moves.
Blocked(r) ==
  /\ pc[r] = "built"
  /\ pc' = [pc EXCEPT ![r] = "idle"]
  /\ UNCHANGED <<database, started, crashes, history>>

\* Every build schema goes but the one that was promoted, which is one no more.
Sweep(r) ==
  /\ pc[r] = "promoted"
  /\ schema' = [n \in Names |-> IF n \in Runs \ {r} THEN Absent ELSE schema[n]]
  /\ audit' = [n \in Names |-> IF n \in Runs \ {r} /\ schema[n] # Absent THEN 0
                               ELSE audit[n]]
  /\ pc' = [pc EXCEPT ![r] = "done"]
  /\ behind' = behind \cup (Active \ {r})
  /\ UNCHANGED <<started, crashes, promoted, overtaken, evidence>>

\* A sweep that could not be done is reported, and the step succeeds.
SweepBlocked(r) ==
  /\ pc[r] = "promoted"
  /\ pc' = [pc EXCEPT ![r] = "done"]
  /\ UNCHANGED <<database, started, crashes, history>>

\* Killed, at any point up to where its success would have been heard of.  A
\* retry is the same run, and starts from the beginning of the step.
Crash(r) ==
  /\ pc[r] # "idle"
  /\ crashes < MaxCrashes
  /\ crashes' = crashes + 1
  /\ pc' = [pc EXCEPT ![r] = "idle"]
  /\ UNCHANGED <<database, started, history>>

Next ==
  \E r \in Runs :
    \/ Prepare(r) \/ DbtBegin(r)
    \/ \E stored \in BOOLEAN : DbtGreen(r, stored)
    \/ \E counted, stored \in BOOLEAN : DbtRed(r, counted, stored)
    \/ Promote(r) \/ Blocked(r)
    \/ Sweep(r) \/ SweepBlocked(r)
    \/ Crash(r)

Spec == Init /\ [][Next]_vars

-----------------------------------------------------------------------------
\* Every variable stays in its type.
TypeOK ==
  /\ schema \in [Names -> Schema \cup {Absent}]
  /\ audit \in [Names -> Builds \cup {0}]
  /\ pc \in [Runs -> {"idle", "prepared", "building", "built", "promoted", "done"}]
  /\ started \in 0 .. MaxBuilds
  /\ crashes \in 0 .. MaxCrashes
  /\ promoted \in Seq(Builds)
  /\ behind \subseteq Runs
  /\ overtaken \subseteq Runs
  /\ evidence \subseteq Builds

\* What the reader sees of a mart that is not a whole green build is "torn".
Torn == "torn"
Shown ==
  IF schema[Mart] = Absent THEN 0
  ELSE IF schema[Mart].state = "green" THEN schema[Mart].build ELSE Torn

Reader == INSTANCE PublishedMart
            WITH shown <- Shown, failures <- audit[Mart], published <- promoted

\* Whatever other runs do, whichever builds fail and wherever a step is killed,
\* the reader sees whole green builds, one replacing another at once, each with
\* its own stored failures or none (promote.py:244-270, dbt.py:135-146).
ReaderPromise == Reader!Spec

\* model_row_count of the mart is the history of the builds that were promoted -
\* none that was rejected and none left out - unless a run promoted a copy taken
\* before another run's promotion, or lost its copy to another run's sweep
\* (promote.py:217-241, 282-309).
HistoryUnlessOvertaken == overtaken # {} \/ Counts(schema[Mart]) = promoted

\* The schema of a build that failed is there until its own run tries again or
\* another build is promoted; a sweep that was under way when it failed may still
\* take it (dbt.py:120-123, promote.py:282-309).
EvidenceKept ==
  \A b \in evidence : \E r \in Runs : schema[r] # Absent /\ schema[r].build = b
=============================================================================
