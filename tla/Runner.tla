------------------------------- MODULE Runner -------------------------------
(***************************************************************************)
(* Runs and the record they share (pipeline/run.py, dags/daily.py,         *)
(* dags/backfill.py, pipeline/__main__.py, ingest.load as a command).      *)
(*                                                                         *)
(* A job is one run of something: a DAG run, whose tasks are open-run, one *)
(* per step, and close-run, each in a process of its own that the          *)
(* scheduler retries; a pipeline command, one process for everything; or a *)
(* load typed by hand.  All of them append to one log.  A process may be   *)
(* killed anywhere, an append may fail, and a task may die after its work  *)
(* is recorded and before the scheduler hears of it.                       *)
(***************************************************************************)
EXTENDS RunLog, FiniteSets

CONSTANTS
  Dags, Commands, Loads,  \* the jobs, by what they are
  NSteps,                 \* how many steps a pipeline declares
  Retries,                \* how often the scheduler retries a failed task
  Chosen,                 \* identifiers a caller may pass as --run-id
  AtOnce,                 \* bound: how many of the jobs take part
  MaxRun,                 \* bound: run identifiers are 1 .. MaxRun
  MaxLosses               \* bound: how many processes and appends are lost

Jobs == Dags \cup Commands \cup Loads
Runs == 1 .. MaxRun

ASSUME JobsAssumption ==
  /\ Dags \cap Commands = {} /\ Dags \cap Loads = {} /\ Commands \cap Loads = {}
ASSUME NumbersAssumption ==
  /\ NSteps \in Nat \ {0} /\ Retries \in Nat /\ MaxRun \in Nat /\ MaxLosses \in Nat
  /\ AtOnce \in Nat /\ Chosen \subseteq Runs

VARIABLES
  log,      \* data/raw/_state/runs.jsonl
  job,      \* where each job is
  losses,   \* how many processes and appends were lost
  reopened  \* history: runs started twice, or that had a step started over an open one
vars == <<log, job, losses, reopened>>

\* task 0 opens the run, task n runs step n, the one after the last closes it.
\* "ready": not begun; "busy": begun; "acted": its work is done and recorded, and
\* the scheduler has not heard yet.
Last(j) == IF j \in Loads THEN 1 ELSE NSteps
Closing(j) == Last(j) + 1
Job == [task : 0 .. NSteps + 1, phase : {"ready", "busy", "acted", "over"},
        tries : 0 .. Retries, run : Runs \cup {0}, verdict : 0 .. NSteps]

\* Any of the jobs may be the ones that are started.
Init ==
  /\ log = <<>>
  /\ \E cast \in {S \in SUBSET Jobs : Cardinality(S) <= AtOnce} :
       job = [j \in Jobs |-> [task |-> 0, phase |-> IF j \in cast THEN "ready" ELSE "over",
                              tries |-> Retries, run |-> 0, verdict |-> 0]]
  /\ losses = 0
  /\ reopened = {}

-----------------------------------------------------------------------------
(***************************************************************************)
(* What becomes of a job.                                                  *)
(***************************************************************************)
\* The task is done.  A process goes straight on, to its next step or, after the
\* last one, to writing its outcome; a task's process ends.
Acted(j) ==
  IF j \in Dags THEN [job[j] EXCEPT !.phase = "acted"]
  ELSE IF job[j].task = Closing(j) THEN [job[j] EXCEPT !.phase = "over"]
  ELSE [job[j] EXCEPT !.task = @ + 1,
                      !.phase = IF job[j].task = Last(j) THEN "busy" ELSE "ready"]

\* Slip: the close task runs only when everything before it succeeded.
GivenUpAllSuccess(j) == [job[j] EXCEPT !.phase = "over"]

\* A task that is not retried any more: the close task runs in any case, and has
\* no run to close if it was the opening that failed.
GivenUp(j) ==
  IF job[j].task \in 1 .. Last(j)
  THEN [job[j] EXCEPT !.task = Closing(j), !.phase = "ready", !.tries = Retries]
  ELSE [job[j] EXCEPT !.phase = "over"]

\* Slip: one retry too many.
RetriedOnceMore(j) == [job[j] EXCEPT !.phase = "ready", !.tries = @ - 1]

\* The scheduler sees a task fail.
Retried(j) ==
  IF job[j].tries > 0 THEN [job[j] EXCEPT !.phase = "ready", !.tries = @ - 1]
  ELSE GivenUp(j)

\* A process sees a step fail: it writes that outcome for the run, and exits.
Blamed(j) ==
  IF job[j].task \in 1 .. Last(j)
  THEN [job[j] EXCEPT !.task = Closing(j), !.phase = "busy", !.verdict = job[j].task]
  ELSE [job[j] EXCEPT !.phase = "over"]

Raised(j) == IF j \in Dags THEN Retried(j) ELSE Blamed(j)

Write(e) == log' = Append(log, e)

(***************************************************************************)
(* The runner.                                                             *)
(***************************************************************************)
\* A generated identifier is one no run has had.  A caller's may be any, and only a
\* command or a load by hand has a caller.
NewRunId == {r \in Runs : ~Started(log, r) /\ \A q \in Runs : q < r => Started(log, q)}

Open(j, r) ==
  /\ job[j].task = 0 /\ job[j].phase = "ready"
  /\ r \in NewRunId \cup (IF j \in Dags THEN {} ELSE Chosen)
  /\ Write(Event("started", r, Last(j), "none"))
  /\ job' = [job EXCEPT ![j] = [Acted(j) EXCEPT !.run = r]]
  /\ reopened' = IF Started(log, r) THEN reopened \cup {r} ELSE reopened
  /\ UNCHANGED losses

\* Nothing is read first: a retried task does not know that it is one.
StepStart(j) ==
  LET r == job[j].run
      n == job[j].task
  IN /\ n \in 1 .. Last(j) /\ job[j].phase = "ready"
     /\ Write(Event("step_started", r, n, "none"))
     /\ job' = [job EXCEPT ![j].phase = "busy"]
     /\ reopened' = IF StatusOf(log, r, n) = "interrupted" THEN reopened \cup {r}
                    ELSE reopened
     /\ UNCHANGED losses

StepEnd(j, status) ==
  /\ job[j].task \in 1 .. Last(j) /\ job[j].phase = "busy"
  /\ Write(Event("step_finished", job[j].run, job[j].task, status))
  /\ job' = [job EXCEPT ![j] = IF status = "succeeded" THEN Acted(j) ELSE Raised(j)]
  /\ UNCHANGED <<losses, reopened>>

\* The close task reads the record and decides what it says of the run.
Finalise(j) ==
  LET r == job[j].run
  IN /\ j \in Dags /\ job[j].task = Closing(j) /\ job[j].phase = "ready"
     /\ job' = [job EXCEPT ![j] =
                 IF ~Readable(log) THEN Raised(j)
                 ELSE IF Finished(log, r) THEN Acted(j)
                 ELSE [@ EXCEPT !.phase = "busy",
                                !.verdict = FailedStep(log, r)]]
     /\ UNCHANGED <<log, losses, reopened>>

\* close_run reads the record once more before it writes; a load does not.
CloseRun(j) ==
  LET r == job[j].run
      n == job[j].verdict
      refused == j \notin Loads /\ (~Readable(log) \/ Finished(log, r))
  IN /\ job[j].task = Closing(j) /\ job[j].phase = "busy"
     /\ IF refused
        THEN job' = [job EXCEPT ![j] = Raised(j)] /\ UNCHANGED log
        ELSE /\ job' = [job EXCEPT ![j] = Acted(j)]
             /\ Write(Event("finished", r, n, IF n = 0 THEN "succeeded" ELSE "failed"))
     /\ UNCHANGED <<losses, reopened>>

(***************************************************************************)
(* The scheduler, and what goes wrong.                                     *)
(***************************************************************************)
\* The scheduler hears that the task succeeded, and starts the next one.
Reported(j) ==
  /\ job[j].phase = "acted"
  /\ job' = [job EXCEPT ![j] =
               IF job[j].task = Closing(j) THEN [job[j] EXCEPT !.phase = "over"]
               ELSE [job[j] EXCEPT !.task = @ + 1, !.phase = "ready", !.tries = Retries]]
  /\ UNCHANGED <<log, losses, reopened>>

\* The process is gone, or could not append; a task is retried, a command is not.
Lost(j) ==
  /\ job[j].phase # "over"
  /\ losses < MaxLosses
  /\ losses' = losses + 1
  /\ job' = [job EXCEPT ![j] = IF j \in Dags THEN Retried(j) ELSE [@ EXCEPT !.phase = "over"]]
  /\ UNCHANGED <<log, reopened>>

\* A command that cannot append an event of a step takes the step for failed and,
\* as it is still there, closes its run.
Unwritten(j) ==
  /\ j \in Commands
  /\ job[j].task \in 1 .. Last(j) /\ job[j].phase # "over"
  /\ losses < MaxLosses
  /\ losses' = losses + 1
  /\ job' = [job EXCEPT ![j] = Blamed(j)]
  /\ UNCHANGED <<log, reopened>>

Done == (\A j \in Jobs : job[j].phase = "over") /\ UNCHANGED vars

Work(j) ==
  \/ \E r \in Runs : Open(j, r)
  \/ StepStart(j)
  \/ \E status \in {"succeeded", "failed"} : StepEnd(j, status)
  \/ Finalise(j)
  \/ CloseRun(j)
  \/ Reported(j)

Next == (\E j \in Jobs : Work(j) \/ Lost(j) \/ Unwritten(j)) \/ Done

Spec == Init /\ [][Next]_vars

\* The scheduler starts what is due and a process that is not killed goes on.
FairSpec == Spec /\ \A j \in Jobs : WF_vars(Work(j))

-----------------------------------------------------------------------------
Events == [kind : {"started", "step_started", "step_finished", "finished"},
           run : Runs, step : 0 .. NSteps, status : {"none", "succeeded", "failed"}]

\* Every variable stays in its type; a job that is past its opening has a run.
TypeOK ==
  /\ log \in Seq(Events)
  /\ job \in [Jobs -> Job]
  /\ \A j \in Jobs : job[j].task > 0 => job[j].run \in Runs
  /\ losses \in 0 .. MaxLosses
  /\ reopened \subseteq Runs

\* The record can be read unless somebody started what was started: a task retried over
\* an attempt that never ended, or a command or a load given the identifier of another
\* run.  No interleaving of runs, no failure and no other loss spoils it,
\* for one run or for all (runs.py:307-444, run.py:143-234).
ReadableUnlessReopened == Readable(log) \/ reopened # {}

\* A load by hand that goes by the identifier of a run somebody opened twice.
Impostor(r) == r \in reopened /\ \E j \in Loads : job[j].run = r

\* A run writes one outcome, whoever retries its closing, whenever its process dies and
\* whoever else goes by its identifier (run.py:217-234, 248-252).  Except that a load,
\* which appends its outcome without reading the record, may write a second one where
\* it shares an identifier with another run (load.py:641-643, 668, 692).
OneOutcome ==
  \A i, k \in DOMAIN log :
    log[i].kind = "finished" /\ log[k].kind = "finished" /\ log[i].run = log[k].run
      => i = k \/ Impostor(log[i].run)

\* What a record that can be read says of a run agrees with what it says of the
\* run's steps: it names the first declared step whose latest attempt did not
\* succeed, and says succeeded only if there is none (run.py:253-285, 309-320).
OutcomeFollowsAttempts ==
  Readable(log) =>
    \A i \in DOMAIN log :
      log[i].kind = "finished" =>
        LET r == log[i].run
            n == log[i].step
        IN /\ log[i].status = IF n = 0 THEN "succeeded" ELSE "failed"
           /\ n # 0 => StatusOf(log, r, n) # "succeeded"
           /\ \A m \in Declared(log, r) :
                n = 0 \/ m < n => StatusOf(log, r, m) = "succeeded"

\* A step begins only when the latest attempt of the one before it succeeded, in
\* one process or in many, with the retries in between (run.py:290-321).
StepsInOrder ==
  Readable(log) =>
    \A i \in DOMAIN log :
      log[i].kind = "step_started" /\ log[i].step > 1 =>
        StatusOf(SubSeq(log, 1, i - 1), log[i].run, log[i].step - 1) = "succeeded"

\* A run the scheduler opened is closed in the end, whatever became of its steps,
\* as long as fewer processes are lost than the close task has attempts and the
\* record can be read (run.py:237-285; the ALL_DONE rule of dags/daily.py:80).
EveryRunCloses ==
  \A j \in Dags :
    job[j].task > 0 ~> Finished(log, job[j].run) \/ ~Readable(log)
=============================================================================
