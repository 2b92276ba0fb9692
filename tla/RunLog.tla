------------------------------- MODULE RunLog -------------------------------
(***************************************************************************)
(* The run record (ingest/runs.py): an append-only sequence of events, and *)
(* what reading it back makes of them.  `read` folds the lines from the    *)
(* first to the last and raises on the first one that contradicts what it  *)
(* has folded so far; a log with such a line is of no use to anybody.      *)
(* Steps are numbered in the order their run declares them.                *)
(***************************************************************************)
EXTENDS Integers, Sequences

\* "step" is the number of steps declared in a started event, the step in a step
\* event, and the failed step (0 for none) in a finished one.
Event(kind, r, n, status) == [kind |-> kind, run |-> r, step |-> n, status |-> status]

At(log, kind, r) == {i \in DOMAIN log : log[i].kind = kind /\ log[i].run = r}

Started(log, r) == At(log, "started", r) # {}

\* Slip: only a run that succeeded is taken for finished.
FinishedWell(log, r) == \E i \in At(log, "finished", r) : log[i].status = "succeeded"

Finished(log, r) == At(log, "finished", r) # {}

Declared(log, r) == UNION {1 .. log[i].step : i \in At(log, "started", r)}

StepEvents(log, r, n) ==
  {i \in At(log, "step_started", r) \cup At(log, "step_finished", r) : log[i].step = n}

\* How the latest attempt of a step ended: "interrupted" while it is open.
StatusOf(log, r, n) ==
  IF StepEvents(log, r, n) = {} THEN "never"
  ELSE LET last == CHOOSE i \in StepEvents(log, r, n) :
                     \A k \in StepEvents(log, r, n) : k <= i
       IN IF log[last].kind = "step_started" THEN "interrupted" ELSE log[last].status

\* Slip: a step that has started once may not start again.
RefusedStrictly(log, e) ==
  \/ e.kind = "started" /\ Started(log, e.run)
  \/ e.kind # "started" /\ (~Started(log, e.run) \/ Finished(log, e.run))
  \/ e.kind = "step_started" /\ StatusOf(log, e.run, e.step) # "never"
  \/ e.kind = "step_finished" /\ StatusOf(log, e.run, e.step) # "interrupted"

\* The line e, read after the lines of log, raises RunLogError.
Refused(log, e) ==
  \/ e.kind = "started" /\ Started(log, e.run)
  \/ e.kind # "started" /\ (~Started(log, e.run) \/ Finished(log, e.run))
  \/ e.kind = "step_started" /\ StatusOf(log, e.run, e.step) = "interrupted"
  \/ e.kind = "step_finished" /\ StatusOf(log, e.run, e.step) # "interrupted"

Readable(log) == \A i \in DOMAIN log : ~Refused(SubSeq(log, 1, i - 1), log[i])

\* Slip: a step that failed before it succeeded counts as failed.
UnsuccessfulEver(log, r) ==
  {n \in Declared(log, r) : \/ StatusOf(log, r, n) # "succeeded"
                            \/ \E i \in StepEvents(log, r, n) : log[i].status = "failed"}

\* The declared steps whose latest attempt did not succeed, and the first of them.
Unsuccessful(log, r) == {n \in Declared(log, r) : StatusOf(log, r, n) # "succeeded"}

FailedStep(log, r) ==
  IF Unsuccessful(log, r) = {} THEN 0
  ELSE CHOOSE n \in Unsuccessful(log, r) : \A m \in Unsuccessful(log, r) : n <= m
=============================================================================
