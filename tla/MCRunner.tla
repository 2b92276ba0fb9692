------------------------------ MODULE MCRunner ------------------------------
(***************************************************************************)
(* Instances of Runner for TLC.  Reading the record folds every run's      *)
(* lines apart from the others', and no guard looks across runs, so two    *)
(* logs that interleave the same runs differently are the same state.      *)
(***************************************************************************)
EXTENDS Runner

ByRun ==
  <<[r \in Runs |-> SelectSeq(log, LAMBDA e : e.run = r)], job, losses, reopened>>
=============================================================================
