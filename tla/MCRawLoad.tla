------------------------------ MODULE MCRawLoad ------------------------------
(***************************************************************************)
(* Instances of RawLoad for TLC.  Nothing orders the keys or the values,   *)
(* so a run that checks invariants alone may take them up to permutation.  *)
(***************************************************************************)
EXTENDS RawLoad, TLC

Symmetry == Permutations(Keys) \cup Permutations(Values)
=============================================================================
