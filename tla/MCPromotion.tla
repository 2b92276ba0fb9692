----------------------------- MODULE MCPromotion -----------------------------
(***************************************************************************)
(* Instances of Promotion for TLC.  Runs are alike.                        *)
(***************************************************************************)
EXTENDS Promotion, TLC

Symmetry == Permutations(Runs)
=============================================================================
