---------------------------- MODULE MCBalances ----------------------------
(***************************************************************************)
(* Two combinations, up to four periods: with a month's comparison, a      *)
(* year of three months and a rolling span of two, the closure of the      *)
(* first period leaves the third one out.                                  *)
(***************************************************************************)
EXTENDS Balances, TLC

Symmetry == Permutations(Combos)
==========================================================================
