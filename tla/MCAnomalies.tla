----------------------------- MODULE MCAnomalies -----------------------------
(* A small instance of Anomalies: two judges, two families, four periods.  *)
EXTENDS Anomalies, TLC

CONSTANTS j1, j2, fa, fb, b1, b2

MCLags == {1}
MCBalances == {b1, b2}
MCJudges == {j1, j2}
MCFamilies == {fa, fb}
Symmetry == Permutations(MCJudges) \cup Permutations(MCFamilies) \cup Permutations(MCBalances)
==========================================================================
