----------------------------- MODULE MCPipeline -----------------------------
(***************************************************************************)
(* Instances of Pipeline for TLC: three periods, of which the first drags  *)
(* the second along and the second the third, and a version in force over  *)
(* the first two.                                                          *)
(***************************************************************************)
EXTENDS Pipeline

CONSTANTS v1

FromTheStart == [v \in Versions |-> {1, 2}]
WholeRange == 1 .. LastPeriod
OnlyWhole == {WholeRange}
WholeOrFirst == {WholeRange, 1 .. 1}
=============================================================================
