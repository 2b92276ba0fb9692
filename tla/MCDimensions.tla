---------------------------- MODULE MCDimensions ----------------------------
(***************************************************************************)
(* Instances of Dimensions for TLC.  What a version carries is compared    *)
(* for equality and nothing else, so the values are interchangeable.       *)
(***************************************************************************)
EXTENDS Dimensions, TLC

CONSTANTS a, b

Renamed == Permutations(Values)
=============================================================================
