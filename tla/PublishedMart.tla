---------------------------- MODULE PublishedMart ----------------------------
(***************************************************************************)
(* What a reader of the mart is promised (ADR 0048): at every moment one   *)
(* whole build that passed its gates, or none before the first; a later    *)
(* one in its place, all at once; never a build twice, and the failures    *)
(* stored beside the figures are that build's own or there are none.       *)
(***************************************************************************)
EXTENDS Integers, Sequences

CONSTANT Builds      \* build numbers, 0 not among them

VARIABLES
  shown,      \* the build the reader sees; 0 before the first
  failures,   \* the build whose stored failures are beside it; 0 if there are none
  published   \* every build shown so far, in order
reader == <<shown, failures, published>>

Init == shown = 0 /\ failures = 0 /\ published = <<>>

Publish(b) ==
  /\ \A i \in DOMAIN published : published[i] # b
  /\ shown' = b
  /\ failures' \in {0, b}
  /\ published' = Append(published, b)

Next == \E b \in Builds : Publish(b)

Spec == Init /\ [][Next]_reader
=============================================================================
