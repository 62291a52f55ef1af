-------------------------- MODULE MC_ImagerBatch --------------------------
(***************************************************************************)
(* Instances of ImagerBatch for TLC: two groups, the first of two images  *)
(* through filter slot 2, the second of one image with any filter.        *)
(***************************************************************************)
EXTENDS ImagerBatch

TwoCounts == [g \in 1..2 |-> IF g = 1 THEN 2 ELSE 1]
TwoSlots  == [g \in 1..2 |-> IF g = 1 THEN 2 ELSE 0]

=============================================================================
