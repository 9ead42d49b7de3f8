-------------------------- MODULE MCInputDelivery ---------------------------
(* Instances of InputDelivery for TLC. *)
EXTENDS InputDelivery, TLC

PaneSymmetry == Permutations(Panes)
=============================================================================
