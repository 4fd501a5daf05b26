----------------------------- MODULE MCHeatmaps -----------------------------
(* Heatmaps with interchangeable clicks, for TLC. *)
EXTENDS Heatmaps

Symmetry == Permutations(Clicks)

=============================================================================
