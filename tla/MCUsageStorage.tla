--------------------------- MODULE MCUsageStorage ---------------------------
(* Small instances of UsageStorage for TLC. *)
EXTENDS UsageStorage, TLC

Symmetry == Permutations(Records)
=============================================================================
