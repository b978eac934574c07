--------------------------- MODULE MCPageVersions ---------------------------
(* PageVersions for TLC. *)
EXTENDS PageVersions, TLC

Symmetry == Permutations(Tx) \cup Permutations(Row) \cup Permutations(Slot)
=============================================================================
