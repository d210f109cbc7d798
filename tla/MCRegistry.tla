----------------------------- MODULE MCRegistry -----------------------------
(* Small instances of Registry for TLC. *)
EXTENDS Registry, TLC

MCSymmetry == Permutations(Lookups)
=============================================================================
