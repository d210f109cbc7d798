----------------------------- MODULE MCOcspCache -----------------------------
(* Small instances of OcspCache for TLC. *)
EXTENDS OcspCache, TLC

\* One certificate the retention deletes within the bound of the clock.
MCOneCert == {1}
MCOneNotAfter == [c \in MCOneCert |-> 1]

MCSymmetry == Permutations(Lookups)
=============================================================================
