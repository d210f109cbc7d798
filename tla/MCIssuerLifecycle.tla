------------------------- MODULE MCIssuerLifecycle -------------------------
(* Small instances of IssuerLifecycle for TLC. *)
EXTENDS IssuerLifecycle, TLC

MCSymmetry == Permutations(Admins)
=============================================================================
