--------------------------- MODULE MCCrlPublisher ---------------------------
(* Small instances of CrlPublisher for TLC. *)
EXTENDS CrlPublisher, TLC

\* One certificate that expires while CRLs are published, one that does not.
MCCerts == 1 .. 2
MCNotAfter == [c \in MCCerts |-> IF c = 1 THEN 1 ELSE 9]

\* One certificate that expires and is revoked.
MCOneCert == {1}
MCOneNotAfter == [c \in MCOneCert |-> 1]

MCSymmetry == Permutations(Publishers)
=============================================================================
