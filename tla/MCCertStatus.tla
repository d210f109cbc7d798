---------------------------- MODULE MCCertStatus ----------------------------
(* A small instance of CertStatus for TLC. *)
EXTENDS CertStatus

\* Two certificates, one of which outlives the retention of the other.
MCCerts == 1 .. 2
MCNotAfter == [c \in MCCerts |-> c]
=============================================================================
