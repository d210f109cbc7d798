---------------------------- MODULE MCPathLength ----------------------------
(* Small instances of PathLength for TLC. *)
EXTENDS PathValidation

MCCertificates ==
    {[valid |-> TRUE, ca |-> TRUE, max |-> m, zero |-> m = 0] : m \in -1 .. 3}
    \cup {[valid |-> TRUE, ca |-> TRUE, max |-> 0, zero |-> FALSE],
          [valid |-> TRUE, ca |-> FALSE, max |-> 1, zero |-> FALSE]}
MCPathLens == -1 .. 2
=============================================================================
