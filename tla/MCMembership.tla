---------------------------- MODULE MCMembership ----------------------------
(***************************************************************************)
(* Small instances of Membership for TLC.                                  *)
(***************************************************************************)
EXTENDS Membership, TLC

MCReqRoles == {"Owner", "Admin"}

\* Users and requests are interchangeable.
Symmetry == Permutations(Users) \cup Permutations(Requests)
=============================================================================
