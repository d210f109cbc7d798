----------------------------- MODULE PathLength -----------------------------
(***************************************************************************)
(* checkPathLength: may a parent sign a subordinate CA with the path       *)
(* length of a profile?  The loop climbs from the parent to the root.  The *)
(* certificates are numbered; issuer gives the one FindIssuer returns, 0   *)
(* when the bundle has none.                                               *)
(***************************************************************************)
EXTENDS Integers

CONSTANTS
    N,             \* certificates of the bundle: the parent, the chain, the root
    Bound,         \* len(bundle.Chain)+2
    Certificates,  \* what a certificate may say
    PathLens       \* CAConstraint.MaxPathLen of the profiles, negative for none

\* The basic constraints of an x509.Certificate; Go has no constraint as -1,
\* or as 0 without zero.
BasicConstraints == [valid : BOOLEAN, ca : BOOLEAN, max : Int, zero : BOOLEAN]

ASSUME PathLengthAssumption ==
    /\ N \in Nat \ {0}
    /\ Bound \in Nat /\ N <= Bound
    /\ Certificates \subseteq BasicConstraints
    /\ PathLens \subseteq Int

Parent == 1

VARIABLES
    cert,       \* the certificates of the bundle
    issuer,     \* the issuer of each
    maxPathLen, \* CAConstraint.MaxPathLen of the profile
    crt,        \* the loop: the certificate it looks at, 0 at the end,
    distance,   \* how far that is from the subordinate,
    remaining,  \* and the CAs that may follow the subordinate
    result      \* "loop" until the function returns

inputs == <<cert, issuer, maxPathLen>>
pathVars == <<cert, issuer, maxPathLen, crt, distance, remaining, result>>

IsSelfSigned(c) == issuer[c] = c /\ cert[c].ca

\* Whether pathLenConstraint returns a constraint.
pathLenConstraint(c) ==
    /\ cert[c].valid /\ cert[c].ca
    /\ cert[c].max > 0 \/ (cert[c].max = 0 /\ cert[c].zero)

PathInit ==
    /\ cert \in [1 .. N -> Certificates]
    /\ issuer \in [1 .. N -> 0 .. N]
    /\ maxPathLen \in PathLens
    /\ crt = Parent
    /\ distance = 1
    /\ remaining = -1
    /\ result = "loop"

\* Variant: the subordinate itself is not counted.
AllowedOneMore(c) == cert[c].max - distance + 1

\* The CAs a constrained certificate allows after the subordinate.
Allowed(c) == cert[c].max - distance

Tighten(c) == IF remaining < 0 \/ Allowed(c) < remaining THEN Allowed(c) ELSE remaining

\* The certificate the loop goes on with.
Climb(c) == IF IsSelfSigned(c) \/ distance >= Bound THEN 0 ELSE issuer[c]

Ascend ==
    /\ result = "loop" /\ crt # 0
    /\ IF pathLenConstraint(crt) /\ Allowed(crt) < 0
       THEN result' = "disallowed" /\ UNCHANGED <<crt, distance, remaining>>
       ELSE /\ remaining' = IF pathLenConstraint(crt) THEN Tighten(crt) ELSE remaining
            /\ crt' = Climb(crt)
            /\ distance' = distance + 1
            /\ UNCHANGED result
    /\ UNCHANGED inputs

\* The path length of the profile against what the chain leaves.
Compare ==
    /\ result = "loop" /\ crt = 0
    /\ result' = IF maxPathLen >= 0 /\ remaining >= 0 /\ maxPathLen > remaining
                 THEN "exceeded" ELSE "ok"
    /\ UNCHANGED <<cert, issuer, maxPathLen, crt, distance, remaining>>

PathNext == Ascend \/ Compare

PathSpec == PathInit /\ [][PathNext]_pathVars
=============================================================================
