--------------------------- MODULE PathValidation ---------------------------
(***************************************************************************)
(* The path validation of RFC 5280 section 6.1.4 (l) and (m), the          *)
(* reference for checkPathLength: it descends from the root and counts     *)
(* down what checkPathLength counts up from the parent.                    *)
(***************************************************************************)
EXTENDS PathLength

\* The ancestor at distance d; 0 above the top.
Up[d \in 1 .. N + 1] ==
    IF d = 1 THEN Parent
    ELSE IF Up[d - 1] = 0 THEN 0
    ELSE IF IsSelfSigned(Up[d - 1]) THEN 0
    ELSE issuer[Up[d - 1]]

\* The CAs that follow the parent in the longest path the profile lets the
\* subordinate grow.
Following == 1 + IF maxPathLen > 0 THEN maxPathLen ELSE 0

\* max_path_length after the certificate at distance d is processed; it
\* starts as the number of certificates of the path, here no fewer.
MaxPathLength[d \in 1 .. N + 1] ==
    IF d = N + 1 \/ Up[d] = 0 THEN N + Following
    ELSE LET spent == MaxPathLength[d + 1] - IF IsSelfSigned(Up[d]) THEN 0 ELSE 1
         IN  IF pathLenConstraint(Up[d]) /\ cert[Up[d]].max < spent
             THEN cert[Up[d]].max ELSE spent

\* The result of checkPathLength is the verdict of path validation on the
\* chain of the parent, the subordinate and as many CAs below it as the
\* profile allows, for every bundle without a loop.
AgreesWithValidation ==
    result # "loop" /\ Up[N + 1] = 0 =>
        (result = "ok" <=> MaxPathLength[1] >= Following)
=============================================================================
