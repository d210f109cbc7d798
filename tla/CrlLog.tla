------------------------------- MODULE CrlLog -------------------------------
(***************************************************************************)
(* What the CRLs of an issuer promise a relying party, whoever publishes   *)
(* them and however often: a log of numbered lists.  CrlPublisher          *)
(* implements it.  A list may miss what was recorded while it was made,    *)
(* never what was recorded when the list before it appeared.               *)
(***************************************************************************)
EXTENDS Naturals

CONSTANTS
    Certs,       \* certificates of the issuer
    NotAfter     \* end of validity of each

VARIABLES
    clock,       \* the time
    recorded,    \* certificates with a revocation on record
    retired,     \* certificates no longer on record
    number,      \* number of the last list; 0 before the first one
    listed,      \* what it lists
    base         \* what was on record when it appeared

logVars == <<clock, recorded, retired, number, listed, base>>

Init ==
    /\ clock = 0
    /\ recorded = {}
    /\ retired = {}
    /\ number = 0
    /\ listed = {}
    /\ base = {}

Tick ==
    /\ clock' = clock + 1
    /\ UNCHANGED <<recorded, retired, number, listed, base>>

\* A revocation is recorded once, for a certificate that is on record.
Record(c) ==
    /\ c \notin recorded \cup retired
    /\ recorded' = recorded \cup {c}
    /\ UNCHANGED <<clock, retired, number, listed, base>>

\* Certificates leave the record after they have expired.
Retire ==
    /\ retired \subseteq retired'
    /\ \A c \in retired' \ retired : NotAfter[c] < clock
    /\ recorded' = recorded \ retired'
    /\ UNCHANGED <<clock, number, listed, base>>

\* The next list has all that the record held when the last one appeared and
\* that has not expired, and nothing that was never recorded.
Publish ==
    /\ number' = number + 1
    /\ {c \in base : NotAfter[c] > clock} \subseteq listed'
    /\ listed' \subseteq recorded \cup retired
    /\ base' = recorded
    /\ UNCHANGED <<clock, recorded, retired>>

Next ==
    \/ Tick
    \/ \E c \in Certs : Record(c)
    \/ Retire
    \/ Publish

Spec == Init /\ [][Next]_logVars
=============================================================================
