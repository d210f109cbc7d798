------------------------------- MODULE MCOrg -------------------------------
(***************************************************************************)
(* The issuer of an org, the path length check that precedes its           *)
(* certificate and the lists of the org share no state: a behaviour is one *)
(* of one of them, and the others stay as they start.                      *)
(***************************************************************************)
EXTENDS IssuerLifecycle, MCPathLength, Listing, TLC

VARIABLE part

vars == <<part, lifeVars, pathVars, listingVars>>

Init ==
    /\ part \in {"lifecycle", "path length", "lists"}
    /\ LifeInit
    /\ part # "path length" => /\ cert \in [1 .. N -> {CHOOSE c \in Certificates : TRUE}]
                               /\ issuer = [i \in 1 .. N |-> 0]
                               /\ maxPathLen = CHOOSE m \in PathLens : TRUE
    /\ PathInit
    /\ part # "lists" => /\ kind = "id"
                         /\ paging = "cursor"
                         /\ table = [i \in RowIDs |-> EmptyRow]
                         /\ caller = [type |-> "service", orgRole |-> FALSE, projects |-> {}]
                         /\ request = NoProject
    /\ ListingInit

Next ==
    /\ UNCHANGED part
    /\ \/ part = "lifecycle" /\ LifeNext /\ UNCHANGED <<pathVars, listingVars>>
       \/ part = "path length" /\ PathNext /\ UNCHANGED <<lifeVars, listingVars>>
       \/ part = "lists" /\ ListingNext /\ UNCHANGED <<lifeVars, pathVars>>

Spec == Init /\ [][Next]_vars
=============================================================================
