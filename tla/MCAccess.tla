------------------------------ MODULE MCAccess ------------------------------
(***************************************************************************)
(* The sessions of users and the access to projects share no state: a      *)
(* behaviour is one of one of them, and the other stays as it starts.      *)
(***************************************************************************)
EXTENDS Session, ProjectAccess, TLC

VARIABLE part

vars == <<part, sessionVars, projectVars>>

Init ==
    /\ part \in {"session", "projects"}
    /\ SessionInit
    /\ part # "projects" => keys = [k \in APIKeys |-> NoKeyRow]
    /\ ProjectInit

Next ==
    /\ UNCHANGED part
    /\ \/ part = "session" /\ SessionNext /\ UNCHANGED projectVars
       \/ part = "projects" /\ ProjectNext /\ UNCHANGED sessionVars

Spec == Init /\ [][Next]_vars

Symmetry == Permutations(Servers) \cup Permutations(Calls)
=============================================================================
