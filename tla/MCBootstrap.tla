----------------------------- MODULE MCBootstrap -----------------------------
(* Small instances of Bootstrap for TLC. *)
EXTENDS Bootstrap

\* A root and two issuers; the second configuration disables one, enables
\* the other, which takes over the OCSP profile of the first, and gives the
\* root a profile.
MCOrder == <<"root", "old", "new">>
MCParentOf == [i \in {"root", "old", "new"} |-> "root"]
MCVersions == 1 .. 2
MCEnabled == [v \in MCVersions |-> {"root"} \cup IF v = 1 THEN {"old"} ELSE {"new"}]
MCDelegated ==
    << [root |-> "", old |-> "ocsp", new |-> ""], [root |-> "ocsp2", old |-> "", new |-> "ocsp"] >>
MCAllowed == << [root |-> {}, old |-> {}, new |-> {}], [root |-> {}, old |-> {}, new |-> {"ocsp"}] >>
MCProfiles == << {"ocsp"}, {"ocsp", "ocsp2"} >>
MCIssuerLabel == << [ocsp |-> "old", ocsp2 |-> "root"], [ocsp |-> "*", ocsp2 |-> "root"] >>
MCRootBundle == {"legacy"}
=============================================================================
