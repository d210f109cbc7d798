--------------------------- MODULE IssuerLifecycle ---------------------------
(***************************************************************************)
(* The row of one tenant issuer, its private key, and the handlers of the  *)
(* backend that change them: RegisterIssuer, ImportIssuer, ActivateIssuer  *)
(* and UpdateIssuer, of any number of concurrent requests.  A handler      *)
(* reads the row, checks it, and then writes it in a statement of its own. *)
(* Rows are never deleted, and rows of other scopes and labels share only  *)
(* the uniqueness of the key identifier, which a fresh key never meets.    *)
(***************************************************************************)
EXTENDS Integers

CONSTANTS
    Admins,    \* concurrent requests
    KeyIDs,    \* private keys
    Serials,   \* certificates of one key: the serial numbers
    Wrapped,   \* software keys, wrapped in the row; a crypto provider holds the others
    MaxStamp   \* bound of the stamps

ASSUME IssuerLifecycleAssumption ==
    /\ KeyIDs \subseteq Nat \ {0}
    /\ Serials \subseteq Nat \ {0}
    /\ Wrapped \subseteq KeyIDs
    /\ MaxStamp \in Nat

VARIABLES
    row,        \* issuer row
    provider,   \* keys the crypto provider holds
    req,        \* requests
    stamp,      \* now() of the database, in steps of its timestamps
    destroyed   \* history: the row has been Destroyed

lifeVars == <<row, provider, req, stamp, destroyed>>

NoCert == [key |-> 0, serial |-> 0]
NoRow == [status |-> "None", key |-> 0, protected |-> FALSE, cert |-> NoCert, updatedAt |-> 0]
NoReq == [pc |-> "idle", key |-> 0, target |-> "None", cert |-> NoCert, at |-> 0]

LifeInit ==
    /\ row = NoRow
    /\ provider = {}
    /\ req = [a \in Admins |-> NoReq]
    /\ stamp = 0
    /\ destroyed = FALSE

\* updated_at of a statement that starts now: timestamps have milliseconds,
\* so two statements may share one.
Now == {stamp, stamp + 1} \cap (0 .. MaxStamp)

\* Keys.Signer finds the key of the row.
Loadable(r) == IF r.key \in Wrapped THEN r.protected ELSE r.key \in provider

-----------------------------------------------------------------------------
(* RegisterIssuer and ImportIssuer *)

\* The key is generated before the row is inserted.  A root and an issuer
\* its parent signs have their certificate, any other issuer is Pending.
NewIssuer(a, k, s) ==
    /\ req[a].pc = "idle"
    /\ k \notin provider /\ k # row.key /\ \A b \in Admins : req[b].key # k
    /\ provider' = IF k \in Wrapped THEN provider ELSE provider \cup {k}
    /\ req' = [req EXCEPT ![a] = [NoReq EXCEPT !.pc = "insert", !.key = k, !.target = s]]
    /\ UNCHANGED <<row, stamp, destroyed>>

\* The key comes as PEM and is wrapped, or is named by its URI.
ImportIssuer(a, k) ==
    /\ req[a].pc = "idle"
    /\ k \in Wrapped \/ k \in provider
    /\ req' = [req EXCEPT ![a] = [NoReq EXCEPT !.pc = "insert", !.key = k, !.target = "Active"]]
    /\ UNCHANGED <<row, provider, stamp, destroyed>>

\* db.RegisterIssuer: the label is unique in its scope.  A generated key of
\* a refused row stays in the provider.
InsertIssuer(a) ==
    /\ req[a].pc = "insert"
    /\ IF row.status = "None"
       THEN \E now \in Now, n \in Serials :
               /\ row' = [status |-> req[a].target, key |-> req[a].key, protected |-> req[a].key \in Wrapped,
                          cert |-> IF req[a].target = "Active"
                                   THEN [key |-> req[a].key, serial |-> n] ELSE NoCert,
                          updatedAt |-> now]
               /\ stamp' = now
               /\ req' = [req EXCEPT ![a] = [NoReq EXCEPT !.pc = "invalidate"]]
       ELSE /\ req' = [req EXCEPT ![a] = NoReq]
            /\ UNCHANGED <<row, stamp>>
    /\ UNCHANGED <<provider, destroyed>>

-----------------------------------------------------------------------------
(* ActivateIssuer *)

\* Variant: the certificate is not compared with the key.
ActivateUnverified(a, k, n) ==
    /\ req[a].pc = "idle"
    /\ row.status = "Pending"
    /\ req' = [req EXCEPT ![a] = [NoReq EXCEPT !.pc = "activate", !.cert = [key |-> k, serial |-> n]]]
    /\ UNCHANGED <<row, provider, stamp, destroyed>>

\* The row must be Pending, and ActivatedIssuer verifies that the
\* certificate of the request is for the key of the row it read.
ActivateRead(a, k, n) ==
    /\ req[a].pc = "idle"
    /\ row.status = "Pending"
    /\ Loadable(row) /\ k = row.key
    /\ req' = [req EXCEPT ![a] = [NoReq EXCEPT !.pc = "activate", !.cert = [key |-> k, serial |-> n]]]
    /\ UNCHANGED <<row, provider, stamp, destroyed>>

\* Variant: the statement does not ask for a Pending row.
ActivateAny(a) ==
    /\ req[a].pc = "activate"
    /\ \E now \in Now :
          /\ row' = [row EXCEPT !.status = "Active", !.cert = req[a].cert, !.updatedAt = now]
          /\ stamp' = now
    /\ req' = [req EXCEPT ![a] = [NoReq EXCEPT !.pc = "invalidate"]]
    /\ UNCHANGED <<provider, destroyed>>

\* db.ActivateIssuer: WHERE status = Pending.
ActivateWrite(a) ==
    /\ req[a].pc = "activate"
    /\ IF row.status = "Pending"
       THEN \E now \in Now :
               /\ row' = [row EXCEPT !.status = "Active", !.cert = req[a].cert, !.updatedAt = now]
               /\ stamp' = now
               /\ req' = [req EXCEPT ![a] = [NoReq EXCEPT !.pc = "invalidate"]]
       ELSE /\ req' = [req EXCEPT ![a] = NoReq]
            /\ UNCHANGED <<row, stamp>>
    /\ UNCHANGED <<provider, destroyed>>

-----------------------------------------------------------------------------
(* UpdateIssuer *)

issuerTransitions == [s \in {"Active", "Archived"} |-> IF s = "Active" THEN "Archived" ELSE "Destroyed"]

\* The handler reads the row; target "None" replaces the settings only.
UpdateRead(a, target) ==
    /\ req[a].pc = "idle"
    /\ row.status # "None"
    /\ target # "None" => row.status \in DOMAIN issuerTransitions /\ issuerTransitions[row.status] = target
    /\ req' = [req EXCEPT ![a] = [NoReq EXCEPT !.pc = "begin", !.key = row.key, !.target = target]]
    /\ UNCHANGED <<row, provider, stamp, destroyed>>

\* The statement starts, and now() is fixed before it holds the row.
UpdateBegin(a) ==
    /\ req[a].pc = "begin"
    /\ \E now \in Now :
          /\ stamp' = now
          /\ req' = [req EXCEPT ![a] = [@ EXCEPT !.pc = "update", !.at = now]]
    /\ UNCHANGED <<row, provider, destroyed>>

\* Variant: a wrapped key is left in the row.
UpdateKeepsKey(a) ==
    /\ req[a].pc = "update"
    /\ row' = [row EXCEPT !.status = IF req[a].target = "None" THEN @ ELSE req[a].target,
                          !.updatedAt = req[a].at]
    /\ destroyed' = (destroyed \/ req[a].target = "Destroyed")
    /\ req' = [req EXCEPT ![a] = [@ EXCEPT !.pc = "invalidate"]]
    /\ UNCHANGED <<provider, stamp>>

\* db.UpdateIssuer: WHERE id and org only; Destroyed clears key_protected.
UpdateWrite(a) ==
    /\ req[a].pc = "update"
    /\ row' = [row EXCEPT !.status = IF req[a].target = "None" THEN @ ELSE req[a].target,
                          !.protected = @ /\ req[a].target # "Destroyed",
                          !.updatedAt = req[a].at]
    /\ destroyed' = (destroyed \/ req[a].target = "Destroyed")
    /\ req' = [req EXCEPT ![a] =
                  [@ EXCEPT !.pc = IF req[a].target = "Destroyed" THEN "destroy" ELSE "invalidate"]]
    /\ UNCHANGED <<provider, stamp>>

\* Keys.Destroy removes the key of a provider; a failure is only logged.
DestroyKey(a) ==
    /\ req[a].pc = "destroy"
    /\ provider' \in {provider \ {req[a].key}, provider}
    /\ req' = [req EXCEPT ![a] = [@ EXCEPT !.pc = "invalidate"]]
    /\ UNCHANGED <<row, stamp, destroyed>>

\* The handler ends by dropping the issuer from the registry of its
\* instance (module Registry).
InvalidateIssuer(a) ==
    /\ req[a].pc = "invalidate"
    /\ req' = [req EXCEPT ![a] = NoReq]
    /\ UNCHANGED <<row, provider, stamp, destroyed>>

\* A failed statement, a cancelled request or a crash.
RequestFail(a) ==
    /\ req[a].pc # "idle"
    /\ req' = [req EXCEPT ![a] = NoReq]
    /\ UNCHANGED <<row, provider, stamp, destroyed>>

-----------------------------------------------------------------------------

\* The steps of a request but the last one.
HandlerNext(a) ==
    \/ \E k \in KeyIDs, s \in {"Pending", "Active"} : NewIssuer(a, k, s)
    \/ \E k \in KeyIDs : ImportIssuer(a, k)
    \/ InsertIssuer(a)
    \/ \E k \in KeyIDs, n \in Serials : ActivateRead(a, k, n)
    \/ ActivateWrite(a)
    \/ \E target \in {"None", "Archived", "Destroyed"} : UpdateRead(a, target)
    \/ UpdateBegin(a)
    \/ UpdateWrite(a)
    \/ DestroyKey(a)
    \/ RequestFail(a)

LifeNext == \E a \in Admins : HandlerNext(a) \/ InvalidateIssuer(a)

LifeSpec == LifeInit /\ [][LifeNext]_lifeVars

-----------------------------------------------------------------------------
(* Properties *)

IssuerStatuses == {"None", "Pending", "Active", "Archived", "Destroyed"}
CertRecord == [key : Nat, serial : Nat]
RowRecord == [status : IssuerStatuses, key : Nat, protected : BOOLEAN, cert : CertRecord, updatedAt : Nat]
ReqRecord == [pc : {"idle", "insert", "activate", "begin", "update", "destroy", "invalidate"},
              key : Nat, target : IssuerStatuses, cert : CertRecord, at : Nat]

LifeTypeOK ==
    /\ row \in RowRecord
    /\ provider \in SUBSET KeyIDs
    /\ req \in [Admins -> ReqRecord]
    /\ stamp \in Nat
    /\ destroyed \in BOOLEAN

\* The certificate of an issuer is set once, and it is for the key of the
\* row: of two ActivateIssuer requests that both read a Pending row the
\* second is refused, and no update touches the key or the certificate.
CertificateIsSetOnce ==
    [][row.cert # NoCert => row'.cert = row.cert /\ row'.key = row.key]_lifeVars

\* An issuer that left Pending has a certificate, and it is for the key of
\* its row, although ActivateIssuer compares it with a row read earlier.
CertificateFitsKey == row.status \notin {"None", "Pending"} => row.cert.key = row.key /\ row.cert # NoCert

\* An issuer that stopped signing never signs again: no step of any request
\* takes an Archived or Destroyed issuer back to Active.
NeverReactivated ==
    [][row.status \in {"Archived", "Destroyed"} => row'.status \notin {"None", "Pending", "Active"}]_lifeVars

\* A wrapped key is gone for good once the issuer was Destroyed, even when a
\* late request then writes another status over Destroyed.
DestroyedForGood == destroyed /\ row.key \in Wrapped => ~Loadable(row)

\* The key of an issuer that signs, or waits for its certificate, is there:
\* it is destroyed only after the issuer stopped signing for good.
ActiveHasKey == row.status \in {"Pending", "Active"} => Loadable(row)

\* What the comments say of the lifecycle: the service lets an issuer move
\* only from Active to Archived and from Archived to Destroyed.
LifecycleOrder ==
    [][row.status # "None" /\ row'.status # row.status =>
          <<row.status, row'.status>> \in
              {<<"Pending", "Active">>, <<"Active", "Archived">>, <<"Archived", "Destroyed">>}]_lifeVars
=============================================================================
