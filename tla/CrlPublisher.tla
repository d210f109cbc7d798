---------------------------- MODULE CrlPublisher ----------------------------
(***************************************************************************)
(* Publishing the CRLs of one issuer: internal/ca.CrlPublisher, called by  *)
(* the PublishCrls handler (by the key identifier, or for a scope) and by  *)
(* the crl_renewal task, on any number of backend instances at once.  Rows *)
(* of different issuers share no state, so one issuer is modelled; the     *)
(* time a run spends on the other issuers of its page is the delay between *)
(* two steps.  The module extends CertStatus, whose handlers and task      *)
(* change the revoked table while a CRL is built.                          *)
(***************************************************************************)
EXTENDS CertStatus

CONSTANTS
    Publishers,      \* concurrent PublishCrls requests and crl_renewal runs
    IssuerNotAfter,  \* end of validity of the issuer certificate
    CrlExpiry,       \* validity of a CRL (issuer settings)
    CrlRenewal,      \* renewal period before the next update (issuer settings)
    PageSize,        \* crlPageSize
    PublishAttempts, \* publishAttempts
    Forcing,         \* values of Force the requests use
    Statuses,        \* statuses the issuer may be given while CRLs are published
    MaxNumber        \* bound: at this CRL number no more CRLs are signed

ASSUME CrlPublisherAssumption ==
    /\ IssuerNotAfter \in Nat
    /\ CrlExpiry \in Nat \ {0}
    /\ CrlRenewal \in Nat
    /\ PageSize \in Nat \ {0}
    /\ PublishAttempts \in Nat \ {0}
    /\ Forcing \subseteq BOOLEAN
    /\ Statuses \subseteq {"Active", "Archived", "Destroyed"}
    /\ MaxNumber \in Nat

VARIABLES
    issuer,   \* issuer row: status and crl_number
    crl,      \* crl row of the issuer's key identifier
    pub,      \* publishers
    base      \* history: revocations on record when crl was stored

crlVars == <<issuer, crl, pub, base>>
vars == <<certVars, crlVars>>

\* No row: a CRL number starts at 0, and a zero next update is no time.
NoCrl == [number |-> 0, thisUpdate |-> 0, nextUpdate |-> 0, entries |-> {}]

\* A publisher that has read no more than the number of the issuer row.
PubAt(pc, pass, force, number) ==
    [pc |-> pc, pass |-> pass, force |-> force, number |-> number, current |-> 0,
     now |-> 0, attempt |-> 0, cursor |-> 0, entries |-> {}]

NoPub == PubAt("idle", 0, FALSE, 0)

\* Variant: archived issuers are forgotten.
OnlyActive == <<"Active", "Active">>

\* The statuses a run lists, one query each.
CrlStatuses == <<"Active", "Archived">>

Init ==
    /\ CertInit
    /\ issuer = [status |-> "Active", crlNumber |-> 0]
    /\ crl = NoCrl
    /\ pub = [p \in Publishers |-> NoPub]
    /\ base = {}

-----------------------------------------------------------------------------

CrlDue(nextUpdate, now) == nextUpdate = 0 \/ nextUpdate <= now + CrlRenewal

issuerExpired(now) == IssuerNotAfter <= now

\* Variant: the CRL may outlive the issuer.
NextUpdateUncapped(now) == now + CrlExpiry

\* nextUpdate of buildCrl: the CRL does not outlive the issuer certificate.
NextUpdate(now) == IF now + CrlExpiry > IssuerNotAfter THEN IssuerNotAfter ELSE now + CrlExpiry

\* What follows the outcome of the issuer, whatever it is: a run over a
\* scope goes on to the next status, a request by key identifier returns.
Finished(p) ==
    IF pub[p].pass = 1 THEN PubAt("list", 2, pub[p].force, 0) ELSE NoPub

\* A PublishCrls request for a scope, or a run of the crl_renewal task.
StartRun(p) ==
    /\ pub[p].pc = "idle"
    /\ \E force \in Forcing :
          pub' = [pub EXCEPT ![p] = PubAt("list", 1, force, 0)]
    /\ UNCHANGED <<issuer, crl, base>>

\* ListIssuers of the status of the pass: the issuer is on the page, or not.
ListIssuers(p) ==
    /\ pub[p].pc = "list"
    /\ pub' = [pub EXCEPT ![p] =
                  IF issuer.status = CrlStatuses[pub[p].pass]
                  THEN PubAt("row", pub[p].pass, pub[p].force, issuer.crlNumber)
                  ELSE Finished(p)]
    /\ UNCHANGED <<issuer, crl, base>>

\* A PublishCrls request that names the key identifier: an issuer that is
\* neither Active nor Archived is refused.
GetIssuerBySKID(p) ==
    /\ pub[p].pc = "idle"
    /\ issuer.status \in {"Active", "Archived"}
    /\ \E force \in Forcing :
          pub' = [pub EXCEPT ![p] = PubAt("row", 0, force, issuer.crlNumber)]
    /\ UNCHANGED <<issuer, crl, base>>

\* currentCrls of a run, currentCrl of a request.
CurrentCrl(p) ==
    /\ pub[p].pc = "row"
    /\ pub' = [pub EXCEPT ![p] = [@ EXCEPT !.pc = "publish", !.current = crl.nextUpdate]]
    /\ UNCHANGED <<issuer, crl, base>>

\* publish up to its loop: the time is taken once, an expired issuer and a
\* CRL that is not due end it, and the issuer is loaded.
Publish(p) ==
    /\ pub[p].pc = "publish"
    /\ pub' = [pub EXCEPT ![p] =
                  IF \/ issuerExpired(clock)
                     \/ ~(pub[p].force \/ CrlDue(pub[p].current, clock))
                     \/ issuer.crlNumber >= MaxNumber
                  THEN Finished(p)
                  ELSE [@ EXCEPT !.pc = "build", !.now = clock, !.attempt = 1]]
    /\ UNCHANGED <<issuer, crl, base>>

\* Variant: the revocations of expired certificates are listed too.
RevokedEver(cursor, now) == {c \in revoked : cursor = 0 \/ c < cursor}

\* ListRevoked past the cursor: revocations of certificates valid at now,
\* by descending ID.  The ID of a revocation is drawn before its commit, so
\* revocations become visible in any order of their IDs: the row of c stands
\* for its revocation.
RevokedPast(cursor, now) ==
    {c \in revoked : NotAfter[c] > now /\ (cursor = 0 \/ c < cursor)}

\* Variant: the page is taken in ascending order.
LowestFirst(k, S) == {c \in S : Cardinality({d \in S : d < c}) < k}

\* ORDER BY id DESC LIMIT k
Highest(k, S) == {c \in S : Cardinality({d \in S : d > c}) < k}

\* One page of crlEntries: the last one, or one that moves the cursor to its
\* lowest row.
BuildPage(p) ==
    LET rows == RevokedPast(pub[p].cursor, pub[p].now)
        page == Highest(PageSize, rows)
        entries == pub[p].entries \cup page
    IN
    /\ pub[p].pc = "build"
    /\ \/ /\ page = rows
          /\ pub' = [pub EXCEPT ![p] = [@ EXCEPT !.pc = "store", !.entries = entries]]
       \/ /\ page # rows
          /\ \E last \in page :
                /\ \A c \in page : last <= c
                /\ pub' = [pub EXCEPT ![p] = [@ EXCEPT !.cursor = last, !.entries = entries]]
    /\ UNCHANGED <<issuer, crl, base>>

BuiltCrl(p) ==
    [number |-> pub[p].number + 1, thisUpdate |-> pub[p].now,
     nextUpdate |-> NextUpdate(pub[p].now), entries |-> pub[p].entries]

\* The SQL of setIssuerCrlNumber: the number is set only when it is greater.
NumberIsGreater(p) == issuer.crlNumber < pub[p].number + 1

\* A transaction of db.PublishCrl that has updated the issuer row holds it:
\* other updates of the row wait for its end, and what they compare is the
\* row it leaves.  Reads do not wait, and see the row as it was.
IssuerLocked == \E p \in Publishers : pub[p].pc = "insert"

\* Variant: the number is committed by itself.
SetCrlNumberAlone(p) ==
    /\ pub[p].pc = "store"
    /\ ~IssuerLocked
    /\ NumberIsGreater(p)
    /\ issuer' = [issuer EXCEPT !.crlNumber = pub[p].number + 1]
    /\ pub' = [pub EXCEPT ![p] = [@ EXCEPT !.pc = "insert"]]
    /\ UNCHANGED <<crl, base>>

\* The transaction of db.PublishCrl: setIssuerCrlNumber, then the CRL and the
\* commit that makes both seen.  A failure between them leaves neither.
SetCrlNumber(p) ==
    /\ pub[p].pc = "store"
    /\ ~IssuerLocked
    /\ NumberIsGreater(p)
    /\ pub' = [pub EXCEPT ![p] = [@ EXCEPT !.pc = "insert"]]
    /\ UNCHANGED <<issuer, crl, base>>

StoreCrl(p) ==
    /\ pub[p].pc = "insert"
    /\ issuer' = [issuer EXCEPT !.crlNumber = pub[p].number + 1]
    /\ crl' = BuiltCrl(p)
    /\ pub' = [pub EXCEPT ![p] = Finished(p)]
    /\ base' = revoked

\* ErrStaleCrlNumber: the attempt is repeated, or fails.
StaleCrlNumber(p) ==
    /\ pub[p].pc = "store"
    /\ ~IssuerLocked
    /\ ~NumberIsGreater(p)
    /\ pub' = [pub EXCEPT ![p] =
                  IF pub[p].attempt >= PublishAttempts THEN Finished(p)
                  ELSE [@ EXCEPT !.pc = "reread"]]
    /\ UNCHANGED <<issuer, crl, base>>

\* GetIssuer of the retry, with its status check.
RereadIssuer(p) ==
    /\ pub[p].pc = "reread"
    /\ pub' = [pub EXCEPT ![p] =
                  IF issuer.status \in {"Active", "Archived"}
                  THEN [@ EXCEPT !.pc = "recheck", !.number = issuer.crlNumber]
                  ELSE Finished(p)]
    /\ UNCHANGED <<issuer, crl, base>>

\* Variants: the retry does not look at the CRL that won; the retry signs
\* the entries it has already read.
RetryAlways(p) ==
    /\ pub[p].pc = "recheck"
    /\ pub' = [pub EXCEPT ![p] = [@ EXCEPT !.pc = "build", !.attempt = pub[p].attempt + 1,
                                           !.cursor = 0, !.entries = {}]]
    /\ UNCHANGED <<issuer, crl, base>>
RetrySameEntries(p) ==
    /\ pub[p].pc = "recheck"
    /\ pub' = [pub EXCEPT ![p] =
                  IF pub[p].force \/ CrlDue(crl.nextUpdate, pub[p].now)
                  THEN [@ EXCEPT !.pc = "store", !.attempt = pub[p].attempt + 1]
                  ELSE Finished(p)]
    /\ UNCHANGED <<issuer, crl, base>>

\* currentCrl of the retry: the CRL that won may make this one needless; the
\* next attempt builds its entries from nothing, at the same time.
RereadCrl(p) ==
    /\ pub[p].pc = "recheck"
    /\ pub' = [pub EXCEPT ![p] =
                  IF pub[p].force \/ CrlDue(crl.nextUpdate, pub[p].now)
                  THEN [@ EXCEPT !.pc = "build", !.attempt = pub[p].attempt + 1,
                                 !.cursor = 0, !.entries = {}]
                  ELSE Finished(p)]
    /\ UNCHANGED <<issuer, crl, base>>

\* Any failure of a statement, of loading the issuer or of signing ends the
\* work on the issuer; a failure to list, and a crash, end the run.
PublishFail(p) ==
    /\ pub[p].pc # "idle"
    /\ \/ pub' = [pub EXCEPT ![p] = NoPub]
       \/ pub[p].pc # "list" /\ pub' = [pub EXCEPT ![p] = Finished(p)]
    /\ UNCHANGED <<issuer, crl, base>>

\* The UPDATE of the issuer row carries no status guard: a handler or a
\* bootstrap that checked an older row may write any of these.
UpdateIssuerStatus ==
    /\ ~IssuerLocked
    /\ \E s \in Statuses \ {issuer.status} :
          issuer' = [issuer EXCEPT !.status = s]
    /\ UNCHANGED <<crl, pub, base>>

-----------------------------------------------------------------------------

PublisherNext(p) ==
    \/ StartRun(p)
    \/ ListIssuers(p)
    \/ GetIssuerBySKID(p)
    \/ CurrentCrl(p)
    \/ Publish(p)
    \/ BuildPage(p)
    \/ SetCrlNumber(p)
    \/ StoreCrl(p)
    \/ StaleCrlNumber(p)
    \/ RereadIssuer(p)
    \/ RereadCrl(p)
    \/ PublishFail(p)

Next ==
    \/ CertNext /\ UNCHANGED crlVars
    \/ (\E p \in Publishers : PublisherNext(p)) /\ UNCHANGED certVars
    \/ UpdateIssuerStatus /\ UNCHANGED certVars

Spec == Init /\ [][Next]_vars

-----------------------------------------------------------------------------
(* Properties *)

CrlRecord == [number : Nat, thisUpdate : Nat, nextUpdate : Nat, entries : SUBSET Certs]

PubRecord ==
    [pc : {"idle", "list", "row", "publish", "build", "store", "insert", "reread", "recheck"},
     pass : 0 .. 2, force : BOOLEAN, number : Nat, current : Nat, now : Nat,
     attempt : Nat, cursor : Nat, entries : SUBSET Certs]

TypeOK ==
    /\ CertTypeOK
    /\ issuer \in [status : {"Active", "Archived", "Destroyed"}, crlNumber : Nat]
    /\ crl \in CrlRecord
    /\ pub \in [Publishers -> PubRecord]
    /\ \A p \in Publishers : pub[p].pc = "list" => pub[p].pass \in {1, 2}
    /\ base \in SUBSET Certs

\* The CRL of a key identifier is replaced only by the next number: the
\* numbers grow and have no gap, however many publishers race, and also when
\* a publisher fails or crashes between the number and the CRL, which
\* db.PublishCrl writes in one transaction.
NumbersAreConsecutive == [][crl' # crl => crl'.number = crl.number + 1]_vars

\* A CRL lists every revocation that was on record when the CRL it replaces
\* was stored and whose certificate is still valid.  So an entry never
\* disappears before its certificate expires, and no revocation is missing
\* from two CRLs in a row, although its publisher read the row, the current
\* CRL and the pages of entries at different times.
CrlCatchesUp ==
    [][crl' # crl => \A c \in base : NotAfter[c] > clock => c \in crl'.entries]_vars

\* Every entry of the CRL is a revocation on record whose certificate was
\* valid when the CRL was signed, unless the retention removed it since.
EntriesAreRevoked ==
    \A c \in crl.entries :
        /\ crl.thisUpdate < NotAfter[c]
        /\ c \in revoked \/ status[c] = "Deleted"

\* A publisher that is not forced replaces a CRL only when that very CRL was
\* due at its time: of two instances that publish at once the second keeps
\* the CRL of the first.
NoNeedlessCrl ==
    [][\A p \in Publishers :
          pub[p].pc = "insert" /\ ~pub[p].force /\ crl' # crl /\ pub'[p] # pub[p] =>
              CrlDue(crl.nextUpdate, pub[p].now)]_vars

\* A CRL is valid for some time and never beyond the issuer certificate.
CrlWithinIssuer ==
    crl # NoCrl => /\ crl.thisUpdate < crl.nextUpdate
                   /\ crl.nextUpdate <= IssuerNotAfter
                   /\ crl.nextUpdate <= crl.thisUpdate + CrlExpiry

-----------------------------------------------------------------------------
(* Refinement *)

Log == INSTANCE CrlLog WITH
    recorded <- revoked,
    retired <- {c \in Certs : status[c] = "Deleted"},
    number <- crl.number,
    listed <- crl.entries

\* Any number of publishers, with their reads at different times, races,
\* retries and crashes, over the tables that requests and the cert_status
\* task change, publish what one atomic publisher would.
ImplementsCrlLog == Log!Spec

-----------------------------------------------------------------------------
(* Liveness *)

\* The scheduler repeats the crl_renewal run, time passes, and neither the
\* database nor the signer fails every time it is asked.
Fairness ==
    /\ WF_vars(Tick /\ UNCHANGED crlVars)
    /\ \A p \in Publishers :
          /\ WF_vars(StartRun(p) /\ UNCHANGED certVars)
          /\ \A k \in 1 .. 2 : SF_vars(pub[p].pass = k /\ ListIssuers(p) /\ UNCHANGED certVars)
          /\ SF_vars(CurrentCrl(p) /\ UNCHANGED certVars)
          /\ SF_vars(Publish(p) /\ UNCHANGED certVars)
          /\ SF_vars(BuildPage(p) /\ UNCHANGED certVars)
          /\ SF_vars(SetCrlNumber(p) /\ UNCHANGED certVars)
          /\ SF_vars(StoreCrl(p) /\ UNCHANGED certVars)

FairSpec == Spec /\ Fairness

\* A CRL that is missing or due is renewed while the issuer publishes CRLs and
\* its certificate is valid.  A run lists the Active issuers, then the Archived
\* ones, and misses an issuer that moves between them the other way: so the
\* renewal is promised once the moves have an end, whichever status is last.
DueIsRenewed ==
    <>[][issuer'.status = issuer.status]_vars =>
        (CrlDue(crl.nextUpdate, clock) ~>
            \/ ~CrlDue(crl.nextUpdate, clock)
            \/ issuerExpired(clock)
            \/ issuer.status = "Destroyed")
=============================================================================
