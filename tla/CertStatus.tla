----------------------------- MODULE CertStatus -----------------------------
(***************************************************************************)
(* The certificate and revoked tables of the CA and the three parties that *)
(* change them: the sign and revoke handlers of the backend, and the       *)
(* cert_status task, which every backend instance schedules.  A database   *)
(* statement or transaction is split where PostgreSQL lets another session *)
(* in: between SELECT ... FOR UPDATE and COMMIT, and between the snapshot  *)
(* of a batch statement and the moment it holds its rows.                  *)
(***************************************************************************)
EXTENDS Integers, FiniteSets

CONSTANTS
    Certs,       \* row IDs of the certificates, ordered as the IDs are
    NotAfter,    \* end of validity of each certificate
    Revokers,    \* concurrent RevokeCertificate requests
    Tasks,       \* backend instances that run the cert_status task
    Lookups,     \* concurrent SignOCSP requests
    Retention,   \* ca.retention.expired_after; 0 keeps the certificates
    BatchSize,   \* rows one statement of the task changes
    MaxBatches,  \* statements of one phase of a run
    MaxTime      \* bound of the clock

ASSUME CertStatusAssumption ==
    /\ Certs \subseteq Nat \ {0}
    /\ IsFiniteSet(Certs)
    /\ NotAfter \in [Certs -> Nat]
    /\ Retention \in Nat
    /\ BatchSize \in Nat \ {0}
    /\ MaxBatches \in Nat \ {0}
    /\ MaxTime \in Nat

VARIABLES
    clock,    \* time.Now() of every process
    status,   \* certificate.status; "None" before the row, "Deleted" after it
    revoked,  \* certificates that have a row in revoked
    rv,       \* RevokeCertificate requests
    task,     \* cert_status runs
    look      \* SignOCSP requests

certVars == <<clock, status, revoked, rv, task, look>>

Rows == {c \in Certs : status[c] \in {"Active", "Expired", "Revoked"}}

\* Row lock of SELECT ... FOR UPDATE, held until the transaction ends.
Locked(c) == \E r \in Revokers : rv[r].pc = "tx" /\ rv[r].cert = c

\* ORDER BY id LIMIT k
Lowest(k, S) == {c \in S : Cardinality({d \in S : d < c}) < k}

\* A process that handles no request, and a task between two runs.
NoRequest == [pc |-> "idle", cert |-> 0]
NoRun == [pc |-> "idle", now |-> 0, n |-> 0, batch |-> {}]

CertInit ==
    /\ clock = 0
    /\ status = [c \in Certs |-> "None"]
    /\ revoked = {}
    /\ rv = [r \in Revokers |-> NoRequest]
    /\ task = [t \in Tasks |-> NoRun]
    /\ look = [l \in Lookups |-> NoRequest]

Tick ==
    /\ clock < MaxTime
    /\ clock' = clock + 1
    /\ UNCHANGED <<status, revoked, rv, task, look>>

-----------------------------------------------------------------------------
(* The handlers of the backend *)

\* SignCertificate records a certificate that is valid when it is signed;
\* the status of a new row is Active.
RegisterCertificate(c) ==
    /\ status[c] = "None"
    /\ clock < NotAfter[c]
    /\ status' = [status EXCEPT ![c] = "Active"]
    /\ UNCHANGED <<clock, revoked, rv, task, look>>

\* RevokeCertificate finds the row; a revoked one is refused here.
RevokeFind(r, c) ==
    /\ rv[r].pc = "idle"
    /\ status[c] \in {"Active", "Expired"}
    /\ rv' = [rv EXCEPT ![r] = [pc |-> "found", cert |-> c]]
    /\ UNCHANGED <<clock, status, revoked, task, look>>

\* Variant: the row is read without FOR UPDATE.
RevokeWithoutLock(r) ==
    LET c == rv[r].cert IN
    /\ rv[r].pc = "found"
    /\ rv' = [rv EXCEPT ![r] = IF status[c] \in {"Active", "Expired"}
                               THEN [pc |-> "tx", cert |-> c] ELSE NoRequest]
    /\ UNCHANGED <<clock, status, revoked, task, look>>

\* getCertificateForUpdate waits for the row; a row that has gone or was
\* revoked meanwhile ends the request.
RevokeLock(r) ==
    LET c == rv[r].cert IN
    /\ rv[r].pc = "found"
    /\ ~Locked(c)
    /\ rv' = [rv EXCEPT ![r] = IF status[c] \in {"Active", "Expired"}
                               THEN [pc |-> "tx", cert |-> c] ELSE NoRequest]
    /\ UNCHANGED <<clock, status, revoked, task, look>>

\* The revocation and the status become visible in one commit.
RevokeCommit(r) ==
    LET c == rv[r].cert IN
    /\ rv[r].pc = "tx"
    /\ revoked' = revoked \cup {c}
    /\ status' = [status EXCEPT ![c] = "Revoked"]
    /\ rv' = [rv EXCEPT ![r] = NoRequest]
    /\ UNCHANGED <<clock, task, look>>

\* A failed statement, a lost connection or a crash rolls the transaction
\* back and releases the row.
RevokeAbort(r) ==
    /\ rv[r].pc \in {"found", "tx"}
    /\ rv' = [rv EXCEPT ![r] = NoRequest]
    /\ UNCHANGED <<clock, status, revoked, task, look>>

\* SignOCSP reads the certificate row; only a Revoked one needs its
\* revocation, any other is answered from the row alone, and a serial
\* without a row is unknown.
OcspGetCertificate(l, c) ==
    /\ look[l].pc # "lookup"
    /\ look' = [look EXCEPT ![l] =
                   [pc |-> IF c \notin Rows THEN "unknown"
                           ELSE IF status[c] = "Revoked" THEN "lookup" ELSE "good",
                    cert |-> c]]
    /\ UNCHANGED <<clock, status, revoked, rv, task>>

\* The second read of SignOCSP, a statement of its own.
OcspGetRevoked(l) ==
    /\ look[l].pc = "lookup"
    /\ look' = [look EXCEPT ![l].pc =
                   IF look[l].cert \in revoked THEN "revoked" ELSE "missing"]
    /\ UNCHANGED <<clock, status, revoked, rv, task>>

-----------------------------------------------------------------------------
(* The cert_status task *)

\* The run of t at a step of its n-th statement, with the batch it selected.
Phase(t, pc, n, batch) == [pc |-> pc, now |-> task[t].now, n |-> n, batch |-> batch]

TaskStart(t) ==
    /\ task[t].pc = "idle"
    /\ task' = [task EXCEPT ![t] = [NoRun EXCEPT !.pc = "expire", !.now = clock]]
    /\ UNCHANGED <<clock, status, revoked, rv, look>>

\* Variant: the retention delays the marking too.
ExpirableAfterRetention(now) ==
    {c \in Certs : status[c] = "Active" /\ NotAfter[c] < now - Retention}

Expirable(now) == {c \in Certs : status[c] = "Active" /\ NotAfter[c] < now}

\* The batch subquery of ExpireCertificates, on the statement's snapshot.
ExpireSelect(t) ==
    /\ task[t].pc = "expire"
    /\ task' = [task EXCEPT ![t] =
                   Phase(t, "expiring", task[t].n, Lowest(BatchSize, Expirable(task[t].now)))]
    /\ UNCHANGED <<clock, status, revoked, rv, look>>

\* Variant: the outer condition on the status is dropped.
ExpiringBlind(t) == task[t].batch \cap Rows

\* The rows of the batch whose status is still Active once the statement
\* holds them.
Expiring(t) == {c \in task[t].batch : status[c] = "Active"}

\* batches() goes on while every statement changes BatchSize rows and
\* MaxBatches is not reached.
Continues(t, changed) ==
    Cardinality(changed) >= BatchSize /\ task[t].n + 1 < MaxBatches

ExpireApply(t) ==
    /\ task[t].pc = "expiring"
    /\ \A c \in task[t].batch : ~Locked(c)
    /\ status' = [c \in Certs |-> IF c \in Expiring(t) THEN "Expired" ELSE status[c]]
    /\ task' = [task EXCEPT ![t] =
                   IF Continues(t, Expiring(t)) THEN Phase(t, "expire", task[t].n + 1, {})
                   ELSE IF Retention > 0 THEN Phase(t, "delete", 0, {})
                   ELSE NoRun]
    /\ UNCHANGED <<clock, revoked, rv, look>>

\* Variants: the retention is not subtracted; only Expired rows are deleted.
RetiredAtOnce(now) == {c \in Rows : NotAfter[c] < now}
RetiredUnlessRevoked(now) == {c \in Rows : status[c] = "Expired" /\ NotAfter[c] < now - Retention}

Retired(now) == {c \in Rows : NotAfter[c] < now - Retention}

DeleteSelect(t) ==
    /\ task[t].pc = "delete"
    /\ task' = [task EXCEPT ![t] =
                   Phase(t, "deleting", task[t].n, Lowest(BatchSize, Retired(task[t].now)))]
    /\ UNCHANGED <<clock, status, revoked, rv, look>>

Deleting(t) == task[t].batch \cap Rows

\* The revocations of the deleted certificates follow by cascade.
DeleteApply(t) ==
    /\ task[t].pc = "deleting"
    /\ \A c \in task[t].batch : ~Locked(c)
    /\ status' = [c \in Certs |-> IF c \in Deleting(t) THEN "Deleted" ELSE status[c]]
    /\ revoked' = revoked \ Deleting(t)
    /\ task' = [task EXCEPT ![t] =
                   IF Continues(t, Deleting(t)) THEN Phase(t, "delete", task[t].n + 1, {}) ELSE NoRun]
    /\ UNCHANGED <<clock, rv, look>>

\* A statement that fails ends the run, and so does a crash; the next run
\* starts over.  A failed statement has changed nothing, so it is one that
\* did not begin.
TaskFail(t) ==
    /\ task[t].pc \in {"expire", "delete"}
    /\ task' = [task EXCEPT ![t] = NoRun]
    /\ UNCHANGED <<clock, status, revoked, rv, look>>

-----------------------------------------------------------------------------

CertNext ==
    \/ Tick
    \/ \E c \in Certs : RegisterCertificate(c)
    \/ \E r \in Revokers, c \in Certs : RevokeFind(r, c)
    \/ \E r \in Revokers : RevokeLock(r)
    \/ \E r \in Revokers : RevokeCommit(r)
    \/ \E r \in Revokers : RevokeAbort(r)
    \/ \E l \in Lookups, c \in Certs : OcspGetCertificate(l, c)
    \/ \E l \in Lookups : OcspGetRevoked(l)
    \/ \E t \in Tasks : TaskStart(t)
    \/ \E t \in Tasks : ExpireSelect(t)
    \/ \E t \in Tasks : ExpireApply(t)
    \/ \E t \in Tasks : DeleteSelect(t)
    \/ \E t \in Tasks : DeleteApply(t)
    \/ \E t \in Tasks : TaskFail(t)

CertSpec == CertInit /\ [][CertNext]_certVars

\* The scheduler starts every run, statements end, a transaction commits or
\* is rolled back, time passes, and the database does not refuse every
\* statement forever.
CertFairness ==
    /\ WF_certVars(Tick)
    /\ \A t \in Tasks :
          /\ WF_certVars(TaskStart(t))
          /\ SF_certVars(ExpireSelect(t))
          /\ SF_certVars(ExpireApply(t))
          /\ SF_certVars(DeleteSelect(t))
          /\ SF_certVars(DeleteApply(t))
    /\ \A r \in Revokers : WF_certVars(RevokeCommit(r) \/ RevokeAbort(r))

FairCertSpec == CertSpec /\ CertFairness

-----------------------------------------------------------------------------
(* Properties *)

CertStatuses == {"None", "Active", "Expired", "Revoked", "Deleted"}

CertTypeOK ==
    /\ clock \in Nat
    /\ status \in [Certs -> CertStatuses]
    /\ revoked \in SUBSET Certs
    /\ rv \in [Revokers -> [pc : {"idle", "found", "tx"}, cert : Nat]]
    /\ \A r \in Revokers : rv[r].pc # "idle" => rv[r].cert \in Certs
    /\ task \in [Tasks -> [pc : {"idle", "expire", "expiring", "delete", "deleting"},
                           now : Nat, n : Nat, batch : SUBSET Certs]]
    /\ look \in [Lookups -> [pc : {"idle", "lookup", "good", "unknown", "revoked", "missing"}, cert : Nat]]

\* A certificate is Revoked exactly when it has a revocation, whatever the
\* order of revocations, expiry batches and retention: RevokeCertificate
\* writes both in one transaction and the cascade removes both.
StatusMatchesRevocation == \A c \in Certs : status[c] = "Revoked" <=> c \in revoked

\* The row of an open revocation stays as getCertificateForUpdate found it:
\* no batch statement changes it and no other revocation holds it.
RevocationOwnsRow ==
    \A r \in Revokers : rv[r].pc = "tx" =>
        /\ status[rv[r].cert] \in {"Active", "Expired"}
        /\ \A q \in Revokers : rv[q].pc = "tx" /\ rv[q].cert = rv[r].cert => q = r

\* A revocation is final: ExpireCertificates never turns a Revoked
\* certificate into an Expired one, and it disappears only when the
\* certificate has been expired for longer than the retention.
RevocationIsFinal ==
    [][\A c \in Certs : status[c] = "Revoked" /\ status'[c] # "Revoked" =>
          status'[c] = "Deleted" /\ Retention > 0 /\ NotAfter[c] + Retention < clock]_certVars

\* SignOCSP reports a missing revocation only for a certificate the
\* retention removed between its two reads.
MissingOnlyWhenRetired ==
    \A l \in Lookups : look[l].pc = "missing" =>
        status[look[l].cert] = "Deleted" /\ NotAfter[look[l].cert] + Retention < clock

\* Every certificate that has expired leaves Active in the end: a run of the
\* task may stop early or fail, and a later one takes what it left.
ExpiredIsMarked ==
    \A c \in Certs : (status[c] = "Active" /\ NotAfter[c] < clock) ~> status[c] # "Active"

\* With a retention, every certificate expired for longer than it is deleted
\* in the end, revoked or not, by DeleteExpiredCertificates.
RetiredIsDeleted ==
    \A c \in Certs : (c \in Rows /\ Retention > 0 /\ NotAfter[c] + Retention < clock)
                        ~> status[c] = "Deleted"
=============================================================================
