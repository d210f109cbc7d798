-------------------------- MODULE CertStatusProofs --------------------------
(***************************************************************************)
(* Proofs about CertStatus for any number of certificates, revocation      *)
(* requests, task instances and batch sizes, and about OcspCache for any   *)
(* number of handlers, OCSP expiry and call timeout.                       *)
(***************************************************************************)
EXTENDS OcspCache, TLAPS

\* What a batch of the retention contains: rows that expired longer ago than
\* the retention of a time the run took from the clock.
RunsOnTime ==
    \A t \in Tasks :
        /\ task[t].now <= clock
        /\ task[t].pc \in {"delete", "deleting"} => Retention > 0
        /\ task[t].pc = "deleting" =>
               \A c \in task[t].batch : NotAfter[c] < task[t].now - Retention

\* The inductive invariant: a status and its revocation agree because the
\* row lock keeps every batch away from an open revocation.
CertInv ==
    /\ CertTypeOK
    /\ StatusMatchesRevocation
    /\ RevocationOwnsRow
    /\ RunsOnTime

LEMMA LowestIsSubset == \A k, S : Lowest(k, S) \subseteq S
  BY Zenon DEF Lowest

LEMMA CertTypeInit == CertInit => CertTypeOK
  BY CertStatusAssumption DEF CertInit, CertTypeOK, CertStatuses, NoRequest, NoRun

LEMMA CertTypeStep == CertTypeOK /\ [CertNext]_certVars => CertTypeOK'
  <1> SUFFICES ASSUME CertTypeOK, [CertNext]_certVars
               PROVE  CertTypeOK'
    BY Zenon
  <1> USE CertStatusAssumption DEF CertTypeOK, CertStatuses, NoRequest, NoRun
  <1>1. CASE Tick
    BY <1>1 DEF Tick
  <1>2. ASSUME NEW c \in Certs, RegisterCertificate(c)
        PROVE  CertTypeOK'
    BY <1>2, Zenon DEF RegisterCertificate
  <1>3. ASSUME NEW r \in Revokers, NEW c \in Certs, RevokeFind(r, c)
        PROVE  CertTypeOK'
    BY <1>3, Zenon DEF RevokeFind
  <1>4. ASSUME NEW r \in Revokers, RevokeLock(r)
        PROVE  CertTypeOK'
    BY <1>4, Zenon DEF RevokeLock
  <1>5. ASSUME NEW r \in Revokers, RevokeCommit(r)
        PROVE  CertTypeOK'
    BY <1>5, Zenon DEF RevokeCommit
  <1>6. ASSUME NEW r \in Revokers, RevokeAbort(r)
        PROVE  CertTypeOK'
    BY <1>6, Zenon DEF RevokeAbort
  <1>7. ASSUME NEW l \in Lookups, NEW c \in Certs, OcspGetCertificate(l, c)
        PROVE  CertTypeOK'
    BY <1>7, Zenon DEF OcspGetCertificate
  <1>8. ASSUME NEW l \in Lookups, OcspGetRevoked(l)
        PROVE  CertTypeOK'
    BY <1>8 DEF OcspGetRevoked
  <1>9. ASSUME NEW t \in Tasks, TaskStart(t)
        PROVE  CertTypeOK'
    BY <1>9, Zenon DEF TaskStart
  <1>10. ASSUME NEW t \in Tasks, ExpireSelect(t)
         PROVE  CertTypeOK'
    <2>1. Lowest(BatchSize, Expirable(task[t].now)) \subseteq Certs
      BY LowestIsSubset, Zenon DEF Expirable
    <2> QED
      BY <1>10, <2>1, Zenon DEF ExpireSelect, Phase
  <1>11. ASSUME NEW t \in Tasks, ExpireApply(t)
         PROVE  CertTypeOK'
    BY <1>11 DEF ExpireApply, Phase
  <1>12. ASSUME NEW t \in Tasks, DeleteSelect(t)
         PROVE  CertTypeOK'
    <2>1. Lowest(BatchSize, Retired(task[t].now)) \subseteq Certs
      BY LowestIsSubset, Zenon DEF Retired, Rows
    <2> QED
      BY <1>12, <2>1, Zenon DEF DeleteSelect, Phase
  <1>13. ASSUME NEW t \in Tasks, DeleteApply(t)
         PROVE  CertTypeOK'
    <2>1. status' \in [Certs -> CertStatuses] /\ revoked' \in SUBSET Certs
      BY <1>13, Zenon DEF DeleteApply
    <2>2. task' \in [Tasks -> [pc : {"idle", "expire", "expiring", "delete", "deleting"},
                               now : Nat, n : Nat, batch : SUBSET Certs]]
      BY <1>13 DEF DeleteApply, Phase
    <2> QED
      BY <1>13, <2>1, <2>2, Zenon DEF DeleteApply
  <1>14. ASSUME NEW t \in Tasks, TaskFail(t)
         PROVE  CertTypeOK'
    BY <1>14, Zenon DEF TaskFail
  <1>15. CASE UNCHANGED certVars
    BY <1>15, Zenon DEF certVars
  <1> QED
    BY <1>1, <1>2, <1>3, <1>4, <1>5, <1>6, <1>7, <1>8, <1>9, <1>10, <1>11, <1>12, Zenon,
       <1>13, <1>14, <1>15 DEF CertNext

\* Every step keeps the tables, the requests and the runs within their types.
THEOREM CertTypeCorrect == CertSpec => []CertTypeOK
  BY CertTypeInit, CertTypeStep, PTL DEF CertSpec

-----------------------------------------------------------------------------
(* Revocations *)

LEMMA CertInvInit == CertInit => CertInv
  BY CertTypeInit, CertStatusAssumption
  DEF CertInit, CertInv, StatusMatchesRevocation, RevocationOwnsRow, RunsOnTime,
      NoRequest, NoRun

\* The status and the revoked table change together.
LEMMA MatchStep == CertInv /\ [CertNext]_certVars => StatusMatchesRevocation'
  <1> SUFFICES ASSUME CertInv, [CertNext]_certVars
               PROVE  StatusMatchesRevocation'
    BY Zenon
  <1> USE DEF CertInv, CertTypeOK, StatusMatchesRevocation
  <1>1. ASSUME NEW c \in Certs, RegisterCertificate(c)
        PROVE  StatusMatchesRevocation'
    BY <1>1, Zenon DEF RegisterCertificate
  <1>2. ASSUME NEW r \in Revokers, RevokeCommit(r)
        PROVE  StatusMatchesRevocation'
    BY <1>2, Zenon DEF RevokeCommit
  <1>3. ASSUME NEW t \in Tasks, ExpireApply(t)
        PROVE  StatusMatchesRevocation'
    BY <1>3, Zenon DEF ExpireApply, Expiring
  <1>4. ASSUME NEW t \in Tasks, DeleteApply(t)
        PROVE  StatusMatchesRevocation'
    BY <1>4, Zenon DEF DeleteApply, Deleting, Rows
  <1>5. ASSUME UNCHANGED <<status, revoked>>
        PROVE  StatusMatchesRevocation'
    BY <1>5, ZenonT(30)
  <1> QED
    BY <1>1, <1>2, <1>3, <1>4, <1>5, Zenon
    DEF CertNext, certVars, Tick, RevokeFind, RevokeLock, RevokeAbort, OcspGetCertificate,
        OcspGetRevoked, TaskStart, ExpireSelect, DeleteSelect, TaskFail

\* An open revocation keeps its row: the batches wait for the lock, and so
\* does every other revocation.
LEMMA OwnsRowStep == CertInv /\ [CertNext]_certVars => RevocationOwnsRow'
  <1> SUFFICES ASSUME CertInv, [CertNext]_certVars
               PROVE  RevocationOwnsRow'
    BY Zenon
  <1> USE DEF CertInv, CertTypeOK, RevocationOwnsRow, NoRequest
  <1>1. ASSUME NEW c \in Certs, RegisterCertificate(c)
        PROVE  RevocationOwnsRow'
    BY <1>1 DEF RegisterCertificate
  <1>2. ASSUME NEW r \in Revokers, NEW c \in Certs, RevokeFind(r, c)
        PROVE  RevocationOwnsRow'
    BY <1>2 DEF RevokeFind
  <1>3. ASSUME NEW r \in Revokers, RevokeLock(r)
        PROVE  RevocationOwnsRow'
    BY <1>3 DEF RevokeLock, Locked
  <1>4. ASSUME NEW r \in Revokers, RevokeCommit(r)
        PROVE  RevocationOwnsRow'
    BY <1>4 DEF RevokeCommit
  <1>5. ASSUME NEW r \in Revokers, RevokeAbort(r)
        PROVE  RevocationOwnsRow'
    BY <1>5 DEF RevokeAbort
  <1>6. ASSUME NEW t \in Tasks, ExpireApply(t)
        PROVE  RevocationOwnsRow'
    BY <1>6 DEF ExpireApply, Expiring, Locked
  <1>7. ASSUME NEW t \in Tasks, DeleteApply(t)
        PROVE  RevocationOwnsRow'
    BY <1>7 DEF DeleteApply, Deleting, Locked
  <1>8. ASSUME UNCHANGED <<status, rv>>
        PROVE  RevocationOwnsRow'
    BY <1>8, ZenonT(30)
  <1> QED
    BY <1>1, <1>2, <1>3, <1>4, <1>5, <1>6, <1>7, <1>8, Zenon
    DEF CertNext, certVars, Tick, OcspGetCertificate, OcspGetRevoked, TaskStart,
        ExpireSelect, DeleteSelect, TaskFail

\* The time of a run never exceeds the clock, and a deletion batch is old.
LEMMA RunsOnTimeStep == CertInv /\ [CertNext]_certVars => RunsOnTime'
  <1> SUFFICES ASSUME CertInv, [CertNext]_certVars
               PROVE  RunsOnTime'
    BY Zenon
  <1> USE CertStatusAssumption DEF CertInv, CertTypeOK, RunsOnTime, NoRun, Phase
  <1>1. CASE Tick
    BY <1>1 DEF Tick
  <1>2. ASSUME NEW t \in Tasks, TaskStart(t)
        PROVE  RunsOnTime'
    BY <1>2 DEF TaskStart
  <1>3. ASSUME NEW t \in Tasks, ExpireSelect(t)
        PROVE  RunsOnTime'
    BY <1>3, Zenon DEF ExpireSelect
  <1>4. ASSUME NEW t \in Tasks, ExpireApply(t)
        PROVE  RunsOnTime'
    BY <1>4 DEF ExpireApply
  <1>5. ASSUME NEW t \in Tasks, DeleteSelect(t)
        PROVE  RunsOnTime'
    <2>1. \A c \in Lowest(BatchSize, Retired(task[t].now)) :
              NotAfter[c] < task[t].now - Retention
      BY LowestIsSubset, Zenon DEF Retired
    <2> QED
      BY <1>5, <2>1, Zenon DEF DeleteSelect
  <1>6. ASSUME NEW t \in Tasks, DeleteApply(t)
        PROVE  RunsOnTime'
    BY <1>6 DEF DeleteApply
  <1>7. ASSUME NEW t \in Tasks, TaskFail(t)
        PROVE  RunsOnTime'
    BY <1>7 DEF TaskFail
  <1>8. ASSUME UNCHANGED <<clock, task>>
        PROVE  RunsOnTime'
    BY <1>8, Zenon
  <1> QED
    BY <1>1, <1>2, <1>3, <1>4, <1>5, <1>6, <1>7, <1>8, Zenon
    DEF CertNext, certVars, RegisterCertificate, RevokeFind, RevokeLock, RevokeCommit,
        RevokeAbort, OcspGetCertificate, OcspGetRevoked

LEMMA CertInvStep == CertInv /\ [CertNext]_certVars => CertInv'
  BY CertTypeStep, MatchStep, OwnsRowStep, RunsOnTimeStep, Zenon DEF CertInv

LEMMA CertInvCorrect == CertSpec => []CertInv
  BY CertInvInit, CertInvStep, PTL DEF CertSpec

\* The status of a certificate and its revocation always agree.
THEOREM StatusMatchesRevocationCorrect == CertSpec => []StatusMatchesRevocation
  BY CertInvCorrect, PTL DEF CertInv

\* No task and no other request touches the row of an open revocation.
THEOREM RevocationOwnsRowCorrect == CertSpec => []RevocationOwnsRow
  BY CertInvCorrect, PTL DEF CertInv

\* A revoked certificate is only ever deleted, by the retention, after it
\* expired.
LEMMA FinalStep ==
  ASSUME CertInv, [CertNext]_certVars, NEW c \in Certs,
         status[c] = "Revoked", status'[c] # "Revoked"
  PROVE  status'[c] = "Deleted" /\ Retention > 0 /\ NotAfter[c] + Retention < clock
  <1> USE CertStatusAssumption DEF CertInv, CertTypeOK
  <1>1. ASSUME NEW d \in Certs, RegisterCertificate(d)
        PROVE  FALSE
    BY <1>1, Zenon DEF RegisterCertificate
  <1>2. ASSUME NEW r \in Revokers, RevokeCommit(r)
        PROVE  FALSE
    BY <1>2, Zenon DEF RevokeCommit
  <1>3. ASSUME NEW t \in Tasks, ExpireApply(t)
        PROVE  FALSE
    BY <1>3, Zenon DEF ExpireApply, Expiring
  <1>4. ASSUME NEW t \in Tasks, DeleteApply(t)
        PROVE  status'[c] = "Deleted" /\ Retention > 0 /\ NotAfter[c] + Retention < clock
    <2>1. c \in task[t].batch /\ status'[c] = "Deleted"
      BY <1>4, Zenon DEF DeleteApply, Deleting
    <2>2. Retention > 0 /\ NotAfter[c] < task[t].now - Retention /\ task[t].now <= clock
      BY <1>4, <2>1, Zenon DEF DeleteApply, RunsOnTime
    <2> QED
      BY <2>1, <2>2
  <1> QED
    BY <1>1, <1>2, <1>3, <1>4, Zenon
    DEF CertNext, certVars, Tick, RevokeFind, RevokeLock, RevokeAbort, OcspGetCertificate,
        OcspGetRevoked, TaskStart, ExpireSelect, DeleteSelect, TaskFail

\* ExpireCertificates keeps a revocation that commits while it waits, and
\* retention is the only way a revocation ends.
THEOREM RevocationIsFinalCorrect == CertSpec => RevocationIsFinal
  <1>1. CertInv /\ [CertNext]_certVars =>
            [\A c \in Certs : status[c] = "Revoked" /\ status'[c] # "Revoked" =>
                status'[c] = "Deleted" /\ Retention > 0 /\ NotAfter[c] + Retention < clock]_certVars
    BY FinalStep, Zenon
  <1> QED
    BY <1>1, CertInvCorrect, PTL DEF CertSpec, RevocationIsFinal

-----------------------------------------------------------------------------
(* The two reads of SignOCSP *)

\* Between its two reads a request holds a certificate that was Revoked, so
\* it is Revoked still or retired.
LookupsOnRecord ==
    \A l \in Lookups : look[l].pc \in {"lookup", "missing"} =>
        /\ look[l].cert \in Certs
        /\ \/ look[l].pc = "lookup" /\ status[look[l].cert] = "Revoked"
           \/ status[look[l].cert] = "Deleted" /\ NotAfter[look[l].cert] + Retention < clock

LEMMA GoneForGood ==
  ASSUME CertInv, [CertNext]_certVars, NEW c \in Certs, status[c] = "Deleted"
  PROVE  status'[c] = "Deleted"
  <1> USE DEF CertInv, CertTypeOK
  <1>1. ASSUME NEW d \in Certs, RegisterCertificate(d)
        PROVE  status'[c] = "Deleted"
    BY <1>1, Zenon DEF RegisterCertificate
  <1>2. ASSUME NEW r \in Revokers, RevokeCommit(r)
        PROVE  status'[c] = "Deleted"
    BY <1>2, Zenon DEF RevokeCommit, RevocationOwnsRow
  <1>3. ASSUME NEW t \in Tasks, ExpireApply(t)
        PROVE  status'[c] = "Deleted"
    BY <1>3, Zenon DEF ExpireApply, Expiring
  <1>4. ASSUME NEW t \in Tasks, DeleteApply(t)
        PROVE  status'[c] = "Deleted"
    BY <1>4, Zenon DEF DeleteApply
  <1> QED
    BY <1>1, <1>2, <1>3, <1>4, Zenon
    DEF CertNext, certVars, Tick, RevokeFind, RevokeLock, RevokeAbort, OcspGetCertificate,
        OcspGetRevoked, TaskStart, ExpireSelect, DeleteSelect, TaskFail

LEMMA ClockGrows ==
  ASSUME CertInv, [CertNext]_certVars
  PROVE  clock <= clock' /\ clock' \in Nat
  <1>1. clock \in Nat
    BY Zenon DEF CertInv, CertTypeOK
  <1>2. clock' = clock \/ clock' = clock + 1
    BY Zenon DEF CertNext, certVars, Tick, RegisterCertificate, RevokeFind,
       RevokeLock, RevokeCommit, RevokeAbort, OcspGetCertificate, OcspGetRevoked, TaskStart,
       ExpireSelect, ExpireApply, DeleteSelect, DeleteApply, TaskFail
  <1> QED
    BY <1>1, <1>2

LEMMA LookupsStep == CertInv /\ LookupsOnRecord /\ [CertNext]_certVars => LookupsOnRecord'
  <1> SUFFICES ASSUME CertInv, LookupsOnRecord, [CertNext]_certVars
               PROVE  LookupsOnRecord'
    BY Zenon
  <1>1. /\ clock \in Nat /\ clock' \in Nat /\ clock <= clock'
        /\ look \in [Lookups -> [pc : {"idle", "lookup", "good", "unknown", "revoked", "missing"}, cert : Nat]]
    BY ClockGrows, Zenon DEF CertInv, CertTypeOK
  <1>2. ASSUME NEW l \in Lookups, NEW c \in Certs, OcspGetCertificate(l, c)
        PROVE  LookupsOnRecord'
    BY <1>1, <1>2, Zenon DEF OcspGetCertificate, LookupsOnRecord, NoRequest
  <1>3. ASSUME NEW l \in Lookups, OcspGetRevoked(l)
        PROVE  LookupsOnRecord'
    <2>1. look[l].cert \notin revoked /\ look[l].cert \in Certs => status[look[l].cert] # "Revoked"
      BY Zenon DEF CertInv, StatusMatchesRevocation
    <2> QED
      BY <1>1, <1>3, <2>1, Zenon DEF OcspGetRevoked, LookupsOnRecord
  <1>4. ASSUME UNCHANGED look
        PROVE  LookupsOnRecord'
    <2> SUFFICES ASSUME NEW l \in Lookups, look[l].pc \in {"lookup", "missing"}
                 PROVE  /\ look[l].cert \in Certs
                        /\ \/ look[l].pc = "lookup" /\ status'[look[l].cert] = "Revoked"
                           \/ /\ status'[look[l].cert] = "Deleted"
                              /\ NotAfter[look[l].cert] + Retention < clock'
      BY <1>4, Zenon DEF LookupsOnRecord
    <2>1. PICK c \in Certs : c = look[l].cert
      BY Zenon DEF LookupsOnRecord
    <2>2. NotAfter[c] + Retention \in Nat
      BY CertStatusAssumption
    <2>3. \/ look[l].pc = "lookup" /\ status[c] = "Revoked"
          \/ status[c] = "Deleted" /\ NotAfter[c] + Retention < clock
      BY <2>1, Zenon DEF LookupsOnRecord
    <2>4. NotAfter[c] + Retention < clock => NotAfter[c] + Retention < clock'
      BY <1>1, <2>2
    <2> QED
      BY <2>1, <2>3, <2>4, GoneForGood, FinalStep, Zenon
  <1> QED
    BY <1>2, <1>3, <1>4, Zenon
    DEF CertNext, certVars, Tick, RegisterCertificate, RevokeFind, RevokeLock, RevokeCommit,
        RevokeAbort, TaskStart, ExpireSelect, ExpireApply, DeleteSelect, DeleteApply, TaskFail

\* SignOCSP misses a revocation only when the retention deleted the
\* certificate between its two reads.
THEOREM MissingOnlyWhenRetiredCorrect == CertSpec => []MissingOnlyWhenRetired
  <1>1. CertInit => LookupsOnRecord
    BY DEF CertInit, LookupsOnRecord, NoRequest
  <1>2. LookupsOnRecord => MissingOnlyWhenRetired
    BY Zenon DEF LookupsOnRecord, MissingOnlyWhenRetired
  <1> QED
    BY <1>1, <1>2, LookupsStep, CertInvCorrect, PTL DEF CertSpec

-----------------------------------------------------------------------------
(* The OCSP answers *)

\* The database held answer a for c at time t or later.
Held(c, a, t) == a = Truth(c) \/ t <= ended[c][a]

\* The answer the first read of SignOCSP settles; the second one can only
\* turn it into an error.
ReadAs(pc) == IF pc = "lookup" THEN "revoked" ELSE pc

Waiting == {"miss", "call", "signed"}

OcspTypeOK ==
    /\ clock \in Nat
    /\ look \in [Lookups -> [pc : {"idle", "lookup", "good", "unknown", "revoked", "missing"}, cert : Nat]]
    /\ aia \in [Lookups -> [pc : Waiting \cup {"idle", "served"}, cert : Nat, now : Nat,
                            answer : Answers \cup {"none"}, nextUpdate : Nat]]
    /\ cache \in [Certs -> [answer : Answers \cup {"none"}, nextUpdate : Nat]]
    /\ ended \in [Certs -> [Answers -> Int]]

\* What a handler holds: the certificate it was asked for, for no longer
\* than the deadline of its call, and an answer that held when the request
\* came or since.
HandlerInv(l) ==
    /\ aia[l].now <= clock
    /\ aia[l].pc # "idle" => aia[l].cert \in Certs
    /\ aia[l].pc \in Waiting => clock <= aia[l].now + CallTimeout
    /\ aia[l].pc = "call" /\ ReadAs(look[l].pc) \in Answers =>
           look[l].cert = aia[l].cert /\ Held(aia[l].cert, ReadAs(look[l].pc), aia[l].now)
    /\ aia[l].pc = "signed" =>
           /\ aia[l].answer \in Answers
           /\ Held(aia[l].cert, aia[l].answer, aia[l].now)
           /\ aia[l].nextUpdate <= aia[l].now + Staleness
    /\ aia[l].pc = "served" =>
           /\ aia[l].answer \in Answers
           /\ Held(aia[l].cert, aia[l].answer, aia[l].now - Staleness + 1)

\* A response in the cache held until Staleness before its NextUpdate.
CacheInv(c) ==
    cache[c].answer # "none" =>
        /\ cache[c].nextUpdate <= clock + Staleness
        /\ Held(c, cache[c].answer, cache[c].nextUpdate - Staleness)

\* The inductive invariant of the responder.
OcspInv ==
    /\ OcspTypeOK
    /\ \A c \in Certs, a \in Answers : ended[c][a] <= clock
    /\ \A l \in Lookups : HandlerInv(l)
    /\ \A c \in Certs : CacheInv(c)

\* What the tables and the clock do around the handlers of the responder.
LEMMA EnvironmentEffect ==
    ASSUME Environment
    PROVE  /\ \/ clock' = clock
              \/ /\ clock' = clock + 1
                 /\ \A l \in Lookups : aia[l].pc \in Waiting => clock < aia[l].now + CallTimeout
           /\ look' = look /\ aia' = aia /\ cache' = cache
  BY Zenon
  DEF Environment, Tick, RegisterCertificate, RevokeFind, RevokeLock, RevokeCommit, RevokeAbort,
      TaskStart, ExpireSelect, ExpireApply, DeleteSelect, DeleteApply, TaskFail, Waiting

LEMMA StalenessPositive ==
    /\ Staleness \in Nat /\ OcspExpiry \in Nat /\ CallTimeout \in Nat
    /\ CallTimeout < Staleness
  BY OcspCacheAssumption DEF Staleness

\* Every step leaves what the database held before: time goes on, and an
\* answer that ceases to hold gets the time of that step.
LEMMA HeldStays ==
    ASSUME OcspInv, [OcspNext]_ocspVars, NEW c \in Certs, NEW a \in Answers
    PROVE  /\ clock' \in Nat
           /\ clock <= clock'
           /\ ended'[c][a] <= clock'
           /\ \A t \in Int : t <= clock /\ Held(c, a, t) => Held(c, a, t)'
  <1>1. clock \in Nat /\ ended[c][a] \in Int /\ ended[c][a] <= clock
    BY DEF OcspInv, OcspTypeOK
  <1>2. CASE Environment
    <2>1. clock' \in Nat /\ clock <= clock'
      <3>1. clock' = clock \/ clock' = clock + 1
        BY <1>2, EnvironmentEffect, Zenon
      <3> QED
        BY <1>1, <3>1
    <2>2. ended'[c][a] = IF a = Truth(c) /\ a # Truth(c)' THEN clock' ELSE ended[c][a]
      BY <1>2, Zenon DEF Environment
    <2> QED
      BY <1>1, <2>1, <2>2 DEF Held
  <1>3. CASE UNCHANGED <<clock, status, ended>>
    <2>1. Truth(c)' = Truth(c)
      BY <1>3, Zenon DEF Truth, Rows
    <2> QED
      BY <1>1, <1>3, <2>1 DEF Held
  <1>4. Environment \/ UNCHANGED <<clock, status, ended>>
    BY Zenon DEF OcspNext, ocspVars, CacheGet, CallSignOCSP, OcspGetCertificate, ReadRevoked,
           OcspGetRevoked, Sign, CacheAdd, OcspError, Evict
  <1> QED
    BY <1>2, <1>3, <1>4, Zenon

LEMMA OcspTypeStep == OcspTypeOK /\ [OcspNext]_ocspVars => OcspTypeOK'
  <1> SUFFICES ASSUME OcspTypeOK, [OcspNext]_ocspVars
               PROVE  OcspTypeOK'
    BY Zenon
  <1>0. Staleness \in Nat /\ OcspExpiry \in Nat /\ Certs \subseteq Nat
    BY StalenessPositive, CertStatusAssumption, Zenon
  <1> USE DEF OcspTypeOK, Waiting, Answers
  <1>1. CASE Environment
    <2>1. clock' \in Nat /\ look' = look /\ aia' = aia /\ cache' = cache
      <3>1. clock \in Nat
        BY Zenon
      <3> QED
        BY <1>1, <3>1, EnvironmentEffect
    <2>2. ended' \in [Certs -> [Answers -> Int]]
      BY <1>1, <2>1 DEF Environment
    <2> QED
      BY <2>1, <2>2, Zenon
  <1>2. ASSUME NEW l \in Lookups, NEW c \in Certs, CacheGet(l, c)
        PROVE  OcspTypeOK'
    BY <1>0, <1>2, Zenon DEF CacheGet, get, At, Empty
  <1>3. ASSUME NEW l \in Lookups, CallSignOCSP(l)
        PROVE  OcspTypeOK'
    <2>1. aia' = [aia EXCEPT ![l].pc = "call"] /\ UNCHANGED <<clock, cache, ended>>
      BY <1>3, Zenon DEF CallSignOCSP, OcspGetCertificate
    <2>2. PICK pc \in {"unknown", "lookup", "good"} :
              look' = [look EXCEPT ![l] = [pc |-> pc, cert |-> aia[l].cert]]
      BY <1>3, Zenon DEF CallSignOCSP, OcspGetCertificate
    <2>3. aia[l].cert \in Nat
      BY Zenon
    <2>4. look' \in [Lookups -> [pc : {"idle", "lookup", "good", "unknown", "revoked", "missing"}, cert : Nat]]
      BY <2>2, <2>3, Zenon
    <2>5. aia' \in [Lookups -> [pc : Waiting \cup {"idle", "served"}, cert : Nat, now : Nat,
                               answer : Answers \cup {"none"}, nextUpdate : Nat]]
      BY <2>1
    <2> QED
      BY <2>1, <2>4, <2>5, Zenon
  <1>4. ASSUME NEW l \in Lookups, ReadRevoked(l)
        PROVE  OcspTypeOK'
    BY <1>4 DEF ReadRevoked, OcspGetRevoked
  <1>5. ASSUME NEW l \in Lookups, Sign(l)
        PROVE  OcspTypeOK'
    BY <1>0, <1>5 DEF Sign, SignedUntil, At
  <1>6. ASSUME NEW l \in Lookups, CacheAdd(l)
        PROVE  OcspTypeOK'
    BY <1>6, Zenon DEF CacheAdd, At, NoRequest
  <1>7. ASSUME NEW l \in Lookups, OcspError(l)
        PROVE  OcspTypeOK'
    BY <1>7, Zenon DEF OcspError, Idle, At, NoRequest
  <1>8. ASSUME NEW c \in Certs, Evict(c)
        PROVE  OcspTypeOK'
    BY <1>8, Zenon DEF Evict, Empty
  <1>9. CASE UNCHANGED ocspVars
    BY <1>9, Zenon DEF ocspVars
  <1> QED
    BY <1>1, <1>2, <1>3, <1>4, <1>5, <1>6, <1>7, <1>8, <1>9, Zenon DEF OcspNext

\* A handler that a step does not touch keeps what it holds.
LEMMA HandlerStays ==
    ASSUME OcspInv, OcspTypeOK', [OcspNext]_ocspVars, NEW l \in Lookups,
           aia'[l] = aia[l], look'[l] = look[l],
           aia[l].pc \in Waiting => clock' <= aia[l].now + CallTimeout
    PROVE  HandlerInv(l)'
  <1>1. HandlerInv(l) /\ clock \in Nat /\ clock' \in Nat /\ clock <= clock' /\ aia[l].now \in Nat
    <2>1. HandlerInv(l) /\ clock \in Nat /\ aia[l].now \in Nat
      BY Zenon DEF OcspInv, OcspTypeOK
    <2>2. clock' = clock \/ clock' = clock + 1
      BY EnvironmentEffect, Zenon
      DEF OcspNext, ocspVars, CacheGet, CallSignOCSP, OcspGetCertificate, ReadRevoked,
          OcspGetRevoked, Sign, CacheAdd, OcspError, Evict
    <2> QED
      BY <2>1, <2>2
  <1>2. /\ aia[l].now \in Int /\ aia[l].now <= clock
        /\ aia[l].now - Staleness + 1 \in Int /\ aia[l].now - Staleness + 1 <= clock
    BY <1>1, StalenessPositive DEF HandlerInv
  <1>3. \A c \in Certs, a \in Answers, t \in Int : t <= clock /\ Held(c, a, t) => Held(c, a, t)'
    BY HeldStays, Zenon
  <1>4. ASSUME aia[l].pc = "call", ReadAs(look[l].pc) \in Answers
        PROVE  Held(aia[l].cert, ReadAs(look[l].pc), aia[l].now)'
    BY <1>1, <1>2, <1>3, <1>4, Zenon DEF HandlerInv, Held, ReadAs, Truth, Rows, Waiting
  <1>5. ASSUME aia[l].pc = "signed"
        PROVE  Held(aia[l].cert, aia[l].answer, aia[l].now)'
    BY <1>1, <1>2, <1>3, <1>5, Zenon DEF HandlerInv, Held, Truth, Rows, Waiting
  <1>6. ASSUME aia[l].pc = "served"
        PROVE  Held(aia[l].cert, aia[l].answer, aia[l].now - Staleness + 1)'
    BY <1>1, <1>2, <1>3, <1>6, Zenon DEF HandlerInv, Held, Truth, Rows, Staleness
  <1> QED
    BY <1>1, <1>4, <1>5, <1>6 DEF HandlerInv, ReadAs, Waiting, Staleness

LEMMA OcspInvInit == OcspInit => OcspInv
  <1> SUFFICES ASSUME OcspInit
               PROVE  OcspInv
    BY Zenon
  <1>1. OcspTypeOK
    BY StalenessPositive DEF OcspInit, CertInit, OcspTypeOK, Waiting, Answers, Idle, At, Empty, NoRequest
  <1>2. \A c \in Certs, a \in Answers : ended[c][a] <= clock
    BY StalenessPositive DEF OcspInit, CertInit
  <1>3. \A l \in Lookups : HandlerInv(l)
    BY DEF OcspInit, CertInit, HandlerInv, Waiting, Idle, At
  <1>4. \A c \in Certs : CacheInv(c)
    BY Zenon DEF OcspInit, CacheInv, Empty
  <1> QED
    BY <1>1, <1>2, <1>3, <1>4, Zenon DEF OcspInv

\* The handler that takes a step.
LEMMA HandlerStep ==
    ASSUME OcspInv, OcspTypeOK', [OcspNext]_ocspVars, NEW l \in Lookups
    PROVE  HandlerInv(l)'
  <1>0. /\ OcspTypeOK /\ HandlerInv(l)
        /\ Staleness \in Nat /\ CallTimeout \in Nat /\ CallTimeout < Staleness
        /\ OcspExpiry \in Nat /\ Staleness = OcspExpiry + CallTimeout
    BY StalenessPositive, Zenon DEF OcspInv, Staleness
  <1>1. CASE Environment
    <2>1. aia[l].pc \in Waiting => clock' <= aia[l].now + CallTimeout
      <3>1. clock \in Nat /\ aia[l].now \in Nat /\ CallTimeout \in Nat
        BY <1>0, Zenon DEF OcspTypeOK
      <3>2. CASE clock' = clock
        BY <1>0, <3>2, Zenon DEF HandlerInv
      <3>3. CASE clock' = clock + 1 /\ (aia[l].pc \in Waiting => clock < aia[l].now + CallTimeout)
        BY <3>1, <3>3
      <3> QED
        BY <1>1, <3>2, <3>3, EnvironmentEffect, Zenon
    <2>2. aia' = aia /\ look' = look
      BY <1>1, EnvironmentEffect, Zenon
    <2> QED
      BY <2>1, <2>2, HandlerStays, Zenon
  <1>2. ASSUME clock' = clock, aia'[l] = aia[l], look'[l] = look[l]
        PROVE  HandlerInv(l)'
    BY <1>0, <1>2, HandlerStays, Zenon DEF HandlerInv
  <1>3. ASSUME NEW c \in Certs, CacheGet(l, c)
        PROVE  HandlerInv(l)'
    <2>1. CASE get(c, clock)
      <3>1. /\ aia'[l] = At("served", c, clock, cache[c].answer, 0)
            /\ clock' = clock /\ UNCHANGED <<status, ended>>
        BY <1>0, <1>3, <2>1, Zenon DEF CacheGet, OcspTypeOK
      <3>2. cache[c].answer \in Answers /\ clock \in Nat /\ cache[c].nextUpdate \in Nat
        BY <1>0, <2>1, Zenon DEF OcspTypeOK, get
      <3>3. Held(c, cache[c].answer, cache[c].nextUpdate - Staleness)
        BY <2>1, Zenon DEF OcspInv, CacheInv, get
      <3>4. ended[c][cache[c].answer] \in Int /\ clock < cache[c].nextUpdate
        BY <1>0, <2>1, <3>2 DEF OcspTypeOK, get
      <3>5. Held(c, cache[c].answer, clock - Staleness + 1)
        BY <1>0, <3>2, <3>3, <3>4 DEF Held
      <3>6. /\ aia'[l].pc = "served" /\ aia'[l].cert = c /\ aia'[l].now = clock
            /\ aia'[l].answer = cache[c].answer
        BY <3>1 DEF At
      <3>7. Held(aia[l].cert, aia[l].answer, aia[l].now - Staleness + 1)'
        BY <3>1, <3>5, <3>6, Zenon DEF Held, Truth, Rows, Staleness
      <3>8. aia'[l].now <= clock'
        BY <3>1, <3>2, <3>6
      <3> QED
        BY <3>2, <3>6, <3>7, <3>8, Zenon DEF HandlerInv, Waiting, Staleness
    <2>2. CASE ~get(c, clock)
      <3>1. aia'[l] = At("miss", c, clock, "none", 0) /\ clock' = clock
        BY <1>0, <1>3, <2>2, Zenon DEF CacheGet, OcspTypeOK
      <3> QED
        BY <1>0, <3>1 DEF HandlerInv, At, OcspTypeOK, Waiting
    <2> QED
      BY <2>1, <2>2, Zenon
  <1>4. ASSUME CallSignOCSP(l)
        PROVE  HandlerInv(l)'
    <2>1. /\ aia'[l] = [aia[l] EXCEPT !.pc = "call"] /\ aia[l].pc = "miss"
          /\ clock' = clock /\ UNCHANGED <<status, ended>>
      BY <1>0, <1>4 DEF CallSignOCSP, OcspGetCertificate, OcspTypeOK
    <2>2. /\ look'[l].cert = aia[l].cert
          /\ ReadAs(look'[l].pc) = Truth(aia[l].cert)
      BY <1>0, <1>4, ZenonT(30) DEF CallSignOCSP, OcspGetCertificate, OcspTypeOK, ReadAs, Truth
    <2>3. Truth(aia[l].cert)' = Truth(aia[l].cert)
      BY <2>1, <1>0, Zenon DEF Truth, Rows, OcspTypeOK
    <2>4. /\ aia'[l].cert = aia[l].cert /\ aia'[l].now = aia[l].now /\ aia'[l].pc = "call"
      BY <1>0, <2>1, Zenon DEF OcspTypeOK
    <2>5. Held(aia[l].cert, ReadAs(look[l].pc), aia[l].now)'
      BY <2>2, <2>3, Zenon DEF Held, ReadAs
    <2> QED
      BY <1>0, <2>1, <2>2, <2>4, <2>5, Zenon DEF HandlerInv, Waiting
  <1>5. ASSUME ReadRevoked(l)
        PROVE  HandlerInv(l)'
    <2>1. /\ aia'[l] = aia[l] /\ clock' = clock /\ UNCHANGED <<status, ended>>
          /\ look[l].pc = "lookup" /\ look'[l].pc \in {"revoked", "missing"}
          /\ look'[l].cert = look[l].cert
      BY <1>0, <1>5 DEF ReadRevoked, OcspGetRevoked, OcspTypeOK
    <2>2. aia[l].pc = "call"
      BY <1>5, Zenon DEF ReadRevoked
    <2>3. look[l].cert = aia[l].cert /\ Held(aia[l].cert, "revoked", aia[l].now)
      BY <1>0, <2>1, <2>2, Zenon DEF HandlerInv, ReadAs, Answers
    <2>4. ReadAs(look[l].pc)' \in Answers => ReadAs(look[l].pc)' = "revoked"
      BY <2>1, Zenon DEF ReadAs, Answers
    <2> QED
      BY <1>0, <2>1, <2>2, <2>3, <2>4, Zenon DEF HandlerInv, Held, Truth, Rows, Waiting
  <1>6. ASSUME Sign(l)
        PROVE  HandlerInv(l)'
    <2>1. PICK until \in SignedUntil : aia' = [aia EXCEPT ![l] = At("signed", @.cert, @.now, look[l].pc, until)]
      BY <1>6, Zenon DEF Sign
    <2>2. /\ aia'[l] = At("signed", aia[l].cert, aia[l].now, look[l].pc, until)
          /\ clock' = clock /\ UNCHANGED <<status, ended>>
          /\ aia[l].pc = "call" /\ look[l].pc \in Answers
      BY <1>0, <1>6, <2>1, Zenon DEF Sign, OcspTypeOK
    <2>3. ReadAs(look[l].pc) = look[l].pc
      BY <2>2, Zenon DEF ReadAs, Answers
    <2>4. Held(aia[l].cert, look[l].pc, aia[l].now)
      BY <1>0, <2>2, <2>3, Zenon DEF HandlerInv
    <2>5. until <= aia[l].now + Staleness
      BY <1>0, <2>2 DEF HandlerInv, SignedUntil, OcspTypeOK, Waiting
    <2>6. /\ aia'[l].pc = "signed" /\ aia'[l].cert = aia[l].cert /\ aia'[l].now = aia[l].now
          /\ aia'[l].answer = look[l].pc /\ aia'[l].nextUpdate = until
      BY <2>2 DEF At
    <2>7. Held(aia[l].cert, aia[l].answer, aia[l].now)'
      BY <2>2, <2>4, <2>6, Zenon DEF Held, Truth, Rows
    <2> QED
      BY <1>0, <2>2, <2>5, <2>6, <2>7, Zenon DEF HandlerInv, Waiting, Staleness
  <1>7. ASSUME CacheAdd(l)
        PROVE  HandlerInv(l)'
    <2>1. /\ aia'[l] = At("served", aia[l].cert, clock, aia[l].answer, 0)
          /\ clock' = clock /\ UNCHANGED <<status, ended>> /\ aia[l].pc = "signed"
      BY <1>0, <1>7, Zenon DEF CacheAdd, OcspTypeOK
    <2>2. /\ aia[l].cert \in Certs /\ aia[l].answer \in Answers /\ aia[l].now \in Nat /\ clock \in Nat
          /\ clock <= aia[l].now + CallTimeout
          /\ Held(aia[l].cert, aia[l].answer, aia[l].now)
      BY <1>0, <2>1, Zenon DEF HandlerInv, Waiting, OcspTypeOK
    <2>3. ended[aia[l].cert][aia[l].answer] \in Int
      BY <1>0, <2>2 DEF OcspTypeOK
    <2>4. Held(aia[l].cert, aia[l].answer, clock - Staleness + 1)
      BY <1>0, <2>2, <2>3 DEF Held
    <2>5. /\ aia'[l].pc = "served" /\ aia'[l].cert = aia[l].cert /\ aia'[l].now = clock
          /\ aia'[l].answer = aia[l].answer
      BY <2>1 DEF At
    <2>6. Held(aia[l].cert, aia[l].answer, aia[l].now - Staleness + 1)'
      BY <2>1, <2>4, <2>5, Zenon DEF Held, Truth, Rows, Staleness
    <2>7. aia'[l].now <= clock'
      BY <2>1, <2>2, <2>5
    <2> QED
      BY <2>2, <2>5, <2>6, <2>7, Zenon DEF HandlerInv, Waiting, Staleness
  <1>8. ASSUME OcspError(l)
        PROVE  HandlerInv(l)'
    BY <1>0, <1>8 DEF OcspError, HandlerInv, OcspTypeOK, Idle, At, Waiting
  <1>9. ASSUME NEW k \in Lookups, k # l,
               \/ \E c \in Certs : CacheGet(k, c)
               \/ CallSignOCSP(k) \/ ReadRevoked(k) \/ Sign(k) \/ CacheAdd(k) \/ OcspError(k)
        PROVE  HandlerInv(l)'
    <2>1. clock' = clock /\ aia'[l] = aia[l] /\ look'[l] = look[l]
      BY <1>0, <1>9
      DEF OcspTypeOK, CacheGet, CallSignOCSP, OcspGetCertificate, ReadRevoked, OcspGetRevoked,
          Sign, CacheAdd, OcspError
    <2> QED
      BY <1>2, <2>1, Zenon
  <1>10. CASE (\E c \in Certs : Evict(c)) \/ UNCHANGED ocspVars
    BY <1>2, <1>10, Zenon DEF Evict, ocspVars
  <1> QED
    BY <1>1, <1>3, <1>4, <1>5, <1>6, <1>7, <1>8, <1>9, <1>10, Zenon DEF OcspNext

\* The cache: a response a handler adds held when its request came, and no
\* other step adds one.
LEMMA CacheStep ==
    ASSUME OcspInv, OcspTypeOK', [OcspNext]_ocspVars, NEW c \in Certs
    PROVE  CacheInv(c)'
  <1>0. OcspTypeOK /\ CacheInv(c) /\ Staleness \in Nat
    BY StalenessPositive, Zenon DEF OcspInv
  <1>1. \A a \in Answers : /\ clock' \in Nat /\ clock <= clock'
                           /\ \A t \in Int : t <= clock /\ Held(c, a, t) => Held(c, a, t)'
    BY HeldStays, Zenon
  <1>2. ASSUME cache'[c] = cache[c]
        PROVE  CacheInv(c)'
    <2> SUFFICES ASSUME cache[c].answer # "none"
                 PROVE  /\ cache[c].nextUpdate <= clock' + Staleness
                        /\ Held(c, cache[c].answer, cache[c].nextUpdate - Staleness)'
      BY <1>2, Zenon DEF CacheInv, Staleness
    <2>1. cache[c].answer \in Answers /\ cache[c].nextUpdate \in Nat /\ clock \in Nat
      BY <1>0, Zenon DEF OcspTypeOK
    <2>2. /\ cache[c].nextUpdate <= clock + Staleness
          /\ Held(c, cache[c].answer, cache[c].nextUpdate - Staleness)
      BY <1>0, Zenon DEF CacheInv
    <2>3. PICK a \in Answers, t \in Int : a = cache[c].answer /\ t = cache[c].nextUpdate - Staleness
      BY <1>0, <2>1
    <2>4. Held(c, a, t)'
      <3>1. t <= clock
        BY <1>0, <2>1, <2>2, <2>3
      <3> QED
        BY <1>1, <2>2, <2>3, <3>1, Zenon
    <2>5. Held(c, cache[c].answer, cache[c].nextUpdate - Staleness)'
      BY <1>2, <2>3, <2>4, Zenon DEF Held, Staleness
    <2>6. clock' \in Nat /\ clock <= clock'
      BY <1>1, <2>3, Zenon
    <2>7. cache[c].nextUpdate <= clock' + Staleness
      BY <1>0, <2>1, <2>2, <2>6
    <2> QED
      BY <2>5, <2>7, <1>2, Zenon DEF Held, Staleness
  <1>3. ASSUME cache'[c] = Empty
        PROVE  CacheInv(c)'
    BY <1>3 DEF CacheInv, Empty
  <1>4. ASSUME NEW l \in Lookups, CacheAdd(l), cache'[c] # cache[c]
        PROVE  CacheInv(c)'
    <2>1. /\ aia[l].pc = "signed" /\ aia[l].cert = c /\ clock' = clock /\ UNCHANGED <<status, ended>>
          /\ cache'[c] = [answer |-> aia[l].answer, nextUpdate |-> aia[l].nextUpdate]
      BY <1>0, <1>4 DEF CacheAdd, OcspTypeOK
    <2>2. /\ aia[l].answer \in Answers /\ aia[l].now \in Nat /\ clock \in Nat /\ aia[l].nextUpdate \in Nat
          /\ Held(c, aia[l].answer, aia[l].now)
          /\ aia[l].now <= clock /\ aia[l].nextUpdate <= aia[l].now + Staleness
      BY <1>0, <2>1, Zenon DEF OcspInv, HandlerInv, OcspTypeOK
    <2>3. ended[c][aia[l].answer] \in Int
      BY <1>0, <2>2 DEF OcspTypeOK
    <2>4. Held(c, aia[l].answer, aia[l].nextUpdate - Staleness)
      BY <1>0, <2>2, <2>3 DEF Held
    <2>5. cache'[c].answer = aia[l].answer /\ cache'[c].nextUpdate = aia[l].nextUpdate
      BY <2>1
    <2>6. Held(c, cache[c].answer, cache[c].nextUpdate - Staleness)'
      BY <2>1, <2>4, <2>5, Zenon DEF Held, Truth, Rows, Staleness
    <2> QED
      BY <1>0, <2>1, <2>2, <2>5, <2>6 DEF CacheInv, Staleness
  <1>5. ASSUME ~ \E l \in Lookups : CacheAdd(l)
        PROVE  cache'[c] \in {cache[c], Empty}
    BY <1>0, <1>5
    DEF OcspTypeOK, OcspNext, ocspVars, Environment, CacheGet, CallSignOCSP, ReadRevoked, Sign,
        OcspError, Evict
  <1> QED
    BY <1>2, <1>3, <1>4, <1>5, Zenon

\* The invariant of the responder is inductive.
LEMMA OcspInvStep == OcspInv /\ [OcspNext]_ocspVars => OcspInv'
  <1> SUFFICES ASSUME OcspInv, [OcspNext]_ocspVars
               PROVE  OcspInv'
    BY Zenon
  <1>1. OcspTypeOK'
    BY OcspTypeStep, Zenon DEF OcspInv
  <1>2. \A c \in Certs, a \in Answers : ended'[c][a] <= clock'
    BY HeldStays, Zenon
  <1> QED
    BY <1>1, <1>2, HandlerStep, CacheStep, Zenon DEF OcspInv

\* Every answer of ocspResponse is one the tables hold or held less than
\* Staleness before, for any number of handlers, certificates, revocations
\* and task instances, any OCSP expiry and any deadline of the call.
THEOREM AnswerWasTrueCorrect == OcspSpec => []AnswerWasTrue
  <1>1. OcspInv => AnswerWasTrue
    <2> SUFFICES ASSUME OcspInv, NEW l \in Lookups, aia[l].pc = "served"
                 PROVE  \/ aia[l].answer = Truth(aia[l].cert)
                        \/ aia[l].now < ended[aia[l].cert][aia[l].answer] + Staleness
      BY Zenon DEF AnswerWasTrue
    <2>1. /\ aia[l].cert \in Certs /\ aia[l].answer \in Answers /\ aia[l].now \in Nat
          /\ Held(aia[l].cert, aia[l].answer, aia[l].now - Staleness + 1)
      BY Zenon DEF OcspInv, OcspTypeOK, HandlerInv
    <2>2. ended[aia[l].cert][aia[l].answer] \in Int /\ Staleness \in Nat
      BY <2>1, StalenessPositive DEF OcspInv, OcspTypeOK
    <2> QED
      BY <2>1, <2>2 DEF Held
  <1> QED
    BY <1>1, OcspInvInit, OcspInvStep, PTL DEF OcspSpec
=============================================================================
