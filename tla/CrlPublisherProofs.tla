------------------------- MODULE CrlPublisherProofs -------------------------
(***************************************************************************)
(* Proofs about CrlPublisher for any number of publishers, certificates,   *)
(* attempts and page sizes.                                                *)
(***************************************************************************)
EXTENDS CrlPublisher, CertStatusProofs, FiniteSetTheorems

LEMMA TypeInit == Init => TypeOK
  BY CertTypeInit, CrlPublisherAssumption
  DEF Init, TypeOK, CrlRecord, PubRecord, NoCrl, NoPub, PubAt

LEMMA FinishedType ==
  ASSUME TypeOK, NEW p \in Publishers
  PROVE  /\ Finished(p) \in PubRecord
         /\ Finished(p).pc \in {"idle", "list"}
         /\ Finished(p).pc = "list" => Finished(p).pass \in {1, 2}
         /\ Finished(p).number = 0 /\ Finished(p).now = 0 /\ Finished(p).entries = {}
  BY SMTT(20) DEF Finished, NoPub, PubAt, PubRecord, TypeOK

LEMMA HighestIsSubset == \A k, S : Highest(k, S) \subseteq S
  BY Zenon DEF Highest

\* A step of one publisher that leaves it with a well-typed record.
LEMMA PubType ==
  ASSUME TypeOK, NEW p \in Publishers, NEW r \in PubRecord,
         r.pc = "list" => r.pass \in {1, 2},
         pub' = [pub EXCEPT ![p] = r], UNCHANGED <<issuer, crl, base>>, CertTypeOK'
  PROVE  TypeOK'
  BY SMTT(20) DEF TypeOK

LEMMA TypeStep == TypeOK /\ [Next]_vars => TypeOK'
  <1> SUFFICES ASSUME TypeOK, [Next]_vars
               PROVE  TypeOK'
    BY Zenon
  <1>1. CASE CertNext /\ UNCHANGED crlVars
    BY <1>1, CertTypeStep, SMTT(20) DEF TypeOK, crlVars
  <1>2. ASSUME NEW p \in Publishers, PublisherNext(p), UNCHANGED certVars
        PROVE  TypeOK'
    <2>1. CertTypeOK'
      BY <1>2, CertTypeStep, SMTT(20) DEF TypeOK
    <2> DEFINE me == pub[p]
    <2>a. /\ me \in PubRecord
          /\ clock \in Nat
          /\ crl.nextUpdate \in Nat
          /\ issuer.crlNumber \in Nat
      BY SMTT(20) DEF TypeOK, CertTypeOK, CrlRecord
    <2>2. CASE StartRun(p)
      <3>1. PICK force \in BOOLEAN : pub' = [pub EXCEPT ![p] = PubAt("list", 1, force, 0)]
        BY <2>2, CrlPublisherAssumption, Zenon DEF StartRun
      <3>2. PubAt("list", 1, force, 0) \in PubRecord /\ PubAt("list", 1, force, 0).pass = 1
        BY SMTT(20) DEF PubAt, PubRecord
      <3> QED
        BY <2>1, <2>2, <3>1, <3>2, PubType, Zenon DEF StartRun
    <2>3. CASE ListIssuers(p)
      <3>1. PubAt("row", me.pass, me.force, issuer.crlNumber) \in PubRecord
        BY <2>a, SMTT(20) DEF PubAt, PubRecord
      <3>2. PubAt("row", me.pass, me.force, issuer.crlNumber).pc = "row"
        BY Zenon DEF PubAt
      <3> QED
        BY <2>1, <2>3, <3>1, <3>2, FinishedType, PubType, Zenon DEF ListIssuers
    <2>4. CASE GetIssuerBySKID(p)
      <3>1. PICK force \in BOOLEAN : pub' = [pub EXCEPT ![p] = PubAt("row", 0, force, issuer.crlNumber)]
        BY <2>4, CrlPublisherAssumption, Zenon DEF GetIssuerBySKID
      <3>2. PubAt("row", 0, force, issuer.crlNumber) \in PubRecord
        BY <2>a, SMTT(20) DEF PubAt, PubRecord
      <3>3. PubAt("row", 0, force, issuer.crlNumber).pc = "row"
        BY Zenon DEF PubAt
      <3> QED
        BY <2>1, <2>4, <3>1, <3>2, <3>3, PubType, Zenon DEF GetIssuerBySKID
    <2>5. CASE CurrentCrl(p)
      <3> DEFINE r == [me EXCEPT !.pc = "publish", !.current = crl.nextUpdate]
      <3>1. r \in PubRecord /\ r.pc = "publish"
        BY <2>a, Zenon DEF PubRecord
      <3>2. pub' = [pub EXCEPT ![p] = r]
        BY <2>5, Zenon DEF CurrentCrl
      <3> HIDE DEF r
      <3> QED
        BY <2>1, <2>5, <3>1, <3>2, PubType, Zenon DEF CurrentCrl
    <2>6. CASE Publish(p)
      <3> DEFINE r == [me EXCEPT !.pc = "build", !.now = clock, !.attempt = 1]
      <3>1. r \in PubRecord /\ r.pc = "build"
        BY <2>a, Zenon DEF PubRecord
      <3>2. pub' = [pub EXCEPT ![p] = r] \/ pub' = [pub EXCEPT ![p] = Finished(p)]
        BY <2>6, Zenon DEF Publish
      <3> HIDE DEF r
      <3> QED
        BY <2>1, <2>6, <3>1, <3>2, FinishedType, PubType, Zenon DEF Publish
    <2>7. CASE BuildPage(p)
      <3> DEFINE entries == me.entries \cup Highest(PageSize, RevokedPast(me.cursor, me.now))
                 r(last) == [me EXCEPT !.cursor = last, !.entries = entries]
                 s == [me EXCEPT !.pc = "store", !.entries = entries]
      <3>1. Highest(PageSize, RevokedPast(me.cursor, me.now)) \subseteq Certs
        BY HighestIsSubset, SMTT(20) DEF RevokedPast, TypeOK, CertTypeOK
      <3>2. entries \subseteq Certs
        BY <2>a, <3>1, SMTT(20) DEF PubRecord
      <3>3. me.pc = "build"
        BY <2>7, Zenon DEF BuildPage
      <3>4. /\ s \in PubRecord /\ s.pc = "store"
            /\ \A last \in Certs : r(last) \in PubRecord /\ r(last).pc = "build"
        <4> HIDE DEF entries
        <4> QED
          BY <2>a, <3>2, <3>3, CertStatusAssumption, Zenon DEF PubRecord
      <3>5. pub' = [pub EXCEPT ![p] = s] \/ \E last \in Certs : pub' = [pub EXCEPT ![p] = r(last)]
        BY <2>7, <3>1, Zenon DEF BuildPage
      <3> HIDE DEF r, s
      <3> QED
        BY <2>1, <2>7, <3>4, <3>5, PubType, Zenon DEF BuildPage
    <2>8. CASE StoreCrl(p)
      <3>1. BuiltCrl(p) \in CrlRecord
        BY <2>a, CrlPublisherAssumption, SMTT(20) DEF BuiltCrl, CrlRecord, PubRecord, NextUpdate
      <3>2. issuer' \in [status : {"Active", "Archived", "Destroyed"}, crlNumber : Nat]
        BY <2>8, <2>a, SMTT(20) DEF StoreCrl, TypeOK, PubRecord
      <3> QED
        BY <2>1, <2>8, <3>1, <3>2, FinishedType, SMTT(20) DEF StoreCrl, TypeOK, CertTypeOK
    <2>9. CASE StaleCrlNumber(p)
      <3> DEFINE r == [me EXCEPT !.pc = "reread"]
      <3>1. r \in PubRecord /\ r.pc = "reread"
        BY <2>a, SMTT(20) DEF PubRecord
      <3>2. pub' = [pub EXCEPT ![p] = r] \/ pub' = [pub EXCEPT ![p] = Finished(p)]
        BY <2>9, Zenon DEF StaleCrlNumber
      <3> HIDE DEF r
      <3> QED
        BY <2>1, <2>9, <3>1, <3>2, FinishedType, PubType, Zenon DEF StaleCrlNumber
    <2>10. CASE RereadIssuer(p)
      <3> DEFINE r == [me EXCEPT !.pc = "recheck", !.number = issuer.crlNumber]
      <3>1. r \in PubRecord /\ r.pc = "recheck"
        BY <2>a, Zenon DEF PubRecord
      <3>2. pub' = [pub EXCEPT ![p] = r] \/ pub' = [pub EXCEPT ![p] = Finished(p)]
        BY <2>10, Zenon DEF RereadIssuer
      <3> HIDE DEF r
      <3> QED
        BY <2>1, <2>10, <3>1, <3>2, FinishedType, PubType, Zenon DEF RereadIssuer
    <2>11. CASE RereadCrl(p)
      <3> DEFINE q == [me EXCEPT !.pc = "build", !.attempt = me.attempt + 1]
                 r == [q EXCEPT !.cursor = 0, !.entries = {}]
      <3>1. r \in PubRecord /\ r.pc = "build"
        <4>1. \A n \in Nat : LET u == [me EXCEPT !.pc = "build", !.attempt = n]
                             IN u \in PubRecord /\ u.pc = "build"
          BY <2>a, Zenon DEF PubRecord
        <4>2. me.attempt + 1 \in Nat
          BY <2>a, SMTT(20) DEF PubRecord
        <4>3. q \in PubRecord /\ q.pc = "build"
          BY <4>1, <4>2, Zenon
        <4> HIDE DEF q
        <4> QED
          BY <4>3, Zenon DEF PubRecord
      <3>2. pub' = [pub EXCEPT ![p] = r] \/ pub' = [pub EXCEPT ![p] = Finished(p)]
        BY <2>11, Zenon DEF RereadCrl
      <3> HIDE DEF r
      <3> QED
        BY <2>1, <2>11, <3>1, <3>2, FinishedType, PubType, Zenon DEF RereadCrl
    <2>12. CASE PublishFail(p)
      <3>1. NoPub \in PubRecord /\ NoPub.pc = "idle"
        BY SMTT(20) DEF NoPub, PubAt, PubRecord
      <3> QED
        BY <2>1, <2>12, <3>1, FinishedType, PubType, Zenon DEF PublishFail
    <2>13. CASE SetCrlNumber(p)
      <3> DEFINE r == [me EXCEPT !.pc = "insert"]
      <3>1. r \in PubRecord /\ r.pc = "insert"
        BY <2>a, SMTT(20) DEF PubRecord
      <3>2. pub' = [pub EXCEPT ![p] = r]
        BY <2>13, Zenon DEF SetCrlNumber
      <3> HIDE DEF r
      <3> QED
        BY <2>1, <2>13, <3>1, <3>2, PubType, Zenon DEF SetCrlNumber
    <2> QED
      BY <1>2, <2>2, <2>3, <2>4, <2>5, <2>6, <2>7, <2>8, <2>9, <2>10, <2>11, <2>12, <2>13, Zenon
      DEF PublisherNext
  <1>3. CASE UpdateIssuerStatus /\ UNCHANGED certVars
    BY <1>3, CertTypeStep, CrlPublisherAssumption, SMTT(20) DEF UpdateIssuerStatus, TypeOK
  <1>4. CASE UNCHANGED vars
    BY <1>4, CertTypeStep, SMTT(20) DEF vars, crlVars, TypeOK
  <1> QED
    BY <1>1, <1>2, <1>3, <1>4, Zenon DEF Next

\* Every reachable state of the tables and of the publishers has its type.
THEOREM TypeCorrect == Spec => []TypeOK
  BY TypeInit, TypeStep, PTL DEF Spec

-----------------------------------------------------------------------------
(* The inductive invariant *)

\* What a publisher knows.  A publisher whose number is behind the issuer's
\* will fail to store, so only one that has read the current number must
\* have, or be about to read, every entry the next CRL needs.
PubInv(r) ==
    /\ r.number <= issuer.crlNumber
    /\ r.now <= clock
    /\ r.pc = "publish" /\ r.number = issuer.crlNumber => r.current = crl.nextUpdate
    /\ r.pc \in {"build", "store", "insert"} /\ r.number = issuer.crlNumber =>
          /\ r.force \/ CrlDue(crl.nextUpdate, r.now)
          /\ \A c \in base : NotAfter[c] > clock =>
                c \in r.entries \/ (r.pc = "build" /\ c \in RevokedPast(r.cursor, r.now))
    /\ r.pc \in {"build", "store", "insert", "reread", "recheck"} => ~issuerExpired(r.now)
    /\ r.pc \in {"row", "publish"} => r.cursor = 0 /\ r.entries = {}
    /\ \A c \in r.entries : r.now < NotAfter[c] /\ (c \in revoked \/ status[c] = "Deleted")

\* The revocations of the last CRL are still on record while they matter.
BaseOnRecord == \A c \in base : NotAfter[c] > clock => c \in revoked

\* The stored CRL carries the issuer's number: both change in one commit.
NumberMatchesCrl == issuer.crlNumber = crl.number

\* The publisher that has updated the issuer row is the only one, and the
\* number it read is still the committed one: it holds the row.
RowHeld ==
    \A p \in Publishers : pub[p].pc = "insert" =>
        /\ pub[p].number = issuer.crlNumber
        /\ \A q \in Publishers : pub[q].pc = "insert" => q = p

CrlInv ==
    /\ TypeOK
    /\ CertInv
    /\ NumberMatchesCrl
    /\ EntriesAreRevoked
    /\ CrlWithinIssuer
    /\ BaseOnRecord
    /\ RowHeld
    /\ \A p \in Publishers : PubInv(pub[p])

LEMMA CrlInvInit == Init => CrlInv
  <1> SUFFICES ASSUME Init
               PROVE  CrlInv
    BY Zenon
  <1>1. TypeOK /\ CertInv
    BY TypeInit, CertInvInit, Zenon DEF Init
  <1>2. NumberMatchesCrl /\ EntriesAreRevoked /\ CrlWithinIssuer /\ BaseOnRecord
    BY Zenon DEF Init, NoCrl, NumberMatchesCrl, EntriesAreRevoked, CrlWithinIssuer, BaseOnRecord
  <1>3. ASSUME NEW p \in Publishers
        PROVE  PubInv(pub[p])
    BY SMTT(20) DEF Init, CertInit, NoPub, PubAt, PubInv
  <1>4. RowHeld
    BY Zenon DEF Init, NoPub, PubAt, RowHeld
  <1> QED
    BY <1>1, <1>2, <1>3, <1>4, Zenon DEF CrlInv

\* ORDER BY id DESC LIMIT k takes the highest rows: what it leaves is below
\* all of it.
LEMMA HighestIsAbove ==
  ASSUME NEW S \in SUBSET Nat, IsFiniteSet(S), NEW k \in Nat,
         NEW c \in S \ Highest(k, S), NEW d \in Highest(k, S)
  PROVE  c < d
  <1> DEFINE Above(x) == {e \in S : e > x}
  <1>1. IsFiniteSet(Above(c)) /\ IsFiniteSet(Above(d))
    BY FS_Subset, Zenon
  <1>2. Cardinality(Above(c)) \in Nat /\ Cardinality(Above(d)) \in Nat
    BY <1>1, FS_CardinalityType, Zenon
  <1>3. d \in S /\ Cardinality(Above(d)) < k /\ ~(Cardinality(Above(c)) < k)
    BY Zenon DEF Highest
  <1>4. ASSUME c > d
        PROVE  FALSE
    <2>1. Above(c) \subseteq Above(d)
      <3>1. \A e \in S : e > c => e > d
        BY <1>3, <1>4
      <3> QED
        BY <3>1, Zenon
    <2>2. Cardinality(Above(c)) <= Cardinality(Above(d))
      BY <1>1, <2>1, FS_Subset, Zenon
    <2> HIDE DEF Above
    <2> QED
      BY <1>2, <1>3, <2>2
  <1>5. c # d
    BY Zenon
  <1> QED
    BY <1>3, <1>4, <1>5

\* A revocation stays on record while its certificate is valid, and what is
\* no longer on record was deleted.
LEMMA RevocationStays ==
  ASSUME CertInv, [CertNext]_certVars, NEW c \in Certs
  PROVE  /\ c \in revoked /\ NotAfter[c] > clock => c \in revoked'
         /\ c \in revoked \/ status[c] = "Deleted" => c \in revoked' \/ status'[c] = "Deleted"
  <1>1. CertInv'
    BY CertInvStep, Zenon
  <1>3. c \in revoked => c \in revoked' \/ (status'[c] = "Deleted" /\ NotAfter[c] + Retention < clock)
    BY <1>1, FinalStep, Zenon DEF CertInv, StatusMatchesRevocation
  <1>4. NotAfter[c] > clock => ~(NotAfter[c] + Retention < clock)
    BY CertStatusAssumption, SMTT(20) DEF CertInv, CertTypeOK
  <1>5. status[c] = "Deleted" => status'[c] = "Deleted"
    BY GoneForGood, Zenon
  <1> QED
    BY <1>3, <1>4, <1>5, Zenon

\* Steps of the tables keep what the publishers know.
LEMMA CertStep ==
  ASSUME CrlInv, [CertNext]_certVars, UNCHANGED crlVars
  PROVE  CrlInv'
  <1> USE DEF CrlInv
  <1>1. TypeOK' /\ CertInv'
    BY CertTypeStep, CertInvStep, SMTT(20) DEF TypeOK, crlVars
  <1>2. base \subseteq Certs /\ crl.entries \subseteq Certs
    BY SMTT(20) DEF TypeOK, CrlRecord
  <1>3. clock \in Nat /\ clock' \in Nat /\ clock <= clock'
    BY ClockGrows, SMTT(20) DEF CertInv, CertTypeOK
  <1>4. NumberMatchesCrl' /\ CrlWithinIssuer' /\ RowHeld'
    BY Zenon DEF NumberMatchesCrl, CrlWithinIssuer, RowHeld, crlVars, NoCrl
  <1>5. EntriesAreRevoked'
    BY <1>2, RevocationStays, Zenon DEF EntriesAreRevoked, crlVars
  <1>6. \A c \in Certs : NotAfter[c] > clock' => NotAfter[c] > clock
    BY <1>3, CertStatusAssumption
  <1>7. BaseOnRecord'
    BY <1>2, <1>6, RevocationStays, Zenon DEF BaseOnRecord, crlVars
  <1>8. ASSUME NEW p \in Publishers
        PROVE  PubInv(pub[p])'
    <2>a. PICK r \in PubRecord : r = pub[p]
      BY <1>8, SMTT(20) DEF TypeOK
    <2>1. r \in PubRecord /\ PubInv(r) /\ pub'[p] = r
      BY <1>8, <2>a, Zenon DEF crlVars
    <2>2. r.number \in Nat /\ r.now \in Nat /\ r.entries \subseteq Certs
      BY <2>1, Zenon DEF PubRecord
    <2>3. r.number <= issuer'.crlNumber /\ r.now <= clock'
      BY <1>3, <2>1, <2>2, SMTT(20) DEF PubInv, crlVars
    <2>4. ASSUME NEW c \in base', NotAfter[c] > clock',
                 r.pc \in {"build", "store", "insert"}, r.number = issuer'.crlNumber
          PROVE  c \in r.entries \/ (r.pc = "build" /\ c \in RevokedPast(r.cursor, r.now)')
      <3>1. c \in Certs /\ c \in base /\ NotAfter[c] > clock
        BY <1>2, <1>6, <2>4, Zenon DEF crlVars
      <3>2. c \in r.entries \/ (r.pc = "build" /\ c \in RevokedPast(r.cursor, r.now))
        BY <2>1, <2>4, <3>1, SMTT(20) DEF PubInv, crlVars
      <3>3. c \in revoked => c \in revoked'
        BY <3>1, RevocationStays, Zenon
      <3> QED
        BY <2>1, <3>2, <3>3, SMTT(20) DEF RevokedPast
    <2>5. \A c \in r.entries :
             r.now < NotAfter[c] /\ (c \in revoked' \/ status'[c] = "Deleted")
      BY <2>1, <2>2, RevocationStays, ZenonT(30) DEF PubInv
    <2>6. /\ r.pc = "publish" /\ r.number = issuer'.crlNumber => r.current = crl'.nextUpdate
          /\ r.pc \in {"build", "store", "insert"} /\ r.number = issuer'.crlNumber =>
                r.force \/ CrlDue(crl'.nextUpdate, r.now)
          /\ r.pc \in {"build", "store", "insert", "reread", "recheck"} => ~issuerExpired(r.now)
          /\ r.pc \in {"row", "publish"} => r.cursor = 0 /\ r.entries = {}
      BY <2>1, SMTT(20) DEF PubInv, crlVars
    <2> QED
      BY <2>1, <2>3, <2>4, <2>5, <2>6, SMTT(20) DEF PubInv, CrlDue, issuerExpired
  <1> QED
    BY <1>1, <1>4, <1>5, <1>7, <1>8, Zenon

\* What a publisher does without storing a CRL leaves the others alone.
LEMMA PubStep ==
  ASSUME CrlInv, TypeOK', NEW p \in Publishers, NEW r,
         pub' = [pub EXCEPT ![p] = r], PubInv(r),
         r.pc = "insert" => /\ r.number = issuer.crlNumber
                            /\ \A q \in Publishers : pub[q].pc # "insert",
         UNCHANGED <<issuer, crl, base>>, UNCHANGED certVars
  PROVE  CrlInv'
  <1> USE DEF CrlInv
  <1>1. CertInv'
    BY CertInvStep, Zenon
  <1>2. NumberMatchesCrl' /\ CrlWithinIssuer' /\ EntriesAreRevoked' /\ BaseOnRecord'
    BY Zenon DEF NumberMatchesCrl, CrlWithinIssuer, EntriesAreRevoked, BaseOnRecord, certVars, NoCrl
  <1>3. ASSUME NEW q \in Publishers
        PROVE  PubInv(pub[q])'
    <2>1. PubInv(pub'[q])
      BY SMTT(20) DEF TypeOK
    <2> QED
      BY <2>1, Zenon DEF PubInv, certVars, RevokedPast
  <1>4. \A q \in Publishers : pub'[q] = IF q = p THEN r ELSE pub[q]
    BY Zenon DEF TypeOK
  <1>5. RowHeld'
    <2>1. RowHeld /\ issuer'.crlNumber = issuer.crlNumber
      BY Zenon
    <2> SUFFICES ASSUME NEW q \in Publishers, pub'[q].pc = "insert"
                 PROVE  /\ pub'[q].number = issuer.crlNumber
                        /\ \A o \in Publishers : pub'[o].pc = "insert" => o = q
      BY <2>1, Zenon DEF RowHeld
    <2>2. CASE q = p
      BY <1>4, <2>2, Zenon
    <2>3. CASE q # p
      <3>1. pub[q].pc = "insert" /\ pub'[q] = pub[q] /\ r.pc # "insert" /\ pub'[p] = r
        BY <1>4, <2>3, Zenon
      <3> QED
        BY <1>4, <2>1, <2>3, <3>1, Zenon DEF RowHeld
    <2> QED
      BY <2>2, <2>3, Zenon
  <1> QED
    BY <1>1, <1>2, <1>3, <1>5, Zenon

\* A publisher that has read no time and no entries yet.
LEMMA FreshInv ==
  ASSUME NEW r, r.pc \in {"idle", "list", "row"}, r.number <= issuer.crlNumber,
         r.now <= clock, r.cursor = 0, r.entries = {}
  PROVE  PubInv(r)
  <1>1. r.pc # "publish" /\ r.pc \notin {"build", "store", "insert", "reread", "recheck"}
    BY Zenon
  <1>2. r.pc \notin {"build", "store", "insert"}
    BY <1>1, Zenon
  <1> QED
    BY <1>1, <1>2, Zenon DEF PubInv

LEMMA PubAtInv ==
  ASSUME TypeOK, NEW pc \in {"idle", "list", "row"}, NEW pass, NEW force,
         NEW n \in {0, issuer.crlNumber}
  PROVE  PubInv(PubAt(pc, pass, force, n))
  <1>1. clock \in Nat /\ issuer.crlNumber \in Nat
    BY SMTT(20) DEF TypeOK, CertTypeOK
  <1>2. PICK r : r = PubAt(pc, pass, force, n)
    BY Zenon
  <1>3. r.pc = pc /\ r.number = n /\ r.now = 0 /\ r.cursor = 0 /\ r.entries = {}
    BY <1>2, Zenon DEF PubAt
  <1>4. r.number <= issuer.crlNumber /\ r.now <= clock
    BY <1>1, <1>3
  <1>5. PubInv(r)
    BY <1>3, <1>4, FreshInv
  <1> QED
    BY <1>2, <1>5, Zenon

LEMMA FinishedInv ==
  ASSUME TypeOK, NEW p \in Publishers
  PROVE  PubInv(Finished(p)) /\ PubInv(NoPub)
  <1>1. PubInv(NoPub)
    BY PubAtInv, Zenon DEF NoPub
  <1>2. PubInv(PubAt("list", 2, pub[p].force, 0))
    BY PubAtInv, Zenon
  <1> QED
    BY <1>1, <1>2, Zenon DEF Finished

\* A page takes the highest entries, so the ones that are left lie past the
\* cursor the next page starts from.
LEMMA BuildPageInv ==
  ASSUME CrlInv, NEW p \in Publishers, BuildPage(p)
  PROVE  \E r \in PubRecord : pub' = [pub EXCEPT ![p] = r] /\ PubInv(r) /\ r.pc # "insert"
  <1> DEFINE me == pub[p]
             rows == RevokedPast(me.cursor, me.now)
             page == Highest(PageSize, rows)
             entries == me.entries \cup page
  <1>1. PubInv(me) /\ me \in PubRecord /\ me.pc = "build" /\ TypeOK
    BY Zenon DEF CrlInv, TypeOK, BuildPage
  <1>2. rows \in SUBSET Nat /\ IsFiniteSet(rows) /\ rows \subseteq revoked /\ rows \subseteq Certs
    BY <1>1, CertStatusAssumption, FS_Subset, Zenon DEF RevokedPast, TypeOK, CertTypeOK
  <1>3. page \subseteq rows
    BY HighestIsSubset, Zenon
  <1>4. entries \subseteq Certs
    BY <1>1, <1>2, <1>3, Zenon DEF PubRecord
  <1>5. \A c \in entries : me.now < NotAfter[c] /\ (c \in revoked \/ status[c] = "Deleted")
    <2>1. \A c \in page : me.now < NotAfter[c] /\ c \in revoked
      BY <1>1, <1>2, <1>3, CertStatusAssumption, SMTT(20) DEF RevokedPast, PubRecord
    <2> QED
      BY <1>1, <2>1, ZenonT(30) DEF PubInv
  <1>6. ASSUME page = rows, pub' = [pub EXCEPT ![p] = [me EXCEPT !.pc = "store", !.entries = entries]]
        PROVE  \E r \in PubRecord : pub' = [pub EXCEPT ![p] = r] /\ PubInv(r) /\ r.pc # "insert"
    <2>1. PICK r : r = [me EXCEPT !.pc = "store", !.entries = entries]
      BY Zenon
    <2>2. /\ r \in PubRecord /\ r.pc = "store" /\ r.entries = entries
          /\ r.number = me.number /\ r.now = me.now /\ r.force = me.force
      <3> HIDE DEF entries
      <3> QED
        BY <1>1, <1>4, <2>1, Zenon DEF PubRecord
    <2>3. me.number = issuer.crlNumber => \A c \in base : NotAfter[c] > clock => c \in entries
      BY <1>1, <1>6, ZenonT(30) DEF PubInv
    <2> HIDE DEF me, entries
    <2>4. PubInv(r)
      BY <1>1, <1>5, <2>2, <2>3, SMTT(20) DEF PubInv
    <2> QED
      BY <1>6, <2>1, <2>2, <2>4, Zenon
  <1>7. ASSUME NEW last \in page,
               pub' = [pub EXCEPT ![p] = [me EXCEPT !.cursor = last, !.entries = entries]]
        PROVE  \E r \in PubRecord : pub' = [pub EXCEPT ![p] = r] /\ PubInv(r) /\ r.pc # "insert"
    <2>1. PICK r : r = [me EXCEPT !.cursor = last, !.entries = entries]
      BY Zenon
    <2>a. last \in Nat
      BY <1>2, <1>3, Zenon
    <2>2. /\ r \in PubRecord /\ r.pc = "build" /\ r.entries = entries /\ r.cursor = last
          /\ r.number = me.number /\ r.now = me.now /\ r.force = me.force
      <3> HIDE DEF entries
      <3> QED
        BY <1>1, <1>4, <2>1, <2>a, Zenon DEF PubRecord
    <2>3. ASSUME NEW c \in rows, c \notin page
          PROVE  c \in RevokedPast(last, me.now)
      <3>1. c < last
        BY <1>2, <2>3, CrlPublisherAssumption, HighestIsAbove, Zenon
      <3> QED
        BY <3>1, SMTT(20) DEF RevokedPast
    <2>4. me.number = issuer.crlNumber =>
              \A c \in base : NotAfter[c] > clock => c \in entries \/ c \in RevokedPast(last, me.now)
      BY <1>1, <2>3, Zenon DEF PubInv
    <2> HIDE DEF me, entries
    <2>5. PubInv(r)
      BY <1>1, <1>5, <2>2, <2>4, SMTT(20) DEF PubInv
    <2> QED
      BY <1>7, <2>1, <2>2, <2>5, Zenon
  <1> QED
    BY <1>6, <1>7, Zenon DEF BuildPage

\* A publisher whose number is overtaken has nothing left to promise.
LEMMA OvertakenInv ==
  ASSUME NEW r, r.number \in Nat, issuer.crlNumber \in Nat, PubInv(r),
         issuer'.crlNumber = issuer.crlNumber + 1, UNCHANGED certVars
  PROVE  PubInv(r)'
  <1>1. r.number <= issuer.crlNumber /\ r.now <= clock
    BY SMTT(20) DEF PubInv
  <1>2. r.number <= issuer'.crlNumber /\ r.number # issuer'.crlNumber
    BY <1>1
  <1>3. r.now <= clock'
    BY <1>1, Zenon DEF certVars
  <1>4. /\ r.pc \in {"build", "store", "insert", "reread", "recheck"} => ~issuerExpired(r.now)
        /\ r.pc \in {"row", "publish"} => r.cursor = 0 /\ r.entries = {}
    BY Zenon DEF PubInv
  <1>5. \A c \in r.entries : r.now < NotAfter[c] /\ (c \in revoked' \/ status'[c] = "Deleted")
    BY Zenon DEF PubInv, certVars
  <1> QED
    BY <1>2, <1>3, <1>4, <1>5, Zenon DEF PubInv, issuerExpired

\* The CRL that is stored was built from the number it follows.
LEMMA StoreStep ==
  ASSUME CrlInv, TypeOK', NEW p \in Publishers, StoreCrl(p), UNCHANGED certVars
  PROVE  /\ CrlInv'
         /\ pub[p].number = issuer.crlNumber
         /\ crl'.number = crl.number + 1
         /\ \A c \in base : NotAfter[c] > clock => c \in crl'.entries
         /\ pub[p].force \/ CrlDue(crl.nextUpdate, pub[p].now)
         /\ \A q \in Publishers : q # p => pub'[q] = pub[q]
  <1> DEFINE me == pub[p]
  <1>a. TypeOK /\ CertInv /\ NumberMatchesCrl /\ RowHeld /\ \A q \in Publishers : PubInv(pub[q])
    BY Zenon DEF CrlInv
  <1>1. PubInv(me) /\ me \in PubRecord /\ me.pc = "insert"
    BY <1>a, SMTT(20) DEF TypeOK, StoreCrl
  <1>2. issuer.crlNumber \in Nat /\ me.number \in Nat /\ me.now \in Nat /\ clock \in Nat
    BY <1>a, <1>1, SMTT(20) DEF TypeOK, PubRecord, CertTypeOK
  <1>3. me.number = issuer.crlNumber
    BY <1>a, <1>1, Zenon DEF RowHeld
  <1>4. /\ issuer'.crlNumber = issuer.crlNumber + 1
        /\ crl' = BuiltCrl(p)
        /\ pub' = [pub EXCEPT ![p] = Finished(p)]
        /\ base' = revoked
    BY <1>a, <1>3, SMTT(20) DEF StoreCrl, TypeOK
  <1>b. 0 <= issuer'.crlNumber /\ 0 <= clock'
    <2>1. issuer'.crlNumber = issuer.crlNumber + 1
      BY <1>4, Zenon
    <2>2. clock' = clock
      BY Zenon DEF certVars
    <2> QED
      BY <1>2, <2>1, <2>2, SMTT(20)
  <1>5. /\ crl'.number = me.number + 1 /\ crl'.thisUpdate = me.now
        /\ crl'.nextUpdate = NextUpdate(me.now) /\ crl'.entries = me.entries
    BY <1>4, Zenon DEF BuiltCrl
  <1>6. CertInv'
    BY <1>a, CertInvStep, Zenon
  <1>7. NumberMatchesCrl'
    BY <1>a, <1>3, <1>4, <1>5, Zenon DEF NumberMatchesCrl
  <1>8. EntriesAreRevoked'
    BY <1>1, <1>5, ZenonT(30) DEF EntriesAreRevoked, PubInv, certVars
  <1>9. CrlWithinIssuer'
    BY <1>1, <1>2, <1>5, CrlPublisherAssumption
    DEF CrlWithinIssuer, PubInv, NextUpdate, issuerExpired
  <1>10. BaseOnRecord'
    BY <1>4, Zenon DEF BaseOnRecord, certVars
  <1>11. ASSUME NEW q \in Publishers
         PROVE  PubInv(pub[q])'
    <2>1. PICK r \in PubRecord : r = pub'[q]
      BY <1>11, SMTT(20) DEF TypeOK
    <2>2. CASE q = p
      <3>1. r = Finished(p)
        BY <1>a, <1>4, <2>1, <2>2, SMTT(20) DEF TypeOK
      <3>2. r.pc \in {"idle", "list"} /\ r.number = 0 /\ r.now = 0 /\ r.entries = {}
        BY <1>a, <3>1, FinishedType, Zenon
      <3>3. r.number <= issuer'.crlNumber /\ r.now <= clock'
        BY <1>b, <3>2, Zenon
      <3>4. /\ r.pc # "publish" /\ r.pc \notin {"row", "publish"}
            /\ r.pc \notin {"build", "store", "insert"} /\ r.pc \notin {"build", "store", "insert", "reread", "recheck"}
        BY <3>2, Zenon
      <3> QED
        BY <2>1, <3>2, <3>3, <3>4, Zenon DEF PubInv
    <2>3. CASE q # p
      <3>1. r = pub[q] /\ PubInv(r)
        BY <1>a, <1>4, <1>11, <2>1, <2>3, Zenon DEF TypeOK
      <3>2. r.number \in Nat
        BY <2>1, SMTT(20) DEF PubRecord
      <3>3. PubInv(r)'
        BY <1>2, <1>4, <3>1, <3>2, OvertakenInv, Zenon
      <3> QED
        BY <2>1, <3>3, Zenon DEF PubInv
    <2> QED
      BY <2>2, <2>3, Zenon
  <1>12. \A c \in base : NotAfter[c] > clock => c \in crl'.entries
    BY <1>1, <1>3, <1>5, Zenon DEF PubInv
  <1>13. me.force \/ CrlDue(crl.nextUpdate, me.now)
    BY <1>1, <1>3, Zenon DEF PubInv
  <1>14. crl'.number = crl.number + 1
    BY <1>a, <1>3, <1>5, Zenon DEF NumberMatchesCrl
  <1>15. \A q \in Publishers : q # p => pub'[q] = pub[q]
    BY <1>a, <1>4, SMTT(20) DEF TypeOK
  <1>16. RowHeld'
    <2>1. \A q \in Publishers : pub'[q] = IF q = p THEN Finished(p) ELSE pub[q]
      BY <1>a, <1>4, Zenon DEF TypeOK
    <2>2. Finished(p).pc # "insert" /\ \A q \in Publishers : q # p => pub[q].pc # "insert"
      BY <1>a, <1>1, FinishedType, Zenon DEF RowHeld
    <2> QED
      BY <2>1, <2>2, Zenon DEF RowHeld
  <1> QED
    BY <1>3, <1>6, <1>7, <1>8, <1>9, <1>10, <1>11, <1>12, <1>13, <1>14, <1>15, <1>16, Zenon DEF CrlInv

LEMMA PublisherStep ==
  ASSUME CrlInv, TypeOK', NEW p \in Publishers, PublisherNext(p), UNCHANGED certVars
  PROVE  CrlInv'
  <1> DEFINE me == pub[p]
  <1>1. PubInv(me) /\ me \in PubRecord /\ TypeOK
    BY ZenonT(30) DEF CrlInv, TypeOK
  <1>2. /\ issuer.crlNumber \in Nat /\ clock \in Nat /\ me.number \in Nat /\ me.now \in Nat
        /\ me.cursor \in Nat /\ base \subseteq Certs
    BY <1>1, SMTT(20) DEF TypeOK, CertTypeOK, PubRecord
  <1>3. /\ PubInv(Finished(p)) /\ Finished(p).pc # "insert"
        /\ PubInv(NoPub) /\ NoPub.pc # "insert"
    BY <1>1, FinishedInv, FinishedType, Zenon DEF NoPub, PubAt
  <1>4. ASSUME NEW pc \in {"list", "row"}, NEW pass, NEW force, NEW n \in {0, issuer.crlNumber}
        PROVE  PubInv(PubAt(pc, pass, force, n)) /\ PubAt(pc, pass, force, n).pc # "insert"
    <2>1. PubAt(pc, pass, force, n).pc = pc
      BY Zenon DEF PubAt
    <2> QED
      BY <1>1, <2>1, PubAtInv, Zenon
  <1>5. CASE StartRun(p)
    BY <1>4, <1>5, PubStep, Zenon DEF StartRun
  <1>6. CASE ListIssuers(p)
    BY <1>3, <1>4, <1>6, PubStep, Zenon DEF ListIssuers
  <1>7. CASE GetIssuerBySKID(p)
    <2>1. PICK force : pub' = [pub EXCEPT ![p] = PubAt("row", 0, force, issuer.crlNumber)]
      BY <1>7, Zenon DEF GetIssuerBySKID
    <2>2. /\ PubInv(PubAt("row", 0, force, issuer.crlNumber))
          /\ PubAt("row", 0, force, issuer.crlNumber).pc # "insert"
      BY <1>4, Zenon
    <2> QED
      BY <1>7, <2>1, <2>2, PubStep, Zenon DEF GetIssuerBySKID
  <1>8. CASE CurrentCrl(p)
    <2>1. PICK r : r = [me EXCEPT !.pc = "publish", !.current = crl.nextUpdate]
      BY Zenon
    <2>2. r.pc = "publish" /\ r.current = crl.nextUpdate /\ r.number = me.number
          /\ r.now = me.now /\ r.entries = me.entries /\ r.cursor = me.cursor
      BY <1>1, <2>1, SMTT(20) DEF PubRecord
    <2>3. PubInv(r)
      BY <1>1, <1>8, <2>2, SMTT(20) DEF PubInv, CurrentCrl
    <2> QED
      BY <1>8, <2>1, <2>2, <2>3, PubStep, Zenon DEF CurrentCrl
  <1>9. CASE Publish(p)
    <2>1. PICK r : r = [me EXCEPT !.pc = "build", !.now = clock, !.attempt = 1]
      BY Zenon
    <2>2. ASSUME ~issuerExpired(clock), me.force \/ CrlDue(me.current, clock)
          PROVE  PubInv(r) /\ r.pc # "insert"
      <3>1. r.pc = "build" /\ r.now = clock /\ r.number = me.number /\ r.force = me.force
            /\ r.entries = me.entries /\ r.cursor = me.cursor
        BY <1>1, <2>1, SMTT(20) DEF PubRecord
      <3>2. me.pc = "publish" /\ me.entries = {} /\ me.cursor = 0
        BY <1>1, <1>9, SMTT(20) DEF Publish, PubInv
      <3>3. \A c \in base : NotAfter[c] > clock => c \in RevokedPast(0, clock)
        BY Zenon DEF CrlInv, BaseOnRecord, RevokedPast
      <3>4. r.number <= issuer.crlNumber /\ r.now <= clock
        <4>1. me.number <= issuer.crlNumber
          BY <1>1, Zenon DEF PubInv
        <4> QED
          BY <1>2, <3>1, <4>1
      <3>5. r.number = issuer.crlNumber => me.current = crl.nextUpdate
        BY <1>1, <3>1, <3>2, Zenon DEF PubInv
      <3>6. r.number = issuer.crlNumber => r.force \/ CrlDue(crl.nextUpdate, r.now)
        BY <2>2, <3>1, <3>5, Zenon
      <3> QED
        BY <2>2, <3>1, <3>2, <3>3, <3>4, <3>6, SMTT(20) DEF PubInv
    <2> QED
      BY <1>3, <1>9, <2>1, <2>2, PubStep, Zenon DEF Publish
  <1>10. CASE BuildPage(p)
    BY <1>10, BuildPageInv, PubStep, Zenon DEF BuildPage
  <1>11. CASE StoreCrl(p)
    BY <1>11, StoreStep, Zenon
  <1>12. CASE StaleCrlNumber(p)
    <2>1. PICK r : r = [me EXCEPT !.pc = "reread"]
      BY Zenon
    <2>2. r.pc = "reread" /\ r.number = me.number /\ r.now = me.now /\ r.entries = me.entries
      BY <1>1, <2>1, SMTT(20) DEF PubRecord
    <2>3. me.pc = "store"
      BY <1>12, Zenon DEF StaleCrlNumber
    <2>4. PubInv(r)
      BY <1>1, <2>2, <2>3, SMTT(20) DEF PubInv
    <2> QED
      BY <1>3, <1>12, <2>1, <2>2, <2>4, PubStep, Zenon DEF StaleCrlNumber
  <1>13. CASE RereadIssuer(p)
    <2>1. PICK r : r = [me EXCEPT !.pc = "recheck", !.number = issuer.crlNumber]
      BY Zenon
    <2>2. r.pc = "recheck" /\ r.number = issuer.crlNumber /\ r.now = me.now /\ r.entries = me.entries
      BY <1>1, <2>1, SMTT(20) DEF PubRecord
    <2>3. me.pc = "reread"
      BY <1>13, Zenon DEF RereadIssuer
    <2>4. PubInv(r)
      BY <1>1, <1>2, <2>2, <2>3, SMTT(20) DEF PubInv
    <2> QED
      BY <1>3, <1>13, <2>1, <2>2, <2>4, PubStep, Zenon DEF RereadIssuer
  <1>14. CASE RereadCrl(p)
    <2>1. PICK r : r = [me EXCEPT !.pc = "build", !.attempt = me.attempt + 1,
                                  !.cursor = 0, !.entries = {}]
      BY Zenon
    <2>2. r.pc = "build" /\ r.number = me.number /\ r.now = me.now /\ r.entries = {}
          /\ r.cursor = 0 /\ r.force = me.force
      BY <1>1, <2>1, SMTT(20) DEF PubRecord
    <2>3. me.pc = "recheck"
      BY <1>14, Zenon DEF RereadCrl
    <2>4. \A c \in base : NotAfter[c] > clock => c \in RevokedPast(0, me.now)
      <3>1. me.now <= clock
        BY <1>1, SMTT(20) DEF PubInv
      <3>2. \A c \in base : NotAfter[c] > clock => c \in revoked
        BY Zenon DEF CrlInv, BaseOnRecord
      <3>3. \A c \in base : NotAfter[c] \in Nat
        BY <1>2, CertStatusAssumption, ZenonT(30)
      <3>4. \A c \in base : NotAfter[c] > clock => NotAfter[c] > me.now
        <4>1. SUFFICES ASSUME NEW c \in base, NotAfter[c] > clock
                       PROVE  NotAfter[c] > me.now
          BY Zenon
        <4>2. NotAfter[c] \in Nat /\ clock \in Nat /\ me.now \in Nat
          BY <1>2, <3>3, Zenon
        <4> HIDE DEF me
        <4> QED
          BY <3>1, <4>1, <4>2
      <3> QED
        BY <3>2, <3>4, Zenon DEF RevokedPast
    <2>5. ASSUME me.force \/ CrlDue(crl.nextUpdate, me.now)
          PROVE  PubInv(r)
      BY <1>1, <2>2, <2>3, <2>4, <2>5, SMTT(20) DEF PubInv
    <2> QED
      BY <1>3, <1>14, <2>1, <2>2, <2>5, PubStep, Zenon DEF RereadCrl
  <1>15. CASE PublishFail(p)
    BY <1>3, <1>15, PubStep, Zenon DEF PublishFail
  <1>16. CASE SetCrlNumber(p)
    <2>1. PICK r : r = [me EXCEPT !.pc = "insert"]
      BY Zenon
    <2>2. /\ r.pc = "insert" /\ r.number = me.number /\ r.now = me.now
          /\ r.entries = me.entries /\ r.force = me.force
      BY <1>1, <2>1, SMTT(20) DEF PubRecord
    <2>3. me.pc = "store" /\ \A q \in Publishers : pub[q].pc # "insert"
      BY <1>16, Zenon DEF SetCrlNumber, IssuerLocked
    <2>4. me.number = issuer.crlNumber
      BY <1>1, <1>2, <1>16, SMTT(20) DEF PubInv, SetCrlNumber, NumberIsGreater
    <2>5. PubInv(r)
      BY <1>1, <2>2, <2>3, SMTT(20) DEF PubInv
    <2>6. pub' = [pub EXCEPT ![p] = r] /\ UNCHANGED <<issuer, crl, base>>
      BY <1>16, <2>1, Zenon DEF SetCrlNumber
    <2> QED
      BY <2>2, <2>3, <2>4, <2>5, <2>6, PubStep, Zenon
  <1> QED
    BY <1>5, <1>6, <1>7, <1>8, <1>9, <1>10, <1>11, <1>12, <1>13, <1>14, <1>15, <1>16,
       Zenon DEF PublisherNext

LEMMA CrlInvStep == CrlInv /\ [Next]_vars => CrlInv'
  <1> SUFFICES ASSUME CrlInv, [Next]_vars
               PROVE  CrlInv'
    BY Zenon
  <1>1. TypeOK'
    BY TypeStep, Zenon DEF CrlInv
  <1>2. CASE CertNext /\ UNCHANGED crlVars
    BY <1>2, CertStep, Zenon
  <1>3. ASSUME NEW p \in Publishers, PublisherNext(p), UNCHANGED certVars
        PROVE  CrlInv'
    BY <1>1, <1>3, PublisherStep, Zenon
  <1>4. CASE UpdateIssuerStatus /\ UNCHANGED certVars
    <2>1. issuer'.crlNumber = issuer.crlNumber
      BY <1>4, SMTT(20) DEF UpdateIssuerStatus, CrlInv, TypeOK
    <2>2. CertInv'
      BY <1>4, CertInvStep, Zenon DEF CrlInv
    <2>3. NumberMatchesCrl' /\ CrlWithinIssuer' /\ EntriesAreRevoked' /\ BaseOnRecord'
      BY <1>4, <2>1, Zenon DEF CrlInv, UpdateIssuerStatus, NumberMatchesCrl, CrlWithinIssuer,
         EntriesAreRevoked, BaseOnRecord, certVars, NoCrl
    <2>4. ASSUME NEW q \in Publishers
          PROVE  PubInv(pub[q])'
      BY <1>4, <2>1, SMTT(20) DEF CrlInv, UpdateIssuerStatus, PubInv, certVars, RevokedPast
    <2>5. RowHeld'
      BY <1>4, <2>1, Zenon DEF CrlInv, UpdateIssuerStatus, RowHeld
    <2> QED
      BY <1>1, <2>2, <2>3, <2>4, <2>5, Zenon DEF CrlInv
  <1>5. CASE UNCHANGED vars
    BY <1>5, CertStep, Zenon DEF vars
  <1> QED
    BY <1>2, <1>3, <1>4, <1>5, Zenon DEF Next

LEMMA CrlInvCorrect == Spec => []CrlInv
  BY CrlInvInit, CrlInvStep, PTL DEF Spec

-----------------------------------------------------------------------------
(* The theorems *)

\* Every entry of the CRL is a revocation of a certificate that was valid
\* when the CRL was signed.
THEOREM EntriesAreRevokedCorrect == Spec => []EntriesAreRevoked
  BY CrlInvCorrect, PTL DEF CrlInv

\* buildCrl never signs a CRL that outlives the issuer or is born expired.
THEOREM CrlWithinIssuerCorrect == Spec => []CrlWithinIssuer
  BY CrlInvCorrect, PTL DEF CrlInv

\* Only StoreCrl changes the CRL.
LEMMA OnlyStoreCrl ==
  ASSUME CrlInv, [Next]_vars, crl' # crl
  PROVE  \E p \in Publishers : StoreCrl(p) /\ UNCHANGED certVars
  BY Zenon DEF Next, vars, crlVars, PublisherNext, StartRun, ListIssuers, GetIssuerBySKID, CurrentCrl,
     Publish, BuildPage, SetCrlNumber, StaleCrlNumber, RereadIssuer, RereadCrl, PublishFail, UpdateIssuerStatus

\* The CRL numbers of an issuer have no gap, whatever the race and wherever
\* in its transaction a publisher fails.
THEOREM NumbersAreConsecutiveCorrect == Spec => NumbersAreConsecutive
  <1>1. CrlInv /\ [Next]_vars => [crl' # crl => crl'.number = crl.number + 1]_vars
    BY OnlyStoreCrl, StoreStep, TypeStep, Zenon DEF CrlInv
  <1> QED
    BY <1>1, CrlInvCorrect, PTL DEF Spec, NumbersAreConsecutive

\* A CRL lists every valid revocation on record when its predecessor was
\* stored.
THEOREM CrlCatchesUpCorrect == Spec => CrlCatchesUp
  <1>1. CrlInv /\ [Next]_vars =>
            [crl' # crl => \A c \in base : NotAfter[c] > clock => c \in crl'.entries]_vars
    BY OnlyStoreCrl, StoreStep, TypeStep, Zenon DEF CrlInv
  <1> QED
    BY <1>1, CrlInvCorrect, PTL DEF Spec, CrlCatchesUp

\* A publisher that is not forced only replaces a CRL that was due.
THEOREM NoNeedlessCrlCorrect == Spec => NoNeedlessCrl
  <1>1. ASSUME CrlInv, [Next]_vars, NEW p \in Publishers,
               pub[p].pc = "insert", ~pub[p].force, crl' # crl, pub'[p] # pub[p]
        PROVE  CrlDue(crl.nextUpdate, pub[p].now)
    <2>1. TypeOK'
      BY <1>1, TypeStep, Zenon DEF CrlInv
    <2>2. PICK q \in Publishers : StoreCrl(q) /\ UNCHANGED certVars
      BY <1>1, OnlyStoreCrl, Zenon
    <2> QED
      BY <1>1, <2>1, <2>2, StoreStep, Zenon
  <1>2. CrlInv /\ [Next]_vars =>
            [\A p \in Publishers :
                pub[p].pc = "insert" /\ ~pub[p].force /\ crl' # crl /\ pub'[p] # pub[p] =>
                    CrlDue(crl.nextUpdate, pub[p].now)]_vars
    BY <1>1, Zenon
  <1> QED
    BY <1>2, CrlInvCorrect, PTL DEF Spec, NoNeedlessCrl

-----------------------------------------------------------------------------
(* Refinement *)

Gone == {c \in Certs : status[c] = "Deleted"}

\* A step of the requests, of the task or of time is a step of the record, or
\* none: a commit records a revocation, a batch of the retention retires.
LEMMA CertLogStep ==
  ASSUME CertInv, [CertNext]_certVars, UNCHANGED crlVars
  PROVE  [Log!Next]_(Log!logVars)
  <1>a. UNCHANGED <<crl, crl.number, crl.entries, base>>
    BY Zenon DEF crlVars
  <1>b. CertTypeOK /\ StatusMatchesRevocation /\ RevocationOwnsRow /\ RunsOnTime
    BY Zenon DEF CertInv
  <1>c. ASSUME UNCHANGED <<clock, revoked, Gone>>
        PROVE  UNCHANGED Log!logVars
    BY <1>a, <1>c, Zenon DEF Log!logVars, Gone
  <1>d. ASSUME UNCHANGED <<clock, status, revoked>>
        PROVE  UNCHANGED Log!logVars
    <2>1. UNCHANGED Gone
      BY <1>d, Zenon DEF Gone
    <2> QED
      BY <1>c, <1>d, <2>1, Zenon
  <1>1. CASE Tick
    <2>1. UNCHANGED <<revoked, Gone>> /\ clock' = clock + 1
      BY <1>1, Zenon DEF Tick, Gone
    <2>2. Log!Tick
      BY <1>a, <2>1, Zenon DEF Log!Tick, Gone
    <2> QED
      BY <2>2, Zenon DEF Log!Next
  <1>2. ASSUME NEW c \in Certs, RegisterCertificate(c)
        PROVE  UNCHANGED Log!logVars
    <2>1. UNCHANGED Gone
      BY <1>b, <1>2, Zenon DEF RegisterCertificate, Gone, CertTypeOK
    <2> QED
      BY <1>c, <1>2, <2>1, Zenon DEF RegisterCertificate
  <1>3. ASSUME NEW r \in Revokers, RevokeCommit(r)
        PROVE  Log!Next
    <2> DEFINE c == rv[r].cert
    <2>1. c \in Certs /\ status[c] \in {"Active", "Expired"}
      BY <1>b, <1>3, Zenon DEF RevokeCommit, CertTypeOK, RevocationOwnsRow
    <2>2. c \notin revoked /\ c \notin Gone
      BY <1>b, <2>1, Zenon DEF StatusMatchesRevocation, Gone
    <2>3. UNCHANGED Gone
      BY <1>b, <1>3, <2>1, Zenon DEF RevokeCommit, Gone, CertTypeOK
    <2>4. revoked' = revoked \cup {c} /\ UNCHANGED clock
      BY <1>3, Zenon DEF RevokeCommit
    <2>5. Log!Record(c)
      BY <1>a, <2>2, <2>3, <2>4, Zenon DEF Log!Record, Gone
    <2> QED
      BY <2>1, <2>5, Zenon DEF Log!Next
  <1>4. ASSUME NEW t \in Tasks, ExpireApply(t)
        PROVE  UNCHANGED Log!logVars
    <2>1. UNCHANGED Gone
      BY <1>b, <1>4, Zenon DEF ExpireApply, Expiring, Gone, CertTypeOK
    <2> QED
      BY <1>c, <1>4, <2>1, Zenon DEF ExpireApply
  <1>5. ASSUME NEW t \in Tasks, DeleteApply(t)
        PROVE  Log!Next
    <2>1. Gone' = Gone \cup Deleting(t)
      BY <1>b, <1>5, Zenon DEF DeleteApply, Deleting, Gone, CertTypeOK, Rows
    <2>2. ASSUME NEW c \in Deleting(t)
          PROVE  NotAfter[c] < clock
      <3>1. c \in task[t].batch /\ task[t].pc = "deleting" /\ c \in Certs
        BY <1>5, <2>2, Zenon DEF DeleteApply, Deleting, Rows
      <3>2. NotAfter[c] < task[t].now - Retention /\ task[t].now <= clock
        BY <1>b, <3>1, Zenon DEF RunsOnTime
      <3>3. task[t].now \in Nat /\ clock \in Nat /\ Retention \in Nat /\ NotAfter[c] \in Nat
        BY <1>b, <3>1, CertStatusAssumption, Zenon DEF CertTypeOK
      <3> QED
        BY <3>2, <3>3
    <2>3. Gone \cap revoked = {}
      BY <1>b, Zenon DEF StatusMatchesRevocation, Gone
    <2>4. revoked' = revoked \ Gone' /\ UNCHANGED clock
      BY <1>5, <2>1, <2>3, Zenon DEF DeleteApply
    <2>5. Log!Retire
      BY <1>a, <2>1, <2>2, <2>4, Zenon DEF Log!Retire, Gone
    <2> QED
      BY <2>5, Zenon DEF Log!Next
  <1> QED
    BY <1>d, <1>1, <1>2, <1>3, <1>4, <1>5, Zenon
    DEF CertNext, certVars, RevokeFind, RevokeLock, RevokeAbort, OcspGetCertificate,
        OcspGetRevoked, TaskStart, ExpireSelect, DeleteSelect, TaskFail

\* Storing a CRL publishes the next list; no other step of a publisher shows.
LEMMA CrlLogStep ==
  ASSUME CrlInv, [Next]_vars
  PROVE  [Log!Next]_(Log!logVars)
  <1>1. CASE [CertNext]_certVars /\ UNCHANGED crlVars
    BY <1>1, CertLogStep, Zenon DEF CrlInv
  <1>2. ASSUME NEW p \in Publishers, StoreCrl(p), UNCHANGED certVars
        PROVE  Log!Next
    <2>1. TypeOK'
      BY TypeStep, Zenon DEF CrlInv
    <2>2. /\ CrlInv' /\ crl'.number = crl.number + 1 /\ base' = revoked
          /\ \A c \in base : NotAfter[c] > clock => c \in crl'.entries
      <3>1. base' = revoked
        BY <1>2, Zenon DEF StoreCrl
      <3> QED
        BY <1>2, <2>1, <3>1, StoreStep, Zenon
    <2>3. UNCHANGED <<clock, revoked, status, Gone>>
      BY <1>2, Zenon DEF certVars, Gone
    <2>4. crl'.entries \subseteq Certs
      BY <2>1, Zenon DEF TypeOK, CrlRecord
    <2>5. crl'.entries \subseteq revoked \cup Gone
      BY <2>2, <2>3, <2>4, Zenon DEF CrlInv, EntriesAreRevoked, Gone
    <2>6. Log!Publish
      BY <2>2, <2>3, <2>5, Zenon DEF Log!Publish, Gone
    <2> QED
      BY <2>6, Zenon DEF Log!Next
  <1>3. ASSUME UNCHANGED <<certVars, crl, base>>
        PROVE  UNCHANGED Log!logVars
    BY <1>3, Zenon DEF Log!logVars, certVars
  <1> QED
    BY <1>1, <1>2, <1>3, Zenon DEF Next, vars, crlVars, PublisherNext, StartRun, ListIssuers,
       GetIssuerBySKID, CurrentCrl, Publish, BuildPage, SetCrlNumber, StaleCrlNumber, RereadIssuer, RereadCrl,
       PublishFail, UpdateIssuerStatus

\* Concurrent publishers over the tables of CertStatus implement the log of
\* numbered lists, for any number of publishers, requests and tasks.
THEOREM CrlLogRefined == Spec => ImplementsCrlLog
  <1>1. Init => Log!Init
    BY DEF Init, CertInit, NoCrl, Log!Init
  <1> QED
    BY <1>1, CrlInvCorrect, CrlLogStep, PTL DEF Spec, ImplementsCrlLog, Log!Spec
=============================================================================
