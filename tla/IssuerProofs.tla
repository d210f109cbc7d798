---------------------------- MODULE IssuerProofs ----------------------------
(***************************************************************************)
(* Proofs about the issuers: the lifecycle of a row and its key for any    *)
(* number of requests and keys, and the staleness bounds of the registry   *)
(* for any TTL and any number of lookups.                                  *)
(***************************************************************************)
EXTENDS Registry, TLAPS

-----------------------------------------------------------------------------
(***************************************************************************)
(* The lifecycle. The checks of a handler are of a row it read earlier;    *)
(* what makes them hold at the write is that the row only moves forward:   *)
(* what a request relies on (RequestOK) stays true whatever the other      *)
(* requests write.                                                         *)
(***************************************************************************)

\* What a request has seen of the row and still holds at its next step.
RequestOK(q, r, held) ==
    /\ q.pc = "insert" => /\ q.target \in {"Pending", "Active"}
                          /\ r.status = "None" => q.key \in Wrapped \cup held
    /\ q.pc = "activate" => r.status # "None" /\ q.cert.key = r.key /\ q.cert # NoCert
    /\ q.pc \in {"begin", "update"} =>
          /\ r.status # "None"
          /\ q.target \in {"None", "Archived", "Destroyed"}
          /\ q.target = "Archived" => r.status \in {"Active", "Archived", "Destroyed"}
          /\ q.target = "Destroyed" => r.status \in {"Archived", "Destroyed"}
    /\ q.pc = "destroy" => r.status \in {"Archived", "Destroyed"}

\* The key of r is there.
KeyHeld(r, held) == IF r.key \in Wrapped THEN r.protected ELSE r.key \in held

\* The certificate, the key and the status of the row belong together.
RowOK(r, held, gone) ==
    /\ r.status \in {"None", "Pending"} => r.cert = NoCert
    /\ r.status \notin {"None", "Pending"} => r.cert.key = r.key /\ r.cert # NoCert
    /\ r.status \in {"Pending", "Active"} => KeyHeld(r, held)
    /\ gone => r.status # "None" /\ r.protected = FALSE

LifeInv ==
    /\ LifeTypeOK
    /\ RowOK(row, provider, destroyed)
    /\ \A a \in Admins : RequestOK(req[a], row, provider)

\* A row moves forward from r to s: a step of any request.
Forward(r, s) ==
    \/ r.status = "None" /\ s.status \in {"Pending", "Active"}
    \/ /\ r.status # "None" /\ s.key = r.key
       /\ \/ s.status = r.status
          \/ r.status = "Pending" /\ s.status = "Active"
          \/ r.status \in {"Active", "Archived", "Destroyed"} /\ s.status = "Archived"
          \/ r.status \in {"Archived", "Destroyed"} /\ s.status = "Destroyed"

-----------------------------------------------------------------------------

\* The initial state satisfies the invariant.
LEMMA LifeInitially == LifeInit => LifeInv
<1> SUFFICES ASSUME LifeInit PROVE LifeInv
  BY Zenon
<1>1. NoCert \in CertRecord
  BY Zenon DEF NoCert, CertRecord
<1>2. NoRow \in RowRecord
  BY <1>1, Zenon DEF NoRow, RowRecord, IssuerStatuses
<1>3. NoReq \in ReqRecord
  BY <1>1, Zenon DEF NoReq, ReqRecord, IssuerStatuses
<1>4. LifeTypeOK
  BY <1>2, <1>3, Zenon DEF LifeInit, LifeTypeOK
<1>5. RowOK(row, provider, destroyed)
  BY Zenon DEF LifeInit, RowOK, NoRow
<1>6. \A a \in Admins : RequestOK(req[a], row, provider)
  BY Zenon DEF LifeInit, RequestOK, NoReq
<1> QED
  BY <1>4, <1>5, <1>6, Zenon DEF LifeInv

\* What a request relies on survives every step forward of the row and every
\* key that comes: no handler has to hold the row between read and write.
LEMMA RequestStable ==
    ASSUME NEW q, NEW r, NEW s, NEW held, NEW kept, RequestOK(q, r, held), Forward(r, s),
           held \subseteq kept
    PROVE  RequestOK(q, s, kept)
BY Zenon DEF RequestOK, Forward

\* A step that changes only the state of one request.
LEMMA OnlyRequest ==
    ASSUME LifeInv, NEW a \in Admins, NEW q \in ReqRecord, RequestOK(q, row, provider),
           req' = [req EXCEPT ![a] = q], UNCHANGED <<row, provider, destroyed>>, stamp' \in Nat
    PROVE  LifeInv'
<1>1. LifeTypeOK'
  BY Zenon DEF LifeInv, LifeTypeOK
<1>2. RowOK(row', provider', destroyed')
  BY Zenon DEF LifeInv
<1>3. ASSUME NEW b \in Admins PROVE RequestOK(req'[b], row', provider')
  <2>1. CASE b = a
    BY <2>1, Zenon DEF LifeInv, LifeTypeOK
  <2>2. CASE b # a
    <3>1. req'[b] = req[b]
      BY <2>2, Zenon DEF LifeInv, LifeTypeOK
    <3> QED
      BY <3>1, Zenon DEF LifeInv
  <2> QED
    BY <2>1, <2>2, Zenon
<1> QED
  BY <1>1, <1>2, <1>3, Zenon DEF LifeInv

\* A step that moves the row forward to s and ends one request's statement.
LEMMA OnlyRow ==
    ASSUME LifeInv, NEW a \in Admins, NEW q \in ReqRecord, NEW s \in RowRecord,
           NEW gone \in BOOLEAN,
           RequestOK(q, s, provider), Forward(row, s), RowOK(s, provider, gone),
           req' = [req EXCEPT ![a] = q], row' = s, destroyed' = gone, provider' = provider,
           stamp' \in Nat
    PROVE  LifeInv'
<1>1. LifeTypeOK'
  BY Zenon DEF LifeInv, LifeTypeOK
<1>2. RowOK(row', provider', destroyed')
  BY Zenon
<1>3. ASSUME NEW b \in Admins PROVE RequestOK(req'[b], row', provider')
  <2>1. CASE b = a
    BY <2>1, Zenon DEF LifeInv, LifeTypeOK
  <2>2. CASE b # a
    <3>1. req'[b] = req[b]
      BY <2>2, Zenon DEF LifeInv, LifeTypeOK
    <3>2. RequestOK(req[b], row, provider)
      BY Zenon DEF LifeInv
    <3>3. RequestOK(req[b], s, provider)
      BY <3>2, RequestStable, Zenon
    <3> QED
      BY <3>1, <3>3, Zenon
  <2> QED
    BY <2>1, <2>2, Zenon
<1> QED
  BY <1>1, <1>2, <1>3, Zenon DEF LifeInv

-----------------------------------------------------------------------------

\* The requests that the steps leave are requests.
LEMMA IdleOK == NoReq \in ReqRecord /\ \A r, held : RequestOK(NoReq, r, held)
BY Zenon DEF NoReq, NoCert, ReqRecord, CertRecord, IssuerStatuses, RequestOK

\* So is a request that has only to drop the issuer from the registry.
LEMMA InvalidateOK ==
    ASSUME NEW q \in ReqRecord
    PROVE  /\ [q EXCEPT !.pc = "invalidate"] \in ReqRecord
           /\ \A r, held : RequestOK([q EXCEPT !.pc = "invalidate"], r, held)
BY Zenon DEF ReqRecord, RequestOK

\* A condition is a Boolean value.
LEMMA Truth == \A k, S : \E b \in BOOLEAN : b = (k \in S)
<1> TAKE k, S
<1>1. CASE k \in S
  <2>1. TRUE = (k \in S)
    BY <1>1, Zenon
  <2> QED
    BY <2>1, Zenon
<1>2. CASE k \notin S
  <2>1. FALSE = (k \in S)
    BY <1>2
  <2> QED
    BY <2>1, Zenon
<1> QED
  BY <1>1, <1>2, Zenon

\* NewIssuer: the generated key is held before the request goes on.
LEMMA NewIssuerStep ==
    ASSUME LifeInv, NEW a \in Admins, NEW k \in KeyIDs, NEW s \in {"Pending", "Active"},
           NewIssuer(a, k, s)
    PROVE  LifeInv'
<1> DEFINE q == [NoReq EXCEPT !.pc = "insert", !.key = k, !.target = s]
<1> USE DEF NewIssuer
<1>1. q \in ReqRecord /\ q.pc = "insert" /\ q.key = k /\ q.target = s
  BY IssuerLifecycleAssumption, Zenon DEF NoReq, NoCert, ReqRecord, CertRecord, IssuerStatuses
<1>2. req' = [req EXCEPT ![a] = q]
  BY Zenon
<1> HIDE DEF q
<1>3. provider \subseteq provider' /\ provider' \subseteq KeyIDs /\ k \in Wrapped \cup provider'
  BY Zenon DEF LifeInv, LifeTypeOK
<1>4. LifeTypeOK'
  BY <1>1, <1>2, <1>3 DEF LifeInv, LifeTypeOK
<1>5. RowOK(row', provider', destroyed')
  BY <1>3, Zenon DEF LifeInv, RowOK, KeyHeld
<1>6. ASSUME NEW b \in Admins PROVE RequestOK(req'[b], row', provider')
  <2>1. CASE b = a
    <3>1. req'[b] = q
      BY <2>1, <1>2, Zenon DEF LifeInv, LifeTypeOK
    <3>2. RequestOK(q, row', provider')
      BY <1>1, <1>3, Zenon DEF RequestOK
    <3> QED
      BY <3>1, <3>2, Zenon
  <2>2. CASE b # a
    <3>1. req'[b] = req[b]
      BY <2>2, <1>2, Zenon DEF LifeInv, LifeTypeOK
    <3>2. RequestOK(req[b], row, provider)
      BY Zenon DEF LifeInv
    <3>3. RequestOK(req[b], row, provider')
      BY <1>3, <3>2, Zenon DEF RequestOK
    <3> QED
      BY <3>1, <3>3, Zenon
  <2> QED
    BY <2>1, <2>2, Zenon
<1> QED
  BY <1>4, <1>5, <1>6, Zenon DEF LifeInv

\* ImportIssuer: the imported key is wrapped or held by the provider.
LEMMA ImportIssuerStep ==
    ASSUME LifeInv, NEW a \in Admins, NEW k \in KeyIDs, ImportIssuer(a, k)
    PROVE  LifeInv'
<1> DEFINE q == [NoReq EXCEPT !.pc = "insert", !.key = k, !.target = "Active"]
<1>1. q \in ReqRecord /\ q.pc = "insert" /\ q.key = k /\ q.target = "Active"
  BY IssuerLifecycleAssumption, Zenon DEF NoReq, NoCert, ReqRecord, CertRecord, IssuerStatuses
<1>2. req' = [req EXCEPT ![a] = q] /\ UNCHANGED <<row, provider, stamp, destroyed>>
  BY Zenon DEF ImportIssuer
<1> HIDE DEF q
<1>3. RequestOK(q, row, provider)
  BY <1>1, Zenon DEF RequestOK, ImportIssuer
<1>4. stamp' \in Nat
  BY <1>2, Zenon DEF LifeInv, LifeTypeOK
<1> QED
  BY <1>1, <1>2, <1>3, <1>4, OnlyRequest, Zenon

\* InsertIssuer: the first row of the label gets the key of its request.
LEMMA InsertIssuerStep ==
    ASSUME LifeInv, NEW a \in Admins, InsertIssuer(a)
    PROVE  LifeInv'
<1>0. req[a] \in ReqRecord /\ req[a].pc = "insert" /\ RequestOK(req[a], row, provider)
  BY Zenon DEF LifeInv, LifeTypeOK, InsertIssuer
<1>1. CASE row.status = "None"
  <2>1. PICK now \in Now, n \in Serials :
           /\ row' = [status |-> req[a].target, key |-> req[a].key, protected |-> req[a].key \in Wrapped,
                      cert |-> IF req[a].target = "Active"
                               THEN [key |-> req[a].key, serial |-> n] ELSE NoCert,
                      updatedAt |-> now]
           /\ stamp' = now
           /\ req' = [req EXCEPT ![a] = [NoReq EXCEPT !.pc = "invalidate"]]
    BY <1>1, Zenon DEF InsertIssuer
  <2> PICK b \in BOOLEAN : b = (req[a].key \in Wrapped)
    BY Truth, Zenon
  <2> DEFINE c == IF req[a].target = "Active" THEN [key |-> req[a].key, serial |-> n] ELSE NoCert
             s == [status |-> req[a].target, key |-> req[a].key, protected |-> b, cert |-> c,
                   updatedAt |-> now]
             q == [NoReq EXCEPT !.pc = "invalidate"]
  <2>2. row' = s /\ req' = [req EXCEPT ![a] = q] /\ provider' = provider /\ destroyed' = destroyed
    BY <2>1, Zenon DEF InsertIssuer
  <2>3. q \in ReqRecord /\ RequestOK(q, s, provider)
    BY IdleOK, InvalidateOK, Zenon
  <2>4. now \in Nat /\ n \in Nat /\ n # 0
    BY IssuerLifecycleAssumption DEF Now, LifeInv, LifeTypeOK
  <2>5. req[a].target \in {"Pending", "Active"} /\ req[a].key \in Nat /\ req[a].key \in Wrapped \cup provider
    BY <1>0, <1>1, Zenon DEF RequestOK, ReqRecord
  <2>6. c \in CertRecord /\ (req[a].target = "Active" => c.key = req[a].key /\ c # NoCert)
        /\ (req[a].target = "Pending" => c = NoCert)
    BY <2>4, <2>5, Zenon DEF CertRecord, NoCert
  <2> HIDE DEF c, q
  <2>7. s \in RowRecord
    BY <2>4, <2>5, <2>6, Zenon DEF RowRecord, IssuerStatuses
  <2>8. s.status = req[a].target /\ s.key = req[a].key /\ s.protected = b /\ s.cert = c
    BY Zenon
  <2> HIDE DEF s
  <2>9. Forward(row, s)
    BY <1>1, <2>5, <2>8, Zenon DEF Forward
  <2>10. destroyed = FALSE
    BY <1>1, Zenon DEF LifeInv, LifeTypeOK, RowOK
  <2>11. KeyHeld(s, provider)
    BY <2>5, <2>8, Zenon DEF KeyHeld
  <2>12. RowOK(s, provider, FALSE)
    BY <2>5, <2>6, <2>8, <2>11, Zenon DEF RowOK
  <2> QED
    BY <2>1, <2>2, <2>3, <2>4, <2>7, <2>9, <2>10, <2>12, OnlyRow, Zenon
<1>2. CASE row.status # "None"
  <2>1. req' = [req EXCEPT ![a] = NoReq] /\ UNCHANGED <<row, provider, stamp, destroyed>>
    BY <1>2, Zenon DEF InsertIssuer
  <2>2. stamp' \in Nat
    BY <2>1, Zenon DEF LifeInv, LifeTypeOK
  <2> QED
    BY <2>1, <2>2, IdleOK, OnlyRequest, Zenon
<1> QED
  BY <1>1, <1>2, Zenon

\* ActivateRead: the certificate is for the key of the row that was read.
LEMMA ActivateReadStep ==
    ASSUME LifeInv, NEW a \in Admins, NEW k \in KeyIDs, NEW n \in Serials, ActivateRead(a, k, n)
    PROVE  LifeInv'
<1> DEFINE c == [key |-> k, serial |-> n]
           q == [NoReq EXCEPT !.pc = "activate", !.cert = c]
<1>1. req' = [req EXCEPT ![a] = q] /\ UNCHANGED <<row, provider, stamp, destroyed>>
  BY Zenon DEF ActivateRead
<1>2. c \in CertRecord /\ c.key = row.key /\ c # NoCert
  BY IssuerLifecycleAssumption, Zenon DEF CertRecord, NoCert, ActivateRead
<1> HIDE DEF c
<1>3. q \in ReqRecord /\ q.pc = "activate" /\ q.cert = c
  BY <1>2, Zenon DEF NoReq, ReqRecord, IssuerStatuses
<1> HIDE DEF q
<1>4. RequestOK(q, row, provider)
  BY <1>2, <1>3, Zenon DEF RequestOK, ActivateRead
<1>5. stamp' \in Nat
  BY <1>1, Zenon DEF LifeInv, LifeTypeOK
<1> QED
  BY <1>1, <1>3, <1>4, <1>5, OnlyRequest, Zenon

\* ActivateWrite: a row that is still Pending has the key it had when the
\* handler read it.
LEMMA ActivateWriteStep ==
    ASSUME LifeInv, NEW a \in Admins, ActivateWrite(a)
    PROVE  LifeInv'
<1>0. req[a] \in ReqRecord /\ req[a].pc = "activate" /\ RequestOK(req[a], row, provider)
  BY Zenon DEF LifeInv, LifeTypeOK, ActivateWrite
<1>1. CASE row.status = "Pending"
  <2>1. PICK now \in Now :
           /\ row' = [row EXCEPT !.status = "Active", !.cert = req[a].cert, !.updatedAt = now]
           /\ stamp' = now
           /\ req' = [req EXCEPT ![a] = [NoReq EXCEPT !.pc = "invalidate"]]
    BY <1>1, Zenon DEF ActivateWrite
  <2> DEFINE s == [row EXCEPT !.status = "Active", !.cert = req[a].cert, !.updatedAt = now]
             q == [NoReq EXCEPT !.pc = "invalidate"]
  <2>2. row' = s /\ req' = [req EXCEPT ![a] = q] /\ provider' = provider /\ destroyed' = destroyed
    BY <2>1, Zenon DEF ActivateWrite
  <2>3. q \in ReqRecord /\ RequestOK(q, s, provider)
    BY IdleOK, InvalidateOK, Zenon
  <2>4. now \in Nat
    BY IssuerLifecycleAssumption DEF Now, LifeInv, LifeTypeOK
  <2>5. req[a].cert \in CertRecord /\ req[a].cert.key = row.key /\ req[a].cert # NoCert
    BY <1>0, Zenon DEF RequestOK, ReqRecord
  <2>6. s \in RowRecord /\ s.status = "Active" /\ s.key = row.key /\ s.protected = row.protected
        /\ s.cert = req[a].cert
    BY <2>4, <2>5, Zenon DEF LifeInv, LifeTypeOK, RowRecord, IssuerStatuses
  <2> HIDE DEF s, q
  <2>7. Forward(row, s)
    BY <1>1, <2>6, Zenon DEF Forward
  <2>8. RowOK(row, provider, destroyed) /\ destroyed \in BOOLEAN
    BY Zenon DEF LifeInv, LifeTypeOK
  <2>9. RowOK(s, provider, destroyed)
    BY <1>1, <2>5, <2>6, <2>8, Zenon DEF RowOK, KeyHeld
  <2> QED
    BY <2>1, <2>2, <2>3, <2>4, <2>6, <2>7, <2>8, <2>9, OnlyRow, Zenon
<1>2. CASE row.status # "Pending"
  <2>1. req' = [req EXCEPT ![a] = NoReq] /\ UNCHANGED <<row, provider, stamp, destroyed>>
    BY <1>2, Zenon DEF ActivateWrite
  <2>2. stamp' \in Nat
    BY <2>1, Zenon DEF LifeInv, LifeTypeOK
  <2> QED
    BY <2>1, <2>2, IdleOK, OnlyRequest, Zenon
<1> QED
  BY <1>1, <1>2, Zenon

\* UpdateRead: the status of the request follows the one that was read.
LEMMA UpdateReadStep ==
    ASSUME LifeInv, NEW a \in Admins, NEW target \in {"None", "Archived", "Destroyed"},
           UpdateRead(a, target)
    PROVE  LifeInv'
<1> DEFINE q == [NoReq EXCEPT !.pc = "begin", !.key = row.key, !.target = target]
<1>1. req' = [req EXCEPT ![a] = q] /\ UNCHANGED <<row, provider, stamp, destroyed>>
  BY Zenon DEF UpdateRead
<1>2. q \in ReqRecord /\ q.pc = "begin" /\ q.target = target
  BY Zenon DEF LifeInv, LifeTypeOK, RowRecord, NoReq, NoCert, CertRecord, ReqRecord, IssuerStatuses
<1> HIDE DEF q
<1>3. row.status # "None" /\ (target = "Archived" => row.status = "Active")
      /\ (target = "Destroyed" => row.status = "Archived")
  BY Zenon DEF UpdateRead, issuerTransitions
<1>4. RequestOK(q, row, provider)
  BY <1>2, <1>3, Zenon DEF RequestOK
<1>5. stamp' \in Nat
  BY <1>1, Zenon DEF LifeInv, LifeTypeOK
<1> QED
  BY <1>1, <1>2, <1>4, <1>5, OnlyRequest, Zenon

\* UpdateBegin: the statement gets its timestamp.
LEMMA UpdateBeginStep ==
    ASSUME LifeInv, NEW a \in Admins, UpdateBegin(a)
    PROVE  LifeInv'
<1>1. PICK now \in Now :
         stamp' = now /\ req' = [req EXCEPT ![a] = [@ EXCEPT !.pc = "update", !.at = now]]
  BY Zenon DEF UpdateBegin
<1> DEFINE q == [req[a] EXCEPT !.pc = "update", !.at = now]
<1>2. req[a] \in ReqRecord /\ req[a].pc = "begin" /\ RequestOK(req[a], row, provider)
  BY Zenon DEF LifeInv, LifeTypeOK, UpdateBegin
<1>3. now \in Nat
  BY IssuerLifecycleAssumption DEF Now, LifeInv, LifeTypeOK
<1>4. req' = [req EXCEPT ![a] = q] /\ UNCHANGED <<row, provider, destroyed>>
  BY <1>1, Zenon DEF UpdateBegin, LifeInv, LifeTypeOK
<1>5. q \in ReqRecord /\ q.pc = "update" /\ q.target = req[a].target
  BY <1>2, <1>3, Zenon DEF ReqRecord
<1> HIDE DEF q
<1>6. RequestOK(q, row, provider)
  BY <1>2, <1>5, Zenon DEF RequestOK
<1> QED
  BY <1>1, <1>3, <1>4, <1>5, <1>6, OnlyRequest, Zenon

\* UpdateWrite: whatever the row has become since the read, the status that
\* is written moves it forward, and Destroyed takes the wrapped key along.
LEMMA UpdateWriteStep ==
    ASSUME LifeInv, NEW a \in Admins, UpdateWrite(a)
    PROVE  LifeInv'
<1> DEFINE target == req[a].target
           at == req[a].at
           q == [req[a] EXCEPT !.pc = IF req[a].target = "Destroyed" THEN "destroy" ELSE "invalidate"]
           keep == row.protected /\ target # "Destroyed"
           gone == destroyed \/ target = "Destroyed"
           st == IF target = "None" THEN row.status ELSE target
           s == [row EXCEPT !.status = st, !.protected = keep, !.updatedAt = at]
<1>1. req[a] \in ReqRecord /\ req[a].pc = "update" /\ RequestOK(req[a], row, provider)
  BY Zenon DEF LifeInv, LifeTypeOK, UpdateWrite
<1>2. row \in RowRecord /\ RowOK(row, provider, destroyed) /\ destroyed \in BOOLEAN /\ stamp \in Nat
      /\ req \in [Admins -> ReqRecord]
  BY Zenon DEF LifeInv, LifeTypeOK
<1>3. row' = s /\ req' = [req EXCEPT ![a] = q] /\ destroyed' = gone /\ provider' = provider /\ stamp' = stamp
  BY <1>2, Zenon DEF UpdateWrite, RowRecord
<1>4. /\ row.status # "None"
      /\ target \in {"None", "Archived", "Destroyed"}
      /\ target = "Archived" => row.status \in {"Active", "Archived", "Destroyed"}
      /\ target = "Destroyed" => row.status \in {"Archived", "Destroyed"}
      /\ at \in Nat
  BY <1>1, Zenon DEF RequestOK, ReqRecord
<1>5. st \in IssuerStatuses
  BY <1>2, <1>4, Zenon DEF RowRecord, IssuerStatuses
<1>6. CASE target = "Destroyed"
  <2>1. st = "Destroyed"
    BY <1>6, Zenon
  <2>2. keep = FALSE
    BY <1>6, Zenon
  <2>3. gone = TRUE
    BY <1>6, Zenon
  <2>4. q \in ReqRecord /\ q.pc = "destroy"
    BY <1>1, <1>6, Zenon DEF ReqRecord
  <2> HIDE DEF q, keep, gone, st
  <2>5. s \in RowRecord /\ s.status = "Destroyed" /\ s.key = row.key /\ s.cert = row.cert /\ s.protected = FALSE
    BY <1>2, <1>4, <2>1, <2>2, Zenon DEF RowRecord, IssuerStatuses
  <2> HIDE DEF s
  <2>6. Forward(row, s)
    BY <1>4, <1>6, <2>5, Zenon DEF Forward
  <2>7. RequestOK(q, s, provider)
    BY <2>4, <2>5, Zenon DEF RequestOK
  <2>8. RowOK(s, provider, TRUE)
    BY <1>2, <1>4, <1>6, <2>5, Zenon DEF RowOK
  <2> QED
    BY <1>2, <1>3, <2>3, <2>4, <2>5, <2>6, <2>7, <2>8, OnlyRow, Zenon
<1>7. CASE target # "Destroyed"
  <2>1. row.protected \in BOOLEAN
    BY <1>2, Zenon DEF RowRecord
  <2>2. keep = row.protected
    BY <1>7, <2>1, Zenon
  <2>3. gone = destroyed
    BY <1>2, <1>7, Zenon
  <2>4. q \in ReqRecord /\ q.pc = "invalidate"
    BY <1>1, <1>7, Zenon DEF ReqRecord
  <2>5. \/ st = row.status
        \/ st = "Archived" /\ row.status \in {"Active", "Archived", "Destroyed"}
    BY <1>4, <1>7, Zenon
  <2> HIDE DEF q, keep, gone, st
  <2>6. s \in RowRecord /\ s.status = st /\ s.key = row.key /\ s.cert = row.cert /\ s.protected = row.protected
    BY <1>2, <1>4, <1>5, <2>2, Zenon DEF RowRecord
  <2> HIDE DEF s
  <2>7. Forward(row, s)
    BY <1>4, <2>5, <2>6, Zenon DEF Forward
  <2>8. RequestOK(q, s, provider)
    BY <2>4, Zenon DEF RequestOK
  <2>9. RowOK(s, provider, destroyed)
    BY <1>2, <1>4, <2>5, <2>6 DEF RowOK, KeyHeld
  <2> QED
    BY <1>2, <1>3, <2>3, <2>4, <2>6, <2>7, <2>8, <2>9, OnlyRow, Zenon
<1> QED
  BY <1>6, <1>7, Zenon

\* DestroyKey: the row is past Active for good, so nothing needs its key.
LEMMA DestroyKeyStep ==
    ASSUME LifeInv, NEW a \in Admins, DestroyKey(a)
    PROVE  LifeInv'
<1> DEFINE q == [req[a] EXCEPT !.pc = "invalidate"]
<1>1. req[a] \in ReqRecord /\ row.status \in {"Archived", "Destroyed"}
  BY Zenon DEF LifeInv, LifeTypeOK, DestroyKey, RequestOK
<1>2. q \in ReqRecord /\ \A r, held : RequestOK(q, r, held)
  BY <1>1, InvalidateOK, Zenon
<1>3. req' = [req EXCEPT ![a] = q] /\ UNCHANGED <<row, stamp, destroyed>>
  BY Zenon DEF DestroyKey, LifeInv, LifeTypeOK
<1> HIDE DEF q
<1>4. provider' \subseteq provider
  BY Zenon DEF DestroyKey
<1>5. LifeTypeOK'
  BY <1>2, <1>3, <1>4, Zenon DEF LifeInv, LifeTypeOK
<1>6. RowOK(row', provider', destroyed')
  BY <1>1, <1>3, Zenon DEF LifeInv, RowOK
<1>7. ASSUME NEW b \in Admins PROVE RequestOK(req'[b], row', provider')
  <2>1. CASE b = a
    <3>1. req'[b] = q
      BY <2>1, <1>3, Zenon DEF LifeInv, LifeTypeOK
    <3> QED
      BY <3>1, <1>2, Zenon
  <2>2. CASE b # a
    <3>1. req'[b] = req[b]
      BY <2>2, <1>3, Zenon DEF LifeInv, LifeTypeOK
    <3>2. RequestOK(req[b], row, provider)
      BY Zenon DEF LifeInv
    <3>3. RequestOK(req[b], row, provider')
      BY <1>1, <3>2, Zenon DEF RequestOK
    <3> QED
      BY <1>3, <3>1, <3>3, Zenon
  <2> QED
    BY <2>1, <2>2, Zenon
<1> QED
  BY <1>5, <1>6, <1>7, Zenon DEF LifeInv

\* InvalidateIssuer and RequestFail end the request.
LEMMA EndStep ==
    ASSUME LifeInv, NEW a \in Admins, InvalidateIssuer(a) \/ RequestFail(a)
    PROVE  LifeInv'
<1>1. req' = [req EXCEPT ![a] = NoReq] /\ UNCHANGED <<row, provider, stamp, destroyed>>
  BY Zenon DEF InvalidateIssuer, RequestFail
<1>2. stamp' \in Nat
  BY <1>1, Zenon DEF LifeInv, LifeTypeOK
<1> QED
  BY <1>1, <1>2, IdleOK, OnlyRequest, Zenon

\* A step that changes nothing.
LEMMA LifeStutter == ASSUME LifeInv, UNCHANGED lifeVars PROVE LifeInv'
<1>1. UNCHANGED <<row, provider, req, stamp, destroyed>>
  BY Zenon DEF lifeVars
<1>2. LifeTypeOK'
  BY <1>1, Zenon DEF LifeInv, LifeTypeOK
<1>3. RowOK(row', provider', destroyed')
  BY <1>1, Zenon DEF LifeInv
<1>4. \A a \in Admins : RequestOK(req'[a], row', provider')
  BY <1>1, Zenon DEF LifeInv
<1> QED
  BY <1>2, <1>3, <1>4, Zenon DEF LifeInv

\* Every step of every request keeps the invariant.
LEMMA LifeStep == LifeInv /\ [LifeNext]_lifeVars => LifeInv'
<1> SUFFICES ASSUME LifeInv, [LifeNext]_lifeVars PROVE LifeInv'
  BY Zenon
<1>1. CASE UNCHANGED lifeVars
  BY <1>1, LifeStutter, Zenon
<1>2. ASSUME NEW a \in Admins, HandlerNext(a) \/ InvalidateIssuer(a) PROVE LifeInv'
  <2>1. ASSUME NEW k \in KeyIDs, NEW s \in {"Pending", "Active"}, NewIssuer(a, k, s) PROVE LifeInv'
    BY <2>1, NewIssuerStep, Zenon
  <2>2. ASSUME NEW k \in KeyIDs, ImportIssuer(a, k) PROVE LifeInv'
    BY <2>2, ImportIssuerStep, Zenon
  <2>3. CASE InsertIssuer(a)
    BY <2>3, InsertIssuerStep, Zenon
  <2>4. ASSUME NEW k \in KeyIDs, NEW n \in Serials, ActivateRead(a, k, n) PROVE LifeInv'
    BY <2>4, ActivateReadStep, Zenon
  <2>5. CASE ActivateWrite(a)
    BY <2>5, ActivateWriteStep, Zenon
  <2>6. ASSUME NEW target \in {"None", "Archived", "Destroyed"}, UpdateRead(a, target) PROVE LifeInv'
    BY <2>6, UpdateReadStep, Zenon
  <2>7. CASE UpdateBegin(a)
    BY <2>7, UpdateBeginStep, Zenon
  <2>8. CASE UpdateWrite(a)
    BY <2>8, UpdateWriteStep, Zenon
  <2>9. CASE DestroyKey(a)
    BY <2>9, DestroyKeyStep, Zenon
  <2>10. CASE RequestFail(a) \/ InvalidateIssuer(a)
    BY <2>10, EndStep, Zenon
  <2> QED
    BY <1>2, <2>1, <2>2, <2>3, <2>4, <2>5, <2>6, <2>7, <2>8, <2>9, <2>10, Zenon DEF HandlerNext
<1> QED
  BY <1>1, <1>2, Zenon DEF LifeNext

\* How the row moves: it is inserted, activated, or updated with its key and
\* certificate as they are.
Inserted == row.status = "None" /\ row'.status \in {"Pending", "Active"}
Activated == row.status = "Pending" /\ row'.status = "Active" /\ row'.key = row.key
Updated ==
    /\ row.status # "None" /\ row'.key = row.key /\ row'.cert = row.cert
    /\ \/ row'.status = row.status
       \/ row.status \in {"Active", "Archived", "Destroyed"} /\ row'.status \in {"Archived", "Destroyed"}

\* The only changes of the row.
LEMMA RowMoves ==
    ASSUME LifeInv, LifeNext
    PROVE  row' = row \/ Inserted \/ Activated \/ Updated
<1>1. PICK a \in Admins : HandlerNext(a) \/ InvalidateIssuer(a)
  BY Zenon DEF LifeNext
<1>2. row \in RowRecord /\ RequestOK(req[a], row, provider)
  BY Zenon DEF LifeInv, LifeTypeOK
<1>3. CASE InsertIssuer(a) /\ row.status = "None"
  <2>1. PICK now \in Now, n \in Serials :
           row' = [status |-> req[a].target, key |-> req[a].key, protected |-> req[a].key \in Wrapped,
                   cert |-> IF req[a].target = "Active"
                            THEN [key |-> req[a].key, serial |-> n] ELSE NoCert,
                   updatedAt |-> now]
    BY <1>3, Zenon DEF InsertIssuer
  <2>2. row'.status = req[a].target
    BY <2>1, Zenon
  <2>3. req[a].target \in {"Pending", "Active"}
    BY <1>2, <1>3, Zenon DEF RequestOK, InsertIssuer
  <2> QED
    BY <1>3, <2>2, <2>3, Zenon DEF Inserted
<1>4. CASE ActivateWrite(a) /\ row.status = "Pending"
  <2>1. PICK now : row' = [row EXCEPT !.status = "Active", !.cert = req[a].cert, !.updatedAt = now]
    BY <1>4, Zenon DEF ActivateWrite
  <2>2. row'.status = "Active" /\ row'.key = row.key
    BY <1>2, <2>1, Zenon DEF RowRecord
  <2> QED
    BY <1>4, <2>2, Zenon DEF Activated
<1>5. CASE UpdateWrite(a)
  <2>1. /\ row'.status = IF req[a].target = "None" THEN row.status ELSE req[a].target
        /\ row'.key = row.key /\ row'.cert = row.cert
    BY <1>2, <1>5, Zenon DEF UpdateWrite, RowRecord
  <2>2. /\ row.status # "None"
        /\ req[a].target \in {"None", "Archived", "Destroyed"}
        /\ req[a].target \in {"Archived", "Destroyed"} => row.status \in {"Active", "Archived", "Destroyed"}
    BY <1>2, <1>5, Zenon DEF UpdateWrite, RequestOK
  <2> QED
    BY <2>1, <2>2, Zenon DEF Updated
<1>6. CASE ~(InsertIssuer(a) /\ row.status = "None") /\ ~(ActivateWrite(a) /\ row.status = "Pending")
           /\ ~UpdateWrite(a)
  BY <1>1, <1>6, Zenon DEF HandlerNext, NewIssuer, ImportIssuer, InsertIssuer, ActivateRead, ActivateWrite,
                    UpdateRead, UpdateBegin, DestroyKey, InvalidateIssuer, RequestFail
<1> QED
  BY <1>3, <1>4, <1>5, <1>6, Zenon

-----------------------------------------------------------------------------

\* The inductive invariant holds in every reachable state.
THEOREM LifeSafe == LifeSpec => []LifeInv
BY LifeInitially, LifeStep, PTL DEF LifeSpec

\* The certificate of an issuer that left Pending is for the key of its row:
\* ActivateIssuer may rely on the row it read, for any number of requests.
THEOREM CertificateFitsKeyCorrect == LifeSpec => []CertificateFitsKey
<1>1. LifeInv => CertificateFitsKey
  BY Zenon DEF LifeInv, RowOK, CertificateFitsKey
<1> QED
  BY <1>1, LifeSafe, PTL

\* A wrapped key never comes back once UpdateIssuer has destroyed the issuer.
THEOREM DestroyedForGoodCorrect == LifeSpec => []DestroyedForGood
<1>1. LifeInv => DestroyedForGood
  BY Zenon DEF LifeInv, RowOK, DestroyedForGood, Loadable
<1> QED
  BY <1>1, LifeSafe, PTL

\* An issuer that signs or waits for its certificate has its key: no
\* DestroyKey, however late, takes it.
THEOREM ActiveHasKeyCorrect == LifeSpec => []ActiveHasKey
<1>1. LifeInv => ActiveHasKey
  BY Zenon DEF LifeInv, RowOK, KeyHeld, ActiveHasKey, Loadable
<1> QED
  BY <1>1, LifeSafe, PTL

\* The certificate and the key of an issuer never change once it has one.
THEOREM CertificateIsSetOnceCorrect == LifeSpec => CertificateIsSetOnce
<1>1. LifeInv /\ [LifeNext]_lifeVars
        => [row.cert # NoCert => row'.cert = row.cert /\ row'.key = row.key]_lifeVars
  <2> SUFFICES ASSUME LifeInv, LifeNext, row.cert # NoCert
               PROVE  row'.cert = row.cert /\ row'.key = row.key
    BY Zenon
  <2>1. row.status \notin {"None", "Pending"}
    BY Zenon DEF LifeInv, RowOK
  <2> QED
    BY <2>1, RowMoves, Zenon DEF Inserted, Activated, Updated
<1> QED
  BY <1>1, LifeSafe, PTL DEF LifeSpec, CertificateIsSetOnce

\* No request takes an Archived or Destroyed issuer back to Active.
THEOREM NeverReactivatedCorrect == LifeSpec => NeverReactivated
<1>1. LifeInv /\ [LifeNext]_lifeVars
        => [row.status \in {"Archived", "Destroyed"} =>
               row'.status \notin {"None", "Pending", "Active"}]_lifeVars
  <2> SUFFICES ASSUME LifeInv, LifeNext, row.status \in {"Archived", "Destroyed"}
               PROVE  row'.status \notin {"None", "Pending", "Active"}
    BY Zenon
  <2> QED
    BY RowMoves, Zenon DEF Inserted, Activated, Updated
<1> QED
  BY <1>1, LifeSafe, PTL DEF LifeSpec, NeverReactivated

-----------------------------------------------------------------------------
(***************************************************************************)
(* The registry. A row in memory carries the time it may be used until;    *)
(* the invariant ties that time to the times at which the row of the       *)
(* database left Active and lost its key.                                  *)
(***************************************************************************)

\* A cached value is current, and expires within the TTL.
CacheOK(c, now) == c # Nothing => now <= c.expires /\ c.expires <= now + TTL

\* A resolution in memory was read while its row was Active and had its key.
LabelOK(c, now, m) ==
    /\ CacheOK(c, now)
    /\ c.row.status = "Active" => c.expires <= m.active + TTL
    /\ c.row.protected = TRUE => c.expires <= m.usable + TTL

\* A built issuer has its key, and was built from a row that may come from a
\* resolution in memory.
EntryOK(c, now, m) ==
    /\ CacheOK(c, now)
    /\ c # Nothing /\ c.row.key \in Wrapped => c.row.protected = TRUE
    /\ c.row.protected = TRUE => c.expires <= m.usable + 2 * TTL

\* A lookup has read its row just now, or found it in memory.
LookupOK(k, now, m) ==
    /\ k.pc = "fill" => /\ k.row.status = "Active" => now <= m.active
                        /\ k.row.protected = TRUE => now <= m.usable
    /\ k.pc \in {"entry", "building"} => /\ k.kind = "sign" => now <= m.active + TTL
                                         /\ k.row.protected = TRUE => now <= m.usable + TTL
    /\ k.pc = "use" => /\ k.kind = "sign" => now <= m.active + TTL
                       /\ k.row.key \in Wrapped => now <= m.usable + 2 * TTL

\* The times of left are those of the past only.
LeftOK(r, gone, m) ==
    /\ r.status \notin {"Archived", "Destroyed"} => m.active = Never
    /\ gone = FALSE => m.usable = Never

\* One lookup builds at a time, and from a row that is newer than the built one.
BuildOK(f, c) ==
    /\ \A l, k \in Lookups : f[l].pc = "building" /\ f[k].pc = "building" => l = k
    /\ \A l \in Lookups : f[l].pc = "building" => c = Nothing \/ newer(f[l].row, c.row)

RegistryInv ==
    /\ LifeInv
    /\ TypeOK
    /\ clock <= MaxTime
    /\ LeftOK(row, destroyed, left)
    /\ LabelOK(label, clock, left)
    /\ EntryOK(entry, clock, left)
    /\ \A l \in Lookups : LookupOK(look[l], clock, left)
    /\ BuildOK(look, entry)

-----------------------------------------------------------------------------

\* Facts about the values no cache and no lookup holds.
LEMMA NothingOK ==
    /\ NoRow \in RowRecord /\ NoRow.status = "None" /\ NoRow.protected = FALSE
    /\ Nothing \in CacheRecord /\ Nothing.row = NoRow /\ Nothing.expires = 0
    /\ NoLook \in LookRecord /\ NoLook.pc = "idle"
<1>1. NoRow \in RowRecord /\ NoRow.status = "None" /\ NoRow.protected = FALSE
  BY Zenon DEF NoRow, NoCert, RowRecord, CertRecord, IssuerStatuses
<1>2. Nothing \in CacheRecord /\ Nothing.row = NoRow /\ Nothing.expires = 0
  BY <1>1, Zenon DEF Nothing, CacheRecord
<1>3. NoLook \in LookRecord /\ NoLook.pc = "idle"
  BY <1>1, Zenon DEF NoLook, LookAt, LookRecord
<1> QED
  BY <1>1, <1>2, <1>3, Zenon

\* Nothing is a sound value of both caches.
LEMMA EmptyOK == \A now, m : LabelOK(Nothing, now, m) /\ EntryOK(Nothing, now, m)
BY NothingOK, Zenon DEF LabelOK, EntryOK, CacheOK

\* The initial state satisfies the invariant.
LEMMA RegistryInitially == Init => RegistryInv
<1> SUFFICES ASSUME Init PROVE RegistryInv
  BY Zenon
<1>1. LifeInv
  BY LifeInitially, Zenon DEF Init
<1>2. Never \in Nat /\ 0 <= MaxTime
  BY RegistryAssumption DEF Never
<1>3. TypeOK
  BY <1>1, <1>2, NothingOK, Zenon DEF Init, TypeOK, LifeInv
<1>4. LeftOK(row, destroyed, left)
  BY Zenon DEF Init, LeftOK
<1>5. \A l \in Lookups : look[l].pc = "idle"
  BY NothingOK, Zenon DEF Init
<1>6. \A l \in Lookups : LookupOK(look[l], clock, left)
  BY <1>5, Zenon DEF LookupOK
<1>7. BuildOK(look, entry)
  BY <1>5, Zenon DEF BuildOK
<1>8. LabelOK(label, clock, left) /\ EntryOK(entry, clock, left)
  BY EmptyOK, Zenon DEF Init
<1> QED
  BY <1>1, <1>2, <1>3, <1>4, <1>6, <1>7, <1>8, Zenon DEF RegistryInv, Init

-----------------------------------------------------------------------------
(* Lookups *)

\* A step of one lookup that does not begin to build.
LEMMA LookStep ==
    ASSUME RegistryInv, NEW l \in Lookups, NEW k \in LookRecord, LookupOK(k, clock, left),
           k.pc # "building", look' = [look EXCEPT ![l] = k],
           UNCHANGED <<lifeVars, clock, label, entry, dropped, left>>
    PROVE  RegistryInv'
<1>1. LifeInv'
  BY LifeStutter, Zenon DEF RegistryInv
<1>2. UNCHANGED <<row, destroyed, clock, label, entry, dropped, left>>
  BY Zenon DEF lifeVars
<1>3. TypeOK'
  BY <1>1, <1>2, Zenon DEF RegistryInv, TypeOK, LifeInv
<1>4. \A j \in Lookups : look'[j] = IF j = l THEN k ELSE look[j]
  BY Zenon DEF RegistryInv, TypeOK
<1>5. \A j \in Lookups : LookupOK(look'[j], clock', left')
  BY <1>2, <1>4, Zenon DEF RegistryInv
<1>6. BuildOK(look', entry')
  BY <1>2, <1>4 DEF RegistryInv, BuildOK
<1>7. LeftOK(row', destroyed', left') /\ LabelOK(label', clock', left') /\ EntryOK(entry', clock', left')
      /\ clock' <= MaxTime
  BY <1>2, Zenon DEF RegistryInv
<1> QED
  BY <1>1, <1>3, <1>5, <1>6, <1>7, Zenon DEF RegistryInv

\* The types the arithmetic of the bounds needs.
LEMMA Types ==
    ASSUME RegistryInv
    PROVE  /\ clock \in Nat /\ MaxTime \in Nat /\ clock <= MaxTime /\ TTL \in Nat /\ TTL > 0
           /\ left.active \in Nat /\ left.usable \in Nat
           /\ row \in RowRecord /\ label \in CacheRecord /\ entry \in CacheRecord
           /\ \A l \in Lookups : look[l] \in LookRecord
           /\ row.protected \in BOOLEAN /\ label.row.protected \in BOOLEAN
           /\ entry.row.protected \in BOOLEAN
           /\ label.expires \in Nat /\ entry.expires \in Nat
BY RegistryAssumption DEF RegistryInv, TypeOK, LifeInv, LifeTypeOK, CacheRecord, RowRecord

\* The same for the numbers alone.
LEMMA Numbers ==
    ASSUME RegistryInv
    PROVE  /\ clock \in Nat /\ TTL \in Nat /\ left.active \in Nat /\ left.usable \in Nat
           /\ label.expires \in Nat /\ entry.expires \in Nat
BY Types, Zenon

\* A row that is read now is Active, or has its wrapped key, only while it
\* has not left Active, or has not been destroyed.
LEMMA ReadNow ==
    ASSUME RegistryInv
    PROVE  /\ row.status = "Active" => clock <= left.active
           /\ row.protected = TRUE => clock <= left.usable
<1>1. clock <= Never
  BY Types DEF Never
<1>2. row.status = "Active" => left.active = Never
  BY Zenon DEF RegistryInv, LeftOK
<1>3. row.protected = TRUE => left.usable = Never
  BY Zenon DEF RegistryInv, LeftOK, LifeInv, LifeTypeOK, RowOK
<1> QED
  BY <1>1, <1>2, <1>3, Zenon

\* A row found in memory, or just read, may go on to the built issuer: a sign
\* request only with an Active one.
LEMMA ResolvedOK ==
    ASSUME RegistryInv, NEW r \in RowRecord,
           r.status = "Active" => clock <= left.active + TTL,
           r.protected = TRUE => clock <= left.usable + TTL
    PROVE  Resolved(r) \in LookRecord /\ LookupOK(Resolved(r), clock, left)
           /\ Resolved(r).pc # "building"
<1>1. CASE r.status = "Active"
  <2>1. Resolved(r) = LookAt("entry", "sign", r)
    BY <1>1, Zenon DEF Resolved
  <2> QED
    BY <1>1, <2>1 DEF LookAt, LookRecord, LookupOK
<1>2. CASE r.status # "Active"
  <2>1. Resolved(r) = NoLook
    BY <1>2, Zenon DEF Resolved
  <2> QED
    BY <2>1, NothingOK, Zenon DEF LookupOK
<1> QED
  BY <1>1, <1>2, Zenon

\* FindCached: a label in memory has not expired.
LEMMA FindCachedStep ==
    ASSUME RegistryInv, NEW l \in Lookups, FindCached(l), UNCHANGED lifeVars
    PROVE  RegistryInv'
<1>1. label # Nothing /\ LabelOK(label, clock, left)
  BY Zenon DEF FindCached, Holds, RegistryInv
<1>2. label.row \in RowRecord
  BY Types, Zenon DEF CacheRecord
<1>3. /\ label.row.status = "Active" => clock <= left.active + TTL
      /\ label.row.protected = TRUE => clock <= left.usable + TTL
  BY <1>1, Types DEF LabelOK, CacheOK
<1>4. /\ Resolved(label.row) \in LookRecord /\ LookupOK(Resolved(label.row), clock, left)
      /\ Resolved(label.row).pc # "building"
  BY <1>2, <1>3, ResolvedOK, Zenon
<1> QED
  BY <1>4, LookStep, Zenon DEF FindCached

\* FindRead: the row is read now.
LEMMA FindReadStep ==
    ASSUME RegistryInv, NEW l \in Lookups, FindRead(l), UNCHANGED lifeVars
    PROVE  RegistryInv'
<1> DEFINE k == LookAt("fill", "sign", row)
<1>1. k \in LookRecord /\ k.pc = "fill" /\ k.row = row
  BY Types, Zenon DEF LookAt, LookRecord
<1>2. look' = [look EXCEPT ![l] = k] /\ UNCHANGED <<clock, label, entry, dropped, left>>
  BY Zenon DEF FindRead
<1> HIDE DEF k
<1>3. LookupOK(k, clock, left)
  BY <1>1, ReadNow, Zenon DEF LookupOK
<1> QED
  BY <1>1, <1>2, <1>3, LookStep, Zenon

\* SkidRead: the row is read now.
LEMMA SkidReadStep ==
    ASSUME RegistryInv, NEW l \in Lookups, SkidRead(l), UNCHANGED lifeVars
    PROVE  RegistryInv'
<1> DEFINE k == LookAt("entry", "ocsp", row)
<1>1. k \in LookRecord /\ k.pc = "entry" /\ k.kind = "ocsp" /\ k.row = row
  BY Types, Zenon DEF LookAt, LookRecord
<1>2. look' = [look EXCEPT ![l] = k] /\ UNCHANGED <<clock, label, entry, dropped, left>>
  BY Zenon DEF SkidRead
<1> HIDE DEF k
<1>3. ASSUME row.protected = TRUE PROVE clock <= left.usable + TTL
  <2>1. clock <= left.usable
    BY <1>3, ReadNow, Zenon
  <2> QED
    BY <2>1, Numbers
<1>4. LookupOK(k, clock, left)
  BY <1>1, <1>3, Zenon DEF LookupOK
<1> QED
  BY <1>1, <1>2, <1>4, LookStep, Zenon

\* The built issuer in memory may be used.
LEMMA EntryUsable ==
    ASSUME RegistryInv, entry # Nothing, entry.row.key \in Wrapped
    PROVE  clock <= left.usable + 2 * TTL
<1>1. entry.row.protected = TRUE
  BY Zenon DEF RegistryInv, EntryOK
<1>2. clock <= entry.expires /\ entry.expires <= left.usable + 2 * TTL
  BY <1>1, Zenon DEF RegistryInv, EntryOK, CacheOK
<1> QED
  BY <1>2, Numbers

\* SkidCached: a built issuer in memory has not expired.
LEMMA SkidCachedStep ==
    ASSUME RegistryInv, NEW l \in Lookups, SkidCached(l), UNCHANGED lifeVars
    PROVE  RegistryInv'
<1> DEFINE k == LookAt("use", "ocsp", entry.row)
<1>1. k \in LookRecord /\ k.pc = "use" /\ k.kind = "ocsp" /\ k.row = entry.row
  BY Types, Zenon DEF LookAt, LookRecord, CacheRecord
<1>2. look' = [look EXCEPT ![l] = k] /\ UNCHANGED <<clock, label, entry, dropped, left>>
  BY Zenon DEF SkidCached
<1> HIDE DEF k
<1>3. LookupOK(k, clock, left)
  BY <1>1, EntryUsable, Zenon DEF LookupOK, SkidCached, Holds
<1> QED
  BY <1>1, <1>2, <1>3, LookStep, Zenon

\* EntryHit: the built issuer is used, for what the row allowed.
LEMMA EntryHitStep ==
    ASSUME RegistryInv, NEW l \in Lookups, EntryHit(l), UNCHANGED lifeVars
    PROVE  RegistryInv'
<1> DEFINE k == [look[l] EXCEPT !.pc = "use", !.row = entry.row]
<1>0. look[l] \in LookRecord /\ look[l].pc = "entry" /\ LookupOK(look[l], clock, left)
  BY Types, Zenon DEF RegistryInv, EntryHit
<1>1. k \in LookRecord /\ k.pc = "use" /\ k.kind = look[l].kind /\ k.row = entry.row
  BY <1>0, Types, Zenon DEF LookRecord, CacheRecord
<1>2. look' = [look EXCEPT ![l] = k] /\ UNCHANGED <<clock, label, entry, dropped, left>>
  BY Zenon DEF EntryHit, RegistryInv, TypeOK
<1> HIDE DEF k
<1>3. LookupOK(k, clock, left)
  BY <1>0, <1>1, EntryUsable, Zenon DEF LookupOK, EntryHit, Fresh, Holds
<1> QED
  BY <1>1, <1>2, <1>3, LookStep, Zenon

\* LookupEnd: the lookup is over.
LEMMA LookupEndStep ==
    ASSUME RegistryInv, NEW l \in Lookups, LookupEnd(l), UNCHANGED lifeVars
    PROVE  RegistryInv'
<1>1. LookupOK(NoLook, clock, left)
  BY NothingOK, Zenon DEF LookupOK
<1> QED
  BY <1>1, NothingOK, LookStep, Zenon DEF LookupEnd

\* A cached row expires a TTL from now.
LEMMA CachedOK ==
    ASSUME RegistryInv, NEW r \in RowRecord
    PROVE  /\ Cached(r) \in CacheRecord /\ Cached(r).row = r /\ Cached(r).expires = clock + TTL
           /\ CacheOK(Cached(r), clock)
<1>1. Cached(r) \in CacheRecord /\ Cached(r).row = r /\ Cached(r).expires = clock + TTL
  BY Numbers DEF Cached, CacheRecord
<1> QED
  BY <1>1, Numbers DEF CacheOK

\* FillLabel: what was read is cached as of now, since no time passes within
\* a lookup, even when a request has changed the row meanwhile.
LEMMA FillLabelStep ==
    ASSUME RegistryInv, NEW l \in Lookups, FillLabel(l), UNCHANGED lifeVars
    PROVE  RegistryInv'
<1> DEFINE r == look[l].row
           k == Resolved(r)
<1>1. look[l] \in LookRecord /\ look[l].pc = "fill" /\ LookupOK(look[l], clock, left)
  BY Types, Zenon DEF RegistryInv, FillLabel
<1>2. r \in RowRecord
  BY <1>1, Zenon DEF LookRecord
<1>3. (r.status = "Active" => clock <= left.active) /\ (r.protected = TRUE => clock <= left.usable)
  BY <1>1, Zenon DEF LookupOK
<1>4. (clock <= left.active => clock <= left.active + TTL /\ clock + TTL <= left.active + TTL)
      /\ (clock <= left.usable => clock <= left.usable + TTL /\ clock + TTL <= left.usable + TTL)
  BY Numbers
<1>5. k \in LookRecord /\ LookupOK(k, clock, left) /\ k.pc # "building"
  BY <1>2, <1>3, <1>4, ResolvedOK, Zenon
<1>6. /\ label' = Cached(r) /\ look' = [look EXCEPT ![l] = k]
      /\ UNCHANGED <<row, destroyed, clock, entry, dropped, left>>
  BY Zenon DEF FillLabel, lifeVars
<1> HIDE DEF k, r
<1>7. label' \in CacheRecord /\ label'.row = r /\ label'.expires = clock + TTL /\ CacheOK(label', clock)
  BY <1>2, <1>6, CachedOK, Zenon
<1>8. LabelOK(label', clock', left')
  BY <1>3, <1>4, <1>6, <1>7, Zenon DEF LabelOK
<1>9. LifeInv'
  BY LifeStutter, Zenon DEF RegistryInv
<1>10. TypeOK'
  BY <1>5, <1>6, <1>7, <1>9, Zenon DEF RegistryInv, TypeOK, LifeInv
<1>11. \A j \in Lookups : look'[j] = IF j = l THEN k ELSE look[j]
  BY <1>6, Zenon DEF RegistryInv, TypeOK
<1>12. \A j \in Lookups : LookupOK(look'[j], clock', left')
  BY <1>5, <1>6, <1>11, Zenon DEF RegistryInv
<1>13. BuildOK(look', entry')
  BY <1>5, <1>6, <1>11 DEF RegistryInv, BuildOK
<1>14. LeftOK(row', destroyed', left') /\ EntryOK(entry', clock', left') /\ clock' <= MaxTime
  BY <1>6, Zenon DEF RegistryInv
<1> QED
  BY <1>8, <1>9, <1>10, <1>12, <1>13, <1>14, Zenon DEF RegistryInv

\* EntryBuild: the lock is free and the built issuer is older, or missing.
LEMMA EntryBuildStep ==
    ASSUME RegistryInv, NEW l \in Lookups, EntryBuild(l), UNCHANGED lifeVars
    PROVE  RegistryInv'
<1> DEFINE k == [look[l] EXCEPT !.pc = "building"]
<1>1. look[l] \in LookRecord /\ look[l].pc = "entry" /\ LookupOK(look[l], clock, left)
  BY Types, Zenon DEF RegistryInv, EntryBuild
<1>2. k \in LookRecord /\ k.pc = "building" /\ k.kind = look[l].kind /\ k.row = look[l].row
  BY <1>1, Zenon DEF LookRecord
<1>3. /\ look' = [look EXCEPT ![l] = k]
      /\ UNCHANGED <<row, destroyed, clock, label, entry, dropped, left>>
  BY Zenon DEF EntryBuild, lifeVars, RegistryInv, TypeOK
<1> HIDE DEF k
<1>4. LookupOK(k, clock, left)
  BY <1>1, <1>2, Zenon DEF LookupOK
<1>5. LifeInv'
  BY LifeStutter, Zenon DEF RegistryInv
<1>6. TypeOK'
  BY <1>2, <1>3, <1>5, Zenon DEF RegistryInv, TypeOK, LifeInv
<1>7. \A j \in Lookups : look'[j] = IF j = l THEN k ELSE look[j]
  BY <1>3, Zenon DEF RegistryInv, TypeOK
<1>8. \A j \in Lookups : LookupOK(look'[j], clock', left')
  BY <1>3, <1>4, <1>7, Zenon DEF RegistryInv
<1>9. entry = Nothing \/ newer(k.row, entry.row)
  BY <1>2, Zenon DEF EntryBuild, Fresh, Holds
<1>10. \A j \in Lookups : look[j].pc # "building"
  BY Zenon DEF EntryBuild, Building
<1>11. BuildOK(look', entry')
  BY <1>3, <1>7, <1>9, <1>10 DEF BuildOK
<1>12. LeftOK(row', destroyed', left') /\ LabelOK(label', clock', left') /\ EntryOK(entry', clock', left')
       /\ clock' <= MaxTime
  BY <1>3, Zenon DEF RegistryInv
<1> QED
  BY <1>5, <1>6, <1>8, <1>11, <1>12, Zenon DEF RegistryInv

\* Built: the issuer is built from a row whose key was in the row at most a
\* TTL ago, and lives for a TTL.
LEMMA BuiltStep ==
    ASSUME RegistryInv, NEW l \in Lookups, Built(l), UNCHANGED lifeVars
    PROVE  RegistryInv'
<1> DEFINE r == look[l].row
<1>1. look[l] \in LookRecord /\ look[l].pc = "building" /\ LookupOK(look[l], clock, left)
  BY Types, Zenon DEF RegistryInv, Built
<1>2. CASE r.cert # NoCert /\ Loadable(r)
  <2> DEFINE k == [look[l] EXCEPT !.pc = "use"]
  <2>1. k \in LookRecord /\ k.pc = "use" /\ k.kind = look[l].kind /\ k.row = r /\ r \in RowRecord
    BY <1>1, Zenon DEF LookRecord
  <2>2. /\ entry' = Cached(r) /\ look' = [look EXCEPT ![l] = k]
        /\ UNCHANGED <<row, destroyed, clock, label, dropped, left>>
    BY <1>2, Zenon DEF Built, lifeVars, RegistryInv, TypeOK
  <2>3. r.key \in Wrapped => r.protected = TRUE
    BY <1>2, <2>1, Zenon DEF Loadable, RowRecord
  <2>4. r.protected = TRUE => clock <= left.usable + TTL
    BY <1>1, Zenon DEF LookupOK
  <2>5. look[l].kind = "sign" => clock <= left.active + TTL
    BY <1>1, Zenon DEF LookupOK
  <2> HIDE DEF k, r
  <2>6. clock <= left.usable + TTL
          => clock <= left.usable + 2 * TTL /\ clock + TTL <= left.usable + 2 * TTL
    BY Numbers
  <2>7. LookupOK(k, clock, left)
    BY <2>1, <2>3, <2>4, <2>5, <2>6, Zenon DEF LookupOK
  <2>8. entry' \in CacheRecord /\ entry'.row = r /\ entry'.expires = clock + TTL /\ CacheOK(entry', clock)
    BY <2>1, <2>2, CachedOK, Zenon
  <2>9. EntryOK(entry', clock', left')
    BY <2>2, <2>3, <2>4, <2>6, <2>8, Zenon DEF EntryOK
  <2>10. LifeInv'
    BY LifeStutter, Zenon DEF RegistryInv
  <2>11. TypeOK'
    BY <2>1, <2>2, <2>8, <2>10, Zenon DEF RegistryInv, TypeOK, LifeInv
  <2>12. \A j \in Lookups : look'[j] = IF j = l THEN k ELSE look[j]
    BY <2>2, Zenon DEF RegistryInv, TypeOK
  <2>13. \A j \in Lookups : LookupOK(look'[j], clock', left')
    BY <2>2, <2>7, <2>12, Zenon DEF RegistryInv
  <2>14. \A j \in Lookups : look'[j].pc # "building"
    BY <1>1, <2>1, <2>12, Zenon DEF RegistryInv, BuildOK
  <2>15. BuildOK(look', entry')
    BY <2>14, Zenon DEF BuildOK
  <2>16. LeftOK(row', destroyed', left') /\ LabelOK(label', clock', left') /\ clock' <= MaxTime
    BY <2>2, Zenon DEF RegistryInv
  <2> QED
    BY <2>9, <2>10, <2>11, <2>13, <2>15, <2>16, Zenon DEF RegistryInv
<1>3. CASE ~(r.cert # NoCert /\ Loadable(r))
  <2>1. LookupOK(NoLook, clock, left)
    BY NothingOK, Zenon DEF LookupOK
  <2>2. look' = [look EXCEPT ![l] = NoLook] /\ UNCHANGED <<clock, label, entry, dropped, left>>
    BY <1>3, Zenon DEF Built
  <2> QED
    BY <2>1, <2>2, NothingOK, LookStep, Zenon
<1> QED
  BY <1>2, <1>3, Zenon

-----------------------------------------------------------------------------
(* Caches, time and mutations *)

\* A step that at most drops values from the caches.
LEMMA ForgetStep ==
    ASSUME RegistryInv, LifeInv', label' \in {label, Nothing}, entry' \in {entry, Nothing},
           dropped' \in SUBSET Admins, UNCHANGED <<row, destroyed, clock, look, left>>
    PROVE  RegistryInv'
<1>1. TypeOK'
  BY NothingOK, Zenon DEF RegistryInv, TypeOK, LifeInv
<1>2. LabelOK(label', clock', left') /\ EntryOK(entry', clock', left')
  BY EmptyOK, Zenon DEF RegistryInv
<1>3. BuildOK(look', entry')
  BY Zenon DEF RegistryInv, BuildOK
<1>4. LeftOK(row', destroyed', left') /\ clock' <= MaxTime
      /\ \A l \in Lookups : LookupOK(look'[l], clock', left')
  BY Zenon DEF RegistryInv
<1> QED
  BY <1>1, <1>2, <1>3, <1>4, Zenon DEF RegistryInv

\* Evict drops one value.
LEMMA EvictStep ==
    ASSUME RegistryInv, Evict, UNCHANGED lifeVars
    PROVE  RegistryInv'
<1>1. LifeInv'
  BY LifeStutter, Zenon DEF RegistryInv
<1>2. UNCHANGED <<row, destroyed>>
  BY Zenon DEF lifeVars
<1>3. label' \in {label, Nothing} /\ entry' \in {entry, Nothing}
  BY Zenon DEF Evict
<1>4. dropped' \in SUBSET Admins
  BY Zenon DEF Evict, RegistryInv, TypeOK
<1> QED
  BY <1>1, <1>2, <1>3, <1>4, ForgetStep, Zenon DEF Evict

\* InvalidateIssuer drops the built issuer and then the label.
LEMMA DropStep ==
    ASSUME RegistryInv, NEW a \in Admins, DropEntry(a) \/ DropLabel(a)
    PROVE  RegistryInv'
<1>1. [LifeNext]_lifeVars
  BY Zenon DEF DropEntry, DropLabel, LifeNext
<1>2. LifeInv'
  BY <1>1, LifeStep, Zenon DEF RegistryInv
<1>3. UNCHANGED <<row, destroyed, clock, look, left>>
  BY Zenon DEF DropEntry, DropLabel, lifeVars, InvalidateIssuer
<1>4. label' \in {label, Nothing} /\ entry' \in {entry, Nothing} /\ dropped' \in SUBSET Admins
  BY Zenon DEF DropEntry, DropLabel, RegistryInv, TypeOK
<1> QED
  BY <1>2, <1>3, <1>4, ForgetStep, Zenon

\* Tick: a value whose expiry has passed is gone, and no lookup is under way.
LEMMA TickStep ==
    ASSUME RegistryInv, Tick, UNCHANGED lifeVars
    PROVE  RegistryInv'
<1>1. LifeInv'
  BY LifeStutter, Zenon DEF RegistryInv
<1>2. UNCHANGED <<row, destroyed, look, dropped, left>> /\ clock' = clock + 1 /\ clock < MaxTime
  BY Zenon DEF lifeVars, Tick
<1>3. clock' \in Nat /\ clock' <= MaxTime /\ clock <= clock'
  BY <1>2, Types
<1>4. /\ label' = Nothing \/ (label' = label /\ ~(label.expires < clock'))
      /\ entry' = Nothing \/ (entry' = entry /\ ~(entry.expires < clock'))
  BY Zenon DEF Tick
<1>5. TypeOK'
  BY <1>1, <1>2, <1>3, <1>4, NothingOK, Zenon DEF RegistryInv, TypeOK, LifeInv
<1>6. LabelOK(label', clock', left')
  <2>1. CASE label' = Nothing
    BY <2>1, EmptyOK, Zenon
  <2>2. CASE label' = label /\ ~(label.expires < clock')
    <3>1. clock' <= label.expires
      BY <1>3, <2>2, Numbers
    <3>2. label # Nothing => label.expires <= clock' + TTL
      <4>1. label # Nothing => label.expires <= clock + TTL
        BY Zenon DEF RegistryInv, LabelOK, CacheOK
      <4>2. label.expires <= clock + TTL => label.expires <= clock' + TTL
        BY <1>2, Numbers
      <4> QED
        BY <4>1, <4>2, Zenon
    <3>3. CacheOK(label', clock')
      BY <2>2, <3>1, <3>2, Zenon DEF CacheOK
    <3> QED
      BY <1>2, <2>2, <3>3, Zenon DEF RegistryInv, LabelOK
  <2> QED
    BY <1>4, <2>1, <2>2, Zenon
<1>7. EntryOK(entry', clock', left')
  <2>1. CASE entry' = Nothing
    BY <2>1, EmptyOK, Zenon
  <2>2. CASE entry' = entry /\ ~(entry.expires < clock')
    <3>1. clock' <= entry.expires
      BY <1>3, <2>2, Numbers
    <3>2. entry # Nothing => entry.expires <= clock' + TTL
      <4>1. entry # Nothing => entry.expires <= clock + TTL
        BY Zenon DEF RegistryInv, EntryOK, CacheOK
      <4>2. entry.expires <= clock + TTL => entry.expires <= clock' + TTL
        BY <1>2, Numbers
      <4> QED
        BY <4>1, <4>2, Zenon
    <3>3. CacheOK(entry', clock')
      BY <2>2, <3>1, <3>2, Zenon DEF CacheOK
    <3> QED
      BY <1>2, <2>2, <3>3, Zenon DEF RegistryInv, EntryOK
  <2> QED
    BY <1>4, <2>1, <2>2, Zenon
<1>8. \A l \in Lookups : look'[l].pc = "idle"
  BY <1>2, Zenon DEF Tick
<1>9. (\A l \in Lookups : LookupOK(look'[l], clock', left')) /\ BuildOK(look', entry')
  BY <1>8, Zenon DEF LookupOK, BuildOK
<1>10. LeftOK(row', destroyed', left')
  BY <1>2, Zenon DEF RegistryInv
<1> QED
  BY <1>1, <1>3, <1>5, <1>6, <1>7, <1>9, <1>10, Zenon DEF RegistryInv

\* A time of left becomes now: every bound it gives still holds.
LEMMA LeftMoves ==
    ASSUME RegistryInv, NEW m, m.active \in {left.active, clock}, m.usable \in {left.usable, clock}
    PROVE  /\ LabelOK(label, clock, m) /\ EntryOK(entry, clock, m)
           /\ \A l \in Lookups : LookupOK(look[l], clock, m)
<1>1. /\ clock <= clock + TTL /\ clock <= clock + 2 * TTL /\ clock + TTL <= clock + 2 * TTL
      /\ \A e \in Nat : e <= clock + TTL => e <= clock + 2 * TTL
  BY Numbers
<1>2. LabelOK(label, clock, m)
  <2>1. CASE label = Nothing
    BY <2>1, EmptyOK, Zenon
  <2>2. CASE label # Nothing
    BY <2>2, Zenon DEF RegistryInv, LabelOK, CacheOK
  <2> QED
    BY <2>1, <2>2, Zenon
<1>3. EntryOK(entry, clock, m)
  <2>1. CASE entry = Nothing
    BY <2>1, EmptyOK, Zenon
  <2>2. CASE entry # Nothing
    BY <1>1, <2>2, Numbers, Zenon DEF RegistryInv, EntryOK, CacheOK
  <2> QED
    BY <2>1, <2>2, Zenon
<1>4. ASSUME NEW l \in Lookups PROVE LookupOK(look[l], clock, m)
  <2>1. clock <= clock
    BY Numbers
  <2> QED
    BY <1>1, <2>1, Zenon DEF RegistryInv, LookupOK
<1> QED
  BY <1>2, <1>3, <1>4, Zenon

\* Mutate: a row that leaves Active or loses its key does so now.
LEMMA MutateStep ==
    ASSUME RegistryInv, NEW a \in Admins, Mutate(a)
    PROVE  RegistryInv'
<1>1. LifeNext /\ UNCHANGED <<clock, label, entry, look, dropped>>
  BY Zenon DEF Mutate, LifeNext
<1>2. LifeInv'
  BY <1>1, LifeStep, Zenon DEF RegistryInv
<1>3. /\ left'.active = IF row.status = "Active" /\ row'.status # "Active" THEN clock ELSE left.active
      /\ left'.usable = IF destroyed' /\ ~destroyed THEN clock ELSE left.usable
      /\ left' = [active |-> left'.active, usable |-> left'.usable]
  BY Zenon DEF Mutate
<1>4. left' \in [active : Nat, usable : Nat]
  BY <1>3, Numbers, Zenon
<1>5. left'.active \in {left.active, clock} /\ left'.usable \in {left.usable, clock}
  BY <1>3, Zenon
<1>6. /\ LabelOK(label, clock, left') /\ EntryOK(entry, clock, left')
      /\ \A l \in Lookups : LookupOK(look[l], clock, left')
  BY <1>5, LeftMoves
<1>7. TypeOK'
  BY <1>1, <1>2, <1>4, Zenon DEF RegistryInv, TypeOK, LifeInv
<1>8. LeftOK(row', destroyed', left')
  <2>1. ASSUME row'.status \notin {"Archived", "Destroyed"} PROVE left'.active = Never
    <3>1. row.status \notin {"Archived", "Destroyed"} /\ (row.status = "Active" => row'.status = "Active")
      BY <1>1, <2>1, RowMoves, Zenon DEF RegistryInv, Inserted, Activated, Updated
    <3> QED
      BY <1>3, <3>1, Zenon DEF RegistryInv, LeftOK
  <2>2. ASSUME destroyed' = FALSE PROVE left'.usable = Never
    <3>1. destroyed \in BOOLEAN
      BY Zenon DEF RegistryInv, LifeInv, LifeTypeOK
    <3>2. destroyed' = destroyed \/ \E q \in Admins : destroyed' = (destroyed \/ req[q].target = "Destroyed")
      BY <1>1, Zenon DEF LifeNext, HandlerNext, NewIssuer, ImportIssuer, InsertIssuer, ActivateRead, ActivateWrite,
                  UpdateRead, UpdateBegin, UpdateWrite, DestroyKey, InvalidateIssuer, RequestFail
    <3>3. destroyed = FALSE
      BY <2>2, <3>1, <3>2, Zenon
    <3> QED
      BY <1>3, <2>2, <3>3, Zenon DEF RegistryInv, LeftOK
  <2> QED
    BY <2>1, <2>2, Zenon DEF LeftOK
<1>9. clock' <= MaxTime /\ BuildOK(look', entry')
  BY <1>1, Zenon DEF RegistryInv
<1>10. /\ LabelOK(label', clock', left') /\ EntryOK(entry', clock', left')
       /\ \A l \in Lookups : LookupOK(look'[l], clock', left')
  BY <1>1, <1>6, Zenon
<1> QED
  BY <1>2, <1>7, <1>8, <1>9, <1>10, Zenon DEF RegistryInv

\* Every step keeps the invariant.
LEMMA RegistryStep == RegistryInv /\ [Next]_vars => RegistryInv'
<1> SUFFICES ASSUME RegistryInv, [Next]_vars PROVE RegistryInv'
  BY Zenon
<1>1. CASE Tick /\ UNCHANGED lifeVars
  BY <1>1, TickStep, Zenon
<1>2. CASE Evict /\ UNCHANGED lifeVars
  BY <1>2, EvictStep, Zenon
<1>3. ASSUME NEW l \in Lookups, UNCHANGED lifeVars,
             \/ FindCached(l) \/ FindRead(l) \/ SkidCached(l) \/ SkidRead(l)
             \/ FillLabel(l) \/ EntryHit(l) \/ EntryBuild(l) \/ Built(l) \/ LookupEnd(l)
      PROVE  RegistryInv'
  BY <1>3, FindCachedStep, FindReadStep, SkidCachedStep, SkidReadStep, FillLabelStep, EntryHitStep, Zenon,
     EntryBuildStep, BuiltStep, LookupEndStep
<1>4. ASSUME NEW a \in Admins, Mutate(a) PROVE RegistryInv'
  BY <1>4, MutateStep, Zenon
<1>5. ASSUME NEW a \in Admins, DropEntry(a) \/ DropLabel(a) PROVE RegistryInv'
  BY <1>5, DropStep, Zenon
<1>6. CASE UNCHANGED vars
  <2>1. UNCHANGED lifeVars /\ UNCHANGED <<clock, label, entry, look, dropped, left>>
    BY <1>6, Zenon DEF vars, cacheVars
  <2>2. LifeInv' /\ UNCHANGED <<row, destroyed>>
    BY <2>1, LifeStutter, Zenon DEF RegistryInv, lifeVars
  <2>3. dropped' \in SUBSET Admins
    BY <2>1, Zenon DEF RegistryInv, TypeOK
  <2> QED
    BY <2>1, <2>2, <2>3, ForgetStep, Zenon
<1> QED
  BY <1>1, <1>2, <1>3, <1>4, <1>5, <1>6, Zenon DEF Next, LookupNext

-----------------------------------------------------------------------------

\* The inductive invariant holds in every reachable state.
THEOREM RegistrySafe == Spec => []RegistryInv
BY RegistryInitially, RegistryStep, PTL DEF Spec

\* An issuer that left Active signs for at most the TTL on an instance,
\* whatever lookups race the changes of its row.
THEOREM SignsWithinTTLCorrect == Spec => []SignsWithinTTL
<1>1. RegistryInv => SignsWithinTTL
  BY Zenon DEF RegistryInv, LookupOK, SignsWithinTTL
<1> QED
  BY <1>1, RegistrySafe, PTL

\* A destroyed issuer answers with its wrapped key for at most twice the TTL.
THEOREM AnswersWithinTwoTTLCorrect == Spec => []AnswersWithinTwoTTL
<1>1. RegistryInv => AnswersWithinTwoTTL
  BY Zenon DEF RegistryInv, LookupOK, AnswersWithinTwoTTL
<1> QED
  BY <1>1, RegistrySafe, PTL

\* A built issuer is replaced in place only by one of a newer row: the build
\* lock keeps a slow build from overwriting it.
THEOREM EntryMovesForwardCorrect == Spec => EntryMovesForward
<1>1. RegistryInv /\ [Next]_vars
        => [Holds(entry) /\ Holds(entry') /\ entry'.row # entry.row =>
               entry'.row.updatedAt > entry.row.updatedAt]_vars
  <2> SUFFICES ASSUME RegistryInv, Next, entry # Nothing, entry' # Nothing, entry'.row # entry.row
               PROVE  entry'.row.updatedAt > entry.row.updatedAt
    BY Zenon DEF Holds
  <2>1. PICK l \in Lookups : Built(l)
    BY Zenon DEF Next, LookupNext, Tick, Evict, FindCached, FindRead, SkidCached, SkidRead, FillLabel,
           EntryHit, EntryBuild, LookupEnd, Mutate, DropEntry, DropLabel
  <2>2. entry' = Cached(look[l].row)
    BY <2>1, Zenon DEF Built
  <2>3. entry'.row = look[l].row
    BY <2>2, Zenon DEF Cached
  <2>4. newer(look[l].row, entry.row)
    BY <2>1, Zenon DEF Built, RegistryInv, BuildOK
  <2> QED
    BY <2>3, <2>4, Zenon DEF newer
<1> QED
  BY <1>1, RegistrySafe, PTL DEF Spec, EntryMovesForward
=============================================================================
