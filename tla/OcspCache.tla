------------------------------ MODULE OcspCache ------------------------------
(***************************************************************************)
(* The OCSP responder of one AIA instance: the handlers that answer a      *)
(* request from the response cache or have the CA sign an answer, over the *)
(* certificate tables of CertStatus.  Instances share nothing but the      *)
(* tables.  The requests of one certificate have one encoding, the key of  *)
(* the cache.                                                              *)
(***************************************************************************)
EXTENDS CertStatus

CONSTANTS
    OcspExpiry,    \* ocsp_expiry of the issuer
    CallTimeout    \* caCallTimeout

ASSUME OcspCacheAssumption == OcspExpiry \in Nat \ {0} /\ CallTimeout \in Nat

VARIABLES
    aia,    \* the handlers, one for each SignOCSP call of Lookups
    cache,  \* the response kept for each certificate
    ended   \* history: when the database last ceased to hold each answer

ocspVars == <<clock, status, revoked, rv, task, look, aia, cache, ended>>

Answers == {"good", "unknown", "revoked"}

\* The answer the database holds for c.
Truth(c) ==
    IF c \notin Rows THEN "unknown" ELSE IF status[c] = "Revoked" THEN "revoked" ELSE "good"

\* A handler at a step of a request for c that came at now, a handler that
\* has none, and a key of the cache without a response.
At(pc, c, now, answer, until) ==
    [pc |-> pc, cert |-> c, now |-> now, answer |-> answer, nextUpdate |-> until]
Idle == At("idle", 0, 0, "none", 0)
Empty == [answer |-> "none", nextUpdate |-> 0]

\* How long after it stopped holding an answer may still be given.
Staleness == OcspExpiry + CallTimeout

OcspInit ==
    /\ CertInit
    /\ aia = [l \in Lookups |-> Idle]
    /\ cache = [c \in Certs |-> Empty]
    /\ ended = [c \in Certs |-> [a \in Answers |-> -Staleness]]

-----------------------------------------------------------------------------
(* The handler *)

\* Variant: an expired response stays valid.
getForever(c, now) == cache[c].answer # "none"

\* ocspCache.get: a response is valid before its NextUpdate.
get(c, now) == cache[c].answer # "none" /\ now < cache[c].nextUpdate

\* ocspResponse answers from the cache, or drops what has expired and asks
\* the CA.
CacheGet(l, c) ==
    /\ aia[l].pc \in {"idle", "served"}
    /\ aia' = [aia EXCEPT ![l] =
                  IF get(c, clock)
                  THEN At("served", c, clock, cache[c].answer, 0)
                  ELSE At("miss", c, clock, "none", 0)]
    /\ cache' = IF get(c, clock) THEN cache ELSE [cache EXCEPT ![c] = Empty]
    /\ UNCHANGED <<clock, status, revoked, rv, task, look, ended>>

\* The two reads of SignOCSP.
CallSignOCSP(l) ==
    /\ aia[l].pc = "miss"
    /\ OcspGetCertificate(l, aia[l].cert)
    /\ aia' = [aia EXCEPT ![l].pc = "call"]
    /\ UNCHANGED <<cache, ended>>

ReadRevoked(l) ==
    /\ aia[l].pc = "call"
    /\ OcspGetRevoked(l)
    /\ UNCHANGED <<aia, cache, ended>>

\* Issuer.SignOCSP of the authority library: the NextUpdate is the OCSP
\* expiry of the issuer after a ThisUpdate that is not later than now.
SignedUntil == clock .. clock + OcspExpiry

\* SignOCSP signs what it read.
Sign(l) ==
    /\ aia[l].pc = "call"
    /\ look[l].pc \in Answers
    /\ \E until \in SignedUntil :
          aia' = [aia EXCEPT ![l] = At("signed", @.cert, @.now, look[l].pc, until)]
    /\ UNCHANGED <<clock, status, revoked, rv, task, look, cache, ended>>

\* The handler keeps the response unless it had expired when the request
\* came, over whatever another handler kept meanwhile, and writes it.
CacheAdd(l) ==
    /\ aia[l].pc = "signed"
    /\ cache' = IF aia[l].now < aia[l].nextUpdate
                THEN [cache EXCEPT ![aia[l].cert] =
                         [answer |-> aia[l].answer, nextUpdate |-> aia[l].nextUpdate]]
                ELSE cache
    /\ aia' = [aia EXCEPT ![l] = At("served", @.cert, clock, @.answer, 0)]
    /\ look' = [look EXCEPT ![l] = NoRequest]
    /\ UNCHANGED <<clock, status, revoked, rv, task, ended>>

\* No signer, a failed read or signature, a revocation that is missing and
\* the deadline of the call are error responses, which are not kept.
OcspError(l) ==
    /\ aia[l].pc \in {"miss", "call"}
    /\ aia' = [aia EXCEPT ![l] = Idle]
    /\ look' = [look EXCEPT ![l] = NoRequest]
    /\ UNCHANGED <<clock, status, revoked, rv, task, cache, ended>>

\* The LRU list drops a response to make room for another one.
Evict(c) ==
    /\ cache[c] # Empty
    /\ cache' = [cache EXCEPT ![c] = Empty]
    /\ UNCHANGED <<clock, status, revoked, rv, task, look, aia, ended>>

-----------------------------------------------------------------------------

\* A step of the CA and of its task.  The deadline of the call bounds the
\* time a handler waits for its answer.
Environment ==
    /\ \/ /\ Tick
          /\ \A l \in Lookups : aia[l].pc \in {"miss", "call", "signed"} =>
                 clock < aia[l].now + CallTimeout
       \/ \E c \in Certs : RegisterCertificate(c)
       \/ \E r \in Revokers, c \in Certs : RevokeFind(r, c)
       \/ \E r \in Revokers : RevokeLock(r) \/ RevokeCommit(r) \/ RevokeAbort(r)
       \/ \E t \in Tasks : TaskStart(t) \/ ExpireSelect(t) \/ ExpireApply(t)
       \/ \E t \in Tasks : DeleteSelect(t) \/ DeleteApply(t) \/ TaskFail(t)
    /\ ended' = [c \in Certs |-> [a \in Answers |->
                    IF a = Truth(c) /\ a # Truth(c)' THEN clock' ELSE ended[c][a]]]
    /\ UNCHANGED <<aia, cache>>

OcspNext ==
    \/ Environment
    \/ \E l \in Lookups, c \in Certs : CacheGet(l, c)
    \/ \E l \in Lookups : CallSignOCSP(l)
    \/ \E l \in Lookups : ReadRevoked(l)
    \/ \E l \in Lookups : Sign(l)
    \/ \E l \in Lookups : CacheAdd(l)
    \/ \E l \in Lookups : OcspError(l)
    \/ \E c \in Certs : Evict(c)

OcspSpec == OcspInit /\ [][OcspNext]_ocspVars

-----------------------------------------------------------------------------
(* Properties *)

\* Every answer of ocspResponse, from the cache or not, is what the tables
\* say or said less than the OCSP expiry and one call to the CA before: a
\* response signed from an old read that replaces a newer one in the cache
\* does not outlive that, so a revocation is seen within Staleness.
AnswerWasTrue ==
    \A l \in Lookups : aia[l].pc = "served" =>
        \/ aia[l].answer = Truth(aia[l].cert)
        \/ aia[l].now < ended[aia[l].cert][aia[l].answer] + Staleness
=============================================================================
