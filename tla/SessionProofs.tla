--------------------------- MODULE SessionProofs ---------------------------
(***************************************************************************)
(* Proofs of the properties of Session, for every number of instances,     *)
(* calls and logins and every lifetime.                                    *)
(***************************************************************************)
EXTENDS Session, TLAPS

Codes == [code : Nat, token : [jti : Nat, login : Nat, org : Orgs \cup {NoOrg}, exp : Nat],
          challenge : Verifiers \cup {NoChallenge}, until : Nat]

ExchangeCalls ==
    [pc : {"idle", "got", "deleted"}, held : Codes, verifier : Verifiers \cup {NoChallenge}]

States == [at : Nat, type : {"code", "token", "cookie"}, challenge : Verifiers \cup {NoChallenge}]

\* A token keeps the ID and the expiry of its login, for the logins below n.
GoodToken(t, n, at) ==
    /\ t \in Tokens
    /\ t.jti = t.login
    /\ t.login < n
    /\ t.exp = at[t.login] + TokenTTL

SessionTypeOK ==
    /\ now \in 0..MaxClock
    /\ states \subseteq States
    /\ nextID \in 1..(MaxLogins + 1)
    /\ otc \subseteq Codes
    /\ exchange \in [Clients -> ExchangeCalls]
    /\ tokens \subseteq Tokens
    /\ revoked \subseteq Nat
    /\ snapshot \in [Instances -> [ids : SUBSET Nat, at : Nat]]
    /\ loginAt \in [Logins -> Nat]
    /\ signedOut \in [Logins -> [at : Nat, by : SUBSET Instances]]
    /\ answered \subseteq Nat

\* Every token, handed over or waiting under a code, is a good one.
TokensInv ==
    /\ \A t \in tokens : GoodToken(t, nextID, loginAt)
    /\ \A o \in otc : GoodToken(o.token, nextID, loginAt)
    /\ \A c \in Clients :
          exchange[c].pc # "idle" => GoodToken(exchange[c].held.token, nextID, loginAt)

\* A code that was deleted for a call is not in the cache while the call
\* compares and afterwards, and a new code is not an earlier one.
CodesInv ==
    /\ \A o \in otc : o.code < nextID /\ o.code \notin answered
    /\ \A c \in Clients : exchange[c].held.code < nextID
    /\ \A c \in Clients, o \in otc : exchange[c].pc = "deleted" => o.code # exchange[c].held.code
    /\ \A k \in answered : k < nextID

\* What the snapshots know of the sign-outs.
SignOutInv ==
    /\ \A i \in Instances : snapshot[i].at <= now
    /\ \A l \in Logins : signedOut[l].at # Never => l \in revoked /\ signedOut[l].at <= now
    /\ \A l \in Logins : signedOut[l].by # {} => signedOut[l].at # Never
    /\ \A i \in Instances, l \in Logins : i \in signedOut[l].by => l \in snapshot[i].ids
    /\ \A i \in Instances, l \in Logins :
          signedOut[l].at # Never /\ l \notin snapshot[i].ids => snapshot[i].at <= signedOut[l].at

SessionInv == SessionTypeOK /\ TokensInv /\ CodesInv /\ SignOutInv

-----------------------------------------------------------------------------

LEMMA SessionInvInit == SessionInit => SessionInv
<1> SUFFICES ASSUME SessionInit PROVE SessionInv
  BY Zenon
<1>1. SessionTypeOK
  BY SessionAssumption
  DEF SessionInit, SessionTypeOK, Logins, NoCall, NoCode, NoToken, Never, ExchangeCalls, Codes
<1>2. TokensInv
  BY Zenon DEF SessionInit, TokensInv, NoCall
<1>3. CodesInv
  BY DEF SessionInit, CodesInv, NoCall, NoCode
<1>4. SignOutInv
  BY SessionAssumption DEF SessionInit, SignOutInv, Never
<1> QED
  BY <1>1, <1>2, <1>3, <1>4, Zenon DEF SessionInv

\* What an instance goes by is as new as a snapshot can be.
LEMMA ViewFacts ==
    ASSUME SessionInv, NEW i \in Instances
    PROVE  /\ View(i) \in [ids : SUBSET Nat, at : Nat]
           /\ View(i).at <= now
           /\ \A l \in Logins :
                 /\ i \in signedOut[l].by => l \in View(i).ids
                 /\ signedOut[l].at # Never /\ l \notin View(i).ids
                       => /\ View(i).at <= signedOut[l].at
                          /\ now - View(i).at < SnapshotTTL
<1>0. /\ now \in Nat /\ revoked \subseteq Nat
      /\ snapshot[i] \in [ids : SUBSET Nat, at : Nat]
  BY SessionAssumption DEF SessionInv, SessionTypeOK
<1>1. CASE now - snapshot[i].at < SnapshotTTL
  BY <1>0, <1>1, Zenon DEF View, SessionInv, SignOutInv
<1>2. CASE ~(now - snapshot[i].at < SnapshotTTL)
  <2>1. View(i) = [ids |-> revoked, at |-> now]
    BY <1>2, Zenon DEF View
  <2>2. \A l \in Logins : i \in signedOut[l].by => l \in revoked
    BY Zenon DEF SessionInv, SignOutInv
  <2>3. \A l \in Logins : signedOut[l].at # Never => l \in revoked
    BY Zenon DEF SessionInv, SignOutInv
  <2> QED
    BY <1>0, <2>1, <2>2, <2>3
<1> QED
  BY <1>1, <1>2, Zenon

\* Reading the snapshot again keeps what the snapshots know.
LEMMA SnapshotRead ==
    ASSUME SessionInv, NEW i \in Instances,
           snapshot' = [snapshot EXCEPT ![i] = View(i)],
           UNCHANGED <<now, revoked, signedOut>>
    PROVE  SignOutInv' /\ snapshot' \in [Instances -> [ids : SUBSET Nat, at : Nat]]
<1>1. snapshot' \in [Instances -> [ids : SUBSET Nat, at : Nat]]
  BY ViewFacts, Zenon DEF SessionInv, SessionTypeOK
<1>2. \A j \in Instances : snapshot'[j] = IF j = i THEN View(i) ELSE snapshot[j]
  BY Zenon DEF SessionInv, SessionTypeOK
<1>3. SignOutInv'
  BY <1>2, ViewFacts DEF SessionInv, SignOutInv
<1> QED
  BY <1>1, <1>3, Zenon

-----------------------------------------------------------------------------

LEMMA AuthorizeStep == SessionInv /\ Authorize => SessionInv'
<1> SUFFICES ASSUME SessionInv, Authorize PROVE SessionInv'
  BY Zenon
<1>1. SessionTypeOK'
  BY SessionAssumption DEF SessionInv, SessionTypeOK, Authorize, States
<1>2. TokensInv'
  BY Zenon DEF SessionInv, TokensInv, Authorize, GoodToken
<1>3. CodesInv' /\ SignOutInv'
  BY Zenon DEF SessionInv, CodesInv, SignOutInv, Authorize
<1> QED
  BY <1>1, <1>2, <1>3, Zenon DEF SessionInv

LEMMA TickStep == SessionInv /\ Tick => SessionInv'
<1> SUFFICES ASSUME SessionInv, Tick PROVE SessionInv'
  BY Zenon
<1>1. SessionTypeOK'
  BY SessionAssumption DEF SessionInv, SessionTypeOK, Tick
<1>2. TokensInv'
  BY Zenon DEF SessionInv, TokensInv, Tick, GoodToken
<1>3. CodesInv'
  BY Zenon DEF SessionInv, CodesInv, Tick
<1>4. SignOutInv'
  BY DEF SessionInv, SessionTypeOK, SignOutInv, Tick
<1> QED
  BY <1>1, <1>2, <1>3, <1>4, Zenon DEF SessionInv

\* A new login: the ID is new, so no token and no code has it.
LEMMA CallbackStep == ASSUME SessionInv, NEW s \in states, Callback(s) PROVE SessionInv'
<1> DEFINE T(o) == [jti |-> nextID, login |-> nextID, org |-> o, exp |-> now + TokenTTL]
           C(o) == [code |-> nextID, token |-> T(o), challenge |-> s.challenge,
                    until |-> now + OTCSeconds]
<1>1. PICK o \in Orgs \cup {NoOrg} :
         \/ otc' = otc \cup {C(o)} /\ tokens' = tokens
         \/ tokens' = tokens \cup {T(o)} /\ otc' = otc
  BY Zenon DEF Callback
<1>2. /\ nextID \in Logins /\ nextID \in Nat /\ nextID' = nextID + 1
      /\ now \in Nat /\ now' = now /\ TokenTTL \in Nat /\ OTCSeconds \in Nat
      /\ loginAt \in [Logins -> Nat] /\ loginAt' = [loginAt EXCEPT ![nextID] = now]
  BY SessionAssumption DEF Callback, SessionInv, SessionTypeOK, Logins
<1>3. T(o) \in Tokens /\ T(o) \in [jti : Nat, login : Nat, org : Orgs \cup {NoOrg}, exp : Nat]
  BY <1>2 DEF Tokens
<1>4. s.challenge \in Verifiers \cup {NoChallenge}
  BY Zenon DEF SessionInv, SessionTypeOK, States
<1>5. C(o) \in Codes
  BY <1>2, <1>3, <1>4 DEF Codes
<1>6. \A t : GoodToken(t, nextID, loginAt) => GoodToken(t, nextID', loginAt')
  BY <1>2 DEF GoodToken, Tokens, Logins
<1>7. GoodToken(T(o), nextID', loginAt')
  BY <1>2, <1>3 DEF GoodToken
<1>8. SessionTypeOK'
  <2>1. otc' \subseteq Codes /\ tokens' \subseteq Tokens
    BY <1>1, <1>3, <1>5, Zenon DEF SessionInv, SessionTypeOK
  <2> QED
    BY <1>2, <2>1, SessionAssumption DEF SessionInv, SessionTypeOK, Callback, Logins
<1>9. TokensInv'
  <2>1. \A t \in tokens' : GoodToken(t, nextID', loginAt')
    BY <1>1, <1>6, <1>7, Zenon DEF SessionInv, TokensInv
  <2>2. \A x \in otc' : GoodToken(x.token, nextID', loginAt')
    <3>1. C(o).token = T(o)
      BY Zenon
    <3> HIDE DEF C, T
    <3> QED
      BY <1>1, <1>6, <1>7, <3>1, Zenon DEF SessionInv, TokensInv
  <2>3. \A c \in Clients :
           exchange'[c].pc # "idle" => GoodToken(exchange'[c].held.token, nextID', loginAt')
    BY <1>6, Zenon DEF SessionInv, TokensInv, Callback
  <2> QED
    BY <2>1, <2>2, <2>3, Zenon DEF TokensInv
<1>10. CodesInv'
  <2>1. \A x \in otc : x.code \in Nat
    BY Zenon DEF SessionInv, SessionTypeOK, Codes
  <2>2. \A c \in Clients : exchange[c].held.code \in Nat
    BY Zenon DEF SessionInv, SessionTypeOK, Codes, ExchangeCalls
  <2>3. nextID \notin answered /\ answered \subseteq Nat /\ answered' = answered /\ exchange' = exchange
    BY <1>2 DEF SessionInv, CodesInv, SessionTypeOK, Callback
  <2>4. \A x \in otc' : x.code < nextID' /\ x.code \notin answered'
    <3>1. C(o).code = nextID
      BY Zenon
    <3> HIDE DEF C, T
    <3> QED
      BY <1>1, <1>2, <2>1, <2>3, <3>1 DEF SessionInv, CodesInv
  <2>5. \A c \in Clients : exchange'[c].held.code < nextID'
    BY <1>2, <2>2, <2>3 DEF SessionInv, CodesInv
  <2>6. \A k \in answered' : k < nextID'
    BY <1>2, <2>3 DEF SessionInv, CodesInv
  <2>7. \A c \in Clients, x \in otc' : exchange'[c].pc = "deleted" => x.code # exchange'[c].held.code
    <3>1. C(o).code = nextID
      BY Zenon
    <3>2. \A c \in Clients : exchange[c].held.code # nextID
      BY <1>2, <2>2 DEF SessionInv, CodesInv
    <3> HIDE DEF C, T
    <3> QED
      BY <1>1, <2>3, <3>1, <3>2, Zenon DEF SessionInv, CodesInv
  <2> QED
    BY <2>4, <2>5, <2>6, <2>7, Zenon DEF CodesInv
<1>11. SignOutInv'
  BY Zenon DEF SessionInv, SignOutInv, Callback
<1> QED
  BY <1>8, <1>9, <1>10, <1>11, Zenon DEF SessionInv

-----------------------------------------------------------------------------

LEMMA ExchangeGetStep ==
    ASSUME SessionInv, NEW c \in Clients, NEW o \in otc, ExchangeGet(c, o)
    PROVE  SessionInv'
<1> DEFINE Got(v) == [pc |-> "got", held |-> o, verifier |-> v]
<1>1. PICK v \in Verifiers : exchange' = [exchange EXCEPT ![c] = Got(v)]
  BY Zenon DEF ExchangeGet
<1>2. o \in Codes /\ o.code < nextID /\ o.code \notin answered
      /\ GoodToken(o.token, nextID, loginAt)
  BY Zenon DEF SessionInv, SessionTypeOK, CodesInv, TokensInv
<1>3. Got(v) \in ExchangeCalls /\ Got(v).held = o /\ Got(v).pc = "got"
  BY <1>2 DEF ExchangeCalls
<1> HIDE DEF Got
<1>4. \A d \in Clients : exchange'[d] = IF d = c THEN Got(v) ELSE exchange[d]
  BY <1>1, Zenon DEF SessionInv, SessionTypeOK
<1>5. SessionTypeOK'
  BY <1>1, <1>3, Zenon DEF SessionInv, SessionTypeOK, ExchangeGet
<1>6. TokensInv'
  BY <1>2, <1>3, <1>4, Zenon DEF SessionInv, TokensInv, ExchangeGet
<1>7. CodesInv'
  BY <1>2, <1>3, <1>4, Zenon DEF SessionInv, CodesInv, ExchangeGet
<1>8. SignOutInv'
  BY Zenon DEF SessionInv, SignOutInv, ExchangeGet
<1> QED
  BY <1>5, <1>6, <1>7, <1>8, Zenon DEF SessionInv

LEMMA ExchangeDeleteStep ==
    ASSUME SessionInv, NEW c \in Clients, ExchangeDelete(c)
    PROVE  SessionInv'
<1>1. exchange[c] \in ExchangeCalls /\ exchange[c].held.code < nextID
      /\ exchange[c].held.code \in Nat
  BY Zenon DEF SessionInv, SessionTypeOK, CodesInv, ExchangeCalls, Codes
<1>2. exchange' = [exchange EXCEPT ![c] = [exchange[c] EXCEPT !.pc = "deleted"]]
  BY Zenon DEF ExchangeDelete
<1>3. /\ [exchange[c] EXCEPT !.pc = "deleted"] \in ExchangeCalls
      /\ [exchange[c] EXCEPT !.pc = "deleted"].held = exchange[c].held
  BY <1>1, Zenon DEF ExchangeCalls
<1>4. \A d \in Clients : /\ exchange'[d] \in ExchangeCalls
                         /\ exchange'[d].held = exchange[d].held
                         /\ exchange'[d].pc # "idle" => exchange[d].pc # "idle"
  BY <1>2, <1>3, Zenon DEF SessionInv, SessionTypeOK, ExchangeDelete
<1>5. SessionTypeOK'
  <2>1. otc' \subseteq Codes
    BY Zenon DEF SessionInv, SessionTypeOK, ExchangeDelete
  <2>2. exchange' \in [Clients -> ExchangeCalls]
    BY <1>2, <1>3, Zenon DEF SessionInv, SessionTypeOK
  <2> QED
    BY <2>1, <2>2, Zenon DEF SessionInv, SessionTypeOK, ExchangeDelete
<1>6. TokensInv'
  BY <1>4, Zenon DEF SessionInv, TokensInv, ExchangeDelete
<1>7. CodesInv'
  <2>1. ASSUME NEW d \in Clients, NEW o \in otc', exchange'[d].pc = "deleted"
        PROVE  o.code # exchange'[d].held.code
    <3>1. o \in otc /\ o.code # exchange[c].held.code
      BY Zenon DEF ExchangeDelete
    <3>2. d # c => exchange'[d] = exchange[d]
      BY <1>2, Zenon DEF SessionInv, SessionTypeOK
    <3> QED
      BY <1>4, <2>1, <3>1, <3>2, Zenon DEF SessionInv, CodesInv
  <2> QED
    BY <1>4, <2>1, Zenon DEF SessionInv, CodesInv, ExchangeDelete
<1>8. SignOutInv'
  BY Zenon DEF SessionInv, SignOutInv, ExchangeDelete
<1> QED
  BY <1>5, <1>6, <1>7, <1>8, Zenon DEF SessionInv

\* A call that ends, with its token or without.
LEMMA ExchangeEndStep ==
    ASSUME SessionInv, NEW c \in Clients, ExchangeVerify(c) \/ ExchangeFail(c)
    PROVE  SessionInv'
<1>1. NoCall \in ExchangeCalls /\ NoCall.held.code = 0 /\ NoCall.pc = "idle"
  BY Zenon DEF NoCall, NoCode, NoToken, ExchangeCalls, Codes
<1>2. /\ exchange' = [exchange EXCEPT ![c] = NoCall]
      /\ UNCHANGED <<now, states, nextID, revoked, snapshot, loginAt, signedOut>>
      /\ otc' \subseteq otc
      /\ \/ answered' = answered
         \/ exchange[c].pc = "deleted" /\ answered' = answered \cup {exchange[c].held.code}
  BY Zenon DEF ExchangeVerify, ExchangeFail
<1>3. \A d \in Clients : exchange'[d] = IF d = c THEN NoCall ELSE exchange[d]
  BY <1>2, Zenon DEF SessionInv, SessionTypeOK
<1>4. \A t \in tokens' : t \in Tokens /\ GoodToken(t, nextID, loginAt)
  <2>1. tokens' = tokens \/ (/\ exchange[c].pc # "idle"
                             /\ tokens' = tokens \cup {exchange[c].held.token})
    BY Zenon DEF ExchangeVerify, ExchangeFail
  <2> QED
    BY <2>1 DEF SessionInv, TokensInv, GoodToken
<1>5. SessionTypeOK'
  <2>1. exchange[c].held.code \in Nat
    BY Zenon DEF SessionInv, SessionTypeOK, ExchangeCalls, Codes
  <2>2. answered' \subseteq Nat /\ otc' \subseteq Codes
    BY <1>2, <2>1, Zenon DEF SessionInv, SessionTypeOK
  <2> QED
    BY <1>1, <1>2, <1>4, <2>2, Zenon DEF SessionInv, SessionTypeOK
<1>6. TokensInv'
  BY <1>1, <1>2, <1>3, <1>4, Zenon DEF SessionInv, TokensInv
<1>7. CodesInv'
  <2>1. \A d \in Clients : exchange'[d].held.code < nextID
    BY <1>1, <1>2, <1>3 DEF SessionInv, SessionTypeOK, CodesInv
  <2>2. /\ \A o \in otc' : o \in otc
        /\ \A k \in answered' : k \in answered \/ (exchange[c].pc = "deleted" /\ k = exchange[c].held.code)
    BY <1>2, Zenon
  <2>3. \A o \in otc' : o.code < nextID /\ o.code \notin answered'
    BY <2>2, Zenon DEF SessionInv, CodesInv
  <2>4. \A d \in Clients : exchange'[d].pc = "deleted" => exchange[d].pc = "deleted" /\ exchange'[d] = exchange[d]
    BY <1>1, <1>3, Zenon
  <2>5. \A d \in Clients, o \in otc' : exchange'[d].pc = "deleted" => o.code # exchange'[d].held.code
    BY <2>2, <2>4, Zenon DEF SessionInv, CodesInv
  <2>6. \A k \in answered' : k < nextID
    BY <2>2, Zenon DEF SessionInv, CodesInv
  <2> QED
    BY <1>2, <2>1, <2>3, <2>5, <2>6, Zenon DEF CodesInv
<1>8. SignOutInv'
  BY <1>2, Zenon DEF SessionInv, SignOutInv
<1> QED
  BY <1>5, <1>6, <1>7, <1>8, Zenon DEF SessionInv

-----------------------------------------------------------------------------

LEMMA RequestStep ==
    ASSUME SessionInv, NEW i \in Instances, NEW t \in tokens,
           Request(i, t) \/ \E o \in Orgs : SelectOrg(i, t, o)
    PROVE  SessionInv'
<1>1. /\ snapshot' = [snapshot EXCEPT ![i] = View(i)]
      /\ UNCHANGED <<now, states, nextID, otc, exchange, revoked, loginAt, signedOut, answered>>
  BY Zenon DEF Request, SelectOrg
<1>2. SignOutInv' /\ snapshot' \in [Instances -> [ids : SUBSET Nat, at : Nat]]
  BY <1>1, SnapshotRead, Zenon
<1>3. GoodToken(t, nextID, loginAt)
  BY Zenon DEF SessionInv, TokensInv
<1>4. ASSUME NEW o \in Orgs PROVE GoodToken(Reissued(t, o), nextID, loginAt)
  BY <1>3, Zenon DEF GoodToken, Reissued, Tokens
<1>5. \A x \in tokens' : GoodToken(x, nextID, loginAt)
  BY <1>4 DEF SessionInv, TokensInv, Request, SelectOrg
<1>6. SessionTypeOK'
  BY <1>1, <1>2, <1>5, Zenon DEF SessionInv, SessionTypeOK, GoodToken
<1>7. TokensInv'
  BY <1>1, <1>5, Zenon DEF SessionInv, TokensInv
<1>8. CodesInv'
  BY <1>1, Zenon DEF SessionInv, CodesInv
<1> QED
  BY <1>2, <1>6, <1>7, <1>8, Zenon DEF SessionInv

LEMMA RevokeTokenStep ==
    ASSUME SessionInv, NEW i \in Instances, NEW t \in tokens, RevokeToken(i, t)
    PROVE  SessionInv'
<1> DEFINE l == t.login
           at == IF signedOut[l].at = Never THEN now ELSE signedOut[l].at
           by == signedOut[l].by \cup {i}
           ids == View(i).ids \cup {l}
<1>1. t.jti = l /\ l \in Logins /\ l \in Nat
  <2>1. GoodToken(t, nextID, loginAt)
    BY Zenon DEF SessionInv, TokensInv
  <2> QED
    BY <2>1, Zenon DEF GoodToken, Tokens, Logins
<1>2. /\ revoked' = revoked \cup {l}
      /\ snapshot' = [snapshot EXCEPT ![i] = [ids |-> ids, at |-> View(i).at]]
      /\ signedOut' = [signedOut EXCEPT ![l] = [at |-> at, by |-> by]]
      /\ UNCHANGED <<now, states, nextID, otc, exchange, tokens, loginAt, answered>>
  BY <1>1, Zenon DEF RevokeToken
<1>3. /\ signedOut[l] \in [at : Nat, by : SUBSET Instances]
      /\ now \in Nat /\ at \in Nat /\ at <= now /\ at # Never
      /\ by \subseteq Instances /\ ids \subseteq Nat
  BY <1>1, ViewFacts, SessionAssumption DEF SessionInv, SessionTypeOK, SignOutInv, Never
<1> HIDE DEF l, at, by, ids
<1>4. \A j \in Instances : snapshot'[j] =
         IF j = i THEN [ids |-> ids, at |-> View(i).at] ELSE snapshot[j]
  BY <1>2, Zenon DEF SessionInv, SessionTypeOK
<1>5. \A m \in Logins : signedOut'[m] = IF m = l THEN [at |-> at, by |-> by] ELSE signedOut[m]
  BY <1>2, Zenon DEF SessionInv, SessionTypeOK
<1>6. SessionTypeOK'
  <2>1. snapshot' \in [Instances -> [ids : SUBSET Nat, at : Nat]]
    BY <1>2, <1>3, ViewFacts, Zenon DEF SessionInv, SessionTypeOK
  <2>2. signedOut' \in [Logins -> [at : Nat, by : SUBSET Instances]]
    BY <1>2, <1>3, ZenonT(30) DEF SessionInv, SessionTypeOK
  <2>3. revoked' \subseteq Nat
    BY <1>1, <1>2, Zenon DEF SessionInv, SessionTypeOK
  <2> QED
    BY <1>2, <2>1, <2>2, <2>3, Zenon DEF SessionInv, SessionTypeOK
<1>7. TokensInv' /\ CodesInv'
  BY <1>2, Zenon DEF SessionInv, TokensInv, CodesInv
<1>8. SignOutInv'
  <2>1. \A j \in Instances : snapshot'[j].at <= now'
    BY <1>2, <1>4, ViewFacts DEF SessionInv, SignOutInv
  <2>2. \A m \in Logins : signedOut'[m].at # Never => m \in revoked' /\ signedOut'[m].at <= now'
    <3> SUFFICES ASSUME NEW m \in Logins, signedOut'[m].at # Never
                 PROVE  m \in revoked' /\ signedOut'[m].at <= now'
      BY Zenon
    <3>1. CASE m = l
      BY <1>2, <1>3, <1>5, <3>1
    <3>2. CASE m # l
      <4>1. signedOut'[m] = signedOut[m]
        BY <1>5, <3>2, Zenon
      <4> QED
        BY <1>2, <4>1, Zenon DEF SessionInv, SignOutInv
    <3> QED
      BY <3>1, <3>2, Zenon
  <2>3. \A m \in Logins : signedOut'[m].by # {} => signedOut'[m].at # Never
    BY <1>3, <1>5 DEF SessionInv, SignOutInv
  <2>4. \A j \in Instances, m \in Logins : j \in signedOut'[m].by => m \in snapshot'[j].ids
    <3> SUFFICES ASSUME NEW j \in Instances, NEW m \in Logins, j \in signedOut'[m].by
                 PROVE  m \in snapshot'[j].ids
      BY Zenon
    <3>1. j = i \/ j \in signedOut[m].by
      BY <1>5 DEF by
    <3>2. CASE m = l /\ j = i
      BY <1>4, <3>2 DEF ids
    <3>3. CASE j \in signedOut[m].by
      BY <1>4, <3>3, ViewFacts DEF SessionInv, SignOutInv, ids
    <3>4. CASE m # l /\ j = i
      BY <1>4, <1>5, <3>4, ViewFacts DEF ids
    <3> QED
      BY <3>1, <3>2, <3>3, <3>4, Zenon
  <2>5. \A j \in Instances, m \in Logins :
           signedOut'[m].at # Never /\ m \notin snapshot'[j].ids
               => snapshot'[j].at <= signedOut'[m].at
    <3> SUFFICES ASSUME NEW j \in Instances, NEW m \in Logins,
                        signedOut'[m].at # Never, m \notin snapshot'[j].ids
                 PROVE  snapshot'[j].at <= signedOut'[m].at
      BY Zenon
    <3>1. CASE j = i
      <4>1. m # l /\ m \notin View(i).ids /\ snapshot'[j].at = View(i).at
        BY <1>4, <3>1 DEF ids
      <4> QED
        BY <4>1, <1>5, ViewFacts, Zenon
    <3>2. CASE j # i /\ m # l
      BY <1>4, <1>5, <3>2, Zenon DEF SessionInv, SignOutInv
    <3>3. CASE j # i /\ m = l
      BY <1>1, <1>4, <1>5, <3>3 DEF SessionInv, SignOutInv, at
    <3> QED
      BY <3>1, <3>2, <3>3, Zenon
  <2> QED
    BY <2>1, <2>2, <2>3, <2>4, <2>5, Zenon DEF SignOutInv, Never
<1> QED
  BY <1>6, <1>7, <1>8, Zenon DEF SessionInv

-----------------------------------------------------------------------------

LEMMA SessionInvStep == SessionInv /\ [SessionNext]_sessionVars => SessionInv'
<1>1. ASSUME SessionInv, SessionNext PROVE SessionInv'
  BY <1>1, AuthorizeStep, CallbackStep, ExchangeGetStep, ExchangeDeleteStep, ExchangeEndStep,
     RequestStep, RevokeTokenStep, TickStep, Zenon
  DEF SessionNext
<1>2. ASSUME SessionInv, UNCHANGED sessionVars PROVE SessionInv'
  BY <1>2, Zenon
  DEF sessionVars, SessionInv, SessionTypeOK, TokensInv, CodesInv, SignOutInv
<1> QED
  BY <1>1, <1>2, Zenon

LEMMA SessionInvCorrect == SessionSpec => []SessionInv
BY SessionInvInit, SessionInvStep, PTL DEF SessionSpec

\* The instance that revoked a token of a session accepts no token of the
\* session afterwards, and every other instance stops within SnapshotTTL
\* (revoke, selectOrgToken).
THEOREM SignOutEndsSessionCorrect == SessionSpec => []SignOutEndsSession
<1>1. SessionInv => SignOutEndsSession
  <2> SUFFICES ASSUME SessionInv, NEW i \in Instances, NEW t \in tokens, Accepted(i, t)
               PROVE  /\ i \notin signedOut[t.login].by
                      /\ now < signedOut[t.login].at + SnapshotTTL
    BY Zenon DEF SignOutEndsSession
  <2>1. t.login \in Logins /\ t.login \notin View(i).ids
    BY Zenon DEF SessionInv, TokensInv, GoodToken, Tokens, Accepted
  <2>2. /\ now \in 0..MaxClock /\ MaxClock \in Nat /\ SnapshotTTL \in Nat \ {0}
        /\ signedOut[t.login].at \in Nat /\ View(i).at \in Nat
    BY <2>1, ViewFacts, SessionAssumption, Zenon DEF SessionInv, SessionTypeOK
  <2>3. CASE signedOut[t.login].at = Never
    BY <2>1, <2>2, <2>3, ViewFacts DEF Never
  <2>4. CASE signedOut[t.login].at # Never
    BY <2>1, <2>2, <2>4, ViewFacts
  <2> QED
    BY <2>3, <2>4, Zenon
<1> QED
  BY <1>1, SessionInvCorrect, PTL

\* No token of a session is accepted TokenTTL after the login (handleToken,
\* selectOrgToken).
THEOREM SessionEndsOnTimeCorrect == SessionSpec => []SessionEndsOnTime
<1>1. SessionInv => SessionEndsOnTime
  BY Zenon DEF SessionInv, TokensInv, GoodToken, SessionEndsOnTime, Accepted
<1> QED
  BY <1>1, SessionInvCorrect, PTL

\* ExchangeCode compares a verifier only with a code that no later call finds,
\* for any number of calls at a time and of codes.
THEOREM AnsweredCodeIsGoneCorrect == SessionSpec => []AnsweredCodeIsGone
<1>1. SessionInv => AnsweredCodeIsGone
  BY Zenon DEF SessionInv, CodesInv, AnsweredCodeIsGone
<1> QED
  BY <1>1, SessionInvCorrect, PTL
=============================================================================
