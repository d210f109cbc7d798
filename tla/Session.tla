------------------------------ MODULE Session ------------------------------
(***************************************************************************)
(* A sign-in of the auth service, from the authorization request to the    *)
(* tokens of its session: the OAuth state, the one-time code that hands    *)
(* the token to a public client, the switch of the org and the sign-out.   *)
(* The instances share the cache of the deployment, which holds the        *)
(* one-time codes and the revoked token IDs; each instance keeps a         *)
(* snapshot of the latter.  A code verifier stands for its S256 challenge. *)
(* The orgs a user may select follow from the grants (Membership): any org *)
(* may be selected here.                                                   *)
(***************************************************************************)
EXTENDS Naturals, FiniteSets

CONSTANTS
    Instances,   \* server instances
    Clients,     \* concurrent calls of ExchangeCode
    Verifiers,   \* PKCE code verifiers
    Orgs,        \* orgs of the user
    StateAge,    \* the longest age of a state at the callback
    OTCSeconds,  \* lifetime of a one-time code
    TokenTTL,    \* validity of a token from the login
    SnapshotTTL, \* age at which a snapshot of the revoked IDs is read again
    MaxClock,    \* bound: time
    MaxStates,   \* bound: authorization requests
    MaxLogins    \* bound: logins

ASSUME SessionAssumption ==
    /\ {StateAge, OTCSeconds, TokenTTL, MaxClock, MaxStates, MaxLogins} \subseteq Nat
    /\ SnapshotTTL \in Nat \ {0}

NoChallenge == "none"   \* a request without code_challenge
NoOrg == "no org"       \* a token of a user without grants

VARIABLES
    now,       \* time
    states,    \* OAuth states handed to browsers
    nextID,    \* next token ID (jti)
    otc,       \* one-time codes in the shared cache
    exchange,  \* calls of ExchangeCode
    tokens,    \* tokens in the hands of clients
    revoked,   \* revoked token IDs in the shared cache
    snapshot,  \* each instance's snapshot of them and when it was read
    loginAt,   \* history: time of each login
    signedOut, \* history: time and instances of the sign-outs of each login
    answered   \* history: codes on which some call has compared a verifier

sessionVars ==
    <<now, states, nextID, otc, exchange, tokens, revoked, snapshot,
      loginAt, signedOut, answered>>

Logins == 1..MaxLogins

\* A signed token: its ID, the selected org and the expiry; login is history,
\* the sign-in that the token stems from.
Tokens == [jti : Nat, login : Logins, org : Orgs \cup {NoOrg}, exp : Nat]

NoToken == [jti |-> 0, login |-> 0, org |-> NoOrg, exp |-> 0]
NoCode == [code |-> 0, token |-> NoToken, challenge |-> NoChallenge, until |-> 0]
NoCall == [pc |-> "idle", held |-> NoCode, verifier |-> NoChallenge]
Never == MaxClock + 1

SessionInit ==
    /\ now = 0
    /\ states = {}
    /\ nextID = 1
    /\ otc = {}
    /\ exchange = [c \in Clients |-> NoCall]
    /\ tokens = {}
    /\ revoked = {}
    /\ snapshot = [i \in Instances |-> [ids |-> {}, at |-> 0]]
    /\ loginAt = [l \in Logins |-> 0]
    /\ signedOut = [l \in Logins |-> [at |-> Never, by |-> {}]]
    /\ answered = {}

-----------------------------------------------------------------------------
(* Sign-in *)

\* AuthorizeHandler answers with a protected State.  code_challenge is read
\* for the code response only.
Authorize ==
    /\ Cardinality(states) < MaxStates
    /\ \E s \in [at : {now}, type : {"code"}, challenge : Verifiers \cup {NoChallenge}]
              \cup [at : {now}, type : {"token", "cookie"}, challenge : {NoChallenge}] :
          states' = states \cup {s}
    /\ UNCHANGED <<now, nextID, otc, exchange, tokens, revoked, snapshot,
                   loginAt, signedOut, answered>>

\* CallbackHandler and handleToken for a browser that returns from the
\* identity provider with a state that is not too old: a token with a new
\* ID and the initial org is signed and handed over, in the response or in
\* a cookie, or kept under a one-time code.  A failure leaves nothing behind.
Callback(s) ==
    /\ now - s.at <= StateAge
    /\ nextID \in Logins
    /\ \E o \in Orgs \cup {NoOrg} :
          LET t == [jti |-> nextID, login |-> nextID, org |-> o, exp |-> now + TokenTTL]
              code == [code |-> nextID, token |-> t, challenge |-> s.challenge,
                       until |-> now + OTCSeconds]
          IN IF s.type = "code" THEN otc' = otc \cup {code} /\ UNCHANGED tokens
             ELSE tokens' = tokens \cup {t} /\ UNCHANGED otc
    /\ nextID' = nextID + 1
    /\ loginAt' = [loginAt EXCEPT ![nextID] = now]
    /\ UNCHANGED <<now, states, exchange, revoked, snapshot, signedOut, answered>>

\* ExchangeCode reads the code; one that is gone or expired ends the call.
ExchangeGet(c, o) ==
    /\ exchange[c].pc = "idle"
    /\ now < o.until
    /\ \E v \in Verifiers :
          exchange' = [exchange EXCEPT ![c] = [pc |-> "got", held |-> o, verifier |-> v]]
    /\ UNCHANGED <<now, states, nextID, otc, tokens, revoked, snapshot,
                   loginAt, signedOut, answered>>

\* Variant: the verifier is compared first, and a wrong one leaves the code.
DeleteMatching(c) ==
    /\ exchange[c].pc = "got"
    /\ otc' = {o \in otc : \/ o.code # exchange[c].held.code
                           \/ o.challenge # exchange[c].verifier}
    /\ exchange' = [exchange EXCEPT ![c].pc = "deleted"]
    /\ UNCHANGED <<now, states, nextID, tokens, revoked, snapshot, loginAt, signedOut, answered>>

\* It then deletes the code, and is not told whether another call just did.
ExchangeDelete(c) ==
    /\ exchange[c].pc = "got"
    /\ otc' = {o \in otc : o.code # exchange[c].held.code}
    /\ exchange' = [exchange EXCEPT ![c].pc = "deleted"]
    /\ UNCHANGED <<now, states, nextID, tokens, revoked, snapshot, loginAt, signedOut, answered>>

\* The verifier is compared, and the call ends with the token or an error.
ExchangeVerify(c) ==
    /\ exchange[c].pc = "deleted"
    /\ tokens' = IF exchange[c].held.challenge = exchange[c].verifier
                 THEN tokens \cup {exchange[c].held.token} ELSE tokens
    /\ exchange' = [exchange EXCEPT ![c] = NoCall]
    /\ answered' = answered \cup {exchange[c].held.code}
    /\ UNCHANGED <<now, states, nextID, otc, revoked, snapshot, loginAt, signedOut>>

\* The cache reports an error, whether it deleted the code or not, and the
\* call ends with it before the verifier is compared.
ExchangeFail(c) ==
    /\ exchange[c].pc = "got"
    /\ otc' \in {otc, {o \in otc : o.code # exchange[c].held.code}}
    /\ exchange' = [exchange EXCEPT ![c] = NoCall]
    /\ UNCHANGED <<now, states, nextID, tokens, revoked, snapshot, loginAt, signedOut, answered>>

-----------------------------------------------------------------------------
(* Requests with a token *)

\* The revoked IDs an instance goes by: its snapshot until it is too old.
View(i) ==
    IF now - snapshot[i].at < SnapshotTTL THEN snapshot[i] ELSE [ids |-> revoked, at |-> now]

\* The authentication of a request at an instance: the token has not expired
\* and is not revoked.
Accepted(i, t) ==
    /\ now < t.exp
    /\ t.jti \notin View(i).ids

\* Any request that needs a session.
Request(i, t) ==
    /\ Accepted(i, t)
    /\ snapshot' = [snapshot EXCEPT ![i] = View(i)]
    /\ UNCHANGED <<now, states, nextID, otc, exchange, tokens, revoked,
                   loginAt, signedOut, answered>>

\* Variant: the new token starts a validity of its own.
Extended(t, o) == [t EXCEPT !.org = o, !.exp = now + TokenTTL]

\* Variant: the new token gets an ID of its own.
NewID(t, o) == [t EXCEPT !.org = o, !.jti = MaxLogins + 1]

\* selectOrgToken signs the claims of the caller's token again.
Reissued(t, o) == [t EXCEPT !.org = o]

\* SelectOrg and AuthOrgHandler.  A token signed later than its request was
\* let in would be the same token: its ID and its expiry come with the claims.
SelectOrg(i, t, o) ==
    /\ Accepted(i, t)
    /\ tokens' = tokens \cup {Reissued(t, o)}
    /\ snapshot' = [snapshot EXCEPT ![i] = View(i)]
    /\ UNCHANGED <<now, states, nextID, otc, exchange, revoked, loginAt, signedOut, answered>>

\* revoke: the ID of the token is revoked for every instance and known to
\* this one at once.
RevokeToken(i, t) ==
    /\ Accepted(i, t)
    /\ revoked' = revoked \cup {t.jti}
    /\ snapshot' = [snapshot EXCEPT ![i] = [ids |-> View(i).ids \cup {t.jti}, at |-> View(i).at]]
    /\ signedOut' = [signedOut EXCEPT ![t.login] =
           [at |-> IF @.at = Never THEN now ELSE @.at, by |-> @.by \cup {i}]]
    /\ UNCHANGED <<now, states, nextID, otc, exchange, tokens, loginAt, answered>>

Tick ==
    /\ now < MaxClock
    /\ now' = now + 1
    /\ UNCHANGED <<states, nextID, otc, exchange, tokens, revoked, snapshot,
                   loginAt, signedOut, answered>>

SessionNext ==
    \/ Authorize
    \/ \E s \in states : Callback(s)
    \/ \E c \in Clients : \/ \E o \in otc : ExchangeGet(c, o)
                          \/ ExchangeDelete(c) \/ ExchangeVerify(c) \/ ExchangeFail(c)
    \/ \E i \in Instances, t \in tokens :
          \/ Request(i, t)
          \/ \E o \in Orgs : SelectOrg(i, t, o)
          \/ RevokeToken(i, t)
    \/ Tick

SessionSpec == SessionInit /\ [][SessionNext]_sessionVars

-----------------------------------------------------------------------------
(* Properties *)

\* A sign-out ends the session of its login: the instance that revoked a
\* token of the session accepts none afterwards, and every other instance
\* stops within SnapshotTTL, including the tokens that a switch of the org
\* signed after the sign-out (selectOrgToken keeps the token ID, revoke
\* stores it).
SignOutEndsSession ==
    \A i \in Instances, t \in tokens : Accepted(i, t) =>
        /\ i \notin signedOut[t.login].by
        /\ now < signedOut[t.login].at + SnapshotTTL

\* A session ends TokenTTL after its login, however often its org is switched
\* and whether or not its first token waited under a one-time code
\* (handleToken sets the expiry, selectOrgToken keeps it).
SessionEndsOnTime ==
    \A i \in Instances, t \in tokens : Accepted(i, t) => now < loginAt[t.login] + TokenTTL

\* A one-time code answers for one verifier: once a call has compared its
\* own, right or wrong, no call that starts later finds the code.  ExchangeCode
\* deletes the code before it compares, a call whose delete fails compares
\* nothing, and the code of a later login is another one.
AnsweredCodeIsGone == \A o \in otc : o.code \notin answered

=============================================================================
