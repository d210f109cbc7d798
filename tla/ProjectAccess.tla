--------------------------- MODULE ProjectAccess ---------------------------
(***************************************************************************)
(* Access to the projects of one org: the project cache of the authorizer  *)
(* of each server, the handlers that change a project or its API keys, and *)
(* the tokens that an API key signs in for.  A call decides on a cached    *)
(* project and acts later; it lasts CallTime at most.  The role of a user  *)
(* is checked by Membership: the users here hold the role they need.       *)
(***************************************************************************)
EXTENDS Naturals, FiniteSets

CONSTANTS
    Servers,     \* server instances, each with its authorizer
    Projects,    \* projects of the org
    APIKeys,     \* IDs of API keys
    Calls,       \* concurrent calls
    CacheTTL,    \* grantsCacheTTL
    KeyTokenTTL, \* validity of the token of an API key
    KeyExpiries, \* validities that a new key may get
    CallTime,    \* the longest duration of a call
    MaxTime,     \* bound: time
    MaxCalls     \* bound: calls started

OrgWide == "org"
NoKey == "no key"

ASSUME ProjectAccessAssumption ==
    /\ {CacheTTL, KeyTokenTTL, MaxTime} \subseteq Nat \ {0}
    /\ {CallTime, MaxCalls} \subseteq Nat
    /\ KeyExpiries \subseteq Nat \ {0}
    /\ OrgWide \notin Projects
    /\ NoKey \notin APIKeys

VARIABLES
    clock,     \* time
    active,    \* projects with status Active
    keys,      \* rows of API keys
    cache,     \* projects cached by server
    call,      \* calls in progress
    keyTokens, \* tokens of API keys
    started,   \* bound: number of calls started
    closedAt,  \* history: time a project was deactivated
    keyEnd,    \* history: time an API key expired or was deleted
    settled    \* history: servers that dropped a closed project for good

projectVars ==
    <<clock, active, keys, cache, call, keyTokens, started, closedAt, keyEnd, settled>>

NotCached == [active |-> FALSE, until |-> 0]
NoKeyRow == [project |-> OrgWide, exp |-> 0]

IdleCall ==
    [pc |-> "idle", began |-> 0, at |-> "none", op |-> "none", project |-> OrgWide,
     key |-> NoKey, then |-> "idle", read |-> FALSE]

\* Some keys may have been created before, at time 0.
ProjectInit ==
    /\ clock = 1
    /\ active = Projects
    /\ keys \in [APIKeys -> {NoKeyRow} \cup [project : Projects \cup {OrgWide}, exp : KeyExpiries]]
    /\ cache = [s \in Servers |-> [p \in Projects |-> NotCached]]
    /\ call = [c \in Calls |-> IdleCall]
    /\ keyTokens = {}
    /\ started = 0
    /\ closedAt = [p \in Projects |-> MaxTime + 1]
    /\ keyEnd = [k \in APIKeys |-> keys[k].exp]
    /\ settled = {}

-----------------------------------------------------------------------------
(* The authorizer *)

Goto(c, pc) == call' = [call EXCEPT ![c].pc = pc]
Return(c) == call' = [call EXCEPT ![c] = IdleCall]

\* A call arrives at a server: an operation, its project and its API key.
Begin(c, pc, s, op, p, k) ==
    /\ call[c].pc = "idle"
    /\ started < MaxCalls
    /\ started' = started + 1
    /\ call' = [call EXCEPT ![c] =
          [IdleCall EXCEPT !.pc = pc, !.began = clock, !.at = s, !.op = op, !.project = p, !.key = k]]
    /\ UNCHANGED <<clock, active, keys, cache, keyTokens, closedAt, keyEnd, settled>>

\* What follows the check of the project: CheckAccess makes it for every
\* method, and the handlers of projects and of new keys make it again.
Passed(c, pc) ==
    CASE pc = "access" /\ call[c].op = "use"    -> "idle"
      [] pc = "access" /\ call[c].op = "delete" -> "find"
      [] pc = "access"                          -> "handler"
      [] OTHER                                  -> "write"

\* Project: the call goes on if the project is active.
Decide(c, pc, isActive) ==
    IF ~isActive \/ Passed(c, pc) = "idle" THEN Return(c) ELSE Goto(c, Passed(c, pc))

\* getProject finds the project in the cache.
ProjectHit(c) ==
    LET p == call[c].project
        entry == cache[call[c].at][p]
    IN /\ call[c].pc \in {"access", "handler"}
       /\ p \in Projects
       /\ clock < entry.until
       /\ Decide(c, call[c].pc, entry.active)
       /\ UNCHANGED <<clock, active, keys, cache, keyTokens, started, closedAt, keyEnd, settled>>

\* getProject reads the row of a project that is not in the cache.
ProjectRead(c) ==
    LET p == call[c].project IN
    /\ call[c].pc \in {"access", "handler"}
    /\ p \in Projects
    /\ clock >= cache[call[c].at][p].until
    /\ call' = [call EXCEPT ![c].pc = "fill", ![c].then = call[c].pc, ![c].read = p \in active]
    /\ UNCHANGED <<clock, active, keys, cache, keyTokens, started, closedAt, keyEnd, settled>>

\* Variant: the row is cached without a lifetime.
FillForGood(c) ==
    /\ call[c].pc = "fill"
    /\ cache' = [cache EXCEPT ![call[c].at][call[c].project] =
                    [active |-> call[c].read, until |-> MaxTime + 1]]
    /\ Decide(c, call[c].then, call[c].read)
    /\ UNCHANGED <<clock, active, keys, keyTokens, started, closedAt, keyEnd, settled>>

\* getProject caches the row it has read.
ProjectFill(c) ==
    /\ call[c].pc = "fill"
    /\ cache' = [cache EXCEPT ![call[c].at][call[c].project] =
                    [active |-> call[c].read, until |-> clock + CacheTTL]]
    /\ Decide(c, call[c].then, call[c].read)
    /\ UNCHANGED <<clock, active, keys, keyTokens, started, closedAt, keyEnd, settled>>

\* Without a project there is nothing to look up.
OrgAccess(c) ==
    /\ call[c].pc \in {"access", "handler"}
    /\ call[c].project = OrgWide
    /\ Decide(c, call[c].pc, TRUE)
    /\ UNCHANGED <<clock, active, keys, cache, keyTokens, started, closedAt, keyEnd, settled>>

-----------------------------------------------------------------------------
(* Projects and API keys *)

\* CheckAccess for a user.
UserCall(c, s) ==
    \/ \E p \in Projects, op \in {"use", "update", "close"} : Begin(c, "access", s, op, p, NoKey)
    \/ \E p \in Projects \cup {OrgWide} :
          \/ Begin(c, "access", s, "create", p, NoKey)
          \/ \E k \in APIKeys : Begin(c, "access", s, "delete", p, k)

\* checkAPIKeyAccess: a key of a project acts in that project, an org-wide
\* key where the request says.
KeyScope(t) == IF t.project = OrgWide THEN Projects \cup {OrgWide} ELSE {t.project}

\* CheckAccess for the token of an API key, with the scopes it needs.
KeyCall(c, s) ==
    \E t \in keyTokens :
        /\ clock < t.exp
        /\ \E p \in KeyScope(t) : Begin(c, "access", s, "use", p, t.key)

\* CreateAPIKey inserts the row.
CreateAPIKey(c) ==
    /\ call[c].pc = "write" /\ call[c].op = "create"
    /\ \E k \in APIKeys, e \in KeyExpiries :
          /\ keyEnd[k] = 0
          /\ keys' = [keys EXCEPT ![k] = [project |-> call[c].project, exp |-> clock + e]]
          /\ keyEnd' = [keyEnd EXCEPT ![k] = clock + e]
    /\ Return(c)
    /\ UNCHANGED <<clock, active, cache, keyTokens, started, closedAt, settled>>

\* DeleteAPIKey reads the row, which must be of the project of the request.
FindKey(c) ==
    /\ call[c].pc = "find"
    /\ IF keys[call[c].key] # NoKeyRow /\ call[c].project \in {OrgWide, keys[call[c].key].project}
       THEN Goto(c, "write") ELSE Return(c)
    /\ UNCHANGED <<clock, active, keys, cache, keyTokens, started, closedAt, keyEnd, settled>>

DeleteAPIKey(c) ==
    /\ call[c].pc = "write" /\ call[c].op = "delete"
    /\ keys' = [keys EXCEPT ![call[c].key] = NoKeyRow]
    /\ keyEnd' = [keyEnd EXCEPT ![call[c].key] = IF clock < @ THEN clock ELSE @]
    /\ Return(c)
    /\ UNCHANGED <<clock, active, cache, keyTokens, started, closedAt, settled>>

\* The UPDATE of DeleteProject and of UpdateProject, which leaves the status.
UpdateProject(c) ==
    LET p == call[c].project IN
    /\ call[c].pc = "write" /\ call[c].op \in {"update", "close"}
    /\ active' = IF call[c].op = "close" THEN active \ {p} ELSE active
    /\ closedAt' = IF p \in active \ active' THEN [closedAt EXCEPT ![p] = clock] ELSE closedAt
    /\ Goto(c, "invalidate")
    /\ UNCHANGED <<clock, keys, cache, keyTokens, started, keyEnd, settled>>

\* History: no call at the server is about to cache the project as active.
NoStaleFill(s, p) ==
    p \notin active /\ ~\E d \in Calls :
        call[d].pc = "fill" /\ call[d].at = s /\ call[d].project = p /\ call[d].read

\* Variant: nothing is invalidated.
KeepProject(c) ==
    /\ call[c].pc = "invalidate"
    /\ settled' = IF NoStaleFill(call[c].at, call[c].project)
                  THEN settled \cup {<<call[c].at, call[c].project>>} ELSE settled
    /\ Return(c)
    /\ UNCHANGED <<clock, active, keys, cache, keyTokens, started, closedAt, keyEnd>>

InvalidateProject(c) ==
    /\ call[c].pc = "invalidate"
    /\ cache' = [cache EXCEPT ![call[c].at][call[c].project] = NotCached]
    /\ settled' = IF NoStaleFill(call[c].at, call[c].project)
                  THEN settled \cup {<<call[c].at, call[c].project>>} ELSE settled
    /\ Return(c)
    /\ UNCHANGED <<clock, active, keys, keyTokens, started, closedAt, keyEnd>>

-----------------------------------------------------------------------------
(* The sign-in of an API key *)

SignIn(c, s) == \E k \in APIKeys : Begin(c, "key", s, "signin", OrgWide, k)

\* Variant: the expiry is not checked.
UseAnyKey(c) ==
    /\ call[c].pc = "key"
    /\ IF keys[call[c].key] = NoKeyRow THEN Return(c)
       ELSE call' = [call EXCEPT ![c].pc = "project", ![c].project = keys[call[c].key].project]
    /\ UNCHANGED <<clock, active, keys, cache, keyTokens, started, closedAt, keyEnd, settled>>

\* findAPIKey: UseAPIKey returns the row, which must not have expired.
UseAPIKey(c) ==
    LET row == keys[call[c].key] IN
    /\ call[c].pc = "key"
    /\ IF row = NoKeyRow \/ row.exp < clock THEN Return(c)
       ELSE call' = [call EXCEPT ![c].pc = "project", ![c].project = row.project]
    /\ UNCHANGED <<clock, active, keys, cache, keyTokens, started, closedAt, keyEnd, settled>>

\* authenticateAPIKey reads the project of the key from the database.
KeyProject(c) ==
    /\ call[c].pc = "project"
    /\ IF call[c].project \in active \cup {OrgWide} THEN Goto(c, "sign") ELSE Return(c)
    /\ UNCHANGED <<clock, active, keys, cache, keyTokens, started, closedAt, keyEnd, settled>>

\* It signs a token that outlives the key and the project, if need be.
SignToken(c) ==
    /\ call[c].pc = "sign"
    /\ keyTokens' = keyTokens \cup
          {[key |-> call[c].key, project |-> call[c].project, exp |-> clock + KeyTokenTTL]}
    /\ Return(c)
    /\ UNCHANGED <<clock, active, keys, cache, started, closedAt, keyEnd, settled>>

-----------------------------------------------------------------------------

\* A statement fails, and with it the call.
CallFails(c) ==
    /\ call[c].pc \notin {"idle", "invalidate"}
    /\ Return(c)
    /\ UNCHANGED <<clock, active, keys, cache, keyTokens, started, closedAt, keyEnd, settled>>

ClockTick ==
    /\ clock < MaxTime
    /\ \A c \in Calls : call[c].pc # "idle" => clock < call[c].began + CallTime
    /\ clock' = clock + 1
    /\ UNCHANGED <<active, keys, cache, call, keyTokens, started, closedAt, keyEnd, settled>>

ProjectNext ==
    \/ \E c \in Calls :
          \/ \E s \in Servers : UserCall(c, s) \/ KeyCall(c, s) \/ SignIn(c, s)
          \/ ProjectHit(c) \/ ProjectRead(c) \/ ProjectFill(c) \/ OrgAccess(c)
          \/ CreateAPIKey(c) \/ FindKey(c) \/ DeleteAPIKey(c)
          \/ UpdateProject(c) \/ InvalidateProject(c)
          \/ UseAPIKey(c) \/ KeyProject(c) \/ SignToken(c)
          \/ CallFails(c)
    \/ ClockTick

ProjectSpec == ProjectInit /\ [][ProjectNext]_projectVars

-----------------------------------------------------------------------------
(* Properties *)

\* CheckAccess is about to let the call into its project: the authorizer has
\* read an active row, or has one in the cache, or finds one in the table.
Admitted(c) ==
    /\ call[c].project \in Projects
    /\ \/ call[c].pc = "fill" /\ call[c].then = "access" /\ call[c].read
       \/ /\ call[c].pc = "access"
          /\ LET entry == cache[call[c].at][call[c].project] IN
             IF clock < entry.until THEN entry.active ELSE call[c].project \in active

\* A project that DeleteProject deactivated admits no call that begins
\* CacheTTL + CallTime later, on any server: neither a user's, whose role is
\* still granted, nor one with the token of an API key, which outlives both
\* (Project trusts a cached row for grantsCacheTTL; a lookup that read the row
\* before the deactivation may cache it after).
ProjectCloses ==
    \A c \in Calls : Admitted(c) => call[c].began < closedAt[call[c].project] + CallTime + CacheTTL

\* The server that handled DeleteProject admits no further call to the project
\* once it has dropped its cached row, except through a lookup that had read
\* the row before and was still to cache it (InvalidateProject).
CloseHoldsHere ==
    \A c \in Calls : Admitted(c) => <<call[c].at, call[c].project>> \notin settled

\* A deleted or expired API key gets no call past its authentication that
\* begins KeyTokenTTL + CallTime later (findAPIKey checks the row at the
\* sign-in only; the token lasts an hour).
KeyAccessEnds ==
    \A c \in Calls : call[c].op = "use" /\ call[c].key \in APIKeys =>
        call[c].began < keyEnd[call[c].key] + CallTime + KeyTokenTTL

=============================================================================
