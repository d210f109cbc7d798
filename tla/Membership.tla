----------------------------- MODULE Membership -----------------------------
(***************************************************************************)
(* The grants of one org: the membership handlers of the Orgs service, the *)
(* acceptance of invites at login, and the grants cache of the authorizer  *)
(* of each instance.  A handler decides on cached grants and on rows it    *)
(* has read, and writes later in a statement of its own: the steps of      *)
(* concurrent requests interleave.  Rows of other orgs are filtered by     *)
(* every query, so one org is modelled.  A check that an org is active can *)
(* only turn false, so it is made together with the read before it.  The   *)
(* projects stay active.                                                   *)
(***************************************************************************)
EXTENDS Naturals, FiniteSets

CONSTANTS
    Users,       \* users, each with one email address
    Projects,    \* projects of the org
    Instances,   \* server instances, each with its authorizer
    Requests,    \* concurrent requests
    ReqRoles,    \* roles the requests grant
    Logins,      \* concurrent logins
    MaxStarts,   \* bound: requests that pass their first check
    MaxInvites   \* bound: invite rows inserted

Org == "org"
Scopes == {Org} \cup Projects

\* RegisterOrg creates the org with its Owner; NoRole is Role_None.
NoRole == "None"
Roles == {"Viewer", "User", "Support", "Billing", "Security", "Admin", "Owner"}

ASSUME MembershipAssumption ==
    /\ Org \notin Projects
    /\ ReqRoles \subseteq Roles
    /\ MaxStarts \in Nat
    /\ MaxInvites \in Nat

VARIABLES
    org,      \* status of the org row
    known,    \* users with a user row
    grants,   \* membership rows: role by user and scope
    invites,  \* invite rows by email and scope
    nextID,   \* next invite ID
    cache,    \* memberships cached by instance and user
    req,      \* requests
    login,    \* logins in progress
    starts,   \* bound: number of requests started
    held      \* history: grants that were ever in the table

rowVars == <<org, known, grants, invites, nextID, held>>
vars == <<org, known, grants, invites, nextID, cache, req, login, starts, held>>

-----------------------------------------------------------------------------
(* Roles: internal/authctx *)

CanAssumeRoles ==
    [Viewer   |-> {"Viewer"},
     User     |-> {"User", "Viewer"},
     Billing  |-> {"Billing", "Viewer"},
     Support  |-> {"Support", "User", "Viewer"},
     Security |-> {"Security", "User", "Viewer"},
     Admin    |-> Roles \ {"Owner"},
     Owner    |-> Roles]

OrgRoles == Roles
ProjectRoles == Roles \ {"Owner", "Billing"}

\* Grants.Roles: the roles a user acts with at the scope.  A user with
\* project grants only is a Viewer of the org.
RolesAt(g, s) ==
    IF s # Org THEN {g[Org], g[s]} \ {NoRole}
    ELSE IF g[Org] # NoRole THEN {g[Org]}
    ELSE IF \E p \in Projects : g[p] # NoRole THEN {"Viewer"} ELSE {}

\* HighestRole finds a role that can assume the allowed one.
HasRole(g, s, allowed) == \E role \in RolesAt(g, s) : allowed \in CanAssumeRoles[role]

\* Variant: an Admin may grant every role.
AdminGrantsAll(g, role) == role \in OrgRoles /\ HasRole(g, Org, "Admin")

CanGrantOrgRole(g, role) ==
    /\ role \in OrgRoles
    /\ g[Org] # NoRole
    /\ \/ g[Org] = "Owner"
       \/ role # "Owner" /\ "Admin" \in CanAssumeRoles[g[Org]]

CanGrantProjectRole(g, p, role) == role \in ProjectRoles /\ HasRole(g, p, "Admin")

\* checkGrantable
Grantable(g, s, role) ==
    IF s = Org THEN CanGrantOrgRole(g, role) ELSE CanGrantProjectRole(g, s, role)

-----------------------------------------------------------------------------

NoGrants == [s \in Scopes |-> NoRole]

\* ListMemberships of a user in active orgs.
Memberships(u) == IF org = "Active" THEN grants[u] ELSE NoGrants

NotCached == [s \in Scopes |-> "?"]

NoInvite == [id |-> 0, role |-> NoRole, inviter |-> "nobody", expired |-> FALSE]

Idle ==
    [pc |-> "idle", inst |-> "none", who |-> "nobody", view |-> NoGrants, op |-> "none",
     target |-> "nobody", scope |-> Org, role |-> NoRole, old |-> NoRole, raced |-> FALSE]

NoLogin == [pc |-> "idle", user |-> "nobody", todo |-> {}, accepted |-> FALSE]

Owners(g) == {u \in Users : g[u][Org] = "Owner"}

\* A write of the membership table.
WriteGrant(u, s, role) ==
    /\ grants' = [grants EXCEPT ![u][s] = role]
    /\ held' = IF role = NoRole THEN held ELSE held \cup {<<u, s, role>>}

\* History: the requests that have read a row learn that the owners changed.
Raced(requests) ==
    [r \in Requests |->
        IF requests[r].pc \in {"check", "recheck", "owner", "write"} /\ Owners(grants') # Owners(grants)
        THEN [requests[r] EXCEPT !.raced = TRUE]
        ELSE requests[r]]

\* An org right after RegisterOrg: the caller is its Owner.
Init ==
    /\ org = "Active"
    /\ \E owner \in Users :
          /\ known = {owner}
          /\ grants = [u \in Users |-> [NoGrants EXCEPT ![Org] = IF u = owner THEN "Owner" ELSE NoRole]]
          /\ held = {<<owner, Org, "Owner">>}
    /\ invites = [u \in Users |-> [s \in Scopes |-> NoInvite]]
    /\ nextID = 1
    /\ cache = [i \in Instances |-> [u \in Users |-> NotCached]]
    /\ req = [r \in Requests |-> Idle]
    /\ login = [l \in Logins |-> NoLogin]
    /\ starts = 0
-----------------------------------------------------------------------------
(* Requests *)

Goto(r, pc) == req' = [req EXCEPT ![r] = [@ EXCEPT !.pc = pc]]
Return(r) == req' = [req EXCEPT ![r] = Idle]

\* What a request that has written still uses.
Written(r) == [Idle EXCEPT !.pc = "invalidate", !.inst = req[r].inst, !.target = req[r].target]

\* getMemberships of a caller whose memberships are not cached: the query.
LoadGrants(r) ==
    /\ req[r].pc = "idle"
    /\ starts < MaxStarts
    /\ \E i \in Instances, u \in known :
          /\ cache[i][u] = NotCached
          /\ req' = [req EXCEPT ![r] = [Idle EXCEPT !.pc = "loaded", !.inst = i, !.who = u,
                                                   !.view = Memberships(u)]]
    /\ UNCHANGED <<rowVars, cache, login, starts>>

\* The grants of the caller: cached, or loaded by r and cached now.
Grants(r, i, u, view) ==
    \/ /\ req[r].pc = "idle"
       /\ cache[i][u] # NotCached
       /\ view = cache[i][u]
       /\ UNCHANGED cache
    \/ /\ req[r].pc = "loaded"
       /\ i = req[r].inst /\ u = req[r].who /\ view = req[r].view
       /\ cache' = [cache EXCEPT ![i][u] = view]

\* The interceptor and the first check of the handler let the request pass.
Begin(r, pc, op, i, u, target, s, role) ==
    /\ starts < MaxStarts
    /\ starts' = starts + 1
    /\ req' = [req EXCEPT ![r] = [Idle EXCEPT !.pc = pc, !.op = op, !.inst = i, !.who = u,
                                             !.target = target, !.scope = s, !.role = role]]
    /\ UNCHANGED <<rowVars, login>>

AddMember(r, i, u, view) ==
    \E target \in Users, s \in Scopes, role \in ReqRoles :
        /\ Grantable(view, s, role)
        /\ org = "Active"
        /\ Begin(r, "lookup", "add", i, u, target, s, role)

ChangeMemberRole(r, i, u, view) ==
    \E target \in Users, s \in Scopes, role \in ReqRoles :
        /\ Grantable(view, s, role)
        /\ Begin(r, "find", "change", i, u, target, s, role)

DeleteMember(r, i, u, view) ==
    \E target \in Users, s \in Scopes :
        /\ HasRole(view, s, "Admin")
        /\ Begin(r, "find", "remove", i, u, target, s, NoRole)

DeleteInvite(r, i, u, view) ==
    \E target \in Users, s \in Scopes :
        /\ HasRole(view, s, "Admin")
        /\ Begin(r, "withdraw", "withdraw", i, u, target, s, NoRole)

DeleteOrg(r, i, u, view) ==
    /\ HasRole(view, Org, "Owner")
    /\ Begin(r, "deactivate", "deleteOrg", i, u, u, Org, NoRole)

\* A request that passes CheckAccess and its first check of the grants.
Access(r) ==
    \E i \in Instances, u \in known : \E view \in {cache[i][u], req[r].view} :
        /\ Grants(r, i, u, view)
        /\ \/ AddMember(r, i, u, view)
           \/ ChangeMemberRole(r, i, u, view)
           \/ DeleteMember(r, i, u, view)
           \/ DeleteInvite(r, i, u, view)
           \/ DeleteOrg(r, i, u, view)

\* A request that is refused has cached the grants it loaded.
Refused(r) ==
    /\ req[r].pc = "loaded"
    /\ cache' = [cache EXCEPT ![req[r].inst][req[r].who] = req[r].view]
    /\ Return(r)
    /\ UNCHANGED <<rowVars, login, starts>>

\* AddMember reads the user and the memberships of the user: a user without
\* a row, or whose row it fails to read, is invited; a grant at the scope
\* ends the request.
LookupUser(r) ==
    /\ req[r].pc = "lookup"
    /\ \/ Goto(r, "invite")
       \/ /\ req[r].target \in known
          /\ grants[req[r].target][req[r].scope] = NoRole
          /\ Goto(r, "write")
       \/ /\ req[r].target \in known
          /\ grants[req[r].target][req[r].scope] # NoRole
          /\ Return(r)
    /\ UNCHANGED <<rowVars, cache, login, starts>>

\* findMember: no grant, or one that has the role already, ends the request.
FindMember(r) ==
    LET old == grants[req[r].target][req[r].scope] IN
    /\ req[r].pc = "find"
    /\ \/ /\ old \in {NoRole, req[r].role}
          /\ Return(r)
       \/ /\ old \notin {NoRole, req[r].role}
          /\ req' = [req EXCEPT ![r] = [@ EXCEPT !.pc = "check", !.old = old]]
    /\ UNCHANGED <<rowVars, cache, login, starts>>

\* checkGrantable of the role the member has: the grants of the caller are
\* cached, or loaded again.
Decide(r, view) ==
    IF Grantable(view, req[r].scope, req[r].old) 
    THEN req' = [req EXCEPT ![r] = [@ EXCEPT !.pc = "owner", !.view = NoGrants]]
    ELSE Return(r)

CheckGrantable(r) ==
    /\ \/ /\ req[r].pc = "check"
          /\ cache[req[r].inst][req[r].who] # NotCached
          /\ Decide(r, cache[req[r].inst][req[r].who])
          /\ UNCHANGED cache
       \/ /\ req[r].pc = "check"
          /\ cache[req[r].inst][req[r].who] = NotCached
          /\ req' = [req EXCEPT ![r] = [@ EXCEPT !.pc = "recheck", !.view = Memberships(req[r].who)]]
          /\ UNCHANGED cache
       \/ /\ req[r].pc = "recheck"
          /\ cache' = [cache EXCEPT ![req[r].inst][req[r].who] = req[r].view]
          /\ Decide(r, req[r].view)
    /\ UNCHANGED <<rowVars, login, starts>>

\* Variant: the last Owner is not counted.
OwnersSuffice(r) == req[r].old \in Roles

\* checkLastOwner: a grant of Owner needs another one beside it.
KeepsOwner(r) ==
    req[r].scope = Org /\ req[r].old = "Owner" => Cardinality(Owners(grants)) > 1

\* checkLastOwner, and getActiveOrg of a role change.
CheckLastOwner(r) ==
    /\ req[r].pc = "owner"
    /\ IF KeepsOwner(r) /\ (req[r].op = "change" => org = "Active")
       THEN req' = [req EXCEPT ![r] = [@ EXCEPT !.pc = "write", !.old = NoRole]]
       ELSE Return(r)
    /\ UNCHANGED <<rowVars, cache, login, starts>>

\* The statement on the membership table.  AddMember inserts the grant or
\* gives the one it finds the new role; UpdateMemberRole fails without a row.
Write(r) ==
    LET u == req[r].target
        s == req[r].scope
    IN
    /\ req[r].pc = "write"
    /\ \/ /\ req[r].op = "change" /\ grants[u][s] = NoRole
          /\ Return(r)
          /\ UNCHANGED <<grants, held>>
       \/ /\ req[r].op # "change" \/ grants[u][s] # NoRole
          /\ WriteGrant(u, s, req[r].role)
          /\ req' = Raced([req EXCEPT ![r] = Written(r)])
    /\ UNCHANGED <<org, known, invites, nextID, cache, login, starts>>

\* InvalidateUser, on the instance of the request only.
InvalidateUser(r) ==
    /\ req[r].pc = "invalidate"
    /\ cache' = [cache EXCEPT ![req[r].inst][req[r].target] = NotCached]
    /\ Return(r)
    /\ UNCHANGED <<rowVars, login, starts>>
\* CreateInvite: a second invite at the scope updates the row of the first.
CreateInvite(r) ==
    LET u == req[r].target
        s == req[r].scope
        new == invites[u][s] = NoInvite
    IN
    /\ req[r].pc = "invite"
    /\ new => nextID <= MaxInvites
    /\ invites' = [invites EXCEPT ![u][s] =
          [id |-> IF new THEN nextID ELSE @.id, role |-> req[r].role,
           inviter |-> req[r].who, expired |-> FALSE]]
    /\ nextID' = IF new THEN nextID + 1 ELSE nextID
    /\ Return(r)
    /\ UNCHANGED <<org, known, grants, held, cache, login, starts>>

\* DeleteInvite withdraws the invite at the scope.
WithdrawInvite(r) ==
    /\ req[r].pc = "withdraw"
    /\ invites' = [invites EXCEPT ![req[r].target][req[r].scope] = NoInvite]
    /\ Return(r)
    /\ UNCHANGED <<org, known, grants, nextID, held, cache, login, starts>>

\* DeleteOrg deactivates the org; the caller alone is invalidated.
DeactivateOrg(r) ==
    /\ req[r].pc = "deactivate"
    /\ org' = "Inactive"
    /\ req' = [req EXCEPT ![r] = Written(r)]
    /\ UNCHANGED <<known, grants, invites, nextID, held, cache, login, starts>>

\* A query of the request fails.
RequestFail(r) ==
    /\ req[r].pc \notin {"idle", "invalidate"}
    /\ Return(r)
    /\ UNCHANGED <<rowVars, cache, login, starts>>

\* The entry of the user reaches its TTL.
CacheExpire(i, u) ==
    /\ cache[i][u] # NotCached
    /\ cache' = [cache EXCEPT ![i][u] = NotCached]
    /\ UNCHANGED <<rowVars, req, login, starts>>

-----------------------------------------------------------------------------
(* The first login of a user with an identity accepts the pending invites *)

\* LoginUser registers the user, and AcceptInvites lists the invites of the
\* email that are not expired.  A failed list, as an empty one, accepts none.
\* The two are one step: only LookupUser tells them apart, and it may take a
\* registered user for an unknown one as well.
LoginUser(l) ==
    /\ login[l].pc = "idle"
    /\ \E u \in Users :
          LET live == {s \in Scopes : invites[u][s] # NoInvite /\ ~invites[u][s].expired}
              todo == {[scope |-> s, id |-> invites[u][s].id] : s \in live}
          IN
          /\ known' = known \cup {u}
          /\ \/ /\ todo # {}
                /\ login' = [login EXCEPT ![l] = [pc |-> "accept", user |-> u, todo |-> todo,
                                                 accepted |-> FALSE]]
             \/ UNCHANGED login
    /\ UNCHANGED <<org, grants, invites, nextID, held, cache, req, starts>>

\* Variant: the expiry is only checked when the invites are listed.
TakeListed(l, inv) ==
    LET u == login[l].user IN
    /\ invites[u][inv.scope].id = inv.id
    /\ invites' = [invites EXCEPT ![u][inv.scope] = NoInvite]
    /\ WriteGrant(u, inv.scope, invites[u][inv.scope].role)

\* acceptInvite: the transaction takes the row as it is now, by its ID.
TakeInvite(l, inv) ==
    LET u == login[l].user IN
    /\ invites[u][inv.scope].id = inv.id
    /\ ~invites[u][inv.scope].expired
    /\ invites' = [invites EXCEPT ![u][inv.scope] = NoInvite]
    /\ WriteGrant(u, inv.scope, invites[u][inv.scope].role)

AcceptInvite(l) ==
    /\ login[l].pc = "accept"
    /\ \E inv \in login[l].todo :
          /\ TakeInvite(l, inv)
          /\ login' = [login EXCEPT ![l] = [login[l] EXCEPT !.todo = @ \ {inv}, !.accepted = TRUE]]
    /\ req' = Raced(req)
    /\ UNCHANGED <<org, known, nextID, cache, starts>>

\* The invite is gone, is expired, or its transaction fails: the next one.
SkipInvite(l) ==
    /\ login[l].pc = "accept"
    /\ \E inv \in login[l].todo : login' = [login EXCEPT ![l].todo = @ \ {inv}]
    /\ UNCHANGED <<rowVars, cache, req, starts>>

\* The login invalidates the cached grants of its user, on its instance,
\* when it accepted an invite.
LoginDone(l) ==
    /\ login[l].pc = "accept" /\ login[l].todo = {}
    /\ IF login[l].accepted
       THEN \E i \in Instances : cache' = [cache EXCEPT ![i][login[l].user] = NotCached]
       ELSE UNCHANGED cache
    /\ login' = [login EXCEPT ![l] = NoLogin]
    /\ UNCHANGED <<rowVars, req, starts>>

ExpireInvite(u, s) ==
    /\ invites[u][s] # NoInvite
    /\ ~invites[u][s].expired
    /\ invites' = [invites EXCEPT ![u][s].expired = TRUE]
    /\ UNCHANGED <<org, known, grants, nextID, held, cache, req, login, starts>>
-----------------------------------------------------------------------------

Request(r) ==
    \/ LoadGrants(r) \/ Access(r) \/ Refused(r) \/ LookupUser(r) \/ FindMember(r)
    \/ CheckGrantable(r) \/ CheckLastOwner(r) \/ Write(r) \/ InvalidateUser(r)
    \/ CreateInvite(r) \/ WithdrawInvite(r) \/ DeactivateOrg(r) \/ RequestFail(r)

Login(l) ==
    \/ LoginUser(l) \/ AcceptInvite(l) \/ SkipInvite(l) \/ LoginDone(l)

Next ==
    \/ \E r \in Requests : Request(r)
    \/ \E l \in Logins : Login(l)
    \/ \E i \in Instances, u \in Users : CacheExpire(i, u)
    \/ \E u \in Users, s \in Scopes : ExpireInvite(u, s)

Spec == Init /\ [][Next]_vars

-----------------------------------------------------------------------------

Views == [Scopes -> Roles \cup {NoRole}]
Pcs == {"idle", "loaded", "lookup", "find", "check", "recheck", "owner", "write", "invite",
        "withdraw", "deactivate", "invalidate"}

InviteRecord ==
    [id : Nat, role : Roles \cup {NoRole}, inviter : Users \cup {"nobody"}, expired : BOOLEAN]

ReqRecord ==
    [pc : Pcs, inst : Instances \cup {"none"}, who : Users \cup {"nobody"}, view : Views,
     op : {"none", "add", "change", "remove", "withdraw", "deleteOrg"},
     target : Users \cup {"nobody"}, scope : Scopes, role : Roles \cup {NoRole},
     old : Roles \cup {NoRole}, raced : BOOLEAN]

LoginRecord ==
    [pc : {"idle", "accept"}, user : Users \cup {"nobody"},
     todo : SUBSET [scope : Scopes, id : Nat], accepted : BOOLEAN]

\* The rows, the caches and the steps of the requests and the logins of the
\* membership handlers have their types.
MemberTypeOK ==
    /\ org \in {"Active", "Inactive"}
    /\ known \subseteq Users
    /\ grants \in [Users -> Views]
    /\ invites \in [Users -> [Scopes -> InviteRecord]]
    /\ nextID \in Nat \ {0}
    /\ cache \in [Instances -> [Users -> Views \cup {NotCached}]]
    /\ req \in [Requests -> ReqRecord]
    /\ login \in [Logins -> LoginRecord]
    /\ starts \in Nat
    /\ held \subseteq Users \X Scopes \X Roles

\* checkLastOwner "refuses to remove or demote the last org Owner": no write
\* of a request leaves an org that has an Owner without one.
LastOwnerKept ==
    [][\A r \in Requests :
        req[r].pc = "write" /\ req'[r].pc = "invalidate" /\ Owners(grants) # {}
            => Owners(grants') # {}]_vars

\* What checkLastOwner does ensure: the last Owner is only lost in the write
\* of a request that another write of the owners overtook after it had read
\* the member, or when a login accepts an invite over the grant of the Owner.
OwnerlessOnlyByRace ==
    [][Owners(grants) # {} /\ Owners(grants') = {}
        => \/ \E r \in Requests : req[r].pc = "write" /\ req[r].raced /\ req'[r].pc = "invalidate"
           \/ \E u \in Owners(grants) : invites[u][Org] # NoInvite /\ invites'[u][Org] = NoInvite]_vars

\* b has at some time held a grant that may give the role at the scope: an
\* Owner gives every role, an Admin of the org every other role, an Admin of
\* a project its roles.
MayHaveGranted(b, s, role) ==
    /\ s # Org => role \in ProjectRoles
    /\ \/ <<b, Org, "Owner">> \in held
       \/ role # "Owner" /\ \E t \in {Org, s} : <<b, t, "Admin">> \in held

\* checkGrantable on cached, reloaded or stale grants: a role that a request
\* is about to grant, or that an invite in the table will grant at a later
\* login, was asked for by a user who really held the right to grant it.
GrantedByHolder ==
    /\ \A r \in Requests :
          req[r].op \in {"add", "change"} => MayHaveGranted(req[r].who, req[r].scope, req[r].role)
    /\ \A u \in Users, s \in Scopes :
          invites[u][s] # NoInvite => MayHaveGranted(invites[u][s].inviter, s, invites[u][s].role)

\* Owner and Billing are roles of the org (authctx.ProjectRoles): no path
\* through a request, an invite or a login leaves them on a project.
ScopeRoles ==
    \A u \in Users, p \in Projects :
        {grants[u][p], invites[u][p].role} \subseteq ProjectRoles \cup {NoRole}

\* acceptInvite "grants the invite it deletes": a grant that no request
\* writes is the one of the invite as it is now, live and used up by the
\* step, however the invite changed since the login listed it.
InviteGrantsItsRole ==
    [][\A u \in Users, s \in Scopes :
        grants'[u][s] # grants[u][s] /\ (\A r \in Requests : req[r].pc = "write" => req'[r].pc # "invalidate")
            => /\ invites[u][s] # NoInvite /\ ~invites[u][s].expired
               /\ grants'[u][s] = invites[u][s].role
               /\ invites'[u][s] = NoInvite]_vars
=============================================================================
