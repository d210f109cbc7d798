-------------------------- MODULE MembershipProofs --------------------------
(***************************************************************************)
(* Proofs for Membership, for any users, projects, instances, requests and *)
(* logins.  The invariant MemberInv is a conjunction of predicates on one  *)
(* request, invite, login or cached view each; they take the history of    *)
(* the grants and the set of the Owners as parameters, so that what a step *)
(* does to them is a statement about constants.                            *)
(***************************************************************************)
EXTENDS Membership, FiniteSetTheorems, TLAPS

\* Every role of the view was in the table.
HeldBy(h, b, g) == \A t \in Scopes : g[t] # NoRole => <<b, t, g[t]>> \in h

\* Projects never had roles of the org.
ProjectsFit(h) ==
    \A u \in Users, p \in Projects, role \in Roles : <<u, p, role>> \in h => role \in ProjectRoles

\* MayHaveGranted over a given history.
May(h, b, s, role) ==
    /\ s # Org => role \in ProjectRoles
    /\ \/ <<b, Org, "Owner">> \in h
       \/ role # "Owner" /\ \E t \in {Org, s} : <<b, t, "Admin">> \in h

Reading == {"check", "recheck", "owner", "write"}

\* A request knows which user asks and for what; what it loaded was in the
\* table; what it grants, the caller held the right to.
ReqFits(q, h) ==
    /\ q \in ReqRecord
    /\ q.pc # "idle" => q.inst \in Instances
    /\ q.pc \notin {"idle", "invalidate"} => q.who \in Users
    /\ q.pc \notin {"idle", "loaded"} => q.target \in Users
    /\ q.pc \in {"loaded", "recheck"} => HeldBy(h, q.who, q.view)
    /\ q.pc \in {"lookup", "invite"} => q.op = "add"
    /\ q.pc \in {"find"} \cup Reading => q.op \in {"add", "change"} \/ q.role = NoRole
    /\ q.op \in {"add", "change"} => q.role \in Roles /\ May(h, q.who, q.scope, q.role)

\* While no write changes the Owners, a request that has read an Owner has
\* read right, and one about to write over an Owner leaves another.
ReqKeeps(q, o) ==
    q.scope = Org /\ ~q.raced =>
        /\ q.pc \in {"check", "recheck", "owner"} => (q.old = "Owner" <=> q.target \in o)
        /\ q.pc = "write" /\ q.target \in o => \E v \in o : v # q.target

InviteFits(s, v, h) ==
    v # NoInvite => v.id # 0 /\ v.role \in Roles /\ May(h, v.inviter, s, v.role)

LoginFits(l) ==
    /\ l.pc = "accept" => l.user \in Users
    /\ \A inv \in l.todo : inv.id # 0

RowsInv ==
    /\ org \in {"Active", "Inactive"}
    /\ known \subseteq Users
    /\ grants \in [Users -> Views]
    /\ held \subseteq Users \X Scopes \X Roles
    /\ ProjectsFit(held)
    /\ \A u \in Users : HeldBy(held, u, grants[u])

InvitesInv ==
    /\ invites \in [Users -> [Scopes -> InviteRecord]]
    /\ nextID \in Nat \ {0}
    /\ \A u \in Users, s \in Scopes : InviteFits(s, invites[u][s], held)

CacheInv ==
    /\ cache \in [Instances -> [Users -> Views \cup {NotCached}]]
    /\ \A i \in Instances, u \in Users : cache[i][u] # NotCached => HeldBy(held, u, cache[i][u])

ReqInv ==
    /\ req \in [Requests -> ReqRecord]
    /\ \A r \in Requests : ReqFits(req[r], held) /\ ReqKeeps(req[r], Owners(grants))

LoginInv ==
    /\ login \in [Logins -> LoginRecord]
    /\ \A l \in Logins : LoginFits(login[l])

MemberInv == RowsInv /\ InvitesInv /\ CacheInv /\ ReqInv /\ LoginInv /\ starts \in Nat

-----------------------------------------------------------------------------
(* Roles *)

\* Only an Admin and an Owner can assume the role of Admin.
LEMMA AdminOf ==
    ASSUME NEW role \in Roles, "Admin" \in CanAssumeRoles[role]
    PROVE  role \in {"Admin", "Owner"}
BY DEF Roles, CanAssumeRoles

\* A role that checkGrantable lets a view of held grants give may be given.
LEMMA GrantableMay ==
    ASSUME NEW h, NEW b \in Users, NEW g \in Views, NEW s \in Scopes, NEW role,
           ProjectsFit(h), HeldBy(h, b, g), Grantable(g, s, role)
    PROVE  May(h, b, s, role)
<1>a. Org \in Scopes /\ \A t \in Scopes : g[t] \in Roles \cup {NoRole}
  BY Zenon DEF Views, Scopes
<1>b. \A t \in Scopes : g[t] \in {"Admin", "Owner"} => <<b, t, g[t]>> \in h
  BY Zenon DEF HeldBy, NoRole
<1>1. CASE s = Org
  <2>1. g[Org] = "Owner" \/ (role # "Owner" /\ g[Org] \in {"Admin", "Owner"})
    BY <1>1, <1>a, AdminOf, Zenon DEF Grantable, CanGrantOrgRole
  <2> QED BY <1>1, <1>a, <1>b, <2>1, Zenon DEF May
<1>2. CASE s # Org
  <2>1. role \in ProjectRoles /\ HasRole(g, s, "Admin")
    BY <1>2, Zenon DEF Grantable, CanGrantProjectRole
  <2>2. PICK own \in RolesAt(g, s) : "Admin" \in CanAssumeRoles[own]
    BY <2>1, Zenon DEF HasRole
  <2>3. own \in Roles /\ \E t \in {Org, s} : own = g[t]
    BY <1>2, <1>a, <2>2, Zenon DEF RolesAt
  <2>4. own \in {"Admin", "Owner"}
    BY <2>2, <2>3, AdminOf, Zenon
  <2>5. PICK t \in {Org, s} : own = g[t]
    BY <2>3, Zenon
  <2>6. <<b, t, own>> \in h
    BY <1>a, <1>b, <2>4, <2>5, Zenon
  <2>7. t # Org => own # "Owner"
    BY <1>2, <2>3, <2>6, Zenon DEF ProjectsFit, ProjectRoles, Scopes
  <2>8. role # "Owner"
    BY <2>1, Zenon DEF ProjectRoles
  <2> QED BY <1>2, <2>1, <2>4, <2>5, <2>6, <2>7, <2>8, Zenon DEF May
<1> QED BY <1>1, <1>2, Zenon
-----------------------------------------------------------------------------
(* What stays true when the history grows, and when one entry is replaced *)

\* A user who held the right to grant a role keeps having held it.
LEMMA MayGrow ==
    ASSUME NEW h, NEW k, h \subseteq k, NEW b, NEW s, NEW role, May(h, b, s, role)
    PROVE  May(k, b, s, role)
BY Zenon DEF May

\* A view of held grants stays one.
LEMMA HeldGrow ==
    ASSUME NEW h, NEW k, h \subseteq k, NEW b, NEW g, HeldBy(h, b, g)
    PROVE  HeldBy(k, b, g)
BY Zenon DEF HeldBy

\* A request fits a longer history.
LEMMA ReqFitsGrow ==
    ASSUME NEW h, NEW k, h \subseteq k, NEW q, ReqFits(q, h)
    PROVE  ReqFits(q, k)
BY MayGrow, HeldGrow, Zenon DEF ReqFits

\* A step that leaves the tables leaves their invariant, and so below.
LEMMA RowsStay ==
    ASSUME RowsInv, UNCHANGED <<org, known, grants, held>>
    PROVE  RowsInv'
BY Zenon DEF RowsInv

\* The invites, when the history only grows.
LEMMA InvitesStay ==
    ASSUME InvitesInv, UNCHANGED <<invites, nextID>>, held \subseteq held'
    PROVE  InvitesInv'
<1>1. ASSUME NEW u \in Users, NEW s \in Scopes
      PROVE  InviteFits(s, invites[u][s], held')
  BY MayGrow, Zenon DEF InvitesInv, InviteFits
<1> QED BY <1>1, Zenon DEF InvitesInv

\* The caches, when the history only grows.
LEMMA CacheStay ==
    ASSUME CacheInv, UNCHANGED cache, held \subseteq held'
    PROVE  CacheInv'
BY HeldGrow, Zenon DEF CacheInv

\* The logins.
LEMMA LoginStay ==
    ASSUME LoginInv, UNCHANGED login
    PROVE  LoginInv'
BY Zenon DEF LoginInv

\* A view is cached, or an entry is dropped.
LEMMA CacheSet ==
    ASSUME CacheInv, NEW i \in Instances, NEW u \in Users, NEW g \in Views \cup {NotCached},
           g # NotCached => HeldBy(held, u, g),
           cache' = [cache EXCEPT ![i][u] = g], UNCHANGED held
    PROVE  CacheInv'
<1>1. cache' \in [Instances -> [Users -> Views \cup {NotCached}]]
  BY Zenon DEF CacheInv
<1>2. ASSUME NEW j \in Instances, NEW v \in Users, cache'[j][v] # NotCached
      PROVE  HeldBy(held', v, cache'[j][v])
  <2>1. CASE j = i /\ v = u
    BY <1>2, <2>1, Zenon DEF CacheInv
  <2>2. CASE ~(j = i /\ v = u)
    <3>1. cache'[j][v] = cache[j][v]
      BY <2>2, Zenon DEF CacheInv
    <3> QED BY <1>2, <3>1, Zenon DEF CacheInv
  <2> QED BY <2>1, <2>2, Zenon
<1> QED BY <1>1, <1>2, Zenon DEF CacheInv

\* The record of one request is replaced, and the rows stay.
LEMMA ReqSet ==
    ASSUME ReqInv, NEW r \in Requests, NEW q, ReqFits(q, held), ReqKeeps(q, Owners(grants)),
           req' = [req EXCEPT ![r] = q], UNCHANGED <<grants, held>>
    PROVE  ReqInv'
<1>1. q \in ReqRecord
  BY Zenon DEF ReqFits
<1>2. req' \in [Requests -> ReqRecord]
  BY <1>1, Zenon DEF ReqInv
<1>3. Owners(grants)' = Owners(grants)
  BY Zenon DEF Owners
<1>4. ASSUME NEW x \in Requests
      PROVE  ReqFits(req'[x], held') /\ ReqKeeps(req'[x], Owners(grants)')
  <2>1. req'[x] = IF x = r THEN q ELSE req[x]
    BY Zenon DEF ReqInv
  <2> QED BY <1>3, <2>1, Zenon DEF ReqInv
<1> QED BY <1>2, <1>4, Zenon DEF ReqInv

\* The requests.
LEMMA ReqStay ==
    ASSUME ReqInv, UNCHANGED <<req, grants, held>>
    PROVE  ReqInv'
BY Zenon DEF ReqInv, Owners

\* A step of a request that changes its record and perhaps the cache.
LEMMA QuietStep ==
    ASSUME MemberInv, NEW r \in Requests, NEW q, ReqFits(q, held), ReqKeeps(q, Owners(grants)),
           req' = [req EXCEPT ![r] = q], CacheInv',
           UNCHANGED <<rowVars, login>>, starts' \in Nat
    PROVE  MemberInv'
<1>1. held \subseteq held' /\ UNCHANGED <<org, known, grants, invites, nextID, held, login>>
  BY Zenon DEF rowVars
<1> QED
  BY <1>1, RowsStay, InvitesStay, LoginStay, ReqSet, Zenon DEF MemberInv
-----------------------------------------------------------------------------
(* The steps of a request *)

\* A view without grants is one of held grants.
LEMMA NoGrantsHeld == NoGrants \in Views /\ \A h, b : HeldBy(h, b, NoGrants)
BY Zenon DEF NoGrants, Views, HeldBy

\* A request that is not running fits every history and all Owners.
LEMMA IdleFits ==
    ASSUME NEW h, NEW o
    PROVE  Idle \in ReqRecord /\ ReqFits(Idle, h) /\ ReqKeeps(Idle, o)
<1>1. Idle \in ReqRecord
  BY NoGrantsHeld, Zenon DEF Idle, ReqRecord, Pcs, Scopes
<1>2. ReqFits(Idle, h)
  BY <1>1, Zenon DEF ReqFits, Idle, Reading
<1>3. ReqKeeps(Idle, o)
  BY Zenon DEF ReqKeeps, Idle
<1> QED BY <1>1, <1>2, <1>3, Zenon

\* A request that returns, and changes no row.
LEMMA ReturnStep ==
    ASSUME MemberInv, NEW r \in Requests, Return(r), CacheInv', UNCHANGED <<rowVars, login, starts>>
    PROVE  MemberInv'
<1>1. starts' \in Nat
  BY Zenon DEF MemberInv
<1>2. ReqFits(Idle, held) /\ ReqKeeps(Idle, Owners(grants))
  BY IdleFits, Zenon
<1> QED BY <1>1, <1>2, QuietStep, Zenon DEF Return

\* What the query returns was in the table.
LEMMA MembershipsHeld ==
    ASSUME RowsInv, NEW u \in Users
    PROVE  Memberships(u) \in Views /\ HeldBy(held, u, Memberships(u))
BY NoGrantsHeld, Zenon DEF RowsInv, Memberships

\* The query of the grants of a caller: they are in the table, so held.
LEMMA LoadStep ==
    ASSUME MemberInv, NEW r \in Requests, LoadGrants(r)
    PROVE  MemberInv'
<1>1. PICK i \in Instances, u \in known :
          req' = [req EXCEPT ![r] = [Idle EXCEPT !.pc = "loaded", !.inst = i, !.who = u,
                                                !.view = Memberships(u)]]
  BY Zenon DEF LoadGrants
<1> DEFINE q == [Idle EXCEPT !.pc = "loaded", !.inst = i, !.who = u, !.view = Memberships(u)]
<1>2. u \in Users /\ Memberships(u) \in Views /\ HeldBy(held, u, Memberships(u))
  BY MembershipsHeld, Zenon DEF MemberInv, RowsInv
<1>3. q \in ReqRecord
  BY <1>2, IdleFits, Zenon DEF ReqRecord, Pcs
<1>4. q.pc = "loaded" /\ q.inst = i /\ q.who = u /\ q.view = Memberships(u) /\ q.op = "none"
  BY Zenon DEF Idle
<1>5. ReqFits(q, held)
  BY <1>2, <1>3, <1>4, Zenon DEF ReqFits, Reading
<1>6. ReqKeeps(q, Owners(grants))
  BY <1>4, Zenon DEF ReqKeeps
<1>7. UNCHANGED <<rowVars, cache, login, starts>> /\ held' = held /\ starts' \in Nat
  BY Zenon DEF LoadGrants, MemberInv, rowVars
<1>8. CacheInv'
  BY <1>7, CacheStay, Zenon DEF MemberInv
<1> QED BY <1>1, <1>5, <1>6, <1>7, <1>8, QuietStep, Zenon

\* The grants a request decides on were in the table, also when they are
\* cached or were loaded some steps ago.
LEMMA GrantsHeld ==
    ASSUME MemberInv, NEW r \in Requests, NEW i \in Instances, NEW u \in known, NEW view,
           Grants(r, i, u, view), UNCHANGED held
    PROVE  u \in Users /\ view \in Views /\ HeldBy(held, u, view) /\ CacheInv'
<1>0. u \in Users /\ CacheInv
  BY Zenon DEF MemberInv, RowsInv
<1>1. CASE req[r].pc = "idle"
  <2>1. cache[i][u] # NotCached /\ view = cache[i][u] /\ UNCHANGED cache
    BY <1>1, Zenon DEF Grants
  <2>2. CacheInv'
    BY <1>0, <2>1, CacheStay, Zenon
  <2> QED BY <1>0, <2>1, <2>2, Zenon DEF CacheInv
<1>2. CASE req[r].pc # "idle"
  <2>1. /\ req[r].pc = "loaded" /\ u = req[r].who /\ view = req[r].view
        /\ cache' = [cache EXCEPT ![i][u] = view]
    BY <1>2, Zenon DEF Grants
  <2>2. view \in Views /\ HeldBy(held, u, view)
    BY <2>1, Zenon DEF MemberInv, ReqInv, ReqFits, ReqRecord
  <2>3. CacheInv'
    BY <1>0, <2>1, <2>2, CacheSet, Zenon
  <2> QED BY <1>0, <2>2, <2>3, Zenon
<1> QED BY <1>1, <1>2, Zenon

\* A request begins with a role that its caller may grant, or with none.
LEMMA BeginStep ==
    ASSUME MemberInv, NEW r \in Requests, NEW i \in Instances, NEW u \in Users, CacheInv',
           NEW target \in Users, NEW s \in Scopes, NEW role \in Roles \cup {NoRole},
           NEW pc, NEW op, Begin(r, pc, op, i, u, target, s, role),
           \/ pc = "lookup" /\ op = "add"
           \/ pc = "find" /\ op \in {"change", "remove"}
           \/ pc = "withdraw" /\ op = "withdraw"
           \/ pc = "deactivate" /\ op = "deleteOrg",
           op \in {"add", "change"} => role \in Roles /\ May(held, u, s, role),
           op = "remove" => role = NoRole
    PROVE  MemberInv'
<1> DEFINE q == [Idle EXCEPT !.pc = pc, !.op = op, !.inst = i, !.who = u,
                             !.target = target, !.scope = s, !.role = role]
<1>1. q \in ReqRecord
  BY IdleFits, ZenonT(30) DEF ReqRecord, Pcs
<1>2. /\ q.pc = pc /\ q.op = op /\ q.inst = i /\ q.who = u
      /\ q.target = target /\ q.scope = s /\ q.role = role
  BY Zenon DEF Idle
<1>3. ReqFits(q, held)
  BY <1>1, <1>2, Zenon DEF ReqFits, Reading
<1>4. ReqKeeps(q, Owners(grants))
  BY <1>2, Zenon DEF ReqKeeps
<1>5. req' = [req EXCEPT ![r] = q] /\ UNCHANGED <<rowVars, login>> /\ starts' \in Nat
  BY DEF Begin, MemberInv
<1> QED BY <1>3, <1>4, <1>5, QuietStep, Zenon
\* A request that passes is about a role its view may give, so one that
\* the caller may have granted.
LEMMA AccessStep ==
    ASSUME MemberInv, NEW r \in Requests, Access(r)
    PROVE  MemberInv'
<1>1. PICK i \in Instances, u \in known : \E view \in {cache[i][u], req[r].view} :
          /\ Grants(r, i, u, view)
          /\ \/ AddMember(r, i, u, view)
             \/ ChangeMemberRole(r, i, u, view)
             \/ DeleteMember(r, i, u, view)
             \/ DeleteInvite(r, i, u, view)
             \/ DeleteOrg(r, i, u, view)
  BY Zenon DEF Access
<1>2. PICK view \in {cache[i][u], req[r].view} :
          /\ Grants(r, i, u, view)
          /\ \/ AddMember(r, i, u, view)
             \/ ChangeMemberRole(r, i, u, view)
             \/ DeleteMember(r, i, u, view)
             \/ DeleteInvite(r, i, u, view)
             \/ DeleteOrg(r, i, u, view)
  BY <1>1, Zenon
<1>3. held' = held
  BY <1>2, Zenon DEF AddMember, ChangeMemberRole, DeleteMember, DeleteInvite, DeleteOrg, Begin, rowVars
<1>4. u \in Users /\ view \in Views /\ HeldBy(held, u, view) /\ CacheInv'
  BY <1>2, <1>3, GrantsHeld, Zenon
<1>5. ASSUME NEW s \in Scopes, NEW role \in ReqRoles, Grantable(view, s, role)
      PROVE  role \in Roles /\ May(held, u, s, role)
  BY <1>4, <1>5, GrantableMay, MembershipAssumption, Zenon DEF MemberInv, RowsInv
<1>6. CASE AddMember(r, i, u, view)
  BY <1>4, <1>5, <1>6, BeginStep DEF AddMember
<1>7. CASE ChangeMemberRole(r, i, u, view)
  BY <1>4, <1>5, <1>7, BeginStep DEF ChangeMemberRole
<1>8. CASE DeleteMember(r, i, u, view)
  BY <1>4, <1>8, BeginStep, Zenon DEF DeleteMember
<1>9. CASE DeleteInvite(r, i, u, view)
  BY <1>4, <1>9, BeginStep, Zenon DEF DeleteInvite
<1>10. CASE DeleteOrg(r, i, u, view)
  BY <1>4, <1>10, BeginStep, Zenon DEF DeleteOrg, Scopes
<1> QED BY <1>2, <1>6, <1>7, <1>8, <1>9, <1>10, Zenon

\* A refused request caches what it loaded.
LEMMA RefusedStep ==
    ASSUME MemberInv, NEW r \in Requests, Refused(r)
    PROVE  MemberInv'
<1>1. /\ req[r].inst \in Instances /\ req[r].who \in Users /\ req[r].view \in Views
      /\ HeldBy(held, req[r].who, req[r].view)
  BY Zenon DEF Refused, MemberInv, ReqInv, ReqFits, ReqRecord
<1>2. held' = held /\ UNCHANGED <<rowVars, login, starts>>
  BY Zenon DEF Refused, rowVars
<1>3. CacheInv'
  BY <1>1, <1>2, CacheSet, Zenon DEF Refused, MemberInv
<1> QED BY <1>2, <1>3, ReturnStep, Zenon DEF Refused

\* A request whose record only moves on keeps the rest of what it knows.
LEMMA GotoFits ==
    ASSUME NEW h, NEW q, ReqFits(q, h),
           \/ q.pc = "lookup"
           \/ q.pc \in {"check", "recheck"}
    PROVE  /\ q.pc = "lookup" => /\ ReqFits([q EXCEPT !.pc = "invite"], h)
                                /\ ReqFits([q EXCEPT !.pc = "write"], h)
           /\ q.pc # "lookup" => ReqFits([q EXCEPT !.pc = "owner", !.view = NoGrants], h)
<1>1. q \in ReqRecord
  BY Zenon DEF ReqFits
<1>2. CASE q.pc = "lookup"
  <2>1. ASSUME NEW pc \in {"invite", "write"}
        PROVE  ReqFits([q EXCEPT !.pc = pc], h)
    <3> DEFINE n == [q EXCEPT !.pc = pc]
    <3>1. n \in ReqRecord
      BY <1>1, Zenon DEF ReqRecord, Pcs
    <3>2. /\ n.pc = pc /\ n.inst = q.inst /\ n.who = q.who /\ n.target = q.target
          /\ n.scope = q.scope /\ n.op = q.op /\ n.role = q.role
      BY <1>1, Zenon DEF ReqRecord
    <3> HIDE DEF n
    <3>3. ReqFits(n, h)
      BY <1>2, <3>1, <3>2, Zenon DEF ReqFits, Reading
    <3> QED BY <3>3, Zenon DEF n
  <2> QED BY <1>2, <2>1, Zenon
<1>3. CASE q.pc \in {"check", "recheck"}
  <2> DEFINE n == [q EXCEPT !.pc = "owner", !.view = NoGrants]
  <2>1. n \in ReqRecord
    BY <1>1, NoGrantsHeld, ZenonT(30) DEF ReqRecord, Pcs
  <2>2. /\ n.pc = "owner" /\ n.inst = q.inst /\ n.who = q.who /\ n.target = q.target
        /\ n.scope = q.scope /\ n.op = q.op /\ n.role = q.role
    BY <1>1, Zenon DEF ReqRecord
  <2> HIDE DEF n
  <2>3. ReqFits(n, h)
    BY <1>3, <2>1, <2>2, Zenon DEF ReqFits, Reading
  <2> QED BY <1>3, <2>3, Zenon DEF n
<1> QED BY <1>2, <1>3, Zenon

\* AddMember goes on to the write only when the member has no grant.
LEMMA LookupStep ==
    ASSUME MemberInv, NEW r \in Requests, LookupUser(r)
    PROVE  MemberInv'
<1>1. /\ req[r].pc = "lookup" /\ ReqFits(req[r], held) /\ req[r] \in ReqRecord
      /\ UNCHANGED <<rowVars, cache, login, starts>> /\ held' = held /\ starts' \in Nat
  BY Zenon DEF LookupUser, MemberInv, ReqInv, rowVars
<1>2. CacheInv'
  BY <1>1, CacheStay, Zenon DEF MemberInv
<1>3. CASE Goto(r, "invite")
  <2> DEFINE q == [req[r] EXCEPT !.pc = "invite"]
  <2>1. ReqFits(q, held)
    BY <1>1, GotoFits, Zenon
  <2>2. q.pc = "invite"
    BY <1>1, Zenon DEF ReqRecord
  <2>3. ReqKeeps(q, Owners(grants))
    BY <2>2, Zenon DEF ReqKeeps
  <2> QED BY <1>1, <1>2, <1>3, <2>1, <2>3, QuietStep, Zenon DEF Goto
<1>4. CASE Goto(r, "write") /\ grants[req[r].target][req[r].scope] = NoRole
  <2> DEFINE q == [req[r] EXCEPT !.pc = "write"]
  <2>1. ReqFits(q, held)
    BY <1>1, GotoFits, Zenon
  <2>2. q.target = req[r].target /\ q.scope = req[r].scope
    BY <1>1, Zenon DEF ReqRecord
  <2>3. q.scope = Org => q.target \notin Owners(grants)
    BY <1>4, <2>2, Zenon DEF Owners, NoRole
  <2>4. q.pc = "write"
    BY <1>1, Zenon DEF ReqRecord
  <2>5. ReqKeeps(q, Owners(grants))
    BY <2>3, <2>4, Zenon DEF ReqKeeps
  <2> QED BY <1>1, <1>2, <1>4, <2>1, <2>5, QuietStep, Zenon DEF Goto
<1>5. CASE Return(r)
  BY <1>1, <1>2, <1>5, ReturnStep, Zenon
<1> QED BY <1>3, <1>4, <1>5, Zenon DEF LookupUser
\* findMember reads the grant that decides about the last Owner.
LEMMA FindStep ==
    ASSUME MemberInv, NEW r \in Requests, FindMember(r)
    PROVE  MemberInv'
<1> DEFINE old == grants[req[r].target][req[r].scope]
           q == [req[r] EXCEPT !.pc = "check", !.old = old]
<1>1. /\ req[r].pc = "find" /\ ReqFits(req[r], held) /\ req[r] \in ReqRecord
      /\ UNCHANGED <<rowVars, cache, login, starts>> /\ held' = held /\ starts' \in Nat
  BY Zenon DEF FindMember, MemberInv, ReqInv, rowVars
<1>2. CacheInv'
  BY <1>1, CacheStay, Zenon DEF MemberInv
<1>3. req[r].target \in Users /\ req[r].scope \in Scopes
  BY <1>1, Zenon DEF ReqFits, ReqRecord
<1>4. old \in Roles \cup {NoRole}
  BY <1>3, Zenon DEF MemberInv, RowsInv, Views
<1>5. CASE req' = [req EXCEPT ![r] = q]
  <2>1. q \in ReqRecord
    BY <1>1, <1>4, Zenon DEF ReqRecord, Pcs
  <2>2. /\ q.pc = "check" /\ q.old = old /\ q.inst = req[r].inst /\ q.who = req[r].who
        /\ q.target = req[r].target /\ q.scope = req[r].scope /\ q.op = req[r].op
        /\ q.role = req[r].role
    BY <1>1, Zenon DEF ReqRecord
  <2>3. ReqFits(q, held)
    BY <1>1, <2>1, <2>2, Zenon DEF ReqFits, Reading
  <2>4. q.scope = Org => (q.old = "Owner" <=> q.target \in Owners(grants))
    BY <1>3, <2>2, Zenon DEF Owners
  <2>5. ReqKeeps(q, Owners(grants))
    BY <2>2, <2>4, Zenon DEF ReqKeeps
  <2> QED BY <1>1, <1>2, <1>5, <2>3, <2>5, QuietStep, Zenon
<1>6. CASE Return(r)
  BY <1>1, <1>2, <1>6, ReturnStep, Zenon
<1> QED BY <1>5, <1>6, Zenon DEF FindMember

\* A request goes on with the row it has read.
LEMMA DecideStep ==
    ASSUME MemberInv, NEW r \in Requests, req[r].pc \in {"check", "recheck"}, NEW view,
           Decide(r, view), CacheInv', UNCHANGED <<rowVars, login, starts>>
    PROVE  MemberInv'
<1> DEFINE q == [req[r] EXCEPT !.pc = "owner", !.view = NoGrants]
<1>1. ReqFits(req[r], held) /\ ReqKeeps(req[r], Owners(grants)) /\ req[r] \in ReqRecord
  BY Zenon DEF MemberInv, ReqInv
<1>2. starts' \in Nat
  BY Zenon DEF MemberInv
<1>3. CASE req' = [req EXCEPT ![r] = q]
  <2>1. ReqFits(q, held)
    BY <1>1, GotoFits, Zenon
  <2>2. /\ q.pc = "owner" /\ q.target = req[r].target /\ q.scope = req[r].scope
        /\ q.old = req[r].old /\ q.raced = req[r].raced
    BY <1>1, Zenon DEF ReqRecord
  <2>3. ReqKeeps(q, Owners(grants))
    BY <1>1, <2>2, Zenon DEF ReqKeeps
  <2> QED BY <1>2, <1>3, <2>1, <2>3, QuietStep, Zenon
<1>4. CASE Return(r)
  BY <1>4, ReturnStep, Zenon
<1> QED BY <1>3, <1>4, Zenon DEF Decide

\* The check of the role that is taken away, on cached or reloaded grants.
LEMMA CheckGrantableStep ==
    ASSUME MemberInv, NEW r \in Requests, CheckGrantable(r)
    PROVE  MemberInv'
<1>1. /\ req[r].pc \in {"check", "recheck"} /\ ReqFits(req[r], held)
      /\ ReqKeeps(req[r], Owners(grants)) /\ req[r] \in ReqRecord
      /\ UNCHANGED <<rowVars, login, starts>> /\ held' = held /\ starts' \in Nat
  BY Zenon DEF CheckGrantable, MemberInv, ReqInv, rowVars
<1>2. req[r].inst \in Instances /\ req[r].who \in Users
  BY <1>1, Zenon DEF ReqFits
<1>3. CASE Decide(r, cache[req[r].inst][req[r].who]) /\ UNCHANGED cache
  <2>1. CacheInv'
    BY <1>1, <1>3, CacheStay, Zenon DEF MemberInv
  <2> QED BY <1>1, <1>3, <2>1, DecideStep, Zenon
<1>4. CASE /\ req[r].pc = "check"
           /\ req' = [req EXCEPT ![r] = [@ EXCEPT !.pc = "recheck", !.view = Memberships(req[r].who)]]
           /\ UNCHANGED cache
  <2> DEFINE q == [req[r] EXCEPT !.pc = "recheck", !.view = Memberships(req[r].who)]
  <2>1. CacheInv'
    BY <1>1, <1>4, CacheStay, Zenon DEF MemberInv
  <2>2. Memberships(req[r].who) \in Views /\ HeldBy(held, req[r].who, Memberships(req[r].who))
    BY <1>2, MembershipsHeld, Zenon DEF MemberInv
  <2>3. q \in ReqRecord
    BY <1>1, <2>2, Zenon DEF ReqRecord, Pcs
  <2>4. /\ q.pc = "recheck" /\ q.view = Memberships(req[r].who) /\ q.inst = req[r].inst
        /\ q.who = req[r].who /\ q.target = req[r].target /\ q.scope = req[r].scope
        /\ q.op = req[r].op /\ q.role = req[r].role /\ q.old = req[r].old /\ q.raced = req[r].raced
    BY <1>1, Zenon DEF ReqRecord
  <2> HIDE DEF q
  <2>5. ReqFits(q, held)
    BY <1>1, <1>4, <2>2, <2>3, <2>4, Zenon DEF ReqFits, Reading
  <2>6. ReqKeeps(q, Owners(grants))
    BY <1>1, <1>4, <2>4, Zenon DEF ReqKeeps
  <2>7. req' = [req EXCEPT ![r] = q]
    BY <1>4, Zenon DEF q
  <2> QED BY <1>1, <2>1, <2>5, <2>6, <2>7, QuietStep, Zenon
<1>5. CASE /\ req[r].pc = "recheck"
           /\ cache' = [cache EXCEPT ![req[r].inst][req[r].who] = req[r].view]
           /\ Decide(r, req[r].view)
  <2>1. req[r].view \in Views /\ HeldBy(held, req[r].who, req[r].view)
    BY <1>1, <1>5, Zenon DEF ReqFits, ReqRecord
  <2>2. CacheInv'
    BY <1>1, <1>2, <1>5, <2>1, CacheSet, Zenon DEF MemberInv
  <2> QED BY <1>1, <1>5, <2>2, DecideStep, Zenon
<1> QED BY <1>3, <1>4, <1>5, Zenon DEF CheckGrantable

\* Beside an Owner that is not the only one there is another.
LEMMA AnotherOne ==
    ASSUME NEW S, NEW x \in S, Cardinality(S) > 1
    PROVE  \E y \in S : y # x
<1>1. SUFFICES ASSUME \A y \in S : y = x
               PROVE  FALSE
  BY Zenon
<1>2. S = {x}
  BY <1>1, Zenon
<1>3. Cardinality({x}) = 1
  BY FS_Singleton, Zenon
<1> QED BY <1>2, <1>3

\* checkLastOwner: when it counts two Owners, one is not the target.
LEMMA CheckOwnerStep ==
    ASSUME MemberInv, NEW r \in Requests, CheckLastOwner(r)
    PROVE  MemberInv'
<1> DEFINE q == [req[r] EXCEPT !.pc = "write", !.old = NoRole]
<1>1. /\ req[r].pc = "owner" /\ ReqFits(req[r], held)
      /\ ReqKeeps(req[r], Owners(grants)) /\ req[r] \in ReqRecord
      /\ UNCHANGED <<rowVars, cache, login, starts>> /\ held' = held /\ starts' \in Nat
  BY Zenon DEF CheckLastOwner, MemberInv, ReqInv, rowVars
<1>2. CacheInv'
  BY <1>1, CacheStay, Zenon DEF MemberInv
<1>3. CASE KeepsOwner(r) /\ req' = [req EXCEPT ![r] = q]
  <2>1. q \in ReqRecord
    BY <1>1, Zenon DEF ReqRecord, Pcs
  <2>2. /\ q.pc = "write" /\ q.inst = req[r].inst /\ q.who = req[r].who
        /\ q.target = req[r].target /\ q.scope = req[r].scope /\ q.op = req[r].op
        /\ q.role = req[r].role /\ q.raced = req[r].raced
    BY <1>1, Zenon DEF ReqRecord
  <2> HIDE DEF q
  <2>3. ReqFits(q, held)
    BY <1>1, <2>1, <2>2, Zenon DEF ReqFits, Reading
  <2>4. ASSUME q.scope = Org, ~q.raced, q.target \in Owners(grants)
        PROVE  \E v \in Owners(grants) : v # q.target
    <3>1. req[r].old = "Owner"
      BY <1>1, <2>2, <2>4, Zenon DEF ReqKeeps
    <3>2. Cardinality(Owners(grants)) > 1
      BY <1>3, <2>2, <2>4, <3>1, Zenon DEF KeepsOwner
    <3> QED BY <2>4, <3>2, AnotherOne, Zenon
  <2>5. ReqKeeps(q, Owners(grants))
    BY <2>2, <2>4, Zenon DEF ReqKeeps
  <2> QED BY <1>1, <1>2, <1>3, <2>3, <2>5, QuietStep, Zenon
<1>4. CASE Return(r)
  BY <1>1, <1>2, <1>4, ReturnStep, Zenon
<1> QED BY <1>3, <1>4, Zenon DEF CheckLastOwner
-----------------------------------------------------------------------------
(* The steps that write rows *)

\* A write of a grant enters it in the history.
LEMMA GrantSet ==
    ASSUME RowsInv, NEW u \in Users, NEW s \in Scopes, NEW role \in Roles \cup {NoRole},
           s # Org => role \in ProjectRoles \cup {NoRole},
           WriteGrant(u, s, role), UNCHANGED <<org, known>>
    PROVE  RowsInv' /\ held \subseteq held'
<1>1. grants' \in [Users -> Views] /\ held \subseteq held'
  BY Zenon DEF RowsInv, WriteGrant, Views
<1>2. role # NoRole => role \in Roles /\ held' = held \cup {<<u, s, role>>}
  BY Zenon DEF WriteGrant
<1>3. role = NoRole => held' = held
  BY Zenon DEF WriteGrant
<1>4. held' \subseteq Users \X Scopes \X Roles
  BY <1>2, <1>3 DEF RowsInv
<1>5. ProjectsFit(held')
  <2>1. SUFFICES ASSUME NEW v \in Users, NEW p \in Projects, NEW x \in Roles, <<v, p, x>> \in held'
                 PROVE  x \in ProjectRoles
    BY Zenon DEF ProjectsFit
  <2>2. CASE <<v, p, x>> \in held
    BY <2>2, Zenon DEF RowsInv, ProjectsFit
  <2>3. CASE <<v, p, x>> \notin held
    <3>1. role # NoRole /\ p = s /\ x = role
      BY <1>2, <1>3, <2>1, <2>3
    <3>2. s # Org
      BY <3>1, MembershipAssumption, Zenon
    <3> QED BY <3>1, <3>2, Zenon
  <2> QED BY <2>2, <2>3, Zenon
<1>6. ASSUME NEW v \in Users
      PROVE  HeldBy(held', v, grants'[v])
  <2>1. SUFFICES ASSUME NEW t \in Scopes, grants'[v][t] # NoRole
                 PROVE  <<v, t, grants'[v][t]>> \in held'
    BY Zenon DEF HeldBy
  <2>2. CASE v = u /\ t = s
    <3>1. grants'[v][t] = role
      BY <2>2, Zenon DEF RowsInv, WriteGrant, Views
    <3> QED BY <1>2, <2>1, <2>2, <3>1, Zenon
  <2>3. CASE ~(v = u /\ t = s)
    <3>1. grants'[v][t] = grants[v][t]
      BY <2>3, Zenon DEF RowsInv, WriteGrant, Views
    <3> QED BY <1>1, <2>1, <3>1, Zenon DEF RowsInv, HeldBy
  <2> QED BY <2>2, <2>3, Zenon
<1> QED BY <1>1, <1>4, <1>5, <1>6, Zenon DEF RowsInv

\* Requests that have read a row are told when the Owners change.
LEMMA RacedInv ==
    ASSUME NEW reqs \in [Requests -> ReqRecord], req' = Raced(reqs), held \subseteq held',
           \A x \in Requests : ReqFits(reqs[x], held) /\ ReqKeeps(reqs[x], Owners(grants))
    PROVE  ReqInv'
<1>1. ASSUME NEW x \in Requests
      PROVE  /\ req'[x] \in ReqRecord
             /\ ReqFits(req'[x], held')
             /\ ReqKeeps(req'[x], Owners(grants'))
  <2> DEFINE q == reqs[x]
             n == [q EXCEPT !.raced = TRUE]
  <2>1. q \in ReqRecord /\ ReqFits(q, held') /\ ReqKeeps(q, Owners(grants))
    BY ReqFitsGrow, Zenon
  <2>2. CASE q.pc \in Reading /\ Owners(grants') # Owners(grants)
    <3>1. req'[x] = n
      BY <2>2, Zenon DEF Raced, Reading
    <3>2. n \in ReqRecord
      BY <2>1, Zenon DEF ReqRecord
    <3>3. /\ n.pc = q.pc /\ n.inst = q.inst /\ n.who = q.who /\ n.view = q.view /\ n.op = q.op
          /\ n.target = q.target /\ n.scope = q.scope /\ n.role = q.role /\ n.raced = TRUE
      BY <2>1, Zenon DEF ReqRecord
    <3> HIDE DEF n
    <3>4. ReqFits(n, held')
      BY <2>1, <3>2, <3>3, ZenonT(30) DEF ReqFits
    <3>5. ReqKeeps(n, Owners(grants'))
      BY <3>3, Zenon DEF ReqKeeps
    <3> QED BY <3>1, <3>2, <3>4, <3>5, Zenon
  <2>3. CASE ~(q.pc \in Reading /\ Owners(grants') # Owners(grants))
    <3>1. req'[x] = q
      BY <2>3, Zenon DEF Raced, Reading
    <3>2. ReqKeeps(q, Owners(grants'))
      BY <2>1, <2>3, Zenon DEF ReqKeeps, Reading
    <3> QED BY <2>1, <3>1, <3>2, Zenon
  <2> QED BY <2>2, <2>3, Zenon
<1>2. req' \in [Requests -> ReqRecord]
  BY <1>1, Zenon DEF Raced
<1> QED BY <1>1, <1>2, Zenon DEF ReqInv

\* A request that has written keeps its instance and target only.
LEMMA WrittenFits ==
    ASSUME ReqInv, NEW r \in Requests, req[r].pc \in {"write", "deactivate"}, NEW o
    PROVE  ReqFits(Written(r), held) /\ ReqKeeps(Written(r), o)
<1> DEFINE q == Written(r)
<1>1. req[r].inst \in Instances /\ req[r].target \in Users
  BY Zenon DEF ReqInv, ReqFits
<1>2. q \in ReqRecord
  BY <1>1, IdleFits, ZenonT(30) DEF Written, ReqRecord, Pcs
<1>3. /\ q.pc = "invalidate" /\ q.inst = req[r].inst /\ q.target = req[r].target
      /\ q.op = "none"
  BY Zenon DEF Written, Idle
<1> HIDE DEF q
<1>4. ReqFits(q, held) /\ ReqKeeps(q, o)
  BY <1>1, <1>2, <1>3, Zenon DEF ReqFits, ReqKeeps, Reading
<1> QED BY <1>4, Zenon DEF q

\* The write of a request, which overtakes those that have read.
LEMMA WriteStep ==
    ASSUME MemberInv, NEW r \in Requests, Write(r)
    PROVE  MemberInv'
<1>1. /\ req[r].pc = "write" /\ ReqFits(req[r], held) /\ req[r] \in ReqRecord
      /\ UNCHANGED <<org, known, invites, nextID, cache, login, starts>> /\ starts' \in Nat
  BY Zenon DEF Write, MemberInv, ReqInv
<1>2. CASE Return(r) /\ UNCHANGED <<grants, held>>
  <2>1. CacheInv'
    BY <1>1, <1>2, CacheStay, Zenon DEF MemberInv
  <2> QED BY <1>1, <1>2, <2>1, ReturnStep, Zenon DEF rowVars
<1>3. CASE /\ WriteGrant(req[r].target, req[r].scope, req[r].role)
           /\ req' = Raced([req EXCEPT ![r] = Written(r)])
  <2>1. /\ req[r].target \in Users /\ req[r].scope \in Scopes
        /\ req[r].role \in Roles \cup {NoRole}
    BY <1>1, Zenon DEF ReqFits, ReqRecord
  <2>2. req[r].scope # Org => req[r].role \in ProjectRoles \cup {NoRole}
    BY <1>1, Zenon DEF ReqFits, May, Reading
  <2>3. RowsInv' /\ held \subseteq held'
    BY <1>1, <1>3, <2>1, <2>2, GrantSet, Zenon DEF MemberInv
  <2> DEFINE reqs == [req EXCEPT ![r] = Written(r)]
  <2>4. ReqFits(Written(r), held) /\ ReqKeeps(Written(r), Owners(grants))
    BY <1>1, WrittenFits, Zenon DEF MemberInv
  <2>5. Written(r) \in ReqRecord
    BY <2>4, Zenon DEF ReqFits
  <2>6. reqs \in [Requests -> ReqRecord]
    BY <2>5, Zenon DEF MemberInv, ReqInv
  <2>7. \A x \in Requests : ReqFits(reqs[x], held) /\ ReqKeeps(reqs[x], Owners(grants))
    BY <2>4, Zenon DEF MemberInv, ReqInv
  <2> HIDE DEF reqs
  <2>8. req' = Raced(reqs)
    BY <1>3, Zenon DEF reqs
  <2>9. ReqInv'
    BY <2>3, <2>6, <2>7, <2>8, RacedInv, Zenon
  <2>10. InvitesInv' /\ CacheInv' /\ LoginInv'
    BY <1>1, <2>3, InvitesStay, CacheStay, LoginStay, Zenon DEF MemberInv
  <2> QED BY <1>1, <2>3, <2>9, <2>10, Zenon DEF MemberInv
<1> QED BY <1>2, <1>3, Zenon DEF Write
\* The cached grants of the member are dropped.
LEMMA InvalidateStep ==
    ASSUME MemberInv, NEW r \in Requests, InvalidateUser(r)
    PROVE  MemberInv'
<1>1. req[r].inst \in Instances /\ req[r].target \in Users
  BY Zenon DEF InvalidateUser, MemberInv, ReqInv, ReqFits
<1>2. held' = held /\ UNCHANGED <<rowVars, login, starts>>
  BY Zenon DEF InvalidateUser, rowVars
<1>3. CacheInv'
  BY <1>1, <1>2, CacheSet, Zenon DEF InvalidateUser, MemberInv
<1> QED BY <1>2, <1>3, ReturnStep, Zenon DEF InvalidateUser

\* One invite is replaced.
LEMMA InviteSet ==
    ASSUME InvitesInv, NEW u \in Users, NEW s \in Scopes, NEW v \in InviteRecord,
           InviteFits(s, v, held), invites' = [invites EXCEPT ![u][s] = v],
           nextID' \in Nat \ {0}, held \subseteq held'
    PROVE  InvitesInv'
<1>1. invites' \in [Users -> [Scopes -> InviteRecord]]
  BY Zenon DEF InvitesInv
<1>2. ASSUME NEW x \in Users, NEW t \in Scopes
      PROVE  InviteFits(t, invites'[x][t], held')
  <2>1. CASE x = u /\ t = s
    <3>1. invites'[x][t] = v
      BY <2>1, Zenon DEF InvitesInv
    <3> QED BY <2>1, <3>1, MayGrow DEF InviteFits
  <2>2. CASE ~(x = u /\ t = s)
    <3>1. invites'[x][t] = invites[x][t]
      BY <2>2, Zenon DEF InvitesInv
    <3>2. InviteFits(t, invites[x][t], held)
      BY Zenon DEF InvitesInv
    <3> QED BY <3>1, <3>2, MayGrow, Zenon DEF InviteFits
  <2> QED BY <2>1, <2>2, Zenon
<1> QED BY <1>1, <1>2, Zenon DEF InvitesInv

\* The absence of an invite fits everything.
LEMMA NoInviteFits ==
    ASSUME NEW s, NEW h
    PROVE  NoInvite \in InviteRecord /\ InviteFits(s, NoInvite, h)
BY Zenon DEF NoInvite, InviteRecord, InviteFits

\* A request that ends with a change of the invites.
LEMMA InviteReturn ==
    ASSUME MemberInv, NEW r \in Requests, Return(r), InvitesInv',
           UNCHANGED <<org, known, grants, held, cache, login, starts>>
    PROVE  MemberInv'
<1>1. ReqFits(Idle, held) /\ ReqKeeps(Idle, Owners(grants))
  BY IdleFits, Zenon
<1>2. ReqInv'
  BY <1>1, ReqSet, ZenonT(30) DEF MemberInv, Return
<1>3. RowsInv' /\ CacheInv' /\ LoginInv'
  BY RowsStay, CacheStay, LoginStay, Zenon DEF MemberInv
<1> QED BY <1>2, <1>3, Zenon DEF MemberInv

\* An invite is stored with the role of the request and its caller.
LEMMA CreateInviteStep ==
    ASSUME MemberInv, NEW r \in Requests, CreateInvite(r)
    PROVE  MemberInv'
<1> DEFINE u == req[r].target
           s == req[r].scope
           new == invites[u][s] = NoInvite
           v == [id |-> IF new THEN nextID ELSE invites[u][s].id, role |-> req[r].role,
                 inviter |-> req[r].who, expired |-> FALSE]
<1>1. req[r].pc = "invite" /\ ReqFits(req[r], held) /\ req[r] \in ReqRecord
  BY Zenon DEF CreateInvite, MemberInv, ReqInv
<1>2. /\ u \in Users /\ s \in Scopes /\ req[r].who \in Users /\ req[r].role \in Roles
      /\ May(held, req[r].who, s, req[r].role)
  BY <1>1, Zenon DEF ReqFits, ReqRecord
<1>3. invites[u][s] \in InviteRecord /\ InviteFits(s, invites[u][s], held) /\ nextID \in Nat \ {0}
  BY <1>2, SMTT(30) DEF MemberInv, InvitesInv
<1>4. v.id \in Nat /\ v.id # 0
  BY <1>3, ZenonT(30) DEF InviteFits, InviteRecord
<1>5. v \in InviteRecord /\ InviteFits(s, v, held)
  BY <1>2, <1>4, ZenonT(30) DEF InviteRecord, InviteFits
<1>6. invites' = [invites EXCEPT ![u][s] = v]
  BY <1>2, ZenonT(30) DEF CreateInvite, MemberInv, InvitesInv
<1>7. nextID' \in Nat \ {0}
  <2>1. nextID' = nextID + 1 \/ nextID' = nextID
    BY Zenon DEF CreateInvite
  <2> QED BY <1>3, <2>1
<1>8. Return(r) /\ UNCHANGED <<org, known, grants, held, cache, login, starts>>
  BY Zenon DEF CreateInvite
<1> HIDE DEF v
<1>9. InvitesInv'
  BY <1>2, <1>5, <1>6, <1>7, <1>8, InviteSet, Zenon DEF MemberInv
<1> QED BY <1>8, <1>9, InviteReturn, Zenon

\* An invite is deleted.
LEMMA WithdrawStep ==
    ASSUME MemberInv, NEW r \in Requests, WithdrawInvite(r)
    PROVE  MemberInv'
<1>1. req[r].target \in Users /\ req[r].scope \in Scopes
  BY Zenon DEF WithdrawInvite, MemberInv, ReqInv, ReqFits, ReqRecord
<1>2. Return(r) /\ UNCHANGED <<org, known, grants, nextID, held, cache, login, starts>>
  BY Zenon DEF WithdrawInvite
<1>3. nextID' \in Nat \ {0}
  BY <1>2, Zenon DEF MemberInv, InvitesInv
<1>4. InvitesInv'
  BY <1>1, <1>2, <1>3, NoInviteFits, InviteSet, Zenon DEF WithdrawInvite, MemberInv
<1> QED BY <1>2, <1>4, InviteReturn, Zenon

\* The org is set Inactive.
LEMMA DeactivateStep ==
    ASSUME MemberInv, NEW r \in Requests, DeactivateOrg(r)
    PROVE  MemberInv'
<1>1. /\ req' = [req EXCEPT ![r] = Written(r)] /\ req[r].pc = "deactivate"
      /\ UNCHANGED <<known, grants, invites, nextID, held, cache, login, starts>>
  BY Zenon DEF DeactivateOrg
<1>2. ReqFits(Written(r), held) /\ ReqKeeps(Written(r), Owners(grants))
  BY <1>1, WrittenFits, Zenon DEF MemberInv
<1>3. ReqInv'
  BY <1>1, <1>2, ReqSet, Zenon DEF MemberInv
<1>4. RowsInv'
  BY <1>1, Zenon DEF MemberInv, RowsInv, DeactivateOrg
<1>5. InvitesInv' /\ CacheInv' /\ LoginInv'
  BY <1>1, InvitesStay, CacheStay, LoginStay, Zenon DEF MemberInv
<1> QED BY <1>1, <1>3, <1>4, <1>5, Zenon DEF MemberInv

\* A request that fails.
LEMMA FailStep ==
    ASSUME MemberInv, NEW r \in Requests, RequestFail(r)
    PROVE  MemberInv'
<1>1. Return(r) /\ UNCHANGED <<rowVars, cache, login, starts>> /\ held' = held
  BY Zenon DEF RequestFail, rowVars
<1>2. CacheInv'
  BY <1>1, CacheStay, Zenon DEF MemberInv
<1> QED BY <1>1, <1>2, ReturnStep, Zenon

\* Every step of a request keeps the invariant.
LEMMA RequestStep ==
    ASSUME MemberInv, NEW r \in Requests, Request(r)
    PROVE  MemberInv'
BY Zenon, LoadStep, AccessStep, RefusedStep, LookupStep, FindStep, CheckGrantableStep, CheckOwnerStep,
   WriteStep, InvalidateStep, CreateInviteStep, WithdrawStep, DeactivateStep, FailStep
   DEF Request
-----------------------------------------------------------------------------
(* The steps of a login, and time *)

\* The record of one login is replaced.
LEMMA LoginSet ==
    ASSUME LoginInv, NEW l \in Logins, NEW n \in LoginRecord, LoginFits(n),
           login' = [login EXCEPT ![l] = n]
    PROVE  LoginInv'
BY Zenon DEF LoginInv

\* A login lists the live invites of its user.
LEMMA LoginUserStep ==
    ASSUME MemberInv, NEW l \in Logins, LoginUser(l)
    PROVE  MemberInv'
<1>1. PICK u \in Users :
          LET live == {s \in Scopes : invites[u][s] # NoInvite /\ ~invites[u][s].expired}
              todo == {[scope |-> s, id |-> invites[u][s].id] : s \in live}
          IN
          /\ known' = known \cup {u}
          /\ \/ /\ todo # {}
                /\ login' = [login EXCEPT ![l] = [pc |-> "accept", user |-> u, todo |-> todo,
                                                 accepted |-> FALSE]]
             \/ UNCHANGED login
  BY Zenon DEF LoginUser
<1> DEFINE live == {s \in Scopes : invites[u][s] # NoInvite /\ ~invites[u][s].expired}
           todo == {[scope |-> s, id |-> invites[u][s].id] : s \in live}
           n == [pc |-> "accept", user |-> u, todo |-> todo, accepted |-> FALSE]
<1>2. UNCHANGED <<org, grants, invites, nextID, held, cache, req, starts>>
  BY Zenon DEF LoginUser
<1>3. \A s \in live : invites[u][s].id \in Nat /\ invites[u][s].id # 0
  BY Zenon DEF MemberInv, InvitesInv, InviteFits, InviteRecord
<1>4. todo \subseteq [scope : Scopes, id : Nat] /\ \A inv \in todo : inv.id # 0
  BY <1>3
<1> HIDE DEF todo
<1>5. n \in LoginRecord /\ LoginFits(n)
  BY <1>4, Zenon DEF LoginRecord, LoginFits
<1>6. login' = [login EXCEPT ![l] = n] \/ UNCHANGED login
  BY <1>1, Zenon DEF todo
<1> HIDE DEF n
<1>7. LoginInv'
  BY <1>5, <1>6, LoginSet, LoginStay, Zenon DEF MemberInv
<1>8. RowsInv'
  BY <1>1, <1>2, Zenon DEF MemberInv, RowsInv
<1>9. InvitesInv' /\ CacheInv' /\ ReqInv'
  BY <1>2, InvitesStay, CacheStay, ReqStay, SMTT(30) DEF MemberInv
<1> QED BY <1>2, <1>7, <1>8, <1>9, Zenon DEF MemberInv

\* The invite that is taken is one of the table, and a role its inviter may
\* have granted.
LEMMA TakenInvite ==
    ASSUME MemberInv, NEW l \in Logins, login[l].pc = "accept", NEW inv \in login[l].todo,
           TakeInvite(l, inv)
    PROVE  /\ login[l].user \in Users /\ inv.scope \in Scopes
           /\ invites[login[l].user][inv.scope] # NoInvite
           /\ invites[login[l].user][inv.scope].role \in Roles
           /\ inv.scope # Org => invites[login[l].user][inv.scope].role \in ProjectRoles
<1>1. login[l].user \in Users /\ inv.scope \in Scopes /\ inv.id # 0
  <2>1. login[l] \in LoginRecord /\ LoginFits(login[l])
    BY Zenon DEF MemberInv, LoginInv
  <2>2. login[l].todo \subseteq [scope : Scopes, id : Nat]
    BY <2>1, Zenon DEF LoginRecord
  <2>3. inv.scope \in Scopes
    BY <2>2, Zenon
  <2> QED BY <2>1, <2>3, Zenon DEF LoginFits
<1>2. invites[login[l].user][inv.scope] # NoInvite
  <2>1. NoInvite.id = 0
    BY Zenon DEF NoInvite
  <2> QED BY <1>1, <2>1, Zenon DEF TakeInvite
<1>3. InviteFits(inv.scope, invites[login[l].user][inv.scope], held)
  BY <1>1, Zenon DEF MemberInv, InvitesInv
<1> QED BY <1>1, <1>2, <1>3, Zenon DEF InviteFits, May

\* An accepted invite becomes a grant, and overtakes the requests.
LEMMA AcceptStep ==
    ASSUME MemberInv, NEW l \in Logins, AcceptInvite(l)
    PROVE  MemberInv'
<1>1. PICK inv \in login[l].todo :
          /\ TakeInvite(l, inv)
          /\ login' = [login EXCEPT ![l] = [login[l] EXCEPT !.todo = @ \ {inv}, !.accepted = TRUE]]
  BY Zenon DEF AcceptInvite
<1>2. /\ login[l].pc = "accept" /\ req' = Raced(req)
      /\ UNCHANGED <<org, known, nextID, cache, starts>>
  BY Zenon DEF AcceptInvite
<1> DEFINE u == login[l].user
           s == inv.scope
           n == [login[l] EXCEPT !.todo = @ \ {inv}, !.accepted = TRUE]
<1>3. /\ u \in Users /\ s \in Scopes /\ invites[u][s].role \in Roles
      /\ s # Org => invites[u][s].role \in ProjectRoles
  BY <1>1, <1>2, TakenInvite, Zenon
<1>4. /\ WriteGrant(u, s, invites[u][s].role)
      /\ invites' = [invites EXCEPT ![u][s] = NoInvite]
  BY <1>1, Zenon DEF TakeInvite
<1>5. RowsInv' /\ held \subseteq held'
  BY <1>2, <1>3, <1>4, GrantSet, Zenon DEF MemberInv
<1>6. nextID' \in Nat \ {0}
  BY <1>2, SMTT(30) DEF MemberInv, InvitesInv
<1>7. InvitesInv'
  BY <1>3, <1>4, <1>5, <1>6, NoInviteFits, InviteSet, ZenonT(30) DEF MemberInv
<1>8. ReqInv'
  BY <1>2, <1>5, RacedInv, Zenon DEF MemberInv, ReqInv
<1>9. login[l] \in LoginRecord /\ LoginFits(login[l])
  BY Zenon DEF MemberInv, LoginInv
<1>10. n \in LoginRecord /\ n.user = u /\ n.todo \subseteq login[l].todo
  BY <1>9, Zenon DEF LoginRecord
<1>11. LoginFits(n)
  BY <1>3, <1>9, <1>10, Zenon DEF LoginFits
<1>12. LoginInv'
  <2>1. login' = [login EXCEPT ![l] = n]
    BY <1>1, Zenon
  <2> HIDE DEF n
  <2> QED BY <1>10, <1>11, <2>1, LoginSet, Zenon DEF MemberInv
<1>13. CacheInv'
  BY <1>2, <1>5, CacheStay, Zenon DEF MemberInv
<1> QED BY <1>2, <1>5, <1>7, <1>8, <1>12, <1>13, Zenon DEF MemberInv

\* A login leaves an invite out.
LEMMA SkipStep ==
    ASSUME MemberInv, NEW l \in Logins, SkipInvite(l)
    PROVE  MemberInv'
<1>1. PICK inv \in login[l].todo : login' = [login EXCEPT ![l].todo = @ \ {inv}]
  BY Zenon DEF SkipInvite
<1> DEFINE n == [login[l] EXCEPT !.todo = @ \ {inv}]
<1>2. UNCHANGED <<org, known, grants, invites, nextID, held, cache, req, starts>>
  BY Zenon DEF SkipInvite, rowVars
<1>3. login[l] \in LoginRecord /\ LoginFits(login[l])
  BY Zenon DEF MemberInv, LoginInv
<1>4. n \in LoginRecord /\ n.user = login[l].user /\ n.pc = login[l].pc /\ n.todo \subseteq login[l].todo
  BY <1>3, Zenon DEF LoginRecord
<1>5. LoginFits(n)
  BY <1>3, <1>4, Zenon DEF LoginFits
<1>6. login' = [login EXCEPT ![l] = n]
  BY <1>1, Zenon
<1>7. LoginInv'
  BY <1>4, <1>5, <1>6, LoginSet, Zenon DEF MemberInv
<1>8. RowsInv' /\ InvitesInv' /\ CacheInv' /\ ReqInv'
  BY <1>2, RowsStay, InvitesStay, CacheStay, ReqStay, Zenon DEF MemberInv
<1> QED BY <1>2, <1>7, <1>8, Zenon DEF MemberInv

\* A login ends, and drops the cached grants when they changed.
LEMMA LoginDoneStep ==
    ASSUME MemberInv, NEW l \in Logins, LoginDone(l)
    PROVE  MemberInv'
<1>1. /\ UNCHANGED <<org, known, grants, invites, nextID, held, req, starts>>
      /\ login' = [login EXCEPT ![l] = NoLogin] /\ login[l].pc = "accept"
  BY Zenon DEF LoginDone, rowVars
<1>2. login[l].user \in Users
  BY <1>1, Zenon DEF MemberInv, LoginInv, LoginFits
<1>3. NoLogin \in LoginRecord /\ LoginFits(NoLogin)
  BY Zenon DEF NoLogin, LoginRecord, LoginFits
<1>4. LoginInv'
  BY <1>1, <1>3, LoginSet, Zenon DEF MemberInv
<1>5. CASE \E i \in Instances : cache' = [cache EXCEPT ![i][login[l].user] = NotCached]
  <2>1. PICK i \in Instances : cache' = [cache EXCEPT ![i][login[l].user] = NotCached]
    BY <1>5, Zenon
  <2>2. CacheInv'
    BY <1>1, <1>2, <2>1, CacheSet, Zenon DEF MemberInv
  <2> QED BY <1>1, <1>4, <2>2, RowsStay, InvitesStay, ReqStay, Zenon DEF MemberInv
<1>6. CASE UNCHANGED cache
  <2>1. CacheInv'
    BY <1>1, <1>6, CacheStay, Zenon DEF MemberInv
  <2> QED BY <1>1, <1>4, <2>1, RowsStay, InvitesStay, ReqStay, Zenon DEF MemberInv
<1> QED BY <1>5, <1>6, Zenon DEF LoginDone

\* Cached grants and invites expire.
LEMMA ExpireStep ==
    ASSUME MemberInv, NEW u \in Users,
           \/ \E i \in Instances : CacheExpire(i, u)
           \/ \E s \in Scopes : ExpireInvite(u, s)
    PROVE  MemberInv'
<1>1. CASE \E i \in Instances : CacheExpire(i, u)
  <2>1. PICK i \in Instances : CacheExpire(i, u)
    BY <1>1, Zenon
  <2>2. UNCHANGED <<org, known, grants, invites, nextID, held, req, login, starts>>
    BY <2>1, Zenon DEF CacheExpire, rowVars
  <2>3. CacheInv'
    BY <2>1, <2>2, CacheSet, Zenon DEF MemberInv, CacheExpire
  <2> QED BY <2>2, <2>3, RowsStay, InvitesStay, ReqStay, LoginStay, Zenon DEF MemberInv
<1>2. CASE \E s \in Scopes : ExpireInvite(u, s)
  <2>1. PICK s \in Scopes : ExpireInvite(u, s)
    BY <1>2, Zenon
  <2>2. UNCHANGED <<org, known, grants, nextID, held, cache, req, login, starts>>
    BY <2>1, Zenon DEF ExpireInvite
  <2> DEFINE v == [invites[u][s] EXCEPT !.expired = TRUE]
  <2>3. invites[u][s] \in InviteRecord /\ InviteFits(s, invites[u][s], held)
    BY Zenon DEF MemberInv, InvitesInv
  <2>4. /\ v \in InviteRecord /\ v.id = invites[u][s].id /\ v.role = invites[u][s].role
        /\ v.inviter = invites[u][s].inviter
    BY <2>3, Zenon DEF InviteRecord
  <2>5. InviteFits(s, v, held)
    BY <2>1, <2>3, <2>4, Zenon DEF InviteFits, ExpireInvite
  <2>6. invites' = [invites EXCEPT ![u][s] = v] /\ nextID' \in Nat \ {0}
    BY <2>1, <2>2, Zenon DEF ExpireInvite, MemberInv, InvitesInv
  <2>7. InvitesInv'
    BY <2>2, <2>4, <2>5, <2>6, InviteSet, Zenon DEF MemberInv
  <2> QED BY <2>2, <2>7, RowsStay, CacheStay, ReqStay, LoginStay, Zenon DEF MemberInv
<1> QED BY <1>1, <1>2, Zenon
-----------------------------------------------------------------------------
(* The invariant *)

\* An org starts with one Owner.
LEMMA InitInv ==
    ASSUME Init
    PROVE  MemberInv
<1>1. RowsInv
  <2>1. PICK owner \in Users :
            /\ known = {owner}
            /\ grants = [u \in Users |-> [NoGrants EXCEPT ![Org] = IF u = owner THEN "Owner" ELSE NoRole]]
            /\ held = {<<owner, Org, "Owner">>}
    BY Zenon DEF Init
  <2>2. Org \in Scopes /\ "Owner" \in Roles
    BY Zenon DEF Scopes, Roles
  <2>3. grants \in [Users -> Views]
    BY <2>1, <2>2, Zenon DEF Views, NoGrants
  <2>4. held \subseteq Users \X Scopes \X Roles
    BY <2>1, <2>2
  <2>5. ProjectsFit(held)
    BY <2>1, MembershipAssumption, Zenon DEF ProjectsFit
  <2>6. ASSUME NEW u \in Users
        PROVE  HeldBy(held, u, grants[u])
    <3>1. \A t \in Scopes :
              grants[u][t] = IF t = Org /\ u = owner THEN "Owner" ELSE NoRole
      BY <2>1, Zenon DEF NoGrants
    <3> QED BY <2>1, <3>1 DEF HeldBy
  <2> QED BY <2>1, <2>3, <2>4, <2>5, <2>6, Zenon DEF RowsInv, Init
<1>2. InvitesInv
  BY NoInviteFits DEF Init, InvitesInv
<1>3. CacheInv
  BY SMTT(30) DEF Init, CacheInv
<1>4. ReqInv
  BY IdleFits, Zenon DEF Init, ReqInv, ReqFits
<1>5. NoLogin \in LoginRecord /\ LoginFits(NoLogin)
  BY Zenon DEF NoLogin, LoginRecord, LoginFits
<1>6. LoginInv
  BY <1>5, Zenon DEF Init, LoginInv
<1> QED BY <1>1, <1>2, <1>3, <1>4, <1>6, Zenon DEF Init, MemberInv

\* Every step of a login keeps the invariant.
LEMMA LoginStep ==
    ASSUME MemberInv, NEW l \in Logins, Login(l)
    PROVE  MemberInv'
BY LoginUserStep, AcceptStep, SkipStep, LoginDoneStep, Zenon DEF Login

\* Every step keeps the invariant.
LEMMA NextInv ==
    ASSUME MemberInv, [Next]_vars
    PROVE  MemberInv'
<1>1. CASE Next
  BY <1>1, RequestStep, LoginStep, ExpireStep, Zenon DEF Next
<1>2. CASE UNCHANGED vars
  BY <1>2, RowsStay, InvitesStay, CacheStay, ReqStay, LoginStay, Zenon DEF vars, rowVars, MemberInv
<1> QED BY <1>1, <1>2, Zenon

\* MemberInv is an invariant of the membership handlers.
THEOREM MemberInvariant == Spec => []MemberInv
<1>1. Init => MemberInv
  BY InitInv, Zenon
<1>2. MemberInv /\ [Next]_vars => MemberInv'
  BY NextInv, Zenon
<1> QED BY <1>1, <1>2, PTL DEF Spec
-----------------------------------------------------------------------------
(* The properties of the states *)

\* The rows, the caches, the requests and the logins keep their types.
THEOREM MemberTypeCorrect == Spec => []MemberTypeOK
<1>1. MemberInv => MemberTypeOK
  BY Zenon DEF MemberInv, RowsInv, InvitesInv, CacheInv, ReqInv, LoginInv, MemberTypeOK
<1> QED BY <1>1, MemberInvariant, PTL

\* checkGrantable: every role that a request is about to grant, or an invite
\* will grant, was asked for by a user who held the right to grant it, on
\* whatever instance and however old the grants it was checked with.
THEOREM GrantedByHolderCorrect == Spec => []GrantedByHolder
<1>1. ASSUME MemberInv
      PROVE  GrantedByHolder
  <2>1. ASSUME NEW r \in Requests, req[r].op \in {"add", "change"}
        PROVE  MayHaveGranted(req[r].who, req[r].scope, req[r].role)
    <3>1. ReqFits(req[r], held)
      BY <1>1, Zenon DEF MemberInv, ReqInv
    <3> QED BY <2>1, <3>1, Zenon DEF ReqFits, May, MayHaveGranted
  <2>2. ASSUME NEW u \in Users, NEW s \in Scopes, invites[u][s] # NoInvite
        PROVE  MayHaveGranted(invites[u][s].inviter, s, invites[u][s].role)
    <3>1. InviteFits(s, invites[u][s], held)
      BY <1>1, Zenon DEF MemberInv, InvitesInv
    <3> QED BY <2>2, <3>1, Zenon DEF InviteFits, May, MayHaveGranted
  <2> QED BY <2>1, <2>2, Zenon DEF GrantedByHolder
<1>2. MemberInv => GrantedByHolder
  BY <1>1, Zenon
<1> QED BY <1>2, MemberInvariant, PTL

\* authctx.ProjectRoles: no path of the membership handlers leaves Owner or
\* Billing on a project.
THEOREM ScopeRolesCorrect == Spec => []ScopeRoles
<1>1. ASSUME MemberInv, NEW u \in Users, NEW p \in Projects
      PROVE  {grants[u][p], invites[u][p].role} \subseteq ProjectRoles \cup {NoRole}
  <2>1. p \in Scopes /\ p # Org
    BY MembershipAssumption, Zenon DEF Scopes
  <2>2. grants[u][p] \in Roles \cup {NoRole}
    BY <1>1, <2>1, Zenon DEF MemberInv, RowsInv, Views
  <2>3. grants[u][p] # NoRole => <<u, p, grants[u][p]>> \in held
    BY <1>1, <2>1, Zenon DEF MemberInv, RowsInv, HeldBy
  <2>4. grants[u][p] \in ProjectRoles \cup {NoRole}
    BY <1>1, <2>2, <2>3, Zenon DEF MemberInv, RowsInv, ProjectsFit
  <2>5. InviteFits(p, invites[u][p], held)
    BY <1>1, <2>1, Zenon DEF MemberInv, InvitesInv
  <2>6. CASE invites[u][p] = NoInvite
    <3>1. NoInvite.role = NoRole
      BY Zenon DEF NoInvite
    <3> QED BY <2>4, <2>6, <3>1, Zenon
  <2>7. CASE invites[u][p] # NoInvite
    BY <2>1, <2>4, <2>5, <2>7, Zenon DEF InviteFits, May
  <2> QED BY <2>6, <2>7, Zenon
<1>2. MemberInv => ScopeRoles
  BY <1>1, Zenon DEF ScopeRoles
<1> QED BY <1>2, MemberInvariant, PTL
-----------------------------------------------------------------------------
(* The properties of the steps *)

\* Only the write of a request and an accepted invite change the grants.
LEMMA GrantsWriters ==
    ASSUME [Next]_vars, grants' # grants
    PROVE  (\E r \in Requests : Write(r)) \/ (\E l \in Logins : AcceptInvite(l))
<1>1. ASSUME NEW r \in Requests, Request(r)
      PROVE  Write(r)
  <2>a. ~Access(r)
    <3>1. \A pc, op, i, u, target, s, role : ~Begin(r, pc, op, i, u, target, s, role)
      BY Zenon DEF Begin, rowVars
    <3>2. \A i, u, view : ~AddMember(r, i, u, view) /\ ~ChangeMemberRole(r, i, u, view)
      BY <3>1, Zenon DEF AddMember, ChangeMemberRole
    <3>3. \A i, u, view : ~DeleteMember(r, i, u, view) /\ ~DeleteInvite(r, i, u, view)
      BY <3>1, Zenon DEF DeleteMember, DeleteInvite
    <3>4. \A i, u, view : ~DeleteOrg(r, i, u, view)
      BY <3>1, Zenon DEF DeleteOrg
    <3> QED BY <3>2, <3>3, <3>4, Zenon DEF Access
  <2>1. ~LoadGrants(r) /\ ~Refused(r) /\ ~LookupUser(r) /\ ~FindMember(r)
    BY ZenonT(30) DEF LoadGrants, Refused, LookupUser, FindMember, rowVars
  <2>2. ~CheckGrantable(r) /\ ~CheckLastOwner(r) /\ ~InvalidateUser(r) /\ ~CreateInvite(r)
    BY Zenon DEF CheckGrantable, CheckLastOwner, InvalidateUser, CreateInvite, rowVars
  <2>3. ~WithdrawInvite(r) /\ ~DeactivateOrg(r) /\ ~RequestFail(r)
    BY Zenon DEF WithdrawInvite, DeactivateOrg, RequestFail, rowVars
  <2> QED BY <1>1, <2>a, <2>1, <2>2, <2>3, Zenon DEF Request
<1>2. ASSUME NEW l \in Logins, Login(l)
      PROVE  AcceptInvite(l)
  BY <1>2, Zenon DEF Login, LoginUser, SkipInvite, LoginDone, rowVars
<1>3. ~\E i \in Instances, u \in Users : CacheExpire(i, u)
  BY Zenon DEF CacheExpire, rowVars
<1>4. ~\E u \in Users, s \in Scopes : ExpireInvite(u, s)
  BY Zenon DEF ExpireInvite
<1>5. Next
  BY Zenon DEF vars
<1> QED BY <1>1, <1>2, <1>3, <1>4, <1>5, Zenon DEF Next

\* The write of one grant leaves the others.
LEMMA OneGrant ==
    ASSUME grants \in [Users -> Views], NEW u \in Users, NEW s \in Scopes, NEW role,
           WriteGrant(u, s, role), NEW v \in Users, NEW t \in Scopes, ~(v = u /\ t = s)
    PROVE  grants'[v][t] = grants[v][t]
BY Zenon DEF WriteGrant, Views

\* A write over a grant takes no other Owner.
LEMMA OwnerLost ==
    ASSUME grants \in [Users -> Views], NEW u \in Users, NEW s \in Scopes, NEW role,
           WriteGrant(u, s, role), Owners(grants) # {}, Owners(grants') = {}
    PROVE  s = Org /\ Owners(grants) = {u}
<1>1. Org \in Scopes
  BY Zenon DEF Scopes
<1>2. ASSUME NEW v \in Owners(grants)
      PROVE  v = u /\ s = Org
  <2>1. v \in Users /\ grants[v][Org] = "Owner" /\ grants'[v][Org] # "Owner"
    BY <1>2, Zenon DEF Owners
  <2> QED BY <1>1, <2>1, OneGrant, Zenon
<1> QED BY <1>2, Zenon

\* The write of a request that changes the grants ends its reading.
LEMMA WriteEnds ==
    ASSUME MemberInv, NEW r \in Requests, Write(r), grants' # grants
    PROVE  /\ req[r].pc = "write" /\ req'[r].pc = "invalidate"
           /\ req[r].target \in Users /\ req[r].scope \in Scopes
           /\ WriteGrant(req[r].target, req[r].scope, req[r].role)
<1>1. req[r].pc = "write" /\ req' = Raced([req EXCEPT ![r] = Written(r)])
      /\ WriteGrant(req[r].target, req[r].scope, req[r].role)
  BY Zenon DEF Write
<1>2. req \in [Requests -> ReqRecord] /\ ReqFits(req[r], held)
  BY Zenon DEF MemberInv, ReqInv
<1>3. req[r].target \in Users /\ req[r].scope \in Scopes
  BY <1>1, <1>2, Zenon DEF ReqFits, ReqRecord
<1>4. Written(r).pc = "invalidate"
  BY Zenon DEF Written, Idle
<1> DEFINE after == [req EXCEPT ![r] = Written(r)]
<1>5. after[r] = Written(r)
  BY <1>2, Zenon
<1> HIDE DEF after
<1>6. req'[r] = after[r]
  BY <1>1, <1>4, <1>5, Zenon DEF Raced, after
<1> QED BY <1>1, <1>3, <1>4, <1>5, <1>6, SMTT(30)

\* checkLastOwner: the org only loses its last Owner to the write of a
\* request that another write of the owners overtook, or to an invite
\* accepted over the grant of the Owner.
THEOREM OwnerlessOnlyByRaceCorrect == Spec => OwnerlessOnlyByRace
<1> DEFINE Lost == Owners(grants) # {} /\ Owners(grants') = {}
           ByWrite == \E r \in Requests : req[r].pc = "write" /\ req[r].raced /\ req'[r].pc = "invalidate"
           ByInvite == \E u \in Owners(grants) : invites[u][Org] # NoInvite /\ invites'[u][Org] = NoInvite
<1>1. ASSUME MemberInv, [Next]_vars, Lost
      PROVE  ByWrite \/ ByInvite
  <2>1. grants' # grants /\ grants \in [Users -> Views]
    BY <1>1, Zenon DEF MemberInv, RowsInv
  <2>2. ASSUME NEW r \in Requests, Write(r)
        PROVE  ByWrite
    <3>1. /\ req[r].pc = "write" /\ req'[r].pc = "invalidate"
          /\ req[r].target \in Users /\ req[r].scope \in Scopes
          /\ WriteGrant(req[r].target, req[r].scope, req[r].role)
      BY <1>1, <2>1, <2>2, WriteEnds, Zenon
    <3>2. req[r].scope = Org /\ Owners(grants) = {req[r].target}
      BY <1>1, <2>1, <3>1, OwnerLost, Zenon
    <3>3. ReqKeeps(req[r], Owners(grants)) /\ req[r].raced \in BOOLEAN
      BY <1>1, Zenon DEF MemberInv, ReqInv, ReqRecord
    <3>4. req[r].raced
      BY <3>1, <3>2, <3>3, Zenon DEF ReqKeeps
    <3> QED BY <3>1, <3>4, Zenon
  <2>3. ASSUME NEW l \in Logins, AcceptInvite(l)
        PROVE  ByInvite
    <3>1. PICK inv \in login[l].todo : TakeInvite(l, inv)
      BY <2>3, Zenon DEF AcceptInvite
    <3> DEFINE u == login[l].user
    <3>2. u \in Users /\ inv.scope \in Scopes /\ invites[u][inv.scope] # NoInvite
      BY <1>1, <2>3, <3>1, TakenInvite, Zenon DEF AcceptInvite
    <3>3. /\ WriteGrant(u, inv.scope, invites[u][inv.scope].role)
          /\ invites' = [invites EXCEPT ![u][inv.scope] = NoInvite]
      BY <3>1, Zenon DEF TakeInvite
    <3>4. inv.scope = Org /\ Owners(grants) = {u}
      BY <1>1, <2>1, <3>2, <3>3, OwnerLost, Zenon
    <3>5. invites'[u][Org] = NoInvite
      BY <1>1, <3>2, <3>3, <3>4, Zenon DEF MemberInv, InvitesInv
    <3> QED BY <3>2, <3>4, <3>5, Zenon
  <2> QED BY <1>1, <2>1, <2>2, <2>3, GrantsWriters, Zenon
<1>2. MemberInv /\ [Next]_vars => [Lost => ByWrite \/ ByInvite]_vars
  BY <1>1, Zenon
<1> QED BY <1>2, MemberInvariant, PTL DEF Spec, OwnerlessOnlyByRace

\* acceptInvite: a grant that no request writes is the one of an invite that
\* is in the table, live, and used up by the step.
THEOREM InviteGrantsItsRoleCorrect == Spec => InviteGrantsItsRole
<1> DEFINE Unwritten == \A r \in Requests : req[r].pc = "write" => req'[r].pc # "invalidate"
           Granted(u, s) ==
               grants'[u][s] # grants[u][s] /\ Unwritten
                   => /\ invites[u][s] # NoInvite /\ ~invites[u][s].expired
                      /\ grants'[u][s] = invites[u][s].role
                      /\ invites'[u][s] = NoInvite
<1>1. ASSUME MemberInv, [Next]_vars, NEW u \in Users, NEW s \in Scopes,
             grants'[u][s] # grants[u][s], Unwritten
      PROVE  /\ invites[u][s] # NoInvite /\ ~invites[u][s].expired
             /\ grants'[u][s] = invites[u][s].role
             /\ invites'[u][s] = NoInvite
  <2>1. grants' # grants /\ grants \in [Users -> Views]
    BY <1>1, Zenon DEF MemberInv, RowsInv
  <2>2. ~\E r \in Requests : Write(r)
    BY <1>1, <2>1, WriteEnds, Zenon
  <2>3. PICK l \in Logins : AcceptInvite(l)
    BY <1>1, <2>1, <2>2, GrantsWriters, Zenon
  <2>4. PICK inv \in login[l].todo : TakeInvite(l, inv)
    BY <2>3, Zenon DEF AcceptInvite
  <2> DEFINE v == login[l].user
  <2>5. v \in Users /\ inv.scope \in Scopes /\ invites[v][inv.scope] # NoInvite
    BY <1>1, <2>3, <2>4, TakenInvite, Zenon DEF AcceptInvite
  <2>6. /\ WriteGrant(v, inv.scope, invites[v][inv.scope].role)
        /\ invites' = [invites EXCEPT ![v][inv.scope] = NoInvite]
        /\ ~invites[v][inv.scope].expired
    BY <2>4, Zenon DEF TakeInvite
  <2>7. u = v /\ s = inv.scope
    BY <1>1, <2>1, <2>5, <2>6, OneGrant, SMTT(30)
  <2>8. grants'[u][s] = invites[u][s].role
    BY <2>1, <2>5, <2>6, <2>7, ZenonT(30) DEF WriteGrant, Views
  <2>9. invites'[u][s] = NoInvite
    BY <1>1, <2>5, <2>6, <2>7, ZenonT(30) DEF MemberInv, InvitesInv
  <2> QED BY <2>5, <2>6, <2>7, <2>8, <2>9, ZenonT(30)
<1>2. MemberInv /\ [Next]_vars => [\A u \in Users, s \in Scopes : Granted(u, s)]_vars
  BY <1>1, Zenon
<1> QED BY <1>2, MemberInvariant, PTL DEF Spec, InviteGrantsItsRole

=============================================================================
