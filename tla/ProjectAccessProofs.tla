------------------------ MODULE ProjectAccessProofs ------------------------
(***************************************************************************)
(* Proofs of the properties of ProjectAccess, for every number of servers, *)
(* projects, keys and calls and every lifetime of the cache and of the     *)
(* tokens.                                                                 *)
(***************************************************************************)
EXTENDS ProjectAccess, TLAPS

CallRecords ==
    [pc : {"idle", "access", "handler", "fill", "find", "write", "invalidate", "key", "project",
           "sign"},
     began : Nat, at : Servers \cup {"none"},
     op : {"none", "use", "update", "close", "create", "delete", "signin"},
     project : Projects \cup {OrgWide}, key : APIKeys \cup {NoKey},
     then : {"idle", "access", "handler"}, read : BOOLEAN]

ProjectTypeOK ==
    /\ clock \in 1..MaxTime
    /\ active \subseteq Projects
    /\ keys \in [APIKeys -> [project : Projects \cup {OrgWide}, exp : Nat]]
    /\ cache \in [Servers -> [Projects -> [active : BOOLEAN, until : Nat]]]
    /\ call \in [Calls -> CallRecords]
    /\ keyTokens \subseteq [key : APIKeys, project : Projects \cup {OrgWide}, exp : Nat]
    /\ closedAt \in [Projects -> Nat]
    /\ keyEnd \in [APIKeys -> Nat]
    /\ settled \subseteq Servers \X Projects

\* What holds of a call r at time t: it lasts CallTime at most, its key was
\* valid when it began, and a row that it read as active before the project
\* was closed is not cached on a server that dropped the project for good.
CallOK(r, t, act, closed, end, dropped) ==
    /\ r.began <= t
    /\ r.pc # "idle" => r.at \in Servers /\ t <= r.began + CallTime
    /\ r.pc \in {"fill", "invalidate"} \/ r.op \in {"update", "close"} => r.project \in Projects
    /\ r.pc \in {"key", "project", "sign"} => r.op = "signin"
    /\ r.op \in {"signin", "delete"} => r.key \in APIKeys
    /\ r.pc \in {"project", "sign"} => r.began <= end[r.key]
    /\ r.op = "use" /\ r.key \in APIKeys => r.began < end[r.key] + CallTime + KeyTokenTTL
    /\ r.pc = "fill" /\ r.read =>
          /\ <<r.at, r.project>> \notin dropped
          /\ r.project \notin act => r.began <= closed[r.project]

CallsInv == \A c \in Calls : CallOK(call[c], clock, active, closedAt, keyEnd, settled)

\* A closed project is cached as active for CacheTTL after the last call that
\* may have read it before.
CacheInv ==
    /\ \A p \in Projects : IF p \in active THEN closedAt[p] = MaxTime + 1 ELSE closedAt[p] <= clock
    /\ \A s \in Servers, p \in Projects :
          /\ cache[s][p].until <= clock + CacheTTL
          /\ cache[s][p].active /\ p \notin active =>
                cache[s][p].until <= closedAt[p] + CallTime + CacheTTL
          /\ <<s, p>> \in settled => p \notin active /\ ~cache[s][p].active

\* A token outlives the end of its key by the time of the sign-in and its own.
KeysInv ==
    /\ \A k \in APIKeys : keys[k] # NoKeyRow => keyEnd[k] = keys[k].exp
    /\ \A t \in keyTokens : /\ t.exp <= clock + KeyTokenTTL
                            /\ t.exp <= keyEnd[t.key] + CallTime + KeyTokenTTL

ProjectInv == ProjectTypeOK /\ CallsInv /\ CacheInv /\ KeysInv

CallNow(r) == CallOK(r, clock, active, closedAt, keyEnd, settled)

-----------------------------------------------------------------------------
(* Records of calls *)

LEMMA IdleCallOK ==
    ASSUME ProjectInv
    PROVE  IdleCall \in CallRecords /\ CallNow(IdleCall)
BY ProjectAccessAssumption
DEF ProjectInv, ProjectTypeOK, IdleCall, CallRecords, CallNow, CallOK

\* A call that goes on to a step without obligations of its own.
LEMMA MovedCallOK ==
    ASSUME ProjectInv, NEW c \in Calls, call[c].pc # "idle",
           NEW x \in {"find", "handler", "write", "invalidate", "sign"},
           x = "sign" => call[c].pc = "project",
           x = "invalidate" => call[c].op \in {"update", "close"}
    PROVE  /\ [call[c] EXCEPT !.pc = x] \in CallRecords
           /\ CallNow([call[c] EXCEPT !.pc = x])
<1> DEFINE r == call[c]
           m == [r EXCEPT !.pc = x]
<1>1. r \in CallRecords /\ CallNow(r)
  BY Zenon DEF ProjectInv, ProjectTypeOK, CallsInv, CallNow
<1>2. /\ m \in CallRecords /\ m.pc = x /\ m.began = r.began /\ m.at = r.at /\ m.op = r.op
      /\ m.project = r.project /\ m.key = r.key
  BY <1>1 DEF CallRecords
<1> HIDE DEF r, m
<1>3. CallNow(m)
  BY <1>1, <1>2, Zenon DEF CallNow, CallOK, r
<1> QED
  BY <1>2, <1>3, Zenon DEF r, m

\* A step that changes one call and nothing else.
LEMMA CallChange ==
    ASSUME ProjectInv, NEW c \in Calls, NEW r \in CallRecords, CallNow(r),
           call' = [call EXCEPT ![c] = r],
           UNCHANGED <<clock, active, keys, cache, keyTokens, closedAt, keyEnd, settled>>
    PROVE  ProjectInv'
<1>1. call' \in [Calls -> CallRecords] /\ \A d \in Calls : call'[d] = IF d = c THEN r ELSE call[d]
  BY Zenon DEF ProjectInv, ProjectTypeOK
<1>2. ProjectTypeOK'
  BY <1>1, Zenon DEF ProjectInv, ProjectTypeOK
<1>3. CallsInv'
  BY <1>1, Zenon DEF ProjectInv, CallsInv, CallNow
<1>4. CacheInv' /\ KeysInv'
  BY Zenon DEF ProjectInv, CacheInv, KeysInv
<1> QED
  BY <1>2, <1>3, <1>4, Zenon DEF ProjectInv

\* The call c returns or goes on to one of the steps xs.
Moves(c, xs) ==
    \/ call' = [call EXCEPT ![c] = IdleCall]
    \/ \E x \in xs : call' = [call EXCEPT ![c] = [call[c] EXCEPT !.pc = x]]

LEMMA DecideMoves ==
    ASSUME NEW c, NEW pc, NEW b, Decide(c, pc, b)
    PROVE  Moves(c, {"find", "handler", "write"})
BY DEF Decide, Passed, Return, Goto, Moves

-----------------------------------------------------------------------------
(* Steps that change one call *)

LEMMA BeginStep ==
    ASSUME ProjectInv, NEW c \in Calls, NEW s \in Servers,
           NEW pc \in {"access", "key"}, NEW op \in {"use", "update", "close", "create", "delete",
           "signin"}, NEW p \in Projects \cup {OrgWide}, NEW k \in APIKeys \cup {NoKey},
           op \in {"update", "close"} => p \in Projects,
           pc = "key" => op = "signin",
           op \in {"signin", "delete"} => k \in APIKeys,
           op = "use" /\ k \in APIKeys => clock < keyEnd[k] + CallTime + KeyTokenTTL,
           Begin(c, pc, s, op, p, k)
    PROVE  ProjectInv'
<1> DEFINE r == [IdleCall EXCEPT !.pc = pc, !.began = clock, !.at = s, !.op = op, !.project = p,
                 !.key = k]
<1>1. clock \in Nat /\ CallTime \in Nat
  BY ProjectAccessAssumption DEF ProjectInv, ProjectTypeOK
<1>2. /\ r \in CallRecords /\ r.pc = pc /\ r.began = clock /\ r.at = s /\ r.op = op
      /\ r.project = p /\ r.key = k
  BY <1>1, Zenon DEF IdleCall, CallRecords
<1>3. call' = [call EXCEPT ![c] = r]
      /\ UNCHANGED <<clock, active, keys, cache, keyTokens, closedAt, keyEnd, settled>>
  BY Zenon DEF Begin
<1> HIDE DEF r
<1>4. CallNow(r)
  BY <1>1, <1>2 DEF CallNow, CallOK
<1> QED
  BY <1>2, <1>3, <1>4, CallChange, Zenon

LEMMA ArrivalStep ==
    ASSUME ProjectInv, NEW c \in Calls, NEW s \in Servers,
           UserCall(c, s) \/ KeyCall(c, s) \/ SignIn(c, s)
    PROVE  ProjectInv'
<1>1. CASE SignIn(c, s)
  BY <1>1, BeginStep, Zenon DEF SignIn
<1>2. CASE KeyCall(c, s)
  <2>1. PICK t \in keyTokens : clock < t.exp /\ \E p \in KeyScope(t) : Begin(c, "access", s, "use", p, t.key)
    BY <1>2, Zenon DEF KeyCall
  <2>2. PICK p \in KeyScope(t) : Begin(c, "access", s, "use", p, t.key)
    BY <2>1, Zenon
  <2>3. t.key \in APIKeys /\ t.project \in Projects \cup {OrgWide} /\ t.exp \in Nat
    BY Zenon DEF ProjectInv, ProjectTypeOK
  <2>4. p \in Projects \cup {OrgWide}
    BY <2>2, <2>3, Zenon DEF KeyScope
  <2>5. clock < keyEnd[t.key] + CallTime + KeyTokenTTL
    BY <2>1, <2>3, ProjectAccessAssumption DEF ProjectInv, KeysInv, ProjectTypeOK
  <2> QED
    BY <2>2, <2>3, <2>4, <2>5, BeginStep, Zenon
<1>3. CASE UserCall(c, s)
  <2>1. NoKey \notin APIKeys
    BY ProjectAccessAssumption, Zenon
  <2>2. PICK p \in Projects \cup {OrgWide}, op \in {"use", "update", "close", "create", "delete"},
             k \in APIKeys \cup {NoKey} :
           /\ Begin(c, "access", s, op, p, k)
           /\ op \in {"use", "update", "close"} => p \in Projects
           /\ IF op = "delete" THEN k \in APIKeys ELSE k = NoKey
    BY <1>3, Zenon DEF UserCall
  <2> QED
    BY <2>1, <2>2, BeginStep
<1> QED
  BY <1>1, <1>2, <1>3, Zenon

LEMMA MovesStep ==
    ASSUME ProjectInv, NEW c \in Calls, call[c].pc # "idle",
           Moves(c, {"find", "handler", "write"}) \/
              (call[c].pc = "project" /\ Moves(c, {"sign"})),
           UNCHANGED <<clock, active, keys, cache, keyTokens, closedAt, keyEnd, settled>>
    PROVE  ProjectInv'
<1>1. CASE call' = [call EXCEPT ![c] = IdleCall]
  BY <1>1, IdleCallOK, CallChange, Zenon
<1>2. ASSUME NEW x \in {"find", "handler", "write", "sign"},
             x = "sign" => call[c].pc = "project",
             call' = [call EXCEPT ![c] = [call[c] EXCEPT !.pc = x]]
      PROVE  ProjectInv'
  <2>1. /\ [call[c] EXCEPT !.pc = x] \in CallRecords
        /\ CallNow([call[c] EXCEPT !.pc = x])
    BY <1>2, MovedCallOK, Zenon
  <2> QED
    BY <1>2, <2>1, CallChange, Zenon
<1> QED
  BY <1>1, <1>2, Zenon DEF Moves

LEMMA LookupStep ==
    ASSUME ProjectInv, NEW c \in Calls, ProjectHit(c) \/ OrgAccess(c)
    PROVE  ProjectInv'
<1>1. /\ call[c].pc # "idle"
      /\ UNCHANGED <<clock, active, keys, cache, keyTokens, closedAt, keyEnd, settled>>
      /\ \E b : Decide(c, call[c].pc, b)
  BY Zenon DEF ProjectHit, OrgAccess
<1> QED
  BY <1>1, DecideMoves, MovesStep, Zenon

LEMMA SmallSteps ==
    ASSUME ProjectInv, NEW c \in Calls, FindKey(c) \/ KeyProject(c) \/ CallFails(c)
    PROVE  ProjectInv'
<1>1. /\ call[c].pc # "idle"
      /\ UNCHANGED <<clock, active, keys, cache, keyTokens, closedAt, keyEnd, settled>>
  BY Zenon DEF FindKey, KeyProject, CallFails
<1>2. \/ Moves(c, {"find", "handler", "write"})
      \/ call[c].pc = "project" /\ Moves(c, {"sign"})
  BY Zenon DEF FindKey, KeyProject, CallFails, Return, Goto, Moves
<1> QED
  BY <1>1, <1>2, MovesStep, Zenon

LEMMA ProjectReadStep == ASSUME ProjectInv, NEW c \in Calls, ProjectRead(c) PROVE ProjectInv'
<1> DEFINE o == call[c]
<1>0. PICK b \in BOOLEAN : b = (o.project \in active)
  <2>1. CASE o.project \in active
    <3>1. TRUE = (o.project \in active)
      BY <2>1, Zenon
    <3> QED
      BY <3>1, Zenon
  <2>2. CASE o.project \notin active
    <3>1. FALSE = (o.project \in active)
      BY <2>2
    <3> QED
      BY <3>1, Zenon
  <2> QED
    BY <2>1, <2>2, Zenon
<1>1. PICK r : r = [o EXCEPT !.pc = "fill", !.then = o.pc, !.read = b]
  BY Zenon
<1>2. o \in CallRecords /\ CallNow(o) /\ o.pc \in {"access", "handler"} /\ o.project \in Projects
  BY Zenon DEF ProjectInv, ProjectTypeOK, CallsInv, CallNow, ProjectRead
<1>3. call' = [call EXCEPT ![c] = r]
      /\ UNCHANGED <<clock, active, keys, cache, keyTokens, closedAt, keyEnd, settled>>
  BY <1>0, <1>1, Zenon DEF ProjectRead
<1>4. /\ r \in CallRecords /\ r.pc = "fill" /\ r.began = o.began /\ r.at = o.at /\ r.op = o.op
      /\ r.project = o.project /\ r.key = o.key /\ r.read = b
  BY <1>1, <1>2, Zenon DEF CallRecords
<1>5. r.read => r.project \in active
  BY <1>0, <1>4, Zenon
<1> HIDE DEF o
<1>6. \A s \in Servers : \A p \in active : <<s, p>> \notin settled
  BY Zenon DEF ProjectInv, ProjectTypeOK, CacheInv
<1>7. CallNow(r)
  BY <1>2, <1>4, <1>5, <1>6, Zenon DEF CallNow, CallOK
<1> QED
  BY <1>3, <1>4, <1>7, CallChange, Zenon

LEMMA UseAPIKeyStep == ASSUME ProjectInv, NEW c \in Calls, UseAPIKey(c) PROVE ProjectInv'
<1> DEFINE o == call[c]
           row == keys[o.key]
<1>1. PICK r : r = [o EXCEPT !.pc = "project", !.project = row.project]
  BY Zenon
<1>2. o \in CallRecords /\ CallNow(o) /\ o.pc = "key"
  BY Zenon DEF ProjectInv, ProjectTypeOK, CallsInv, CallNow, UseAPIKey
<1>3. UNCHANGED <<clock, active, keys, cache, keyTokens, closedAt, keyEnd, settled>>
  BY Zenon DEF UseAPIKey
<1>4. CASE call' = [call EXCEPT ![c] = IdleCall]
  BY <1>3, <1>4, IdleCallOK, CallChange, Zenon
<1>5. CASE row # NoKeyRow /\ ~(row.exp < clock) /\ call' = [call EXCEPT ![c] = r]
  <2>1. o.key \in APIKeys /\ o.op = "signin" /\ o.began <= clock
    BY <1>2, Zenon DEF CallNow, CallOK
  <2>2. row \in [project : Projects \cup {OrgWide}, exp : Nat] /\ keyEnd[o.key] = row.exp
        /\ clock \in Nat /\ o.began \in Nat
    BY <1>2, <1>5, <2>1 DEF ProjectInv, ProjectTypeOK, KeysInv, CallRecords
  <2>3. /\ r \in CallRecords /\ r.pc = "project" /\ r.began = o.began /\ r.at = o.at
        /\ r.op = o.op /\ r.key = o.key
    BY <1>1, <1>2, <2>2, Zenon DEF CallRecords
  <2>4. o.began <= keyEnd[o.key]
    BY <1>5, <2>1, <2>2
  <2> HIDE DEF o, row
  <2>5. CallNow(r)
    BY <1>2, <2>1, <2>3, <2>4, Zenon DEF CallNow, CallOK
  <2> QED
    BY <1>3, <1>5, <2>3, <2>5, CallChange, Zenon
<1> QED
  BY <1>1, <1>4, <1>5, Zenon DEF UseAPIKey, Return

-----------------------------------------------------------------------------
(* Steps that change more *)

LEMMA ClockTickStep == ASSUME ProjectInv, ClockTick PROVE ProjectInv'
<1>1. /\ clock \in Nat /\ clock' = clock + 1 /\ clock' \in 1..MaxTime
      /\ UNCHANGED <<active, keys, cache, call, keyTokens, closedAt, keyEnd, settled>>
      /\ CallTime \in Nat /\ CacheTTL \in Nat /\ KeyTokenTTL \in Nat
  BY ProjectAccessAssumption DEF ProjectInv, ProjectTypeOK, ClockTick
<1>2. ProjectTypeOK'
  BY <1>1, Zenon DEF ProjectInv, ProjectTypeOK
<1>3. CallsInv'
  <2> SUFFICES ASSUME NEW c \in Calls
               PROVE  CallOK(call[c], clock + 1, active, closedAt, keyEnd, settled)
    BY <1>1, Zenon DEF CallsInv
  <2>1. call[c].began \in Nat /\ (call[c].pc # "idle" => clock < call[c].began + CallTime)
    BY Zenon DEF ProjectInv, ProjectTypeOK, CallRecords, ClockTick
  <2>2. CallOK(call[c], clock, active, closedAt, keyEnd, settled)
    BY Zenon DEF ProjectInv, CallsInv
  <2> QED
    BY <1>1, <2>1, <2>2 DEF CallOK
<1>4. CacheInv'
  BY <1>1 DEF ProjectInv, ProjectTypeOK, CacheInv
<1>5. KeysInv'
  BY <1>1 DEF ProjectInv, ProjectTypeOK, KeysInv
<1> QED
  BY <1>2, <1>3, <1>4, <1>5, Zenon DEF ProjectInv

\* A call ends that changes what the other calls stand on.
LEMMA ReturnKeepsCalls ==
    ASSUME ProjectInv, NEW c \in Calls, call' = [call EXCEPT ![c] = IdleCall], clock' = clock,
           \A d \in Calls : CallOK(call[d], clock, active', closedAt', keyEnd', settled')
    PROVE  CallsInv' /\ call' \in [Calls -> CallRecords]
<1>1. IdleCall \in CallRecords
  BY IdleCallOK, Zenon
<1>2. CallOK(IdleCall, clock, active', closedAt', keyEnd', settled')
  BY ProjectAccessAssumption DEF IdleCall, CallOK, ProjectInv, ProjectTypeOK
<1>3. \A d \in Calls : call'[d] = IF d = c THEN IdleCall ELSE call[d]
  BY Zenon DEF ProjectInv, ProjectTypeOK
<1>4. CallsInv'
  BY <1>2, <1>3, Zenon DEF CallsInv
<1> QED
  BY <1>1, <1>4, Zenon DEF ProjectInv, ProjectTypeOK

LEMMA CreateAPIKeyStep == ASSUME ProjectInv, NEW c \in Calls, CreateAPIKey(c) PROVE ProjectInv'
<1>1. PICK k \in APIKeys, e \in KeyExpiries :
         /\ keyEnd[k] = 0
         /\ keys' = [keys EXCEPT ![k] = [project |-> call[c].project, exp |-> clock + e]]
         /\ keyEnd' = [keyEnd EXCEPT ![k] = clock + e]
  BY Zenon DEF CreateAPIKey
<1>2. /\ call' = [call EXCEPT ![c] = IdleCall]
      /\ UNCHANGED <<clock, active, cache, keyTokens, closedAt, settled>>
  BY Zenon DEF CreateAPIKey, Return
<1>3. /\ clock \in Nat /\ e \in Nat /\ call[c].project \in Projects \cup {OrgWide}
      /\ CallTime \in Nat /\ KeyTokenTTL \in Nat
  BY ProjectAccessAssumption DEF ProjectInv, ProjectTypeOK, CallRecords
<1>4. /\ keys' \in [APIKeys -> [project : Projects \cup {OrgWide}, exp : Nat]]
      /\ keyEnd' \in [APIKeys -> Nat]
      /\ \A j \in APIKeys : keyEnd[j] \in Nat /\ keyEnd[j] <= keyEnd'[j]
      /\ \A j \in APIKeys : keys'[j] = IF j = k THEN [project |-> call[c].project, exp |-> clock + e]
                                       ELSE keys[j]
      /\ \A j \in APIKeys : keyEnd'[j] = IF j = k THEN clock + e ELSE keyEnd[j]
  BY <1>1, <1>3 DEF ProjectInv, ProjectTypeOK
<1>5. ASSUME NEW d \in Calls
      PROVE  CallOK(call[d], clock, active', closedAt', keyEnd', settled')
  <2>1. call[d].began \in Nat /\ CallOK(call[d], clock, active, closedAt, keyEnd, settled)
    BY Zenon DEF ProjectInv, ProjectTypeOK, CallRecords, CallsInv
  <2> QED
    BY <1>2, <1>3, <1>4, <2>1 DEF CallOK
<1>6. CallsInv' /\ call' \in [Calls -> CallRecords]
  BY <1>2, <1>5, ReturnKeepsCalls, Zenon
<1>7. ProjectTypeOK' /\ CacheInv'
  BY <1>2, <1>4, <1>6, Zenon DEF ProjectInv, ProjectTypeOK, CacheInv
<1>8. KeysInv'
  <2>1. \A j \in APIKeys : keys'[j] # NoKeyRow => keyEnd'[j] = keys'[j].exp
    BY <1>4 DEF ProjectInv, KeysInv
  <2>2. \A t \in keyTokens : t.key \in APIKeys /\ t.exp \in Nat
    BY Zenon DEF ProjectInv, ProjectTypeOK
  <2>3. \A t \in keyTokens : t.exp <= keyEnd'[t.key] + CallTime + KeyTokenTTL
    BY <1>3, <1>4, <2>2 DEF ProjectInv, KeysInv
  <2> QED
    BY <1>2, <2>1, <2>3, Zenon DEF ProjectInv, KeysInv
<1> QED
  BY <1>6, <1>7, <1>8, Zenon DEF ProjectInv

LEMMA DeleteAPIKeyStep == ASSUME ProjectInv, NEW c \in Calls, DeleteAPIKey(c) PROVE ProjectInv'
<1> DEFINE k == call[c].key
           end == IF clock < keyEnd[k] THEN clock ELSE keyEnd[k]
<1>1. /\ keys' = [keys EXCEPT ![k] = NoKeyRow]
      /\ keyEnd' = [keyEnd EXCEPT ![k] = end]
      /\ call' = [call EXCEPT ![c] = IdleCall]
      /\ UNCHANGED <<clock, active, cache, keyTokens, closedAt, settled>>
  BY Zenon DEF DeleteAPIKey, Return
<1>2. k \in APIKeys
  BY Zenon DEF ProjectInv, CallsInv, CallOK, DeleteAPIKey
<1>3. /\ clock \in Nat /\ keyEnd[k] \in Nat /\ CallTime \in Nat /\ KeyTokenTTL \in Nat \ {0}
      /\ end \in Nat /\ end <= clock /\ end <= keyEnd[k] /\ (end = clock \/ end = keyEnd[k])
  BY <1>2, ProjectAccessAssumption DEF ProjectInv, ProjectTypeOK
<1> HIDE DEF k, end
<1>4. /\ keys' \in [APIKeys -> [project : Projects \cup {OrgWide}, exp : Nat]]
      /\ keyEnd' \in [APIKeys -> Nat]
      /\ \A j \in APIKeys : keys'[j] = IF j = k THEN NoKeyRow ELSE keys[j]
      /\ \A j \in APIKeys : keyEnd'[j] = IF j = k THEN end ELSE keyEnd[j]
  BY <1>1, <1>2, <1>3, Zenon DEF ProjectInv, ProjectTypeOK, NoKeyRow
<1>5. ASSUME NEW d \in Calls
      PROVE  CallOK(call[d], clock, active', closedAt', keyEnd', settled')
  <2>1. call[d].began \in Nat /\ CallOK(call[d], clock, active, closedAt, keyEnd, settled)
    BY Zenon DEF ProjectInv, ProjectTypeOK, CallRecords, CallsInv
  <2>2. call[d].pc \in {"project", "sign"} => call[d].began <= keyEnd'[call[d].key]
    BY <1>3, <1>4, <2>1 DEF CallOK
  <2>3. call[d].op = "use" /\ call[d].key \in APIKeys =>
           call[d].began < keyEnd'[call[d].key] + CallTime + KeyTokenTTL
    BY <1>3, <1>4, <2>1 DEF CallOK
  <2> QED
    BY <1>1, <2>1, <2>2, <2>3, Zenon DEF CallOK
<1>6. CallsInv' /\ call' \in [Calls -> CallRecords]
  BY <1>1, <1>5, ReturnKeepsCalls, Zenon
<1>7. ProjectTypeOK' /\ CacheInv'
  BY <1>1, <1>4, <1>6, Zenon DEF ProjectInv, ProjectTypeOK, CacheInv
<1>8. KeysInv'
  <2>1. \A j \in APIKeys : keys'[j] # NoKeyRow => keyEnd'[j] = keys'[j].exp
    BY <1>4, Zenon DEF ProjectInv, KeysInv
  <2>2. \A t \in keyTokens : t.key \in APIKeys /\ t.exp \in Nat
    BY Zenon DEF ProjectInv, ProjectTypeOK
  <2>3. \A t \in keyTokens : t.exp <= keyEnd'[t.key] + CallTime + KeyTokenTTL
    BY <1>3, <1>4, <2>2 DEF ProjectInv, KeysInv
  <2> QED
    BY <1>1, <2>1, <2>3, Zenon DEF ProjectInv, KeysInv
<1> QED
  BY <1>6, <1>7, <1>8, Zenon DEF ProjectInv

LEMMA SignTokenStep == ASSUME ProjectInv, NEW c \in Calls, SignToken(c) PROVE ProjectInv'
<1> DEFINE o == call[c]
           t == [key |-> o.key, project |-> o.project, exp |-> clock + KeyTokenTTL]
<1>1. /\ keyTokens' = keyTokens \cup {t}
      /\ call' = [call EXCEPT ![c] = IdleCall]
      /\ UNCHANGED <<clock, active, keys, cache, closedAt, keyEnd, settled>>
  BY Zenon DEF SignToken, Return
<1>2. o \in CallRecords /\ o.pc = "sign" /\ CallNow(o)
  BY Zenon DEF ProjectInv, ProjectTypeOK, CallsInv, CallNow, SignToken
<1>3. o.key \in APIKeys /\ o.began <= keyEnd[o.key] /\ clock <= o.began + CallTime
  BY <1>2, Zenon DEF CallNow, CallOK
<1>4. /\ clock \in Nat /\ CallTime \in Nat /\ KeyTokenTTL \in Nat
      /\ o.project \in Projects \cup {OrgWide} /\ o.began \in Nat /\ keyEnd[o.key] \in Nat
  BY <1>2, <1>3, ProjectAccessAssumption DEF ProjectInv, ProjectTypeOK, CallRecords
<1>5. /\ t \in [key : APIKeys, project : Projects \cup {OrgWide}, exp : Nat]
      /\ t.exp = clock + KeyTokenTTL /\ t.key = o.key
  BY <1>3, <1>4
<1>6. t.exp <= keyEnd[t.key] + CallTime + KeyTokenTTL
  BY <1>3, <1>4, <1>5
<1> HIDE DEF o, t
<1>7. CallsInv' /\ call' \in [Calls -> CallRecords]
  BY <1>1, ReturnKeepsCalls, Zenon DEF ProjectInv, CallsInv
<1>8. ProjectTypeOK' /\ CacheInv'
  BY <1>1, <1>5, <1>7, Zenon DEF ProjectInv, ProjectTypeOK, CacheInv
<1>9. KeysInv'
  <2>1. \A x \in keyTokens' : x.exp <= clock + KeyTokenTTL
                              /\ x.exp <= keyEnd[x.key] + CallTime + KeyTokenTTL
    BY <1>1, <1>4, <1>5, <1>6 DEF ProjectInv, KeysInv
  <2> QED
    BY <1>1, <2>1, Zenon DEF ProjectInv, KeysInv
<1> QED
  BY <1>7, <1>8, <1>9, Zenon DEF ProjectInv

LEMMA UpdateProjectStep == ASSUME ProjectInv, NEW c \in Calls, UpdateProject(c) PROVE ProjectInv'
<1> DEFINE o == call[c]
           p == o.project
<1>1. /\ UNCHANGED <<clock, keys, cache, keyTokens, keyEnd, settled>>
      /\ o.pc = "write" /\ o.op \in {"update", "close"}
      /\ \/ active' = active /\ closedAt' = closedAt
         \/ /\ p \in active /\ active' = active \ {p}
            /\ closedAt' = [closedAt EXCEPT ![p] = clock]
  BY Zenon DEF UpdateProject
<1>2. PICK r : r = [o EXCEPT !.pc = "invalidate"]
  BY Zenon
<1>3. call' = [call EXCEPT ![c] = r]
  BY <1>2, Zenon DEF UpdateProject, Goto
<1>4. r \in CallRecords /\ CallNow(r) /\ r.pc = "invalidate"
  <2>1. o \in CallRecords
    BY Zenon DEF ProjectInv, ProjectTypeOK
  <2>2. r.pc = "invalidate"
    BY <1>2, <2>1, Zenon DEF CallRecords
  <2> QED
    BY <1>1, <1>2, <2>2, MovedCallOK, Zenon
<1>5. /\ p \in Projects /\ clock \in Nat /\ CallTime \in Nat /\ CacheTTL \in Nat
      /\ closedAt \in [Projects -> Nat]
  <2>1. p \in Projects
    BY <1>1, Zenon DEF ProjectInv, CallsInv, CallOK
  <2> QED
    BY <2>1, ProjectAccessAssumption DEF ProjectInv, ProjectTypeOK
<1> HIDE DEF o, p
<1>6. /\ active' \subseteq active /\ closedAt' \in [Projects -> Nat]
      /\ \A q \in Projects : IF q \in active \ active' THEN closedAt'[q] = clock
                             ELSE closedAt'[q] = closedAt[q]
  BY <1>1, <1>5, Zenon
<1>7. ProjectTypeOK'
  BY <1>1, <1>3, <1>4, <1>6, Zenon DEF ProjectInv, ProjectTypeOK
<1>8. CallsInv'
  <2>1. ASSUME NEW x \in CallRecords, CallNow(x)
        PROVE  CallOK(x, clock, active', closedAt', keyEnd, settled)
    <3>1. x.pc = "fill" /\ x.read =>
             /\ <<x.at, x.project>> \notin settled
             /\ x.project \notin active' => x.began <= closedAt'[x.project]
      <4> SUFFICES ASSUME x.pc = "fill", x.read
                   PROVE  /\ <<x.at, x.project>> \notin settled
                          /\ x.project \notin active' => x.began <= closedAt'[x.project]
        BY Zenon
      <4>1. /\ x.project \in Projects /\ x.began <= clock /\ <<x.at, x.project>> \notin settled
            /\ x.project \notin active => x.began <= closedAt[x.project]
        BY <2>1, Zenon DEF CallNow, CallOK
      <4> QED
        BY <1>6, <4>1, Zenon
    <3> QED
      BY <2>1, <3>1, Zenon DEF CallNow, CallOK
  <2>2. \A d \in Calls : call'[d] \in CallRecords /\ CallNow(r)
                         /\ (call'[d] = r \/ (call'[d] = call[d] /\ CallNow(call[d])))
    BY <1>3, <1>4, <1>7, Zenon DEF ProjectInv, ProjectTypeOK, CallsInv, CallNow
  <2>3. \A d \in Calls : CallOK(call'[d], clock, active', closedAt', keyEnd, settled)
    BY <2>1, <2>2, Zenon
  <2> QED
    BY <1>1, <2>3, Zenon DEF CallsInv
<1>9. CacheInv'
  <2>1. \A q \in Projects :
           IF q \in active' THEN closedAt'[q] = MaxTime + 1 ELSE closedAt'[q] <= clock
    BY <1>5, <1>6 DEF ProjectInv, CacheInv
  <2>2. ASSUME NEW s \in Servers, NEW q \in Projects
        PROVE  /\ cache[s][q].until <= clock + CacheTTL
               /\ cache[s][q].active /\ q \notin active' =>
                     cache[s][q].until <= closedAt'[q] + CallTime + CacheTTL
               /\ <<s, q>> \in settled => q \notin active' /\ ~cache[s][q].active
    <3>1. cache[s][q].until \in Nat
      BY Zenon DEF ProjectInv, ProjectTypeOK
    <3> QED
      BY <1>5, <1>6, <3>1 DEF ProjectInv, CacheInv
  <2> QED
    BY <1>1, <2>1, <2>2, Zenon DEF CacheInv
<1>10. KeysInv'
  BY <1>1, Zenon DEF ProjectInv, KeysInv
<1> QED
  BY <1>7, <1>8, <1>9, <1>10, Zenon DEF ProjectInv

\* The row of a project at one server changes.
LEMMA CacheSet ==
    ASSUME ProjectInv, NEW s \in Servers, NEW p \in Projects,
           NEW e \in [active : BOOLEAN, until : Nat],
           cache' = [cache EXCEPT ![s] = [cache[s] EXCEPT ![p] = e]]
    PROVE  /\ cache' \in [Servers -> [Projects -> [active : BOOLEAN, until : Nat]]]
           /\ \A x \in Servers, q \in Projects :
                 cache'[x][q] = IF x = s /\ q = p THEN e ELSE cache[x][q]
BY Zenon DEF ProjectInv, ProjectTypeOK

LEMMA InvalidateProjectStep ==
    ASSUME ProjectInv, NEW c \in Calls, InvalidateProject(c)
    PROVE  ProjectInv'
<1> DEFINE s == call[c].at
           p == call[c].project
<1>1. /\ call' = [call EXCEPT ![c] = IdleCall]
      /\ cache' = [cache EXCEPT ![s] = [cache[s] EXCEPT ![p] = NotCached]]
      /\ UNCHANGED <<clock, active, keys, keyTokens, closedAt, keyEnd>>
      /\ \/ settled' = settled
         \/ NoStaleFill(s, p) /\ settled' = settled \cup {<<s, p>>}
  BY Zenon DEF InvalidateProject, Return
<1>2. s \in Servers /\ p \in Projects
  BY Zenon DEF ProjectInv, CallsInv, CallOK, InvalidateProject
<1> HIDE DEF s, p
<1>3. NotCached \in [active : BOOLEAN, until : Nat] /\ NotCached.until = 0 /\ ~NotCached.active
  BY Zenon DEF NotCached
<1>4. /\ cache' \in [Servers -> [Projects -> [active : BOOLEAN, until : Nat]]]
      /\ \A x \in Servers, q \in Projects :
            cache'[x][q] = IF x = s /\ q = p THEN NotCached ELSE cache[x][q]
  BY <1>1, <1>2, <1>3, CacheSet, ZenonT(30)
<1>5. ASSUME NEW d \in Calls
      PROVE  CallOK(call[d], clock, active', closedAt', keyEnd', settled')
  <2>1. CallOK(call[d], clock, active, closedAt, keyEnd, settled)
    BY Zenon DEF ProjectInv, CallsInv
  <2>2. call[d].pc = "fill" /\ call[d].read => <<call[d].at, call[d].project>> \notin settled'
    BY <1>1, <2>1 DEF NoStaleFill, CallOK
  <2> QED
    BY <1>1, <2>1, <2>2, Zenon DEF CallOK
<1>6. CallsInv' /\ call' \in [Calls -> CallRecords]
  BY <1>1, <1>5, ReturnKeepsCalls, Zenon
<1>7. ProjectTypeOK'
  BY <1>1, <1>2, <1>4, <1>6 DEF ProjectInv, ProjectTypeOK
<1>8. CacheInv'
  <2>1. clock \in Nat /\ CacheTTL \in Nat /\ CallTime \in Nat
    BY ProjectAccessAssumption DEF ProjectInv, ProjectTypeOK
  <2>2. ASSUME NEW x \in Servers, NEW q \in Projects
        PROVE  /\ cache'[x][q].until <= clock + CacheTTL
               /\ cache'[x][q].active /\ q \notin active =>
                     cache'[x][q].until <= closedAt[q] + CallTime + CacheTTL
               /\ <<x, q>> \in settled' => q \notin active /\ ~cache'[x][q].active
    <3>1. CASE x = s /\ q = p
      <4>1. cache'[x][q] = NotCached
        BY <1>4, <3>1, Zenon
      <4>2. <<x, q>> \in settled' => q \notin active
        BY <1>1, <3>1, Zenon DEF NoStaleFill, ProjectInv, CacheInv
      <4> QED
        BY <1>3, <2>1, <4>1, <4>2
    <3>2. CASE ~(x = s /\ q = p)
      <4>1. cache'[x][q] = cache[x][q] /\ (<<x, q>> \in settled' => <<x, q>> \in settled)
        BY <1>1, <1>4, <3>2, Zenon
      <4> QED
        BY <4>1, Zenon DEF ProjectInv, CacheInv
    <3> QED
      BY <3>1, <3>2, Zenon
  <2> QED
    BY <1>1, <2>2, Zenon DEF ProjectInv, CacheInv
<1>9. KeysInv'
  BY <1>1, Zenon DEF ProjectInv, KeysInv
<1> QED
  BY <1>6, <1>7, <1>8, <1>9, Zenon DEF ProjectInv

LEMMA ProjectFillStep == ASSUME ProjectInv, NEW c \in Calls, ProjectFill(c) PROVE ProjectInv'
<1> DEFINE o == call[c]
           s == o.at
           p == o.project
           e == [active |-> o.read, until |-> clock + CacheTTL]
<1>1. /\ UNCHANGED <<clock, active, keys, keyTokens, closedAt, keyEnd, settled>>
      /\ o.pc = "fill"
      /\ cache' = [cache EXCEPT ![s] = [cache[s] EXCEPT ![p] = e]]
      /\ Decide(c, o.then, o.read)
  BY Zenon DEF ProjectFill
<1>2. /\ o \in CallRecords /\ CallNow(o) /\ clock \in Nat /\ CacheTTL \in Nat /\ CallTime \in Nat
  BY ProjectAccessAssumption DEF ProjectInv, ProjectTypeOK, CallsInv, CallNow
<1>3. s \in Servers /\ p \in Projects /\ clock <= o.began + CallTime
  BY <1>1, <1>2, Zenon DEF CallNow, CallOK
<1>4. o.read \in BOOLEAN /\ o.began \in Nat /\ closedAt[p] \in Nat
  BY <1>2, <1>3, Zenon DEF CallRecords, ProjectInv, ProjectTypeOK
<1>5. /\ e \in [active : BOOLEAN, until : Nat] /\ e.until = clock + CacheTTL
      /\ e.active = o.read
  BY <1>2, <1>4
<1>6. o.read => /\ <<s, p>> \notin settled
                /\ p \notin active => o.began <= closedAt[p]
  BY <1>1, <1>2, Zenon DEF CallNow, CallOK
<1>7. PICK r \in CallRecords : CallNow(r) /\ call' = [call EXCEPT ![c] = r]
  <2>1. Moves(c, {"find", "handler", "write"})
    BY <1>1, DecideMoves, Zenon
  <2>2. CASE call' = [call EXCEPT ![c] = IdleCall]
    BY <2>2, IdleCallOK, Zenon
  <2>3. ASSUME NEW x \in {"find", "handler", "write"},
               call' = [call EXCEPT ![c] = [o EXCEPT !.pc = x]]
        PROVE  [o EXCEPT !.pc = x] \in CallRecords /\ CallNow([o EXCEPT !.pc = x])
    BY <1>1, MovedCallOK, Zenon
  <2> QED
    BY <2>1, <2>2, <2>3, Zenon DEF Moves
<1> HIDE DEF o, s, p, e
<1>8. /\ cache' \in [Servers -> [Projects -> [active : BOOLEAN, until : Nat]]]
      /\ \A x \in Servers, q \in Projects :
            cache'[x][q] = IF x = s /\ q = p THEN e ELSE cache[x][q]
  BY <1>1, <1>3, <1>5, CacheSet, ZenonT(30)
<1>9. ProjectTypeOK'
  BY <1>1, <1>7, <1>8, Zenon DEF ProjectInv, ProjectTypeOK
<1>10. CallsInv'
  <2>1. \A d \in Calls : call'[d] = IF d = c THEN r ELSE call[d]
    BY <1>7, Zenon DEF ProjectInv, ProjectTypeOK
  <2> QED
    BY <1>1, <1>7, <2>1, Zenon DEF ProjectInv, CallsInv, CallNow
<1>11. CacheInv'
  <2>1. ASSUME NEW x \in Servers, NEW q \in Projects
        PROVE  /\ cache'[x][q].until <= clock + CacheTTL
               /\ cache'[x][q].active /\ q \notin active =>
                     cache'[x][q].until <= closedAt[q] + CallTime + CacheTTL
               /\ <<x, q>> \in settled => q \notin active /\ ~cache'[x][q].active
    <3>1. CASE x = s /\ q = p
      <4>1. cache'[x][q] = e
        BY <1>8, <3>1, Zenon
      <4>2. e.active /\ p \notin active => e.until <= closedAt[p] + CallTime + CacheTTL
        BY <1>2, <1>3, <1>4, <1>5, <1>6
      <4>3. <<s, p>> \in settled => p \notin active /\ ~e.active
        BY <1>3, <1>5, <1>6, Zenon DEF ProjectInv, CacheInv
      <4> QED
        BY <1>2, <1>5, <3>1, <4>1, <4>2, <4>3
    <3>2. CASE ~(x = s /\ q = p)
      BY <1>8, <3>2, Zenon DEF ProjectInv, CacheInv
    <3> QED
      BY <3>1, <3>2, Zenon
  <2> QED
    BY <1>1, <2>1, Zenon DEF ProjectInv, CacheInv
<1>12. KeysInv'
  BY <1>1, Zenon DEF ProjectInv, KeysInv
<1> QED
  BY <1>9, <1>10, <1>11, <1>12, Zenon DEF ProjectInv

-----------------------------------------------------------------------------

LEMMA ProjectInvInit == ProjectInit => ProjectInv
<1> SUFFICES ASSUME ProjectInit PROVE ProjectInv
  BY Zenon
<1>1. {CacheTTL, KeyTokenTTL, MaxTime} \subseteq Nat \ {0} /\ CallTime \in Nat
      /\ KeyExpiries \subseteq Nat
  BY ProjectAccessAssumption, Zenon
<1>2. IdleCall \in CallRecords /\ IdleCall.pc = "idle" /\ IdleCall.began = 0
      /\ IdleCall.op = "none"
  BY Zenon DEF IdleCall, CallRecords
<1>3. keys \in [APIKeys -> [project : Projects \cup {OrgWide}, exp : Nat]]
  <2>1. NoKeyRow \in [project : Projects \cup {OrgWide}, exp : Nat]
    BY Zenon DEF NoKeyRow
  <2>2. [project : Projects \cup {OrgWide}, exp : KeyExpiries]
           \subseteq [project : Projects \cup {OrgWide}, exp : Nat]
    BY <1>1, Zenon
  <2>3. {NoKeyRow} \cup [project : Projects \cup {OrgWide}, exp : KeyExpiries]
           \subseteq [project : Projects \cup {OrgWide}, exp : Nat]
    BY <2>1, <2>2, Zenon
  <2> HIDE DEF NoKeyRow
  <2> QED
    BY <2>3, Zenon DEF ProjectInit
<1>4. ProjectTypeOK
  <2>1. cache \in [Servers -> [Projects -> [active : BOOLEAN, until : Nat]]]
    BY Zenon DEF ProjectInit, NotCached
  <2>2. call \in [Calls -> CallRecords]
    BY <1>2, Zenon DEF ProjectInit
  <2>3. keyEnd \in [APIKeys -> Nat]
    BY <1>3, Zenon DEF ProjectInit
  <2> QED
    BY <1>1, <1>3, <2>1, <2>2, <2>3 DEF ProjectInit, ProjectTypeOK
<1>5. CallsInv
  BY <1>2 DEF ProjectInit, CallsInv, CallOK
<1>6. CacheInv
  BY <1>1 DEF ProjectInit, CacheInv, NotCached
<1>7. KeysInv
  BY Zenon DEF ProjectInit, KeysInv
<1> QED
  BY <1>4, <1>5, <1>6, <1>7, Zenon DEF ProjectInv

LEMMA ProjectInvStep == ProjectInv /\ [ProjectNext]_projectVars => ProjectInv'
<1>1. ASSUME ProjectInv, ProjectNext PROVE ProjectInv'
  <2>1. CASE ClockTick
    BY <1>1, <2>1, ClockTickStep, Zenon
  <2>2. ASSUME NEW c \in Calls, NEW s \in Servers, UserCall(c, s) \/ KeyCall(c, s) \/ SignIn(c, s)
        PROVE  ProjectInv'
    BY <1>1, <2>2, ArrivalStep, Zenon
  <2>3. ASSUME NEW c \in Calls,
               \/ ProjectHit(c) \/ ProjectRead(c) \/ ProjectFill(c) \/ OrgAccess(c)
               \/ CreateAPIKey(c) \/ FindKey(c) \/ DeleteAPIKey(c)
               \/ UpdateProject(c) \/ InvalidateProject(c)
               \/ UseAPIKey(c) \/ KeyProject(c) \/ SignToken(c)
               \/ CallFails(c)
        PROVE  ProjectInv'
    BY <1>1, <2>3, LookupStep, ProjectReadStep, ProjectFillStep, CreateAPIKeyStep, SmallSteps, Zenon,
       DeleteAPIKeyStep, UpdateProjectStep, InvalidateProjectStep, UseAPIKeyStep, SignTokenStep
  <2> QED
    BY <1>1, <2>1, <2>2, <2>3, Zenon DEF ProjectNext
<1>2. ASSUME ProjectInv, UNCHANGED projectVars PROVE ProjectInv'
  <2>1. UNCHANGED <<clock, active, keys, cache, call, keyTokens, closedAt, keyEnd, settled>>
    BY <1>2, Zenon DEF projectVars
  <2> QED
    BY <1>2, <2>1, Zenon DEF ProjectInv, ProjectTypeOK, CallsInv, CacheInv, KeysInv
<1> QED
  BY <1>1, <1>2, Zenon

LEMMA ProjectInvCorrect == ProjectSpec => []ProjectInv
BY ProjectInvInit, ProjectInvStep, PTL DEF ProjectSpec

\* No server admits a call to a deactivated project that begins
\* CacheTTL + CallTime after it was deactivated (DeleteProject and the cache
\* of getProject).
THEOREM ProjectClosesCorrect == ProjectSpec => []ProjectCloses
<1>1. ProjectInv => ProjectCloses
  <2> SUFFICES ASSUME ProjectInv, NEW c \in Calls, Admitted(c)
               PROVE  call[c].began < closedAt[call[c].project] + CallTime + CacheTTL
    BY Zenon DEF ProjectCloses
  <2> DEFINE o == call[c]
             p == o.project
  <2>1. /\ o \in CallRecords /\ CallNow(o) /\ p \in Projects /\ o.pc # "idle"
    BY Zenon DEF Admitted, ProjectInv, ProjectTypeOK, CallsInv, CallNow
  <2>2. /\ o.began \in Nat /\ o.began <= clock /\ clock \in Nat /\ clock <= MaxTime
        /\ CacheTTL \in Nat \ {0} /\ CallTime \in Nat /\ MaxTime \in Nat /\ closedAt[p] \in Nat
        /\ o.at \in Servers
    BY <2>1, ProjectAccessAssumption
    DEF ProjectInv, ProjectTypeOK, CallRecords, CallNow, CallOK
  <2>3. CASE p \in active
    <3>1. closedAt[p] = MaxTime + 1
      BY <2>1, <2>3, Zenon DEF ProjectInv, CacheInv
    <3> QED
      BY <2>2, <3>1
  <2>4. CASE p \notin active /\ o.pc = "fill" /\ o.read
    <3>1. o.began <= closedAt[p]
      BY <2>1, <2>4, Zenon DEF CallNow, CallOK
    <3> QED
      BY <2>2, <3>1
  <2>5. CASE p \notin active /\ clock < cache[o.at][p].until /\ cache[o.at][p].active
    <3>1. /\ cache[o.at][p].until <= closedAt[p] + CallTime + CacheTTL
          /\ cache[o.at][p].until \in Nat
      <4>1. cache[o.at][p].until \in Nat
        BY <2>1, <2>2 DEF ProjectInv, ProjectTypeOK
      <4>2. cache[o.at][p].until <= closedAt[p] + CallTime + CacheTTL
        BY <2>1, <2>2, <2>5, Zenon DEF ProjectInv, CacheInv
      <4> QED
        BY <4>1, <4>2, Zenon
    <3>2. PICK u \in Nat : clock < u /\ u <= closedAt[p] + CallTime + CacheTTL
      BY <2>5, <3>1, Zenon
    <3> QED
      BY <2>2, <3>2
  <2> QED
    BY <2>3, <2>4, <2>5, Zenon DEF Admitted
<1> QED
  BY <1>1, ProjectInvCorrect, PTL

\* The server that handled DeleteProject admits no further call to the
\* project, but through a lookup that had read it before (InvalidateProject).
THEOREM CloseHoldsHereCorrect == ProjectSpec => []CloseHoldsHere
<1>1. ProjectInv => CloseHoldsHere
  <2> SUFFICES ASSUME ProjectInv, NEW c \in Calls, Admitted(c),
                      <<call[c].at, call[c].project>> \in settled
               PROVE  FALSE
    BY Zenon DEF CloseHoldsHere
  <2>1. CallNow(call[c]) /\ call[c].pc # "idle" /\ call[c].project \in Projects
    BY Zenon DEF Admitted, ProjectInv, CallsInv, CallNow
  <2>2. call[c].at \in Servers
    BY <2>1, Zenon DEF CallNow, CallOK
  <2>3. /\ call[c].project \notin active
        /\ ~cache[call[c].at][call[c].project].active
    BY <2>1, <2>2, Zenon DEF ProjectInv, CacheInv
  <2>4. ~(call[c].pc = "fill" /\ call[c].read)
    BY <2>1, Zenon DEF CallNow, CallOK
  <2> QED
    BY <2>3, <2>4, Zenon DEF Admitted
<1> QED
  BY <1>1, ProjectInvCorrect, PTL

\* A deleted or expired API key starts no call KeyTokenTTL + CallTime later
\* (findAPIKey and the validity of its token).
THEOREM KeyAccessEndsCorrect == ProjectSpec => []KeyAccessEnds
<1>1. ProjectInv => KeyAccessEnds
  BY Zenon DEF ProjectInv, CallsInv, CallOK, KeyAccessEnds
<1> QED
  BY <1>1, ProjectInvCorrect, PTL
=============================================================================
