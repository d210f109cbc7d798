------------------------------ MODULE Registry ------------------------------
(***************************************************************************)
(* The registry of a backend instance: the cache of the row a label        *)
(* resolves to and the cache of the built issuer, both bounded by the TTL, *)
(* filled by the lookups of sign and OCSP requests and invalidated by the  *)
(* handlers of IssuerLifecycle that run on the instance.  Instances share  *)
(* only the database, so one is modelled, among mutations of its own and   *)
(* of others; and one issuer and scope: the caches are keyed by the scope  *)
(* and label and by the row ID, and the build lock is the issuer's.        *)
(***************************************************************************)
EXTENDS IssuerLifecycle

CONSTANTS
    Local,      \* requests of IssuerLifecycle that run on this instance
    Lookups,    \* concurrent lookups of this instance
    TTL,        \* issuer_cache_ttl
    MaxTime     \* bound of the clock

ASSUME RegistryAssumption == Local \subseteq Admins /\ TTL \in Nat \ {0} /\ MaxTime \in Nat

VARIABLES
    clock,      \* time.Now() of every process
    label,      \* issuerLabels: a row and its expiry
    entry,      \* issuers: the row of the built issuer and its expiry
    look,       \* lookups
    dropped,    \* requests whose InvalidateIssuer has dropped the built issuer
    left        \* history: when the row left Active, and when it was Destroyed

cacheVars == <<clock, label, entry, look, dropped, left>>
vars == <<lifeVars, cacheVars>>

Nothing == [row |-> NoRow, expires |-> 0]
LookAt(pc, kind, r) == [pc |-> pc, kind |-> kind, row |-> r]
NoLook == LookAt("idle", "sign", NoRow)
Never == MaxTime + 1

Init ==
    /\ LifeInit
    /\ clock = 0
    /\ label = Nothing
    /\ entry = Nothing
    /\ look = [l \in Lookups |-> NoLook]
    /\ dropped = {}
    /\ left = [active |-> Never, usable |-> Never]

\* Variant: the expiry is twice as late.
CachedTwice(r) == [row |-> r, expires |-> clock + 2 * TTL]

Cached(r) == [row |-> r, expires |-> clock + TTL]
Holds(c) == c # Nothing

\* The build lock of the issuer is taken.
Building == \E l \in Lookups : look[l].pc = "building"

\* A cached value is returned until its expiry.  A lookup is short compared
\* with the TTL: no time passes within one.
Tick ==
    /\ clock < MaxTime
    /\ \A l \in Lookups : look[l].pc = "idle"
    /\ clock' = clock + 1
    /\ label' = IF label.expires < clock' THEN Nothing ELSE label
    /\ entry' = IF entry.expires < clock' THEN Nothing ELSE entry
    /\ UNCHANGED <<look, dropped, left>>

\* Eviction of the least recently used value of a full cache.
Evict ==
    /\ \/ Holds(label) /\ label' = Nothing /\ UNCHANGED entry
       \/ Holds(entry) /\ entry' = Nothing /\ UNCHANGED label
    /\ UNCHANGED <<clock, look, dropped, left>>

-----------------------------------------------------------------------------
(* Lookups *)

\* Variant: the status is not checked.
ResolvedAny(r) == LookAt("entry", "sign", r)

\* A row that is not Active refuses a sign request.
Resolved(r) == IF r.status = "Active" THEN LookAt("entry", "sign", r) ELSE NoLook

\* Resolve, FindIssuer: the label is in memory, or the row is read.
FindCached(l) ==
    /\ look[l].pc = "idle"
    /\ Holds(label)
    /\ look' = [look EXCEPT ![l] = Resolved(label.row)]
    /\ UNCHANGED <<clock, label, entry, dropped, left>>

FindRead(l) ==
    /\ look[l].pc = "idle"
    /\ ~Holds(label)
    /\ row.status # "None"
    /\ look' = [look EXCEPT ![l] = LookAt("fill", "sign", row)]
    /\ UNCHANGED <<clock, label, entry, dropped, left>>

\* issuerLabels.Add of what was read, whatever happened meanwhile.
FillLabel(l) ==
    /\ look[l].pc = "fill"
    /\ label' = Cached(look[l].row)
    /\ look' = [look EXCEPT ![l] = Resolved(look[l].row)]
    /\ UNCHANGED <<clock, entry, dropped, left>>

\* IssuerBySKID: a built issuer in memory is used as it is; the status of a
\* row that is read is checked.
SkidCached(l) ==
    /\ look[l].pc = "idle"
    /\ Holds(entry)
    /\ look' = [look EXCEPT ![l] = LookAt("use", "ocsp", entry.row)]
    /\ UNCHANGED <<clock, label, entry, dropped, left>>

SkidRead(l) ==
    /\ look[l].pc = "idle"
    /\ ~Holds(entry)
    /\ row.status \in {"Active", "Archived"}
    /\ look' = [look EXCEPT ![l] = LookAt("entry", "ocsp", row)]
    /\ UNCHANGED <<clock, label, entry, dropped, left>>

\* entry: the built issuer is used unless the row is newer.
newer(r, built) == r.updatedAt > built.updatedAt
Fresh(l) == Holds(entry) /\ ~newer(look[l].row, entry.row)

EntryHit(l) ==
    /\ look[l].pc = "entry"
    /\ Fresh(l)
    /\ look' = [look EXCEPT ![l] = [@ EXCEPT !.pc = "use", !.row = entry.row]]
    /\ UNCHANGED <<clock, label, entry, dropped, left>>

\* Variant: the construction is not serialized.
EntryBuildUnlocked(l) ==
    /\ look[l].pc = "entry"
    /\ ~Fresh(l)
    /\ look' = [look EXCEPT ![l] = [@ EXCEPT !.pc = "building"]]
    /\ UNCHANGED <<clock, label, entry, dropped, left>>

\* Under the lock the entry is looked at again; without one the issuer is built.
EntryBuild(l) ==
    /\ look[l].pc = "entry"
    /\ ~Fresh(l)
    /\ ~Building
    /\ look' = [look EXCEPT ![l] = [@ EXCEPT !.pc = "building"]]
    /\ UNCHANGED <<clock, label, entry, dropped, left>>

\* build needs the certificate and the key of the row it was given, not of
\* the row as it is now; issuers.Add under the lock.
Built(l) ==
    LET r == look[l].row IN
    /\ look[l].pc = "building"
    /\ IF r.cert # NoCert /\ Loadable(r)
       THEN /\ entry' = Cached(r)
            /\ look' = [look EXCEPT ![l] = [@ EXCEPT !.pc = "use"]]
       ELSE /\ look' = [look EXCEPT ![l] = NoLook]
            /\ UNCHANGED entry
    /\ UNCHANGED <<clock, label, dropped, left>>

\* The request ends, or fails.
LookupEnd(l) ==
    /\ look[l].pc # "idle"
    /\ look' = [look EXCEPT ![l] = NoLook]
    /\ UNCHANGED <<clock, label, entry, dropped, left>>

LookupNext ==
    \E l \in Lookups :
        \/ FindCached(l) \/ FindRead(l) \/ SkidCached(l) \/ SkidRead(l)
        \/ FillLabel(l) \/ EntryHit(l) \/ EntryBuild(l) \/ Built(l) \/ LookupEnd(l)

-----------------------------------------------------------------------------
(* Mutations *)

\* A step of a handler, with the times of the changes of the row.  A
\* statement that commits may still fail its request, which then does not
\* invalidate.
Mutate(a) ==
    /\ a \notin dropped
    /\ HandlerNext(a)
    /\ left' = [active |-> IF row.status = "Active" /\ row'.status # "Active" THEN clock ELSE left.active,
                usable |-> IF destroyed' /\ ~destroyed THEN clock ELSE left.usable]
    /\ UNCHANGED <<clock, label, entry, look, dropped>>

\* InvalidateIssuer drops the built issuer, then the resolutions of its label.
DropEntry(a) ==
    /\ req[a].pc = "invalidate"
    /\ a \notin dropped
    /\ entry' = IF a \in Local THEN Nothing ELSE entry
    /\ dropped' = dropped \cup {a}
    /\ UNCHANGED <<lifeVars, clock, label, look, left>>

DropLabel(a) ==
    /\ a \in dropped
    /\ InvalidateIssuer(a)
    /\ label' = IF a \in Local THEN Nothing ELSE label
    /\ dropped' = dropped \ {a}
    /\ UNCHANGED <<clock, entry, look, left>>

Next ==
    \/ Tick /\ UNCHANGED lifeVars
    \/ Evict /\ UNCHANGED lifeVars
    \/ LookupNext /\ UNCHANGED lifeVars
    \/ \E a \in Admins : Mutate(a) \/ DropEntry(a) \/ DropLabel(a)

Spec == Init /\ [][Next]_vars

-----------------------------------------------------------------------------
(* Properties *)

CacheRecord == [row : RowRecord, expires : Nat]
LookRecord ==
    [pc : {"idle", "fill", "entry", "building", "use"}, kind : {"sign", "ocsp"}, row : RowRecord]

TypeOK ==
    /\ LifeTypeOK
    /\ clock \in Nat
    /\ label \in CacheRecord
    /\ entry \in CacheRecord
    /\ look \in [Lookups -> LookRecord]
    /\ dropped \in SUBSET Admins
    /\ left \in [active : Nat, usable : Nat]

\* An issuer that left Active signs for at most the TTL on an instance:
\* Resolve checks the status of a row that was read within the TTL.
SignsWithinTTL ==
    \A l \in Lookups : look[l].pc = "use" /\ look[l].kind = "sign" => clock <= left.active + TTL

\* A destroyed issuer answers for at most twice the TTL on an instance: its
\* wrapped key lives in memory with a built issuer, and that may be built
\* from a resolution cached before.  (A key of a provider may outlive the
\* issuer: its destruction may fail.)
AnswersWithinTwoTTL ==
    \A l \in Lookups : look[l].pc = "use" /\ look[l].row.key \in Wrapped => clock <= left.usable + 2 * TTL

\* A built issuer is replaced in place only by a newer one: the build lock
\* keeps a slow build from an older row from overwriting it.
EntryMovesForward ==
    [][Holds(entry) /\ Holds(entry') /\ entry'.row # entry.row =>
          entry'.row.updatedAt > entry.row.updatedAt]_vars

\* What the comments say of the TTL: it bounds the staleness of the cached
\* issuers, and a change of another instance is visible after it.
AnswersWithinTTL ==
    \A l \in Lookups : look[l].pc = "use" => clock <= left.usable + TTL
=============================================================================
