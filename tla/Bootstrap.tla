------------------------------ MODULE Bootstrap ------------------------------
(***************************************************************************)
(* Registry.Bootstrap: backend instances that start, crash and start again *)
(* mirror the issuers, anchors and profiles of a ca-config into the rows   *)
(* of the platform.  A deployment rolls a new version of the configuration *)
(* out instance by instance.  Every statement, and the transaction of      *)
(* RegisterIssuer, is one step; handlers do not change platform rows.      *)
(***************************************************************************)
EXTENDS Integers, Sequences, FiniteSets

CONSTANTS
    Instances,   \* backend instances
    Order,       \* the issuers of the ca-config in the order of the file
    ParentOf,    \* the issuer of each certificate; itself for a root
    Versions,    \* versions of the ca-config, in the order they are rolled out
    Enabled,     \* issuers a version enables
    Delegated,   \* delegated OCSP profile the settings of each issuer name in a version
    Allowed,     \* AllowedProfiles of the settings of each issuer in a version
    Profiles,    \* profile labels of a version
    IssuerLabel, \* issuer each profile of a version is bound to
    RootBundle,  \* self-signed certificates of the root bundle files
    MaxStarts    \* starts of an instance

Issuers == {Order[k] : k \in 1 .. Len(Order)}
Labels == UNION {Profiles[v] : v \in Versions}
NoProfile == ""          \* settings without a delegated OCSP responder
AnyIssuerLabel == "*"    \* a profile of every issuer that allows it

ASSUME BootstrapAssumption ==
    /\ Instances # {}
    /\ Order \in Seq(Issuers)
    /\ ParentOf \in [Issuers -> Issuers]
    /\ Versions \subseteq Nat \ {0}
    /\ Enabled \in [Versions -> SUBSET Issuers]
    /\ Delegated \in [Versions -> [Issuers -> Labels \cup {NoProfile}]]
    /\ Allowed \in [Versions -> [Issuers -> SUBSET Labels]]
    /\ IssuerLabel \in [Versions -> [Labels -> Issuers \cup {AnyIssuerLabel}]]
    /\ MaxStarts \in Nat

VARIABLES
    row,      \* issuer rows: status, version of the settings, linked to the parent
    anchors,  \* certificates that are trust anchors, those of issuers by the issuer
    profile,  \* version of each profile row; 0 when there is none
    inst,     \* the instances
    overwritten  \* history: instances in whose start one of another version wrote

bootVars == <<row, anchors, profile, inst, overwritten>>

NoRow == [status |-> "None", settings |-> 0, linked |-> FALSE]
Exists(i) == row[i].status # "None"
IsSelfSigned(i) == ParentOf[i] = i

\* An instance that has read nothing yet.  at is the index of the issuer it
\* works on, todo what is left of a loop, seen the row it reads, linked the
\* result of the parent lookup and cached the profiles in its memory.
Process(pc, v, starts, at, todo) ==
    [pc |-> pc, v |-> v, starts |-> starts, at |-> at, todo |-> todo, seen |-> NoRow,
     linked |-> FALSE, cached |-> [p \in Labels |-> 0]]

BootInit ==
    /\ row = [i \in Issuers |-> NoRow]
    /\ anchors = {}
    /\ profile = [p \in Labels |-> 0]
    /\ inst = [n \in Instances |-> Process("down", 0, 0, 1, {})]
    /\ overwritten = {}

\* The issuer n works on, and the step after it.
Current(n) == Order[inst[n].at]
GoTo(n, pc) == inst' = [inst EXCEPT ![n] = Process(pc, @.v, @.starts, @.at, @.todo)]

\* The loop over the issuers at index k, and the profiles after the last one.
IssuerAt(n, k) ==
    inst' = [inst EXCEPT ![n] = IF k <= Len(Order)
                                THEN Process("find", @.v, @.starts, k, {})
                                ELSE Process("profiles", @.v, @.starts, 1, Profiles[@.v])]
NextIssuer(n) == IssuerAt(n, inst[n].at + 1)

-----------------------------------------------------------------------------

\* A process starts with the configuration it has or a later one.
Start(n, v) ==
    /\ inst[n].pc \in {"down", "failed"}
    /\ inst[n].v <= v
    /\ inst[n].starts < MaxStarts
    /\ inst' = [inst EXCEPT ![n] = Process("roots", v, @.starts + 1, 1, RootBundle)]
    /\ UNCHANGED <<row, anchors, profile>>

\* A shutdown, a crash, or a statement that fails and with it the start.
Stop(n) ==
    /\ inst[n].pc \notin {"down", "failed"}
    /\ inst[n].starts < MaxStarts
    /\ inst' = [inst EXCEPT ![n] = Process("down", @.v, @.starts, 1, {})]
    /\ UNCHANGED <<row, anchors, profile>>

\* The anchors of the root bundle files, one statement each.
registerRoots(n) ==
    /\ inst[n].pc = "roots"
    /\ \/ /\ inst[n].todo = {}
          /\ IssuerAt(n, 1)
          /\ UNCHANGED anchors
       \/ \E i \in inst[n].todo :
             /\ anchors' = anchors \cup {i}
             /\ inst' = [inst EXCEPT ![n].todo = @ \ {i}]
    /\ UNCHANGED <<row, profile>>

\* FindIssuer of an enabled issuer: register it, or refresh the row.
FindIssuer(n) ==
    /\ inst[n].pc = "find"
    /\ Current(n) \in Enabled[inst[n].v]
    /\ inst' = [inst EXCEPT ![n].pc = IF Exists(Current(n)) THEN "refresh" ELSE "parent",
                            ![n].seen = row[Current(n)]]
    /\ UNCHANGED <<row, anchors, profile>>

\* Variant: a disabled issuer is archived only.
FindActive(n) ==
    /\ inst[n].pc = "find"
    /\ Current(n) \notin Enabled[inst[n].v]
    /\ row[Current(n)].status = "Active"
    /\ GoTo(n, "archive")
    /\ UNCHANGED <<row, anchors, profile>>

\* archiveIssuer, for a disabled issuer: one that is not registered or not
\* Active is left as it is.
FindDisabled(n) ==
    /\ inst[n].pc = "find"
    /\ Current(n) \notin Enabled[inst[n].v]
    /\ IF row[Current(n)].status = "Active" THEN GoTo(n, "archive") ELSE NextIssuer(n)
    /\ UNCHANGED <<row, anchors, profile>>

archiveIssuer(n) ==
    /\ inst[n].pc = "archive"
    /\ row' = [row EXCEPT ![Current(n)].status = "Archived"]
    /\ NextIssuer(n)
    /\ UNCHANGED <<anchors, profile>>

\* Variant: the parent is looked up for self-signed certificates only.
FindParentOfRoot(n) ==
    LET i == Current(n) IN
    /\ inst[n].pc = "parent"
    /\ inst' = [inst EXCEPT ![n].pc = "insert",
                            ![n].linked = IsSelfSigned(i) /\ Exists(ParentOf[i])]
    /\ UNCHANGED <<row, anchors, profile>>

\* The parent of a certificate that is not self-signed, by its key.
FindParent(n) ==
    LET i == Current(n) IN
    /\ inst[n].pc = "parent"
    /\ inst' = [inst EXCEPT ![n].pc = "insert",
                            ![n].linked = ~IsSelfSigned(i) /\ Exists(ParentOf[i])]
    /\ UNCHANGED <<row, anchors, profile>>

Registered(n) == [status |-> "Active", settings |-> inst[n].v, linked |-> inst[n].linked]
Anchored(n) == IF IsSelfSigned(Current(n)) THEN {Current(n)} ELSE {}

\* Variant of the insert: a unique violation ends the start.
InsertOrFail(n) ==
    /\ inst[n].pc = "insert"
    /\ IF Exists(Current(n))
       THEN GoTo(n, "failed") /\ UNCHANGED <<row, anchors>>
       ELSE /\ NextIssuer(n)
            /\ row' = [row EXCEPT ![Current(n)] = Registered(n)]
            /\ anchors' = anchors \cup Anchored(n)
    /\ UNCHANGED profile

\* RegisterIssuer inserts the row with its anchor in one transaction; a
\* unique violation means another instance was first.
RegisterIssuer(n) ==
    /\ inst[n].pc = "insert"
    /\ IF Exists(Current(n))
       THEN GoTo(n, "refind") /\ UNCHANGED <<row, anchors>>
       ELSE /\ NextIssuer(n)
            /\ row' = [row EXCEPT ![Current(n)] = Registered(n)]
            /\ anchors' = anchors \cup Anchored(n)
    /\ UNCHANGED profile

FindRegistered(n) ==
    /\ inst[n].pc = "refind"
    /\ inst' = [inst EXCEPT ![n].pc = "refresh", ![n].seen = row[Current(n)]]
    /\ UNCHANGED <<row, anchors, profile>>

AfterRefresh(n) == IF IsSelfSigned(Current(n)) THEN GoTo(n, "anchor") ELSE NextIssuer(n)

\* Variant: an issuer that was disabled stays Archived.
RefreshSettings(n) ==
    /\ inst[n].pc = "refresh"
    /\ row' = [row EXCEPT ![Current(n)].settings = inst[n].v]
    /\ AfterRefresh(n)
    /\ UNCHANGED <<anchors, profile>>

\* refreshIssuer writes the columns in which the row it read differs from the
\* configuration: an Archived issuer is enabled, other settings are replaced.
refreshIssuer(n) ==
    LET seen == inst[n].seen IN
    /\ inst[n].pc = "refresh"
    /\ row' = [row EXCEPT ![Current(n)] =
                  [status |-> IF seen.status = "Archived" THEN "Active" ELSE @.status,
                   settings |-> IF seen.settings # inst[n].v THEN inst[n].v ELSE @.settings,
                   linked |-> @.linked]]
    /\ AfterRefresh(n)
    /\ UNCHANGED <<anchors, profile>>

\* The anchor of a root is registered again.
RegisterRoot(n) ==
    /\ inst[n].pc = "anchor"
    /\ anchors' = anchors \cup {Current(n)}
    /\ NextIssuer(n)
    /\ UNCHANGED <<row, profile>>

\* A profile is created, or replaced by its label.
RegisterProfile(n, p) ==
    /\ inst[n].pc = "profiles"
    /\ p \in inst[n].todo
    /\ profile' = [profile EXCEPT ![p] = inst[n].v]
    /\ inst' = [inst EXCEPT ![n] =
                   IF @.todo = {p} THEN Process("load", @.v, @.starts, 1, Enabled[@.v])
                   ELSE Process("profiles", @.v, @.starts, 1, @.todo \ {p})]
    /\ UNCHANGED <<row, anchors>>

\* profileBinds, for profile p as version u defines it and issuer i with the
\* settings of version w.
profileBinds(p, u, i, w) ==
    IF IssuerLabel[u][p] = AnyIssuerLabel THEN p \in Allowed[w][i] ELSE IssuerLabel[u][p] = i

\* Every enabled issuer is loaded, in the order of the file: its row is read.
LoadFind(n, k) ==
    /\ inst[n].pc = "load"
    /\ inst[n].seen = NoRow
    /\ Order[k] \in inst[n].todo
    /\ \A j \in 1 .. k - 1 : Order[j] \notin inst[n].todo
    /\ inst' = [inst EXCEPT ![n].at = k, ![n].todo = @ \ {Order[k]}, ![n].seen = row[Order[k]]]
    /\ UNCHANGED <<row, anchors, profile>>

\* What FindProfile answers: the row in memory until it expires, or the one
\* in the table; 0 when there is none.
FindProfile(n, p) == {profile[p]} \cup ({inst[n].cached[p]} \ {0})

\* build: the delegated OCSP profile that the settings of the row name must be
\* there and bound to the issuer, or the start fails.
LoadBuild(n) ==
    LET i == Current(n)
        w == inst[n].seen.settings
        p == Delegated[w][i]
    IN
    /\ inst[n].pc = "load"
    /\ inst[n].seen # NoRow
    /\ \/ /\ p = NoProfile
          /\ inst' = [inst EXCEPT ![n].seen = NoRow]
       \/ /\ p # NoProfile
          /\ \E u \in FindProfile(n, p) :
                IF u # 0 /\ profileBinds(p, u, i, w)
                THEN inst' = [inst EXCEPT ![n].seen = NoRow, ![n].cached[p] = u]
                ELSE GoTo(n, "failed")
    /\ UNCHANGED <<row, anchors, profile>>

\* The instance serves requests.
Serve(n) ==
    /\ inst[n].pc = "load"
    /\ inst[n].todo = {} /\ inst[n].seen = NoRow
    /\ GoTo(n, "done")
    /\ UNCHANGED <<row, anchors, profile>>

-----------------------------------------------------------------------------

IssuerStep(n) ==
    \/ registerRoots(n)
    \/ FindIssuer(n)
    \/ FindDisabled(n)
    \/ archiveIssuer(n)
    \/ FindParent(n)
    \/ RegisterIssuer(n)
    \/ FindRegistered(n)
    \/ refreshIssuer(n)
    \/ RegisterRoot(n)

Step(n) ==
    \/ \E v \in Versions : Start(n, v)
    \/ IssuerStep(n)
    \/ \E p \in Labels : RegisterProfile(n, p)
    \/ \E k \in 1 .. Len(Order) : LoadFind(n, k)
    \/ LoadBuild(n)
    \/ Serve(n)

\* History: a step of n that changes a row or a profile is noted with every
\* instance whose start has got past the roots and is of another version.
Overwrites(n) ==
    overwritten' =
        {m \in Instances :
            /\ inst'[m].pc \notin {"down", "roots", "done"}
            /\ m \in overwritten \/ (inst[m].v # inst[n].v /\ <<row, profile>>' # <<row, profile>>)}

BootNext == \E n \in Instances : (Step(n) \/ Stop(n)) /\ Overwrites(n)

BootSpec == BootInit /\ [][BootNext]_bootVars

\* The supervisor starts an instance that is down, and a start that runs
\* goes on.
FairBootSpec == BootSpec /\ \A n \in Instances : WF_bootVars(Step(n) /\ Overwrites(n))

-----------------------------------------------------------------------------
(* Properties *)

\* The ca-config lists the parent of i before i, and no version enables i
\* without it.
ParentFirst(i) ==
    /\ \A k \in 1 .. Len(Order) : Order[k] = i => \E j \in 1 .. k - 1 : Order[j] = ParentOf[i]
    /\ \A v \in Versions : i \in Enabled[v] => ParentOf[i] \in Enabled[v]

\* An issuer is never stored half: RegisterIssuer writes a root with its trust
\* anchor in one transaction, also when the process crashes, and an issuer
\* whose parent comes before it in the ca-config is registered with its
\* parent, whichever instance registered which of the two.
StoredWhole ==
    \A i \in Issuers : Exists(i) =>
        IF IsSelfSigned(i) THEN i \in anchors ELSE ParentFirst(i) => row[i].linked

\* Version v binds the delegated OCSP profiles its settings name.
Consistent(v) ==
    \A i \in Enabled[v] : Delegated[v][i] # NoProfile =>
        Delegated[v][i] \in Profiles[v] /\ profileBinds(Delegated[v][i], v, i, v)

\* Instances that start with one configuration do not make each other fail:
\* the loser of an insert goes on with the row of the winner, and an issuer
\* loads with the profile its settings name.  A start fails only when, while
\* it ran, an instance of an earlier or a later version changed a row or a
\* profile.
FailsOnlyWhenOverwritten ==
    \A n \in Instances : inst[n].pc = "failed" /\ Consistent(inst[n].v) => n \in overwritten

\* When the roll-out of v is over, every row is what v says, whatever the
\* instances of the previous version wrote while it went on: each of them
\* reads the rows again when it starts with v.
Settled ==
    \A v \in Versions : (\A n \in Instances : inst[n].v = v /\ inst[n].pc = "done") =>
        /\ \A i \in Enabled[v] : row[i].status = "Active" /\ row[i].settings = v
        /\ \A i \in Issuers \ Enabled[v] : row[i].status # "Active"
        /\ \A p \in Profiles[v] : profile[p] = v

\* Every start ends, and all instances serve in the end but those that failed
\* in every start: no bootstrap waits for another one or undoes what it needs.
BootstrapsFinish ==
    <>[](\A n \in Instances :
            inst[n].pc = "done" \/ (inst[n].pc = "failed" /\ inst[n].starts = MaxStarts))
=============================================================================
