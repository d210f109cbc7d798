--------------------------- MODULE BootstrapProofs ---------------------------
(***************************************************************************)
(* Proofs about Bootstrap for any number of instances and of restarts, any *)
(* list of issuers and any sequence of configurations.                     *)
(***************************************************************************)
EXTENDS Bootstrap, TLAPS

LoopPCs == {"find", "archive", "parent", "insert", "refind", "refresh", "anchor"}
PCs == LoopPCs \cup {"down", "failed", "roots", "profiles", "load", "done"}

RowType == [status : {"None", "Active", "Archived"}, settings : Versions \cup {0}, linked : BOOLEAN]

Todos == SUBSET (Issuers \cup Labels \cup RootBundle)

InstType == [pc : PCs, v : Versions \cup {0}, starts : Nat, at : Nat \ {0}, seen : RowType,
             linked : BOOLEAN, todo : Todos, cached : [Labels -> Versions \cup {0}]]

BootTypeOK ==
    /\ row \in [Issuers -> RowType]
    /\ profile \in [Labels -> Versions \cup {0}]
    /\ inst \in [Instances -> InstType]

\* A row: there is none, or its settings are those of a version.
Written(r) == r = NoRow \/ (r.status # "None" /\ r.settings \in Versions)

\* Where an instance is in its configuration.
Placed(n) ==
    /\ inst[n].pc # "down" => inst[n].v \in Versions
    /\ inst[n].pc \in LoopPCs =>
           /\ inst[n].at \in 1 .. Len(Order)
           /\ Current(n) \in Issuers
    /\ inst[n].pc \in {"parent", "insert", "refind", "refresh", "anchor"} =>
           Current(n) \in Enabled[inst[n].v]
    /\ inst[n].pc = "archive" => Current(n) \notin Enabled[inst[n].v]
    /\ inst[n].pc \in {"archive", "refind", "refresh", "anchor"} => Exists(Current(n))
    /\ inst[n].pc = "load" /\ inst[n].seen # NoRow =>
           Current(n) \in Issuers /\ inst[n].seen.settings \in Versions

\* What the start of an instance has done so far.
Done(n) ==
    /\ inst[n].pc \in LoopPCs =>
           \A j \in 1 .. inst[n].at - 1 : Order[j] \in Enabled[inst[n].v] => Exists(Order[j])
    /\ inst[n].pc = "insert" /\ ~IsSelfSigned(Current(n)) /\ ParentFirst(Current(n)) =>
           inst[n].linked

\* The invariant behind StoredWhole.
BootInv ==
    /\ BootTypeOK
    /\ \A i \in Issuers : Written(row[i])
    /\ \A n \in Instances : Placed(n) /\ Done(n)
    /\ StoredWhole

\* Row i is what v says.
Good(v, i) ==
    IF i \in Enabled[v] THEN row[i].status = "Active" /\ row[i].settings = v
    ELSE row[i].status # "Active"

\* What the start of n has brought to its version is still so.
Fresh(n) ==
    LET v == inst[n].v IN
    /\ inst[n].pc \in LoopPCs => \A j \in 1 .. inst[n].at - 1 : Good(v, Order[j])
    /\ inst[n].pc = "refresh" =>
           /\ inst[n].seen.status = "Archived" \/ row[Current(n)].status = "Active"
           /\ inst[n].seen.settings # v \/ row[Current(n)].settings = v
    /\ inst[n].pc = "anchor" => Good(v, Current(n))
    /\ inst[n].pc \in {"profiles", "load", "done"} => \A i \in Issuers : Good(v, i)
    /\ inst[n].pc = "profiles" => \A p \in Profiles[v] \ inst[n].todo : profile[p] = v
    /\ inst[n].pc \in {"load", "done"} => \A p \in Profiles[v] : profile[p] = v

\* Once the last instance has moved to v, the start of some instance has seen
\* only rows that instances of v changed since.
RolledOut ==
    \A v \in Versions : (\A n \in Instances : inst[n].v = v) => \E n \in Instances : Fresh(n)

\* What the loading of n has read is of its version.
Loads(n) ==
    inst[n].pc = "load" =>
        /\ inst[n].todo \subseteq Enabled[inst[n].v]
        /\ inst[n].seen # NoRow =>
               Current(n) \in Enabled[inst[n].v] /\ inst[n].seen.settings = inst[n].v
        /\ \A p \in Profiles[inst[n].v] : inst[n].cached[p] \in {0, inst[n].v}

\* Rows and profiles that only instances of the version of n have written
\* since its start are what the start needs.
Undisturbed(n) ==
    n \notin overwritten =>
        /\ inst[n].pc # "done" => Fresh(n)
        /\ Loads(n)
        /\ ~(inst[n].pc = "failed" /\ Consistent(inst[n].v))

LEMMA Constants ==
    /\ Len(Order) \in Nat
    /\ Versions \subseteq Nat \ {0}
    /\ \A k \in 1 .. Len(Order) : Order[k] \in Issuers
    /\ \A i \in Issuers : ParentOf[i] \in Issuers
    /\ \A i \in Issuers : \E k \in 1 .. Len(Order) : Order[k] = i
    /\ \A v \in Versions : Enabled[v] \subseteq Issuers /\ Profiles[v] \subseteq Labels
  <1>1. Len(Order) \in Nat /\ Versions \subseteq Nat \ {0}
    BY BootstrapAssumption
  <1>2. /\ \A k \in 1 .. Len(Order) : Order[k] \in Issuers
        /\ \A i \in Issuers : \E k \in 1 .. Len(Order) : Order[k] = i
    BY Zenon DEF Issuers
  <1>3. \A v \in Versions : Profiles[v] \subseteq Labels
    BY Zenon DEF Labels
  <1>4. /\ \A i \in Issuers : ParentOf[i] \in Issuers
        /\ \A v \in Versions : Enabled[v] \subseteq Issuers
    BY BootstrapAssumption, Zenon
  <1> QED
    BY <1>1, <1>2, <1>3, <1>4, Zenon

\* The issuers before index k.
LEMMA Earlier ==
    ASSUME NEW k \in 1 .. Len(Order), NEW j \in 1 .. k - 1
    PROVE  j \in 1 .. Len(Order) /\ Order[j] \in Issuers
  <1>1. Len(Order) \in Nat
    BY Constants, Zenon
  <1>2. j \in 1 .. Len(Order)
    BY <1>1
  <1> QED
    BY <1>2, Constants, Zenon

LEMMA UpTo ==
    ASSUME NEW k \in 1 .. Len(Order), NEW j \in 1 .. (k + 1) - 1, j # k
    PROVE  j \in 1 .. k - 1
  <1>1. Len(Order) \in Nat
    BY Constants, Zenon
  <1> QED
    BY <1>1

LEMMA VersionIsNat == \A v \in Versions \cup {0} : v \in Nat
  BY BootstrapAssumption

LEMMA NoRowType == NoRow \in RowType
  BY Zenon DEF NoRow, RowType

LEMMA ProcessType ==
    ASSUME NEW pc \in PCs, NEW v \in Versions \cup {0}, NEW starts \in Nat, NEW at \in Nat \ {0},
           NEW todo \in Todos
    PROVE  Process(pc, v, starts, at, todo) \in InstType
  BY NoRowType, Zenon DEF Process, InstType

\* A step that leaves the other instances alone, and one that gives n state x.
Alone(n) ==
    /\ inst' \in [Instances -> InstType]
    /\ \A m \in Instances \ {n} : inst'[m] = inst[m]
Moves(n, x) == Alone(n) /\ inst'[n] = x

LEMMA GoToEffect ==
    ASSUME BootTypeOK, NEW n \in Instances, NEW pc \in PCs, GoTo(n, pc)
    PROVE  Moves(n, Process(pc, inst[n].v, inst[n].starts, inst[n].at, inst[n].todo))
  <1>1. inst[n] \in InstType
    BY Zenon DEF BootTypeOK
  <1>2. Process(pc, inst[n].v, inst[n].starts, inst[n].at, inst[n].todo) \in InstType
    BY <1>1, ProcessType, Zenon DEF InstType
  <1> QED
    BY <1>1, <1>2, Zenon DEF GoTo, BootTypeOK, Moves, Alone

LEMMA IssuerAtEffect ==
    ASSUME BootTypeOK, NEW n \in Instances, NEW k \in Nat \ {0}, inst[n].v \in Versions, IssuerAt(n, k)
    PROVE  Moves(n, IF k <= Len(Order)
                    THEN Process("find", inst[n].v, inst[n].starts, k, {})
                    ELSE Process("profiles", inst[n].v, inst[n].starts, 1, Profiles[inst[n].v]))
  <1>1. inst[n] \in InstType
    BY Zenon DEF BootTypeOK
  <1>2. Profiles[inst[n].v] \in Todos /\ {} \in Todos /\ "find" \in PCs /\ "profiles" \in PCs
    BY Constants, Zenon DEF Todos, PCs, LoopPCs
  <1>3. /\ Process("find", inst[n].v, inst[n].starts, k, {}) \in InstType
        /\ Process("profiles", inst[n].v, inst[n].starts, 1, Profiles[inst[n].v]) \in InstType
    BY <1>1, <1>2, ProcessType DEF InstType
  <1> QED
    BY <1>1, <1>3, Zenon DEF IssuerAt, BootTypeOK, Moves, Alone

-----------------------------------------------------------------------------
(* What each step does to the instance that takes it *)

\* n is at pc with its version, and the row it works on is the same.
Stays(n, pc) ==
    /\ Alone(n)
    /\ inst'[n].pc = pc
    /\ inst'[n].v = inst[n].v
    /\ inst'[n].at = inst[n].at

LEMMA StartEffect ==
    ASSUME BootTypeOK, NEW n \in Instances, NEW v \in Versions, Start(n, v)
    PROVE  /\ Alone(n) /\ inst'[n].pc = "roots" /\ inst'[n].v = v /\ inst[n].v <= v
           /\ inst'[n].seen = NoRow
           /\ UNCHANGED <<row, anchors, profile>>
  <1>1. inst[n] \in InstType
    BY Zenon DEF BootTypeOK
  <1>2. "roots" \in PCs /\ RootBundle \in Todos /\ inst[n].starts + 1 \in Nat
    BY <1>1 DEF PCs, Todos, InstType
  <1>3. Process("roots", v, inst[n].starts + 1, 1, RootBundle) \in InstType
    BY <1>2, ProcessType
  <1>4. Moves(n, Process("roots", v, inst[n].starts + 1, 1, RootBundle))
    BY <1>1, <1>3, Zenon DEF Start, BootTypeOK, Moves, Alone
  <1> QED
    BY <1>4 DEF Start, Moves, Process

LEMMA StopEffect ==
    ASSUME BootTypeOK, NEW n \in Instances, Stop(n)
    PROVE  /\ Alone(n) /\ inst'[n].pc = "down" /\ inst'[n].v = inst[n].v
           /\ inst'[n].seen = NoRow
           /\ UNCHANGED <<row, anchors, profile>>
  <1>1. inst[n] \in InstType
    BY Zenon DEF BootTypeOK
  <1>2. "down" \in PCs /\ {} \in Todos
    BY Zenon DEF PCs, Todos
  <1>3. Process("down", inst[n].v, inst[n].starts, 1, {}) \in InstType
    <2>1. 1 \in Nat \ {0}
      OBVIOUS
    <2>2. inst[n].v \in Versions \cup {0} /\ inst[n].starts \in Nat
      BY <1>1, Zenon DEF InstType
    <2> QED
      BY <1>2, <2>1, <2>2, ProcessType, Zenon
  <1>4. Moves(n, Process("down", inst[n].v, inst[n].starts, 1, {}))
    BY <1>1, <1>3, Zenon DEF Stop, BootTypeOK, Moves, Alone
  <1> QED
    BY <1>4 DEF Stop, Moves, Process

\* n goes on to issuer k, or to the profiles.
Enters(n, k) ==
    /\ Alone(n)
    /\ inst'[n].v = inst[n].v
    /\ inst'[n].seen = NoRow
    /\ \/ k <= Len(Order) /\ inst'[n].pc = "find" /\ inst'[n].at = k
       \/ ~(k <= Len(Order)) /\ inst'[n].pc = "profiles" /\ inst'[n].todo = Profiles[inst[n].v]

LEMMA EntersEffect ==
    ASSUME BootTypeOK, NEW n \in Instances, NEW k \in Nat \ {0}, inst[n].v \in Versions, IssuerAt(n, k)
    PROVE  Enters(n, k)
  <1>1. Moves(n, IF k <= Len(Order)
                 THEN Process("find", inst[n].v, inst[n].starts, k, {})
                 ELSE Process("profiles", inst[n].v, inst[n].starts, 1, Profiles[inst[n].v]))
    BY IssuerAtEffect, Zenon
  <1> QED
    BY <1>1 DEF Enters, Moves, Process

LEMMA StaysEffect ==
    ASSUME BootTypeOK, NEW n \in Instances, NEW pc \in PCs, GoTo(n, pc)
    PROVE  Stays(n, pc) /\ inst'[n].seen = NoRow /\ inst'[n].todo = inst[n].todo
  <1>1. Moves(n, Process(pc, inst[n].v, inst[n].starts, inst[n].at, inst[n].todo))
    BY GoToEffect, Zenon
  <1> QED
    BY <1>1 DEF Stays, Moves, Process

LEMMA registerRootsEffect ==
    ASSUME BootTypeOK, NEW n \in Instances, inst[n].v \in Versions, registerRoots(n)
    PROVE  /\ \/ Enters(n, 1)
              \/ Stays(n, "roots") /\ inst'[n].seen = inst[n].seen
           /\ anchors \subseteq anchors' /\ UNCHANGED <<row, profile>>
  <1>1. CASE IssuerAt(n, 1) /\ UNCHANGED anchors
    BY <1>1, EntersEffect DEF registerRoots
  <1>2. ASSUME NEW i \in inst[n].todo,
               anchors' = anchors \cup {i}, inst' = [inst EXCEPT ![n].todo = @ \ {i}]
        PROVE  Stays(n, "roots") /\ inst'[n].seen = inst[n].seen /\ anchors \subseteq anchors'
    <2>1. inst[n].pc = "roots" /\ inst[n] \in InstType
      BY Zenon DEF registerRoots, BootTypeOK
    <2>2. inst[n].todo \ {i} \in Todos
      BY <2>1, Zenon DEF InstType, Todos
    <2>3. [inst[n] EXCEPT !.todo = @ \ {i}] \in InstType
      BY <2>1, <2>2, Zenon DEF InstType
    <2> QED
      BY <1>2, <2>1, <2>3, Zenon DEF Stays, Alone, BootTypeOK, InstType
  <1> QED
    BY <1>1, <1>2, Zenon DEF registerRoots

LEMMA FindIssuerEffect ==
    ASSUME BootTypeOK, NEW n \in Instances, Current(n) \in Issuers, FindIssuer(n)
    PROVE  /\ Stays(n, IF Exists(Current(n)) THEN "refresh" ELSE "parent")
           /\ inst'[n].seen = row[Current(n)]
           /\ UNCHANGED <<row, anchors, profile>>
  <1>1. inst[n] \in InstType /\ row[Current(n)] \in RowType
    BY Zenon DEF BootTypeOK
  <1>2. PICK pc \in PCs : pc = IF Exists(Current(n)) THEN "refresh" ELSE "parent"
    BY Zenon DEF PCs, LoopPCs
  <1>3. [inst[n] EXCEPT !.pc = pc, !.seen = row[Current(n)]] \in InstType
    BY <1>1, <1>2, Zenon DEF InstType
  <1>4. inst' = [inst EXCEPT ![n] = [@ EXCEPT !.pc = pc, !.seen = row[Current(n)]]]
    BY <1>1, <1>2, Zenon DEF FindIssuer
  <1> QED
    BY <1>1, <1>2, <1>3, <1>4 DEF FindIssuer, Stays, Alone, BootTypeOK, InstType

LEMMA FindDisabledEffect ==
    ASSUME BootTypeOK, NEW n \in Instances, inst[n].v \in Versions, FindDisabled(n)
    PROVE  /\ \/ /\ row[Current(n)].status = "Active"
                 /\ Stays(n, "archive") /\ inst'[n].seen = NoRow
              \/ row[Current(n)].status # "Active" /\ Enters(n, inst[n].at + 1)
           /\ UNCHANGED <<row, anchors, profile>>
  <1>1. inst[n].at + 1 \in Nat \ {0} /\ "archive" \in PCs
    BY DEF BootTypeOK, InstType, PCs, LoopPCs
  <1>2. CASE row[Current(n)].status = "Active" /\ GoTo(n, "archive")
    BY <1>1, <1>2, StaysEffect, Zenon DEF FindDisabled
  <1>3. CASE row[Current(n)].status # "Active" /\ IssuerAt(n, inst[n].at + 1)
    BY <1>1, <1>3, EntersEffect, Zenon DEF FindDisabled
  <1> QED
    BY <1>2, <1>3, Zenon DEF FindDisabled, NextIssuer

LEMMA archiveIssuerEffect ==
    ASSUME BootTypeOK, NEW n \in Instances, inst[n].v \in Versions, archiveIssuer(n)
    PROVE  /\ Enters(n, inst[n].at + 1)
           /\ row' = [row EXCEPT ![Current(n)].status = "Archived"]
           /\ UNCHANGED <<anchors, profile>>
  <1>1. inst[n].at + 1 \in Nat \ {0}
    BY DEF BootTypeOK, InstType
  <1> QED
    BY <1>1, EntersEffect, Zenon DEF archiveIssuer, NextIssuer

LEMMA FindParentEffect ==
    ASSUME BootTypeOK, NEW n \in Instances, FindParent(n)
    PROVE  /\ Stays(n, "insert") /\ inst'[n].seen = inst[n].seen
           /\ inst'[n].linked = (~IsSelfSigned(Current(n)) /\ Exists(ParentOf[Current(n)]))
           /\ UNCHANGED <<row, anchors, profile>>
  <1>1. inst[n] \in InstType /\ "insert" \in PCs
    BY Zenon DEF BootTypeOK, PCs, LoopPCs
  <1>2. PICK b \in BOOLEAN : b = (~IsSelfSigned(Current(n)) /\ Exists(ParentOf[Current(n)]))
    BY Zenon DEF IsSelfSigned, Exists
  <1>3. [inst[n] EXCEPT !.pc = "insert", !.linked = b] \in InstType
    BY <1>1, Zenon DEF InstType
  <1>4. inst' = [inst EXCEPT ![n] = [@ EXCEPT !.pc = "insert", !.linked = b]]
    BY <1>1, <1>2, Zenon DEF FindParent
  <1> QED
    BY <1>1, <1>2, <1>3, <1>4 DEF FindParent, Stays, Alone, BootTypeOK, InstType

LEMMA RegisterIssuerEffect ==
    ASSUME BootTypeOK, NEW n \in Instances, inst[n].v \in Versions, RegisterIssuer(n)
    PROVE  /\ \/ /\ Exists(Current(n))
                 /\ Stays(n, "refind") /\ inst'[n].seen = NoRow
                 /\ UNCHANGED <<row, anchors>>
              \/ /\ ~Exists(Current(n))
                 /\ Enters(n, inst[n].at + 1)
                 /\ row' = [row EXCEPT ![Current(n)] = Registered(n)]
                 /\ anchors' = anchors \cup Anchored(n)
           /\ UNCHANGED profile
  <1>1. inst[n].at + 1 \in Nat \ {0} /\ "refind" \in PCs
    BY DEF BootTypeOK, InstType, PCs, LoopPCs
  <1>2. CASE Exists(Current(n)) /\ GoTo(n, "refind")
    BY <1>1, <1>2, StaysEffect, Zenon DEF RegisterIssuer
  <1>3. CASE ~Exists(Current(n)) /\ IssuerAt(n, inst[n].at + 1)
    BY <1>1, <1>3, EntersEffect, Zenon DEF RegisterIssuer
  <1> QED
    BY <1>2, <1>3, Zenon DEF RegisterIssuer, NextIssuer

LEMMA FindRegisteredEffect ==
    ASSUME BootTypeOK, NEW n \in Instances, Current(n) \in Issuers, FindRegistered(n)
    PROVE  /\ Stays(n, "refresh") /\ inst'[n].seen = row[Current(n)]
           /\ UNCHANGED <<row, anchors, profile>>
  <1>1. inst[n] \in InstType /\ row[Current(n)] \in RowType /\ "refresh" \in PCs
    BY Zenon DEF BootTypeOK, PCs, LoopPCs
  <1>2. [inst[n] EXCEPT !.pc = "refresh", !.seen = row[Current(n)]] \in InstType
    BY <1>1, Zenon DEF InstType
  <1>3. inst' = [inst EXCEPT ![n] = [@ EXCEPT !.pc = "refresh", !.seen = row[Current(n)]]]
    BY <1>1, Zenon DEF FindRegistered
  <1> QED
    BY <1>1, <1>2, <1>3 DEF FindRegistered, Stays, Alone, BootTypeOK, InstType

LEMMA AfterRefreshEffect ==
    ASSUME BootTypeOK, NEW n \in Instances, inst[n].v \in Versions, AfterRefresh(n)
    PROVE  \/ Stays(n, "anchor") /\ inst'[n].seen = NoRow
           \/ Enters(n, inst[n].at + 1)
  <1>1. inst[n].at + 1 \in Nat \ {0} /\ "anchor" \in PCs
    BY DEF BootTypeOK, InstType, PCs, LoopPCs
  <1>2. CASE GoTo(n, "anchor")
    BY <1>1, <1>2, StaysEffect, Zenon
  <1>3. CASE IssuerAt(n, inst[n].at + 1)
    BY <1>1, <1>3, EntersEffect, Zenon
  <1> QED
    BY <1>2, <1>3, Zenon DEF AfterRefresh, NextIssuer

\* The row that refreshIssuer of n leaves.
RefreshedRow(n) ==
    [status |-> IF inst[n].seen.status = "Archived" THEN "Active" ELSE row[Current(n)].status,
     settings |-> IF inst[n].seen.settings # inst[n].v THEN inst[n].v ELSE row[Current(n)].settings,
     linked |-> row[Current(n)].linked]

LEMMA refreshIssuerEffect ==
    ASSUME BootTypeOK, NEW n \in Instances, inst[n].v \in Versions, Current(n) \in Issuers,
           refreshIssuer(n)
    PROVE  /\ \/ Stays(n, "anchor") /\ inst'[n].seen = NoRow
              \/ Enters(n, inst[n].at + 1)
           /\ row' = [row EXCEPT ![Current(n)] = RefreshedRow(n)]
           /\ UNCHANGED <<anchors, profile>>
  <1>1. row' = [row EXCEPT ![Current(n)] = RefreshedRow(n)]
    BY Zenon DEF refreshIssuer, RefreshedRow, BootTypeOK
  <1> QED
    BY <1>1, AfterRefreshEffect, Zenon DEF refreshIssuer

LEMMA RegisterRootEffect ==
    ASSUME BootTypeOK, NEW n \in Instances, inst[n].v \in Versions, RegisterRoot(n)
    PROVE  /\ Enters(n, inst[n].at + 1)
           /\ anchors \subseteq anchors' /\ UNCHANGED <<row, profile>>
  <1>1. inst[n].at + 1 \in Nat \ {0}
    BY DEF BootTypeOK, InstType
  <1> QED
    BY <1>1, EntersEffect, Zenon DEF RegisterRoot, NextIssuer

LEMMA RegisterProfileEffect ==
    ASSUME BootTypeOK, NEW n \in Instances, inst[n].v \in Versions, NEW p \in Labels,
           RegisterProfile(n, p)
    PROVE  /\ Alone(n) /\ inst'[n].v = inst[n].v /\ inst'[n].seen = NoRow
           /\ \/ /\ inst[n].todo = {p} /\ inst'[n].pc = "load" /\ inst'[n].todo = Enabled[inst[n].v]
                 /\ inst'[n].cached = [q \in Labels |-> 0]
              \/ inst[n].todo # {p} /\ inst'[n].pc = "profiles" /\ inst'[n].todo = inst[n].todo \ {p}
           /\ profile' = [profile EXCEPT ![p] = inst[n].v] /\ UNCHANGED <<row, anchors>>
  <1>1. inst[n] \in InstType /\ "load" \in PCs /\ "profiles" \in PCs
    BY Zenon DEF BootTypeOK, PCs
  <1>2. Enabled[inst[n].v] \in Todos /\ inst[n].todo \ {p} \in Todos
    BY <1>1, Constants, Zenon DEF Todos, InstType
  <1>3. /\ Process("load", inst[n].v, inst[n].starts, 1, Enabled[inst[n].v]) \in InstType
        /\ Process("profiles", inst[n].v, inst[n].starts, 1, inst[n].todo \ {p}) \in InstType
    <2>1. 1 \in Nat \ {0}
      OBVIOUS
    <2>2. inst[n].v \in Versions \cup {0} /\ inst[n].starts \in Nat
      BY <1>1, Zenon DEF InstType
    <2> QED
      BY <1>1, <1>2, <2>1, <2>2, ProcessType, Zenon
  <1>4. CASE inst[n].todo = {p}
    <2>1. Moves(n, Process("load", inst[n].v, inst[n].starts, 1, Enabled[inst[n].v]))
      BY <1>3, <1>4, Zenon DEF RegisterProfile, BootTypeOK, Moves, Alone
    <2> QED
      BY <1>4, <2>1 DEF RegisterProfile, Moves, Process
  <1>5. CASE inst[n].todo # {p}
    <2>1. Moves(n, Process("profiles", inst[n].v, inst[n].starts, 1, inst[n].todo \ {p}))
      BY <1>3, <1>5, Zenon DEF RegisterProfile, BootTypeOK, Moves, Alone
    <2> QED
      BY <1>5, <2>1 DEF RegisterProfile, Moves, Process
  <1> QED
    BY <1>4, <1>5, Zenon

LEMMA LoadFindEffect ==
    ASSUME BootTypeOK, NEW n \in Instances, NEW k \in 1 .. Len(Order), LoadFind(n, k)
    PROVE  /\ Alone(n) /\ inst'[n].pc = "load" /\ inst'[n].v = inst[n].v /\ inst'[n].at = k
           /\ inst'[n].seen = row[Order[k]] /\ inst'[n].todo = inst[n].todo \ {Order[k]}
           /\ inst'[n].cached = inst[n].cached
           /\ UNCHANGED <<row, anchors, profile>>
  <1>1. Order[k] \in Issuers /\ k \in Nat \ {0}
    BY Constants
  <1>2. inst[n] \in InstType /\ row[Order[k]] \in RowType
    BY <1>1, Zenon DEF BootTypeOK
  <1>3. inst[n].todo \ {Order[k]} \in Todos
    BY <1>2, Zenon DEF InstType, Todos
  <1>4. PICK x \in InstType : x = [inst[n] EXCEPT !.at = k, !.todo = @ \ {Order[k]},
                                                  !.seen = row[Order[k]]]
    BY <1>1, <1>2, <1>3 DEF InstType
  <1>5. /\ x.pc = "load" /\ x.v = inst[n].v /\ x.at = k /\ x.seen = row[Order[k]]
        /\ x.todo = inst[n].todo \ {Order[k]} /\ x.cached = inst[n].cached
    BY <1>2, <1>4 DEF LoadFind, InstType
  <1>6. inst' = [inst EXCEPT ![n] = x]
    BY <1>2, <1>4, Zenon DEF LoadFind, BootTypeOK
  <1>7. UNCHANGED <<row, anchors, profile>>
    BY Zenon DEF LoadFind
  <1> QED
    BY <1>5, <1>6, <1>7, Zenon DEF Alone, BootTypeOK

\* The profile that build finds for the issuer it works on.
BuildProfile(n) == Delegated[inst[n].seen.settings][Current(n)]

LEMMA LoadBuildEffect ==
    ASSUME BootTypeOK, NEW n \in Instances, LoadBuild(n),
           BuildProfile(n) # NoProfile => BuildProfile(n) \in Labels
    PROVE  /\ inst'[n].seen = NoRow
           /\ \/ Stays(n, "load") /\ inst'[n].todo = inst[n].todo /\ inst'[n].cached = inst[n].cached
              \/ /\ BuildProfile(n) # NoProfile
                 /\ \E u \in FindProfile(n, BuildProfile(n)) :
                       \/ /\ Stays(n, "load") /\ inst'[n].todo = inst[n].todo
                          /\ inst'[n].cached = [inst[n].cached EXCEPT ![BuildProfile(n)] = u]
                       \/ /\ ~(u # 0 /\ profileBinds(BuildProfile(n), u, Current(n), inst[n].seen.settings))
                          /\ Stays(n, "failed")
           /\ UNCHANGED <<row, anchors, profile>>
  <1>1. "failed" \in PCs /\ "load" \in PCs /\ inst[n] \in InstType /\ inst[n].pc = "load"
    BY Zenon DEF PCs, BootTypeOK, LoadBuild
  <1>2. ASSUME NEW c \in [Labels -> Versions \cup {0}],
               inst' = [inst EXCEPT ![n] = [@ EXCEPT !.seen = NoRow, !.cached = c]]
        PROVE  /\ Stays(n, "load") /\ inst'[n].todo = inst[n].todo /\ inst'[n].cached = c
               /\ inst'[n].seen = NoRow
    <2>1. PICK x \in InstType : x = [inst[n] EXCEPT !.seen = NoRow, !.cached = c]
      BY <1>1, <1>2, NoRowType, Zenon DEF InstType
    <2>2. /\ x.pc = "load" /\ x.v = inst[n].v /\ x.at = inst[n].at /\ x.todo = inst[n].todo
          /\ x.cached = c /\ x.seen = NoRow
      BY <1>1, <2>1 DEF InstType
    <2>3. inst' = [inst EXCEPT ![n] = x]
      BY <1>2, <2>1, Zenon DEF BootTypeOK
    <2> QED
      BY <2>2, <2>3, Zenon DEF Stays, Alone, BootTypeOK
  <1>3. CASE inst' = [inst EXCEPT ![n].seen = NoRow]
    <2>1. PICK c \in [Labels -> Versions \cup {0}] : c = inst[n].cached
      BY <1>1, Zenon DEF InstType
    <2>2. [inst[n] EXCEPT !.seen = NoRow] = [inst[n] EXCEPT !.seen = NoRow, !.cached = c]
      BY <1>1, <2>1 DEF InstType
    <2>3. inst' = [inst EXCEPT ![n] = [@ EXCEPT !.seen = NoRow, !.cached = c]]
      BY <1>3, <2>2, Zenon DEF BootTypeOK
    <2> QED
      BY <1>2, <2>1, <2>3, Zenon DEF LoadBuild
  <1>4. ASSUME BuildProfile(n) # NoProfile, NEW u \in FindProfile(n, BuildProfile(n)),
               inst' = [inst EXCEPT ![n].seen = NoRow, ![n].cached[BuildProfile(n)] = u]
        PROVE  /\ Stays(n, "load") /\ inst'[n].todo = inst[n].todo /\ inst'[n].seen = NoRow
               /\ inst'[n].cached = [inst[n].cached EXCEPT ![BuildProfile(n)] = u]
    <2>1. BuildProfile(n) \in Labels /\ inst[n].cached \in [Labels -> Versions \cup {0}]
      BY <1>1, <1>4, Zenon DEF InstType
    <2>2. u \in Versions \cup {0}
      BY <1>4, <2>1, Zenon DEF FindProfile, BootTypeOK
    <2>3. PICK c \in [Labels -> Versions \cup {0}] : c = [inst[n].cached EXCEPT ![BuildProfile(n)] = u]
      BY <2>1, <2>2, Zenon
    <2>4. inst' = [inst EXCEPT ![n] = [@ EXCEPT !.seen = NoRow, !.cached = c]]
      BY <1>1, <1>4, <2>3, Zenon DEF BootTypeOK, InstType
    <2> QED
      BY <1>2, <2>3, <2>4, Zenon
  <1>5. ASSUME GoTo(n, "failed")
        PROVE  Stays(n, "failed") /\ inst'[n].seen = NoRow
    BY <1>1, <1>5, StaysEffect, Zenon
  <1> QED
    BY <1>3, <1>4, <1>5, Zenon DEF LoadBuild, BuildProfile

LEMMA ServeEffect ==
    ASSUME BootTypeOK, NEW n \in Instances, Serve(n)
    PROVE  /\ Stays(n, "done") /\ inst'[n].seen = NoRow
           /\ UNCHANGED <<row, anchors, profile>>
  <1>1. "done" \in PCs
    BY Zenon DEF PCs
  <1> QED
    BY <1>1, StaysEffect, Zenon DEF Serve

\* The row an issuer is built from names a profile that there is a label for.
LEMMA BuildsWritten ==
    ASSUME NEW n \in Instances, Placed(n), LoadBuild(n)
    PROVE  BuildProfile(n) # NoProfile => BuildProfile(n) \in Labels
  <1>1. PICK w \in Versions, i \in Issuers : w = inst[n].seen.settings /\ i = Current(n)
    BY Zenon DEF Placed, LoadBuild
  <1>2. Delegated[w][i] \in Labels \cup {NoProfile}
    <2>1. Delegated[w] \in [Issuers -> Labels \cup {NoProfile}]
      BY BootstrapAssumption, Zenon
    <2> QED
      BY <2>1, Zenon
  <1> QED
    BY <1>1, <1>2, Zenon DEF BuildProfile

-----------------------------------------------------------------------------
(* The tables *)

\* What a step of n may do to issuer i: nothing, or write settings of its own
\* version or leave them, never unlink it, and register it whole.
RowStep(n, i) ==
    \/ row'[i] = row[i]
    \/ /\ row'[i].status # "None"
       /\ row'[i].settings \in Versions
       /\ row'[i].settings \in {row[i].settings, inst[n].v}
       /\ IF Exists(i) THEN row'[i].linked = row[i].linked
          ELSE IF IsSelfSigned(i) THEN i \in anchors' ELSE ParentFirst(i) => row'[i].linked

TableStep(n) ==
    /\ Alone(n)
    /\ inst[n].v <= inst'[n].v
    /\ inst'[n].v # inst[n].v => inst'[n].pc = "roots"
    /\ row' \in [Issuers -> RowType]
    /\ \A i \in Issuers : RowStep(n, i)
    /\ anchors \subseteq anchors'
    /\ profile' \in [Labels -> Versions \cup {0}]
    /\ \A p \in Labels : profile'[p] = profile[p] \/ (profile'[p] = inst[n].v /\ profile'[p] # 0)

LEMMA TableStepHolds ==
    ASSUME BootInv, NEW n \in Instances, Step(n) \/ Stop(n)
    PROVE  TableStep(n)
  <1>0. /\ BootTypeOK /\ Placed(n) /\ Done(n) /\ inst[n] \in InstType
        /\ \A i \in Issuers : Written(row[i])
    BY Zenon DEF BootInv, BootTypeOK
  <1>0a. inst[n].v \in Nat
    BY <1>0, VersionIsNat, Zenon DEF InstType
  <1>1. inst[n].pc # "down" => inst[n].v \in Versions /\ inst[n].v \in Nat \ {0}
    BY <1>0, Constants, Zenon DEF Placed
  <1>2. ASSUME Alone(n), inst[n].v <= inst'[n].v, UNCHANGED <<row, profile>>, anchors \subseteq anchors',
               inst'[n].v # inst[n].v => inst'[n].pc = "roots"
        PROVE  TableStep(n)
    <2>1. \A i \in Issuers : RowStep(n, i)
      BY <1>2, Zenon DEF RowStep
    <2>2. /\ row' \in [Issuers -> RowType] /\ profile' \in [Labels -> Versions \cup {0}]
          /\ \A p \in Labels : profile'[p] = profile[p]
      BY <1>0, <1>2, Zenon DEF BootTypeOK
    <2> QED
      BY <1>2, <2>1, <2>2, Zenon DEF TableStep
  <1>3. ASSUME Alone(n), inst'[n].v = inst[n].v, UNCHANGED profile, anchors \subseteq anchors',
               NEW r \in RowType, row' = [row EXCEPT ![Current(n)] = r], Current(n) \in Issuers,
               r.status # "None", r.settings \in Versions,
               r.settings \in {row[Current(n)].settings, inst[n].v},
               IF Exists(Current(n)) THEN r.linked = row[Current(n)].linked
               ELSE IF IsSelfSigned(Current(n)) THEN Current(n) \in anchors'
                    ELSE ParentFirst(Current(n)) => r.linked
        PROVE  TableStep(n)
    <2>1. row' \in [Issuers -> RowType]
      BY <1>0, <1>3, Zenon DEF BootTypeOK
    <2>2. \A i \in Issuers : RowStep(n, i)
      BY <1>0, <1>3, Zenon DEF RowStep, BootTypeOK
    <2>3. inst[n].v <= inst'[n].v
      BY <1>0a, <1>3
    <2>4. profile' \in [Labels -> Versions \cup {0}] /\ \A p \in Labels : profile'[p] = profile[p]
      BY <1>0, <1>3, Zenon DEF BootTypeOK
    <2> QED
      BY <1>3, <2>1, <2>2, <2>3, <2>4, Zenon DEF TableStep
  <1>4. inst[n].v <= inst[n].v
    BY <1>0a
  <1>5. ASSUME Alone(n), inst'[n].v = inst[n].v, UNCHANGED <<row, profile>>, anchors \subseteq anchors'
        PROVE  TableStep(n)
    BY <1>2, <1>4, <1>5, Zenon
  <1>6. inst[n].pc \in LoopPCs => Current(n) \in Issuers
    BY <1>0, Zenon DEF Placed
  <1>7. ASSUME NEW v \in Versions, Start(n, v)
        PROVE  TableStep(n)
    BY <1>0, <1>2, <1>7, StartEffect, Zenon
  <1>8. CASE Stop(n)
    BY <1>0, <1>5, <1>8, StopEffect, Zenon
  <1>9. CASE registerRoots(n)
    <2>1. inst[n].v \in Versions
      BY <1>1, <1>9, Zenon DEF registerRoots
    <2> QED
      BY <1>0, <1>5, <1>9, <2>1, registerRootsEffect, Zenon DEF Stays, Enters
  <1>10. CASE FindIssuer(n)
    <2>1. Current(n) \in Issuers
      BY <1>6, <1>10, Zenon DEF FindIssuer, LoopPCs
    <2> QED
      BY <1>0, <1>5, <1>10, <2>1, FindIssuerEffect, Zenon DEF Stays
  <1>11. CASE FindDisabled(n)
    <2>1. inst[n].v \in Versions
      BY <1>1, <1>11, Zenon DEF FindDisabled
    <2> QED
      BY <1>0, <1>5, <1>11, <2>1, FindDisabledEffect, Zenon DEF Stays, Enters
  <1>12. CASE archiveIssuer(n)
    <2>1. inst[n].pc = "archive" /\ inst[n].v \in Versions /\ Current(n) \in Issuers /\ Exists(Current(n))
      BY <1>0, <1>1, <1>6, <1>12, Zenon DEF archiveIssuer, LoopPCs, Placed
    <2>2. /\ Enters(n, inst[n].at + 1) /\ row' = [row EXCEPT ![Current(n)].status = "Archived"]
          /\ UNCHANGED <<anchors, profile>>
      BY <1>0, <1>12, <2>1, archiveIssuerEffect, Zenon
    <2>3. row[Current(n)] \in RowType /\ row[Current(n)].settings \in Versions
      BY <1>0, <2>1 DEF Written, Exists, NoRow, BootTypeOK
    <2>4. PICK r \in RowType : r = [row[Current(n)] EXCEPT !.status = "Archived"]
      BY <2>3, Zenon DEF RowType
    <2>5. r.status # "None" /\ r.settings = row[Current(n)].settings /\ r.linked = row[Current(n)].linked
      BY <2>3, <2>4, Zenon DEF RowType
    <2>6. row' = [row EXCEPT ![Current(n)] = r]
      BY <2>2, <2>4, Zenon
    <2> QED
      BY <1>3, <2>1, <2>2, <2>3, <2>5, <2>6, Zenon DEF Enters
  <1>13. CASE FindParent(n)
    BY <1>0, <1>5, <1>13, FindParentEffect, Zenon DEF Stays
  <1>14. CASE RegisterIssuer(n)
    <2>1. inst[n].pc = "insert" /\ inst[n].v \in Versions /\ Current(n) \in Issuers
      BY <1>1, <1>6, <1>14, Zenon DEF RegisterIssuer, LoopPCs
    <2>2. CASE Stays(n, "refind") /\ UNCHANGED <<row, anchors, profile>>
      BY <1>5, <2>2, Zenon DEF Stays
    <2>3. CASE /\ ~Exists(Current(n)) /\ Enters(n, inst[n].at + 1)
               /\ row' = [row EXCEPT ![Current(n)] = Registered(n)]
               /\ anchors' = anchors \cup Anchored(n) /\ UNCHANGED profile
      <3>1. PICK r \in RowType : r = Registered(n)
        BY <1>0, <2>1, Zenon DEF Registered, RowType, InstType
      <3>2. r.status = "Active" /\ r.settings = inst[n].v /\ r.linked = inst[n].linked
        BY <3>1, Zenon DEF Registered
      <3>3. ~IsSelfSigned(Current(n)) /\ ParentFirst(Current(n)) => inst[n].linked
        BY <1>0, <2>1, Zenon DEF Done
      <3>4. IsSelfSigned(Current(n)) => Current(n) \in anchors'
        BY <2>3, Zenon DEF Anchored
      <3>5. anchors \subseteq anchors'
        BY <2>3, Zenon
      <3> QED
        BY <1>3, <2>1, <2>3, <3>1, <3>2, <3>3, <3>4, <3>5, Zenon DEF Enters
    <2> QED
      BY <1>0, <1>14, <2>1, <2>2, <2>3, RegisterIssuerEffect, Zenon
  <1>15. CASE FindRegistered(n)
    <2>1. Current(n) \in Issuers
      BY <1>6, <1>15, Zenon DEF FindRegistered, LoopPCs
    <2> QED
      BY <1>0, <1>5, <1>15, <2>1, FindRegisteredEffect, Zenon DEF Stays
  <1>16. CASE refreshIssuer(n)
    <2>1. inst[n].pc = "refresh" /\ inst[n].v \in Versions /\ Current(n) \in Issuers /\ Exists(Current(n))
      BY <1>0, <1>1, <1>6, <1>16, Zenon DEF refreshIssuer, LoopPCs, Placed
    <2>2. /\ Alone(n) /\ inst'[n].v = inst[n].v
          /\ row' = [row EXCEPT ![Current(n)] = RefreshedRow(n)]
          /\ UNCHANGED <<anchors, profile>>
      BY <1>0, <1>16, <2>1, refreshIssuerEffect, Zenon DEF Stays, Enters
    <2>3. row[Current(n)] \in RowType /\ row[Current(n)].settings \in Versions
      BY <1>0, <2>1 DEF Written, Exists, NoRow, BootTypeOK
    <2>4. PICK r \in RowType : r = RefreshedRow(n)
      BY <1>0, <2>1, <2>3, Zenon DEF RefreshedRow, RowType, InstType
    <2>5. /\ r.status # "None" /\ r.settings \in {row[Current(n)].settings, inst[n].v}
          /\ r.linked = row[Current(n)].linked
      BY <2>1, <2>4, Zenon DEF RefreshedRow, Exists
    <2> QED
      BY <1>3, <2>1, <2>2, <2>3, <2>4, <2>5, Zenon
  <1>17. CASE RegisterRoot(n)
    <2>1. inst[n].v \in Versions
      BY <1>1, <1>17, Zenon DEF RegisterRoot
    <2> QED
      BY <1>0, <1>5, <1>17, <2>1, RegisterRootEffect, Zenon DEF Enters
  <1>18. ASSUME NEW p \in Labels, RegisterProfile(n, p)
         PROVE  TableStep(n)
    <2>1. inst[n].v \in Versions /\ inst[n].v # 0
      BY <1>1, <1>18, Zenon DEF RegisterProfile
    <2>2. /\ Alone(n) /\ inst'[n].v = inst[n].v
          /\ profile' = [profile EXCEPT ![p] = inst[n].v] /\ UNCHANGED <<row, anchors>>
      BY <1>0, <1>18, <2>1, RegisterProfileEffect, Zenon
    <2>3. \A i \in Issuers : RowStep(n, i)
      BY <2>2, Zenon DEF RowStep
    <2>4. /\ profile' \in [Labels -> Versions \cup {0}]
          /\ \A q \in Labels : profile'[q] = profile[q] \/ (profile'[q] = inst[n].v /\ profile'[q] # 0)
      <3>1. PICK v \in Versions : v = inst[n].v /\ v # 0
        BY <2>1, Zenon
      <3>2. profile' = [profile EXCEPT ![p] = v] /\ profile \in [Labels -> Versions \cup {0}]
        BY <1>0, <2>2, <3>1, Zenon DEF BootTypeOK
      <3> QED
        BY <3>1, <3>2, Zenon
    <2>5. row' \in [Issuers -> RowType]
      BY <1>0, <2>2, Zenon DEF BootTypeOK
    <2> QED
      BY <1>4, <2>2, <2>3, <2>4, <2>5, Zenon DEF TableStep
  <1>19. ASSUME NEW k \in 1 .. Len(Order), LoadFind(n, k)
         PROVE  TableStep(n)
    BY <1>0, <1>5, <1>19, LoadFindEffect, Zenon
  <1>20. CASE LoadBuild(n)
    BY <1>0, <1>5, <1>20, BuildsWritten, LoadBuildEffect, Zenon DEF Stays
  <1>21. CASE Serve(n)
    BY <1>0, <1>5, <1>21, ServeEffect, Zenon DEF Stays
  <1> QED
    BY <1>7, <1>8, <1>9, <1>10, <1>11, <1>12, <1>13, <1>14, <1>15, <1>16, <1>17, <1>18, <1>19, Zenon,
       <1>20, <1>21
    DEF Step, IssuerStep

\* What a step of n leaves: rows stay, and are those of some version.
LEMMA TablesKept ==
    ASSUME BootInv, NEW n \in Instances, TableStep(n)
    PROVE  /\ BootTypeOK'
           /\ \A i \in Issuers : Exists(i) => Exists(i)'
           /\ \A i \in Issuers : Written(row[i])'
  <1>0. BootTypeOK /\ \A i \in Issuers : Written(row[i])
    BY Zenon DEF BootInv
  <1>1. BootTypeOK'
    BY Zenon DEF TableStep, Alone, BootTypeOK
  <1>2. \A i \in Issuers : Exists(i) => Exists(i)'
    BY Zenon DEF TableStep, RowStep, Exists
  <1>3. ASSUME NEW i \in Issuers
        PROVE  Written(row[i])'
    <2>1. Written(row[i]) /\ RowStep(n, i)
      BY <1>0, Zenon DEF TableStep
    <2> QED
      BY <2>1, Zenon DEF RowStep, Written
  <1> QED
    BY <1>1, <1>2, <1>3, Zenon

LEMMA StoredWholeStep ==
    ASSUME BootInv, NEW n \in Instances, TableStep(n)
    PROVE  StoredWhole'
  <1> SUFFICES ASSUME NEW i \in Issuers, Exists(i)'
               PROVE  IF IsSelfSigned(i) THEN i \in anchors' ELSE ParentFirst(i) => row'[i].linked
    BY Zenon DEF StoredWhole, IsSelfSigned, ParentFirst
  <1>1. CASE Exists(i)
    <2>1. IF IsSelfSigned(i) THEN i \in anchors ELSE ParentFirst(i) => row[i].linked
      BY <1>1, Zenon DEF BootInv, StoredWhole
    <2>2. row'[i].linked = row[i].linked /\ anchors \subseteq anchors'
      BY <1>1, Zenon DEF TableStep, RowStep
    <2> QED
      BY <2>1, <2>2, Zenon
  <1>2. CASE ~Exists(i)
    BY <1>2, Zenon DEF TableStep, RowStep, Exists
  <1> QED
    BY <1>1, <1>2, Zenon

\* An instance that does not take the step is where it was.
LEMMA OthersKept ==
    ASSUME BootInv, NEW n \in Instances, TableStep(n), NEW m \in Instances, m # n
    PROVE  Placed(m)' /\ Done(m)'
  <1>1. inst'[m] = inst[m] /\ Placed(m) /\ Done(m)
    BY Zenon DEF BootInv, TableStep, Alone
  <1>2. \A i \in Issuers : Exists(i) => Exists(i)'
    BY TablesKept, Zenon
  <1>3. Placed(m)'
    BY <1>1, <1>2, Zenon DEF Placed, Current, Exists, LoopPCs
  <1>4. Done(m)'
    <2>1. \A j \in 1 .. Len(Order) : Order[j] \in Issuers
      BY Constants, Zenon
    <2>2. inst[m].pc \in LoopPCs => \A j \in 1 .. inst[m].at - 1 : j \in 1 .. Len(Order)
      BY <1>1, Constants DEF Placed
    <2>3. inst[m].pc \in LoopPCs =>
              \A j \in 1 .. inst[m].at - 1 : Order[j] \in Enabled[inst[m].v] => Exists(Order[j])'
      BY <1>1, <1>2, <2>1, <2>2, Zenon DEF Done
    <2> QED
      BY <1>1, <2>3, Zenon DEF Done, Current, IsSelfSigned, ParentFirst, Exists
  <1> QED
    BY <1>3, <1>4, Zenon

-----------------------------------------------------------------------------
(* The instance that takes the step *)

\* The steps that lead to the loading, and from there to a failure.
LoadStep(n) ==
    \/ \E p \in Labels : RegisterProfile(n, p)
    \/ \E k \in 1 .. Len(Order) : LoadFind(n, k)
    \/ LoadBuild(n)

\* What holds for n after its step.
OwnStep(n) ==
    /\ Placed(n)'
    /\ Done(n)'
    /\ inst'[n].pc \in {"load", "failed"} => LoadStep(n)

LEMMA EntersOwnStep ==
    ASSUME NEW n \in Instances, NEW k \in Nat \ {0}, Enters(n, k), inst[n].v \in Versions,
           \A j \in 1 .. k - 1 : Order[j] \in Enabled[inst[n].v] => Exists(Order[j])'
    PROVE  OwnStep(n)
  <1>1. CASE k <= Len(Order) /\ inst'[n].pc = "find" /\ inst'[n].at = k
    <2>1. k \in 1 .. Len(Order) /\ Order[k] \in Issuers /\ inst'[n].v = inst[n].v
      BY <1>1, Constants DEF Enters
    <2>2. Placed(n)'
      BY <1>1, <2>1, Zenon DEF Placed, Current
    <2>3. Done(n)'
      BY <1>1, <2>1, Zenon DEF Done, Exists
    <2> QED
      BY <1>1, <2>2, <2>3, Zenon DEF OwnStep
  <1>2. CASE inst'[n].pc = "profiles" /\ inst'[n].todo = Profiles[inst[n].v]
    <2>1. Placed(n)'
      BY <1>2, Zenon DEF Placed, LoopPCs, Enters
    <2>2. Done(n)'
      BY <1>2, Zenon DEF Done, LoopPCs, Enters
    <2> QED
      BY <1>2, <2>1, <2>2, Zenon DEF OwnStep
  <1> QED
    BY <1>1, <1>2, Zenon DEF Enters

LEMMA OwnStepHolds ==
    ASSUME BootInv, NEW n \in Instances, Step(n) \/ Stop(n), TableStep(n)
    PROVE  OwnStep(n)
  <1>0. /\ BootTypeOK /\ Placed(n) /\ Done(n) /\ inst[n] \in InstType
        /\ \A i \in Issuers : Written(row[i])
    BY Zenon DEF BootInv, BootTypeOK
  <1>1. \A i \in Issuers : Exists(i) => Exists(i)'
    BY TablesKept, Zenon
  <1>2. /\ inst[n].pc # "down" => inst[n].v \in Versions
        /\ inst[n].pc \in LoopPCs => inst[n].at \in 1 .. Len(Order) /\ Current(n) \in Issuers
        /\ inst[n].at + 1 \in Nat \ {0}
    BY <1>0 DEF Placed, InstType
  \* the loop goes on when the current issuer is registered or disabled
  <1>3. ASSUME inst[n].pc \in LoopPCs, Enters(n, inst[n].at + 1),
               Current(n) \in Enabled[inst[n].v] => row'[Current(n)].status # "None"
        PROVE  OwnStep(n)
    <2>1. ASSUME NEW j \in 1 .. (inst[n].at + 1) - 1, Order[j] \in Enabled[inst[n].v]
          PROVE  Exists(Order[j])'
      <3>1. CASE j = inst[n].at
        BY <1>3, <2>1, <3>1, Zenon DEF Current, Exists
      <3>2. CASE j # inst[n].at
        <4>1. j \in 1 .. inst[n].at - 1 /\ j \in 1 .. Len(Order)
          BY <1>2, <1>3, <3>2, UpTo, Earlier, Zenon
        <4>2. Order[j] \in Issuers /\ Exists(Order[j])
          BY <1>0, <1>3, <2>1, <4>1, Constants, Zenon DEF Done
        <4> QED
          BY <1>1, <4>2, Zenon
      <3> QED
        BY <3>1, <3>2, Zenon
    <2>2. inst[n].v \in Versions
      BY <1>2, <1>3, Zenon DEF LoopPCs
    <2> QED
      BY <1>2, <1>3, <2>1, <2>2, EntersOwnStep, Zenon
  <1>4. ASSUME inst'[n].pc \in {"down", "roots"}, inst'[n].pc = "roots" => inst'[n].v \in Versions
        PROVE  OwnStep(n)
    BY <1>4, Zenon DEF OwnStep, Placed, Done, LoopPCs
  <1>5. ASSUME NEW v \in Versions, Start(n, v)
        PROVE  OwnStep(n)
    BY <1>0, <1>4, <1>5, StartEffect, Zenon
  <1>6. CASE Stop(n)
    BY <1>0, <1>4, <1>6, StopEffect, Zenon
  <1>7. CASE registerRoots(n)
    <2>1. inst[n].v \in Versions /\ inst[n].pc = "roots"
      BY <1>2, <1>7, Zenon DEF registerRoots
    <2>2. CASE Enters(n, 1)
      BY <2>1, <2>2, EntersOwnStep
    <2>3. CASE Stays(n, "roots")
      BY <1>4, <2>1, <2>3, Zenon DEF Stays
    <2> QED
      BY <1>0, <1>7, <2>1, <2>2, <2>3, registerRootsEffect, Zenon
  \* a step of the loop on the same issuer
  <1>8. ASSUME NEW pc \in LoopPCs, Stays(n, pc), inst[n].pc \in LoopPCs,
               pc \in {"parent", "insert", "refind", "refresh", "anchor"} => Current(n) \in Enabled[inst[n].v],
               pc = "archive" => Current(n) \notin Enabled[inst[n].v],
               pc \in {"archive", "refind", "refresh", "anchor"} => Exists(Current(n)),
               pc = "insert" /\ ~IsSelfSigned(Current(n)) /\ ParentFirst(Current(n)) => inst'[n].linked
        PROVE  OwnStep(n)
    <2>1. /\ inst'[n].pc = pc /\ inst'[n].v = inst[n].v /\ inst'[n].at = inst[n].at
          /\ Current(n)' = Current(n) /\ inst[n].v \in Versions
      BY <1>2, <1>8, Zenon DEF Stays, Current, LoopPCs
    <2>2. Exists(Current(n)) => row'[Current(n)].status # "None"
      BY <1>1, <1>2, <1>8, Zenon DEF Exists
    <2>3. Placed(n)'
      <3>1. Exists(Current(n)) => Exists(Current(n))'
        BY <2>1, <2>2, Zenon DEF Exists
      <3> QED
        BY <1>2, <1>8, <2>1, <3>1, Zenon DEF Placed, LoopPCs
    <2>4. ASSUME NEW j \in 1 .. inst[n].at - 1, Order[j] \in Enabled[inst[n].v]
          PROVE  Exists(Order[j])'
      <3>1. j \in 1 .. Len(Order)
        BY <1>2, <1>8, Constants
      <3>2. Order[j] \in Issuers /\ Exists(Order[j])
        BY <1>0, <1>8, <2>4, <3>1, Constants, Zenon DEF Done
      <3> QED
        BY <1>1, <3>2, Zenon
    <2>5. Done(n)'
      BY <1>8, <2>1, <2>4, Zenon DEF Done, LoopPCs, IsSelfSigned, ParentFirst, Exists
    <2> QED
      BY <1>8, <2>1, <2>3, <2>5, Zenon DEF OwnStep, LoopPCs
  <1>9. CASE FindIssuer(n)
    <2>1. inst[n].pc = "find" /\ inst[n].pc \in LoopPCs /\ Current(n) \in Issuers
      BY <1>2, <1>9, Zenon DEF FindIssuer, LoopPCs
    <2>2. PICK pc \in LoopPCs : pc = IF Exists(Current(n)) THEN "refresh" ELSE "parent"
      BY Zenon DEF LoopPCs
    <2>3. Stays(n, pc)
      BY <1>0, <1>9, <2>1, <2>2, FindIssuerEffect, Zenon
    <2>4. Current(n) \in Enabled[inst[n].v]
      BY <1>9, Zenon DEF FindIssuer
    <2> QED
      BY <1>8, <2>1, <2>2, <2>3, <2>4, Zenon
  <1>10. CASE FindDisabled(n)
    <2>1. /\ inst[n].pc = "find" /\ inst[n].pc \in LoopPCs /\ inst[n].v \in Versions
          /\ Current(n) \notin Enabled[inst[n].v] /\ "archive" \in LoopPCs
      BY <1>2, <1>10, Zenon DEF FindDisabled, LoopPCs
    <2>2. CASE row[Current(n)].status = "Active" /\ Stays(n, "archive")
      BY <1>8, <2>1, <2>2, Zenon DEF Exists
    <2>3. CASE Enters(n, inst[n].at + 1)
      BY <1>3, <2>1, <2>3, Zenon
    <2> QED
      BY <1>0, <1>10, <2>1, <2>2, <2>3, FindDisabledEffect, Zenon
  <1>11. CASE archiveIssuer(n)
    <2>1. /\ inst[n].pc = "archive" /\ inst[n].pc \in LoopPCs /\ inst[n].v \in Versions
          /\ Current(n) \notin Enabled[inst[n].v]
      BY <1>0, <1>2, <1>11, Zenon DEF archiveIssuer, LoopPCs, Placed
    <2> QED
      BY <1>0, <1>3, <1>11, <2>1, archiveIssuerEffect, Zenon
  <1>12. CASE FindParent(n)
    <2>1. /\ inst[n].pc = "parent" /\ inst[n].pc \in LoopPCs /\ inst[n].v \in Versions
          /\ Current(n) \in Enabled[inst[n].v] /\ Current(n) \in Issuers
          /\ inst[n].at \in 1 .. Len(Order) /\ "insert" \in LoopPCs
      BY <1>0, <1>2, <1>12, Zenon DEF FindParent, LoopPCs, Placed
    <2>2. /\ Stays(n, "insert")
          /\ inst'[n].linked = (~IsSelfSigned(Current(n)) /\ Exists(ParentOf[Current(n)]))
      BY <1>0, <1>12, FindParentEffect, Zenon
    <2>3. ASSUME ~IsSelfSigned(Current(n)), ParentFirst(Current(n))
          PROVE  inst'[n].linked
      <3>1. PICK j \in 1 .. inst[n].at - 1 : Order[j] = ParentOf[Current(n)]
        BY <2>1, <2>3, Zenon DEF ParentFirst, Current
      <3>2. Order[j] \in Enabled[inst[n].v]
        BY <2>1, <2>3, <3>1, Zenon DEF ParentFirst
      <3>3. Exists(Order[j])
        BY <1>0, <2>1, <3>2, Zenon DEF Done
      <3> QED
        BY <2>2, <2>3, <3>1, <3>3, Zenon
    <2> QED
      BY <1>8, <2>1, <2>2, <2>3, Zenon
  <1>13. CASE RegisterIssuer(n)
    <2>1. /\ inst[n].pc = "insert" /\ inst[n].pc \in LoopPCs /\ inst[n].v \in Versions
          /\ Current(n) \in Enabled[inst[n].v] /\ Current(n) \in Issuers /\ "refind" \in LoopPCs
      BY <1>0, <1>2, <1>13, Zenon DEF RegisterIssuer, LoopPCs, Placed
    <2>2. CASE Exists(Current(n)) /\ Stays(n, "refind")
      BY <1>8, <2>1, <2>2, Zenon
    <2>3. CASE Enters(n, inst[n].at + 1) /\ row' = [row EXCEPT ![Current(n)] = Registered(n)]
      <3>1. row'[Current(n)].status # "None"
        BY <1>0, <2>1, <2>3, Zenon DEF BootTypeOK, Registered
      <3> QED
        BY <1>3, <2>1, <2>3, <3>1, Zenon
    <2> QED
      BY <1>0, <1>13, <2>1, <2>2, <2>3, RegisterIssuerEffect, Zenon
  <1>14. CASE FindRegistered(n)
    <2>1. /\ inst[n].pc = "refind" /\ inst[n].pc \in LoopPCs /\ Current(n) \in Issuers
          /\ Current(n) \in Enabled[inst[n].v] /\ Exists(Current(n)) /\ "refresh" \in LoopPCs
      BY <1>0, <1>2, <1>14, Zenon DEF FindRegistered, LoopPCs, Placed
    <2>2. Stays(n, "refresh")
      BY <1>0, <1>14, <2>1, FindRegisteredEffect, Zenon
    <2> QED
      BY <1>8, <2>1, <2>2, Zenon
  <1>15. CASE refreshIssuer(n)
    <2>1. /\ inst[n].pc = "refresh" /\ inst[n].pc \in LoopPCs /\ inst[n].v \in Versions
          /\ Current(n) \in Issuers /\ Current(n) \in Enabled[inst[n].v] /\ Exists(Current(n))
          /\ "anchor" \in LoopPCs
      BY <1>0, <1>2, <1>15, Zenon DEF refreshIssuer, LoopPCs, Placed
    <2>2. CASE Stays(n, "anchor")
      BY <1>8, <2>1, <2>2, Zenon
    <2>3. CASE Enters(n, inst[n].at + 1)
      BY <1>1, <1>3, <2>1, <2>3, Zenon DEF Exists
    <2> QED
      BY <1>0, <1>15, <2>1, <2>2, <2>3, refreshIssuerEffect, Zenon
  <1>16. CASE RegisterRoot(n)
    <2>1. /\ inst[n].pc = "anchor" /\ inst[n].pc \in LoopPCs /\ inst[n].v \in Versions
          /\ Current(n) \in Issuers /\ Exists(Current(n))
      BY <1>0, <1>2, <1>16, Zenon DEF RegisterRoot, LoopPCs, Placed
    <2>2. Enters(n, inst[n].at + 1)
      BY <1>0, <1>16, <2>1, RegisterRootEffect, Zenon
    <2> QED
      BY <1>1, <1>3, <2>1, <2>2, Zenon DEF Exists
  \* a step after the loop
  <1>17. ASSUME inst'[n].pc \in {"profiles", "load", "failed", "done"}, inst'[n].v \in Versions,
                inst'[n].pc \in {"load", "failed"} => LoadStep(n),
                inst'[n].seen # NoRow => Current(n)' \in Issuers /\ inst'[n].seen.settings \in Versions
         PROVE  OwnStep(n)
    BY <1>17, Zenon DEF OwnStep, Placed, Done, LoopPCs
  <1>18. ASSUME NEW p \in Labels, RegisterProfile(n, p)
         PROVE  OwnStep(n)
    <2>1. inst[n].v \in Versions
      BY <1>2, <1>18, Zenon DEF RegisterProfile
    <2> QED
      BY <1>0, <1>17, <1>18, <2>1, RegisterProfileEffect, Zenon DEF LoadStep
  <1>19. ASSUME NEW k \in 1 .. Len(Order), LoadFind(n, k)
         PROVE  OwnStep(n)
    <2>1. /\ inst[n].pc = "load" /\ inst'[n].pc = "load" /\ inst'[n].v = inst[n].v
          /\ inst'[n].seen = row[Order[k]] /\ Current(n)' = Order[k]
      BY <1>0, <1>19, LoadFindEffect, Zenon DEF LoadFind, Current
    <2>2. Order[k] \in Issuers /\ Written(row[Order[k]])
      BY <1>0, Constants, Zenon
    <2> QED
      BY <1>2, <1>17, <1>19, <2>1, <2>2, Zenon DEF LoadStep, Written
  <1>20. CASE LoadBuild(n)
    <2>1. /\ inst[n].pc = "load" /\ inst'[n].v = inst[n].v /\ inst'[n].seen = NoRow
          /\ inst'[n].pc \in {"load", "failed"}
      BY <1>0, <1>20, BuildsWritten, LoadBuildEffect, Zenon DEF LoadBuild, Stays
    <2> QED
      BY <1>2, <1>17, <1>20, <2>1, Zenon DEF LoadStep
  <1>21. CASE Serve(n)
    <2>1. /\ inst[n].pc = "load" /\ inst'[n].pc = "done" /\ inst'[n].v = inst[n].v
          /\ inst'[n].seen = NoRow
      BY <1>0, <1>21, ServeEffect, Zenon DEF Serve, Stays
    <2> QED
      BY <1>2, <1>17, <2>1, Zenon
  <1> QED
    BY <1>5, <1>6, <1>7, <1>9, <1>10, <1>11, <1>12, <1>13, <1>14, <1>15, <1>16, <1>18, <1>19, Zenon,
       <1>20, <1>21
    DEF Step, IssuerStep

-----------------------------------------------------------------------------
(* The invariant *)

LEMMA BootInvInit == BootInit => BootInv
  <1> SUFFICES ASSUME BootInit
               PROVE  BootInv
    BY Zenon
  <1>1. "down" \in PCs /\ {} \in Todos
    BY Zenon DEF PCs, Todos
  <1>2. Process("down", 0, 0, 1, {}) \in InstType
    BY <1>1, ProcessType
  <1>3. BootTypeOK
    BY <1>2, NoRowType, Zenon DEF BootInit, BootTypeOK
  <1>4. \A i \in Issuers : Written(row[i]) /\ ~Exists(i)
    BY Zenon DEF BootInit, Written, Exists, NoRow
  <1>5. \A n \in Instances : inst[n].pc = "down"
    BY Zenon DEF BootInit, Process
  <1>6. \A n \in Instances : Placed(n) /\ Done(n)
    BY <1>5, Zenon DEF Placed, Done, LoopPCs
  <1> QED
    BY <1>3, <1>4, <1>6, Zenon DEF BootInv, StoredWhole

LEMMA BootInvStep == BootInv /\ [BootNext]_bootVars => BootInv'
  <1>1. ASSUME BootInv, NEW n \in Instances, Step(n) \/ Stop(n)
        PROVE  BootInv'
    <2>1. TableStep(n)
      BY <1>1, TableStepHolds, Zenon
    <2>2. OwnStep(n)
      BY <1>1, <2>1, OwnStepHolds, Zenon
    <2>3. BootTypeOK' /\ \A i \in Issuers : Written(row[i])'
      BY <1>1, <2>1, TablesKept, Zenon
    <2>4. ASSUME NEW m \in Instances
          PROVE  Placed(m)' /\ Done(m)'
      <3>1. CASE m = n
        BY <2>2, <3>1, Zenon DEF OwnStep
      <3>2. CASE m # n
        BY <1>1, <2>1, <3>2, OthersKept, Zenon
      <3> QED
        BY <3>1, <3>2, Zenon
    <2>5. StoredWhole'
      BY <1>1, <2>1, StoredWholeStep, Zenon
    <2> QED
      BY <2>3, <2>4, <2>5, Zenon DEF BootInv
  <1>2. ASSUME BootInv, UNCHANGED bootVars
        PROVE  BootInv'
    <2>1. row' = row /\ anchors' = anchors /\ profile' = profile /\ inst' = inst
      BY <1>2, Zenon DEF bootVars
    <2>2. BootTypeOK' /\ \A i \in Issuers : Written(row[i])'
      BY <1>2, <2>1, Zenon DEF BootInv, BootTypeOK, Written
    <2>3. \A n \in Instances : Placed(n)'
      BY <1>2, <2>1, Zenon DEF BootInv, Placed, Current, Exists
    <2>4. \A n \in Instances : Done(n)'
      BY <1>2, <2>1, Zenon DEF BootInv, Done, Current, Exists, IsSelfSigned, ParentFirst
    <2>5. StoredWhole'
      BY <1>2, <2>1, Zenon DEF BootInv, StoredWhole, Exists, IsSelfSigned, ParentFirst
    <2> QED
      BY <2>2, <2>3, <2>4, <2>5, Zenon DEF BootInv
  <1> QED
    BY <1>1, <1>2, Zenon DEF BootNext

LEMMA BootInvCorrect == BootSpec => []BootInv
  BY BootInvInit, BootInvStep, PTL DEF BootSpec

\* Whatever crashes and whichever instance registers which issuer, Bootstrap
\* never stores a root without its anchor, nor an issuer without its parent
\* when the ca-config has the parent before it.
THEOREM StoredWholeCorrect == BootSpec => []StoredWhole
  <1>1. BootInv => StoredWhole
    BY Zenon DEF BootInv
  <1> QED
    BY <1>1, BootInvCorrect, PTL

-----------------------------------------------------------------------------
(* The end of a roll-out *)

\* A step of n takes no row away from what the version of n says.
Improves(n) ==
    /\ \A i \in Issuers :
           IF i \in Enabled[inst[n].v]
           THEN /\ row[i].status = "Active" => row'[i].status = "Active"
                /\ row[i].settings = inst[n].v => row'[i].settings = inst[n].v
           ELSE row[i].status # "Active" => row'[i].status # "Active"
    /\ \A p \in Labels : profile[p] = inst[n].v => profile'[p] = inst[n].v

LEMMA ImprovesHolds ==
    ASSUME BootInv, NEW n \in Instances, Step(n) \/ Stop(n), TableStep(n)
    PROVE  Improves(n)
  <1>0. BootTypeOK /\ Placed(n) /\ inst[n] \in InstType
    BY Zenon DEF BootInv, BootTypeOK
  <1>1. /\ inst[n].pc # "down" => inst[n].v \in Versions
        /\ inst[n].pc \in LoopPCs => Current(n) \in Issuers
    BY <1>0, Zenon DEF Placed
  <1>2. \A p \in Labels : profile[p] = inst[n].v => profile'[p] = inst[n].v
    BY Zenon DEF TableStep
  <1>3. CASE row' = row
    BY <1>2, <1>3, Zenon DEF Improves
  <1>4. CASE archiveIssuer(n)
    <2>1. /\ inst[n].pc = "archive" /\ inst[n].v \in Versions /\ Current(n) \in Issuers
          /\ Current(n) \notin Enabled[inst[n].v]
      BY <1>0, <1>1, <1>4, Zenon DEF archiveIssuer, LoopPCs, Placed
    <2>2. row' = [row EXCEPT ![Current(n)].status = "Archived"]
      BY <1>4, Zenon DEF archiveIssuer
    <2>3. /\ \A i \in Issuers \ {Current(n)} : row'[i] = row[i]
          /\ row'[Current(n)].status = "Archived"
      BY <1>0, <2>1, <2>2, Zenon DEF BootTypeOK, RowType
    <2> QED
      BY <1>2, <2>1, <2>3, Zenon DEF Improves
  <1>5. CASE RegisterIssuer(n) /\ row' # row
    <2>1. /\ inst[n].pc = "insert" /\ inst[n].v \in Versions /\ Current(n) \in Issuers
          /\ Current(n) \in Enabled[inst[n].v]
      BY <1>0, <1>1, <1>5, Zenon DEF RegisterIssuer, LoopPCs, Placed
    <2>2. row' = [row EXCEPT ![Current(n)] = Registered(n)]
      BY <1>5, Zenon DEF RegisterIssuer
    <2>3. /\ \A i \in Issuers \ {Current(n)} : row'[i] = row[i]
          /\ row'[Current(n)].status = "Active" /\ row'[Current(n)].settings = inst[n].v
      BY <1>0, <2>1, <2>2, Zenon DEF BootTypeOK, Registered
    <2> QED
      BY <1>2, <2>1, <2>3, Zenon DEF Improves
  <1>6. CASE refreshIssuer(n)
    <2>1. /\ inst[n].pc = "refresh" /\ inst[n].v \in Versions /\ Current(n) \in Issuers
          /\ Current(n) \in Enabled[inst[n].v]
      BY <1>0, <1>1, <1>6, Zenon DEF refreshIssuer, LoopPCs, Placed
    <2>2. row' = [row EXCEPT ![Current(n)] = RefreshedRow(n)]
      BY <1>0, <1>6, <2>1, refreshIssuerEffect, Zenon
    <2>3. /\ \A i \in Issuers \ {Current(n)} : row'[i] = row[i]
          /\ row[Current(n)].status = "Active" => row'[Current(n)].status = "Active"
          /\ row[Current(n)].settings = inst[n].v => row'[Current(n)].settings = inst[n].v
      BY <1>0, <2>1, <2>2, Zenon DEF BootTypeOK, RefreshedRow
    <2> QED
      BY <1>2, <2>1, <2>3, Zenon DEF Improves
  <1> QED
    BY <1>3, <1>4, <1>5, <1>6, Zenon
    DEF Step, IssuerStep, Start, Stop, registerRoots, FindIssuer, FindDisabled, FindParent,
        FindRegistered, RegisterRoot, RegisterProfile, LoadFind, LoadBuild, Serve

LEMMA FreshOthers ==
    ASSUME BootInv, NEW n \in Instances, TableStep(n), Improves(n),
           NEW m \in Instances, m # n, inst[m].v = inst[n].v, Fresh(m)
    PROVE  Fresh(m)'
  <1>1. inst'[m] = inst[m] /\ Placed(m)
    BY Zenon DEF TableStep, Alone, BootInv
  <1>2. CASE inst[m].pc \in {"down", "failed", "roots"}
    BY <1>1, <1>2, Zenon DEF Fresh, LoopPCs
  <1>3. ASSUME inst[m].pc \notin {"down", "failed", "roots"}
        PROVE  Fresh(m)'
    <2>1. PICK v \in Versions : v = inst[m].v /\ v = inst[n].v
      BY <1>1, <1>3, Zenon DEF Placed
    <2>2. ASSUME NEW i \in Issuers, Good(v, i)
          PROVE  Good(v, i)'
      BY <2>1, <2>2, Zenon DEF Improves, Good
    <2>3. Profiles[v] \subseteq Labels /\ \A p \in Profiles[v] : profile[p] = v => profile'[p] = v
      BY <2>1, Constants, Zenon DEF Improves
    <2>4. CASE inst[m].pc \in LoopPCs
      <3>1. /\ inst[m].at \in 1 .. Len(Order) /\ Current(m) \in Issuers /\ Current(m)' = Current(m)
            /\ inst[m].pc = "refresh" => Current(m) \in Enabled[v]
        BY <1>1, <2>1, <2>4, Zenon DEF Placed, Current
      <3>2. ASSUME NEW j \in 1 .. inst[m].at - 1
            PROVE  Good(v, Order[j])'
        <4>1. Good(v, Order[j]) /\ Order[j] \in Issuers
          BY <2>1, <2>4, <3>1, <3>2, Earlier, Zenon DEF Fresh
        <4> QED
          BY <2>2, <4>1, Zenon
      <3>3. ASSUME inst[m].pc = "refresh"
            PROVE  /\ inst[m].seen.status = "Archived" \/ row'[Current(m)].status = "Active"
                   /\ inst[m].seen.settings # v \/ row'[Current(m)].settings = v
        BY <2>1, <3>1, <3>3, Zenon DEF Fresh, Improves
      <3>4. ASSUME inst[m].pc = "anchor"
            PROVE  Good(v, Current(m))'
        <4>1. PICK i \in Issuers : i = Current(m)
          BY <3>1, Zenon
        <4>2. Good(v, i)
          BY <2>1, <3>4, <4>1, Zenon DEF Fresh
        <4>3. Good(v, i)'
          BY <2>2, <4>2, Zenon
        <4> QED
          BY <3>1, <4>1, <4>3, Zenon DEF Good
      <3> QED
        BY <1>1, <2>1, <2>4, <3>1, <3>2, <3>3, <3>4, Zenon DEF Fresh, LoopPCs, Good
    <2>5. CASE inst[m].pc \notin LoopPCs
      <3>1. ASSUME inst[m].pc \in {"profiles", "load", "done"}, NEW i \in Issuers
            PROVE  Good(v, i)'
        BY <2>1, <2>2, <3>1, Zenon DEF Fresh
      <3>2. inst[m].pc = "profiles" => \A p \in Profiles[v] \ inst[m].todo : profile'[p] = v
        BY <2>1, <2>3, Zenon DEF Fresh
      <3>3. inst[m].pc \in {"load", "done"} => \A p \in Profiles[v] : profile'[p] = v
        BY <2>1, <2>3, Zenon DEF Fresh
      <3> QED
        BY <1>1, <2>1, <2>5, <3>1, <3>2, <3>3, Zenon DEF Fresh, LoopPCs, Good
    <2> QED
      BY <2>4, <2>5, Zenon
  <1> QED
    BY <1>2, <1>3, Zenon

\* The loop goes on once the current row is what the version says.
LEMMA EntersFresh ==
    ASSUME BootInv, NEW n \in Instances, Improves(n), Fresh(n), inst[n].pc \in LoopPCs,
           Enters(n, inst[n].at + 1), NEW v \in Versions, v = inst[n].v,
           NEW c \in Issuers, c = Current(n), Good(v, c)'
    PROVE  Fresh(n)'
  <1>1. inst[n].at \in 1 .. Len(Order) /\ inst[n].at \in Nat /\ Len(Order) \in Nat
    <2>1. inst[n].at \in 1 .. Len(Order) /\ Len(Order) \in Nat
      BY Constants, Zenon DEF BootInv, Placed
    <2> QED
      BY <2>1
  <1>2. ASSUME NEW j \in 1 .. inst[n].at
        PROVE  Good(v, Order[j])'
    <2>1. CASE j = inst[n].at
      BY <2>1, Zenon DEF Current, Good
    <2>2. CASE j # inst[n].at
      <3>1. j \in 1 .. inst[n].at - 1 /\ j \in 1 .. Len(Order)
        BY <1>1, <2>2
      <3>2. Good(v, Order[j]) /\ Order[j] \in Issuers
        BY <3>1, Constants, Zenon DEF Fresh
      <3> QED
        BY <3>2, Zenon DEF Good, Improves
    <2> QED
      BY <2>1, <2>2, Zenon
  <1>3. CASE inst'[n].pc = "find" /\ inst'[n].at = inst[n].at + 1 /\ inst'[n].v = v
    <2>1. \A j \in 1 .. inst'[n].at - 1 : Good(v, Order[j])'
      BY <1>1, <1>2, <1>3
    <2> QED
      BY <1>3, <2>1, Zenon DEF Fresh, Good
  <1>4. CASE /\ ~(inst[n].at + 1 <= Len(Order)) /\ inst'[n].v = v
             /\ inst'[n].pc = "profiles" /\ inst'[n].todo = Profiles[v]
    <2>1. ASSUME NEW i \in Issuers
          PROVE  Good(v, i)'
      <3>1. PICK j \in 1 .. Len(Order) : Order[j] = i
        BY Constants, Zenon
      <3>2. j \in 1 .. inst[n].at
        BY <1>1, <1>4, <3>1
      <3> QED
        BY <1>2, <3>1, <3>2, Zenon DEF Good
    <2> QED
      BY <1>4, <2>1, Zenon DEF Fresh, Good, LoopPCs
  <1> QED
    BY <1>3, <1>4, Zenon DEF Enters

LEMMA FreshOwn ==
    ASSUME BootInv, NEW n \in Instances, Step(n) \/ Stop(n), TableStep(n), Improves(n)
    PROVE  /\ Fresh(n) => Fresh(n)'
           /\ inst'[n].v # inst[n].v => Fresh(n)'
  <1>0. /\ BootTypeOK /\ Placed(n) /\ inst[n] \in InstType
        /\ \A i \in Issuers : Written(row[i]) /\ row[i] \in RowType
    BY Zenon DEF BootInv, BootTypeOK
  <1>1. /\ inst[n].pc # "down" => inst[n].v \in Versions
        /\ inst[n].pc \in LoopPCs => Current(n) \in Issuers
    BY <1>0, Zenon DEF Placed
  <1>2. ASSUME inst'[n].pc \in {"down", "failed", "roots"}
        PROVE  Fresh(n)'
    BY <1>2, Zenon DEF Fresh, LoopPCs
  <1>3. ASSUME NEW v \in Versions, Start(n, v)
        PROVE  Fresh(n)'
    BY <1>0, <1>2, <1>3, StartEffect, Zenon
  <1>4. CASE Stop(n)
    BY <1>0, <1>2, <1>4, StopEffect, Zenon
  \* every other step leaves the version of n
  <1>5. ASSUME inst[n].pc # "down", NEW v \in Versions, v = inst[n].v, Step(n),
               ~\E w \in Versions : Start(n, w), Fresh(n)
        PROVE  Fresh(n)'
    <2>1. \A p \in Labels : profile[p] = v => profile'[p] = v
      BY <1>5, Zenon DEF Improves
    <2>2. ASSUME NEW c \in Issuers, c = Current(n), inst[n].pc \in LoopPCs, Good(v, c)',
                 Enters(n, inst[n].at + 1)
          PROVE  Fresh(n)'
      BY <1>5, <2>2, EntersFresh, Zenon
    \* a step on the same issuer that writes no row before it
    <2>3. ASSUME NEW pc \in {"archive", "parent", "insert", "refind"}, inst[n].pc \in LoopPCs,
                 Stays(n, pc), row' = row
          PROVE  Fresh(n)'
      BY <1>5, <2>3, Zenon DEF Fresh, Stays, Good, LoopPCs, Current
    <2>4. ASSUME inst[n].pc \in LoopPCs, Stays(n, "refresh"), row' = row, Current(n) \in Issuers,
                 inst'[n].seen = row[Current(n)], Exists(Current(n))
          PROVE  Fresh(n)'
      <3>1. row[Current(n)].status \in {"Active", "Archived"}
        BY <1>0, <2>4, Zenon DEF RowType, Exists
      <3>2. Current(n)' = Current(n) /\ inst'[n].pc = "refresh" /\ inst'[n].v = v /\ inst'[n].at = inst[n].at
        BY <1>5, <2>4, Zenon DEF Stays, Current
      <3> QED
        BY <1>5, <2>4, <3>1, <3>2, Zenon DEF Fresh, Good, LoopPCs
    <2>5. CASE registerRoots(n)
      <3>1. CASE Enters(n, 1) /\ row' = row
        <4>1. CASE inst'[n].pc = "find" /\ inst'[n].at = 1
          BY <4>1 DEF Fresh
        <4>2. CASE ~(1 <= Len(Order)) /\ inst'[n].pc = "profiles" /\ inst'[n].todo = Profiles[inst[n].v]
          <5>1. \A i \in Issuers : FALSE
            BY <4>2, Constants
          <5> QED
            BY <3>1, <4>2, <5>1, Zenon DEF Fresh, LoopPCs, Enters
        <4> QED
          BY <3>1, <4>1, <4>2, Zenon DEF Enters
      <3>2. CASE Stays(n, "roots")
        BY <1>2, <3>2, Zenon DEF Stays
      <3> QED
        BY <1>0, <1>5, <2>5, <3>1, <3>2, registerRootsEffect, Zenon
    <2>6. CASE FindIssuer(n)
      <3>1. inst[n].pc \in LoopPCs /\ Current(n) \in Issuers
        BY <1>1, <2>6, Zenon DEF FindIssuer, LoopPCs
      <3>2. /\ Stays(n, IF Exists(Current(n)) THEN "refresh" ELSE "parent")
            /\ inst'[n].seen = row[Current(n)] /\ row' = row
        BY <1>0, <2>6, <3>1, FindIssuerEffect, Zenon
      <3> QED
        BY <2>3, <2>4, <3>1, <3>2, Zenon
    <2>7. CASE FindDisabled(n)
      <3>1. inst[n].pc \in LoopPCs /\ Current(n) \in Issuers /\ Current(n) \notin Enabled[v]
        BY <1>1, <1>5, <2>7, Zenon DEF FindDisabled, LoopPCs
      <3>2. CASE Stays(n, "archive") /\ row' = row
        BY <2>3, <3>1, <3>2, Zenon
      <3>3. CASE row[Current(n)].status # "Active" /\ Enters(n, inst[n].at + 1) /\ row' = row
        <4>1. PICK c \in Issuers : c = Current(n)
          BY <3>1, Zenon
        <4>2. Good(v, c)'
          BY <3>1, <3>3, <4>1, Zenon DEF Good
        <4> QED
          BY <2>2, <3>1, <3>3, <4>1, <4>2, Zenon
      <3> QED
        BY <1>0, <1>5, <2>7, <3>2, <3>3, FindDisabledEffect, Zenon
    <2>8. CASE archiveIssuer(n)
      <3>1. inst[n].pc \in LoopPCs /\ Current(n) \in Issuers /\ Current(n) \notin Enabled[v]
        BY <1>0, <1>1, <1>5, <2>8, Zenon DEF archiveIssuer, LoopPCs, Placed
      <3>2. Enters(n, inst[n].at + 1) /\ row' = [row EXCEPT ![Current(n)].status = "Archived"]
        BY <1>0, <1>5, <2>8, archiveIssuerEffect, Zenon
      <3>3. PICK c \in Issuers : c = Current(n)
        BY <3>1, Zenon
      <3>4. row'[c].status = "Archived"
        BY <1>0, <3>2, <3>3, Zenon DEF BootTypeOK, RowType
      <3>5. Good(v, c)'
        BY <3>1, <3>3, <3>4, Zenon DEF Good
      <3> QED
        BY <2>2, <3>1, <3>2, <3>3, <3>5, Zenon
    <2>9. CASE FindParent(n)
      <3>1. inst[n].pc \in LoopPCs /\ Stays(n, "insert") /\ row' = row
        BY <1>0, <2>9, FindParentEffect, Zenon DEF FindParent, LoopPCs
      <3> QED
        BY <2>3, <3>1, Zenon
    <2>10. CASE RegisterIssuer(n)
      <3>1. inst[n].pc \in LoopPCs /\ Current(n) \in Issuers /\ Current(n) \in Enabled[v]
        BY <1>0, <1>1, <1>5, <2>10, Zenon DEF RegisterIssuer, LoopPCs, Placed
      <3>2. CASE Stays(n, "refind") /\ row' = row
        BY <2>3, <3>1, <3>2, Zenon
      <3>3. CASE Enters(n, inst[n].at + 1) /\ row' = [row EXCEPT ![Current(n)] = Registered(n)]
        <4>1. PICK c \in Issuers : c = Current(n)
          BY <3>1, Zenon
        <4>2. row'[c].status = "Active" /\ row'[c].settings = v
          BY <1>0, <1>5, <3>3, <4>1, Zenon DEF BootTypeOK, Registered
        <4>3. Good(v, c)'
          BY <3>1, <4>1, <4>2, Zenon DEF Good
        <4> QED
          BY <2>2, <3>1, <3>3, <4>1, <4>3, Zenon
      <3> QED
        BY <1>0, <1>5, <2>10, <3>2, <3>3, RegisterIssuerEffect, Zenon
    <2>11. CASE FindRegistered(n)
      <3>1. /\ inst[n].pc \in LoopPCs /\ Current(n) \in Issuers /\ Exists(Current(n))
        BY <1>0, <1>1, <2>11, Zenon DEF FindRegistered, LoopPCs, Placed
      <3>2. Stays(n, "refresh") /\ inst'[n].seen = row[Current(n)] /\ row' = row
        BY <1>0, <2>11, <3>1, FindRegisteredEffect, Zenon
      <3> QED
        BY <2>4, <3>1, <3>2, Zenon
    <2>12. CASE refreshIssuer(n)
      <3>1. /\ inst[n].pc = "refresh" /\ inst[n].pc \in LoopPCs /\ inst[n].v \in Versions
            /\ Current(n) \in Issuers /\ Current(n) \in Enabled[v]
        BY <1>0, <1>1, <1>5, <2>12, Zenon DEF refreshIssuer, LoopPCs, Placed
      <3>2. /\ \/ Stays(n, "anchor")
               \/ Enters(n, inst[n].at + 1)
            /\ row' = [row EXCEPT ![Current(n)] = RefreshedRow(n)]
        BY <1>0, <2>12, <3>1, refreshIssuerEffect, Zenon
      <3>3. PICK c \in Issuers : c = Current(n)
        BY <3>1, Zenon
      <3>4. row'[c].status = "Active" /\ row'[c].settings = v
        BY <1>0, <1>5, <3>1, <3>2, <3>3, Zenon DEF BootTypeOK, RefreshedRow, Fresh
      <3>5. Good(v, c)'
        BY <3>1, <3>3, <3>4, Zenon DEF Good
      <3>6. CASE Enters(n, inst[n].at + 1)
        BY <2>2, <3>1, <3>3, <3>5, <3>6, Zenon
      <3>7. CASE Stays(n, "anchor")
        <4>1. /\ inst'[n].pc = "anchor" /\ inst'[n].v = v /\ inst'[n].at = inst[n].at
              /\ Current(n)' = c
          BY <1>5, <3>3, <3>7, Zenon DEF Stays, Current
        <4>2. ASSUME NEW j \in 1 .. inst[n].at - 1
              PROVE  Good(v, Order[j])'
          <5>1. j \in 1 .. Len(Order)
            BY <1>0, <3>1, Constants DEF Placed
          <5>2. Good(v, Order[j]) /\ Order[j] \in Issuers
            BY <1>5, <3>1, <5>1, Constants, Zenon DEF Fresh
          <5> QED
            BY <1>5, <5>2, Zenon DEF Good, Improves
        <4> QED
          BY <3>5, <4>1, <4>2, Zenon DEF Fresh, Good
      <3> QED
        BY <3>2, <3>6, <3>7, Zenon
    <2>13. CASE RegisterRoot(n)
      <3>1. inst[n].pc = "anchor" /\ inst[n].pc \in LoopPCs /\ Current(n) \in Issuers
        BY <1>1, <2>13, Zenon DEF RegisterRoot, LoopPCs
      <3>2. Enters(n, inst[n].at + 1) /\ row' = row
        BY <1>0, <1>5, <2>13, RegisterRootEffect, Zenon
      <3>3. PICK c \in Issuers : c = Current(n)
        BY <3>1, Zenon
      <3>4. Good(v, c)
        BY <1>5, <3>1, <3>3, Zenon DEF Fresh
      <3>5. Good(v, c)'
        BY <3>2, <3>4, Zenon DEF Good
      <3> QED
        BY <2>2, <3>1, <3>2, <3>3, <3>5, Zenon
    <2>14. ASSUME NEW p \in Labels, RegisterProfile(n, p)
           PROVE  Fresh(n)'
      <3>1. inst[n].pc = "profiles"
        BY <2>14, Zenon DEF RegisterProfile
      <3>2. /\ inst'[n].v = v /\ row' = row /\ profile' = [profile EXCEPT ![p] = v]
            /\ \/ inst[n].todo = {p} /\ inst'[n].pc = "load"
               \/ inst'[n].pc = "profiles" /\ inst'[n].todo = inst[n].todo \ {p}
        BY <1>0, <1>5, <2>14, RegisterProfileEffect, Zenon
      <3>3. ASSUME NEW q \in Profiles[v], q \notin inst[n].todo \/ q = p
            PROVE  profile'[q] = v
        <4>1. q \in Labels
          BY <3>3, Constants, Zenon
        <4>2. CASE q = p
          BY <1>0, <3>2, <4>2, Zenon DEF BootTypeOK
        <4>3. CASE q \notin inst[n].todo
          BY <1>5, <2>1, <3>1, <3>3, <4>1, <4>3, Zenon DEF Fresh
        <4> QED
          BY <3>3, <4>2, <4>3, Zenon
      <3> QED
        BY <1>5, <3>1, <3>2, <3>3, Zenon DEF Fresh, Good, LoopPCs
    <2>15. ASSUME inst[n].pc = "load", inst'[n].pc \in {"load", "done"}, inst'[n].v = v,
                  UNCHANGED <<row, profile>>
           PROVE  Fresh(n)'
      BY <1>5, <2>15, Zenon DEF Fresh, Good, LoopPCs
    <2>16. ASSUME NEW k \in 1 .. Len(Order), LoadFind(n, k)
           PROVE  Fresh(n)'
      <3>1. inst[n].pc = "load" /\ inst'[n].pc = "load" /\ inst'[n].v = v /\ UNCHANGED <<row, profile>>
        BY <1>0, <1>5, <2>16, LoadFindEffect, Zenon DEF LoadFind
      <3> QED
        BY <2>15, <3>1, Zenon
    <2>17. CASE LoadBuild(n)
      <3>1. /\ inst[n].pc = "load" /\ inst'[n].v = v /\ UNCHANGED <<row, profile>>
            /\ inst'[n].pc \in {"failed", "load"}
        BY <1>0, <1>5, <2>17, BuildsWritten, LoadBuildEffect, Zenon DEF LoadBuild, Stays
      <3> QED
        BY <1>2, <2>15, <3>1, Zenon
    <2>18. CASE Serve(n)
      <3>1. inst[n].pc = "load" /\ inst'[n].pc = "done" /\ inst'[n].v = v /\ UNCHANGED <<row, profile>>
        BY <1>0, <1>5, <2>18, ServeEffect, Zenon DEF Serve, Stays
      <3> QED
        BY <2>15, <3>1, Zenon
    <2> QED
      BY <1>5, <2>5, <2>6, <2>7, <2>8, <2>9, <2>10, <2>11, <2>12, <2>13, <2>14, <2>16, <2>17, <2>18, Zenon
      DEF Step, IssuerStep
  <1>6. ASSUME ~\E w \in Versions : Start(n, w), Step(n)
        PROVE  inst[n].pc # "down"
    BY <1>6, Zenon
    DEF Step, IssuerStep, registerRoots, FindIssuer, FindDisabled, archiveIssuer, FindParent,
        RegisterIssuer, FindRegistered, refreshIssuer, RegisterRoot, RegisterProfile, LoadFind,
        LoadBuild, Serve
  <1>7. inst'[n].v # inst[n].v => Fresh(n)'
    BY <1>2, Zenon DEF TableStep
  <1> QED
    BY <1>1, <1>3, <1>4, <1>5, <1>6, <1>7, Zenon

\* A step that leaves the rows and the profiles leaves the start of the others.
LEMMA FreshUnwritten ==
    ASSUME NEW m \in Instances, inst'[m] = inst[m], UNCHANGED <<row, profile>>, Fresh(m)
    PROVE  Fresh(m)'
  <1>1. \A v, i : Good(v, i)' <=> Good(v, i)
    BY Zenon DEF Good
  <1>2. Current(m)' = Current(m)
    BY Zenon DEF Current
  <1>3. inst[m].pc = "anchor" => Good(inst[m].v, Current(m))'
    <2>1. inst[m].pc = "anchor" => Good(inst[m].v, Current(m))
      BY Zenon DEF Fresh
    <2> QED
      BY <1>2, <2>1, Zenon DEF Good
  <1> QED
    BY <1>1, <1>2, <1>3, Zenon DEF Fresh

LEMMA RolledOutStep == BootInv /\ RolledOut /\ [BootNext]_bootVars => RolledOut'
  <1>1. ASSUME BootInv, RolledOut, NEW n \in Instances, Step(n) \/ Stop(n),
               NEW v \in Versions, \A m \in Instances : inst'[m].v = v
        PROVE  \E m \in Instances : Fresh(m)'
    <2>1. TableStep(n)
      BY <1>1, TableStepHolds, Zenon
    <2>2. Improves(n)
      BY <1>1, <2>1, ImprovesHolds, Zenon
    <2>3. (Fresh(n) => Fresh(n)') /\ (inst'[n].v # inst[n].v => Fresh(n)')
      BY <1>1, <2>1, <2>2, FreshOwn, Zenon
    <2>4. CASE inst[n].v = v
      <3>1. \A m \in Instances : inst[m].v = v
        BY <1>1, <2>1, <2>4, Zenon DEF TableStep, Alone
      <3>2. PICK m \in Instances : Fresh(m)
        BY <1>1, <3>1, Zenon DEF RolledOut
      <3>3. CASE m = n
        BY <2>3, <3>2, <3>3, Zenon
      <3>4. CASE m # n
        <4>1. inst[m].v = inst[n].v
          BY <3>1, Zenon
        <4> QED
          BY <1>1, <2>1, <2>2, <3>2, <3>4, <4>1, FreshOthers, Zenon
      <3> QED
        BY <3>3, <3>4, Zenon
    <2>5. CASE inst[n].v # v
      BY <1>1, <2>3, <2>5, Zenon
    <2> QED
      BY <2>4, <2>5, Zenon
  <1>2. ASSUME RolledOut, UNCHANGED bootVars
        PROVE  RolledOut'
    <2>1. row' = row /\ profile' = profile /\ inst' = inst
      BY <1>2, Zenon DEF bootVars
    <2>2. \A n \in Instances : Fresh(n) => Fresh(n)'
      BY <2>1, FreshUnwritten, Zenon
    <2> QED
      BY <1>2, <2>1, <2>2, Zenon DEF RolledOut
  <1> QED
    BY <1>1, <1>2, Zenon DEF BootNext, RolledOut

\* When every instance serves the same configuration, the platform rows are
\* what it says: archiveIssuer, refreshIssuer and RegisterProfile of the last
\* instance to start with it come after everything the others wrote for an
\* earlier one.
THEOREM SettledCorrect == BootSpec => []Settled
  <1>1. BootInit => RolledOut
    <2> SUFFICES ASSUME BootInit, NEW v \in Versions, \A n \in Instances : inst[n].v = v
                 PROVE  FALSE
      BY Zenon DEF RolledOut
    <2>1. PICK n \in Instances : TRUE
      BY BootstrapAssumption, Zenon
    <2>2. inst[n].v = 0 /\ inst[n].v = v
      BY Zenon DEF BootInit, Process
    <2> QED
      BY <2>2, BootstrapAssumption, Zenon
  <1>2. RolledOut => Settled
    <2> SUFFICES ASSUME RolledOut, NEW v \in Versions,
                        \A n \in Instances : inst[n].v = v /\ inst[n].pc = "done"
                 PROVE  /\ \A i \in Enabled[v] : row[i].status = "Active" /\ row[i].settings = v
                        /\ \A i \in Issuers \ Enabled[v] : row[i].status # "Active"
                        /\ \A p \in Profiles[v] : profile[p] = v
      BY Zenon DEF Settled
    <2>1. PICK n \in Instances : Fresh(n)
      BY Zenon DEF RolledOut
    <2>2. (\A i \in Issuers : Good(v, i)) /\ \A p \in Profiles[v] : profile[p] = v
      BY <2>1, Zenon DEF Fresh
    <2>3. Enabled[v] \subseteq Issuers
      BY Constants, Zenon
    <2> QED
      BY <2>2, <2>3, Zenon DEF Good
  <1> QED
    BY <1>1, <1>2, RolledOutStep, BootInvCorrect, PTL DEF BootSpec

-----------------------------------------------------------------------------
(* A start that fails *)

\* The loading of n reads what the start has registered, and finds there the
\* profiles that a consistent version names.
LEMMA LoadsOwn ==
    ASSUME BootInv, NEW n \in Instances, LoadStep(n), Fresh(n), Loads(n)
    PROVE  Loads(n)' /\ ~(inst'[n].pc = "failed" /\ Consistent(inst[n].v))
  <1>0. BootTypeOK /\ Placed(n) /\ inst[n] \in InstType
    BY Zenon DEF BootInv, BootTypeOK
  <1>1. PICK v \in Versions : v = inst[n].v
    BY <1>0, Zenon DEF LoadStep, RegisterProfile, LoadFind, LoadBuild, Placed
  <1>2. ASSUME NEW p \in Labels, RegisterProfile(n, p)
        PROVE  Loads(n)' /\ inst'[n].pc # "failed"
    <2>1. /\ inst'[n].v = v /\ inst'[n].seen = NoRow
          /\ \/ /\ inst'[n].pc = "load" /\ inst'[n].todo = Enabled[v]
                /\ inst'[n].cached = [q \in Labels |-> 0]
             \/ inst'[n].pc = "profiles"
      BY <1>0, <1>1, <1>2, RegisterProfileEffect, Zenon
    <2>2. Profiles[v] \subseteq Labels
      BY Constants, Zenon
    <2> QED
      BY <2>1, <2>2, Zenon DEF Loads
  <1>3. ASSUME NEW k \in 1 .. Len(Order), LoadFind(n, k)
        PROVE  Loads(n)' /\ inst'[n].pc # "failed"
    <2>1. /\ inst'[n].pc = "load" /\ inst'[n].v = v /\ inst'[n].seen = row[Order[k]]
          /\ inst'[n].todo = inst[n].todo \ {Order[k]} /\ inst'[n].cached = inst[n].cached
          /\ Current(n)' = Order[k] /\ inst[n].pc = "load" /\ Order[k] \in inst[n].todo
      BY <1>0, <1>1, <1>3, LoadFindEffect, Zenon DEF LoadFind, Current
    <2>2. /\ inst[n].todo \subseteq Enabled[v] /\ Order[k] \in Enabled[v] /\ Order[k] \in Issuers
          /\ \A p \in Profiles[v] : inst[n].cached[p] \in {0, v}
      BY <1>1, <2>1, Constants, Zenon DEF Loads
    <2>3. row[Order[k]].settings = v
      BY <1>1, <2>1, <2>2, Zenon DEF Fresh, Good
    <2> QED
      BY <2>1, <2>2, <2>3, Zenon DEF Loads
  <1>4. ASSUME LoadBuild(n)
        PROVE  Loads(n)' /\ ~(inst'[n].pc = "failed" /\ Consistent(v))
    <2>1. /\ inst[n].pc = "load" /\ inst[n].todo \subseteq Enabled[v] /\ Current(n) \in Enabled[v]
          /\ inst[n].seen.settings = v /\ \A p \in Profiles[v] : inst[n].cached[p] \in {0, v}
      BY <1>1, <1>4, Zenon DEF LoadBuild, Loads
    <2>2. BuildProfile(n) # NoProfile => BuildProfile(n) \in Labels
      BY <1>0, <1>4, BuildsWritten, Zenon
    <2>3. inst'[n].seen = NoRow /\ inst[n].cached \in [Labels -> Versions \cup {0}]
      BY <1>0, <1>4, <2>2, LoadBuildEffect, Zenon DEF InstType
    <2>4. CASE /\ inst'[n].v = v /\ inst'[n].pc = "load" /\ inst'[n].todo = inst[n].todo
               /\ inst'[n].cached = inst[n].cached
      BY <2>1, <2>3, <2>4, Zenon DEF Loads
    <2>5. ASSUME BuildProfile(n) # NoProfile, NEW u \in FindProfile(n, BuildProfile(n)),
                 inst'[n].v = v, inst'[n].pc = "load", inst'[n].todo = inst[n].todo,
                 inst'[n].cached = [inst[n].cached EXCEPT ![BuildProfile(n)] = u]
          PROVE  Loads(n)' /\ inst'[n].pc # "failed"
      <3>1. BuildProfile(n) \in Profiles[v] => u \in {0, v}
        BY <1>1, <2>1, <2>5, Zenon DEF FindProfile, Fresh
      <3>2. Profiles[v] \subseteq Labels
        BY Constants, Zenon
      <3>3. \A p \in Profiles[v] : inst'[n].cached[p] \in {0, v}
        BY <2>1, <2>2, <2>3, <2>5, <3>1, <3>2, Zenon
      <3> QED
        BY <2>1, <2>3, <2>5, <3>3, Zenon DEF Loads
    <2>6. ASSUME BuildProfile(n) # NoProfile, NEW u \in FindProfile(n, BuildProfile(n)), Consistent(v)
          PROVE  u = v /\ u # 0 /\ profileBinds(BuildProfile(n), u, Current(n), inst[n].seen.settings)
      <3>1. BuildProfile(n) = Delegated[v][Current(n)]
        BY <2>1, Zenon DEF BuildProfile
      <3>2. BuildProfile(n) \in Profiles[v] /\ profileBinds(BuildProfile(n), v, Current(n), v)
        BY <2>1, <2>6, <3>1, Zenon DEF Consistent
      <3>3. profile[BuildProfile(n)] = v
        BY <1>1, <2>1, <3>2, Zenon DEF Fresh
      <3>4. u = v
        BY <2>1, <2>6, <3>2, <3>3, Zenon DEF FindProfile
      <3>5. v # 0
        BY BootstrapAssumption, Zenon
      <3> QED
        BY <2>1, <3>2, <3>4, <3>5, Zenon
    <2>7. \/ /\ Stays(n, "load") /\ inst'[n].todo = inst[n].todo
             /\ inst'[n].cached = inst[n].cached
          \/ /\ BuildProfile(n) # NoProfile
             /\ \E u \in FindProfile(n, BuildProfile(n)) :
                   \/ /\ Stays(n, "load") /\ inst'[n].todo = inst[n].todo
                      /\ inst'[n].cached = [inst[n].cached EXCEPT ![BuildProfile(n)] = u]
                   \/ /\ ~(u # 0 /\ profileBinds(BuildProfile(n), u, Current(n), inst[n].seen.settings))
                      /\ Stays(n, "failed")
      BY <1>0, <1>4, <2>2, LoadBuildEffect, Zenon
    <2>8. CASE /\ Stays(n, "load") /\ inst'[n].todo = inst[n].todo
               /\ inst'[n].cached = inst[n].cached
      BY <1>1, <2>4, <2>8, Zenon DEF Stays
    <2>9. ASSUME BuildProfile(n) # NoProfile, NEW u \in FindProfile(n, BuildProfile(n)),
                 Stays(n, "load"), inst'[n].todo = inst[n].todo,
                 inst'[n].cached = [inst[n].cached EXCEPT ![BuildProfile(n)] = u]
          PROVE  Loads(n)' /\ inst'[n].pc # "failed"
      BY <1>1, <2>5, <2>9, Zenon DEF Stays
    <2>10. ASSUME BuildProfile(n) # NoProfile, NEW u \in FindProfile(n, BuildProfile(n)),
                  ~(u # 0 /\ profileBinds(BuildProfile(n), u, Current(n), inst[n].seen.settings)),
                  Stays(n, "failed")
           PROVE  Loads(n)' /\ ~Consistent(v)
      BY <2>6, <2>10, Zenon DEF Stays, Loads
    <2> QED
      BY <2>7, <2>8, <2>9, <2>10, Zenon
  <1> QED
    BY <1>1, <1>2, <1>3, <1>4, Zenon DEF LoadStep

LEMMA UndisturbedStep == BootInv /\ (\A m \in Instances : Undisturbed(m)) /\ [BootNext]_bootVars =>
                             (\A m \in Instances : Undisturbed(m))'
  <1>1. ASSUME BootInv, \A m \in Instances : Undisturbed(m), NEW n \in Instances, Step(n) \/ Stop(n),
               Overwrites(n), NEW m \in Instances, m \notin overwritten'
        PROVE  /\ inst'[m].pc # "done" => Fresh(m)'
               /\ Loads(m)' /\ ~(inst'[m].pc = "failed" /\ Consistent(inst'[m].v))
    <2>1. TableStep(n)
      BY <1>1, TableStepHolds, Zenon
    <2>2. OwnStep(n) /\ Improves(n)
      BY <1>1, <2>1, OwnStepHolds, ImprovesHolds, Zenon
    <2>3. CASE inst'[m].pc \in {"down", "roots"}
      BY <2>3, Zenon DEF Fresh, Loads, LoopPCs
    <2>4. CASE inst'[m].pc = "done"
      BY <2>4, Zenon DEF Loads
    <2>5. ASSUME inst'[m].pc \notin {"down", "roots", "done"}
          PROVE  /\ Fresh(m)' /\ Loads(m)'
                 /\ ~(inst'[m].pc = "failed" /\ Consistent(inst'[m].v))
      <3>1. m \notin overwritten /\ (inst[m].v = inst[n].v \/ UNCHANGED <<row, profile>>)
        BY <1>1, <2>5, Zenon DEF Overwrites
      <3>2. CASE m # n
        <4>1. inst'[m] = inst[m]
          BY <2>1, <3>2, Zenon DEF TableStep, Alone
        <4>2. Fresh(m) /\ Loads(m) /\ ~(inst[m].pc = "failed" /\ Consistent(inst[m].v))
          BY <1>1, <2>5, <3>1, <4>1, Zenon DEF Undisturbed
        <4>3. Fresh(m)'
          BY <1>1, <2>1, <2>2, <3>1, <3>2, <4>1, <4>2, FreshOthers, FreshUnwritten, Zenon
        <4>4. Loads(m)'
          BY <4>1, <4>2, Zenon DEF Loads, Current
        <4> QED
          BY <4>1, <4>2, <4>3, <4>4, Zenon
      <3>3. CASE m = n
        <4>1. inst[n].pc # "done"
          <5>1. ASSUME inst[n].pc = "done", Step(n)
                PROVE  FALSE
            BY <5>1, Zenon
            DEF Step, IssuerStep, Start, registerRoots, FindIssuer, FindDisabled, archiveIssuer,
                FindParent, RegisterIssuer, FindRegistered, refreshIssuer, RegisterRoot,
                RegisterProfile, LoadFind, LoadBuild, Serve
          <5>2. ASSUME Stop(n)
                PROVE  inst'[n].pc = "down"
            BY <1>1, <5>2, StopEffect, Zenon DEF BootInv
          <5> QED
            BY <1>1, <2>5, <3>3, <5>1, <5>2, Zenon
        <4>2. Fresh(n) /\ Loads(n)
          BY <1>1, <3>1, <3>3, <4>1, Zenon DEF Undisturbed
        <4>3. Fresh(n)'
          BY <1>1, <2>1, <2>2, <4>2, FreshOwn, Zenon
        <4>4. inst'[n].v = inst[n].v
          BY <2>1, <2>5, <3>3, Zenon DEF TableStep
        <4>5. CASE inst'[n].pc \in {"load", "failed"}
          <5>1. Loads(n)' /\ ~(inst'[n].pc = "failed" /\ Consistent(inst[n].v))
            BY <1>1, <2>2, <4>2, <4>5, LoadsOwn, Zenon DEF OwnStep
          <5> QED
            BY <3>3, <4>3, <4>4, <5>1, Zenon
        <4>6. CASE inst'[n].pc \notin {"load", "failed"}
          BY <3>3, <4>3, <4>6, Zenon DEF Loads
        <4> QED
          BY <4>5, <4>6, Zenon
      <3> QED
        BY <3>2, <3>3, Zenon
    <2> QED
      BY <2>3, <2>4, <2>5, Zenon
  <1>2. ASSUME UNCHANGED bootVars, NEW m \in Instances, Undisturbed(m)
        PROVE  Undisturbed(m)'
    <2>1. /\ row' = row /\ profile' = profile /\ inst' = inst /\ overwritten' = overwritten
      BY <1>2, Zenon DEF bootVars
    <2>2. Fresh(m) => Fresh(m)'
      BY <2>1, FreshUnwritten, Zenon
    <2>3. Loads(m) => Loads(m)'
      BY <2>1, Zenon DEF Loads, Current
    <2> QED
      BY <1>2, <2>1, <2>2, <2>3, Zenon DEF Undisturbed, Consistent, profileBinds
  <1>3. ASSUME BootInv, \A m \in Instances : Undisturbed(m), BootNext, NEW m \in Instances
        PROVE  Undisturbed(m)'
    <2>1. PICK n \in Instances : (Step(n) \/ Stop(n)) /\ Overwrites(n)
      BY <1>3, Zenon DEF BootNext
    <2>2. m \notin overwritten' =>
              /\ inst'[m].pc # "done" => Fresh(m)'
              /\ Loads(m)' /\ ~(inst'[m].pc = "failed" /\ Consistent(inst'[m].v))
      BY <1>1, <1>3, <2>1, Zenon
    <2> QED
      BY <2>2, Zenon DEF Undisturbed, Consistent, profileBinds
  <1> QED
    BY <1>2, <1>3, Zenon

\* For configurations whose delegated OCSP profiles are bound to the issuers
\* that name them, a start of Bootstrap ends in an error of build only when an
\* instance of another version wrote an issuer or a profile while it ran.
THEOREM FailsOnlyWhenOverwrittenCorrect == BootSpec => []FailsOnlyWhenOverwritten
  <1>1. BootInit => \A m \in Instances : Undisturbed(m)
    <2> SUFFICES ASSUME BootInit, NEW m \in Instances
                 PROVE  Undisturbed(m)
      BY Zenon
    <2>1. inst[m].pc = "down"
      BY Zenon DEF BootInit, Process
    <2> QED
      BY <2>1, Zenon DEF Undisturbed, Fresh, Loads, LoopPCs
  <1>2. (\A m \in Instances : Undisturbed(m)) => FailsOnlyWhenOverwritten
    BY Zenon DEF Undisturbed, FailsOnlyWhenOverwritten
  <1> QED
    BY <1>1, <1>2, UndisturbedStep, BootInvCorrect, PTL DEF BootSpec
==============================================================================
