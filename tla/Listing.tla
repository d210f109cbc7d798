------------------------------ MODULE Listing ------------------------------
(***************************************************************************)
(* A paged list of an org: the rows a caller's list covers, the pages of   *)
(* the query by keyset or by offset, and the changes that other requests   *)
(* make between two pages.  Rows carry the project they belong to and the  *)
(* value they are sorted by, before their ID: the name of a project, the   *)
(* time of an event, nothing for a list by ID.  The rules a list is        *)
(* filtered by are compared with the rules for a single row (RowAccess).   *)
(***************************************************************************)
EXTENDS Integers, FiniteSets

CONSTANTS
    RowIDs,      \* IDs of rows
    SortValues,  \* values the rows are sorted by
    RowProjects, \* projects of the org
    Limit,       \* page size
    MaxChanges   \* bound: changes of the table, the grants and the projects

NoProject == "org"  \* the zero project: an org-wide row or request

ASSUME ListingAssumption ==
    /\ RowIDs \subseteq Nat \ {0}
    /\ IsFiniteSet(RowIDs)
    /\ SortValues \subseteq Nat
    /\ Limit \in Nat \ {0}
    /\ MaxChanges \in Nat
    /\ RowProjects \cap {NoProject, "none", "deleted"} = {}

Kinds == {"id", "time", "name"}

VARIABLES
    kind,     \* the sort key of the list
    paging,   \* cursor or offset pagination
    table,    \* the rows of the org
    open,     \* projects with status Active
    caller,   \* who lists, with the grants of a user or the project of a key
    request,  \* the project that the list names
    cursor,   \* sort key of the last row of the previous page
    offset,   \* number of rows of the previous pages
    done,     \* the last page had no next page
    changes,  \* bound: changes made
    shown,    \* history: how often a row was listed
    steady,   \* history: rows listed at all times, unchanged, since the start
    moved     \* history: rows renamed since the start

rowVars == <<kind, paging, table, open, caller, request>>
listVars == <<cursor, offset, done, shown>>
listingVars == <<kind, paging, table, open, caller, request, cursor, offset, done, changes,
                 shown, steady, moved>>

-----------------------------------------------------------------------------
(* Tenancy: internal/authctx, backend/scope.go and query/scope.go *)

\* A trusted service, a user with an org-wide role or grants in projects, an
\* API key of the org or of a project.
Callers ==
    [type : {"service"}, orgRole : {FALSE}, projects : {{}}]
    \cup [type : {"user"}, orgRole : BOOLEAN, projects : SUBSET RowProjects]
    \cup [type : {"key"}, orgRole : {FALSE}, projects : {{}} \cup {{p} : p \in RowProjects}]

Restricted(c) == c.type = "key" /\ c.projects # {}

\* CheckRole for Viewer, which every role can assume: an org-wide role is
\* inherited, and a member of a project is a Viewer of the org.
CanView(c, p) ==
    \/ c.orgRole
    \/ p = NoProject /\ c.projects # {}
    \/ p \in c.projects

\* CheckAccess of a list that names the project p.
MayList(c, p) ==
    CASE c.type = "service" -> p \in open \cup {NoProject}
      [] c.type = "user"    -> p \in open \cup {NoProject} /\ CanView(c, p)
      [] c.type = "key"     -> IF Restricted(c) THEN p \in {NoProject} \cup c.projects /\ c.projects \subseteq open
                               ELSE p \in open \cup {NoProject}

\* tenantScope.Project: a restricted key lists its project.
ListedProject(c, p) == IF p = NoProject /\ Restricted(c) THEN CHOOSE q \in c.projects : TRUE ELSE p

\* Variant: a member of a project lists every project.
EveryProject(c) == RowProjects

\* tenantScope.ListProjects: the projects a list of the org includes.
VisibleProjects(c) == IF c.type = "user" /\ ~c.orgRole THEN c.projects ELSE RowProjects

\* whereProjectScope: the rows a list covers.
InScope(c, p, rowProject) ==
    IF ListedProject(c, p) # NoProject THEN rowProject = ListedProject(c, p)
    ELSE rowProject \in VisibleProjects(c) \cup {NoProject}

\* RowAccess of a method that reads the row.
Readable(c, rowProject) ==
    CASE c.type = "service" -> TRUE
      [] c.type = "user"    -> rowProject \in open \cup {NoProject} /\ CanView(c, rowProject)
      [] c.type = "key"     -> \/ rowProject = NoProject
                               \/ rowProject \in open /\ (Restricted(c) => rowProject \in c.projects)

-----------------------------------------------------------------------------
(* Pages: query/cursor.go *)

EmptyRow == [value |-> 0, project |-> "none"]
DeletedRow == [value |-> 0, project |-> "deleted"]  \* an ID is not used again
NoCursor == [value |-> 0, id |-> 0]
Rows == [value : SortValues \cup {0}, project : RowProjects \cup {NoProject}]

\* A list by ID sorts by nothing else; a list by name lists projects, each
\* with the project whose grants count for it.
OfKind(r) ==
    /\ kind = "id" <=> r.value = 0
    /\ kind = "name" => r.project # NoProject

Key(i) == [value |-> table[i].value, id |-> i]

Less(a, b) == a.value < b.value \/ (a.value = b.value /\ a.id < b.id)

\* The row comparison of pageBy: descending, but for a list by name.
Precedes(a, b) ==
    IF kind = "name" THEN Less(a, b) ELSE Less(b, a)

\* The rows that the list of the caller covers.
Listed == {i \in RowIDs : table[i] \in Rows /\ InScope(caller, request, table[i].project)}

\* Variant: a page starts with the last row of the previous one.
FromCursor == {i \in Listed : cursor = NoCursor \/ ~Precedes(Key(i), cursor)}

\* The rows past the cursor.
Remaining == {i \in Listed : cursor = NoCursor \/ Precedes(cursor, Key(i))}

Rank(S, i) == Cardinality({j \in S : Precedes(Key(j), Key(i))})

\* The first Limit rows of S, from the one with the rank n.
PageOf(S, n) == {i \in S : n <= Rank(S, i) /\ Rank(S, i) < n + Limit}

Page == IF paging = "cursor" THEN PageOf(Remaining, 0) ELSE PageOf(Listed, offset)

\* Variant: one row past the page does not count.
HasMore == Cardinality(Remaining) > Limit + 1

\* The query asks for one row more than a page holds.
HasNextPage ==
    IF paging = "cursor" THEN Cardinality(Remaining) > Limit
    ELSE Cardinality(Listed) > offset + Limit

ListingInit ==
    /\ kind \in Kinds
    /\ paging \in {"cursor", "offset"}
    /\ table \in [RowIDs -> {EmptyRow} \cup {r \in Rows : OfKind(r)}]
    /\ open = RowProjects
    /\ caller \in Callers
    /\ request \in IF kind = "name" THEN {NoProject} ELSE RowProjects \cup {NoProject}
    /\ MayList(caller, request)
    /\ cursor = NoCursor
    /\ offset = 0
    /\ done = FALSE
    /\ changes = 0
    /\ shown = [i \in RowIDs |-> 0]
    /\ steady = Listed
    /\ moved = {}

\* A page of the list: the handler resolves the access and the scope again.
NextPage ==
    /\ ~done
    /\ MayList(caller, request)
    /\ shown' = [i \in RowIDs |-> IF i \in Page THEN shown[i] + 1 ELSE shown[i]]
    /\ done' = ~HasNextPage
    /\ IF HasNextPage /\ paging = "cursor"
       THEN \E i \in Page : /\ \A j \in Page : j # i => Precedes(Key(j), Key(i))
                            /\ cursor' = Key(i)
       ELSE UNCHANGED cursor
    /\ offset' = IF HasNextPage /\ paging = "offset" THEN offset + Limit ELSE offset
    /\ UNCHANGED <<rowVars, changes, steady, moved>>

-----------------------------------------------------------------------------
(* Changes between two pages *)

Changed ==
    /\ ~done
    /\ changes < MaxChanges
    /\ changes' = changes + 1
    /\ UNCHANGED <<kind, paging, request, listVars>>

InsertRow(i) ==
    /\ table[i] = EmptyRow
    /\ \E r \in Rows : OfKind(r) /\ table' = [table EXCEPT ![i] = r]
    /\ Changed
    /\ UNCHANGED <<open, caller, steady, moved>>

DeleteRow(i) ==
    /\ table[i] \in Rows
    /\ table' = [table EXCEPT ![i] = DeletedRow]
    /\ steady' = steady \ {i}
    /\ Changed
    /\ UNCHANGED <<open, caller, moved>>

\* UpdateProject and UpdateOrg: the other lists sort by what never changes.
RenameRow(i) ==
    /\ kind = "name"
    /\ table[i] \in Rows
    /\ \E v \in SortValues \ {table[i].value} : table' = [table EXCEPT ![i].value = v]
    /\ steady' = steady \ {i}
    /\ moved' = moved \cup {i}
    /\ Changed
    /\ UNCHANGED <<open, caller>>

\* The grants of the user change.
ChangeGrants ==
    /\ caller.type = "user"
    /\ caller' \in {c \in Callers : c.type = "user" /\ c # caller}
    /\ Changed
    /\ UNCHANGED <<table, open, moved>>
    /\ steady' = steady \cap Listed'

CloseProject(p) ==
    /\ open' = open \ {p}
    /\ Changed
    /\ UNCHANGED <<table, caller, steady, moved>>

ListingNext ==
    \/ NextPage
    \/ \E i \in RowIDs : InsertRow(i) \/ DeleteRow(i) \/ RenameRow(i)
    \/ ChangeGrants
    \/ \E p \in open : CloseProject(p)

ListingSpec == ListingInit /\ [][ListingNext]_listingVars

-----------------------------------------------------------------------------
(* Properties *)

\* A list that pages by cursor to its end shows every row that was there,
\* in the caller's scope and under its sort key all along exactly once,
\* whatever rows are inserted, deleted, renamed or hidden between the pages;
\* by offset it does if nothing changes (pageBy, setPage, listRows).
ListsAllOnce ==
    done /\ (paging = "cursor" \/ changes = 0) => \A i \in steady : shown[i] = 1

\* A list that pages by cursor never shows a row twice that keeps its sort
\* key, not even one deleted or inserted meanwhile (the row comparison past
\* the cursor).
NoRepeats ==
    paging = "cursor" => \A i \in RowIDs \ moved : shown[i] <= 1

\* The filter of a list and the check of a single row agree: a listed row may
\* be read unless its project is closed, and a readable row is listed by a
\* list of the org, but for the org-wide rows that a key of a project reads
\* (ListProjects and whereProjectScope against RowAccess).
ListAgreesWithRowAccess ==
    MayList(caller, request) =>
        \A p \in RowProjects \cup {NoProject} :
            /\ InScope(caller, request, p) => Readable(caller, p) \/ p \in RowProjects \ open
            /\ request = NoProject /\ caller.type # "service" /\ Readable(caller, p) =>
                   InScope(caller, request, p) \/ (p = NoProject /\ Restricted(caller))

=============================================================================
